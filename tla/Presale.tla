------------------------------- MODULE Presale -------------------------------
(***************************************************************************)
(* The presale mode of altcoin/web3bsc/web3bsc.py.  Every block process    *)
(* runs presale_process() with the time stamp of its block: it polls for   *)
(* the right to claim, works out the usual distance between two blocks,    *)
(* and sends the money when the sale starts within two such distances, to   *)
(* the address of the sale, or to the configured pinksale contract.        *)
(* The main loop meanwhile learns the sale from a transfer of the owner    *)
(* (decode_dxsale_details).  They agree through shared values no lock      *)
(* protects; a step reads or writes what another process may change.       *)
(*                                                                         *)
(* presale_start_utc is the sale it was read from.  Block numbers play no  *)
(* part: blocks are their time stamps, and because of retries they are     *)
(* processed in any order.                                                 *)
(***************************************************************************)
EXTENDS Integers, FiniteSets

CONSTANTS
  Procs,     \* the block workers
  Modes,     \* bound: which of _PRESALE_ and _PRESALE_CLAIM_ are switched on
  Sales,     \* bound: the presale contracts
  StartOf,   \* when each of them starts
  Listed,    \* bound: those of each kind the configuration names
  Named,     \* bound: those the owner's transfers name
  None,      \* no sale: the zero address, or presale_start_utc = -1
  MaxTime,   \* bound: the time stamps; every later block counts as this one
  Window,    \* block_dt_collection_max_size, 100 in the code
  UsualGap,  \* what block_dt_collection is filled with, 3 in the code
  Modulus    \* block_dt_collection holds c_ulonglong: 2^64 in the code

Kinds == {"pinksale", "dxsale"}

ASSUME PresaleAssumption ==
  /\ Modes \subseteq SUBSET {"presale", "claim"}
  /\ Listed \in [Kinds -> SUBSET Sales] /\ Named \subseteq Sales
  /\ StartOf \in [Sales -> Nat] /\ None \notin Sales
  /\ MaxTime \in Nat /\ UsualGap \in Nat
  /\ Window \in Nat \ {0, 1}
  /\ Modulus \in Nat /\ Modulus > MaxTime /\ Modulus > UsualGap

Times == 0 .. MaxTime

VARIABLES
  presale, claim,   \* _PRESALE_ and _PRESALE_CLAIM_
  pink,             \* is_pinksale_presale, set with the address of a pinksale
  start, address,   \* presale_start_utc and presale_address
  contract,         \* data_json['contracts'] of each kind, in the main process
  decode,           \* what the main loop is doing to which sale
  prevTs, claimTs,  \* prev_block_timestamp and prev_claim_timestamp
  idx, gaps,        \* block_dt_collection_idx, modulo Window, and block_dt_collection
  fresh,            \* blocks no process has had yet
  slot,             \* the process of each worker; addr is the address it has read
                    \* and, when it has sent the money, where that goes
  sends, claims,    \* history: what each worker has started
  moved,            \* history: a transfer has replaced the start of the pinksale
  overlap           \* history: two processes worked out a distance at one time

flags == <<presale, claim, pink>>
sale == <<start, address, contract, decode, moved>>
clock == <<prevTs, idx, gaps>>
history == <<sends, claims, overlap>>
vars == <<flags, sale, clock, claimTs, fresh, slot, history>>

NoBlock == [at |-> "off", ts |-> 0, knows |-> {}, addr |-> None, tmp |-> 0, touched |-> FALSE]
NoDecode == [at |-> "off", sale |-> None]
-----------------------------------------------------------------------------
Kind == IF pink THEN "pinksale" ELSE "dxsale"
NoContracts == [k \in Kinds |-> None]
Known == {k \in Kinds : contract[k] # None}

\* What __init__ may leave.  Only a sale of the configured kind is put down.
\* Its start is read from it, unless that fails, or is given: then the sale is
\* not put down at all.  The claim mode asks for an address, reads the sale
\* again and forgets the start.  Without an address the owner has to name one.
StartRead == /\ start \in {None, contract[Kind]}
             /\ contract \in {NoContracts, [NoContracts EXCEPT ![Kind] = address]}
StartGiven == start = address /\ contract = NoContracts

Configured ==
  /\ pink \/ claim => address # None
  /\ claim => start = None
  /\ StartRead \/ StartGiven

Init ==
  /\ \E on \in Modes : presale = ("presale" \in on) /\ claim = ("claim" \in on)
  /\ pink \in BOOLEAN
  /\ start \in Sales \cup {None} /\ address \in Listed[Kind] \cup {None}
  /\ contract \in [Kinds -> Sales \cup {None}]
  /\ decode = NoDecode /\ moved = FALSE
  /\ Configured
  /\ prevTs = -1 /\ claimTs = -1
  /\ idx = 1 /\ gaps = [i \in 0 .. Window - 1 |-> UsualGap]
  /\ fresh = Times
  /\ slot = [p \in Procs |-> NoBlock]
  /\ sends = [p \in Procs |-> 0] /\ claims = [p \in Procs |-> 0]
  /\ overlap = FALSE
-----------------------------------------------------------------------------
(* The main loop: decode_dxsale_details *)

\* The owner calls transfer, and the recipient is taken for a DxSale: the contract
\* is put down before it is asked.
Transfer(s) == /\ presale /\ decode = NoDecode
               /\ decode' = [at |-> "calls", sale |-> s]
               /\ contract' = [contract EXCEPT !["dxsale"] = s]
               /\ UNCHANGED <<flags, start, address, moved, clock, claimTs, fresh, slot, history>>

MayFailAnywhere == decode.at # "off"         \* fault: the sale is checked too late

\* A call fails, or the sale is of another token.
MayFail == decode.at = "calls"

DecodeFails == /\ MayFail
               /\ decode' = NoDecode
               /\ UNCHANGED <<flags, start, address, contract, moved, clock, claimTs, fresh, slot, history>>

\* The processes that have read the one, and maybe not the other.
AfterWatch == {"start", "gap", "store", "count", "median", "reset"}
Touched == [p \in Procs |-> [slot[p] EXCEPT !.touched = @ \/ slot[p].at \in AfterWatch]]

DecodeStart == /\ decode.at = "calls"
               /\ decode' = [decode EXCEPT !.at = "address"]
               /\ start' = decode.sale /\ moved' = pink
               /\ slot' = Touched
               /\ UNCHANGED <<flags, address, contract, clock, claimTs, fresh, history>>

DecodeAddress == /\ decode.at = "address"
                 /\ decode' = NoDecode
                 /\ address' = decode.sale
                 /\ slot' = Touched
                 /\ UNCHANGED <<flags, start, contract, moved, clock, claimTs, fresh, history>>
-----------------------------------------------------------------------------
(* presale_process, in the process of worker p *)

At(p, at) == slot[p].at = at
Goto(p, at) == slot' = [slot EXCEPT ![p].at = at]
Leaves(p) == slot' = [slot EXCEPT ![p] = NoBlock]

\* A child process has data_json as it was at the fork.  A claim reads it, and
\* the money of a pinksale goes to the contract in it, which never changes.
TakeBlock(p, ts) ==
  /\ At(p, "off") /\ ts \in fresh
  /\ fresh' = fresh \ ({ts} \ {MaxTime})
  /\ slot' = [slot EXCEPT ![p] = [NoBlock EXCEPT !.at = "claim", !.ts = ts,
                                                !.knows = IF claim THEN Known ELSE {}]]
  /\ UNCHANGED <<flags, sale, clock, claimTs, history>>

PollsClaim(p) == claim /\ slot[p].ts > claimTs

\* presale_claim() is called in place, and its result handed to a process.
AskContract(p) == /\ At(p, "claim") /\ PollsClaim(p) /\ slot[p].knows # {}
                  /\ Goto(p, "ask")
                  /\ UNCHANGED <<flags, sale, clock, claimTs, fresh, history>>

\* The call raises, or there is no contract of this kind: the process dies,
\* and the transactions of its block are never queued.
AskRaises(p) == /\ At(p, "ask") /\ Leaves(p)
                /\ UNCHANGED <<flags, sale, clock, claimTs, fresh, history>>

EndsPoll(p) == /\ claimTs' = slot[p].ts
               /\ slot' = [slot EXCEPT ![p].at = "watch", ![p].knows = {}]
               /\ UNCHANGED <<presale, pink, sale, clock, fresh, sends, overlap>>

\* No contract is known at all, or it is not finalized yet.
NotFinalized(p) == /\ \/ At(p, "claim") /\ PollsClaim(p) /\ slot[p].knows = {}
                      \/ At(p, "ask") /\ Kind \in slot[p].knows
                   /\ EndsPoll(p)
                   /\ UNCHANGED <<claim, claims>>

More(n) == IF n < 2 THEN n + 1 ELSE n

Finalized(p) == /\ At(p, "ask") /\ Kind \in slot[p].knows
                /\ claim' = FALSE
                /\ claims' = [claims EXCEPT ![p] = More(@)]
                /\ EndsPoll(p)

Watch(p) ==
  /\ At(p, "watch") \/ (At(p, "claim") /\ ~PollsClaim(p))
  /\ IF presale
     THEN slot' = [slot EXCEPT ![p] = [@ EXCEPT !.at = "start", !.addr = address,
                                                !.touched = decode.at = "address"]]
     ELSE Leaves(p)
  /\ UNCHANGED <<flags, sale, clock, claimTs, fresh, history>>

NothingSet(p) == None \in {start, slot[p].addr}

NoSale(p) == /\ At(p, "start") /\ NothingSet(p)
             /\ Leaves(p)
             /\ UNCHANGED <<flags, sale, clock, claimTs, fresh, history>>

LateNever(p) == FALSE                        \* fault: an old block is not told from a new one

LateOrSame(p) == prevTs >= slot[p].ts        \* fault: a block of the same time counts as old

\* A later block has been here.
Late(p) == prevTs > slot[p].ts

ReadClock(p) ==
  /\ At(p, "start") /\ ~NothingSet(p)
  /\ IF Late(p) THEN Leaves(p) ELSE Goto(p, "gap")
  /\ prevTs' = IF prevTs < 0 THEN slot[p].ts ELSE prevTs
  /\ overlap' = (overlap \/ (~Late(p) /\ \E q \in Procs : At(q, "gap")))
  /\ UNCHANGED <<flags, sale, idx, gaps, claimTs, fresh, sends, claims>>

\* Behind the clock's back the distance may be negative: it wraps.
TakeGap(p) ==
  /\ At(p, "gap")
  /\ slot' = [slot EXCEPT ![p] = [@ EXCEPT !.at = "store",
                                          !.tmp = (slot[p].ts - prevTs) % Modulus]]
  /\ prevTs' = slot[p].ts
  /\ UNCHANGED <<flags, sale, idx, gaps, claimTs, fresh, history>>

StoreGap(p) == /\ At(p, "store")
               /\ gaps' = [gaps EXCEPT ![idx] = slot[p].tmp]
               /\ slot' = [slot EXCEPT ![p] = [@ EXCEPT !.at = "count", !.tmp = idx]]
               /\ UNCHANGED <<flags, sale, prevTs, idx, claimTs, fresh, history>>

CountGap(p) == /\ At(p, "count")
               /\ idx' = (slot[p].tmp + 1) % Window
               /\ Goto(p, "median")
               /\ UNCHANGED <<flags, sale, prevTs, gaps, claimTs, fresh, history>>

\* The n-th of the first idx entries in order, and their median.
Nth(n) == CHOOSE v \in {gaps[i] : i \in 0 .. idx - 1} :
            /\ Cardinality({i \in 0 .. idx - 1 : gaps[i] < v}) < n
            /\ Cardinality({i \in 0 .. idx - 1 : gaps[i] <= v}) >= n
Median == (Nth((idx + 1) \div 2) + Nth(idx \div 2 + 1)) \div 2

\* Every Window blocks the list is empty and its median raises.
MedianRaises(p) == /\ At(p, "median") /\ idx = 0
                   /\ Leaves(p)
                   /\ UNCHANGED <<flags, sale, clock, claimTs, fresh, history>>

IsTime(p) == slot[p].ts + 2 * Median >= StartOf[start]

NotYet(p) == /\ At(p, "median") /\ idx # 0 /\ ~IsTime(p)
             /\ Leaves(p)
             /\ UNCHANGED <<flags, sale, clock, claimTs, fresh, history>>

\* A pinksale is contributed to under its name, any other sale sent the money by
\* address.  Without the contract the process that should pay dies; who started
\* it does not hear of that.
Recipient(p) == IF pink THEN contract["pinksale"] ELSE slot[p].addr

SendMoney(p) == /\ At(p, "median") /\ idx # 0 /\ IsTime(p)
                /\ sends' = [sends EXCEPT ![p] = More(@)]
                /\ slot' = [slot EXCEPT ![p] = [@ EXCEPT !.at = "reset", !.addr = Recipient(p)]]
                /\ UNCHANGED <<flags, sale, clock, claimTs, fresh, claims, overlap>>

ResetClaim(p) ==                             \* fault: the other flag
  /\ At(p, "reset") /\ claim' = FALSE /\ Leaves(p)
  /\ UNCHANGED <<presale, pink, sale, clock, claimTs, fresh, history>>

ResetPresale(p) == /\ At(p, "reset")
                   /\ presale' = FALSE
                   /\ Leaves(p)
                   /\ UNCHANGED <<claim, pink, sale, clock, claimTs, fresh, history>>
-----------------------------------------------------------------------------
Decode == DecodeFails \/ DecodeStart \/ DecodeAddress

Block(p) == \/ AskContract(p) \/ AskRaises(p) \/ NotFinalized(p) \/ Finalized(p)
            \/ Watch(p) \/ NoSale(p) \/ ReadClock(p)
            \/ TakeGap(p) \/ StoreGap(p) \/ CountGap(p)
            \/ MedianRaises(p) \/ NotYet(p) \/ SendMoney(p) \/ ResetPresale(p)

Next == \/ \E s \in Named : Transfer(s)
        \/ Decode
        \/ \E p \in Procs : Block(p) \/ \E ts \in Times : TakeBlock(p, ts)

Spec == Init /\ [][Next]_vars

\* The operating system runs the processes, and blocks keep coming.
FairSpec == Spec /\ \A p \in Procs : WF_vars(Block(p)) /\ WF_vars(TakeBlock(p, MaxTime))
-----------------------------------------------------------------------------
(* Properties *)

Stages == {"off", "claim", "ask", "watch"} \cup AfterWatch

TypeOK ==
  /\ presale \in BOOLEAN /\ claim \in BOOLEAN /\ pink \in BOOLEAN
  /\ start \in Sales \cup {None} /\ address \in Sales \cup {None}
  /\ contract \in [Kinds -> Sales \cup {None}] /\ moved \in BOOLEAN
  /\ decode \in {NoDecode} \cup [at : {"calls", "address"}, sale : Sales]
  /\ prevTs \in -1 .. MaxTime /\ claimTs \in -1 .. MaxTime
  /\ idx \in 0 .. Window - 1 /\ gaps \in [0 .. Window - 1 -> 0 .. Modulus - 1]
  /\ fresh \subseteq Times
  /\ slot \in [Procs -> [at : Stages, ts : Times, knows : SUBSET Kinds,
                         addr : Sales \cup {None}, tmp : Nat, touched : BOOLEAN]]
  /\ \A p \in Procs : /\ At(p, "store") => slot[p].tmp < Modulus
                      /\ At(p, "count") => slot[p].tmp < Window
                      /\ slot[p].at \in AfterWatch \ {"start"} => start # None
  /\ sends \in [Procs -> 0 .. 2] /\ claims \in [Procs -> 0 .. 2]
  /\ overlap \in BOOLEAN

\* The test of _PRESALE_ and its reset are far apart, and so are those of
\* _PRESALE_CLAIM_: several processes may send, but no worker ever does so
\* twice, which bounds what a start can cost by the number of workers.
OncePerWorker == \A p \in Procs : sends[p] <= 1 /\ claims[p] <= 1

Sends(p) == At(p, "median") /\ slot'[p].at = "reset"

\* Money is sent early only because a negative distance has wrapped, which
\* takes two processes that work out their distances at the same time: late
\* blocks alone never make one.
Due(p) == slot[p].ts + 2 * (MaxTime + UsualGap) >= StartOf[start]
EarlyOnlyIfRaced == [][\A p \in Procs : Sends(p) => Due(p) \/ overlap]_vars

\* The money goes to the sale whose start has come.  The start and the address
\* are shared without a lock, so it may not if the main loop wrote one of them
\* while the process read them; a transfer that turns out to be no sale leaves
\* both as they were.  The money of a pinksale never depends on the address: it
\* goes to the configured contract, which is another sale than the one waited
\* for only after a transfer of the owner has replaced the start, and to nobody
\* when the contract was not put down.
MoneyFitsStart ==
  [][\A p \in Procs : Sends(p) =>
       \/ slot'[p].addr = start
       \/ IF pink THEN moved \/ slot'[p].addr = None ELSE slot[p].touched]_vars

\* When a sale that will start is known and no claim is polled for, the process
\* that is to send its money is started in the end: neither the processes that
\* die on an empty window nor increments that undo each other keep it back.  A
\* later sale may replace it.
Armed == presale /\ ~claim /\ start # None /\ address # None
SendsInTheEnd == Armed ~> \/ ~presale
                          \/ start # None /\ StartOf[start] > MaxTime
=============================================================================
