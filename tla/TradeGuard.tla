----------------------------- MODULE TradeGuard -----------------------------
(***************************************************************************)
(* How altcoin/web3bsc/web3bsc.py limits its trades.  Every trigger starts *)
(* a process of process_trading() for an account and a direction.  It may  *)
(* start a process of _trade_some_token_(), which stamps and counts the    *)
(* trade before it sends it.  They agree through the arrays of             *)
(* trading_details, which no lock protects: each read and each write that  *)
(* another process can notice is a step.                                   *)
(*                                                                         *)
(* The accounts have their own entries in the arrays, so one account       *)
(* stands for all; an entry is indexed by the direction.  A timestamp is   *)
(* kept as its age in seconds, up to Cap, beyond which ages make no        *)
(* difference.  Slot p is one process of process_trading() with the trade  *)
(* it has started.                                                         *)
(***************************************************************************)
EXTENDS Integers

CONSTANTS
  Procs,       \* bound: processes that live at one time
  Used,        \* bound: the directions of triggers and orders ...
  Attended,    \* ... and what they are in a run with the commands kill, clear and "buy n"
  Scopes,      \* bound: the directions a "kill" or "clear" names
  Limit,       \* max_number_of_buys and max_number_of_sells, 1 by default
  LockTimes,   \* values transaction_lock_time may take
  Cap,         \* bound: ages from here on are alike
  MaxOrder,    \* bound: the largest n of the commands "buy n" and "sell n"
  MaxOver      \* bound: no new process once the trades, or the count, are so far over the
               \* limit in such a run, or have reached it in another one

Dirs == {"buy", "sell"}
Opposite(d) == IF d = "buy" THEN "sell" ELSE "buy"

ASSUME GuardAssumption ==
  /\ Used \subseteq Dirs /\ Attended \subseteq Dirs /\ Scopes \subseteq SUBSET Dirs
  /\ Limit \in [Dirs -> Nat \ {0}]
  /\ LockTimes \subseteq Nat /\ LockTimes # {}
  /\ Cap \in Nat /\ \A l \in LockTimes : l + 1 <= Cap
  /\ MaxOrder \in Nat /\ MaxOver \in Nat

VARIABLES
  running, kill,  \* is_running, kill_trading
  age,            \* seconds since last_trade_ts
  cnt,            \* successful_trade_cnt
  swapped,        \* successful_swap_trigger of the buying direction
  lock,           \* transaction_lock_time
  dir,            \* the direction of the process in slot p
  guard,          \* what its process_trading does next
  trade,          \* what its _trade_some_token_ does next
  tmp,            \* the count it has read and is about to write back plus one
  attended,       \* bound: whether the operator gives those commands in this run
  left,           \* history: trades the limit and the operator still allow
  raced,          \* history: the limit was read while a trade was uncounted
  quiet           \* history: seconds since a trade of the account was started

flags == <<running, kill, swapped>>
clock == <<age, lock>>
procs == <<dir, guard, trade, tmp>>
history == <<left, raced, quiet>>
vars == <<flags, clock, cnt, procs, attended, history>>
-----------------------------------------------------------------------------
Init ==
  /\ running = [d \in Dirs |-> FALSE] /\ kill = [d \in Dirs |-> FALSE]
  /\ age = [d \in Dirs |-> Cap] /\ cnt = [d \in Dirs |-> 0]
  /\ swapped = FALSE
  /\ lock \in LockTimes
  /\ dir = [p \in Procs |-> "buy"]
  /\ guard = [p \in Procs |-> "off"] /\ trade = [p \in Procs |-> "off"]
  /\ tmp = [p \in Procs |-> 0]
  /\ attended \in BOOLEAN
  /\ left = Limit /\ raced = [d \in Dirs |-> FALSE] /\ quiet = [d \in Dirs |-> Cap]

Older(n) == IF n < Cap THEN n + 1 ELSE Cap

Tick == /\ age' = [d \in Dirs |-> Older(age[d])]
        /\ quiet' = [d \in Dirs |-> Older(quiet[d])]
        /\ UNCHANGED <<flags, lock, cnt, procs, left, raced>>
-----------------------------------------------------------------------------
(* Triggers and commands *)

Over == IF attended THEN MaxOver ELSE 0

Bounded(d) == /\ left[d] > -Over /\ cnt[d] < Limit[d] + Over
              /\ \A q \in Procs : tmp[q] < Limit[d] + Over

Occupies(p, d) == /\ guard[p] = "off" /\ trade[p] = "off"
                  /\ Bounded(d)
                  /\ dir' = [dir EXCEPT ![p] = d]

StartsGuard(p, d, at) == /\ Occupies(p, d)
                         /\ guard' = [guard EXCEPT ![p] = at]
                         /\ UNCHANGED <<trade, tmp>>

\* A transaction calls trigger_func_to_buy or trigger_func_to_sell.
Trigger(p, d) == /\ StartsGuard(p, d, "limit")
                 /\ UNCHANGED <<flags, clock, cnt, history>>

\* A swap of the token went through: start_buying_if_transaction_success.
SwapSeen(p) == /\ StartsGuard(p, "buy", "swap")
               /\ UNCHANGED <<flags, clock, cnt, history>>

\* What a reset by the operator undoes is written back by a trade that has
\* read the count and not yet written it.
Stale(d) == \E p \in Procs : dir[p] = d /\ trade[p] = "write"

ResetTo(D, n) ==
  /\ kill' = [d \in Dirs |-> IF d \in D THEN FALSE ELSE kill[d]]
  /\ age' = [d \in Dirs |-> IF d \in D THEN Cap ELSE age[d]]
  /\ cnt' = [d \in Dirs |-> IF d \in D THEN Limit[d] - n[d] ELSE cnt[d]]
  /\ left' = [d \in Dirs |-> IF d \in D THEN n[d] ELSE left[d]]
  /\ quiet' = [d \in Dirs |-> IF d \in D THEN Cap ELSE quiet[d]]
  /\ raced' = [d \in Dirs |-> raced[d] \/ (d \in D /\ Stale(d))]
  /\ UNCHANGED <<running, swapped, lock>>

\* The commands "buy" and "sell".
Order(p, d) == /\ ~running[d]
               /\ Trigger(p, d)

\* The commands "buy n" and "sell n".
CountedOrder(p, d, n) == /\ ~running[d]
                         /\ StartsGuard(p, d, "limit")
                         /\ ResetTo({d}, [e \in Dirs |-> n])

\* A trade without a guard, on top of the limit.
Unguarded(p) == /\ Occupies(p, "buy")
                /\ trade' = [trade EXCEPT ![p] = "stamp"]
                /\ quiet' = [d \in Dirs |-> 0]
                /\ UNCHANGED <<flags, clock, cnt, guard, tmp, left, raced>>

\* The command "buythis".
BuyThis(p) == Unguarded(p)

\* The command "presale": a transfer, which counts and stamps as a buy does.
SendPresale(p) == Unguarded(p)

\* The commands "kill", "kill buy" and "kill sell".
KillCommand(D) == /\ kill' = [d \in Dirs |-> d \in D \/ kill[d]]
                  /\ UNCHANGED <<running, swapped, clock, cnt, procs, history>>

\* The commands "clear", "clear buy" and "clear sell".
ClearCommand(D) == ResetTo(D, Limit) /\ UNCHANGED procs

\* The command "locktime", or a setTransactionlockTime of the token.
SetLockTime(l) == /\ lock' = l
                  /\ UNCHANGED <<flags, age, cnt, procs, history>>
-----------------------------------------------------------------------------
(* process_trading *)

At(p, at) == guard[p] = at
Goto(p, to) == guard' = [guard EXCEPT ![p] = to] /\ UNCHANGED <<dir, trade, tmp>>

SwapCheck(p) == /\ At(p, "swap")
                /\ Goto(p, IF swapped THEN "off" ELSE "swapset")
                /\ UNCHANGED <<flags, clock, cnt, history>>

SwapSet(p) == /\ At(p, "swapset")
              /\ swapped' = TRUE
              /\ Goto(p, "limit")
              /\ UNCHANGED <<running, kill, clock, cnt, history>>

DoneOffByOne(d) == cnt[d] > Limit[d]        \* fault: one trade too many

Done(d) == cnt[d] >= Limit[d]

\* A process that has found the limit not reached and may yet trade, or a
\* trade that is not in the count yet.
Uncounted(p, d) ==
  /\ dir[p] = d
  /\ \/ guard[p] \in {"check", "set", "opposite", "lock", "count", "kill"}
     \/ trade[p] \in {"stamp", "read", "write"}

ReadLimit(p) ==
  /\ At(p, "limit")
  /\ Goto(p, IF Done(dir[p]) THEN "off" ELSE "check")
  /\ raced' = [raced EXCEPT ![dir[p]] = @ \/ \E q \in Procs : Uncounted(q, dir[p])]
  /\ UNCHANGED <<flags, clock, cnt, left, quiet>>

CheckRunning(p) == /\ At(p, "check")
                   /\ Goto(p, IF running[dir[p]] THEN "off" ELSE "set")
                   /\ UNCHANGED <<flags, clock, cnt, history>>

SetRunning(p) == /\ At(p, "set")
                 /\ running' = [running EXCEPT ![dir[p]] = TRUE]
                 /\ Goto(p, "opposite")
                 /\ UNCHANGED <<kill, swapped, clock, cnt, history>>

StopOpposite(p) ==
  LET o == Opposite(dir[p])
  IN /\ At(p, "opposite")
     /\ kill' = [kill EXCEPT ![o] = @ \/ running[o]]
     /\ Goto(p, "lock")
     /\ UNCHANGED <<running, swapped, clock, cnt, history>>

\* The loop: the lock time, then the limit, then the order to stop.
LockOver(d) == age[d] >= lock + 1

StartTrade(p) ==
  /\ At(p, "lock") /\ LockOver(dir[p])
  /\ guard' = [guard EXCEPT ![p] = "clear"]
  /\ trade' = [trade EXCEPT ![p] = "stamp"]
  /\ left' = [left EXCEPT ![dir[p]] = @ - 1]
  /\ quiet' = [d \in Dirs |-> 0]
  /\ UNCHANGED <<flags, clock, cnt, dir, tmp, raced>>

WaitForLock(p) == /\ At(p, "lock") /\ ~LockOver(dir[p])
                  /\ Goto(p, "count")
                  /\ UNCHANGED <<flags, clock, cnt, history>>

RereadLimitReturns(p) ==        \* fault: return where the code breaks
  /\ At(p, "count") /\ Goto(p, IF Done(dir[p]) THEN "off" ELSE "kill")
  /\ UNCHANGED <<flags, clock, cnt, history>>

RereadLimit(p) == /\ At(p, "count")
                  /\ Goto(p, IF Done(dir[p]) THEN "clear" ELSE "kill")
                  /\ UNCHANGED <<flags, clock, cnt, history>>

ObeyKillNever(p) ==             \* fault: the flag is not looked at
  /\ At(p, "kill") /\ Goto(p, "lock")
  /\ UNCHANGED <<flags, clock, cnt, history>>

ObeyKill(p) == /\ At(p, "kill")
               /\ Goto(p, IF kill[dir[p]] THEN "clear" ELSE "lock")
               /\ UNCHANGED <<flags, clock, cnt, history>>

ClearRunning(p) == /\ At(p, "clear")
                   /\ running' = [running EXCEPT ![dir[p]] = FALSE]
                   /\ Goto(p, "off")
                   /\ UNCHANGED <<kill, swapped, clock, cnt, history>>
-----------------------------------------------------------------------------
(* _trade_some_token_ *)

TradeStep(p, from, to) == /\ trade[p] = from
                          /\ trade' = [trade EXCEPT ![p] = to]
                          /\ UNCHANGED <<dir, guard>>

StampOwn(p) ==                  \* fault: the other direction keeps its old stamp
  /\ TradeStep(p, "stamp", "read") /\ age' = [age EXCEPT ![dir[p]] = 0]
  /\ UNCHANGED <<flags, lock, cnt, tmp, history>>

\* Both directions.  A process reads the stamp of its own one only.
Stamp(p) == /\ TradeStep(p, "stamp", "read")
            /\ age' = [d \in Dirs |-> 0]
            /\ UNCHANGED <<flags, lock, cnt, tmp, history>>

\* successful_trade_cnt += 1 is a read and a write.
ReadCount(p) == /\ TradeStep(p, "read", "write")
                /\ tmp' = [tmp EXCEPT ![p] = cnt[dir[p]]]
                /\ UNCHANGED <<flags, clock, cnt, history>>

WriteCount(p) == /\ TradeStep(p, "write", "prepare")
                 /\ cnt' = [cnt EXCEPT ![dir[p]] = tmp[p] + 1]
                 /\ tmp' = [tmp EXCEPT ![p] = 0]
                 /\ UNCHANGED <<flags, clock, history>>

\* No decimals, no gas, not enough money for the fee, an exception: the trade
\* is over, and stays counted.
Refused(p) == /\ trade[p] \in {"prepare", "build", "sign"}
              /\ TradeStep(p, trade[p], "off")
              /\ UNCHANGED <<flags, clock, cnt, tmp, history>>

\* Contract, account, gas price, balance and nonce are there.
Prepare(p) == /\ TradeStep(p, "prepare", "build")
              /\ UNCHANGED <<flags, clock, cnt, tmp, history>>

\* The transaction of its kind is built, with the help of the node.
Build(p) == /\ TradeStep(p, "build", "sign")
            /\ UNCHANGED <<flags, clock, cnt, tmp, history>>

\* It is signed and, if the program is armed, sent.
Send(p) == /\ TradeStep(p, "sign", "off")
           /\ UNCHANGED <<flags, clock, cnt, tmp, history>>

\* min_money: too little is left on the account.
OutOfMoney(p) == /\ TradeStep(p, "prepare", "off")
                 /\ kill' = [kill EXCEPT ![dir[p]] = TRUE]
                 /\ UNCHANGED <<running, swapped, clock, cnt, tmp, history>>
-----------------------------------------------------------------------------
Guard(p) == /\ \/ SwapCheck(p) \/ SwapSet(p) \/ ReadLimit(p) \/ CheckRunning(p)
               \/ SetRunning(p) \/ StopOpposite(p) \/ StartTrade(p) \/ WaitForLock(p)
               \/ RereadLimit(p) \/ ObeyKill(p) \/ ClearRunning(p)
            /\ UNCHANGED attended

Trade(p) == \/ Stamp(p) \/ ReadCount(p) \/ WriteCount(p)
            \/ Refused(p) \/ OutOfMoney(p) \/ Prepare(p) \/ Build(p) \/ Send(p)

Watched == IF attended THEN Attended ELSE Used

Starts(p) == \/ SwapSeen(p) \/ BuyThis(p) \/ SendPresale(p)
             \/ \E d \in Watched : \/ Trigger(p, d) \/ Order(p, d)
                                   \/ /\ attended
                                      /\ \E n \in 1 .. MaxOrder : CountedOrder(p, d, n)

Commands == \/ attended /\ \E D \in Scopes : KillCommand(D) \/ ClearCommand(D)
            \/ \E l \in LockTimes : SetLockTime(l)

Next == \/ \E p \in Procs : Guard(p)
        \/ /\ Tick \/ Commands \/ \E p \in Procs : Trade(p) \/ Starts(p)
           /\ UNCHANGED attended

Spec == Init /\ [][Next]_vars

\* The operating system runs every guard.  No assumption on time: KillWorks
\* must not rest on the lock time running out, nor on a trade coming to its end.
FairSpec == Spec /\ \A p \in Procs : WF_vars(Guard(p))
-----------------------------------------------------------------------------
(* Properties *)

\* The lowest count: 0, or what the largest order leaves.
Lowest(d) == IF Limit[d] < MaxOrder THEN Limit[d] - MaxOrder ELSE 0

Stages == {"off", "swap", "swapset", "limit", "check", "set", "opposite",
           "lock", "count", "kill", "clear"}

TypeOK ==
  /\ running \in [Dirs -> BOOLEAN] /\ kill \in [Dirs -> BOOLEAN]
  /\ age \in [Dirs -> 0 .. Cap] /\ quiet \in [Dirs -> 0 .. Cap]
  /\ cnt \in [Dirs -> Int] /\ \A d \in Dirs : cnt[d] >= Lowest(d)
  /\ swapped \in BOOLEAN
  /\ lock \in LockTimes
  /\ dir \in [Procs -> Dirs]
  /\ guard \in [Procs -> Stages]
  /\ trade \in [Procs -> {"off", "stamp", "read", "write", "prepare", "build", "sign"}]
  /\ \A p \in Procs : trade[p] # "off" => guard[p] \in {"off", "clear"}
  /\ tmp \in [Procs -> Int]
  /\ \A p \in Procs : IF trade[p] = "write" THEN tmp[p] >= Lowest(dir[p]) ELSE tmp[p] = 0
  /\ attended \in BOOLEAN
  /\ left \in [Dirs -> Int]
  /\ raced \in [Dirs -> BOOLEAN]

\* is_running never outlives its owners: while it is set some process has
\* set it and will clear it, so no direction is shut for good, although two
\* processes may both have set it and the first to end clears it for both.
Owns(p, d) == dir[p] = d /\ guard[p] \in {"opposite", "lock", "count", "kill", "clear"}

RunningIsHeld == \A d \in Dirs : running[d] => \E p \in Procs : Owns(p, d)

\* The limit only fails through a race: as long as no process has read the
\* count while a trade of its direction was not in it, and no reset met a
\* half-done increment, no more trades are started than the limit, the
\* orders and the resets allow.
LimitUnlessRaced == \A d \in Dirs : left[d] < 0 => raced[d]

\* The lock time only fails through a race: a guarded trade starts
\* lock time + 1 after the last one of the account, in either direction,
\* unless that one has not put down its time stamp yet.
Begins(p) == At(p, "lock") /\ guard'[p] = "clear" /\ trade'[p] = "stamp"

IntervalUnlessRaced ==
  [][\A p \in Procs : Begins(p) => \/ quiet[dir[p]] >= lock + 1
                                   \/ \E q \in Procs : trade[q] = "stamp"]_vars

\* An order to stop ends a process that waits for the lock time, without the
\* lock time having to run out.
KillWorks ==
  \A p \in Procs : At(p, "count") /\ kill[dir[p]] ~> At(p, "off") \/ ~kill[dir[p]]
=============================================================================
