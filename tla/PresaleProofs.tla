---------------------------- MODULE PresaleProofs ----------------------------
(***************************************************************************)
(* Proofs about Presale, for any number of workers and blocks, any window  *)
(* and any sales.                                                          *)
(*                                                                         *)
(* The inductive invariant has a part for each thing that the processes    *)
(* share without a lock: the flags, the sale, and the clock.               *)
(***************************************************************************)
EXTENDS Presale, FiniteSetTheorems, WellFoundedInduction, TLAPS

Slots == [at : Stages, ts : Times, knows : SUBSET Kinds,
          addr : Sales \cup {None}, tmp : Nat, touched : BOOLEAN]

\* Who has sent finds _PRESALE_ reset when he is back, and the same for claims.
Once(p) ==
  /\ sends[p] <= 1 /\ claims[p] <= 1
  /\ sends[p] = 1 => At(p, "reset") \/ (~presale /\ slot[p].at \notin AfterWatch)
  /\ claims[p] = 1 => ~claim /\ ~At(p, "ask")

OnceInv == \A p \in Procs : Once(p)

\* Start and address are of one sale while nobody writes them, and so is what
\* a process that has not sent yet has read of them; the pinksale's contract is
\* of that sale too, if there is one, until a transfer replaces the start.
SaleInv ==
  /\ IF decode.at = "address" THEN start = decode.sale ELSE start \in {None, address}
  /\ pink /\ ~moved => None \in {start, contract["pinksale"]} \/ start = contract["pinksale"]
  /\ \A p \in Procs : slot[p].at \in AfterWatch \ {"reset"} /\ ~slot[p].touched
                         => start \in {None, slot[p].addr}

MaxGap == MaxTime + UsualGap

\* Without a race every distance is one between a block and a later one.
ClockInv ==
  ~overlap =>
    /\ \A i \in 0 .. Window - 1 : gaps[i] <= MaxGap
    /\ \A p \in Procs : At(p, "store") => slot[p].tmp <= MaxGap
    /\ \A p \in Procs : At(p, "gap") => /\ 0 <= prevTs /\ prevTs <= slot[p].ts
                                        /\ \A q \in Procs : At(q, "gap") => q = p

IInv == TypeOK /\ OnceInv /\ SaleInv /\ ClockInv
-----------------------------------------------------------------------------
LEMMA Numbers ==
  /\ MaxTime \in Nat /\ UsualGap \in Nat /\ Window \in Nat /\ Window > 1
  /\ Modulus \in Nat /\ Modulus > MaxTime /\ Modulus > UsualGap /\ Modulus > 0
  /\ None \notin Sales /\ StartOf \in [Sales -> Nat] /\ Named \subseteq Sales
  /\ Listed \in [Kinds -> SUBSET Sales]
BY PresaleAssumption

LEMMA Remainder ==
  /\ \A i \in Int, n \in Nat : n > 0 => i % n \in 0 .. n - 1
  /\ \A i \in Nat, n \in Nat : i < n => i % n = i
OBVIOUS

LEMMA InvInit == Init => IInv
<1> SUFFICES ASSUME Init PROVE IInv
  OBVIOUS
<1>1. \A p \in Procs : slot[p] = NoBlock /\ sends[p] = 0 /\ claims[p] = 0
  BY DEF Init
<1>2. TypeOK
  <2>1. NoBlock \in Slots
    BY Numbers DEF NoBlock, Slots, Stages, Times
  <2>2. slot \in [Procs -> Slots]
    BY <2>1 DEF Init
  <2>3. \A p \in Procs : ~At(p, "store") /\ ~At(p, "count") /\ slot[p].at \notin AfterWatch
    BY <1>1, Numbers DEF NoBlock, At, AfterWatch
  <2>4. /\ prevTs \in -1 .. MaxTime /\ claimTs \in -1 .. MaxTime /\ idx \in 0 .. Window - 1
        /\ gaps \in [0 .. Window - 1 -> 0 .. Modulus - 1]
    BY Numbers DEF Init
  <2>5. presale \in BOOLEAN /\ claim \in BOOLEAN /\ pink \in BOOLEAN
    BY DEF Init
  <2>6. sends \in [Procs -> 0 .. 2] /\ claims \in [Procs -> 0 .. 2]
    BY DEF Init
  <2>7. address \in Sales \cup {None}
    <3>1. Kind \in Kinds
      BY DEF Kind, Kinds
    <3>2. QED BY <3>1, Numbers DEF Init
  <2>8. QED BY <2>2, <2>3, <2>4, <2>5, <2>6, <2>7 DEF Init, TypeOK, Slots, NoDecode
<1>3. OnceInv
  BY <1>1 DEF OnceInv, Once
<1>4. SaleInv
  <2>1. contract["pinksale"] \in {None, address} /\ contract["dxsale"] \in {None, address}
    BY DEF Init, Configured, StartRead, StartGiven, NoContracts, Kinds
  <2>2. start \in {None, address}
    BY <2>1 DEF Init, Configured, StartRead, StartGiven, Kind
  <2>3. pink => None \in {start, contract["pinksale"]} \/ start = contract["pinksale"]
    BY DEF Init, Configured, StartRead, StartGiven, Kind, NoContracts, Kinds
  <2>4. \A p \in Procs : slot[p].at \notin AfterWatch
    BY <1>1 DEF NoBlock, AfterWatch
  <2>5. QED BY <2>2, <2>3, <2>4 DEF Init, SaleInv, NoDecode
<1>5. ClockInv
  BY <1>1, Numbers DEF Init, ClockInv, NoBlock, At, MaxGap
<1>6. QED BY <1>2, <1>3, <1>4, <1>5 DEF IInv
-----------------------------------------------------------------------------
(* Types *)

\* What TypeOK says of the worker p alone.
SlotOK(p) == /\ slot[p] \in Slots
             /\ At(p, "store") => slot[p].tmp < Modulus
             /\ At(p, "count") => slot[p].tmp < Window
             /\ slot[p].at \in AfterWatch \ {"start"} => start # None

SharedOK ==
  /\ presale \in BOOLEAN /\ claim \in BOOLEAN /\ pink \in BOOLEAN
  /\ start \in Sales \cup {None} /\ address \in Sales \cup {None}
  /\ contract \in [Kinds -> Sales \cup {None}] /\ moved \in BOOLEAN
  /\ decode \in {NoDecode} \cup [at : {"calls", "address"}, sale : Sales]
  /\ prevTs \in -1 .. MaxTime /\ claimTs \in -1 .. MaxTime
  /\ idx \in 0 .. Window - 1 /\ gaps \in [0 .. Window - 1 -> 0 .. Modulus - 1]
  /\ fresh \subseteq Times
  /\ sends \in [Procs -> 0 .. 2] /\ claims \in [Procs -> 0 .. 2] /\ overlap \in BOOLEAN

LEMMA TypeParts ==
  TypeOK <=> SharedOK /\ slot \in [Procs -> Slots] /\ \A p \in Procs : SlotOK(p)
BY DEF TypeOK, SharedOK, SlotOK, Slots

\* A worker has come to its next step, and left the sale alone.
LEMMA SlotStep ==
  ASSUME TypeOK, NEW p \in Procs, NEW s \in Slots, slot' = [slot EXCEPT ![p] = s],
         SharedOK', start' = start, s.at = "store" => s.tmp < Modulus, s.at = "count" => s.tmp < Window,
         s.at \in AfterWatch \ {"start"} => start # None
  PROVE  TypeOK'
<1>1. slot' \in [Procs -> Slots]
  BY TypeParts
<1>2. \A q \in Procs : slot'[q] = IF q = p THEN s ELSE slot[q]
  BY TypeParts
<1>3. ASSUME NEW q \in Procs PROVE SlotOK(q)'
  <2>1. CASE q = p
    BY <1>2, <2>1 DEF SlotOK, At
  <2>2. CASE q # p
    <3>1. SlotOK(q)
      BY TypeParts
    <3>2. QED BY <1>2, <2>2, <3>1 DEF SlotOK, At
  <2>3. QED BY <2>1, <2>2
<1>4. QED BY <1>1, <1>3 DEF TypeOK, SharedOK, SlotOK, Slots

\* The fields of an entry that is changed stay what they are.
LEMMA SlotFields ==
  ASSUME TypeOK, NEW p \in Procs
  PROVE  /\ slot[p] \in Slots /\ slot[p].at \in Stages /\ slot[p].ts \in Times
         /\ slot[p].knows \in SUBSET Kinds /\ slot[p].addr \in Sales \cup {None}
         /\ slot[p].tmp \in Nat /\ slot[p].touched \in BOOLEAN /\ SlotOK(p)
<1>1. slot[p] \in Slots /\ SlotOK(p)
  BY TypeParts
<1>2. QED BY <1>1 DEF Slots

LEMMA NoBlockOK == NoBlock \in Slots /\ NoBlock.at = "off" /\ NoBlock.tmp = 0
BY Numbers DEF NoBlock, Slots, Stages, Times, AfterWatch

\* A worker whose process ends.
LEMMA TypeLeaves ==
  ASSUME TypeOK, NEW p \in Procs, Leaves(p), SharedOK', start' = start
  PROVE  TypeOK'
BY NoBlockOK, SlotStep, Numbers DEF Leaves, AfterWatch

\* A worker whose process goes on to its next step.
LEMMA TypeGoto ==
  ASSUME TypeOK, NEW p \in Procs, NEW at \in Stages \ {"store", "count"}, Goto(p, at),
         SharedOK', start' = start, at \in AfterWatch \ {"start"} => start # None
  PROVE  TypeOK'
<1> DEFINE s == [slot[p] EXCEPT !.at = at]
<1>1. s \in Slots /\ s.at = at
  BY SlotFields DEF Slots
<1>2. slot' = [slot EXCEPT ![p] = s]
  BY DEF Goto
<1>3. QED BY <1>1, <1>2, SlotStep

LEMMA TypeSale ==
  ASSUME TypeOK, \/ \E s \in Named : Transfer(s)
                 \/ Decode
  PROVE  TypeOK'
<1>1. SharedOK'
  BY Numbers, TypeParts DEF SharedOK, Transfer, Decode, DecodeFails, MayFail, DecodeStart,
       DecodeAddress, NoDecode, Kinds, flags, clock, history
<1>2. CASE (\E s \in Named : Transfer(s)) \/ DecodeFails
  <2>1. slot' = slot /\ start' = start
    BY <1>2 DEF Transfer, DecodeFails
  <2>2. \A p \in Procs : SlotOK(p)'
    BY <2>1, TypeParts DEF SlotOK, At
  <2>3. QED BY <1>1, <2>1, <2>2, TypeParts DEF TypeOK, SharedOK, SlotOK, Slots
<1>3. CASE DecodeStart \/ DecodeAddress
  <2>1. slot' = Touched /\ (start # None => start' # None)
    BY <1>3, TypeParts, Numbers DEF SharedOK, DecodeStart, DecodeAddress, NoDecode
  <2>2. ASSUME NEW p \in Procs
        PROVE  slot'[p] \in Slots /\ SlotOK(p)'
    <3>1. slot'[p] = [slot[p] EXCEPT !.touched = slot[p].touched \/ slot[p].at \in AfterWatch]
      BY <2>1 DEF Touched
    <3>2. /\ slot'[p] \in Slots /\ slot'[p].at = slot[p].at /\ slot'[p].tmp = slot[p].tmp
      BY <3>1, SlotFields DEF Slots
    <3>3. QED BY <2>1, <3>2, SlotFields DEF SlotOK, At
  <2>3. slot' \in [Procs -> Slots]
    BY <2>1, <2>2 DEF Touched
  <2>4. QED BY <1>1, <2>2, <2>3 DEF TypeOK, SharedOK, SlotOK, Slots
<1>4. QED BY <1>2, <1>3 DEF Decode

\* The clock's steps: what is stored is a remainder, and so is the index.
LEMMA TypeClock ==
  ASSUME TypeOK, NEW p \in Procs, TakeGap(p) \/ StoreGap(p) \/ CountGap(p)
  PROVE  TypeOK'
<1>1. CASE TakeGap(p)
  <2> DEFINE d == (slot[p].ts - prevTs) % Modulus
             s == [slot[p] EXCEPT !.at = "store", !.tmp = d]
  <2>1. d \in 0 .. Modulus - 1
    <3>1. slot[p].ts - prevTs \in Int
      BY SlotFields, TypeParts, Numbers DEF SharedOK, Times
    <3>2. QED BY <3>1, Numbers, Remainder
  <2>2. slot' = [slot EXCEPT ![p] = s] /\ prevTs' = slot[p].ts /\ start' = start
    BY <1>1 DEF TakeGap, sale
  <2> HIDE DEF d
  <2>3. s \in Slots /\ s.at = "store" /\ s.tmp = d /\ d < Modulus
    <3>1. d \in Nat /\ d < Modulus /\ "store" \in Stages
      BY <2>1, Numbers DEF Stages, AfterWatch
    <3>2. slot[p] \in Slots
      BY SlotFields
    <3>3. QED BY <3>1, <3>2 DEF Slots
  <2>4. SharedOK'
    <3>1. prevTs' \in -1 .. MaxTime
      BY <2>2, SlotFields, Numbers DEF Times
    <3>2. QED BY <1>1, <3>1, TypeParts DEF SharedOK, TakeGap, flags, sale, history
  <2>5. start # None
    BY <1>1, SlotFields DEF TakeGap, At, SlotOK, AfterWatch
  <2>6. QED BY <2>2, <2>3, <2>4, <2>5, SlotStep
<1>2. CASE StoreGap(p)
  <2> DEFINE s == [slot[p] EXCEPT !.at = "count", !.tmp = idx]
  <2>1. s \in Slots /\ s.at = "count" /\ s.tmp = idx /\ idx < Window
    <3>1. idx \in Nat /\ idx < Window /\ "count" \in Stages
      BY TypeParts, Numbers DEF SharedOK, Stages, AfterWatch
    <3>2. slot[p] \in Slots
      BY SlotFields
    <3>3. QED BY <3>1, <3>2 DEF Slots
  <2>2. slot' = [slot EXCEPT ![p] = s] /\ gaps' = [gaps EXCEPT ![idx] = slot[p].tmp]
    BY <1>2 DEF StoreGap
  <2>3. slot[p].tmp \in 0 .. Modulus - 1
    BY <1>2, SlotFields, Numbers DEF SlotOK, StoreGap
  <2>4. gaps' \in [0 .. Window - 1 -> 0 .. Modulus - 1]
    BY <2>2, <2>3, TypeParts DEF SharedOK
  <2>5. SharedOK'
    BY <1>2, <2>4, TypeParts DEF SharedOK, StoreGap, flags, sale, history
  <2>6. start # None /\ start' = start
    BY <1>2, SlotFields DEF StoreGap, At, SlotOK, AfterWatch, sale
  <2>7. QED BY <2>1, <2>2, <2>5, <2>6, SlotStep
<1>3. CASE CountGap(p)
  <2>1. idx' \in 0 .. Window - 1
    BY <1>3, SlotFields, Numbers, Remainder DEF CountGap
  <2>2. SharedOK'
    BY <1>3, <2>1, TypeParts DEF SharedOK, CountGap, flags, sale, history
  <2>3. start # None
    BY <1>3, SlotFields DEF CountGap, At, SlotOK, AfterWatch
  <2>4. QED BY <1>3, <2>2, <2>3, TypeGoto DEF CountGap, sale, Stages, AfterWatch
<1>4. QED BY <1>1, <1>2, <1>3

LEMMA TypeBlock ==
  ASSUME TypeOK, NEW p \in Procs, Block(p)
  PROVE  TypeOK'
<1>1. CASE AskContract(p)
  <2>1. SharedOK' /\ start' = start
    BY <1>1, TypeParts DEF SharedOK, AskContract, flags, sale, clock, history
  <2>2. QED BY <1>1, <2>1, TypeGoto DEF AskContract, Stages, AfterWatch
<1>2. CASE AskRaises(p) \/ NoSale(p) \/ MedianRaises(p) \/ NotYet(p)
  <2>1. SharedOK' /\ start' = start
    BY <1>2, TypeParts DEF SharedOK, AskRaises, NoSale, MedianRaises, NotYet,
         flags, sale, clock, history
  <2>2. QED BY <1>2, <2>1, TypeLeaves DEF AskRaises, NoSale, MedianRaises, NotYet
<1>3. CASE NotFinalized(p) \/ Finalized(p)
  <2>1. EndsPoll(p)
    BY <1>3 DEF NotFinalized, Finalized
  <2>2. claimTs' \in -1 .. MaxTime
    BY <2>1, SlotFields, Numbers DEF EndsPoll, Times
  <2>3. claim' \in BOOLEAN /\ claims' \in [Procs -> 0 .. 2]
    <3>1. claim \in BOOLEAN /\ claims \in [Procs -> 0 .. 2]
      BY TypeParts DEF SharedOK
    <3>2. More(claims[p]) \in 0 .. 2
      BY <3>1 DEF More
    <3>3. QED BY <1>3, <3>1, <3>2 DEF NotFinalized, Finalized
  <2>4. SharedOK' /\ start' = start
    BY <2>1, <2>2, <2>3, TypeParts DEF SharedOK, EndsPoll, sale, clock
  <2> DEFINE s == [slot[p] EXCEPT !.at = "watch", !.knows = {}]
  <2>5. s \in Slots /\ s.at = "watch"
    BY SlotFields DEF Slots, Stages
  <2>6. slot' = [slot EXCEPT ![p] = s]
    BY <2>1 DEF EndsPoll
  <2>7. QED BY <2>4, <2>5, <2>6, SlotStep DEF AfterWatch
<1>4. CASE Watch(p)
  <2>1. SharedOK' /\ start' = start
    BY <1>4, TypeParts DEF SharedOK, Watch, flags, sale, clock, history
  <2>2. CASE presale
    <3> DEFINE s == [slot[p] EXCEPT !.at = "start", !.addr = address,
                                    !.touched = decode.at = "address"]
    <3>1. "start" \in Stages /\ address \in Sales \cup {None}
      BY TypeParts DEF SharedOK, Stages, AfterWatch
    <3>2. s \in Slots /\ s.at = "start"
      BY <3>1, SlotFields DEF Slots
    <3>3. slot' = [slot EXCEPT ![p] = s]
      BY <1>4, <2>2 DEF Watch
    <3>4. QED BY <2>1, <3>2, <3>3, SlotStep
  <2>3. CASE ~presale
    BY <1>4, <2>1, <2>3, TypeLeaves DEF Watch
  <2>4. QED BY <2>2, <2>3
<1>5. CASE ReadClock(p)
  <2>1. prevTs' \in -1 .. MaxTime
    BY <1>5, SlotFields, TypeParts, Numbers DEF SharedOK, ReadClock, Times
  <2>2. overlap' \in BOOLEAN
    BY <1>5, TypeParts DEF SharedOK, ReadClock
  <2>3. SharedOK' /\ start' = start
    BY <1>5, <2>1, <2>2, TypeParts DEF SharedOK, ReadClock, flags, sale
  <2>4. start # None
    BY <1>5 DEF ReadClock, NothingSet
  <2>5. Leaves(p) \/ Goto(p, "gap")
    BY <1>5 DEF ReadClock
  <2>6. QED BY <2>3, <2>4, <2>5, TypeLeaves, TypeGoto DEF Stages, AfterWatch
<1>6. CASE TakeGap(p) \/ StoreGap(p) \/ CountGap(p)
  BY <1>6, TypeClock
<1>7. CASE SendMoney(p)
  <2>1. sends' \in [Procs -> 0 .. 2]
    <3>1. sends \in [Procs -> 0 .. 2]
      BY TypeParts DEF SharedOK
    <3>2. More(sends[p]) \in 0 .. 2
      BY <3>1 DEF More
    <3>3. QED BY <1>7, <3>1, <3>2 DEF SendMoney
  <2>2. SharedOK' /\ start' = start
    BY <1>7, <2>1, TypeParts DEF SharedOK, SendMoney, flags, sale, clock
  <2>3. start # None
    BY <1>7, SlotFields DEF SendMoney, At, SlotOK, AfterWatch
  <2> DEFINE s == [slot[p] EXCEPT !.at = "reset", !.addr = Recipient(p)]
  <2>4. Recipient(p) \in Sales \cup {None} /\ "reset" \in Stages
    BY SlotFields, TypeParts DEF SharedOK, Recipient, Kinds, Stages, AfterWatch
  <2>5. s \in Slots /\ s.at = "reset"
    BY <2>4, SlotFields DEF Slots
  <2>6. slot' = [slot EXCEPT ![p] = s]
    BY <1>7 DEF SendMoney
  <2>7. QED BY <2>2, <2>3, <2>5, <2>6, SlotStep
<1>8. CASE ResetPresale(p)
  <2>1. SharedOK' /\ start' = start
    BY <1>8, TypeParts DEF SharedOK, ResetPresale, sale, clock, history
  <2>2. QED BY <1>8, <2>1, TypeLeaves DEF ResetPresale
<1>9. QED BY <1>1, <1>2, <1>3, <1>4, <1>5, <1>6, <1>7, <1>8 DEF Block

LEMMA TypeTake ==
  ASSUME TypeOK, NEW p \in Procs, NEW ts \in Times, TakeBlock(p, ts)
  PROVE  TypeOK'
<1> DEFINE s == [NoBlock EXCEPT !.at = "claim", !.ts = ts, !.knows = IF claim THEN Known ELSE {}]
<1>1. s \in Slots /\ s.at = "claim"
  BY TypeParts, Numbers DEF SharedOK, NoBlock, Slots, Stages, Known
<1>2. slot' = [slot EXCEPT ![p] = s] /\ start' = start
  BY DEF TakeBlock, sale
<1>3. SharedOK'
  BY TypeParts DEF SharedOK, TakeBlock, flags, sale, clock, history
<1>4. QED BY <1>1, <1>2, <1>3, SlotStep DEF AfterWatch

LEMMA TypeStep == TypeOK /\ [Next]_vars => TypeOK'
<1> SUFFICES ASSUME TypeOK, [Next]_vars PROVE TypeOK'
  OBVIOUS
<1>1. CASE UNCHANGED vars
  BY <1>1 DEF TypeOK, vars, flags, sale, clock, history, At
<1>2. QED BY <1>1, TypeSale, TypeBlock, TypeTake DEF Next
\* What is left of the process that has sent the money.
LEMMA Sending ==
  ASSUME slot \in [Procs -> Slots], NEW p \in Procs, SendMoney(p)
  PROVE  slot[p].at = "median" /\ slot'[p].at = "reset" /\ slot'[p].addr = Recipient(p)
<1>1. slot'[p] = [slot[p] EXCEPT !.at = "reset", !.addr = Recipient(p)]
  BY DEF SendMoney
<1>2. QED BY <1>1 DEF Slots, SendMoney, At
-----------------------------------------------------------------------------
(* Once per worker *)

\* What a step of worker p does to its own entry.
LEMMA OnceOwn ==
  ASSUME TypeOK, NEW p \in Procs, Once(p), Block(p)
  PROVE  Once(p)'
<1> USE DEF Once, At, AfterWatch
<1>1. slot \in [Procs -> Slots] /\ sends \in [Procs -> 0 .. 2] /\ claims \in [Procs -> 0 .. 2]
  BY TypeParts DEF SharedOK
<1>2. CASE AskContract(p)
  <2>1. slot'[p].at = "ask" /\ slot[p].at = "claim" /\ claim
    BY <1>1, <1>2 DEF AskContract, Goto, PollsClaim, Slots
  <2>2. QED BY <1>2, <2>1 DEF AskContract, flags, history
<1>3. CASE AskRaises(p) \/ NoSale(p) \/ MedianRaises(p) \/ NotYet(p)
  <2>1. slot'[p].at = "off" /\ slot[p].at \in {"ask", "start", "median"}
    BY <1>1, <1>3 DEF AskRaises, NoSale, MedianRaises, NotYet, Leaves, NoBlock
  <2>2. QED BY <1>3, <2>1 DEF AskRaises, NoSale, MedianRaises, NotYet, flags, history
<1>4. CASE NotFinalized(p) \/ Finalized(p)
  <2>1. /\ slot'[p].at = "watch" /\ slot[p].at \in {"claim", "ask"}
        /\ presale' = presale /\ sends' = sends
    BY <1>1, <1>4 DEF NotFinalized, Finalized, EndsPoll, Slots
  <2>2. CASE NotFinalized(p)
    BY <2>1, <2>2 DEF NotFinalized
  <2>3. CASE Finalized(p)
    <3>1. slot[p].at = "ask" /\ ~claim' /\ claims'[p] = More(claims[p])
      BY <1>1, <2>3 DEF Finalized
    <3>2. claims[p] = 0
      BY <1>1, <3>1
    <3>3. QED BY <2>1, <3>1, <3>2 DEF More
  <2>4. QED BY <1>4, <2>2, <2>3
<1>5. CASE Watch(p)
  <2>1. slot[p].at \in {"watch", "claim"}
    BY <1>5 DEF Watch
  <2>2. slot'[p].at = IF presale THEN "start" ELSE "off"
    <3> DEFINE late == decode.at = "address"
    <3>1. presale => slot'[p] = [slot[p] EXCEPT !.at = "start", !.addr = address, !.touched = late]
      BY <1>1, <1>5 DEF Watch
    <3> HIDE DEF late
    <3>2. presale => slot'[p].at = "start"
      BY <1>1, <3>1 DEF Slots
    <3>3. ~presale => slot'[p].at = "off"
      BY <1>1, <1>5 DEF Watch, Leaves, NoBlock
    <3>4. QED BY <3>2, <3>3
  <2>3. QED BY <1>5, <2>1, <2>2 DEF Watch, flags, history
<1>6. CASE ReadClock(p) \/ TakeGap(p) \/ StoreGap(p) \/ CountGap(p)
  <2>1. slot'[p].at \in {"off", "gap", "store", "count", "median"}
    <3>1. CASE ReadClock(p)
      BY <1>1, <3>1 DEF ReadClock, Goto, Leaves, NoBlock, Slots
    <3>2. CASE TakeGap(p)
      <4>1. slot'[p] = [slot[p] EXCEPT !.at = "store", !.tmp = (slot[p].ts - prevTs) % Modulus]
        BY <1>1, <3>2 DEF TakeGap
      <4>2. QED BY <1>1, <4>1 DEF Slots
    <3>3. CASE StoreGap(p)
      <4>1. slot'[p] = [slot[p] EXCEPT !.at = "count", !.tmp = idx]
        BY <1>1, <3>3 DEF StoreGap
      <4>2. QED BY <1>1, <4>1 DEF Slots
    <3>4. CASE CountGap(p)
      BY <1>1, <3>4 DEF CountGap, Goto, Slots
    <3>5. QED BY <1>6, <3>1, <3>2, <3>3, <3>4
  <2>2. slot[p].at \in {"start", "gap", "store", "count"} /\ UNCHANGED <<flags, sends, claims>>
    BY <1>6 DEF ReadClock, TakeGap, StoreGap, CountGap, history
  <2>3. QED BY <1>1, <2>1, <2>2 DEF flags
<1>7. CASE SendMoney(p)
  <2>1. /\ slot'[p].at = "reset" /\ slot[p].at = "median"
        /\ sends'[p] = More(sends[p]) /\ UNCHANGED <<flags, claims>>
    BY <1>1, <1>7, Sending DEF SendMoney
  <2>2. sends[p] = 0
    BY <1>1, <2>1
  <2>3. QED BY <2>1, <2>2 DEF More, flags
<1>8. CASE ResetPresale(p)
  <2>1. slot'[p].at = "off" /\ ~presale' /\ UNCHANGED <<claim, sends, claims>>
    BY <1>1, <1>8 DEF ResetPresale, Leaves, NoBlock, history
  <2>2. QED BY <2>1
<1>9. QED BY <1>2, <1>3, <1>4, <1>5, <1>6, <1>7, <1>8 DEF Block

\* Nobody but worker p is touched, and no flag comes back.
LEMMA BlockTouchesOne ==
  ASSUME TypeOK, NEW p \in Procs, Block(p)
  PROVE  /\ \A q \in Procs \ {p} : /\ slot'[q] = slot[q]
                                   /\ sends'[q] = sends[q] /\ claims'[q] = claims[q]
         /\ presale' => presale
         /\ claim' => claim
         /\ UNCHANGED <<pink, sale>>
<1>1. slot \in [Procs -> Slots] /\ sends \in [Procs -> 0 .. 2] /\ claims \in [Procs -> 0 .. 2]
  BY TypeParts DEF SharedOK
<1>2. QED BY <1>1 DEF Block, AskContract, AskRaises, NotFinalized, Finalized, EndsPoll, Watch, NoSale,
               ReadClock, TakeGap, StoreGap, CountGap, MedianRaises, NotYet, SendMoney,
               ResetPresale, Goto, Leaves, flags, sale, history

LEMMA OnceStep ==
  ASSUME TypeOK, OnceInv, [Next]_vars
  PROVE  OnceInv'
<1> SUFFICES ASSUME NEW q \in Procs PROVE Once(q)'
  BY DEF OnceInv
<1> USE DEF Once, At, AfterWatch
<1>1. Once(q) /\ slot \in [Procs -> Slots]
  BY TypeParts DEF OnceInv
<1>2. CASE (\E s \in Named : Transfer(s)) \/ Decode
  <2>1. slot'[q].at = slot[q].at
    BY <1>1, <1>2 DEF Transfer, Decode, DecodeFails, DecodeStart, DecodeAddress, Touched, Slots
  <2>2. UNCHANGED <<flags, sends, claims>>
    BY <1>2 DEF Transfer, Decode, DecodeFails, DecodeStart, DecodeAddress, history
  <2>3. QED BY <1>1, <2>1, <2>2 DEF flags
<1>3. ASSUME NEW p \in Procs, Block(p) PROVE Once(q)'
  <2>1. CASE p = q
    BY <1>1, <1>3, <2>1, OnceOwn
  <2>2. CASE p # q
    BY <1>1, <1>3, <2>2, BlockTouchesOne
  <2>3. QED BY <2>1, <2>2
<1>4. ASSUME NEW p \in Procs, NEW ts \in Times, TakeBlock(p, ts) PROVE Once(q)'
  <2>1. slot'[q].at = slot[q].at \/ (slot[q].at = "off" /\ slot'[q].at = "claim")
    BY <1>1, <1>4 DEF TakeBlock, NoBlock
  <2>2. QED BY <1>1, <1>4, <2>1 DEF TakeBlock, flags, history
<1>5. CASE UNCHANGED vars
  BY <1>1, <1>5 DEF vars, flags, history
<1>6. QED BY <1>2, <1>3, <1>4, <1>5 DEF Next
-----------------------------------------------------------------------------
(* The sale *)

\* A process that has begun to watch the sale keeps what it has read of it.
LEMMA KeepsRead ==
  ASSUME TypeOK, NEW p \in Procs, Block(p), ~Watch(p), slot'[p].at \in AfterWatch \ {"reset"}
  PROVE  /\ slot[p].at \in AfterWatch \ {"reset"}
         /\ slot'[p].addr = slot[p].addr /\ slot'[p].touched = slot[p].touched
<1> USE DEF At, AfterWatch
<1>1. slot \in [Procs -> Slots]
  BY TypeParts
<1>2. CASE AskContract(p) \/ AskRaises(p) \/ NoSale(p) \/ MedianRaises(p) \/ NotYet(p)
           \/ ResetPresale(p)
  <2>1. slot'[p].at \in {"ask", "off"}
    BY <1>1, <1>2 DEF AskContract, AskRaises, NoSale, MedianRaises, NotYet, ResetPresale,
         Goto, Leaves, NoBlock, Slots
  <2>2. QED BY <2>1
<1>3. CASE NotFinalized(p) \/ Finalized(p)
  <2>1. slot'[p].at = "watch"
    BY <1>1, <1>3 DEF NotFinalized, Finalized, EndsPoll, Slots
  <2>2. QED BY <2>1
<1>4. CASE ReadClock(p)
  <2>1. slot[p].at = "start" /\ (slot'[p] = NoBlock \/ slot'[p] = [slot[p] EXCEPT !.at = "gap"])
    BY <1>1, <1>4 DEF ReadClock, Goto, Leaves
  <2>2. slot'[p] # NoBlock
    BY DEF NoBlock
  <2>3. QED BY <1>1, <2>1, <2>2 DEF Slots
<1>5. CASE TakeGap(p)
  <2>1. slot[p].at = "gap"
        /\ slot'[p] = [slot[p] EXCEPT !.at = "store", !.tmp = (slot[p].ts - prevTs) % Modulus]
    BY <1>1, <1>5 DEF TakeGap
  <2>2. QED BY <1>1, <2>1 DEF Slots
<1>6. CASE StoreGap(p)
  <2>1. slot[p].at = "store" /\ slot'[p] = [slot[p] EXCEPT !.at = "count", !.tmp = idx]
    BY <1>1, <1>6 DEF StoreGap
  <2>2. QED BY <1>1, <2>1 DEF Slots
<1>7. CASE CountGap(p)
  <2>1. slot[p].at = "count" /\ slot'[p] = [slot[p] EXCEPT !.at = "median"]
    BY <1>1, <1>7 DEF CountGap, Goto
  <2>2. QED BY <1>1, <2>1 DEF Slots
<1>8. CASE SendMoney(p)
  BY <1>1, <1>8, Sending
<1>9. QED BY <1>2, <1>3, <1>4, <1>5, <1>6, <1>7, <1>8 DEF Block

LEMMA SaleOfBlock ==
  ASSUME TypeOK, SaleInv, NEW p \in Procs, Block(p)
  PROVE  SaleInv'
<1>1. /\ \A q \in Procs \ {p} : slot'[q] = slot[q]
      /\ UNCHANGED <<pink, start, address, contract, decode, moved>>
  BY BlockTouchesOne DEF sale
<1>2. ASSUME slot'[p].at \in AfterWatch \ {"reset"}, ~slot'[p].touched
      PROVE  start \in {None, slot'[p].addr}
  <2>1. CASE Watch(p)
    <3> DEFINE late == decode.at = "address"
    <3>1. slot[p] \in Slots /\ slot \in [Procs -> Slots]
      BY TypeParts
    <3>2. presale => slot'[p] = [slot[p] EXCEPT !.at = "start", !.addr = address, !.touched = late]
      BY <2>1, <3>1 DEF Watch
    <3> HIDE DEF late
    <3>3. presale => slot'[p].addr = address /\ slot'[p].touched = late
      BY <3>1, <3>2 DEF Slots
    <3>4. presale
      <4>1. ~presale => slot'[p].at = "off"
        BY <2>1, <3>1 DEF Watch, Leaves, NoBlock
      <4>2. QED BY <1>2, <4>1 DEF AfterWatch
    <3>5. ~late
      BY <1>2, <3>3, <3>4
    <3>6. QED BY <3>3, <3>4, <3>5 DEF SaleInv, late
  <2>2. CASE ~Watch(p)
    BY <1>2, <2>2, KeepsRead DEF SaleInv
  <2>3. QED BY <2>1, <2>2
<1>3. QED BY <1>1, <1>2 DEF SaleInv

LEMMA SaleStep ==
  ASSUME TypeOK, SaleInv, [Next]_vars
  PROVE  SaleInv'
<1>1. slot \in [Procs -> Slots] /\ None \notin Sales
  BY TypeParts, Numbers
<1>2. CASE \E s \in Named : Transfer(s)
  <2>1. slot' = slot /\ start' = start /\ address' = address /\ decode = NoDecode /\ decode'.at = "calls"
    BY <1>2 DEF Transfer
  <2>2. UNCHANGED <<pink, moved>> /\ contract'["pinksale"] = contract["pinksale"]
    BY <1>2, TypeParts DEF SharedOK, Transfer, flags, Kinds
  <2>3. QED BY <2>1, <2>2 DEF SaleInv, NoDecode
<1>3. CASE DecodeFails
  BY <1>3 DEF DecodeFails, MayFail, SaleInv, NoDecode, flags
<1>4. ASSUME DecodeStart \/ DecodeAddress PROVE SaleInv'
  <2>1. \A p \in Procs :
           slot'[p] = [slot[p] EXCEPT !.touched = slot[p].touched \/ slot[p].at \in AfterWatch]
    BY <1>4 DEF DecodeStart, DecodeAddress, Touched
  <2>2. ASSUME NEW p \in Procs, slot'[p].at \in AfterWatch PROVE slot'[p].touched
    <3> DEFINE b == slot[p].touched \/ slot[p].at \in AfterWatch
    <3>1. slot[p] \in Slots
      BY <1>1
    <3>2. slot'[p] = [slot[p] EXCEPT !.touched = b]
      BY <2>1
    <3> HIDE DEF b
    <3>3. slot'[p].at = slot[p].at /\ slot'[p].touched = b
      BY <3>1, <3>2 DEF Slots
    <3>4. QED BY <2>2, <3>3 DEF b
  <2>3. decode \in {NoDecode} \cup [at : {"calls", "address"}, sale : Sales]
    BY TypeParts DEF SharedOK
  <2>4. IF decode'.at = "address" THEN start' = decode'.sale ELSE start' \in {None, address'}
    <3>1. CASE DecodeStart
      BY <2>3, <3>1 DEF DecodeStart, NoDecode
    <3>2. CASE DecodeAddress
      BY <2>3, <3>2 DEF DecodeAddress, NoDecode, SaleInv
    <3>3. QED BY <1>4, <3>1, <3>2
  <2>5. contract' = contract /\ pink' = pink /\ (moved' = pink \/ (moved' = moved /\ start' = start))
    BY <1>4 DEF DecodeStart, DecodeAddress, flags
  <2>6. QED BY <2>2, <2>4, <2>5 DEF SaleInv
<1>5. ASSUME NEW p \in Procs, Block(p) PROVE SaleInv'
  BY <1>5, SaleOfBlock
<1>6. ASSUME NEW p \in Procs, NEW ts \in Times, TakeBlock(p, ts) PROVE SaleInv'
  <2>1. \A q \in Procs : slot'[q] = slot[q] \/ slot'[q].at = "claim"
    BY <1>1, <1>6 DEF TakeBlock, NoBlock
  <2>2. QED BY <1>6, <2>1 DEF TakeBlock, SaleInv, AfterWatch, sale, flags
<1>7. CASE UNCHANGED vars
  BY <1>7 DEF vars, flags, sale, SaleInv
<1>8. QED BY <1>2, <1>3, <1>4, <1>5, <1>6, <1>7 DEF Next, Decode
-----------------------------------------------------------------------------
(* The clock *)

\* What a step may do to others' entries while the clock stands still.
ClockStill == /\ UNCHANGED <<prevTs, gaps, overlap>>
              /\ \A q \in Procs : slot'[q].at \in {"gap", "store"} =>
                   slot'[q].at = slot[q].at /\ slot'[q].ts = slot[q].ts /\ slot'[q].tmp = slot[q].tmp

LEMMA StillIsEnough == ClockInv /\ ClockStill => ClockInv'
BY DEF ClockInv, ClockStill, At

\* Of a worker's steps only three touch the clock, or come to where it is used.
LEMMA QuietBlock ==
  ASSUME TypeOK, NEW p \in Procs, Block(p), ~TakeGap(p), ~StoreGap(p), ~ReadClock(p)
  PROVE  ClockStill
<1>1. slot \in [Procs -> Slots]
  BY TypeParts
<1>2. \A q \in Procs \ {p} : slot'[q] = slot[q]
  BY BlockTouchesOne
<1>3. slot'[p].at \notin {"gap", "store"}
  <2>1. CASE AskContract(p) \/ CountGap(p) \/ SendMoney(p)
    BY <1>1, <2>1, Sending DEF AskContract, CountGap, Goto, Slots
  <2>2. CASE AskRaises(p) \/ NoSale(p) \/ MedianRaises(p) \/ NotYet(p) \/ ResetPresale(p)
    BY <1>1, <2>2, NoBlockOK DEF AskRaises, NoSale, MedianRaises, NotYet, ResetPresale, Leaves
  <2>3. CASE NotFinalized(p) \/ Finalized(p)
    <3>1. slot'[p].at = "watch"
      BY <1>1, <2>3 DEF NotFinalized, Finalized, EndsPoll, Slots
    <3>2. QED BY <3>1
  <2>4. CASE Watch(p)
    <3> DEFINE late == decode.at = "address"
    <3>1. presale => slot'[p] = [slot[p] EXCEPT !.at = "start", !.addr = address, !.touched = late]
      BY <1>1, <2>4 DEF Watch
    <3> HIDE DEF late
    <3>2. presale => slot'[p].at = "start"
      BY <1>1, <3>1 DEF Slots
    <3>3. ~presale => slot'[p].at = "off"
      BY <1>1, <2>4, NoBlockOK DEF Watch, Leaves
    <3>4. QED BY <3>2, <3>3
  <2>5. QED BY <2>1, <2>2, <2>3, <2>4 DEF Block
<1>4. UNCHANGED <<prevTs, gaps, overlap>>
  BY DEF Block, AskContract, AskRaises, NotFinalized, Finalized, EndsPoll, Watch, NoSale,
         CountGap, MedianRaises, NotYet, SendMoney, ResetPresale, clock, history
<1>5. QED BY <1>2, <1>3, <1>4 DEF ClockStill

\* Who reads the clock after another process that has not set it yet is a race.
LEMMA ClockRead ==
  ASSUME TypeOK, ClockInv, NEW p \in Procs, ReadClock(p)
  PROVE  ClockInv'
<1> SUFFICES ASSUME ~overlap' PROVE ClockInv'
  BY DEF ClockInv
<1>1. ~overlap /\ (Late(p) \/ \A q \in Procs : ~At(q, "gap"))
  BY DEF ReadClock
<1>2. slot \in [Procs -> Slots] /\ slot[p].ts \in Times /\ prevTs \in Int
  BY TypeParts, SlotFields DEF SharedOK
<1>3. \A q \in Procs \ {p} : slot'[q] = slot[q]
  BY <1>2 DEF ReadClock, Leaves, Goto
<1>4. gaps' = gaps /\ slot'[p].at # "store"
  BY <1>2, NoBlockOK DEF ReadClock, Leaves, Goto, Slots
<1>5. CASE Late(p)
  <2>1. slot'[p].at = "off" /\ prevTs' = prevTs
    BY <1>2, <1>5, NoBlockOK, Numbers DEF ReadClock, Leaves, Late, Times
  <2>2. QED BY <1>1, <1>3, <1>4, <2>1 DEF ClockInv, At
<1>6. CASE ~Late(p)
  <2>1. slot'[p].at = "gap" /\ slot'[p].ts = slot[p].ts
    BY <1>2, <1>6 DEF ReadClock, Goto, Slots
  <2>2. 0 <= prevTs' /\ prevTs' <= slot[p].ts
    BY <1>2, <1>6, Numbers DEF ReadClock, Late, Times
  <2>3. \A q \in Procs \ {p} : ~At(q, "gap")
    BY <1>1, <1>6
  <2>4. QED BY <1>1, <1>3, <1>4, <2>1, <2>2, <2>3 DEF ClockInv, At
<1>7. QED BY <1>5, <1>6

\* Who is alone at the clock finds a block before his own: nothing wraps.
LEMMA ClockTaken ==
  ASSUME TypeOK, ClockInv, NEW p \in Procs, TakeGap(p)
  PROVE  ClockInv'
<1> DEFINE d == (slot[p].ts - prevTs) % Modulus
<1>1. slot \in [Procs -> Slots] /\ slot[p].ts \in Times /\ prevTs \in Int
  BY TypeParts, SlotFields DEF SharedOK
<1>2. /\ slot'[p] = [slot[p] EXCEPT !.at = "store", !.tmp = d]
      /\ \A q \in Procs \ {p} : slot'[q] = slot[q]
  BY <1>1 DEF TakeGap
<1>3. gaps' = gaps /\ overlap' = overlap /\ slot[p].at = "gap"
  BY DEF TakeGap, At, history
<1>4. ~overlap => d <= MaxGap
  <2>1. SUFFICES ASSUME ~overlap PROVE d <= MaxGap
    OBVIOUS
  <2>2. 0 <= prevTs /\ prevTs <= slot[p].ts
    BY <1>3, <2>1 DEF ClockInv, At
  <2>3. slot[p].ts - prevTs \in Nat /\ slot[p].ts - prevTs < Modulus
    BY <1>1, <2>2, Numbers DEF Times
  <2>4. d = slot[p].ts - prevTs
    BY <2>3, Remainder, Numbers
  <2> HIDE DEF d
  <2>5. QED BY <1>1, <2>2, <2>4, Numbers DEF Times, MaxGap
<1> HIDE DEF d
<1>5. slot'[p].at = "store" /\ slot'[p].tmp = d
  BY <1>1, <1>2 DEF Slots
<1>6. ~overlap => \A q \in Procs : ~(slot'[q].at = "gap")
  BY <1>2, <1>3, <1>5 DEF ClockInv, At
<1>7. QED BY <1>2, <1>3, <1>4, <1>5, <1>6 DEF ClockInv, At

LEMMA ClockStored ==
  ASSUME TypeOK, ClockInv, NEW p \in Procs, StoreGap(p)
  PROVE  ClockInv'
<1>1. slot \in [Procs -> Slots] /\ gaps \in [0 .. Window - 1 -> 0 .. Modulus - 1]
  BY TypeParts DEF SharedOK
<1>2. /\ slot'[p] = [slot[p] EXCEPT !.at = "count", !.tmp = idx]
      /\ \A q \in Procs \ {p} : slot'[q] = slot[q]
  BY <1>1 DEF StoreGap
<1>3. slot'[p].at = "count"
  BY <1>1, <1>2 DEF Slots
<1>4. \A i \in 0 .. Window - 1 : gaps'[i] = gaps[i] \/ gaps'[i] = slot[p].tmp
  BY <1>1 DEF StoreGap
<1>5. prevTs' = prevTs /\ overlap' = overlap /\ slot[p].at = "store"
  BY DEF StoreGap, At, history
<1>6. ~overlap => \A i \in 0 .. Window - 1 : gaps'[i] <= MaxGap
  BY <1>4, <1>5 DEF ClockInv, At
<1>7. QED BY <1>2, <1>3, <1>5, <1>6 DEF ClockInv, At

LEMMA ClockStep ==
  ASSUME TypeOK, ClockInv, [Next]_vars
  PROVE  ClockInv'
<1>1. slot \in [Procs -> Slots]
  BY TypeParts
<1>2. CASE (\E s \in Named : Transfer(s)) \/ Decode
  <2>1. \A q \in Procs : slot'[q].at = slot[q].at /\ slot'[q].ts = slot[q].ts /\ slot'[q].tmp = slot[q].tmp
    <3>1. CASE slot' = slot
      BY <3>1
    <3>2. ASSUME slot' = Touched, NEW q \in Procs
          PROVE  slot'[q].at = slot[q].at /\ slot'[q].ts = slot[q].ts /\ slot'[q].tmp = slot[q].tmp
      <4> DEFINE b == slot[q].touched \/ slot[q].at \in AfterWatch
      <4>1. slot'[q] = [slot[q] EXCEPT !.touched = b]
        BY <3>2 DEF Touched
      <4> HIDE DEF b
      <4>2. QED BY <1>1, <4>1 DEF Slots
    <3>3. QED BY <1>2, <3>1, <3>2 DEF Transfer, Decode, DecodeFails, DecodeStart, DecodeAddress
  <2>2. UNCHANGED <<prevTs, gaps, overlap>>
    BY <1>2 DEF Transfer, Decode, DecodeFails, DecodeStart, DecodeAddress, clock, history
  <2>3. QED BY <2>1, <2>2, StillIsEnough DEF ClockStill
<1>3. ASSUME NEW p \in Procs, Block(p) PROVE ClockInv'
  BY <1>3, QuietBlock, StillIsEnough, ClockRead, ClockTaken, ClockStored
<1>4. ASSUME NEW p \in Procs, NEW ts \in Times, TakeBlock(p, ts) PROVE ClockInv'
  <2>1. \A q \in Procs : slot'[q] = slot[q] \/ slot'[q].at = "claim"
    BY <1>1, <1>4 DEF TakeBlock, NoBlock
  <2>2. QED BY <1>4, <2>1, StillIsEnough DEF TakeBlock, ClockStill, clock, history
<1>5. CASE UNCHANGED vars
  BY <1>5, StillIsEnough DEF vars, clock, history, ClockStill
<1>6. QED BY <1>2, <1>3, <1>4, <1>5 DEF Next
-----------------------------------------------------------------------------
(* The median *)

\* How many of the first idx entries are at most v, and which values there are.
UpTo(v) == {i \in 0 .. idx - 1 : gaps[i] <= v}
Seen == {gaps[i] : i \in 0 .. idx - 1}

LEMMA Counts ==
  ASSUME TypeOK
  PROVE  /\ \A v \in Int : IsFiniteSet(UpTo(v)) /\ Cardinality(UpTo(v)) \in Nat
         /\ Cardinality(UpTo(Modulus)) = idx
<1>1. IsFiniteSet(0 .. idx - 1) /\ Cardinality(0 .. idx - 1) = idx
  <2>1. idx \in Nat /\ 0 \in Int /\ idx - 1 \in Int
    BY TypeParts, Numbers DEF SharedOK
  <2>2. /\ IsFiniteSet(0 .. idx - 1)
        /\ Cardinality(0 .. idx - 1) = IF 0 > idx - 1 THEN 0 ELSE idx - 1 - 0 + 1
    BY <2>1, FS_Interval
  <2>3. QED BY <2>1, <2>2
<1>2. UpTo(Modulus) = 0 .. idx - 1
  <2>1. \A i \in 0 .. idx - 1 : i \in 0 .. Window - 1
    BY TypeParts, Numbers DEF SharedOK
  <2>2. \A i \in 0 .. Window - 1 : gaps[i] \in 0 .. Modulus - 1
    BY TypeParts DEF SharedOK
  <2>3. \A i \in 0 .. idx - 1 : gaps[i] <= Modulus
    BY <2>1, <2>2, Numbers
  <2>4. QED BY <2>3 DEF UpTo
<1>3. ASSUME NEW v \in Int
      PROVE  IsFiniteSet(UpTo(v)) /\ Cardinality(UpTo(v)) \in Nat
  <2>1. UpTo(v) \in SUBSET (0 .. idx - 1)
    BY DEF UpTo
  <2>2. IsFiniteSet(UpTo(v))
    BY <1>1, <2>1, FS_Subset
  <2>3. QED BY <2>2, FS_CardinalityType
<1>4. QED BY <1>1, <1>2, <1>3

\* The least value that enough entries do not exceed is the n-th of them.
LEMMA NthIsSeen ==
  ASSUME TypeOK, NEW n \in 1 .. idx
  PROVE  Nth(n) \in Seen
<1> DEFINE Enough == {v \in Nat : Cardinality(UpTo(v)) >= n}
<1>1. idx \in Nat /\ n \in Nat /\ n >= 1 /\ n <= idx
  BY TypeParts, Numbers DEF SharedOK
<1>2. Modulus \in Enough
  BY <1>1, Counts, Numbers
<1>3. PICK v \in Enough : \A w \in Enough : ~(<<w, v>> \in OpToRel(<, Nat))
  BY <1>2, NatLessThanWellFounded, WFMin
<1>4. v \in Nat /\ Cardinality(UpTo(v)) >= n
  OBVIOUS
<1>5. \A i \in 0 .. idx - 1 : gaps[i] \in Nat
  BY TypeParts, Numbers DEF SharedOK
<1> DEFINE Below == {i \in 0 .. idx - 1 : gaps[i] < v}
<1>6. Below = UpTo(v - 1)
  BY <1>4, <1>5 DEF UpTo
<1>7. Cardinality(Below) < n
  <2>1. CASE v = 0
    <3>1. Below = {}
      BY <1>5, <2>1
    <3>2. QED BY <1>1, <3>1, FS_EmptySet
  <2>2. CASE v # 0
    <3>1. v - 1 \in Nat /\ v - 1 < v
      BY <1>4, <2>2
    <3>2. <<v - 1, v>> \in OpToRel(<, Nat)
      BY <1>4, <3>1 DEF OpToRel
    <3>3. v - 1 \notin Enough
      BY <1>3, <3>2
    <3>4. ~(Cardinality(UpTo(v - 1)) >= n)
      BY <3>1, <3>3
    <3>5. Cardinality(UpTo(v - 1)) \in Nat
      BY <3>1, Counts
    <3> HIDE DEF Below
    <3>6. QED BY <1>1, <1>6, <3>4, <3>5
  <2>3. QED BY <2>1, <2>2
<1>8. v \in Seen
  <2>1. UpTo(v) # Below
    <3>1. Cardinality(UpTo(v)) \in Nat
      BY <1>4, Counts
    <3>2. Cardinality(Below) \in Nat
      <4>1. v - 1 \in Int
        BY <1>4
      <4> HIDE DEF Below
      <4>2. QED BY <1>6, <4>1, Counts
    <3> HIDE DEF Below
    <3>3. QED BY <1>1, <1>4, <1>7, <3>1, <3>2
  <2>2. PICK i \in 0 .. idx - 1 : gaps[i] <= v /\ ~(gaps[i] < v)
    <3>1. \A i \in 0 .. idx - 1 : gaps[i] < v => gaps[i] <= v
      BY <1>4, <1>5
    <3> HIDE DEF Enough
    <3>2. UpTo(v) # {i \in 0 .. idx - 1 : gaps[i] < v}
      BY <2>1 DEF Below
    <3>3. QED BY <3>1, <3>2 DEF UpTo
  <2>3. gaps[i] = v
    BY <1>4, <1>5, <2>2
  <2>4. QED BY <2>3 DEF Seen
<1>9. QED BY <1>4, <1>7, <1>8 DEF Nth, Seen, UpTo

LEMMA MedianInRange ==
  ASSUME TypeOK, ClockInv, ~overlap, idx # 0
  PROVE  Median \in Int /\ Median <= MaxGap
<1>1. idx \in Nat /\ idx >= 1 /\ idx <= Window - 1
  BY TypeParts, Numbers DEF SharedOK
<1>2. \A v \in Seen : v \in Nat /\ v <= MaxGap
  <2>1. \A i \in 0 .. idx - 1 : i \in 0 .. Window - 1
    BY <1>1, Numbers
  <2>2. \A i \in 0 .. Window - 1 : gaps[i] \in Nat
    BY TypeParts, Numbers DEF SharedOK
  <2>3. QED BY <2>1, <2>2 DEF ClockInv, Seen
<1>3. (idx + 1) \div 2 \in 1 .. idx /\ idx \div 2 + 1 \in 1 .. idx
  BY <1>1
<1>4. Nth((idx + 1) \div 2) \in Seen /\ Nth(idx \div 2 + 1) \in Seen
  BY <1>3, NthIsSeen
<1> DEFINE a == Nth((idx + 1) \div 2)
           b == Nth(idx \div 2 + 1)
<1>5. a \in Nat /\ b \in Nat /\ a <= MaxGap /\ b <= MaxGap
  BY <1>2, <1>4
<1>6. Median = (a + b) \div 2
  BY DEF Median
<1>7. MaxGap \in Nat
  BY Numbers DEF MaxGap
<1> HIDE DEF a, b
<1>8. QED BY <1>5, <1>6, <1>7
-----------------------------------------------------------------------------
(* Theorems *)

LEMMA InvStep == IInv /\ [Next]_vars => IInv'
BY TypeStep, OnceStep, SaleStep, ClockStep DEF IInv

LEMMA Invariance == Spec => []IInv
<1>1. Init => IInv
  BY InvInit
<1>2. IInv /\ [Next]_vars => IInv'
  BY InvStep
<1>3. QED BY <1>1, <1>2, PTL DEF Spec

\* Every value a worker or the main loop leaves in the shared memory has its
\* type: the index stays inside the window, and the distance inside the
\* unsigned number it is stored in.
THEOREM TypeCorrect == Spec => []TypeOK
<1>1. IInv => TypeOK
  BY DEF IInv
<1>2. QED BY <1>1, Invariance, PTL

\* However the workers interleave, and although they test and reset the flags
\* in different steps, no worker sends the money twice, or claims twice.
THEOREM SendsOnce == Spec => []OncePerWorker
<1>1. IInv => OncePerWorker
  BY DEF IInv, OnceInv, Once, OncePerWorker
<1>2. QED BY <1>1, Invariance, PTL

\* Only the step that sends the money comes to the reset.
LEMMA OnlySends ==
  ASSUME TypeOK, [Next]_vars, NEW p \in Procs, Sends(p)
  PROVE  SendMoney(p)
<1>1. slot \in [Procs -> Slots] /\ slot[p].at = "median" /\ slot'[p].at = "reset"
  BY TypeParts DEF Sends, At
<1>2. ASSUME (\E s \in Named : Transfer(s)) \/ Decode PROVE FALSE
  <2>1. slot'[p].at = slot[p].at
    BY <1>1, <1>2 DEF Transfer, Decode, DecodeFails, DecodeStart, DecodeAddress, Touched, Slots
  <2>2. QED BY <1>1, <2>1
<1>3. ASSUME NEW q \in Procs, Block(q) PROVE SendMoney(p)
  <2>1. CASE q # p
    BY <1>1, <1>3, <2>1, BlockTouchesOne
  <2>2. CASE q = p
    <3>1. CASE MedianRaises(p) \/ NotYet(p)
      BY <1>1, <3>1, NoBlockOK DEF MedianRaises, NotYet, Leaves
    <3>2. CASE ~(MedianRaises(p) \/ NotYet(p) \/ SendMoney(p))
      BY <1>1, <1>3, <2>2, <3>2 DEF Block, AskContract, AskRaises, NotFinalized, Finalized, Watch,
           NoSale, ReadClock, TakeGap, StoreGap, CountGap, ResetPresale, At
    <3>3. QED BY <3>1, <3>2
  <2>3. QED BY <2>1, <2>2
<1>4. ASSUME NEW q \in Procs, NEW ts \in Times, TakeBlock(q, ts) PROVE FALSE
  BY <1>1, <1>4 DEF TakeBlock, NoBlock, At
<1>5. ASSUME UNCHANGED vars PROVE FALSE
  BY <1>1, <1>5 DEF vars
<1>6. QED BY <1>2, <1>3, <1>4, <1>5 DEF Next

\* The money goes to the sale whose start has come: sent by address, unless the
\* main loop wrote one of the two while the process had the other; sent to the
\* pinksale's contract, unless there is none or an owner's transfer, raced or
\* not, has replaced the start it waits for.
THEOREM MoneyIsRight == Spec => MoneyFitsStart
<1> DEFINE Fits(p) == \/ slot'[p].addr = start
                      \/ IF pink THEN moved \/ slot'[p].addr = None ELSE slot[p].touched
<1>1. IInv /\ [Next]_vars => \A p \in Procs : Sends(p) => Fits(p)
  <2> SUFFICES ASSUME IInv, [Next]_vars, NEW p \in Procs, Sends(p)
               PROVE  Fits(p)
    OBVIOUS
  <2>1. slot \in [Procs -> Slots] /\ slot[p].at = "median" /\ start # None
    BY TypeParts, SlotFields DEF IInv, Sends, At, SlotOK, AfterWatch
  <2>2. slot'[p].addr = Recipient(p)
    BY <2>1, OnlySends, Sending DEF IInv
  <2>3. CASE pink
    BY <2>1, <2>2, <2>3 DEF IInv, SaleInv, Recipient
  <2>4. CASE ~pink
    BY <2>1, <2>2, <2>4 DEF IInv, SaleInv, Recipient, AfterWatch
  <2>5. QED BY <2>3, <2>4
<1>2. QED BY <1>1, Invariance, PTL DEF Spec, MoneyFitsStart

\* Blocks that are late or processed out of order never make a process send
\* before two of the longest distances are left, as long as no two processes
\* work out their distances at the same time.
THEOREM EarlyNeedsRace == Spec => EarlyOnlyIfRaced
<1>1. IInv /\ [Next]_vars => \A p \in Procs : Sends(p) => Due(p) \/ overlap
  <2> SUFFICES ASSUME IInv, [Next]_vars, NEW p \in Procs, Sends(p), ~overlap
               PROVE  Due(p)
    OBVIOUS
  <2>1. TypeOK /\ ClockInv
    BY DEF IInv
  <2>2. idx # 0 /\ IsTime(p)
    BY <2>1, OnlySends DEF SendMoney
  <2>3. Median \in Int /\ Median <= MaxGap
    BY <2>1, <2>2, MedianInRange
  <2>4. slot[p].ts \in Nat
    BY <2>1, SlotFields, Numbers DEF Times
  <2>5. start \in Sales
    BY <2>1, SlotFields, TypeParts DEF SharedOK, Sends, At, SlotOK, AfterWatch
  <2>6. StartOf[start] \in Nat /\ MaxGap \in Nat
    BY <2>5, Numbers DEF MaxGap
  <2>7. slot[p].ts + 2 * Median >= StartOf[start]
    BY <2>2 DEF IsTime
  <2>8. slot[p].ts + 2 * MaxGap >= StartOf[start]
    BY <2>3, <2>4, <2>6, <2>7
  <2>9. QED BY <2>8 DEF Due, MaxGap
<1>2. QED BY <1>1, Invariance, PTL DEF Spec, EarlyOnlyIfRaced
=============================================================================
