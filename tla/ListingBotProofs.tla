--------------------------- MODULE ListingBotProofs ---------------------------
(***************************************************************************)
(* Proofs about the parts of the listing bot.  LocalOrderBook, for any     *)
(* levels, amounts and buffer sizes: the published book is always a book   *)
(* the exchange had, the one of the id it bears, and it never goes back;   *)
(* the cache of updates has no hole.  GateioTrader, for any budget, slip   *)
(* and number of unbooked orders: what it has booked is what it shows, and *)
(* exceeds the budget by one slip at most.                                 *)
(* ListingPoll, for any pages, articles, delays and number of polls at a   *)
(* time: an old listing stays silent, and the copies of one are bounded.   *)
(*                                                                         *)
(* The parts share no state, and no name: Init, Next and Spec are the      *)
(* order book's, the others have a prefix.                                 *)
(***************************************************************************)
EXTENDS LocalOrderBook, GateioTrader, ListingPoll, TLAPS, SequenceTheorems, FiniteSetTheorems

\* The exchange never had a crossed book.
HistInv == /\ hist[0] = Empty
           /\ \A n \in 1 .. head : hist[n] \in Books

\* Ids are of the past, and what is being built is at least as new as what is
\* published.
PastInv ==
  /\ since <= head /\ ob.id <= head
  /\ pc = "request" => ob.id <= since
  /\ pc = "replay" => ob.id <= cand.id /\ cand.id <= head

\* Every update that waits somewhere is of the past.
QueuesInv ==
  /\ \A i \in 1 .. Len(buf) : buf[i].u <= head
  /\ \A i \in 1 .. Len(q) : q[i].u <= head
  /\ \A i \in 1 .. Len(blocked) : blocked[i].u <= head

IInv == TypeOK /\ HistInv /\ PastInv /\ QueuesInv /\ BookIsTruth
-----------------------------------------------------------------------------
(* OrderBook.update on a true book *)

\* An update that fits makes the exchange's book of its last id: a level it
\* does not carry has not changed since the book it is applied to.
LEMMA UpdateIsTrue ==
  ASSUME TypeOK, NEW o \in LocalBooks, o.book = hist[o.id], NEW m \in Updates, Fits(o, m)
  PROVE  Applied(o, m) = hist[m.u]
<1>1. m.u \in Ids /\ m.U \in Ids /\ o.id \in Ids /\ hist[m.u] \in [Levels -> Amounts]
  BY DEF Updates, LocalBooks, TypeOK
<1>2. o.id \in m.U - 1 .. m.u
  BY <1>1 DEF Fits, Older, Gap, Ids
<1>3. ASSUME NEW l \in Levels, l \notin Changed(m) PROVE o.book[l] = hist[m.u][l]
  BY <1>2, <1>3 DEF Changed
<1>4. \A l \in Levels : Applied(o, m)[l] = hist[m.u][l]
  BY <1>3 DEF Applied
<1>5. QED BY <1>1, <1>4 DEF Applied

\* So the overlap check never fires.
LEMMA NoOverlap ==
  ASSUME TypeOK, HistInv, NEW o \in LocalBooks, o.book = hist[o.id],
         NEW m \in Updates, m.u <= head
  PROVE  ~Overlaps(o, m)
<1> SUFFICES ASSUME Fits(o, m) PROVE ~Crossed(Applied(o, m))
  BY DEF Overlaps
<1>1. m.u \in 1 .. head
  BY DEF Updates, Ids, TypeOK
<1>2. hist[m.u] \in Books
  BY <1>1 DEF HistInv
<1>3. QED BY <1>2, UpdateIsTrue, BookAssumption

LEMMA UpdatedIsTrue ==
  ASSUME TypeOK, NEW o \in LocalBooks, o.book = hist[o.id], NEW m \in Updates, Fits(o, m)
  PROVE  /\ Updated(o, m) \in LocalBooks
         /\ Updated(o, m).id = m.u /\ Updated(o, m).book = hist[m.u]
         /\ o.id <= m.u
<1>1. m.u \in Ids /\ o.id \in Ids /\ hist[m.u] \in [Levels -> Amounts]
  BY DEF Updates, LocalBooks, TypeOK
<1>2. Applied(o, m) = hist[m.u]
  BY UpdateIsTrue
<1>3. QED BY <1>1, <1>2 DEF Updated, LocalBooks, Fits, Older, Ids
-----------------------------------------------------------------------------
LEMMA InvInit == Init => IInv
<1> SUFFICES ASSUME Init PROVE IInv
  OBVIOUS
<1>1. PICK b \in Books : hist = [n \in Ids |-> IF n = 1 THEN b ELSE Empty]
  BY DEF Init
<1>2. 0 \in Ids /\ 1 \in Ids /\ Empty \in [Levels -> Amounts]
  BY BookAssumption DEF Ids, Empty
<1>3. hist \in [Ids -> [Levels -> Amounts]] /\ hist[0] = Empty /\ hist[1] = b
  BY <1>1, <1>2, BookAssumption
<1>4. TypeOK
  BY <1>2, <1>3, BookAssumption DEF Init, TypeOK, LocalBooks
<1>5. HistInv
  BY <1>3 DEF Init, HistInv
<1>6. PastInv /\ QueuesInv /\ BookIsTruth
  BY <1>3 DEF Init, PastInv, QueuesInv, BookIsTruth
<1>7. QED BY <1>4, <1>5, <1>6 DEF IInv

LEMMA ExchangeStep == IInv /\ ExchangeMoves => IInv'
<1> SUFFICES ASSUME IInv, ExchangeMoves PROVE IInv'
  OBVIOUS
<1> USE DEF IInv, run, callbacks
<1>1. PICK b \in Books : hist' = [hist EXCEPT ![head + 1] = b]
  BY DEF ExchangeMoves
<1>2. head' = head + 1 /\ head' \in Ids \ {0} /\ UNCHANGED <<run, callbacks, q>>
  BY BookAssumption DEF ExchangeMoves, TypeOK, Ids
<1>3. hist' \in [Ids -> [Levels -> Amounts]] /\ hist'[head + 1] = b
      /\ \A n \in Ids : n # head + 1 => hist'[n] = hist[n]
  BY <1>1, <1>2, BookAssumption DEF TypeOK
<1>4. \A n \in Ids : n <= head => hist'[n] = hist[n]
  BY <1>2, <1>3 DEF TypeOK, Ids
<1>5. TypeOK'
  BY <1>2, <1>3 DEF TypeOK
<1>6. HistInv'
  <2>1. hist'[0] = hist[0]
    <3>1. 0 \in Ids /\ 0 <= head
      BY BookAssumption DEF TypeOK, Ids
    <3>2. QED BY <1>4, <3>1
  <2>2. ASSUME NEW n \in 1 .. head' PROVE hist'[n] \in Books
    <3>1. n = head + 1 \/ (n \in 1 .. head /\ n \in Ids /\ n <= head)
      BY <1>2, BookAssumption DEF TypeOK, Ids
    <3>2. QED BY <1>3, <1>4, <3>1 DEF HistInv
  <2>3. QED BY <2>1, <2>2 DEF HistInv
<1>7. PastInv'
  BY <1>2 DEF PastInv, TypeOK, Ids, LocalBooks
<1>8. QueuesInv'
  <2>1. \A m \in Updates : m.u <= head => m.u <= head'
    BY <1>2 DEF TypeOK, Updates, Ids
  <2>2. QED BY <1>2, <2>1, ElementOfSeq DEF QueuesInv, TypeOK
<1>9. BookIsTruth'
  <2>1. ob.id \in Ids /\ cand.id \in Ids
    BY DEF TypeOK, LocalBooks
  <2>2. QED BY <1>2, <1>4, <2>1 DEF BookIsTruth, PastInv
<1>10. QED BY <1>5, <1>6, <1>7, <1>8, <1>9

\* The steps of the task that maintains the book.
LEMMA RunStep ==
  ASSUME IInv, Run \/ RequestRaises
  PROVE  IInv' /\ ob'.id >= ob.id
<1> USE DEF IInv, exchange, callbacks
<1> head \in Int /\ since \in Int /\ ob.id \in Int /\ cand.id \in Int
  BY BookAssumption DEF TypeOK, LocalBooks, Ids
<1>1. CASE SnapshotFails \/ RequestRaises
  <2>1. /\ UNCHANGED <<exchange, cand, pos, ob, callbacks, q>>
        /\ \/ pc = "request" /\ pc' = pc /\ since' = head
           \/ pc' = "dead" /\ since' = since
    BY <1>1 DEF SnapshotFails, RequestRaises
  <2>2. TypeOK'
    BY <2>1 DEF TypeOK
  <2>3. PastInv' /\ ob'.id >= ob.id
    BY <2>1 DEF PastInv
  <2>4. QED BY <2>1, <2>2, <2>3 DEF HistInv, QueuesInv, BookIsTruth
<1>2. ASSUME NEW s \in Ids, SnapshotArrives(s) PROVE IInv' /\ ob'.id >= ob.id
  <2>1. cand' = [id |-> s, book |-> hist[s]] /\ cand' \in LocalBooks /\ s >= since /\ s <= head
    <3>1. s \in since .. head /\ cand' = [id |-> s, book |-> hist[s]]
      BY <1>2 DEF SnapshotArrives
    <3>2. hist[s] \in [Levels -> Amounts]
      BY DEF TypeOK
    <3>3. QED BY <3>1, <3>2 DEF LocalBooks
  <2>2. UNCHANGED <<exchange, since, ob, callbacks, q>> /\ pc = "request" /\ pc' = "replay" /\ pos' = 1
    BY <1>2 DEF SnapshotArrives
  <2>3. TypeOK' /\ HistInv' /\ QueuesInv' /\ BookIsTruth'
    BY <2>1, <2>2 DEF TypeOK, HistInv, QueuesInv, BookIsTruth
  <2>4. PastInv' /\ ob'.id >= ob.id
    BY <2>1, <2>2 DEF TypeOK, PastInv, LocalBooks, Ids
  <2>5. QED BY <2>3, <2>4
<1>3. CASE ReplayOne
  <2> DEFINE m == buf[pos]
  <2>1. pc = "replay" /\ m \in Updates /\ m.u <= head /\ m.u \in Ids
    <3>1. pos \in 1 .. Len(buf)
      BY <1>3, LenProperties DEF ReplayOne, TypeOK
    <3>2. m \in Updates
      BY <3>1, ElementOfSeq DEF TypeOK
    <3>3. QED BY <1>3, <3>1, <3>2 DEF ReplayOne, QueuesInv, Updates
  <2>2. UNCHANGED <<exchange, ob, callbacks, q>>
    BY <1>3 DEF ReplayOne
  <2>3. cand.book = hist[cand.id] /\ cand \in LocalBooks
    BY <2>1 DEF BookIsTruth, TypeOK
  <2>4. \/ pos' = pos + 1 /\ UNCHANGED <<pc, since, cand>>
        \/ pc' = "request" /\ since' = head /\ UNCHANGED <<cand, pos>>
        \/ pos' = pos + 1 /\ UNCHANGED <<pc, since>> /\ Fits(cand, m) /\ cand' = Updated(cand, m)
    BY <1>3 DEF ReplayOne, Rebuild
  <2>5. CASE pos' = pos + 1 /\ UNCHANGED <<pc, since, cand>>
    BY <2>2, <2>5 DEF TypeOK, HistInv, QueuesInv, BookIsTruth, PastInv, LocalBooks, Ids
  <2>6. CASE pc' = "request" /\ since' = head /\ UNCHANGED <<cand, pos>>
    BY <2>2, <2>6 DEF TypeOK, HistInv, QueuesInv, BookIsTruth, PastInv, LocalBooks, Ids
  <2>7. CASE /\ pos' = pos + 1 /\ UNCHANGED <<pc, since>>
             /\ Fits(cand, m) /\ cand' = Updated(cand, m)
    <3>1. cand' \in LocalBooks /\ cand'.id = m.u /\ cand'.book = hist[m.u] /\ cand.id <= m.u
      BY <2>1, <2>3, <2>7, UpdatedIsTrue
    <3>2. TypeOK'
      BY <2>2, <2>7, <3>1 DEF TypeOK
    <3>3. HistInv' /\ QueuesInv' /\ BookIsTruth'
      BY <2>2, <2>7, <3>1 DEF HistInv, QueuesInv, BookIsTruth
    <3>4. PastInv' /\ ob'.id >= ob.id
      BY <2>1, <2>2, <2>3, <2>7, <3>1 DEF PastInv, TypeOK, LocalBooks, Ids
    <3>5. QED BY <3>2, <3>3, <3>4
  <2>8. QED BY <2>4, <2>5, <2>6, <2>7
<1>4. CASE ReplayEnd
  BY <1>4 DEF ReplayEnd, TypeOK, HistInv, QueuesInv, BookIsTruth, PastInv, LocalBooks, Ids
<1>5. CASE TakeUpdate
  <2> DEFINE m == Head(q)
  <2>1. pc = "live" /\ m \in Updates /\ m.u <= head /\ m.u \in Ids
    <3>1. 1 \in 1 .. Len(q) /\ m = q[1]
      BY <1>5, EmptySeq, LenProperties DEF TakeUpdate, TypeOK
    <3>2. m \in Updates
      BY <3>1, ElementOfSeq DEF TypeOK
    <3>3. QED BY <1>5, <3>1, <3>2 DEF TakeUpdate, QueuesInv, Updates
  <2>2. UNCHANGED <<exchange, cand, pos, callbacks>> /\ q' = Tail(q)
    BY <1>5 DEF TakeUpdate
  <2>3. /\ q' \in Seq(Updates) /\ Len(q') <= QueueSize
        /\ \A i \in 1 .. Len(q') : q'[i].u <= head
    <3>1. /\ q' \in Seq(Updates) /\ Len(q') = Len(q) - 1 /\ Len(q) \in Nat
          /\ \A i \in 1 .. Len(q') : q'[i] = q[i + 1]
      BY <1>5, <2>2, HeadTailProperties, LenProperties DEF TakeUpdate, TypeOK
    <3>2. Len(q) <= QueueSize /\ QueueSize \in Nat /\ \A i \in 1 .. Len(q) : q[i].u <= head
      BY BookAssumption DEF QueuesInv, TypeOK
    <3>3. \A i \in 1 .. Len(q') : i + 1 \in 1 .. Len(q)
      BY <3>1
    <3>4. QED BY <3>1, <3>2, <3>3
  <2>4. ob.book = hist[ob.id] /\ ob \in LocalBooks /\ ~Overlaps(ob, m)
    BY <2>1, NoOverlap DEF BookIsTruth, TypeOK
  <2>5. \/ UNCHANGED <<pc, since, ob>>
        \/ pc' = "request" /\ since' = head /\ UNCHANGED ob
        \/ UNCHANGED <<pc, since>> /\ Fits(ob, m) /\ ob' = Updated(ob, m)
    <3>1. \/ UNCHANGED <<pc, since, ob>> \/ GapFound(m)
          \/ Fits(ob, m) /\ ob' = Updated(ob, m) /\ UNCHANGED <<pc, since>>
      BY <1>5, <2>4 DEF TakeUpdate
    <3>2. QED BY <3>1 DEF GapFound, Rebuild
  <2>6. CASE UNCHANGED <<pc, since, ob>>
    <3>1. TypeOK'
      BY <2>2, <2>3, <2>6 DEF TypeOK
    <3>2. HistInv' /\ PastInv'
      BY <2>2, <2>6 DEF HistInv, PastInv
    <3>3. QueuesInv'
      BY <2>2, <2>3, <2>6 DEF QueuesInv
    <3>4. BookIsTruth' /\ ob'.id >= ob.id
      BY <2>2, <2>6, <2>4 DEF BookIsTruth, LocalBooks, Ids
    <3>5. QED BY <3>1, <3>2, <3>3, <3>4
  <2>7. CASE pc' = "request" /\ since' = head /\ UNCHANGED ob
    BY <2>2, <2>3, <2>7 DEF TypeOK, HistInv, QueuesInv, BookIsTruth, PastInv, LocalBooks, Ids
  <2>8. CASE UNCHANGED <<pc, since>> /\ Fits(ob, m) /\ ob' = Updated(ob, m)
    <3>1. ob' \in LocalBooks /\ ob'.id = m.u /\ ob'.book = hist[m.u] /\ ob.id <= m.u
      BY <2>1, <2>4, <2>8, UpdatedIsTrue
    <3>2. TypeOK' /\ HistInv' /\ QueuesInv' /\ BookIsTruth'
      BY <2>1, <2>2, <2>3, <2>8, <3>1 DEF TypeOK, HistInv, QueuesInv, BookIsTruth
    <3>3. PastInv' /\ ob'.id >= ob.id
      BY <2>1, <2>2, <2>4, <2>8, <3>1 DEF PastInv, TypeOK, LocalBooks, Ids
    <3>4. QED BY <3>2, <3>3
  <2>9. QED BY <2>5, <2>6, <2>7, <2>8
<1>6. QED BY <1>1, <1>2, <1>3, <1>4, <1>5 DEF Run

\* One more update behind a sequence of updates of the past.
LEMMA AppendPast ==
  ASSUME NEW s \in Seq(Updates), \A i \in 1 .. Len(s) : s[i].u <= head,
         NEW m \in Updates, m.u <= head
  PROVE  /\ Append(s, m) \in Seq(Updates) /\ Len(Append(s, m)) = Len(s) + 1
         /\ \A i \in 1 .. Len(Append(s, m)) : Append(s, m)[i].u <= head
BY AppendProperties, LenProperties

\* The same when the first of them is dropped.
LEMMA ShiftPast ==
  ASSUME NEW s \in Seq(Updates), s # <<>>, \A i \in 1 .. Len(s) : s[i].u <= head,
         NEW m \in Updates, m.u <= head
  PROVE  /\ Append(Tail(s), m) \in Seq(Updates) /\ Len(Append(Tail(s), m)) = Len(s)
         /\ \A i \in 1 .. Len(Append(Tail(s), m)) : Append(Tail(s), m)[i].u <= head
<1>1. /\ Tail(s) \in Seq(Updates) /\ Len(Tail(s)) = Len(s) - 1
      /\ \A i \in 1 .. Len(Tail(s)) : Tail(s)[i] = s[i + 1]
  BY HeadTailProperties
<1>2. PICK t \in Seq(Updates) : t = Tail(s)
  BY <1>1
<1>3. Len(s) \in Nat /\ Len(t) = Len(s) - 1 /\ \A i \in 1 .. Len(t) : t[i] = s[i + 1]
  BY <1>1, <1>2, LenProperties
<1>4. ASSUME NEW i \in 1 .. Len(t) PROVE t[i].u <= head
  BY <1>3
<1>5. /\ Append(t, m) \in Seq(Updates) /\ Len(Append(t, m)) = Len(t) + 1
      /\ \A i \in 1 .. Len(Append(t, m)) : Append(t, m)[i].u <= head
  BY <1>4, AppendPast
<1>6. Len(Append(t, m)) = Len(s)
  BY <1>3, <1>5
<1>7. QED BY <1>2, <1>5, <1>6, Zenon

LEMMA CacheStep ==
  ASSUME IInv, NEW m \in Updates, m.u <= head, CacheUpdate(m)
  PROVE  /\ buf' \in Seq(Updates) /\ Len(buf') <= bufMax' /\ bufMax' \in {CacheSize, ResetSize}
         /\ \A i \in 1 .. Len(buf') : buf'[i].u <= head
<1> USE DEF IInv
<1>1. /\ buf \in Seq(Updates) /\ Len(buf) \in Nat /\ Len(buf) <= bufMax
      /\ bufMax \in {CacheSize, ResetSize} /\ bufMax \in Nat \ {0}
      /\ \A i \in 1 .. Len(buf) : buf[i].u <= head
  BY LenProperties, BookAssumption DEF TypeOK, QueuesInv
<1>2. CASE UNCHANGED <<buf, bufMax>>
  BY <1>1, <1>2
<1>3. CASE buf' = <<m>> /\ bufMax' = ResetSize
  BY <1>3, BookAssumption
<1>4. CASE buf' = Cached(m) /\ bufMax' = bufMax
  <2>1. CASE Len(buf) < bufMax
    BY <1>1, <1>4, <2>1, AppendPast DEF Cached
  <2>2. CASE ~(Len(buf) < bufMax)
    <3>1. buf # <<>>
      BY <1>1, <2>2
    <3>2. /\ Append(Tail(buf), m) \in Seq(Updates) /\ Len(Append(Tail(buf), m)) = Len(buf)
          /\ \A i \in 1 .. Len(Append(Tail(buf), m)) : Append(Tail(buf), m)[i].u <= head
      BY <1>1, <3>1, ShiftPast
    <3>3. QED BY <1>1, <1>4, <2>2, <3>2 DEF Cached
  <2>3. QED BY <2>1, <2>2
<1>5. QED BY <1>2, <1>3, <1>4 DEF CacheUpdate

LEMMA CallbackStep ==
  ASSUME IInv, NEW m \in Updates, Callback(m)
  PROVE  IInv'
<1> USE DEF IInv, exchange, run
<1>1. m.u <= head /\ CacheUpdate(m) /\ UNCHANGED <<exchange, run>> /\ m.u \in Ids
  BY DEF Callback, Updates
<1>2. /\ buf' \in Seq(Updates) /\ Len(buf') <= bufMax' /\ bufMax' \in {CacheSize, ResetSize}
      /\ \A i \in 1 .. Len(buf') : buf'[i].u <= head
  BY <1>1, CacheStep
<1>3. accepted' \in Ids
  BY <1>1 DEF Callback, TypeOK
<1>4. /\ q' \in Seq(Updates) /\ Len(q') <= QueueSize /\ \A i \in 1 .. Len(q') : q'[i].u <= head
      /\ blocked' \in Seq(Updates) /\ Len(blocked') <= MaxBlocked
      /\ \A i \in 1 .. Len(blocked') : blocked'[i].u <= head
  <2>1. Len(q) \in Nat /\ Len(blocked) \in Nat
    BY LenProperties DEF TypeOK
  <2>2. /\ q \in Seq(Updates) /\ \A i \in 1 .. Len(q) : q[i].u <= head
        /\ blocked \in Seq(Updates) /\ \A i \in 1 .. Len(blocked) : blocked[i].u <= head
        /\ Len(q) <= QueueSize /\ Len(blocked) <= MaxBlocked
    BY DEF TypeOK, QueuesInv
  <2>3. CASE Len(q) < QueueSize
    <3>1. q' = Append(q, m) /\ blocked' = blocked
      BY <2>3 DEF Callback
    <3>2. /\ q' \in Seq(Updates) /\ Len(q') = Len(q) + 1
          /\ \A i \in 1 .. Len(q') : q'[i].u <= head
      BY <1>1, <2>2, <3>1, AppendPast
    <3>3. QED BY <2>1, <2>3, <2>2, <3>1, <3>2, BookAssumption
  <2>4. CASE ~(Len(q) < QueueSize)
    <3>1. q' = q /\ blocked' = Append(blocked, m) /\ Len(blocked) < MaxBlocked
      BY <2>4 DEF Callback
    <3>2. /\ blocked' \in Seq(Updates) /\ Len(blocked') = Len(blocked) + 1
          /\ \A i \in 1 .. Len(blocked') : blocked'[i].u <= head
      BY <1>1, <2>2, <3>1, AppendPast
    <3>3. QED BY <2>1, <2>2, <3>1, <3>2, BookAssumption
  <2>5. QED BY <2>3, <2>4
<1>5. TypeOK' /\ QueuesInv'
  BY <1>1, <1>2, <1>3, <1>4 DEF TypeOK, QueuesInv
<1>6. QED BY <1>1, <1>5 DEF HistInv, PastInv, BookIsTruth

LEMMA PutStep ==
  ASSUME IInv, NEW i \in 1 .. MaxBlocked, PutBlocked(i)
  PROVE  IInv'
<1> USE DEF IInv, exchange, run
<1>1. i \in 1 .. Len(blocked) /\ Len(q) < QueueSize /\ Len(blocked) \in Nat /\ Len(q) \in Nat
  BY LenProperties DEF PutBlocked, TypeOK
<1>2. blocked[i] \in Updates /\ blocked[i].u <= head
  BY <1>1, ElementOfSeq DEF TypeOK, QueuesInv
<1>3. q' \in Seq(Updates) /\ Len(q') <= QueueSize /\ \A n \in 1 .. Len(q') : q'[n].u <= head
  BY <1>1, <1>2, AppendPast, BookAssumption DEF PutBlocked, TypeOK, QueuesInv
<1>4. /\ blocked' \in Seq(Updates) /\ Len(blocked') = Len(blocked) - 1
      /\ \A n \in 1 .. Len(blocked') : blocked'[n].u <= head
  <2>1. \A n \in 1 .. Len(blocked) - 1 :
          (IF n < i THEN blocked[n] ELSE blocked[n + 1]) \in Updates
    BY <1>1, ElementOfSeq DEF TypeOK
  <2>2. blocked' \in [1 .. Len(blocked) - 1 -> Updates] /\ Len(blocked) - 1 \in Nat
    BY <1>1, <2>1 DEF PutBlocked
  <2>3. blocked' \in Seq(Updates) /\ Len(blocked') = Len(blocked) - 1
    BY <2>2, IsASeq, LenProperties
  <2>4. ASSUME NEW n \in 1 .. Len(blocked) - 1 PROVE blocked'[n].u <= head
    BY <1>1, <2>4 DEF PutBlocked, QueuesInv
  <2>5. QED BY <2>3, <2>4
<1>5. UNCHANGED <<exchange, run, buf, bufMax, accepted>>
  BY DEF PutBlocked
<1>6. TypeOK'
  <2>1. MaxBlocked \in Nat /\ Len(blocked) <= MaxBlocked
    BY BookAssumption DEF TypeOK
  <2>2. Len(blocked') <= MaxBlocked
    BY <1>1, <1>4, <2>1
  <2>3. /\ head' = head /\ hist' = hist /\ pc' = pc /\ since' = since /\ cand' = cand
        /\ pos' = pos /\ ob' = ob /\ buf' = buf /\ bufMax' = bufMax /\ accepted' = accepted
    BY <1>5
  <2>4. QED BY <1>3, <1>4, <2>2, <2>3 DEF TypeOK
<1>7. QueuesInv'
  BY <1>3, <1>4, <1>5 DEF QueuesInv
<1>8. QED BY <1>5, <1>6, <1>7 DEF HistInv, PastInv, BookIsTruth
-----------------------------------------------------------------------------
LEMMA InvStep == IInv /\ [Next]_vars => IInv' /\ ob'.id >= ob.id
<1> SUFFICES ASSUME IInv, [Next]_vars PROVE IInv' /\ ob'.id >= ob.id
  OBVIOUS
<1>1. UNCHANGED ob => ob'.id >= ob.id
  BY DEF IInv, TypeOK, LocalBooks, Ids
<1>2. CASE UNCHANGED vars
  BY <1>1, <1>2 DEF vars, exchange, run, callbacks, IInv, TypeOK, HistInv, PastInv, QueuesInv,
                    BookIsTruth
<1>3. CASE ExchangeMoves
  BY <1>1, <1>3, ExchangeStep DEF ExchangeMoves, run
<1>4. CASE Run \/ RequestRaises
  BY <1>4, RunStep
<1>5. ASSUME NEW m \in Updates, Callback(m) PROVE IInv' /\ ob'.id >= ob.id
  BY <1>1, <1>5, CallbackStep DEF Callback, run
<1>6. ASSUME NEW i \in 1 .. MaxBlocked, PutBlocked(i) PROVE IInv' /\ ob'.id >= ob.id
  BY <1>1, <1>6, PutStep DEF PutBlocked, run
<1>7. QED BY <1>2, <1>3, <1>4, <1>5, <1>6 DEF Next

LEMMA Invariance == Spec => []IInv
BY InvInit, InvStep, PTL DEF Spec

\* Every variable keeps its type: queue, cache and callbacks keep to their bounds.
THEOREM TypeCorrect == Spec => []TypeOK
<1>1. IInv => TypeOK
  BY DEF IInv
<1>2. QED BY <1>1, Invariance, PTL

\* The published book is the exchange's book of its id, whatever happens to the
\* updates on their way.
THEOREM PublishedIsTrue == Spec => []BookIsTruth
<1>1. IInv => BookIsTruth
  BY DEF IInv
<1>2. QED BY <1>1, Invariance, PTL

\* No reader of self.ob ever sees it go back, not even over a rebuild.
THEOREM NoWayBack == Spec => NeverGoesBack
<1>1. IInv /\ [Next]_vars => [ob'.id >= ob.id]_vars
  BY InvStep
<1>2. QED BY <1>1, Invariance, PTL DEF Spec, NeverGoesBack
-----------------------------------------------------------------------------
(* The cache *)

Chain(s) == \A i \in 1 .. Len(s) - 1 : s[i + 1].U = s[i].u + 1
Follows(m, s) == s # <<>> => m.U = s[Len(s)].u + 1

LEMMA ChainGrows ==
  ASSUME NEW s \in Seq(Updates), Chain(s), NEW m \in Updates, Follows(m, s)
  PROVE  Chain(Append(s, m))
<1> DEFINE r == Append(s, m)
<1>1. Len(s) \in Nat /\ (s = <<>> <=> Len(s) = 0)
  BY LenProperties, EmptySeq
<1>2. Len(r) = Len(s) + 1 /\ r[Len(s) + 1] = m /\ \A i \in 1 .. Len(s) : r[i] = s[i]
  BY AppendProperties
<1> HIDE DEF r
<1>3. ASSUME NEW i \in 1 .. Len(s)
      PROVE  r[i + 1].U = r[i].u + 1
  <2>1. CASE i = Len(s)
    BY <1>1, <1>2, <2>1 DEF Follows
  <2>2. CASE i # Len(s)
    <3>1. i \in 1 .. Len(s) - 1 /\ i + 1 \in 1 .. Len(s)
      BY <1>1, <2>2
    <3>2. QED BY <1>2, <3>1 DEF Chain
  <2>3. QED BY <2>1, <2>2
<1>4. Len(r) - 1 = Len(s)
  BY <1>1, <1>2
<1>5. QED BY <1>3, <1>4 DEF Chain, r

\* The oldest entry is forgotten.
LEMMA ChainShrinks ==
  ASSUME NEW s \in Seq(Updates), s # <<>>, Chain(s), NEW m \in Updates, Follows(m, s)
  PROVE  Tail(s) \in Seq(Updates) /\ Chain(Tail(s)) /\ Follows(m, Tail(s))
<1> DEFINE t == Tail(s)
<1>1. /\ t \in Seq(Updates) /\ Len(t) = Len(s) - 1 /\ \A i \in 1 .. Len(t) : t[i] = s[i + 1]
  BY HeadTailProperties
<1>2. Len(s) \in Nat /\ Len(t) \in Nat
  BY <1>1, LenProperties
<1> HIDE DEF t
<1>3. Chain(t)
  <2> SUFFICES ASSUME NEW i \in 1 .. Len(t) - 1 PROVE t[i + 1].U = t[i].u + 1
    BY DEF Chain
  <2>1. i \in 1 .. Len(t) /\ i + 1 \in 1 .. Len(t) /\ i + 1 \in 1 .. Len(s) - 1
    BY <1>1, <1>2
  <2>2. s[i + 1 + 1].U = s[i + 1].u + 1
    BY <2>1 DEF Chain
  <2>3. QED BY <1>1, <2>1, <2>2
<1>4. Follows(m, t)
  <2> SUFFICES ASSUME t # <<>> PROVE m.U = t[Len(t)].u + 1
    BY DEF Follows
  <2>1. Len(t) \in 1 .. Len(t) /\ Len(t) + 1 = Len(s)
    BY <1>1, <1>2, EmptySeq
  <2>2. QED BY <1>1, <2>1 DEF Follows
<1>5. QED BY <1>1, <1>3, <1>4 DEF t

LEMMA ChainStep ==
  ASSUME TypeOK, CacheIsChain, [Next]_vars
  PROVE  CacheIsChain'
<1>1. buf \in Seq(Updates) /\ Len(buf) \in Nat /\ Len(buf) <= bufMax /\ bufMax \in Nat \ {0}
  BY LenProperties, BookAssumption DEF TypeOK
<1>2. Chain(buf)
  BY DEF CacheIsChain, Chain
<1>3. CASE buf' = buf
  BY <1>3 DEF CacheIsChain
<1>4. ASSUME NEW m \in Updates, CacheUpdate(m)
      PROVE  CacheIsChain'
  <2>1. CASE buf' = <<m>>
    BY <2>1 DEF CacheIsChain
  <2>2. CASE buf' = Cached(m) /\ Follows(m, buf)
    <3>1. CASE Len(buf) < bufMax
      <4>1. Chain(buf')
        BY <1>1, <1>2, <2>2, <3>1, ChainGrows DEF Cached
      <4>2. QED BY <4>1 DEF CacheIsChain, Chain
    <3>2. CASE ~(Len(buf) < bufMax)
      <4>1. buf # <<>>
        BY <1>1, <3>2, EmptySeq
      <4>2. PICK t \in Seq(Updates) : t = Tail(buf) /\ Chain(t) /\ Follows(m, t)
        BY <1>1, <1>2, <2>2, <4>1, ChainShrinks
      <4>3. Chain(Append(t, m))
        BY <4>2, ChainGrows
      <4>4. buf' = Append(t, m)
        BY <2>2, <3>2, <4>2 DEF Cached
      <4>5. QED BY <4>3, <4>4 DEF CacheIsChain, Chain
    <3>3. QED BY <3>1, <3>2
  <2>3. QED BY <1>3, <1>4, <2>1, <2>2 DEF CacheUpdate, Follows
<1>5. QED
  BY <1>3, <1>4 DEF Next, ExchangeMoves, Run, SnapshotFails, SnapshotArrives, ReplayOne, ReplayEnd,
     TakeUpdate, RequestRaises, Callback, PutBlocked, callbacks, vars

\* The cache never has a hole, although updates are lost, repeated and reordered
\* and the oldest ones forgotten.
THEOREM CacheHasNoHole == Spec => []CacheIsChain
<1>1. Init => CacheIsChain
  BY DEF Init, CacheIsChain
<1>2. TypeOK /\ CacheIsChain /\ [Next]_vars => CacheIsChain'
  BY ChainStep
<1>3. QED BY <1>1, <1>2, TypeCorrect, PTL DEF Spec
-----------------------------------------------------------------------------
(* GateioTrader *)

\* The invariants are inductive together: what is booked is bounded because each
\* plan is made from what remains, and the types hold because what remains is
\* never filled once it is negative.
TraderInv == TraderTypeOK /\ SellerCanPrice /\ OneSlipAtMost

LEMMA TraderInvInit == TraderInit => TraderInv
<1> SUFFICES ASSUME TraderInit PROVE TraderInv
  OBVIOUS
<1>a. /\ listed \in {"empty", "with", "without"} /\ lister \in BOOLEAN /\ ready \in BOOLEAN
      /\ buyer \in {"sleep", "book", "returned", "died"} /\ seller \in {"on", "left"}
  BY DEF TraderInit, TraderStarted, CoinTriggered
<1>b. /\ order \in {"none", "kept"} /\ state \in States
      /\ state \in {"init", "partial"} => order = "none"
      /\ state = "done" => buyer = "returned"
  BY DEF TraderInit, TraderStarted, CoinTriggered, States
<1>c. /\ volume \in Nat /\ amount \in Nat /\ spent \in Nat /\ shown \in Totals
      /\ unbooked \in [cost : Nat, orders : 0 .. MaxUnbooked]
  BY TraderAssumption DEF TraderInit, TraderStarted, CoinTriggered, Totals
<1>1. TraderTypeOK
  BY <1>a, <1>b, <1>c DEF TraderTypeOK
<1>2. SellerCanPrice /\ OneSlipAtMost
  BY TraderAssumption DEF TraderInit, TraderStarted, CoinTriggered, SellerCanPrice,
         OneSlipAtMost
<1>3. QED BY <1>1, <1>2 DEF TraderInv

\* What an order may be filled with fits what remains, but for one slip.
LEMMA FillFits ==
  ASSUME TraderInv, NEW c \in Planned, NEW f \in Fills(c)
  PROVE  /\ f.units \in Nat \ {0} /\ f.cost \in Nat \ {0}
         /\ c \in Int /\ f.units <= c
         /\ f.cost <= Budget + MaxSlip
         /\ volume + f.cost <= Budget + MaxSlip
<1>1. c \in Int /\ (c <= Budget - volume \/ c < 0)
  BY TraderAssumption DEF TraderInv, Planned, Remaining, TraderTypeOK
<1>2. /\ f.units \in 1 .. Budget /\ f.cost \in 1 .. Budget + MaxSlip
      /\ f.units <= c /\ f.cost <= f.units + MaxSlip
  BY DEF Fills
<1>3. QED BY <1>1, <1>2, TraderAssumption DEF TraderInv, TraderTypeOK

\* A fill that is booked and shown.
LEMMA BookedStep ==
  ASSUME TraderInv, NEW f, f.units \in Nat \ {0}, f.cost \in Nat \ {0},
         volume + f.cost <= Budget + MaxSlip, Booked(f), Shows(f),
         unbooked' = unbooked
  PROVE  /\ volume' \in Nat /\ amount' \in Nat /\ spent' \in Nat /\ shown' \in Totals
         /\ SellerCanPrice' /\ OneSlipAtMost'
<1>1. volume \in Nat /\ amount \in Nat /\ spent \in Nat /\ unbooked.cost \in Nat
  BY DEF TraderInv, TraderTypeOK
<1>2. volume' = volume + f.cost /\ amount' = amount + f.units /\ spent' = spent + f.cost
  BY DEF Booked
<1>3. shown' = [volume |-> volume', amount |-> amount']
  BY <1>2 DEF Shows
<1>4. volume' \in Nat /\ amount' \in Nat \ {0} /\ spent' \in Nat
  BY <1>1, <1>2
<1>5. shown' \in Totals /\ SellerCanPrice'
  BY <1>3, <1>4 DEF Totals, SellerCanPrice
<1>6. shown'.volume = volume + f.cost /\ shown.volume = volume
  BY <1>2, <1>3 DEF TraderInv, SellerCanPrice
<1>7. spent' = shown'.volume + unbooked'.cost
  BY <1>1, <1>2, <1>6 DEF TraderInv, OneSlipAtMost
<1>8. OneSlipAtMost'
  BY <1>6, <1>7 DEF TraderInv, OneSlipAtMost
<1>9. QED BY <1>4, <1>5, <1>8

LEMMA TraderInvStep == TraderInv /\ [TraderNext]_traderVars => TraderInv'
<1> SUFFICES ASSUME TraderInv, [TraderNext]_traderVars PROVE TraderInv'
  OBVIOUS
<1> USE DEF TraderInv, market, session, entry
<1>1. CASE ListUpdated \/ ListerDies \/ BookReady
  BY <1>1 DEF ListUpdated, ListerDies, BookReady, TraderTypeOK,
              SellerCanPrice, OneSlipAtMost
<1>2. CASE NotSupported \/ WaitForBook \/ PlanDies \/ SellerLeaves
  <2>1. /\ UNCHANGED <<market, session, entry, spent, unbooked>>
        /\ buyer' \in {buyer, "book", "returned", "died"} /\ seller' \in {seller, "left"}
        /\ state = "done" => buyer' = buyer
    BY <1>2 DEF NotSupported, WaitForBook, PlanDies, Plans, SellerLeaves, TraderTypeOK
  <2>2. TraderTypeOK'
    BY <2>1 DEF TraderTypeOK
  <2>3. QED BY <2>1, <2>2 DEF SellerCanPrice, OneSlipAtMost
<1>3. CASE OrderFails
  <2>1. UNCHANGED <<market, seller, spent, unbooked, shown, volume, amount>>
        /\ state' = "error" /\ order' = "kept" /\ buyer' = "sleep"
    BY <1>3 DEF OrderFails, Fails
  <2>2. TraderTypeOK'
    BY <2>1 DEF TraderTypeOK, States
  <2>3. QED BY <2>1, <2>2 DEF SellerCanPrice, OneSlipAtMost
<1>4. ASSUME NEW f \in AnyFill, PartialFill(f) PROVE TraderInv'
  <2>1. PICK c \in Planned : f \in Fills(c)
    BY <1>4 DEF PartialFill
  <2>2. /\ Booked(f) /\ Shows(f) /\ UNCHANGED <<market, seller, unbooked>>
        /\ state' = "partial" /\ order' = "none" /\ buyer' = "sleep"
    BY <1>4 DEF PartialFill
  <2>3. /\ volume' \in Nat /\ amount' \in Nat /\ spent' \in Nat /\ shown' \in Totals
        /\ SellerCanPrice' /\ OneSlipAtMost'
    BY <2>1, <2>2, FillFits, BookedStep
  <2>4. TraderTypeOK'
    BY <2>2, <2>3 DEF TraderTypeOK, States
  <2>5. QED BY <2>3, <2>4
<1>5. ASSUME NEW f \in AnyFill, Filled(f) PROVE TraderInv'
  <2>1. f.units \in Planned /\ f \in Fills(f.units)
    BY <1>5 DEF Filled
  <2>2. /\ Booked(f) /\ Shows(f) /\ UNCHANGED <<market, seller, unbooked>>
        /\ state' = "done" /\ order' = "kept" /\ buyer' = "returned"
    BY <1>5 DEF Filled
  <2>3. /\ volume' \in Nat /\ amount' \in Nat /\ spent' \in Nat /\ shown' \in Totals
        /\ SellerCanPrice' /\ OneSlipAtMost'
    BY <2>1, <2>2, FillFits, BookedStep
  <2>4. TraderTypeOK'
    BY <2>2, <2>3 DEF TraderTypeOK, States
  <2>5. QED BY <2>3, <2>4
<1>6. ASSUME NEW f \in AnyFill, AnswerLost(f) \/ Cleared(f) PROVE TraderInv'
  <2>1. Unbooked(f) /\ UNCHANGED <<shown, volume, amount>> /\ buyer' = "sleep"
    BY <1>6 DEF AnswerLost, Cleared, Fails, Unbooked
  <2>2. /\ order' \in {"none", "kept"} /\ state' \in States \ {"done"}
        /\ state' \in {"init", "partial"} => order' = "none"
        /\ state' \in {state, "error"}
    <3>1. CASE AnswerLost(f)
      BY <3>1 DEF AnswerLost, Fails, States
    <3>2. CASE Cleared(f)
      <4>1. order' = "none" /\ state' = state /\ state # "done"
        BY <3>2 DEF Cleared, Unbooked, Plans, TraderTypeOK
      <4>2. QED BY <4>1 DEF TraderTypeOK
    <3>3. QED BY <1>6, <3>1, <3>2
  <2>3. PICK c \in Planned : f \in Fills(c)
    BY <2>1 DEF Unbooked
  <2>4. f.cost \in Nat /\ f.cost <= Budget + MaxSlip
    BY <2>3, FillFits
  <2>5. /\ UNCHANGED <<market, seller>> /\ unbooked.orders < MaxUnbooked
        /\ spent' = spent + f.cost
        /\ unbooked' = [cost |-> unbooked.cost + f.cost, orders |-> unbooked.orders + 1]
    BY <2>1 DEF Unbooked
  <2>6. spent' \in Nat /\ unbooked' \in [cost : Nat, orders : 0 .. MaxUnbooked]
    BY <2>4, <2>5, TraderAssumption DEF TraderTypeOK
  <2>7. TraderTypeOK'
    BY <2>1, <2>2, <2>5, <2>6 DEF TraderTypeOK
  <2>8. SellerCanPrice'
    BY <2>1, <2>2 DEF SellerCanPrice
  <2>9. OneSlipAtMost'
    <3>1. PICK n \in Nat : n = unbooked.orders
      BY DEF TraderTypeOK
    <3>2. PICK k \in Nat : k = Budget + MaxSlip
      BY TraderAssumption
    <3>3. unbooked.cost <= n * k /\ f.cost <= k
      BY <3>1, <3>2, <2>4 DEF OneSlipAtMost
    <3>4. unbooked'.cost <= (n + 1) * k
      <4>1. (n + 1) * k = n * k + k /\ n * k \in Nat
        BY <3>1, <3>2
      <4>2. unbooked'.cost = unbooked.cost + f.cost /\ unbooked.cost \in Nat
        BY <2>5 DEF TraderTypeOK
      <4>3. QED BY <4>1, <4>2, <3>3, <3>2, <2>4
    <3>5. unbooked'.orders = n + 1
      BY <2>5, <3>1
    <3>6. spent' = shown'.volume + unbooked'.cost
      BY <2>1, <2>4, <2>5 DEF OneSlipAtMost, TraderTypeOK, Totals
    <3>7. QED BY <2>1, <3>2, <3>4, <3>5, <3>6 DEF OneSlipAtMost
  <2>10. QED BY <2>7, <2>8, <2>9
<1>7. CASE UNCHANGED traderVars
  BY <1>7 DEF traderVars, TraderTypeOK, SellerCanPrice, OneSlipAtMost
<1>8. QED BY <1>1, <1>2, <1>3, <1>4, <1>5, <1>6, <1>7 DEF TraderNext, BuyTurn

\* The totals stay natural numbers through every fill, and none is kept
\* while the entry shows an unfinished session, and a buyer that is done is gone.
THEOREM TraderTypes == TraderSpec => []TraderTypeOK
<1>1. TraderInv => TraderTypeOK
  BY DEF TraderInv
<1>2. QED BY TraderInvInit, TraderInvStep, <1>1, PTL DEF TraderSpec

\* What the seller works with is what the session has bought.
THEOREM SellerIsRight == TraderSpec => []SellerCanPrice
<1>1. TraderInv => SellerCanPrice
  BY DEF TraderInv
<1>2. QED BY TraderInvInit, TraderInvStep, <1>1, PTL DEF TraderSpec

\* What the session books and shows exceeds its budget by the slip of one order
\* at most, and each order it does not book costs a budget and a slip at most.
THEOREM OneSlip == TraderSpec => []OneSlipAtMost
<1>1. TraderInv => OneSlipAtMost
  BY DEF TraderInv
<1>2. QED BY TraderInvInit, TraderInvStep, <1>1, PTL DEF TraderSpec
-----------------------------------------------------------------------------
(* Where a sequence has an element *)

LEMMA PlacesAreFinite ==
  ASSUME NEW S, NEW s \in Seq(S), NEW a
  PROVE  /\ Places(s, a) \subseteq 1 .. Len(s)
         /\ IsFiniteSet(Places(s, a)) /\ Cardinality(Places(s, a)) \in Nat
<1>1. Len(s) \in Nat /\ DOMAIN s = 1 .. Len(s)
  BY LenProperties
<1>2. IsFiniteSet(1 .. Len(s)) /\ Places(s, a) \subseteq 1 .. Len(s)
  BY <1>1, FS_Interval DEF Places
<1>3. IsFiniteSet(Places(s, a))
  BY <1>2, FS_Subset
<1>4. QED BY <1>2, <1>3, FS_CardinalityType

LEMMA PlacesOfEmpty ==
  ASSUME NEW S, NEW a
  PROVE  Places(<<>>, a) = {} /\ Cardinality(Places(<<>>, a)) = 0
<1>1. <<>> \in Seq(S) /\ Len(<<>>) = 0
  BY EmptySeq
<1>2. DOMAIN <<>> = {}
  BY <1>1, LenProperties
<1>3. QED BY <1>2, FS_EmptySet DEF Places

\* Moved by d places, as the end of a longer sequence is.
LEMMA PlacesShift ==
  ASSUME NEW T, IsFiniteSet(T), T \subseteq Nat, NEW d \in Nat, NEW R,
         R = {i + d : i \in T}
  PROVE  IsFiniteSet(R) /\ Cardinality(R) = Cardinality(T)
<1> DEFINE f == [i \in T |-> i + d]
<1>1. f \in Bijection(T, R)
  BY Z3 DEF Bijection, Injection, Surjection, IsInjective
<1>2. ExistsBijection(T, R)
  BY <1>1 DEF ExistsBijection
<1>3. QED BY <1>2, FS_Bijection

LEMMA PlacesOfConcat ==
  ASSUME NEW S, NEW s \in Seq(S), NEW t \in Seq(S), NEW a
  PROVE  Cardinality(Places(s \o t, a)) = Cardinality(Places(s, a)) + Cardinality(Places(t, a))
<1> DEFINE m == Len(s)
           n == Len(t)
           P == Places(s, a)
           R == {i + m : i \in Places(t, a)}
<1>1. /\ m \in Nat /\ DOMAIN s = 1 .. m
      /\ n \in Nat /\ DOMAIN t = 1 .. n
  BY LenProperties
<1>2. /\ s \o t \in Seq(S) /\ Len(s \o t) = m + n
      /\ \A i \in 1 .. m + n : (s \o t)[i] = IF i <= m THEN s[i] ELSE t[i - m]
  BY ConcatProperties
<1>3. DOMAIN (s \o t) = 1 .. m + n
  BY <1>2, LenProperties
<1>4. ASSUME NEW i \in Places(s \o t, a) PROVE i \in P \cup R
  <2>1. i \in 1 .. m + n /\ (s \o t)[i] = a
    BY <1>3 DEF Places
  <2>2. CASE i <= m
    BY <1>1, <1>2, <2>1, <2>2 DEF Places
  <2>3. CASE i > m
    <3>1. i - m \in 1 .. n /\ t[i - m] = a /\ i = (i - m) + m
      BY <1>1, <1>2, <2>1, <2>3
    <3>2. i - m \in Places(t, a)
      BY <1>1, <3>1 DEF Places
    <3>3. QED BY <3>1, <3>2
  <2>4. QED BY <1>1, <2>1, <2>2, <2>3
<1>5. P \subseteq Places(s \o t, a)
  BY <1>1, <1>2, <1>3 DEF Places
<1>6. ASSUME NEW j \in Places(t, a) PROVE j + m \in Places(s \o t, a)
  <2>1. j \in 1 .. n /\ t[j] = a
    BY <1>1 DEF Places
  <2>2. j + m \in 1 .. m + n /\ ~(j + m <= m) /\ (j + m) - m = j
    BY <1>1, <2>1
  <2>3. QED BY <1>2, <1>3, <2>1, <2>2 DEF Places
<1>7. Places(s \o t, a) = P \cup R
  BY <1>4, <1>5, <1>6
<1>8. /\ IsFiniteSet(P) /\ P \subseteq 1 .. m
      /\ IsFiniteSet(Places(t, a)) /\ Places(t, a) \subseteq 1 .. n
      /\ Cardinality(P) \in Nat /\ Cardinality(Places(t, a)) \in Nat
  BY PlacesAreFinite
<1>9. IsFiniteSet(R) /\ Cardinality(R) = Cardinality(Places(t, a))
  <2>1. Places(t, a) \subseteq Nat
    BY <1>8
  <2>2. QED BY <1>1, <1>8, <2>1, PlacesShift
<1>10. P \cap R = {}
  BY <1>1, <1>8
<1>11. Cardinality(P \cup R) = Cardinality(P) + Cardinality(R) - Cardinality(P \cap R)
  BY <1>8, <1>9, FS_Union
<1>12. Cardinality(P \cap R) = 0
  BY <1>10, FS_EmptySet
<1>13. QED BY <1>7, <1>8, <1>9, <1>11, <1>12

LEMMA PlacesOfAppend ==
  ASSUME NEW S, NEW s \in Seq(S), NEW e \in S, NEW a
  PROVE  Cardinality(Places(Append(s, e), a)) =
           Cardinality(Places(s, a)) + (IF e = a THEN 1 ELSE 0)
<1> DEFINE r == Append(s, e)
           n == Len(s) + 1
<1>1. Len(s) \in Nat /\ DOMAIN s = 1 .. Len(s)
  BY LenProperties
<1>2. r \in Seq(S) /\ Len(r) = n /\ r[n] = e /\ \A i \in 1 .. Len(s) : r[i] = s[i]
  BY AppendProperties
<1>3. DOMAIN r = 1 .. n
  BY <1>2, LenProperties
<1>4. Places(r, a) = IF e = a THEN Places(s, a) \cup {n} ELSE Places(s, a)
  BY <1>1, <1>2, <1>3 DEF Places
<1>5. IsFiniteSet(Places(s, a)) /\ Cardinality(Places(s, a)) \in Nat /\ n \notin Places(s, a)
  BY <1>1, PlacesAreFinite
<1>6. Cardinality(Places(s, a) \cup {n}) = Cardinality(Places(s, a)) + 1
  BY <1>5, FS_AddElement
<1>7. QED BY <1>4, <1>5, <1>6

LEMMA PlacesOfTail ==
  ASSUME NEW S, NEW s \in Seq(S), s # <<>>, NEW a
  PROVE  Cardinality(Places(s, a)) =
           Cardinality(Places(Tail(s), a)) + (IF Head(s) = a THEN 1 ELSE 0)
<1> DEFINE t == Tail(s)
           R == {i + 1 : i \in Places(t, a)}
<1>1. Len(s) \in Nat \ {0} /\ DOMAIN s = 1 .. Len(s)
  BY LenProperties, EmptySeq
<1>2. /\ t \in Seq(S) /\ Len(t) = Len(s) - 1
      /\ \A i \in 1 .. Len(s) - 1 : t[i] = s[i + 1]
  BY HeadTailProperties
<1>3. DOMAIN t = 1 .. Len(s) - 1
  BY <1>2, LenProperties
<1>4. /\ IsFiniteSet(Places(t, a)) /\ Cardinality(Places(t, a)) \in Nat
      /\ Places(t, a) \subseteq 1 .. Len(s) - 1
  BY <1>2, PlacesAreFinite
<1>5. IsFiniteSet(R) /\ Cardinality(R) = Cardinality(Places(t, a))
  <2>1. Places(t, a) \subseteq Nat
    BY <1>4
  <2>2. QED BY <1>4, <2>1, PlacesShift
<1>6. 1 \notin R
  BY <1>1, <1>4
<1>7. ASSUME NEW i \in Places(s, a), i # 1 PROVE i \in R
  <2>1. i \in 1 .. Len(s) /\ s[i] = a
    BY <1>1 DEF Places
  <2>2. i - 1 \in 1 .. Len(s) - 1 /\ i = (i - 1) + 1
    BY <1>1, <1>7, <2>1
  <2>3. i - 1 \in Places(t, a)
    BY <1>2, <1>3, <2>1, <2>2 DEF Places
  <2>4. QED BY <2>2, <2>3
<1>8. R \subseteq Places(s, a)
  <2>1. ASSUME NEW j \in Places(t, a) PROVE j + 1 \in Places(s, a)
    BY <1>1, <1>2, <1>3 DEF Places
  <2>2. QED BY <2>1
<1>9. Head(s) = s[1] /\ 1 \in DOMAIN s
  BY <1>1
<1>10. Places(s, a) = IF Head(s) = a THEN R \cup {1} ELSE R
  BY <1>7, <1>8, <1>9 DEF Places
<1>11. Cardinality(R \cup {1}) = Cardinality(R) + 1
  BY <1>5, <1>6, FS_AddElement
<1>12. QED BY <1>4, <1>5, <1>10, <1>11

\* A page holds an article once.
LEMMA PlacesOnce ==
  ASSUME NEW S, NEW s \in Seq(S), IsInjective(s), NEW a
  PROVE  Cardinality(Places(s, a)) <= 1
<1>1. IsFiniteSet(Places(s, a))
  BY PlacesAreFinite
<1>2. CASE Places(s, a) = {}
  BY <1>2, FS_EmptySet
<1>3. ASSUME NEW i \in Places(s, a) PROVE Places(s, a) = {i}
  BY <1>3 DEF Places, IsInjective
<1>4. CASE Places(s, a) # {}
  <2>1. PICK i : i \in Places(s, a)
    BY <1>4
  <2>2. Places(s, a) = {i}
    BY <1>3, <2>1
  <2>3. Cardinality({i}) = 1
    BY FS_Singleton
  <2>4. QED BY <2>2, <2>3
<1>5. QED BY <1>2, <1>4

\* An element that is in no place.
LEMMA PlacesNone ==
  ASSUME NEW S, NEW s \in Seq(S), NEW a
  PROVE  (Cardinality(Places(s, a)) > 0) <=> (a \in Range(s))
<1>1. IsFiniteSet(Places(s, a)) /\ Cardinality(Places(s, a)) \in Nat
  BY PlacesAreFinite
<1>2. Cardinality(Places(s, a)) = 0 <=> Places(s, a) = {}
  BY <1>1, FS_EmptySet
<1>3. Places(s, a) # {} <=> a \in Range(s)
  BY DEF Places, Range
<1>4. QED BY <1>1, <1>2, <1>3
-----------------------------------------------------------------------------
(* What a poll puts *)

LEMMA NewestFirstOnce ==
  ASSUME NEW P \in SUBSET Listings, NEW s \in NewestFirst(P)
  PROVE  s \in Seq(Listings) /\ IsInjective(s) /\ Range(s) = P
<1> DEFINE n == Cardinality(P)
<1>1. IsFiniteSet(P)
  <2>1. MaxArticle \in Int /\ P \subseteq 1 .. MaxArticle
    BY ListingAssumption DEF Listings, Articles
  <2>2. IsFiniteSet(1 .. MaxArticle)
    BY <2>1, FS_Interval
  <2>3. QED BY <2>1, <2>2, FS_Subset
<1>2. n \in Nat
  BY <1>1, FS_CardinalityType
<1>3. s \in [1 .. n -> P] /\ \A i, j \in 1 .. n : i < j => s[i] > s[j]
  BY DEF NewestFirst
<1>4. \A i \in 1 .. n : s[i] \in Int
  <2>1. P \subseteq Int
    BY ListingAssumption DEF Listings, Articles
  <2>2. QED BY <1>3, <2>1
<1> HIDE DEF n
<1>5. IsInjective(s)
  <2> SUFFICES ASSUME NEW i \in 1 .. n, NEW j \in 1 .. n, s[i] = s[j] PROVE i = j
    BY <1>3 DEF IsInjective
  <2>1. i \in Int /\ j \in Int /\ s[i] \in Int /\ ~(s[i] > s[j]) /\ ~(s[j] > s[i])
    BY <1>2, <1>4
  <2>2. ~(i < j) /\ ~(j < i)
    BY <1>3, <2>1
  <2>3. QED BY <2>1, <2>2
<1>6. s \in Injection(1 .. n, P)
  BY <1>3, <1>5 DEF Injection
<1>7. Cardinality(1 .. n) = n
  BY <1>2, FS_Interval
<1>8. s \in Surjection(1 .. n, P)
  BY <1>1, <1>6, <1>7, FS_Injection DEF n
<1>9. Range(s) = P
  BY <1>3, <1>8 DEF Surjection, Range
<1>10. \A i \in 1 .. n : s[i] \in Listings
  BY <1>3
<1>11. s = [i \in 1 .. n |-> s[i]]
  BY <1>3
<1>12. s \in Seq(Listings)
  <2>1. s \in [1 .. n -> Listings]
    BY <1>3, <1>10
  <2>2. QED BY <1>2, <2>1, SeqDef
<1>13. QED BY <1>5, <1>9, <1>12

LEMMA PrefixOnce ==
  ASSUME NEW s \in Seq(Listings), IsInjective(s), NEW got \in Prefixes(s)
  PROVE  got \in Seq(Listings) /\ IsInjective(got) /\ Range(got) \subseteq Range(s)
<1>1. PICK n \in 0 .. Len(s) : got = SubSeq(s, 1, n)
  BY DEF Prefixes
<1>2. Len(s) \in Nat /\ DOMAIN s = 1 .. Len(s) /\ \A i \in 1 .. n : s[i] \in Listings
  BY LenProperties, ElementOfSeq
<1>3. /\ got \in Seq(Listings) /\ Len(got) = n
      /\ \A i \in 1 .. n : got[i] = s[i]
  <2>1. 1 \in Int /\ n \in Int
    BY <1>2
  <2>2. /\ SubSeq(s, 1, n) \in Seq(Listings)
        /\ Len(SubSeq(s, 1, n)) = IF 1 <= n THEN n - 1 + 1 ELSE 0
        /\ \A i \in 1 .. n - 1 + 1 : SubSeq(s, 1, n)[i] = s[1 + i - 1]
    BY <1>2, <2>1, SubSeqProperties
  <2>3. QED BY <1>1, <1>2, <2>2
<1>4. DOMAIN got = 1 .. n
  BY <1>3, LenProperties
<1>5. \A i \in 1 .. n : i \in DOMAIN s
  BY <1>2
<1>6. QED BY <1>2, <1>3, <1>4, <1>5 DEF IsInjective, Range

LEMMA RangeOfTail ==
  ASSUME NEW S, NEW s \in Seq(S), s # <<>>
  PROVE  Range(s) = {Head(s)} \cup Range(Tail(s))
<1>1. Len(s) \in Nat \ {0} /\ DOMAIN s = 1 .. Len(s)
  BY LenProperties, EmptySeq
<1>2. /\ Tail(s) \in Seq(S) /\ Len(Tail(s)) = Len(s) - 1
      /\ \A i \in 1 .. Len(s) - 1 : Tail(s)[i] = s[i + 1]
  BY HeadTailProperties
<1>3. DOMAIN Tail(s) = 1 .. Len(s) - 1
  BY <1>2, LenProperties
<1>4. Head(s) = s[1]
  OBVIOUS
<1>5. \A i \in 1 .. Len(s) : i = 1 \/ (i - 1 \in 1 .. Len(s) - 1 /\ (i - 1) + 1 = i)
  BY <1>1
<1>6. ASSUME NEW i \in 1 .. Len(s) PROVE s[i] \in {Head(s)} \cup Range(Tail(s))
  <2>1. CASE i = 1
    BY <1>4, <2>1
  <2>2. CASE i # 1
    <3>1. i - 1 \in 1 .. Len(s) - 1 /\ Tail(s)[i - 1] = s[i]
      BY <1>2, <1>5, <2>2
    <3>2. QED BY <1>3, <3>1 DEF Range
  <2>3. QED BY <2>1, <2>2
<1>7. \A i \in 1 .. Len(s) - 1 : i + 1 \in 1 .. Len(s)
  BY <1>1
<1>8. QED BY <1>1, <1>2, <1>3, <1>4, <1>6, <1>7 DEF Range

\* What is put is not put again.
LEMMA TailOnce ==
  ASSUME NEW S, NEW s \in Seq(S), s # <<>>, IsInjective(s)
  PROVE  IsInjective(Tail(s)) /\ Head(s) \notin Range(Tail(s))
<1>1. Len(s) \in Nat \ {0} /\ DOMAIN s = 1 .. Len(s) /\ Head(s) = s[1]
  BY LenProperties, EmptySeq
<1>2. /\ Tail(s) \in Seq(S) /\ Len(Tail(s)) = Len(s) - 1
      /\ \A i \in 1 .. Len(s) - 1 : Tail(s)[i] = s[i + 1]
  BY HeadTailProperties
<1>3. DOMAIN Tail(s) = 1 .. Len(s) - 1
  BY <1>2, LenProperties
<1>4. \A i \in 1 .. Len(s) - 1 : i + 1 \in 1 .. Len(s) /\ i + 1 # 1 /\ 1 \in 1 .. Len(s)
  BY <1>1
<1>5. IsInjective(Tail(s))
  <2> SUFFICES ASSUME NEW i \in 1 .. Len(s) - 1, NEW j \in 1 .. Len(s) - 1,
                      Tail(s)[i] = Tail(s)[j]
               PROVE  i = j
    BY <1>3 DEF IsInjective
  <2>1. s[i + 1] = s[j + 1]
    BY <1>2
  <2>2. i + 1 = j + 1
    BY <1>1, <1>4, <2>1 DEF IsInjective
  <2>3. QED BY <2>2
<1>6. QED BY <1>1, <1>2, <1>3, <1>4, <1>5 DEF Range, IsInjective

LEMMA RangeOfAppend ==
  ASSUME NEW S, NEW s \in Seq(S), NEW e \in S
  PROVE  Range(Append(s, e)) = Range(s) \cup {e}
<1>1. Len(s) \in Nat /\ DOMAIN s = 1 .. Len(s)
  BY LenProperties
<1>2. /\ Append(s, e) \in Seq(S) /\ Len(Append(s, e)) = Len(s) + 1
      /\ Append(s, e)[Len(s) + 1] = e
      /\ \A i \in 1 .. Len(s) : Append(s, e)[i] = s[i]
  BY AppendProperties
<1>3. DOMAIN Append(s, e) = 1 .. Len(s) + 1
  BY <1>2, LenProperties
<1>4. QED BY <1>1, <1>2, <1>3 DEF Range
-----------------------------------------------------------------------------
(* The poller: what it keeps to *)

Starting == phase \in {"first", "drain", "raised"}

\* The poll p may still put a.
Brings(p, a) == \/ poll[p].pc = "asked" /\ a \notin poll[p].known
                \/ poll[p].pc = "puts" /\ a \in Range(poll[p].todo)
Bringers(a) == {p \in Pollers : Brings(p, a)}

\* The copies of a there are and may be before another poll starts.
AllCopies(a) == Copies(a) + Cardinality(Bringers(a))

\* While the bot starts, no poll is under way; a page holds an article once.
StartInv ==
  Starting => /\ poll = [p \in Pollers |-> Idle]
              /\ announced = {} /\ initial = known
              /\ count = Len(queue)
              /\ page - 1 <= FirstPages
              /\ phase = "first" => page <= FirstPages
              /\ phase = "first" /\ page = 1 => origin = 0
              /\ \A a \in Articles : Copies(a) <= page - 1

KnownInv == /\ \A a \in Articles : a \in known <=> seen[a] > 0
            /\ initial \subseteq known

\* The first page has become old, and what was not on it is newer.
OriginInv ==
  origin > 0 => \A a \in Listings : origin - MaxPage < a /\ a <= origin =>
                  a \in initial \/ (Starting /\ a \in Range(queue))

\* What a poll has found: once each, and nothing it knew.
PollsInv ==
  \A p \in Pollers :
    /\ poll[p].pc # "idle" => initial \subseteq poll[p].known
    /\ poll[p].pc = "puts" => /\ poll[p].todo # <<>> /\ IsInjective(poll[p].todo)
                              /\ \A a \in Range(poll[p].todo) : /\ a \notin poll[p].known
                                                                /\ a > origin \/ wentBack

\* What is on its way to poll_loop, or was announced there, is new.
NewsInv ==
  ~Starting => \A a \in announced \cup Range(queue) : a \notin initial /\ (a > origin \/ wentBack)

CopiesInv ==
  ~Starting => \A a \in Articles :
    IF a \in initial THEN Copies(a) <= FirstPages
    ELSE /\ AllCopies(a) <= Cardinality(Pollers) + 1
         /\ phase = "poll" /\ seen[a] = 0 => AllCopies(a) <= Cardinality(Pollers)

PollIInv == /\ PollTypeOK /\ StartInv /\ KnownInv /\ OriginInv /\ PollsInv
            /\ NewsInv /\ CopiesInv
-----------------------------------------------------------------------------
LEMMA JobFields ==
  ASSUME PollTypeOK, NEW p \in Pollers
  PROVE  /\ poll[p].pc \in {"idle", "asked", "puts"} /\ poll[p].known \in SUBSET Articles
         /\ poll[p].todo \in Seq(Listings)
         /\ poll[p].pc # "idle" => poll[p] \in Jobs
         /\ poll[p].pc = "idle" => poll[p] = Idle
<1>1. <<>> \in Seq(Listings)
  BY EmptySeq
<1>2. poll[p] \in Jobs \cup {Idle}
  BY DEF PollTypeOK
<1>3. CASE poll[p] \in Jobs
  BY <1>3 DEF Jobs
<1>4. CASE poll[p] = Idle
  BY <1>1, <1>4 DEF Idle
<1>5. QED BY <1>2, <1>3, <1>4

LEMMA CopiesTypes ==
  ASSUME PollTypeOK, NEW a \in Articles
  PROVE  /\ seen[a] \in Nat /\ Cardinality(Places(queue, a)) \in Nat
         /\ Cardinality(Pollers) \in Nat
         /\ IsFiniteSet(Bringers(a))
         /\ Cardinality(Bringers(a)) \in Nat /\ Cardinality(Bringers(a)) <= Cardinality(Pollers)
<1>1. seen[a] \in Nat /\ queue \in Seq(Listings)
  BY DEF PollTypeOK
<1>2. Cardinality(Places(queue, a)) \in Nat
  BY <1>1, PlacesAreFinite
<1>3. IsFiniteSet(Pollers) /\ Bringers(a) \in SUBSET Pollers
  BY ListingAssumption DEF Bringers
<1>4. IsFiniteSet(Bringers(a)) /\ Cardinality(Bringers(a)) <= Cardinality(Pollers)
  BY <1>3, FS_Subset
<1>5. Cardinality(Pollers) \in Nat /\ Cardinality(Bringers(a)) \in Nat
  BY <1>3, <1>4, FS_CardinalityType
<1>6. QED BY <1>1, <1>2, <1>4, <1>5

LEMMA PollInvInit == PollInit => PollIInv
<1> SUFFICES ASSUME PollInit PROVE PollIInv
  OBVIOUS
<1> USE DEF PollInit
<1>1. <<>> \in Seq(Listings) /\ Len(<<>>) = 0
  BY EmptySeq
<1>2. PollTypeOK
  <2>1. published \in 0 .. MaxArticle /\ dump \in BOOLEAN
    BY ListingAssumption
  <2>2. poll \in [Pollers -> Jobs \cup {Idle}] /\ seen \in [Articles -> Nat]
    OBVIOUS
  <2>3. /\ queue \in Seq(Listings) /\ known \in SUBSET Listings
        /\ initial \in SUBSET Listings /\ announced \in SUBSET Listings
    BY <1>1
  <2>4. /\ phase = "first" /\ page \in Nat \ {0} /\ count \in Nat /\ origin \in Nat
    OBVIOUS
  <2>5. wentBack \in BOOLEAN
    BY Zenon
  <2> HIDE DEF PollInit
  <2>6. QED BY <2>1, <2>2, <2>3, <2>4, <2>5 DEF PollTypeOK
<1>3. \A a \in Articles : Copies(a) = 0
  BY PlacesOfEmpty DEF Copies
<1>4. FirstPages \in Nat \ {0}
  BY ListingAssumption DEF FirstPages
<1>5. StartInv
  BY <1>1, <1>3, <1>4 DEF StartInv
<1>6. Starting /\ KnownInv /\ OriginInv
  BY DEF Starting, KnownInv, OriginInv
<1>7. PollsInv
  BY DEF PollsInv, Idle
<1>8. QED BY <1>2, <1>5, <1>6, <1>7 DEF PollIInv, NewsInv, CopiesInv
-----------------------------------------------------------------------------
(* The constructor keeps it *)

LEMMA FirstPollKeeps == PollIInv /\ FirstPoll => PollIInv'
<1> SUFFICES ASSUME PollIInv, FirstPoll PROVE PollIInv'
  OBVIOUS
<1>1. PollTypeOK /\ StartInv /\ KnownInv /\ OriginInv /\ Starting /\ phase = "first"
  BY DEF PollIInv, FirstPoll, Starting
<1>2. PICK top \in Tops : \E all \in NewestFirst(NewOn(top, page, MaxPage, {})) :
                            \E got \in Prefixes(all) :
        /\ queue' = queue \o got
        /\ count' = count + Len(got)
        /\ origin' = IF page > 1 THEN origin ELSE IF got = all THEN top ELSE 0
  BY DEF FirstPoll
<1>3. PICK all \in NewestFirst(NewOn(top, page, MaxPage, {})) : \E got \in Prefixes(all) :
        /\ queue' = queue \o got
        /\ count' = count + Len(got)
        /\ origin' = IF page > 1 THEN origin ELSE IF got = all THEN top ELSE 0
  BY <1>2
<1>4. PICK got \in Prefixes(all) :
        /\ queue' = queue \o got
        /\ count' = count + Len(got)
        /\ origin' = IF page > 1 THEN origin ELSE IF got = all THEN top ELSE 0
  BY <1>3
<1>5. /\ page' = page + 1
      /\ phase' = IF LastPage THEN "drain" ELSE "first"
      /\ UNCHANGED <<published, dump, results, poll, wentBack>>
  BY DEF FirstPoll
<1>6. /\ published' = published /\ dump' = dump /\ known' = known /\ seen' = seen
      /\ initial' = initial /\ announced' = announced /\ poll' = poll /\ wentBack' = wentBack
  BY <1>5 DEF results
<1>7. NewOn(top, page, MaxPage, {}) \in SUBSET Listings
  BY DEF NewOn
<1>8. all \in Seq(Listings) /\ IsInjective(all) /\ Range(all) = NewOn(top, page, MaxPage, {})
  BY <1>7, NewestFirstOnce
<1>9. got \in Seq(Listings) /\ IsInjective(got)
  BY <1>8, PrefixOnce
<1>10. /\ queue \in Seq(Listings) /\ count \in Nat /\ page \in Nat \ {0} /\ origin \in Nat
       /\ published \in 0 .. MaxArticle /\ MaxArticle \in Nat
  BY <1>1, ListingAssumption DEF PollTypeOK
<1>11. /\ queue' \in Seq(Listings) /\ Len(queue') = Len(queue) + Len(got)
       /\ Range(queue') = Range(queue) \cup Range(got)
       /\ Len(got) \in Nat /\ Len(queue) \in Nat
  <2>1. Range(queue') = Range(queue) \cup Range(got)
    BY <1>4, <1>9, <1>10, RangeConcatenation
  <2>2. Len(got) \in Nat /\ Len(queue) \in Nat
    BY <1>9, <1>10, LenProperties
  <2>3. QED BY <1>4, <1>9, <1>10, <2>1, <2>2, ConcatProperties
<1>12. Starting' /\ phase' \in {"first", "drain"}
  BY <1>5 DEF Starting
<1>13. origin' \in Nat
  BY <1>4, <1>10 DEF Tops
<1>14. count' = Len(queue') /\ count' \in Nat
  BY <1>1, <1>4, <1>10, <1>11 DEF StartInv
<1>15. PollTypeOK'
  BY <1>1, <1>5, <1>6, <1>10, <1>11, <1>12, <1>13, <1>14 DEF PollTypeOK
<1>16. ASSUME NEW a \in Articles PROVE Copies(a)' <= page' - 1
  <2>1. Cardinality(Places(queue', a)) =
          Cardinality(Places(queue, a)) + Cardinality(Places(got, a))
    BY <1>4, <1>9, <1>10, PlacesOfConcat
  <2>2. Cardinality(Places(got, a)) <= 1 /\ Cardinality(Places(got, a)) \in Nat
    BY <1>9, PlacesOnce, PlacesAreFinite
  <2>3. Copies(a) <= page - 1
    BY <1>1 DEF StartInv
  <2>4. seen[a] \in Nat /\ Cardinality(Places(queue, a)) \in Nat
    BY <1>1, CopiesTypes
  <2>5. QED BY <1>5, <1>6, <1>10, <2>1, <2>2, <2>3, <2>4 DEF Copies
<1>17. page <= FirstPages /\ FirstPages' = FirstPages /\ FirstPages \in Nat
  BY <1>1, <1>6, ListingAssumption DEF StartInv, FirstPages
<1>18. phase' = "first" => page' <= FirstPages
  BY <1>5, <1>10, <1>17, ListingAssumption DEF LastPage, FirstPages
<1>19. StartInv'
  BY <1>1, <1>5, <1>6, <1>10, <1>14, <1>16, <1>17, <1>18 DEF StartInv
<1>20. OriginInv'
  <2> SUFFICES ASSUME origin' > 0, NEW a \in Listings, origin' - MaxPage < a, a <= origin'
               PROVE  a \in initial' \/ a \in Range(queue')
    BY <1>12 DEF OriginInv
  <2>1. CASE page > 1
    BY <1>1, <1>4, <1>6, <1>11, <2>1 DEF OriginInv
  <2>2. CASE ~(page > 1)
    <3>1. page = 1 /\ got = all /\ origin' = top
      BY <1>4, <1>10, <2>2
    <3>2. top \in Int /\ MaxPage \in Int /\ a \in Int
      BY <1>10, ListingAssumption DEF Tops, Listings, Articles
    <3>3. a \in NewOn(top, 1, MaxPage, {})
      BY <3>1, <3>2 DEF NewOn
    <3>4. QED BY <1>8, <1>11, <3>1, <3>3
  <2>3. QED BY <2>1, <2>2
<1>21. KnownInv'
  BY <1>1, <1>6 DEF KnownInv
<1>22. PollsInv'
  BY <1>1, <1>6 DEF StartInv, PollsInv, Idle
<1>23. QED BY <1>12, <1>15, <1>19, <1>20, <1>21, <1>22 DEF PollIInv, NewsInv, CopiesInv

LEMMA RefusedKeeps == PollIInv /\ FirstPollRefused => PollIInv'
<1> SUFFICES ASSUME PollIInv, FirstPollRefused PROVE PollIInv'
  OBVIOUS
<1> USE DEF PollIInv, FirstPollRefused, constructor, results, Starting
<1>1. PollTypeOK' /\ KnownInv' /\ OriginInv'
  BY DEF PollTypeOK, KnownInv, OriginInv
<1>2. \A a \in Articles : Copies(a)' = Copies(a)
  BY DEF Copies
<1>3. FirstPages' = FirstPages
  BY DEF FirstPages
<1>4. StartInv' /\ PollsInv'
  BY <1>2, <1>3 DEF StartInv, PollsInv, Idle
<1>5. QED BY <1>1, <1>4 DEF NewsInv, CopiesInv

\* process_new_article moves a copy from the queue to what was seen.
LEMMA TakeOneMoves ==
  ASSUME PollTypeOK, KnownInv, TakeOne
  PROVE  /\ queue # <<>> /\ Head(queue) \in Listings
         /\ queue' \in Seq(Listings) /\ Len(queue') = Len(queue) - 1
         /\ Range(queue) = {Head(queue)} \cup Range(queue')
         /\ known' = known \cup {Head(queue)} /\ known' \in SUBSET Listings
         /\ seen' \in [Articles -> Nat]
         /\ \A a \in Articles : a \in known' <=> seen'[a] > 0
         /\ \A a \in Articles : Copies(a)' = Copies(a)
<1> DEFINE h == Head(queue)
<1>1. queue # <<>> /\ queue \in Seq(Listings) /\ queue' = Tail(queue) /\ Process(h)
  BY DEF TakeOne, PollTypeOK
<1>2. h \in Listings /\ queue' \in Seq(Listings) /\ Len(queue') = Len(queue) - 1
  BY <1>1, HeadTailProperties
<1>3. Range(queue) = {h} \cup Range(queue')
  BY <1>1, RangeOfTail
<1>4. h \in Articles
  BY <1>2 DEF Listings
<1>5. known' = known \cup {h} /\ seen' = [seen EXCEPT ![h] = @ + 1]
  BY <1>1 DEF Process
<1>6. known' \in SUBSET Listings /\ seen' \in [Articles -> Nat]
  BY <1>2, <1>4, <1>5 DEF PollTypeOK
<1>7. \A a \in Articles : seen'[a] = IF a = h THEN seen[a] + 1 ELSE seen[a]
  BY <1>4, <1>5 DEF PollTypeOK
<1>8. \A a \in Articles : a \in known' <=> seen'[a] > 0
  BY <1>5, <1>7 DEF KnownInv, PollTypeOK
<1>9. ASSUME NEW a \in Articles PROVE Copies(a)' = Copies(a)
  <2>1. Cardinality(Places(queue, a)) =
          Cardinality(Places(queue', a)) + (IF h = a THEN 1 ELSE 0)
    BY <1>1, PlacesOfTail
  <2>2. Cardinality(Places(queue', a)) \in Nat
    BY <1>2, PlacesAreFinite
  <2>3. seen[a] \in Nat
    BY DEF PollTypeOK
  <2>4. QED BY <1>7, <2>1, <2>2, <2>3 DEF Copies
<1> HIDE DEF h
<1>10. QED BY <1>1, <1>2, <1>3, <1>5, <1>6, <1>8, <1>9 DEF h

LEMMA DrainKeeps == PollIInv /\ DrainFirst => PollIInv'
<1> SUFFICES ASSUME PollIInv, DrainFirst PROVE PollIInv'
  OBVIOUS
<1>1. /\ PollTypeOK /\ StartInv /\ KnownInv /\ OriginInv /\ Starting /\ Starting'
      /\ phase = "drain" /\ phase' = "drain" /\ count > 0 /\ count' = count - 1
  BY DEF PollIInv, DrainFirst, Starting
<1>2. TakeOne /\ UNCHANGED <<published, dump, page, origin, poll, wentBack>>
  BY DEF DrainFirst
<1>3. initial' = initial \cup {Head(queue)} /\ announced' = announced
  BY <1>1, <1>2 DEF TakeOne, Process
<1>4. /\ queue # <<>> /\ Head(queue) \in Listings
      /\ queue' \in Seq(Listings) /\ Len(queue') = Len(queue) - 1
      /\ Range(queue) = {Head(queue)} \cup Range(queue')
      /\ known' = known \cup {Head(queue)} /\ known' \in SUBSET Listings
      /\ seen' \in [Articles -> Nat]
      /\ \A a \in Articles : a \in known' <=> seen'[a] > 0
      /\ \A a \in Articles : Copies(a)' = Copies(a)
  BY <1>1, <1>2, TakeOneMoves
<1>5. PollTypeOK'
  BY <1>1, <1>2, <1>3, <1>4 DEF PollTypeOK
<1>6. FirstPages' = FirstPages
  BY <1>2 DEF FirstPages
<1>7. StartInv'
  BY <1>1, <1>2, <1>3, <1>4, <1>6 DEF StartInv, PollTypeOK
<1>8. KnownInv'
  BY <1>1, <1>3, <1>4 DEF KnownInv
<1>9. OriginInv'
  BY <1>1, <1>2, <1>3, <1>4 DEF OriginInv
<1>10. PollsInv'
  BY <1>1, <1>2 DEF StartInv, PollsInv, Idle
<1>11. QED BY <1>1, <1>5, <1>7, <1>8, <1>9, <1>10 DEF PollIInv, NewsInv, CopiesInv

\* Everything the constructor has put is old when poll_loop starts.
LEMMA InitializedKeeps == PollIInv /\ Initialized => PollIInv'
<1> SUFFICES ASSUME PollIInv, Initialized PROVE PollIInv'
  OBVIOUS
<1>1. /\ PollTypeOK /\ StartInv /\ KnownInv /\ OriginInv /\ Starting /\ ~Starting'
      /\ count = 0 /\ phase' = "read"
      /\ UNCHANGED <<published, constructor, queue, results, poll, wentBack>>
  BY DEF PollIInv, Initialized, Starting
<1>2. /\ published' = published /\ dump' = dump /\ page' = page /\ count' = count
      /\ origin' = origin /\ queue' = queue /\ known' = known /\ seen' = seen
      /\ initial' = initial /\ announced' = announced /\ poll' = poll /\ wentBack' = wentBack
  BY <1>1 DEF constructor, results
<1>3. queue \in Seq(Listings) /\ queue = <<>>
  BY <1>1, EmptySeq DEF StartInv, PollTypeOK
<1>4. Range(queue) = {} /\ \A a : Cardinality(Places(queue, a)) = 0
  <2>1. \A a : Places(queue, a) = {} /\ Cardinality(Places(queue, a)) = 0
    BY <1>3, PlacesOfEmpty
  <2>2. QED BY <2>1 DEF Places, Range
<1>5. PollTypeOK'
  BY <1>1, <1>2 DEF PollTypeOK
<1>6. StartInv' /\ KnownInv'
  BY <1>1, <1>2 DEF StartInv, KnownInv
<1>7. OriginInv'
  BY <1>1, <1>2, <1>4 DEF OriginInv
<1>8. PollsInv' /\ NewsInv'
  BY <1>1, <1>2, <1>4 DEF StartInv, PollsInv, NewsInv, Idle
<1>9. ASSUME NEW a \in Articles
      PROVE  IF a \in initial THEN Copies(a)' <= FirstPages'
             ELSE AllCopies(a)' <= Cardinality(Pollers) + 1
  <2>1. seen[a] \in Nat /\ Cardinality(Pollers) \in Nat
    BY <1>1, CopiesTypes
  <2>2. FirstPages' = FirstPages /\ FirstPages \in Nat /\ page \in Nat
    BY <1>1, <1>2, ListingAssumption DEF FirstPages, PollTypeOK
  <2>3. Copies(a)' = Copies(a) /\ Copies(a) = seen[a]
    BY <1>2, <1>4, <2>1 DEF Copies
  <2>4. CASE a \in initial
    BY <1>1, <2>1, <2>2, <2>3, <2>4 DEF StartInv
  <2>5. CASE a \notin initial
    <3>1. seen[a] = 0
      BY <1>1, <2>1, <2>5 DEF StartInv, KnownInv
    <3>2. Bringers(a)' = {}
      BY <1>1, <1>2 DEF StartInv, Bringers, Brings, Idle
    <3>3. Cardinality(Bringers(a)') = 0
      BY <3>2, FS_EmptySet
    <3>4. QED BY <2>1, <2>3, <2>5, <3>1, <3>3 DEF AllCopies
  <2>6. QED BY <2>4, <2>5
<1>10. CopiesInv'
  BY <1>1, <1>2, <1>9 DEF CopiesInv
<1>11. QED BY <1>5, <1>6, <1>7, <1>8, <1>10 DEF PollIInv
-----------------------------------------------------------------------------
(* poll_loop keeps it *)

LEMMA ReadKeeps == PollIInv /\ ReadResult => PollIInv'
<1> SUFFICES ASSUME PollIInv, ReadResult PROVE PollIInv'
  OBVIOUS
<1>1. /\ PollTypeOK /\ KnownInv /\ OriginInv /\ PollsInv /\ NewsInv /\ CopiesInv
      /\ ~Starting /\ ~Starting' /\ phase = "read" /\ phase' = "read"
  BY DEF PollIInv, ReadResult, Starting
<1>2. /\ TakeOne /\ published' = published /\ dump' = dump /\ page' = page /\ count' = count
      /\ origin' = origin /\ poll' = poll /\ wentBack' = wentBack
  BY DEF ReadResult, constructor
<1>3. initial' = initial /\ announced' \in {announced, announced \cup {Head(queue)}}
  BY <1>1, <1>2 DEF TakeOne, Process
<1>4. /\ queue # <<>> /\ Head(queue) \in Listings
      /\ queue' \in Seq(Listings) /\ Len(queue') = Len(queue) - 1
      /\ Range(queue) = {Head(queue)} \cup Range(queue')
      /\ known' = known \cup {Head(queue)} /\ known' \in SUBSET Listings
      /\ seen' \in [Articles -> Nat]
      /\ \A a \in Articles : a \in known' <=> seen'[a] > 0
      /\ \A a \in Articles : Copies(a)' = Copies(a)
  BY <1>1, <1>2, TakeOneMoves
<1>5. PollTypeOK'
  BY <1>1, <1>2, <1>3, <1>4 DEF PollTypeOK
<1>6. StartInv' /\ KnownInv' /\ OriginInv' /\ PollsInv'
  BY <1>1, <1>2, <1>3, <1>4 DEF StartInv, KnownInv, OriginInv, PollsInv
<1>7. NewsInv'
  BY <1>1, <1>2, <1>3, <1>4 DEF NewsInv
<1>8. FirstPages' = FirstPages /\ \A a \in Articles : AllCopies(a)' = AllCopies(a)
  BY <1>2, <1>4 DEF FirstPages, AllCopies, Bringers, Brings
<1>9. CopiesInv'
  BY <1>1, <1>3, <1>4, <1>8 DEF CopiesInv
<1>10. QED BY <1>5, <1>6, <1>7, <1>9 DEF PollIInv

\* Nothing of what changes concerns an article: the phase moves on.
LEMMA PhaseKeeps ==
  ASSUME PollIInv, ~Starting, phase' \in {"read", "poll"},
         UNCHANGED <<published, constructor, queue, results, poll, wentBack>>,
         phase' = "poll" => queue = <<>>
  PROVE  PollIInv'
<1>1. /\ PollTypeOK /\ KnownInv /\ OriginInv /\ PollsInv /\ NewsInv /\ CopiesInv /\ ~Starting'
  BY DEF PollIInv, Starting
<1>2. /\ published' = published /\ dump' = dump /\ page' = page /\ count' = count
      /\ origin' = origin /\ queue' = queue /\ known' = known /\ seen' = seen
      /\ initial' = initial /\ announced' = announced /\ poll' = poll /\ wentBack' = wentBack
  BY DEF constructor, results
<1>3. PollTypeOK'
  BY <1>1, <1>2 DEF PollTypeOK
<1>4. StartInv' /\ KnownInv' /\ OriginInv' /\ PollsInv' /\ NewsInv'
  BY <1>1, <1>2 DEF StartInv, KnownInv, OriginInv, PollsInv, NewsInv
<1>5. FirstPages' = FirstPages
      /\ \A a \in Articles : Copies(a)' = Copies(a) /\ AllCopies(a)' = AllCopies(a)
  BY <1>2 DEF FirstPages, Copies, AllCopies, Bringers, Brings
<1>6. ASSUME NEW a \in Articles, phase' = "poll", seen[a] = 0
      PROVE  AllCopies(a) <= Cardinality(Pollers)
  <2>1. Cardinality(Places(queue, a)) = 0
    BY <1>6, PlacesOfEmpty
  <2>2. /\ Cardinality(Bringers(a)) \in Nat
        /\ Cardinality(Bringers(a)) <= Cardinality(Pollers)
    BY <1>1, CopiesTypes
  <2>3. QED BY <1>6, <2>1, <2>2 DEF AllCopies, Copies
<1>7. CopiesInv'
  BY <1>1, <1>2, <1>5, <1>6 DEF CopiesInv
<1>8. QED BY <1>3, <1>4, <1>7 DEF PollIInv

LEMMA StartPollKeeps ==
  ASSUME NEW p \in Pollers, PollIInv, StartPoll(p)
  PROVE  PollIInv'
<1> DEFINE asks == [pc |-> "asked", known |-> known, todo |-> <<>>]
<1>1. /\ PollTypeOK /\ KnownInv /\ OriginInv /\ PollsInv /\ NewsInv /\ CopiesInv
      /\ phase = "poll" /\ phase' = "read" /\ ~Starting /\ ~Starting' /\ poll[p] = Idle
  BY DEF PollIInv, StartPoll, Starting
<1>2. /\ published' = published /\ dump' = dump /\ page' = page /\ count' = count
      /\ origin' = origin /\ queue' = queue /\ known' = known /\ seen' = seen
      /\ initial' = initial /\ announced' = announced /\ wentBack' = wentBack
  BY DEF StartPoll, constructor, results
<1>3. poll' = [poll EXCEPT ![p] = asks]
  BY DEF StartPoll, KnownArticles
<1>4. poll \in [Pollers -> Jobs \cup {Idle}] /\ known \in SUBSET Listings
  BY <1>1 DEF PollTypeOK
<1>5. asks \in Jobs
  BY <1>4, EmptySeq DEF Jobs, Listings
<1>6. \A r \in Pollers : poll'[r] = IF r = p THEN asks ELSE poll[r]
  BY <1>3, <1>4
<1>7. poll' \in [Pollers -> Jobs \cup {Idle}]
  BY <1>3, <1>4, <1>5
<1>8. PollTypeOK'
  BY <1>1, <1>2, <1>7 DEF PollTypeOK
<1>9. StartInv' /\ KnownInv' /\ OriginInv' /\ NewsInv'
  BY <1>1, <1>2 DEF StartInv, KnownInv, OriginInv, NewsInv
<1>10. PollsInv'
  BY <1>1, <1>2, <1>6 DEF PollsInv, KnownInv
<1>11. ASSUME NEW a \in Articles
       PROVE  /\ a \in initial => Copies(a)' <= FirstPages'
              /\ a \notin initial => AllCopies(a)' <= Cardinality(Pollers) + 1
  <2>1. Copies(a)' = Copies(a) /\ FirstPages' = FirstPages
    BY <1>2 DEF Copies, FirstPages
  <2>2. /\ seen[a] \in Nat /\ Cardinality(Places(queue, a)) \in Nat
        /\ Cardinality(Pollers) \in Nat
        /\ IsFiniteSet(Bringers(a)) /\ Cardinality(Bringers(a)) \in Nat
    BY <1>1, CopiesTypes
  <2>3. CASE a \in initial
    BY <1>1, <2>1, <2>3 DEF CopiesInv
  <2>4. CASE a \in known /\ a \notin initial
    <3>1. Bringers(a)' \in SUBSET Bringers(a)
      BY <1>6, <2>4 DEF Bringers, Brings
    <3>2. IsFiniteSet(Bringers(a)') /\ Cardinality(Bringers(a)') <= Cardinality(Bringers(a))
      BY <2>2, <3>1, FS_Subset
    <3>3. Cardinality(Bringers(a)') \in Nat
      BY <3>2, FS_CardinalityType
    <3>4. AllCopies(a) <= Cardinality(Pollers) + 1
      BY <1>1, <2>4 DEF CopiesInv
    <3>5. QED BY <2>1, <2>2, <2>4, <3>2, <3>3, <3>4 DEF AllCopies, Copies
  <2>5. CASE a \notin known /\ a \notin initial
    <3>1. AllCopies(a) <= Cardinality(Pollers)
      <4>1. seen[a] = 0
        BY <1>1, <2>2, <2>5 DEF KnownInv
      <4>2. QED BY <1>1, <2>5, <4>1 DEF CopiesInv
    <3>2. Bringers(a)' = Bringers(a) \cup {p}
      BY <1>2, <1>6, <2>5 DEF Bringers, Brings
    <3>3. Cardinality(Bringers(a) \cup {p}) <= Cardinality(Bringers(a)) + 1
          /\ Cardinality(Bringers(a) \cup {p}) \in Nat
      <4>1. Cardinality(Bringers(a) \cup {p}) =
              IF p \in Bringers(a) THEN Cardinality(Bringers(a)) ELSE Cardinality(Bringers(a)) + 1
        BY <2>2, FS_AddElement
      <4>2. QED BY <2>2, <4>1
    <3>4. QED BY <2>1, <2>2, <2>5, <3>1, <3>2, <3>3 DEF AllCopies, Copies
  <2>6. QED BY <2>3, <2>4, <2>5
<1>12. CopiesInv'
  BY <1>1, <1>2, <1>11 DEF CopiesInv
<1>13. QED BY <1>8, <1>9, <1>10, <1>12 DEF PollIInv
-----------------------------------------------------------------------------
(* A poll keeps it *)

LEMMA AnsweredKeeps ==
  ASSUME NEW p \in Pollers, NEW top \in Tops, NEW size \in MinPage .. MaxPage,
         NEW all \in NewestFirst(NewOn(top, 1, size, poll[p].known)), NEW todo \in Prefixes(all),
         PollIInv, poll[p].pc = "asked", Answered(p, top, todo)
  PROVE  PollIInv'
<1> DEFINE job == IF todo = <<>> THEN Idle
                  ELSE [pc |-> "puts", known |-> poll[p].known, todo |-> todo]
           found == NewOn(top, 1, size, poll[p].known)
<1>1. /\ PollTypeOK /\ StartInv /\ KnownInv /\ OriginInv /\ PollsInv /\ NewsInv /\ CopiesInv
  BY DEF PollIInv
<1>2. ~Starting /\ ~Starting'
  <2>1. ~Starting
    BY <1>1 DEF StartInv, Idle
  <2>2. QED BY <2>1 DEF Answered, Starting
<1>3. /\ published' = published /\ dump' = dump /\ page' = page /\ count' = count
      /\ origin' = origin /\ queue' = queue /\ known' = known /\ seen' = seen
      /\ initial' = initial /\ announced' = announced /\ phase' = phase
      /\ wentBack' = (wentBack \/ top < origin)
  BY DEF Answered, constructor, results
<1>4. poll' = [poll EXCEPT ![p] = job]
  BY DEF Answered
<1>5. poll \in [Pollers -> Jobs \cup {Idle}]
  BY <1>1 DEF PollTypeOK
<1>6. found \in SUBSET Listings
  BY DEF NewOn
<1>7. all \in Seq(Listings) /\ IsInjective(all) /\ Range(all) = found
  BY <1>6, NewestFirstOnce
<1>8. todo \in Seq(Listings) /\ IsInjective(todo) /\ Range(todo) \subseteq found
  BY <1>7, PrefixOnce
<1>9. poll[p].known \in SUBSET Articles /\ initial \subseteq poll[p].known
  BY <1>1, JobFields DEF PollsInv
<1>10. job \in Jobs \cup {Idle}
  BY <1>8, <1>9 DEF Jobs
<1>11. \A r \in Pollers : poll'[r] = IF r = p THEN job ELSE poll[r]
  BY <1>4, <1>5
<1>12. PollTypeOK'
  <2>1. poll' \in [Pollers -> Jobs \cup {Idle}]
    BY <1>4, <1>5, <1>10
  <2>2. wentBack' \in BOOLEAN
    BY <1>3, Zenon
  <2>3. QED BY <1>1, <1>3, <2>1, <2>2 DEF PollTypeOK
<1>13. StartInv' /\ KnownInv' /\ OriginInv'
  BY <1>1, <1>2, <1>3 DEF StartInv, KnownInv, OriginInv
<1>14. ASSUME NEW a \in Range(todo)
       PROVE  /\ a \notin poll[p].known /\ a \in Listings
              /\ a > origin \/ wentBack'
  <2>1. a \in found /\ a \in Listings /\ a \notin poll[p].known
    BY <1>8 DEF NewOn
  <2>2. /\ top \in Int /\ size \in Int /\ size <= MaxPage /\ MaxPage \in Int /\ a \in Nat \ {0}
        /\ origin \in Nat
    BY <1>1, <2>1, ListingAssumption DEF Tops, Listings, Articles, PollTypeOK
  <2>3. a > top - 1 * size /\ a <= top
    BY <2>1, <2>2 DEF NewOn
  <2>4. CASE top >= origin /\ a <= origin
    <3>1. origin > 0 /\ origin - MaxPage < a
      BY <2>2, <2>3, <2>4
    <3>2. a \in initial
      BY <1>1, <1>2, <2>1, <2>4, <3>1 DEF OriginInv
    <3>3. QED BY <1>9, <2>1, <3>2
  <2>5. CASE top < origin
    BY <1>3, <2>1, <2>5
  <2>6. CASE a > origin
    BY <2>1, <2>6
  <2>7. QED BY <2>2, <2>4, <2>5, <2>6
<1>15. wentBack => wentBack'
  BY <1>3
<1>16. PollsInv'
  <2> SUFFICES ASSUME NEW r \in Pollers
               PROVE  /\ poll'[r].pc # "idle" => initial \subseteq poll'[r].known
                      /\ poll'[r].pc = "puts" =>
                           /\ poll'[r].todo # <<>> /\ IsInjective(poll'[r].todo)
                           /\ \A a \in Range(poll'[r].todo) : /\ a \notin poll'[r].known
                                                              /\ a > origin \/ wentBack'
    BY <1>3 DEF PollsInv
  <2>1. CASE r # p
    BY <1>1, <1>11, <1>15, <2>1 DEF PollsInv
  <2>2. CASE r = p /\ todo = <<>>
    BY <1>11, <2>2 DEF Idle
  <2>3. CASE r = p /\ todo # <<>>
    <3>1. poll'[r] = [pc |-> "puts", known |-> poll[p].known, todo |-> todo]
      BY <1>11, <2>3
    <3>2. QED BY <1>8, <1>9, <1>14, <2>3, <3>1
  <2>4. QED BY <2>1, <2>2, <2>3
<1>17. NewsInv'
  BY <1>1, <1>2, <1>3, <1>15 DEF NewsInv
<1>18. ASSUME NEW a \in Articles
       PROVE  Copies(a)' = Copies(a) /\ AllCopies(a)' <= AllCopies(a)
              /\ AllCopies(a) \in Nat /\ AllCopies(a)' \in Nat
  <2>1. Copies(a)' = Copies(a)
    BY <1>3 DEF Copies
  <2>2. /\ seen[a] \in Nat /\ Cardinality(Places(queue, a)) \in Nat
        /\ IsFiniteSet(Bringers(a)) /\ Cardinality(Bringers(a)) \in Nat
    BY <1>1, CopiesTypes
  <2>3. ASSUME NEW r \in Pollers, Brings(r, a)' PROVE Brings(r, a)
    <3>1. CASE r # p
      BY <1>11, <2>3, <3>1 DEF Brings
    <3>2. CASE r = p
      <4>1. poll'[p] = job
        BY <1>11
      <4>2. a \in Range(todo)
        BY <2>3, <3>2, <4>1 DEF Brings, Idle
      <4>3. QED BY <1>14, <3>2, <4>2 DEF Brings
    <3>3. QED BY <3>1, <3>2
  <2>4. Bringers(a)' \in SUBSET Bringers(a)
    BY <2>3 DEF Bringers
  <2>5. IsFiniteSet(Bringers(a)') /\ Cardinality(Bringers(a)') <= Cardinality(Bringers(a))
    BY <2>2, <2>4, FS_Subset
  <2>6. Cardinality(Bringers(a)') \in Nat
    BY <2>5, FS_CardinalityType
  <2>7. QED BY <2>1, <2>2, <2>5, <2>6 DEF AllCopies, Copies
<1>19. CopiesInv'
  <2>1. FirstPages' = FirstPages
    BY <1>3 DEF FirstPages
  <2>2. Cardinality(Pollers) \in Nat
    BY ListingAssumption, FS_CardinalityType
  <2>3. QED BY <1>1, <1>2, <1>3, <1>18, <2>1, <2>2 DEF CopiesInv
<1>20. QED BY <1>12, <1>13, <1>16, <1>17, <1>19 DEF PollIInv

LEMMA PutKeeps ==
  ASSUME NEW p \in Pollers, PollIInv, Put(p)
  PROVE  PollIInv'
<1> DEFINE todo == poll[p].todo
           h == Head(todo)
           job == IF Len(todo) = 1 THEN Idle
                  ELSE [pc |-> "puts", known |-> poll[p].known, todo |-> Tail(todo)]
<1>1. /\ PollTypeOK /\ StartInv /\ KnownInv /\ OriginInv /\ PollsInv /\ NewsInv /\ CopiesInv
      /\ poll[p].pc = "puts"
  BY DEF PollIInv, Put
<1>2. ~Starting /\ ~Starting'
  <2>1. ~Starting
    BY <1>1 DEF StartInv, Idle
  <2>2. QED BY <2>1 DEF Put, Starting
<1>3. /\ published' = published /\ dump' = dump /\ page' = page /\ count' = count
      /\ origin' = origin /\ known' = known /\ seen' = seen
      /\ initial' = initial /\ announced' = announced /\ phase' = phase
      /\ wentBack' = wentBack
  BY DEF Put, constructor, results
<1>4. poll \in [Pollers -> Jobs \cup {Idle}] /\ queue \in Seq(Listings)
  BY <1>1 DEF PollTypeOK
<1>5. /\ poll[p] \in Jobs /\ todo \in Seq(Listings) /\ poll[p].known \in SUBSET Articles
  BY <1>1, JobFields
<1>6. /\ todo # <<>> /\ IsInjective(todo) /\ initial \subseteq poll[p].known
      /\ \A a \in Range(todo) : a \notin poll[p].known /\ (a > origin \/ wentBack)
  BY <1>1 DEF PollsInv
<1>7. /\ h \in Listings /\ Tail(todo) \in Seq(Listings) /\ Len(Tail(todo)) = Len(todo) - 1
      /\ Range(todo) = {h} \cup Range(Tail(todo))
      /\ IsInjective(Tail(todo)) /\ h \notin Range(Tail(todo))
      /\ Len(todo) \in Nat
  BY <1>5, <1>6, HeadTailProperties, RangeOfTail, TailOnce, LenProperties
<1>8. poll' = [poll EXCEPT ![p] = job]
  BY DEF Put
<1>9. job \in Jobs \cup {Idle}
  BY <1>5, <1>7 DEF Jobs
<1>10. \A r \in Pollers : poll'[r] = IF r = p THEN job ELSE poll[r]
  BY <1>4, <1>8
<1>11. /\ queue' = Append(queue, h) /\ queue' \in Seq(Listings)
       /\ Range(queue') = Range(queue) \cup {h}
  <2>1. queue' = Append(queue, h)
    BY DEF Put
  <2>2. QED BY <1>4, <1>7, <2>1, AppendProperties, RangeOfAppend
<1>12. PollTypeOK'
  <2>1. poll' \in [Pollers -> Jobs \cup {Idle}]
    BY <1>4, <1>8, <1>9
  <2>2. QED BY <1>1, <1>3, <1>11, <2>1 DEF PollTypeOK
<1>13. StartInv' /\ KnownInv' /\ OriginInv'
  BY <1>1, <1>2, <1>3 DEF StartInv, KnownInv, OriginInv
<1>14. Len(todo) # 1 => Tail(todo) # <<>>
  <2>1. Len(todo) # 0
    BY <1>5, <1>6, EmptySeq
  <2>2. Len(todo) # 1 => Len(Tail(todo)) # 0
    BY <1>7, <2>1
  <2>3. QED BY <2>2, EmptySeq
<1>15. PollsInv'
  <2> SUFFICES ASSUME NEW r \in Pollers
               PROVE  /\ poll'[r].pc # "idle" => initial \subseteq poll'[r].known
                      /\ poll'[r].pc = "puts" =>
                           /\ poll'[r].todo # <<>> /\ IsInjective(poll'[r].todo)
                           /\ \A a \in Range(poll'[r].todo) : /\ a \notin poll'[r].known
                                                              /\ a > origin \/ wentBack
    BY <1>3 DEF PollsInv
  <2>1. CASE r # p
    BY <1>1, <1>10, <2>1 DEF PollsInv
  <2>2. CASE r = p /\ Len(todo) = 1
    BY <1>10, <2>2 DEF Idle
  <2>3. CASE r = p /\ Len(todo) # 1
    <3>1. poll'[r] = [pc |-> "puts", known |-> poll[p].known, todo |-> Tail(todo)]
      BY <1>10, <2>3
    <3>2. QED BY <1>6, <1>7, <1>14, <2>3, <3>1
  <2>4. QED BY <2>1, <2>2, <2>3
<1>16. NewsInv'
  <2>1. h \in Range(todo)
    BY <1>7
  <2>2. h \notin initial /\ (h > origin \/ wentBack)
    BY <1>6, <2>1
  <2>3. QED BY <1>1, <1>2, <1>3, <1>11, <2>2 DEF NewsInv
<1>17. ASSUME NEW a \in Articles
       PROVE  /\ AllCopies(a)' <= AllCopies(a) /\ AllCopies(a) \in Nat /\ AllCopies(a)' \in Nat
              /\ a # h => Copies(a)' = Copies(a)
  <2>1. Cardinality(Places(queue', a)) =
          Cardinality(Places(queue, a)) + (IF h = a THEN 1 ELSE 0)
    BY <1>4, <1>7, <1>11, PlacesOfAppend
  <2>2. /\ seen[a] \in Nat /\ Cardinality(Places(queue, a)) \in Nat
        /\ IsFiniteSet(Bringers(a)) /\ Cardinality(Bringers(a)) \in Nat
    BY <1>1, CopiesTypes
  <2>3. ASSUME NEW r \in Pollers, Brings(r, a)' PROVE Brings(r, a) /\ (a = h => r # p)
    <3>1. CASE r # p
      BY <1>10, <2>3, <3>1 DEF Brings
    <3>2. CASE r = p
      <4>1. poll'[p] = job
        BY <1>10
      <4>2. a \in Range(Tail(todo))
        BY <2>3, <3>2, <4>1 DEF Brings, Idle
      <4>3. QED BY <1>1, <1>7, <3>2, <4>2 DEF Brings
    <3>3. QED BY <3>1, <3>2
  <2>4. Copies(a)' = Copies(a) + (IF h = a THEN 1 ELSE 0) /\ Copies(a) \in Nat
    BY <1>3, <2>1, <2>2 DEF Copies
  <2>5. CASE a # h
    <3>1. Bringers(a)' \in SUBSET Bringers(a)
      BY <2>3 DEF Bringers
    <3>2. IsFiniteSet(Bringers(a)') /\ Cardinality(Bringers(a)') <= Cardinality(Bringers(a))
      BY <2>2, <3>1, FS_Subset
    <3>3. Cardinality(Bringers(a)') \in Nat
      BY <3>2, FS_CardinalityType
    <3>4. QED BY <2>2, <2>4, <2>5, <3>2, <3>3 DEF AllCopies
  <2>6. CASE a = h
    <3>1. p \in Bringers(a)
      BY <1>1, <1>7, <2>6 DEF Bringers, Brings
    <3>2. Bringers(a)' \in SUBSET (Bringers(a) \ {p})
      BY <2>3, <2>6 DEF Bringers
    <3>3. IsFiniteSet(Bringers(a) \ {p})
          /\ Cardinality(Bringers(a) \ {p}) = Cardinality(Bringers(a)) - 1
      BY <2>2, <3>1, FS_RemoveElement
    <3>4. /\ IsFiniteSet(Bringers(a)')
          /\ Cardinality(Bringers(a)') <= Cardinality(Bringers(a) \ {p})
      BY <3>2, <3>3, FS_Subset
    <3>5. Cardinality(Bringers(a)') \in Nat
      BY <3>4, FS_CardinalityType
    <3>6. QED BY <2>2, <2>4, <2>6, <3>3, <3>4, <3>5 DEF AllCopies
  <2>7. QED BY <2>5, <2>6
<1>18. CopiesInv'
  <2>1. FirstPages' = FirstPages
    BY <1>3 DEF FirstPages
  <2>2. Cardinality(Pollers) \in Nat
    BY ListingAssumption, FS_CardinalityType
  <2>3. h \notin initial
    BY <1>6, <1>7
  <2>4. QED BY <1>1, <1>2, <1>3, <1>17, <2>1, <2>2, <2>3 DEF CopiesInv
<1>19. QED BY <1>12, <1>13, <1>15, <1>16, <1>18 DEF PollIInv
-----------------------------------------------------------------------------
LEMMA PollInvStep == PollIInv /\ [PollNext]_pollVars => PollIInv'
<1> SUFFICES ASSUME PollIInv, [PollNext]_pollVars PROVE PollIInv'
  OBVIOUS
<1>1. CASE Publish \/ UNCHANGED pollVars
  <2>1. /\ published' \in {published, published + 1} /\ published' <= MaxArticle
        /\ dump' = dump /\ page' = page /\ count' = count /\ origin' = origin /\ phase' = phase
        /\ queue' = queue /\ known' = known /\ seen' = seen
        /\ initial' = initial /\ announced' = announced /\ poll' = poll /\ wentBack' = wentBack
    BY <1>1, ListingAssumption DEF Publish, pollVars, constructor, results, PollIInv, PollTypeOK
  <2>2. PollTypeOK'
    BY <2>1, ListingAssumption DEF PollIInv, PollTypeOK
  <2>3. /\ Starting' = Starting /\ FirstPages' = FirstPages
        /\ \A a \in Articles : Copies(a)' = Copies(a) /\ AllCopies(a)' = AllCopies(a)
    BY <2>1 DEF Starting, FirstPages, Copies, AllCopies, Bringers, Brings
  <2>4. StartInv' /\ KnownInv' /\ OriginInv' /\ PollsInv' /\ NewsInv' /\ CopiesInv'
    BY <2>1, <2>3 DEF PollIInv, StartInv, KnownInv, OriginInv, PollsInv, NewsInv, CopiesInv
  <2>5. QED BY <2>2, <2>4 DEF PollIInv
<1>2. CASE Constructor
  BY <1>2, FirstPollKeeps, DrainKeeps, InitializedKeeps DEF Constructor
<1>3. CASE FirstPollRefused
  BY <1>3, RefusedKeeps
<1>4. CASE ReadResult
  BY <1>4, ReadKeeps
<1>5. CASE ReadEnd \/ NotYet
  BY <1>5, PhaseKeeps DEF ReadEnd, NotYet, Starting
<1>6. ASSUME NEW p \in Pollers, StartPoll(p) PROVE PollIInv'
  BY <1>6, StartPollKeeps
<1>7. ASSUME NEW p \in Pollers, Answer(p) PROVE PollIInv'
  <2>1. PICK top \in Tops, size \in MinPage .. MaxPage :
          \E all \in NewestFirst(NewOn(top, 1, size, poll[p].known)) :
            \E todo \in Prefixes(all) : Answered(p, top, todo)
    BY <1>7 DEF Answer
  <2>2. PICK all \in NewestFirst(NewOn(top, 1, size, poll[p].known)) :
          \E todo \in Prefixes(all) : Answered(p, top, todo)
    BY <2>1
  <2>3. QED BY <1>7, <2>2, AnsweredKeeps DEF Answer
<1>8. ASSUME NEW p \in Pollers, Put(p) PROVE PollIInv'
  BY <1>8, PutKeeps
<1>9. CASE Raised
  BY <1>1, <1>9 DEF Raised
<1>10. QED BY <1>1, <1>2, <1>3, <1>4, <1>5, <1>6, <1>7, <1>8, <1>9 DEF PollNext, LoopTurn

LEMMA PollInvariance == PollSpec => []PollIInv
BY PollInvInit, PollInvStep, PTL DEF PollSpec

\* For any pages, articles, lag and number of polls under way: the constructor's
\* poll_result_queue.get() never blocks, nothing it has waited for is left to
\* poll_loop, and the copies of a listing stay within their bounds.
THEOREM CopiesStayFew == PollSpec => []PollInv
<1>1. PollIInv => PollInv
  <2> SUFFICES ASSUME PollIInv PROVE PollInv
    OBVIOUS
  <2>1. PollTypeOK
    BY DEF PollIInv
  <2>2. CountFits
    BY DEF PollIInv, StartInv, Starting, CountFits
  <2>3. ASSUME NEW a \in Articles
        PROVE  Copies(a) <= IF Starting \/ a \in initial
                            THEN FirstPages ELSE Cardinality(Pollers) + 1
    <3>1. /\ seen[a] \in Nat /\ Cardinality(Places(queue, a)) \in Nat
          /\ Cardinality(Bringers(a)) \in Nat /\ Cardinality(Pollers) \in Nat
      BY <2>1, CopiesTypes
    <3>2. FirstPages \in Nat /\ page \in Nat
      BY <2>1, ListingAssumption DEF FirstPages, PollTypeOK
    <3>3. CASE Starting
      BY <3>1, <3>2, <3>3 DEF PollIInv, StartInv, Copies
    <3>4. CASE ~Starting
      BY <3>1, <3>2, <3>4 DEF PollIInv, CopiesInv, AllCopies, Copies
    <3>5. QED BY <3>3, <3>4
  <2>4. QED BY <2>1, <2>2, <2>3 DEF PollInv, CopiesAreFew, Starting
<1>2. QED BY PollInvariance, <1>1, PTL

\* What the constructor took as old is never announced as new, and what is
\* announced is newer than the first page or an answer has gone back.
THEOREM OldIsSilent == PollSpec => []OldStaysSilent
<1>1. PollIInv => OldStaysSilent
  BY DEF PollIInv, StartInv, NewsInv, OldStaysSilent
<1>2. QED BY PollInvariance, <1>1, PTL
=============================================================================
