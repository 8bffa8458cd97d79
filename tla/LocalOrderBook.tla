--------------------------- MODULE LocalOrderBook ---------------------------
(***************************************************************************)
(* The local copy of one spot order book of the listing bot                *)
(* (binance_listing_bot/LocalOrderBook.py).                                *)
(*                                                                         *)
(* ws_callback() gets the exchange's updates from the websocket, caches    *)
(* them in a ring buffer and queues them.  run() fetches a snapshot,       *)
(* replays the cache on it, publishes the result as self.ob and then       *)
(* applies the queue, until an update does not fit and it starts again.    *)
(* All of it runs in one asyncio loop: tasks alternate only at an await.   *)
(*                                                                         *)
(* The exchange numbers its books.  An update [U, u] carries, for every    *)
(* level that changed with the ids U to u, the amount it has at u.  Any    *)
(* update of the past may arrive at any time, any number of times, or not  *)
(* at all: the websocket reconnects, and the bot may subscribe anew.       *)
(***************************************************************************)
EXTENDS Integers, Sequences

CONSTANTS
  AskPrices, BidPrices,  \* the prices of the levels
  Amounts,               \* what a level may hold; 0 is no entry
  Books,                 \* the books the exchange may have
  MaxId,                 \* bound: the last id of the exchange's book
  QueueSize,             \* maxsize of self.q (500)
  CacheSize,             \* size of the ring buffer at first (500)
  ResetSize,             \* its size once it has been set up anew (100)
  MaxBlocked             \* bound: callbacks that wait for a place in self.q

Asks == {"ask"} \X AskPrices
Bids == {"bid"} \X BidPrices
Levels == Asks \cup Bids

\* The best ask does not exceed the best bid.
Crossed(book) == \E a \in Asks, b \in Bids : /\ book[a] # 0 /\ book[b] # 0
                                             /\ a[2] <= b[2]

Empty == [l \in Levels |-> 0]

ASSUME BookAssumption ==
  /\ AskPrices \subseteq Int /\ BidPrices \subseteq Int
  /\ 0 \in Amounts
  /\ Books \subseteq [Levels -> Amounts] /\ \A b \in Books : ~Crossed(b)
  /\ MaxId \in Nat \ {0}
  /\ QueueSize \in Nat \ {0} /\ CacheSize \in Nat \ {0} /\ ResetSize \in Nat \ {0}
  /\ MaxBlocked \in Nat

Ids == 0 .. MaxId
Updates == {m \in [U : Ids \ {0}, u : Ids] : m.U <= m.u}
LocalBooks == [id : Ids, book : [Levels -> Amounts]]

VARIABLES
  head,       \* id of the exchange's book
  hist,       \* the exchange's books so far; id 0 is the empty book
  pc,         \* run(): "request", "replay", "live" or "dead"
  since,      \* id of the exchange's book when the request was made
  cand,       \* ob, the book under construction
  pos,        \* the next cached update to replay on it
  ob,         \* self.ob
  buf,        \* self.buf, oldest first
  bufMax,     \* its size
  q,          \* self.q
  blocked,    \* updates whose callback waits in q.put()
  accepted    \* history: the largest id a callback has taken in

exchange == <<head, hist>>
run == <<pc, since, cand, pos, ob>>
callbacks == <<buf, bufMax, blocked, accepted>>
vars == <<exchange, run, callbacks, q>>
-----------------------------------------------------------------------------
Init ==
  /\ head = 1
  /\ \E b \in Books : hist = [n \in Ids |-> IF n = 1 THEN b ELSE Empty]
  /\ pc = "request" /\ since = 1
  /\ cand = [id |-> 0, book |-> Empty] /\ pos = 1
  /\ ob = [id |-> 0, book |-> Empty]
  /\ buf = <<>> /\ bufMax = CacheSize
  /\ q = <<>> /\ blocked = <<>> /\ accepted = 0

ExchangeMoves == /\ head < MaxId
                 /\ head' = head + 1
                 /\ \E b \in Books : hist' = [hist EXCEPT ![head + 1] = b]
                 /\ UNCHANGED <<run, callbacks, q>>

\* The levels an update carries.
Changed(m) == {l \in Levels : \E n \in m.U - 1 .. m.u : hist[n][l] # hist[m.u][l]}
-----------------------------------------------------------------------------
(* OrderBook.update *)

OlderNever(o, m) == FALSE                   \* fault: takes updates of the past

Older(o, m) == m.u < o.id + 1

GapOffByOne(o, m) == m.U > o.id + 2         \* fault: one missing id goes unnoticed

Gap(o, m) == m.U > o.id + 1

Applied(o, m) == [l \in Levels |-> IF l \in Changed(m) THEN hist[m.u][l] ELSE o.book[l]]

Fits(o, m) == ~Older(o, m) /\ ~Gap(o, m)

\* The entries are changed before the overlap is looked for, the id after it.
Overlaps(o, m) == Fits(o, m) /\ Crossed(Applied(o, m))
Updated(o, m) == [id |-> m.u, book |-> Applied(o, m)]
-----------------------------------------------------------------------------
(* run and construct_base_order_book *)

\* A status other than 200: sleep, and ask again.
SnapshotFails == /\ pc = "request"
                 /\ since' = head
                 /\ UNCHANGED <<exchange, pc, cand, pos, ob, callbacks, q>>

\* The request itself raises: nothing catches it, and the task is gone.
RequestRaises == /\ pc = "request"
                 /\ pc' = "dead"
                 /\ UNCHANGED <<exchange, since, cand, pos, ob, callbacks, q>>

\* The answer is a book the exchange had while the request was under way.
SnapshotArrives(s) ==
  /\ pc = "request" /\ s \in since .. head
  /\ cand' = [id |-> s, book |-> hist[s]]
  /\ pos' = 1
  /\ pc' = "replay"
  /\ UNCHANGED <<exchange, since, ob, callbacks, q>>

Rebuild == pc' = "request" /\ since' = head

\* One turn of `for b in self.buf`.
ReplayOne ==
  /\ pc = "replay" /\ pos <= Len(buf)
  /\ LET m == buf[pos]
     IN \/ /\ Older(cand, m)
           /\ pos' = pos + 1
           /\ UNCHANGED <<pc, since, cand>>
        \/ /\ Gap(cand, m) \/ Overlaps(cand, m)
           /\ Rebuild
           /\ UNCHANGED <<cand, pos>>
        \/ /\ Fits(cand, m) /\ ~Overlaps(cand, m)
           /\ cand' = Updated(cand, m)
           /\ pos' = pos + 1
           /\ UNCHANGED <<pc, since>>
  /\ UNCHANGED <<exchange, ob, callbacks, q>>

\* The base book is complete: publish it, and set the ready event.
ReplayEnd == /\ pc = "replay" /\ pos > Len(buf)
             /\ ob' = cand
             /\ pc' = "live"
             /\ UNCHANGED <<exchange, since, cand, pos, callbacks, q>>

GapSkipped(m) == Gap(ob, m) /\ UNCHANGED <<pc, since, ob>>   \* fault: drops what does not fit

GapFound(m) == Gap(ob, m) /\ Rebuild /\ UNCHANGED ob

\* `result = await self.q.get()` and what follows it.
TakeUpdate ==
  /\ pc = "live" /\ q # <<>>
  /\ q' = Tail(q)
  /\ LET m == Head(q)
     IN \/ Older(ob, m) /\ UNCHANGED <<pc, since, ob>>
        \/ GapFound(m)
        \/ Overlaps(ob, m) /\ Rebuild /\ ob' = [ob EXCEPT !.book = Applied(ob, m)]
        \/ /\ Fits(ob, m) /\ ~Overlaps(ob, m)
           /\ ob' = Updated(ob, m)
           /\ UNCHANGED <<pc, since>>
  /\ UNCHANGED <<exchange, cand, pos, callbacks>>
-----------------------------------------------------------------------------
(* ws_callback *)

\* SimpleRingBuffer.append: a full buffer forgets its oldest entry.
Cached(m) == IF Len(buf) < bufMax THEN Append(buf, m) ELSE Append(Tail(buf), m)

CacheKeepsGaps(m) ==                        \* fault: only looks at what is older
  /\ buf' = IF buf # <<>> /\ m.u < buf[Len(buf)].u THEN buf ELSE Cached(m)
  /\ UNCHANGED bufMax

CacheUpdate(m) ==
  LET last == buf[Len(buf)]
  IN IF buf # <<>> /\ m.u < last.u THEN UNCHANGED <<buf, bufMax>>
     ELSE IF buf # <<>> /\ m.U # last.u + 1 THEN buf' = <<m>> /\ bufMax' = ResetSize
     ELSE buf' = Cached(m) /\ UNCHANGED bufMax

\* The loop is not inside a replay, which has no await before it ends, and
\* `self.ob.asks[0]` in the log line does not raise: when the published book
\* has no ask the callback raises there, and the update is lost.
CallbackRuns == /\ pc # "replay"
                /\ \E a \in Asks : ob.book[a] # 0

Callback(m) ==
  /\ CallbackRuns
  /\ m.u <= head
  /\ CacheUpdate(m)
  /\ accepted' = IF m.u > accepted THEN m.u ELSE accepted
  /\ IF Len(q) < QueueSize THEN q' = Append(q, m) /\ UNCHANGED blocked
     ELSE /\ Len(blocked) < MaxBlocked
          /\ blocked' = Append(blocked, m)
          /\ UNCHANGED q
  /\ UNCHANGED <<exchange, run>>

\* A waiting callback gets a place.  asyncio.Queue wakes the first of them,
\* but the place may be gone when it runs, and it then waits behind the others.
PutBlocked(i) ==
  /\ pc # "replay"
  /\ i \in 1 .. Len(blocked) /\ Len(q) < QueueSize
  /\ q' = Append(q, blocked[i])
  /\ blocked' = [n \in 1 .. Len(blocked) - 1 |-> IF n < i THEN blocked[n] ELSE blocked[n + 1]]
  /\ UNCHANGED <<exchange, run, buf, bufMax, accepted>>
-----------------------------------------------------------------------------
Run == SnapshotFails \/ ReplayOne \/ ReplayEnd \/ TakeUpdate
       \/ \E s \in Ids : SnapshotArrives(s)

Next == \/ ExchangeMoves \/ Run \/ RequestRaises
        \/ \E m \in Updates : Callback(m)
        \/ \E i \in 1 .. MaxBlocked : PutBlocked(i)

Spec == Init /\ [][Next]_vars

\* The loop runs every task that can run; requests are answered sooner or
\* later, and a callback that is woken again and again gets its place.  Nothing
\* forces the exchange to move or the websocket to deliver anything.
FairSpec == /\ Spec
            /\ WF_vars(ReplayOne \/ ReplayEnd \/ TakeUpdate)
            /\ WF_vars(\E s \in Ids : SnapshotArrives(s))
            /\ \A i \in 1 .. MaxBlocked : SF_vars(PutBlocked(i))
-----------------------------------------------------------------------------
(* Properties *)

TypeOK ==
  /\ head \in Ids \ {0} /\ hist \in [Ids -> [Levels -> Amounts]]
  /\ pc \in {"request", "replay", "live", "dead"}
  /\ since \in Ids
  /\ cand \in LocalBooks /\ ob \in LocalBooks
  /\ pos \in Nat \ {0}
  /\ buf \in Seq(Updates) /\ Len(buf) <= bufMax /\ bufMax \in {CacheSize, ResetSize}
  /\ q \in Seq(Updates) /\ Len(q) <= QueueSize
  /\ blocked \in Seq(Updates) /\ Len(blocked) <= MaxBlocked
  /\ accepted \in Ids

\* The published book is the exchange's book of the id it bears, whatever was
\* lost, repeated, reordered or replayed; so is the one under construction.
\* In particular the overlap check never fires after a partial update.
BookIsTruth ==
  /\ ob.book = hist[ob.id]
  /\ pc = "replay" => cand.book = hist[cand.id]

\* The cache has no hole: what does not fit a snapshot is its first update, and
\* a snapshot that is new enough is never thrown away for a later one.
CacheIsChain == \A i \in 1 .. Len(buf) - 1 : buf[i + 1].U = buf[i].u + 1

\* No reader of self.ob ever sees the book go back: not by an old update, nor
\* by the snapshot of a rebuild.
NeverGoesBack == [][ob'.id >= ob.id]_vars

\* What a callback has taken in reaches the published book, unless a request
\* has killed the task.
CatchesUp == \A n \in Ids : accepted >= n ~> ob.id >= n \/ pc = "dead"
=============================================================================
