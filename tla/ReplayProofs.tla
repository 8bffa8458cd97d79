----------------------------- MODULE ReplayProofs -----------------------------
(***************************************************************************)
(* Proofs about Replay, for any calls, blocks, contents, number of         *)
(* workers, distance between two waits and number of retries: no block of  *)
(* the walk vanishes or comes twice, none is passed over without a cause   *)
(* the model names, and the walk leaves nothing behind when it is over.    *)
(***************************************************************************)
EXTENDS Replay, TLAPS, FiniteSetTheorems, SequenceTheorems

(* What every state keeps to *)

\* Where a block may be, one predicate for each place.
InTodo(b) == \E i \in 1 .. Len(todo) : todo[i] = b
InList(b) == \E e \in block_list : e[1] = b
InRun(b) == \E w \in Workers : workers[w].num = b
Ended(b) == fate[b] # "none"

\* A block that has left the walk, or will when the wait is over, is somewhere.
Elsewhere(b) == InList(b) \/ InRun(b) \/ b \in txQueue \/ Ended(b)

InWait == pc \in {"wait", "flush"}

WaitInv ==
  /\ InWait /\ back \in {"place", "fetch", "pushed"} => todo # <<>>
  /\ InWait /\ back = "pushed" => Elsewhere(Head(todo))
  /\ pc = "fetch" \/ (InWait /\ back \in {"fetch", "pushed"}) => skip

FoundInv == \A b \in Walked : InTodo(b) \/ Elsewhere(b)

\* The block is in one place, and only once there.
Single(b) ==
  /\ InTodo(b) => ~Elsewhere(b)
  /\ InList(b) => ~InRun(b) /\ b \notin txQueue /\ ~Ended(b)
  /\ InRun(b) => b \notin txQueue /\ ~Ended(b)
  /\ b \in txQueue => ~Ended(b)
  /\ \A i, j \in 1 .. Len(todo) : todo[i] = b /\ todo[j] = b => i = j
  /\ \A e, f \in block_list : e[1] = b /\ f[1] = b => e = f
  /\ \A v, w \in Workers : workers[v].num = b /\ workers[w].num = b => v = w

SingleInv == ~skip => \A b \in Blocks : NamedOnce(b) => Single(b)

PairsInv == \A b \in pairs : Ended(b)

\* After a wait that has seen all workers free, none has a block.
FreeInv == pc = "flush" /\ allFree => \A b \in Blocks : ~InRun(b)

IInv == /\ TypeOK /\ WaitInv /\ FoundInv /\ SingleInv /\ PairsInv /\ FreeInv
        /\ TailIsDrained
-----------------------------------------------------------------------------
(* The walk and the workers *)

LEMMA InputIsWalk ==
  ASSUME NEW d \in Inputs
  PROVE  d \in Seq(Blocks) /\ Len(d) \in Nat \ {0} /\ \A i \in 1 .. Len(d) : d[i] \in Blocks
<1>1. d \in Seq(Blocks) /\ d # <<>>
  BY ReplayAssumption
<1>2. QED BY <1>1, EmptySeq, ElementOfSeq

LEMMA WalkIsSeq ==
  ASSUME NEW d \in Inputs
  PROVE  WalkOf(d) \in Seq(Blocks)
<1>1. d \in Seq(Blocks) /\ Len(d) \in Nat \ {0} /\ \A i \in 1 .. Len(d) : d[i] \in 0 .. MaxBlock
  BY InputIsWalk DEF Blocks
<1>2. MaxBlock \in Nat
  BY ReplayAssumption
<1>3. ASSUME NEW n \in Int, NEW f \in [1 .. n -> Blocks]
      PROVE  f \in Seq(Blocks)
  <2>1. CASE n >= 0
    <3>1. n \in Nat
      BY <2>1
    <3>2. QED BY <3>1, SeqDef
  <2>2. CASE n < 0
    <3>1. 1 .. n = 1 .. 0 /\ 0 \in Nat
      BY <2>2
    <3>2. QED BY <3>1, SeqDef
  <2>3. QED BY <2>1, <2>2
<1>4. WalkForward(d) \in Seq(Blocks)
  <2> DEFINE n == d[Len(d)] - d[1] + 1
  <2>1. d[1] \in 0 .. MaxBlock /\ d[Len(d)] \in 0 .. MaxBlock
    BY <1>1
  <2>2. n \in Int /\ \A i \in 1 .. n : d[1] + i - 1 \in Blocks
    BY <1>2, <2>1 DEF Blocks
  <2>3. [i \in 1 .. n |-> d[1] + i - 1] \in [1 .. n -> Blocks]
    BY <2>2
  <2>4. QED BY <1>3, <2>2, <2>3 DEF WalkForward
<1>5. CASE Len(d) = 2 /\ d[1] = 0 /\ d[2] > 0
  <2>1. d[2] \in 0 .. MaxBlock
    BY <1>1, <1>5
  <2>2. \A i \in 1 .. d[2] : d[2] - i + 1 \in Blocks
    BY <1>2, <2>1 DEF Blocks
  <2>3. [i \in 1 .. d[2] |-> d[2] - i + 1] \in [1 .. d[2] -> Blocks] /\ d[2] \in Int
    BY <2>1, <2>2
  <2>4. WalkOf(d) = [i \in 1 .. d[2] |-> d[2] - i + 1]
    BY <1>5 DEF WalkOf
  <2>5. QED BY <1>3, <2>3, <2>4
<1>6. QED BY <1>1, <1>4, <1>5 DEF WalkOf

LEMMA JobNumbers ==
  ASSUME TypeOK
  PROVE  /\ -1 \notin Blocks /\ NoJob.num = -1 /\ OwnJob.num = -1
         /\ \A w \in Workers : /\ workers[w] \in Jobs
                               /\ workers[w].num \in Blocks \cup {-1}
                               /\ Free(w) => workers[w].num = -1
         /\ Running \subseteq Blocks
         /\ \A b \in Blocks : b \in Running <=> InRun(b)
<1>1. -1 \notin Blocks /\ NoJob.num = -1 /\ OwnJob.num = -1
  BY ReplayAssumption DEF Blocks, NoJob, OwnJob
<1>2. \A w \in Workers : workers[w] \in Jobs
  BY DEF TypeOK
<1>3. \A j \in Jobs : j.num \in Blocks \cup {-1}
  BY <1>1 DEF Jobs
<1>4. QED BY <1>1, <1>2, <1>3 DEF Running, InRun, Free

LEMMA TailOf ==
  ASSUME NEW s \in Seq(Blocks), s # <<>>
  PROVE  /\ Head(s) = s[1] /\ Head(s) \in Blocks /\ Tail(s) \in Seq(Blocks)
         /\ Len(s) \in Nat \ {0} /\ Len(Tail(s)) = Len(s) - 1
         /\ \A i \in 1 .. Len(s) - 1 : Tail(s)[i] = s[i + 1]
BY HeadTailProperties, EmptySeq, LenProperties
-----------------------------------------------------------------------------
LEMMA TypeInit == Init => TypeOK
<1> SUFFICES ASSUME Init PROVE TypeOK
  OBVIOUS
<1>1. todo \in Seq(Blocks)
  BY WalkIsSeq DEF Init
<1>2. workers \in [Workers -> Jobs]
  BY DEF Init, Jobs
<1>3. fate \in [Blocks -> {"none", "done", "skipped", "dropped", "missed", "killed", "died"}]
  BY DEF Init
<1>4. exiting \in BOOLEAN /\ others \in BOOLEAN /\ timedOut \in BOOLEAN /\ allFree \in BOOLEAN
  BY Zenon DEF Init
<1>5. /\ data \in Inputs /\ skip \in BOOLEAN /\ content \in Contents
      /\ pc = "scan" /\ back = "end" /\ block_list = {} /\ due = {} /\ txQueue = {} /\ pairs = {}
  BY DEF Init
<1>6. QED BY <1>1, <1>2, <1>3, <1>4, <1>5 DEF TypeOK

\* What a step may write, one variable at a time.
LEMMA WorkersType ==
  ASSUME TypeOK, NEW w \in Workers, NEW j \in Jobs, workers' = [workers EXCEPT ![w] = j]
  PROVE  workers' \in [Workers -> Jobs]
BY DEF TypeOK

LEMMA JobTypes ==
  /\ NoJob \in Jobs /\ OwnJob \in Jobs
  /\ \A b \in Blocks, r \in 0 .. MaxRecursion + 1 : Job(b, r) \in Jobs
BY DEF Jobs, Job

LEMMA EndsType ==
  ASSUME TypeOK, NEW b \in Blocks,
         NEW how \in {"done", "skipped", "dropped", "missed", "killed", "died"}, Ends(b, how)
  PROVE  /\ fate' \in [Blocks -> {"none", "done", "skipped", "dropped", "missed", "killed", "died"}]
         /\ \A a \in Blocks : fate'[a] = IF a = b THEN how ELSE fate[a]
BY DEF TypeOK, Ends

LEMMA RetryType == TypeOK /\ (\E e \in Entries, w \in Workers : RetryStarts(e, w)) => TypeOK'
<1> SUFFICES ASSUME TypeOK, NEW e \in Entries, NEW w \in Workers, RetryStarts(e, w) PROVE TypeOK'
  OBVIOUS
<1>1. e[1] \in Blocks /\ e[2] \in 0 .. MaxRecursion + 1
  BY ReplayAssumption DEF Entries
<1>2. workers' \in [Workers -> Jobs]
  BY <1>1, JobTypes, WorkersType DEF RetryStarts
<1>3. /\ data' = data /\ skip' = skip /\ content' = content /\ todo' = todo /\ pc' = pc
      /\ back' = back /\ allFree' = allFree /\ block_list' = block_list \ {e}
      /\ due' = due \ {e} /\ txQueue' = txQueue /\ exiting' = exiting /\ pairs' = pairs
      /\ fate' = fate /\ others' = TRUE /\ timedOut' = timedOut
  BY DEF RetryStarts, Takes, args, wait
<1>4. QED BY <1>2, <1>3 DEF TypeOK

\* Everything but what the walk itself moves.
LEMMA StepType == TypeOK /\ WaitInv /\ [Next]_vars => TypeOK'
<1> SUFFICES ASSUME TypeOK, WaitInv, [Next]_vars PROVE TypeOK'
  OBVIOUS
<1> USE DEF args, list, wait, history
<1>1. CASE UNCHANGED vars \/ ExitCommand
  <2>1. /\ data' = data /\ skip' = skip /\ content' = content /\ todo' = todo /\ pc' = pc
        /\ back' = back /\ allFree' = allFree /\ block_list' = block_list /\ due' = due
        /\ workers' = workers /\ txQueue' = txQueue /\ pairs' = pairs /\ fate' = fate
        /\ others' = others /\ timedOut' = timedOut
    BY <1>1 DEF vars, ExitCommand
  <2>2. exiting' \in BOOLEAN
    BY <1>1 DEF vars, ExitCommand, TypeOK
  <2>3. QED BY <2>1, <2>2 DEF TypeOK
<1>2. ASSUME NEW e \in Entries, BecomesDue(e) PROVE TypeOK'
  BY <1>2 DEF BecomesDue, TypeOK
<1>3. ASSUME NEW e \in Entries, NEW w \in Workers, RetryStarts(e, w) PROVE TypeOK'
  BY <1>3, RetryType
<1>4. ASSUME NEW e \in Entries, NoWorkerForRetry(e) PROVE TypeOK'
  <2>1. e[1] \in Blocks /\ Ends(e[1], "dropped")
    BY <1>4 DEF Entries, NoWorkerForRetry
  <2>2. fate' \in [Blocks -> {"none", "done", "skipped", "dropped", "missed", "killed", "died"}]
    BY <2>1, EndsType
  <2>3. QED BY <1>4, <2>2 DEF NoWorkerForRetry, Takes, TypeOK
<1>5. CASE ScanEnd \/ WalkOver \/ BatchWait \/ SkipWaits
  BY <1>5 DEF ScanEnd, WalkOver, BatchWait, SkipWaits, Places, WaitsFor, TypeOK
<1>6. CASE NoWorker
  <2>1. todo # <<>>
    BY <1>6 DEF NoWorker, Places, TypeOK
  <2>2. Head(todo) \in Blocks /\ Tail(todo) \in Seq(Blocks)
    BY <2>1, TailOf DEF TypeOK
  <2>3. fate' \in [Blocks -> {"none", "done", "skipped", "dropped", "missed", "killed", "died"}]
    BY <1>6, <2>2, EndsType DEF NoWorker
  <2>4. QED BY <1>6, <2>2, <2>3 DEF NoWorker, Advance, TypeOK
<1>7. ASSUME NEW w \in Workers, StartBlock(w) PROVE TypeOK'
  <2>1. todo # <<>>
    BY <1>7 DEF StartBlock, Places, TypeOK
  <2>2. Head(todo) \in Blocks /\ Tail(todo) \in Seq(Blocks) /\ 0 \in 0 .. MaxRecursion + 1
    BY <2>1, TailOf, ReplayAssumption DEF TypeOK
  <2>3. workers' \in [Workers -> Jobs]
    BY <1>7, <2>2, JobTypes, WorkersType DEF StartBlock
  <2>4. QED BY <1>7, <2>2, <2>3 DEF StartBlock, Advance, TypeOK
<1>8. CASE FetchedHere \/ FailedHere \/ RaisedHere
  <2>1. pc = "fetch" /\ todo # <<>>
    BY <1>8 DEF FetchedHere, FailedHere, RaisedHere, TypeOK
  <2>2. Head(todo) \in Blocks /\ 1 \in 1 .. MaxRecursion + 1
    BY <2>1, TailOf, ReplayAssumption DEF TypeOK
  <2>3. <<Head(todo), 1>> \in Entries
    BY <2>2 DEF Entries
  <2>4. CASE FetchedHere
    BY <2>2, <2>4 DEF FetchedHere, TypeOK
  <2>5. CASE FailedHere
    BY <2>3, <2>5 DEF FailedHere, TypeOK
  <2>6. CASE RaisedHere
    BY <2>6 DEF RaisedHere, TypeOK
  <2>7. QED BY <1>8, <2>4, <2>5, <2>6
<1>9. ASSUME NEW b \in Blocks,
             ProcessTx(b) \/ ProcessPair(b) \/ LocksItself(b) \/ ProcessRaises(b)
      PROVE  TypeOK'
  <2>1. TakesTx(b) /\ Ends(b, "done")
    BY <1>9 DEF ProcessTx, ProcessPair, LocksItself, ProcessRaises
  <2>2. fate' \in [Blocks -> {"none", "done", "skipped", "dropped", "missed", "killed", "died"}]
    BY <2>1, EndsType
  <2>3. /\ pc' \in {"drain", "crashed", "stuck", pc} /\ pc \in {"drain", "flush"}
        /\ pairs' \in {pairs, pairs \cup {b}} /\ workers' = workers /\ others' = others
    BY <1>9 DEF ProcessTx, ProcessPair, LocksItself, ProcessRaises, TakesTx
  <2>4. QED BY <2>1, <2>2, <2>3 DEF TakesTx, TypeOK
<1>10. ASSUME NEW b \in Blocks, ProcessMine(b) PROVE TypeOK'
  <2>1. TakesTx(b) /\ Ends(b, "done") /\ others' = TRUE /\ pc' = pc /\ pairs' = pairs
    BY <1>10 DEF ProcessMine
  <2>2. fate' \in [Blocks -> {"none", "done", "skipped", "dropped", "missed", "killed", "died"}]
    BY <2>1, EndsType
  <2>3. workers' \in [Workers -> Jobs]
    <3>1. workers' = workers \/ \E w \in Workers : workers' = [workers EXCEPT ![w] = OwnJob]
      BY <1>10 DEF ProcessMine
    <3>2. QED BY <3>1, JobTypes, WorkersType DEF TypeOK
  <2>4. QED BY <2>1, <2>2, <2>3 DEF TakesTx, TypeOK
<1>11. CASE DrainEnd
  BY <1>11 DEF DrainEnd, WaitsFor, TypeOK
<1>12. CASE WaitCheck
  <2>1. allFree' \in BOOLEAN
    BY <1>12, Zenon DEF WaitCheck
  <2>2. QED BY <1>12, <2>1 DEF WaitCheck, TypeOK
<1>13. ASSUME Returns, InWait PROVE /\ todo' \in Seq(Blocks)
                                    /\ pc' \in {"drain", "place", "fetch", "end"}
                                    /\ todo' = <<>> => pc' \notin {"place", "fetch"}
  <2>1. CASE back = "pushed"
    <3>1. todo # <<>>
      BY <1>13, <2>1 DEF WaitInv
    <3>2. QED BY <1>13, <2>1, <3>1, TailOf DEF Returns, Advance, TypeOK
  <2>2. CASE back # "pushed"
    BY <1>13, <2>2 DEF Returns, WaitInv, TypeOK
  <2>3. QED BY <2>1, <2>2
<1>14. CASE FlushEnd
  <2>1. CASE allFree
    BY <1>13, <1>14, <2>1 DEF FlushEnd, InWait, TypeOK
  <2>2. CASE ~allFree
    BY <1>14, <2>2 DEF FlushEnd, TypeOK
  <2>3. QED BY <2>1, <2>2
<1>15. CASE WaitTimeout
  <2>1. fate' \in [Blocks -> {"none", "done", "skipped", "dropped", "missed", "killed", "died"}]
    BY <1>15 DEF WaitTimeout, TypeOK
  <2>2. workers' \in [Workers -> Jobs]
    BY <1>15, JobTypes DEF WaitTimeout
  <2>3. QED BY <1>13, <1>15, <2>1, <2>2 DEF WaitTimeout, InWait, TypeOK
<1>16. ASSUME NEW w \in Workers, Worker(w) PROVE TypeOK'
  <2>1. Leaves(w)
    BY <1>16 DEF Worker, OwnJobDone, FetchRetry, FetchMissed, FetchDies, Fetched
  <2>2. workers' \in [Workers -> Jobs]
    BY <2>1, JobTypes, WorkersType DEF Leaves
  <2>3. CASE OwnJobDone(w)
    BY <2>1, <2>2, <2>3 DEF OwnJobDone, Leaves, TypeOK
  <2>4. CASE FetchRetry(w)
    <3>1. workers[w].num \in Blocks /\ workers[w].rec + 1 \in 1 .. MaxRecursion + 1
      <4>1. workers[w] \in Jobs /\ workers[w].num \in Blocks /\ -1 \notin Blocks
        BY <2>4, JobNumbers DEF FetchRetry, HasBlock
      <4>2. workers[w].rec \in 0 .. MaxRecursion + 1
        BY <4>1 DEF Jobs, NoJob, OwnJob
      <4>3. QED BY <2>4, <4>1, <4>2, ReplayAssumption DEF FetchRetry
    <3>2. <<workers[w].num, workers[w].rec + 1>> \in Entries
      BY <3>1 DEF Entries
    <3>3. QED BY <2>1, <2>2, <2>4, <3>2 DEF FetchRetry, Leaves, TypeOK
  <2>5. CASE FetchMissed(w) \/ FetchDies(w)
    <3>1. fate' \in [Blocks -> {"none", "done", "skipped", "dropped", "missed", "killed", "died"}]
      BY <2>5, EndsType DEF FetchMissed, FetchDies, HasBlock
    <3>2. QED BY <2>1, <2>2, <2>5, <3>1 DEF FetchMissed, FetchDies, Leaves, TypeOK
  <2>6. CASE Fetched(w)
    BY <2>1, <2>2, <2>6 DEF Fetched, HasBlock, Leaves, TypeOK
  <2>7. QED BY <1>16, <2>3, <2>4, <2>5, <2>6 DEF Worker
<1> QED BY <1>1, <1>2, <1>3, <1>4, <1>5, <1>6, <1>7, <1>8, <1>9, <1>10, <1>11, <1>12, <1>14,
           <1>15, <1>16 DEF Next, MainLoop
-----------------------------------------------------------------------------
(* Where the blocks go *)

\* A block that has left the walk stays somewhere.
Stays == \A b \in Blocks : Elsewhere(b) => Elsewhere(b)'

SamePlaces == /\ block_list' = block_list /\ workers' = workers
              /\ txQueue' = txQueue /\ fate' = fate

LEMMA WalkedAreBlocks == TypeOK => Walked \subseteq Blocks
BY WalkIsSeq, ElementOfSeq DEF TypeOK, Walked

\* The head of the walk may go when it is somewhere.
LEMMA FoundKeeps ==
  ASSUME TypeOK, FoundInv, data' = data, Stays,
         \/ todo' = todo
         \/ /\ todo # <<>> /\ todo' = Tail(todo)
            /\ \E h \in Blocks : h = Head(todo) /\ Elsewhere(h)'
  PROVE  FoundInv'
<1> SUFFICES ASSUME NEW b \in Walked PROVE InTodo(b)' \/ Elsewhere(b)'
  BY DEF FoundInv, Walked
<1>1. b \in Blocks /\ (InTodo(b) \/ Elsewhere(b))
  BY WalkedAreBlocks DEF FoundInv
<1>2. CASE Elsewhere(b)
  BY <1>1, <1>2 DEF Stays
<1>3. CASE InTodo(b) /\ todo' = todo
  BY <1>3 DEF InTodo
<1>4. ASSUME InTodo(b), todo # <<>>, todo' = Tail(todo),
             NEW h \in Blocks, h = Head(todo), Elsewhere(h)'
      PROVE  InTodo(b)' \/ Elsewhere(b)'
  <2>1. PICK i \in 1 .. Len(todo) : todo[i] = b
    BY <1>4 DEF InTodo
  <2>2. /\ Head(todo) = todo[1] /\ Len(todo) \in Nat \ {0} /\ Len(Tail(todo)) = Len(todo) - 1
        /\ \A j \in 1 .. Len(todo) - 1 : Tail(todo)[j] = todo[j + 1]
    BY <1>4, TailOf DEF TypeOK
  <2>3. CASE i = 1
    BY <1>4, <2>1, <2>2, <2>3
  <2>4. CASE i # 1
    <3>1. i - 1 \in 1 .. Len(todo) - 1 /\ (i - 1) + 1 = i
      BY <2>1, <2>2, <2>4
    <3>2. i - 1 \in 1 .. Len(todo') /\ todo'[i - 1] = b
      BY <1>4, <2>1, <2>2, <3>1
    <3>3. QED BY <3>2 DEF InTodo
  <2>5. QED BY <2>3, <2>4
<1>5. QED BY <1>1, <1>2, <1>3, <1>4

\* What is left of a walk that names a block once names it once.
LEMMA TodoOfTail ==
  ASSUME TypeOK, todo # <<>>, todo' = Tail(todo), NEW b \in Blocks
  PROVE  /\ InTodo(b)' => InTodo(b)
         /\ InTodo(Head(todo))
         /\ (\A i, j \in 1 .. Len(todo) : todo[i] = b /\ todo[j] = b => i = j)
            => /\ \A i, j \in 1 .. Len(todo') : todo'[i] = b /\ todo'[j] = b => i = j
               /\ b = Head(todo) => ~InTodo(b)'
<1>1. /\ Head(todo) = todo[1] /\ Len(todo) \in Nat \ {0} /\ Len(todo') = Len(todo) - 1
      /\ \A j \in 1 .. Len(todo) - 1 : todo'[j] = todo[j + 1]
  BY TailOf DEF TypeOK
<1>2. 1 \in 1 .. Len(todo) /\ \A j \in 1 .. Len(todo') : j + 1 \in 1 .. Len(todo) /\ j + 1 # 1
  BY <1>1
<1>3. (InTodo(b)' => InTodo(b)) /\ InTodo(Head(todo))
  BY <1>1, <1>2 DEF InTodo
<1>4. ASSUME \A i, j \in 1 .. Len(todo) : todo[i] = b /\ todo[j] = b => i = j
      PROVE  /\ \A i, j \in 1 .. Len(todo') : todo'[i] = b /\ todo'[j] = b => i = j
             /\ b = Head(todo) => ~InTodo(b)'
  <2>1. ASSUME NEW i \in 1 .. Len(todo'), NEW j \in 1 .. Len(todo'), todo'[i] = b, todo'[j] = b
        PROVE  i = j
    <3>1. i + 1 = j + 1
      BY <1>1, <1>2, <1>4, <2>1
    <3>2. QED BY <3>1
  <2>2. ASSUME b = Head(todo), NEW i \in 1 .. Len(todo'), todo'[i] = b PROVE FALSE
    <3>1. todo[i + 1] = b /\ todo[1] = b
      BY <1>1, <2>2
    <3>2. QED BY <1>2, <1>4, <3>1
  <2>3. QED BY <2>1, <2>2 DEF InTodo
<1>5. QED BY <1>3, <1>4

PlaceInv == FoundInv /\ SingleInv

\* A step that moves nothing.
LEMMA NothingMoves ==
  ASSUME TypeOK, PlaceInv, data' = data, skip' = skip, todo' = todo, SamePlaces
  PROVE  Stays /\ PlaceInv'
<1>1. Stays
  BY DEF Stays, Elsewhere, InList, InRun, Ended, SamePlaces
<1>2. FoundInv'
  BY <1>1, FoundKeeps DEF PlaceInv
<1>3. \A b \in Blocks : Single(b) => Single(b)'
  BY DEF Single, Elsewhere, InTodo, InList, InRun, Ended, SamePlaces
<1>4. SingleInv'
  BY <1>3 DEF PlaceInv, SingleInv, NamedOnce
<1>5. QED BY <1>1, <1>2, <1>4 DEF PlaceInv

\* list -> worker, or list -> end when there is none.
LEMMA RetryMoves ==
  ASSUME TypeOK, PlaceInv, NEW e \in Entries,
         NoWorkerForRetry(e) \/ \E w \in Workers : RetryStarts(e, w)
  PROVE  Stays /\ PlaceInv'
<1> DEFINE c == e[1]
<1>1. /\ c \in Blocks /\ e \in block_list /\ block_list' = block_list \ {e}
      /\ data' = data /\ skip' = skip /\ todo' = todo /\ txQueue' = txQueue
  BY DEF Entries, NoWorkerForRetry, RetryStarts, Takes, TypeOK, args, wait
<1>2. InList(c)
  BY <1>1 DEF InList
<1>3. CASE NoWorkerForRetry(e)
  <2>1. workers' = workers /\ \A a \in Blocks : fate'[a] = IF a = c THEN "dropped" ELSE fate[a]
    BY <1>1, <1>3, EndsType DEF NoWorkerForRetry
  <2>2. \A a \in Blocks : a # c => (InList(a)' <=> InList(a)) /\ (Ended(a)' <=> Ended(a))
    BY <1>1, <2>1 DEF InList, Ended
  <2>3. Ended(c)' /\ \A a \in Blocks : InRun(a)' <=> InRun(a)
    BY <1>1, <2>1 DEF Ended, InRun
  <2>4. Stays
    BY <1>1, <2>2, <2>3 DEF Stays, Elsewhere
  <2>5. ASSUME NEW a \in Blocks, Single(a) PROVE Single(a)'
    <3>1. a = c => ~InList(a)'
      BY <1>1, <2>5 DEF InList, Single
    <3>2. InTodo(a)' <=> InTodo(a)
      BY <1>1 DEF InTodo
    <3>3. QED BY <1>1, <1>2, <2>1, <2>2, <2>3, <2>5, <3>1, <3>2 DEF Single, Elsewhere
  <2>6. FoundInv'
    BY <1>1, <2>4, FoundKeeps DEF PlaceInv
  <2>7. SingleInv'
    BY <1>1, <2>5 DEF PlaceInv, SingleInv, NamedOnce
  <2>8. QED BY <2>4, <2>6, <2>7 DEF PlaceInv
<1>4. ASSUME NEW w \in Workers, RetryStarts(e, w)
      PROVE  Stays /\ PlaceInv'
  <2>1. /\ fate' = fate /\ Free(w) /\ workers[w].num = -1
        /\ \A v \in Workers : workers'[v] = IF v = w THEN Job(c, e[2]) ELSE workers[v]
    BY <1>4, JobNumbers DEF RetryStarts, TypeOK
  <2>2. \A v \in Workers : workers'[v].num = IF v = w THEN c ELSE workers[v].num
    BY <2>1 DEF Job
  <2>3. InRun(c)' /\ \A a \in Blocks : a # c => (InRun(a)' <=> InRun(a))
    BY <2>1, <2>2, JobNumbers DEF InRun
  <2>4. \A a \in Blocks : (a # c => (InList(a)' <=> InList(a))) /\ (Ended(a)' <=> Ended(a))
    BY <1>1, <2>1 DEF InList, Ended
  <2>5. Stays
    BY <1>1, <2>3, <2>4 DEF Stays, Elsewhere
  <2>6. ASSUME NEW a \in Blocks, Single(a) PROVE Single(a)'
    <3>1. a = c => ~InList(a)'
      BY <1>1, <2>6 DEF InList, Single
    <3>2. InTodo(a)' <=> InTodo(a)
      BY <1>1 DEF InTodo
    <3>3. ASSUME NEW u \in Workers, NEW v \in Workers, workers'[u].num = a, workers'[v].num = a
          PROVE  u = v
      <4>1. a = c => \A x \in Workers : workers[x].num # a
        BY <1>2, <2>6 DEF Single, InRun
      <4>2. QED BY <2>2, <2>6, <3>3, <4>1 DEF Single
    <3>4. QED BY <1>1, <1>2, <2>3, <2>4, <2>6, <3>1, <3>2, <3>3 DEF Single, Elsewhere
  <2>7. FoundInv'
    BY <1>1, <2>5, FoundKeeps DEF PlaceInv
  <2>8. SingleInv'
    BY <1>1, <2>6 DEF PlaceInv, SingleInv, NamedOnce
  <2>9. QED BY <2>5, <2>7, <2>8 DEF PlaceInv
<1>5. QED BY <1>3, <1>4

\* walk -> end, or walk -> worker.
LEMMA NoWorkerMoves ==
  ASSUME TypeOK, PlaceInv, NoWorker
  PROVE  Stays /\ PlaceInv'
<1>1. /\ todo # <<>> /\ todo' = Tail(todo) /\ data' = data /\ skip' = skip
      /\ block_list' = block_list /\ workers' = workers /\ txQueue' = txQueue
      /\ Ends(Head(todo), "skipped")
  BY DEF NoWorker, Places, Advance, args, list, TypeOK
<1>2. PICK c \in Blocks : c = Head(todo)
  BY <1>1, TailOf DEF TypeOK
<1>3. \A a \in Blocks : fate'[a] = IF a = c THEN "skipped" ELSE fate[a]
  BY <1>1, <1>2, EndsType
<1>4. Ended(c)' /\ Elsewhere(c)' /\ \A a \in Blocks : a # c => (Ended(a)' <=> Ended(a))
  BY <1>2, <1>3 DEF Ended, Elsewhere
<1>5. \A a \in Blocks : (InList(a)' <=> InList(a)) /\ (InRun(a)' <=> InRun(a))
  BY <1>1 DEF InList, InRun
<1>6. Stays
  BY <1>1, <1>4, <1>5 DEF Stays, Elsewhere
<1>7. FoundInv'
  BY <1>1, <1>2, <1>4, <1>6, FoundKeeps DEF PlaceInv
<1>8. ASSUME NEW a \in Blocks, Single(a) PROVE Single(a)'
  <2>1. /\ InTodo(a)' => InTodo(a)
        /\ InTodo(c)
        /\ \A i, j \in 1 .. Len(todo') : todo'[i] = a /\ todo'[j] = a => i = j
        /\ a = c => ~InTodo(a)'
    BY <1>1, <1>2, <1>8, TodoOfTail DEF Single
  <2>2. a = c => ~InList(a) /\ ~InRun(a) /\ a \notin txQueue
    BY <1>8, <2>1 DEF Single, Elsewhere
  <2>3. QED BY <1>1, <1>4, <1>5, <1>8, <2>1, <2>2 DEF Single, Elsewhere
<1>9. SingleInv'
  BY <1>1, <1>8 DEF PlaceInv, SingleInv, NamedOnce
<1>10. QED BY <1>6, <1>7, <1>9 DEF PlaceInv

LEMMA StartMoves ==
  ASSUME TypeOK, PlaceInv, NEW w \in Workers, StartBlock(w)
  PROVE  Stays /\ PlaceInv'
<1>1. /\ todo # <<>> /\ todo' = Tail(todo) /\ data' = data /\ skip' = skip
      /\ block_list' = block_list /\ txQueue' = txQueue /\ fate' = fate
      /\ Free(w) /\ workers' = [workers EXCEPT ![w] = Job(Head(todo), 0)]
  BY DEF StartBlock, Places, Advance, args, list, history, TypeOK
<1>2. PICK c \in Blocks : c = Head(todo)
  BY <1>1, TailOf DEF TypeOK
<1>3. \A v \in Workers : workers'[v].num = IF v = w THEN c ELSE workers[v].num
  BY <1>1, <1>2 DEF Job, TypeOK
<1>4. workers[w].num = -1 /\ -1 \notin Blocks
  BY <1>1, JobNumbers
<1>5. InRun(c)' /\ Elsewhere(c)' /\ \A a \in Blocks : a # c => (InRun(a)' <=> InRun(a))
  BY <1>3, <1>4 DEF InRun, Elsewhere
<1>6. \A a \in Blocks : (InList(a)' <=> InList(a)) /\ (Ended(a)' <=> Ended(a))
  BY <1>1 DEF InList, Ended
<1>7. Stays
  BY <1>1, <1>5, <1>6 DEF Stays, Elsewhere
<1>8. FoundInv'
  BY <1>1, <1>2, <1>5, <1>7, FoundKeeps DEF PlaceInv
<1>9. ASSUME NEW a \in Blocks, Single(a) PROVE Single(a)'
  <2>1. /\ InTodo(a)' => InTodo(a)
        /\ InTodo(c)
        /\ \A i, j \in 1 .. Len(todo') : todo'[i] = a /\ todo'[j] = a => i = j
        /\ a = c => ~InTodo(a)'
    BY <1>1, <1>2, <1>9, TodoOfTail DEF Single
  <2>2. a = c => ~InList(a) /\ ~InRun(a) /\ a \notin txQueue /\ ~Ended(a)
    BY <1>9, <2>1 DEF Single, Elsewhere
  <2>3. ASSUME NEW u \in Workers, NEW v \in Workers, workers'[u].num = a, workers'[v].num = a
        PROVE  u = v
    BY <1>3, <1>9, <2>2, <2>3 DEF Single, InRun
  <2>4. QED BY <1>1, <1>5, <1>6, <1>9, <2>1, <2>2, <2>3 DEF Single, Elsewhere
<1>10. SingleInv'
  BY <1>1, <1>9 DEF PlaceInv, SingleInv, NamedOnce
<1>11. QED BY <1>7, <1>8, <1>10 DEF PlaceInv

\* With skip_multithreading the block is in the queue or the list and still the
\* head of the walk, until the wait is over.
LEMMA FetchMoves ==
  ASSUME TypeOK, PlaceInv, WaitInv, FetchedHere \/ FailedHere
  PROVE  Stays /\ PlaceInv' /\ todo # <<>> /\ todo' = todo /\ Elsewhere(Head(todo))'
<1>1. /\ pc = "fetch" /\ skip /\ skip' = skip /\ data' = data /\ todo' = todo
      /\ workers' = workers /\ fate' = fate
      /\ \/ txQueue' = txQueue \cup {Head(todo)} /\ block_list' = block_list
         \/ txQueue' = txQueue /\ block_list' = block_list \cup {<<Head(todo), 1>>}
  <2>1. pc = "fetch" /\ skip
    BY DEF FetchedHere, FailedHere, WaitInv
  <2>2. CASE FetchedHere
    BY <2>1, <2>2 DEF FetchedHere, args, list, history
  <2>3. CASE FailedHere
    BY <2>1, <2>3 DEF FailedHere, args, history
  <2>4. QED BY <2>2, <2>3
<1>2. todo # <<>>
  BY <1>1 DEF TypeOK
<1>3. Stays
  BY <1>1 DEF Stays, Elsewhere, InList, InRun, Ended
<1>4. Elsewhere(Head(todo))'
  <2>1. Head(todo') = Head(todo)
    BY <1>1
  <2>2. CASE txQueue' = txQueue \cup {Head(todo)}
    BY <2>1, <2>2 DEF Elsewhere
  <2>3. CASE block_list' = block_list \cup {<<Head(todo), 1>>}
    <3>1. <<Head(todo), 1>>[1] = Head(todo)
      OBVIOUS
    <3>2. QED BY <2>1, <2>3, <3>1 DEF Elsewhere, InList
  <2>4. QED BY <1>1, <2>2, <2>3
<1>5. FoundInv'
  BY <1>1, <1>3, FoundKeeps DEF PlaceInv
<1>6. SingleInv'
  BY <1>1 DEF SingleInv
<1>7. QED BY <1>1, <1>2, <1>3, <1>4, <1>5, <1>6 DEF PlaceInv

\* queue -> end.  A worker that is taken for an own transaction has no block.
LEMMA ProcessMoves ==
  ASSUME TypeOK, PlaceInv, NEW b \in Blocks,
         \/ ProcessTx(b) \/ ProcessPair(b) \/ LocksItself(b) \/ ProcessRaises(b) \/ ProcessMine(b)
  PROVE  Stays /\ PlaceInv' /\ Ended(b)' /\ \A a \in Blocks : InRun(a)' <=> InRun(a)
<1>1. /\ TakesTx(b) /\ Ends(b, "done")
      /\ \/ workers' = workers
         \/ \E w \in Workers : Free(w) /\ workers' = [workers EXCEPT ![w] = OwnJob]
  BY DEF ProcessTx, ProcessPair, LocksItself, ProcessRaises, ProcessMine
<1>2. /\ b \in txQueue /\ txQueue' = txQueue \ {b} /\ block_list' = block_list
      /\ data' = data /\ skip' = skip /\ todo' = todo
  BY <1>1 DEF TakesTx, args, list
<1>3. \A a \in Blocks : fate'[a] = IF a = b THEN "done" ELSE fate[a]
  BY <1>1, EndsType
<1>4. \A v \in Workers : workers'[v].num = workers[v].num
  <2>1. CASE workers' = workers
    BY <2>1
  <2>2. ASSUME NEW w \in Workers, Free(w), workers' = [workers EXCEPT ![w] = OwnJob]
        PROVE  \A v \in Workers : workers'[v].num = workers[v].num
    <3>1. workers[w].num = -1 /\ OwnJob.num = -1
      BY <2>2, JobNumbers
    <3>2. QED BY <2>2, <3>1 DEF TypeOK
  <2>3. QED BY <1>1, <2>1, <2>2
<1>5. \A a \in Blocks : (InRun(a)' <=> InRun(a)) /\ (InList(a)' <=> InList(a))
  BY <1>2, <1>4 DEF InRun, InList
<1>6. Ended(b)' /\ \A a \in Blocks : a # b => (Ended(a)' <=> Ended(a))
  BY <1>3 DEF Ended
<1>7. Stays
  BY <1>2, <1>5, <1>6 DEF Stays, Elsewhere
<1>8. FoundInv'
  BY <1>2, <1>7, FoundKeeps DEF PlaceInv
<1>9. ASSUME NEW a \in Blocks, Single(a) PROVE Single(a)'
  <2>1. InTodo(a)' <=> InTodo(a)
    BY <1>2 DEF InTodo
  <2>2. QED BY <1>2, <1>4, <1>5, <1>6, <1>9, <2>1 DEF Single, Elsewhere
<1>10. SingleInv'
  BY <1>2, <1>9 DEF PlaceInv, SingleInv, NamedOnce
<1>11. QED BY <1>5, <1>6, <1>7, <1>8, <1>10 DEF PlaceInv

\* When a wait ends the head of the walk goes if it was fetched here.
LEMMA ReturnMoves ==
  ASSUME TypeOK, PlaceInv, WaitInv, InWait, Returns, data' = data, skip' = skip, Stays,
         \A b \in Blocks : todo' = todo /\ Single(b) => Single(b)'
  PROVE  PlaceInv'
<1>1. CASE back = "pushed"
  <2>1. todo # <<>> /\ todo' = Tail(todo) /\ skip /\ Elsewhere(Head(todo))
    BY <1>1 DEF WaitInv, Returns, Advance
  <2>2. Head(todo) \in Blocks
    BY <2>1, TailOf DEF TypeOK
  <2>3. \E h \in Blocks : h = Head(todo) /\ Elsewhere(h)'
    BY <2>1, <2>2 DEF Stays
  <2>4. FoundInv'
    BY <2>1, <2>3, FoundKeeps DEF PlaceInv
  <2>5. QED BY <2>1, <2>4 DEF PlaceInv, SingleInv
<1>2. CASE back # "pushed"
  <2>1. todo' = todo
    BY <1>2 DEF Returns
  <2>2. FoundInv'
    BY <2>1, FoundKeeps DEF PlaceInv
  <2>3. SingleInv'
    BY <2>1 DEF PlaceInv, SingleInv, NamedOnce
  <2>4. QED BY <2>2, <2>3 DEF PlaceInv
<1>3. QED BY <1>1, <1>2

LEMMA FlushMoves ==
  ASSUME TypeOK, PlaceInv, WaitInv, FlushEnd
  PROVE  Stays /\ PlaceInv'
<1>1. /\ data' = data /\ skip' = skip /\ SamePlaces /\ InWait
      /\ IF allFree THEN Returns ELSE todo' = todo
  BY DEF FlushEnd, SamePlaces, InWait, args, list, history
<1>2. Stays
  BY <1>1 DEF Stays, Elsewhere, InList, InRun, Ended, SamePlaces
<1>3. CASE allFree
  <2>1. \A b \in Blocks : todo' = todo /\ Single(b) => Single(b)'
    BY <1>1 DEF Single, Elsewhere, InTodo, InList, InRun, Ended, SamePlaces
  <2>2. QED BY <1>1, <1>2, <1>3, <2>1, ReturnMoves
<1>4. CASE ~allFree
  BY <1>1, <1>4, NothingMoves
<1>5. QED BY <1>2, <1>3, <1>4

\* worker -> end, for all that run.
LEMMA TimeoutMoves ==
  ASSUME TypeOK, PlaceInv, WaitInv, WaitTimeout
  PROVE  Stays /\ PlaceInv' /\ \A b \in Blocks : ~InRun(b)'
<1>1. /\ data' = data /\ skip' = skip /\ block_list' = block_list /\ txQueue' = txQueue
      /\ InWait /\ Returns
      /\ fate' = [b \in Blocks |-> IF b \in Running THEN "killed" ELSE fate[b]]
      /\ workers' = [w \in Workers |-> NoJob]
  BY DEF WaitTimeout, InWait, args, list
<1>2. \A b \in Blocks : ~InRun(b)'
  BY <1>1, JobNumbers DEF InRun
<1>3. \A b \in Blocks : (Ended(b)' <=> (Ended(b) \/ InRun(b))) /\ (InList(b)' <=> InList(b))
  BY <1>1, JobNumbers DEF Ended, InList
<1>4. Stays
  BY <1>1, <1>3 DEF Stays, Elsewhere
<1>5. ASSUME NEW b \in Blocks, todo' = todo, Single(b) PROVE Single(b)'
  <2>1. InTodo(b)' <=> InTodo(b)
    BY <1>5 DEF InTodo
  <2>2. \A w \in Workers : workers'[w].num # b
    BY <1>2 DEF InRun
  <2>3. QED BY <1>1, <1>2, <1>3, <1>5, <2>1, <2>2 DEF Single, Elsewhere
<1>6. QED BY <1>1, <1>2, <1>4, <1>5, ReturnMoves

\* worker -> list, queue or end.
LEMMA WorkerMoves ==
  ASSUME TypeOK, PlaceInv, NEW w \in Workers, Worker(w)
  PROVE  Stays /\ PlaceInv' /\ \A a \in Blocks : InRun(a)' => InRun(a)
<1>0. PICK c : c = workers[w].num
  OBVIOUS
<1>1. /\ data' = data /\ skip' = skip /\ todo' = todo
      /\ workers' = [workers EXCEPT ![w] = NoJob]
  BY DEF Worker, OwnJobDone, FetchRetry, FetchMissed, FetchDies, Fetched, Leaves, args
<1>2. \A v \in Workers : workers'[v].num = IF v = w THEN -1 ELSE workers[v].num
  BY <1>1, JobNumbers DEF TypeOK
<1>3. \A a \in Blocks : /\ InRun(a)' => InRun(a)
                        /\ a # c => (InRun(a)' <=> InRun(a))
                        /\ Single(a) /\ a = c => ~InRun(a)'
  <2>1. ASSUME NEW a \in Blocks
        PROVE  (InRun(a)' => InRun(a)) /\ (a # c => (InRun(a)' <=> InRun(a)))
    BY <1>0, <1>2, JobNumbers DEF InRun
  <2>2. ASSUME NEW a \in Blocks, Single(a), a = c PROVE ~InRun(a)'
    BY <1>0, <1>2, <2>2, JobNumbers DEF InRun, Single
  <2>3. QED BY <2>1, <2>2
<1>4. \A a \in Blocks, u, v \in Workers :
        Single(a) /\ workers'[u].num = a /\ workers'[v].num = a => u = v
  BY <1>2, JobNumbers DEF Single
<1>5. CASE OwnJobDone(w)
  <2>1. c \notin Blocks /\ block_list' = block_list /\ txQueue' = txQueue /\ fate' = fate
    BY <1>0, <1>5, JobNumbers DEF OwnJobDone
  <2>2. \A a \in Blocks : /\ (InRun(a)' <=> InRun(a)) /\ (InList(a)' <=> InList(a))
                          /\ (Ended(a)' <=> Ended(a)) /\ (InTodo(a)' <=> InTodo(a))
    BY <1>1, <1>3, <2>1 DEF InList, Ended, InTodo
  <2>3. Stays
    BY <2>1, <2>2 DEF Stays, Elsewhere
  <2>4. \A a \in Blocks : Single(a) => Single(a)'
    BY <1>1, <1>4, <2>1, <2>2 DEF Single, Elsewhere
  <2>5. QED BY <1>1, <1>3, <2>3, <2>4, FoundKeeps DEF PlaceInv, SingleInv, NamedOnce
<1>6. CASE HasBlock(w) /\ ~OwnJobDone(w)
  <2>1. c \in Blocks /\ InRun(c)
    BY <1>0, <1>6 DEF HasBlock, InRun
  <2>2. Elsewhere(c)'
        /\ \A a \in Blocks : a # c => /\ InList(a)' <=> InList(a)
                                      /\ a \in txQueue' <=> a \in txQueue
                                      /\ Ended(a)' <=> Ended(a)
    <3>1. CASE FetchRetry(w)
      <4>1. /\ block_list' = block_list \cup {<<c, workers[w].rec + 1>>}
            /\ txQueue' = txQueue /\ fate' = fate
        BY <1>0, <3>1 DEF FetchRetry
      <4>2. <<c, workers[w].rec + 1>>[1] = c
        OBVIOUS
      <4>3. InList(c)' /\ \A a \in Blocks : a # c => (InList(a)' <=> InList(a))
        BY <4>1, <4>2 DEF InList
      <4>4. QED BY <4>1, <4>3 DEF Ended, Elsewhere
    <3>2. CASE FetchMissed(w) \/ FetchDies(w)
      <4>1. /\ block_list' = block_list /\ txQueue' = txQueue
            /\ Ended(c)' /\ \A a \in Blocks : a # c => (Ended(a)' <=> Ended(a))
        BY <1>0, <2>1, <3>2, EndsType DEF FetchMissed, FetchDies, Ended
      <4>2. QED BY <4>1 DEF InList, Elsewhere
    <3>3. CASE Fetched(w)
      <4>1. /\ block_list' = block_list /\ txQueue' = txQueue \cup {c} /\ fate' = fate
        BY <1>0, <3>3 DEF Fetched
      <4>2. QED BY <4>1 DEF InList, Ended, Elsewhere
    <3>4. QED BY <1>6, <3>1, <3>2, <3>3 DEF Worker
  <2>3. Stays
    BY <1>3, <2>1, <2>2 DEF Stays, Elsewhere
  <2>4. ASSUME NEW a \in Blocks, Single(a), a # c PROVE Single(a)'
    <3>1. InTodo(a)' <=> InTodo(a)
      BY <1>1 DEF InTodo
    <3>2. \A e \in block_list' : e[1] = a => e \in block_list
      BY <1>0, <1>6, <2>4 DEF Worker, FetchRetry, FetchMissed, FetchDies, Fetched
    <3>3. QED BY <1>1, <1>3, <1>4, <2>2, <2>4, <3>1, <3>2 DEF Single, Elsewhere
  <2>5. ASSUME Single(c) PROVE Single(c)'
    <3>1. ~InTodo(c)' /\ ~InRun(c)'
      BY <1>1, <1>3, <2>1, <2>5 DEF Single, Elsewhere, InTodo
    <3>2. ~InList(c) /\ c \notin txQueue /\ ~Ended(c)
      BY <2>1, <2>5 DEF Single
    <3>3. CASE FetchRetry(w)
      <4>1. /\ block_list' = block_list \cup {<<c, workers[w].rec + 1>>}
            /\ txQueue' = txQueue /\ fate' = fate
        BY <1>0, <3>3 DEF FetchRetry
      <4>2. \A e, f \in block_list' : e[1] = c /\ f[1] = c => e = f
        BY <3>2, <4>1 DEF InList
      <4>3. QED BY <1>1, <1>4, <2>1, <2>5, <3>1, <3>2, <4>1, <4>2 DEF Single, Elsewhere, Ended
    <3>4. CASE FetchMissed(w) \/ FetchDies(w)
      <4>1. block_list' = block_list /\ txQueue' = txQueue
        BY <3>4 DEF FetchMissed, FetchDies
      <4>2. ~InList(c)'
        BY <3>2, <4>1 DEF InList
      <4>3. QED BY <1>1, <1>4, <2>1, <2>5, <3>1, <3>2, <4>1, <4>2 DEF Single, Elsewhere
    <3>5. CASE Fetched(w)
      <4>1. /\ block_list' = block_list /\ fate' = fate
        BY <1>0, <3>5 DEF Fetched
      <4>2. ~InList(c)' /\ ~Ended(c)'
        BY <3>2, <4>1 DEF InList, Ended
      <4>3. QED BY <1>1, <1>4, <2>1, <2>5, <3>1, <3>2, <4>1, <4>2 DEF Single, Elsewhere
    <3>6. QED BY <1>6, <3>3, <3>4, <3>5 DEF Worker
  <2>6. \A a \in Blocks : Single(a) => Single(a)'
    BY <2>4, <2>5
  <2>7. QED BY <1>1, <1>3, <2>3, <2>6, FoundKeeps DEF PlaceInv, SingleInv, NamedOnce
<1>7. QED BY <1>5, <1>6 DEF Worker, FetchRetry, FetchMissed, FetchDies, Fetched

\* What the steps do that move no block.
LEMMA QuietSteps ==
  ASSUME TypeOK,
         \/ UNCHANGED vars \/ ExitCommand \/ (\E e \in Entries : BecomesDue(e))
         \/ ScanEnd \/ WalkOver \/ BatchWait \/ SkipWaits \/ RaisedHere \/ DrainEnd \/ WaitCheck
  PROVE  data' = data /\ skip' = skip /\ todo' = todo /\ SamePlaces /\ pairs' = pairs
<1> USE DEF args, list, wait, history, WaitsFor, SamePlaces
<1>1. CASE UNCHANGED vars \/ ExitCommand \/ (\E e \in Entries : BecomesDue(e))
  BY <1>1 DEF vars, ExitCommand, BecomesDue
<1>2. CASE ScanEnd \/ WalkOver \/ BatchWait
  BY <1>2 DEF ScanEnd, WalkOver, BatchWait
<1>3. CASE SkipWaits \/ RaisedHere
  BY <1>3 DEF SkipWaits, RaisedHere
<1>4. CASE DrainEnd \/ WaitCheck
  BY <1>4 DEF DrainEnd, WaitCheck
<1>5. QED BY <1>1, <1>2, <1>3, <1>4

LEMMA PlaceStep == TypeOK /\ PlaceInv /\ WaitInv /\ [Next]_vars => Stays /\ PlaceInv'
<1> SUFFICES ASSUME TypeOK, PlaceInv, WaitInv, [Next]_vars PROVE Stays /\ PlaceInv'
  OBVIOUS
<1>1. CASE \/ UNCHANGED vars \/ ExitCommand \/ (\E e \in Entries : BecomesDue(e))
           \/ ScanEnd \/ WalkOver \/ BatchWait \/ SkipWaits \/ RaisedHere \/ DrainEnd \/ WaitCheck
  <2>1. data' = data /\ skip' = skip /\ todo' = todo /\ SamePlaces
    BY <1>1, QuietSteps
  <2>2. QED BY <2>1, NothingMoves
<1>2. ASSUME NEW e \in Entries, NoWorkerForRetry(e) \/ \E w \in Workers : RetryStarts(e, w)
      PROVE  Stays /\ PlaceInv'
  BY <1>2, RetryMoves
<1>3. CASE NoWorker
  BY <1>3, NoWorkerMoves
<1>4. ASSUME NEW w \in Workers, StartBlock(w) PROVE Stays /\ PlaceInv'
  BY <1>4, StartMoves
<1>5. CASE FetchedHere \/ FailedHere
  BY <1>5, FetchMoves
<1>6. ASSUME NEW b \in Blocks,
             \/ ProcessTx(b) \/ ProcessPair(b) \/ LocksItself(b) \/ ProcessRaises(b) \/ ProcessMine(b)
      PROVE  Stays /\ PlaceInv'
  BY <1>6, ProcessMoves
<1>7. CASE FlushEnd
  BY <1>7, FlushMoves
<1>8. CASE WaitTimeout
  BY <1>8, TimeoutMoves
<1>9. ASSUME NEW w \in Workers, Worker(w) PROVE Stays /\ PlaceInv'
  BY <1>9, WorkerMoves
<1>10. QED BY <1>1, <1>2, <1>3, <1>4, <1>5, <1>6, <1>7, <1>8, <1>9 DEF Next, MainLoop

\* While a wait is under way the head of the walk waits for its end.
LEMMA WaitStep == TypeOK /\ PlaceInv /\ WaitInv /\ [Next]_vars => WaitInv'
<1> SUFFICES ASSUME TypeOK, PlaceInv, WaitInv, [Next]_vars PROVE WaitInv'
  OBVIOUS
<1>1. Stays /\ PlaceInv'
  BY PlaceStep
\* Neither the wait nor the walk moves.
<1>2. ASSUME pc' = pc, back' = back, todo' = todo, skip' = skip PROVE WaitInv'
  <2>1. CASE InWait /\ back = "pushed"
    <3>1. todo # <<>> /\ Elsewhere(Head(todo))
      BY <2>1 DEF WaitInv
    <3>2. PICK h \in Blocks : h = Head(todo)
      BY <3>1, TailOf DEF TypeOK
    <3>3. Elsewhere(h)' /\ h = Head(todo')
      BY <1>1, <1>2, <3>1, <3>2 DEF Stays
    <3>4. Elsewhere(Head(todo))'
      BY <3>3 DEF Elsewhere, InList, InRun, Ended
    <3>5. QED BY <1>2, <3>4 DEF WaitInv, InWait
  <2>2. CASE ~(InWait /\ back = "pushed")
    BY <1>2, <2>2 DEF WaitInv, InWait
  <2>3. QED BY <2>1, <2>2
\* No wait, and no fetch.
<1>3. ASSUME pc' \notin {"wait", "flush", "fetch"} PROVE WaitInv'
  BY <1>3 DEF WaitInv, InWait
<1> USE DEF args, list, wait, history
<1>4. CASE UNCHANGED vars \/ ExitCommand \/ (\E e \in Entries : BecomesDue(e))
  <2>1. pc' = pc /\ back' = back /\ todo' = todo /\ skip' = skip
    BY <1>4 DEF vars, ExitCommand, BecomesDue
  <2>2. QED BY <1>2, <2>1
<1>5. ASSUME NEW e \in Entries, NoWorkerForRetry(e) \/ \E w \in Workers : RetryStarts(e, w)
      PROVE  WaitInv'
  BY <1>3, <1>5 DEF NoWorkerForRetry, RetryStarts, Takes
<1>6. CASE ScanEnd \/ NoWorker \/ RaisedHere
  BY <1>3, <1>6 DEF ScanEnd, NoWorker, RaisedHere
<1>7. ASSUME NEW w \in Workers, StartBlock(w) PROVE WaitInv'
  BY <1>3, <1>7 DEF StartBlock
<1>8. CASE WalkOver
  BY <1>8 DEF WalkOver, WaitsFor, WaitInv, InWait
<1>9. CASE BatchWait
  BY <1>9 DEF BatchWait, WaitsFor, WaitInv, InWait
<1>10. CASE SkipWaits
  BY <1>10 DEF SkipWaits, WaitsFor, WaitInv, InWait, Places, TypeOK
<1>11. CASE FetchedHere \/ FailedHere
  <2>1. todo # <<>> /\ Elsewhere(Head(todo))' /\ todo' = todo
    BY <1>11, FetchMoves
  <2>2. pc = "fetch" /\ pc' = "wait" /\ back' = "pushed" /\ skip' = skip
    BY <1>11 DEF FetchedHere, FailedHere
  <2>3. skip
    BY <2>2 DEF WaitInv
  <2>4. QED BY <2>1, <2>2, <2>3 DEF WaitInv, InWait
<1>12. ASSUME NEW b \in Blocks,
              \/ ProcessTx(b) \/ ProcessPair(b) \/ LocksItself(b) \/ ProcessRaises(b) \/ ProcessMine(b)
       PROVE  WaitInv'
  <2>1. /\ todo' = todo /\ skip' = skip /\ back' = back
        /\ pc' = pc \/ pc' \in {"stuck", "drain", "crashed"}
    BY <1>12 DEF ProcessTx, ProcessPair, LocksItself, ProcessRaises, ProcessMine, TakesTx
  <2>2. QED BY <1>2, <1>3, <2>1
<1>13. CASE DrainEnd
  <2>1. CASE exiting
    BY <1>13, <2>1 DEF DrainEnd, WaitsFor, WaitInv, InWait
  <2>2. CASE ~exiting
    BY <1>3, <1>13, <2>2 DEF DrainEnd
  <2>3. QED BY <2>1, <2>2
<1>14. CASE WaitCheck
  <2>1. pc = "wait" /\ pc' = "flush" /\ back' = back /\ todo' = todo /\ skip' = skip
    BY <1>14 DEF WaitCheck
  <2>2. CASE back = "pushed"
    <3>1. todo # <<>> /\ Elsewhere(Head(todo)) /\ SamePlaces
      BY <1>14, <2>1, <2>2, QuietSteps DEF WaitInv, InWait
    <3>2. Elsewhere(Head(todo))'
      BY <2>1, <3>1 DEF Elsewhere, InList, InRun, Ended, SamePlaces
    <3>3. QED BY <2>1, <2>2, <3>1, <3>2 DEF WaitInv, InWait
  <2>3. CASE back # "pushed"
    BY <2>1, <2>3 DEF WaitInv, InWait
  <2>4. QED BY <2>2, <2>3
<1>15. ASSUME Returns, InWait, skip' = skip PROVE WaitInv'
  BY <1>15 DEF Returns, Advance, WaitInv, InWait, TypeOK
<1>16. CASE FlushEnd
  <2>1. CASE allFree
    BY <1>15, <1>16, <2>1 DEF FlushEnd, InWait
  <2>2. CASE ~allFree
    <3>1. pc = "flush" /\ pc' = "wait" /\ back' = back /\ todo' = todo /\ skip' = skip /\ SamePlaces
      BY <1>16, <2>2 DEF FlushEnd, SamePlaces
    <3>2. Elsewhere(Head(todo))' <=> Elsewhere(Head(todo))
      BY <3>1 DEF Elsewhere, InList, InRun, Ended, SamePlaces
    <3>3. QED BY <3>1, <3>2 DEF WaitInv, InWait
  <2>3. QED BY <2>1, <2>2
<1>17. CASE WaitTimeout
  BY <1>15, <1>17 DEF WaitTimeout, InWait
<1>18. ASSUME NEW w \in Workers, Worker(w) PROVE WaitInv'
  <2>1. pc' = pc /\ back' = back /\ todo' = todo /\ skip' = skip
    BY <1>18 DEF Worker, OwnJobDone, FetchRetry, FetchMissed, FetchDies, Fetched, Leaves
  <2>2. QED BY <1>2, <2>1
<1>19. QED BY <1>4, <1>5, <1>6, <1>7, <1>8, <1>9, <1>10, <1>11, <1>12, <1>13, <1>14, <1>16,
              <1>17, <1>18 DEF Next, MainLoop

\* The end of a block is for good, and a pair is only written at its end.
LEMMA PairsStep == TypeOK /\ WaitInv /\ PlaceInv /\ PairsInv /\ [Next]_vars => PairsInv'
<1> SUFFICES ASSUME TypeOK, WaitInv, PlaceInv, PairsInv, [Next]_vars PROVE PairsInv'
  OBVIOUS
<1>1. ASSUME NEW b \in Blocks, NEW how \in {"done", "skipped", "dropped", "missed", "killed", "died"},
             Ends(b, how), pairs' \in {pairs, pairs \cup {b}}
      PROVE  PairsInv'
  BY <1>1, EndsType DEF PairsInv, Ended, TypeOK
<1>2. ASSUME fate' = fate, pairs' = pairs PROVE PairsInv'
  BY <1>2 DEF PairsInv, Ended
<1>3. CASE \/ UNCHANGED vars \/ ExitCommand \/ (\E e \in Entries : BecomesDue(e))
           \/ ScanEnd \/ WalkOver \/ BatchWait \/ SkipWaits \/ RaisedHere \/ DrainEnd \/ WaitCheck
  BY <1>2, <1>3, QuietSteps DEF SamePlaces
<1>4. ASSUME NEW e \in Entries, NoWorkerForRetry(e) PROVE PairsInv'
  BY <1>1, <1>4 DEF NoWorkerForRetry, Takes, Entries
<1>5. ASSUME NEW e \in Entries, NEW w \in Workers, RetryStarts(e, w) PROVE PairsInv'
  BY <1>2, <1>5 DEF RetryStarts, Takes
<1>6. CASE NoWorker
  <2>1. Head(todo) \in Blocks
    BY <1>6, TailOf DEF NoWorker, Places, TypeOK
  <2>2. QED BY <1>1, <1>6, <2>1 DEF NoWorker
<1>7. ASSUME NEW w \in Workers, StartBlock(w) PROVE PairsInv'
  BY <1>2, <1>7 DEF StartBlock, history
<1>8. CASE FetchedHere \/ FailedHere \/ FlushEnd
  BY <1>2, <1>8 DEF FetchedHere, FailedHere, FlushEnd, history
<1>9. ASSUME NEW b \in Blocks,
             \/ ProcessTx(b) \/ ProcessPair(b) \/ LocksItself(b) \/ ProcessRaises(b) \/ ProcessMine(b)
      PROVE  PairsInv'
  <2>1. Ends(b, "done") /\ pairs' \in {pairs, pairs \cup {b}}
    BY <1>9 DEF ProcessTx, ProcessPair, LocksItself, ProcessRaises, ProcessMine
  <2>2. QED BY <1>1, <2>1
<1>10. CASE WaitTimeout
  BY <1>10 DEF WaitTimeout, PairsInv, Ended, TypeOK
<1>11. ASSUME NEW w \in Workers, Worker(w) PROVE PairsInv'
  <2>1. pairs' = pairs
    BY <1>11 DEF Worker, OwnJobDone, FetchRetry, FetchMissed, FetchDies, Fetched, Leaves
  <2>2. \/ fate' = fate
        \/ \E b \in Blocks : Ends(b, "missed") \/ Ends(b, "died")
    BY <1>11 DEF Worker, OwnJobDone, FetchRetry, FetchMissed, FetchDies, Fetched, HasBlock
  <2>3. QED BY <1>1, <1>2, <2>1, <2>2
<1>12. QED BY <1>3, <1>4, <1>5, <1>6, <1>7, <1>8, <1>9, <1>10, <1>11 DEF Next, MainLoop

\* A wait that has seen all workers free starts none with a block, and ends at
\* an empty queue.
LEMMA FreeStep == TypeOK /\ PlaceInv /\ WaitInv /\ FreeInv /\ [Next]_vars => FreeInv'
<1> SUFFICES ASSUME TypeOK, PlaceInv, WaitInv, FreeInv, [Next]_vars, pc' = "flush", allFree'
             PROVE  \A b \in Blocks : ~InRun(b)'
  BY DEF FreeInv
<1> USE DEF args, list, wait, history
<1>1. ASSUME pc = "flush", allFree' = allFree, \A b \in Blocks : InRun(b)' => InRun(b)
      PROVE  \A b \in Blocks : ~InRun(b)'
  BY <1>1 DEF FreeInv
<1>2. CASE UNCHANGED vars \/ ExitCommand \/ (\E e \in Entries : BecomesDue(e))
  <2>1. pc' = pc /\ allFree' = allFree
    BY <1>2 DEF vars, ExitCommand, BecomesDue
  <2>2. workers' = workers
    BY <1>2, QuietSteps DEF SamePlaces
  <2>3. QED BY <1>1, <2>1, <2>2 DEF InRun
<1>3. CASE WaitCheck
  <2>1. (allFree' <=> \A w \in Workers : Free(w)) /\ workers' = workers
    BY <1>3 DEF WaitCheck
  <2>2. QED BY <2>1, JobNumbers DEF InRun
<1>4. ASSUME NEW b \in Blocks,
             \/ ProcessTx(b) \/ ProcessPair(b) \/ LocksItself(b) \/ ProcessRaises(b) \/ ProcessMine(b)
      PROVE  \A a \in Blocks : ~InRun(a)'
  <2>1. pc = "flush" /\ allFree' = allFree
    BY <1>4 DEF ProcessTx, ProcessPair, LocksItself, ProcessRaises, ProcessMine, TakesTx
  <2>2. \A a \in Blocks : InRun(a)' <=> InRun(a)
    BY <1>4, ProcessMoves
  <2>3. QED BY <1>1, <2>1, <2>2
<1>5. ASSUME NEW w \in Workers, Worker(w) PROVE \A a \in Blocks : ~InRun(a)'
  <2>1. pc' = pc /\ allFree' = allFree
    BY <1>5 DEF Worker, OwnJobDone, FetchRetry, FetchMissed, FetchDies, Fetched, Leaves
  <2>2. \A a \in Blocks : InRun(a)' => InRun(a)
    BY <1>5, WorkerMoves
  <2>3. QED BY <1>1, <2>1, <2>2
<1>6. ~FlushEnd
  BY DEF FlushEnd, Returns, Advance, TypeOK
<1>7. ~WaitTimeout
  BY DEF WaitTimeout, Returns, Advance, TypeOK
<1>8. ~(ScanEnd \/ WalkOver \/ BatchWait \/ NoWorker \/ SkipWaits \/ FetchedHere \/ FailedHere
        \/ RaisedHere \/ DrainEnd \/ \E w \in Workers : StartBlock(w))
  BY DEF ScanEnd, WalkOver, BatchWait, NoWorker, SkipWaits, FetchedHere, FailedHere, RaisedHere,
         DrainEnd, StartBlock, WaitsFor
<1>9. \A e \in Entries : ~NoWorkerForRetry(e) /\ \A w \in Workers : ~RetryStarts(e, w)
  BY DEF NoWorkerForRetry, RetryStarts, Takes
<1>10. QED BY <1>2, <1>3, <1>4, <1>5, <1>6, <1>7, <1>8, <1>9 DEF Next, MainLoop

\* No worker starts a block any more when the walk is over.
LEMMA TailStep ==
  TypeOK /\ PlaceInv /\ WaitInv /\ FreeInv /\ TailIsDrained /\ [Next]_vars => TailIsDrained'
<1> SUFFICES ASSUME TypeOK, PlaceInv, WaitInv, FreeInv, TailIsDrained, [Next]_vars,
                    pc' = "end", ~timedOut'
             PROVE  txQueue' = {} /\ Running' = {}
  BY DEF TailIsDrained
<1> USE DEF args, list, wait, history
<1>0. TypeOK'
  BY StepType
<1>1. ASSUME txQueue = {}, txQueue' = {}, \A b \in Blocks : ~InRun(b)'
      PROVE  txQueue' = {} /\ Running' = {}
  <2>1. \A w \in Workers : workers'[w].num \in Blocks \cup {-1}
    <3>1. \A j \in Jobs : j.num \in Blocks \cup {-1}
      BY DEF Jobs, NoJob, OwnJob
    <3>2. QED BY <1>0, <3>1 DEF TypeOK
  <2>2. QED BY <1>1, <2>1 DEF Running, InRun
<1>2. ASSUME pc = "end", ~timedOut PROVE txQueue = {} /\ \A b \in Blocks : ~InRun(b)
  BY <1>2, JobNumbers DEF TailIsDrained
<1>3. CASE UNCHANGED vars \/ ExitCommand \/ (\E e \in Entries : BecomesDue(e))
  <2>1. pc = "end" /\ ~timedOut
    BY <1>3 DEF vars, ExitCommand, BecomesDue
  <2>2. workers' = workers /\ txQueue' = txQueue
    BY <1>3, QuietSteps DEF SamePlaces
  <2>3. QED BY <1>1, <1>2, <2>1, <2>2 DEF InRun
<1>4. CASE FlushEnd
  <2>1. txQueue = {} /\ txQueue' = {} /\ workers' = workers /\ pc = "flush" /\ allFree
    BY <1>4 DEF FlushEnd
  <2>2. QED BY <1>1, <2>1 DEF FreeInv, InRun
<1>5. ASSUME NEW w \in Workers, Worker(w) PROVE txQueue' = {} /\ Running' = {}
  <2>1. pc = "end" /\ ~timedOut
    BY <1>5 DEF Worker, OwnJobDone, FetchRetry, FetchMissed, FetchDies, Fetched, Leaves
  <2>2. txQueue = {} /\ (~InRun(workers[w].num) \/ workers[w].num \notin Blocks)
    BY <1>2, <2>1
  <2>3. ~HasBlock(w)
    BY <2>2 DEF HasBlock, InRun
  <2>4. txQueue' = txQueue
    BY <1>5, <2>3 DEF Worker, OwnJobDone, FetchRetry, FetchMissed, FetchDies, Fetched
  <2>5. \A a \in Blocks : InRun(a)' => InRun(a)
    BY <1>5, WorkerMoves
  <2>6. QED BY <1>1, <1>2, <2>1, <2>4, <2>5
<1>6. ~WaitTimeout
  BY DEF WaitTimeout
<1>7. ~(ScanEnd \/ WalkOver \/ BatchWait \/ NoWorker \/ SkipWaits \/ FetchedHere \/ FailedHere
        \/ RaisedHere \/ DrainEnd \/ WaitCheck \/ \E w \in Workers : StartBlock(w))
  BY DEF ScanEnd, WalkOver, BatchWait, NoWorker, SkipWaits, FetchedHere, FailedHere, RaisedHere,
         DrainEnd, WaitCheck, StartBlock, WaitsFor
<1>8. \A e \in Entries : ~NoWorkerForRetry(e) /\ \A w \in Workers : ~RetryStarts(e, w)
  BY DEF NoWorkerForRetry, RetryStarts, Takes
<1>9. \A b \in Blocks : /\ ~ProcessTx(b) /\ ~ProcessPair(b) /\ ~LocksItself(b)
                        /\ ~ProcessRaises(b) /\ ~ProcessMine(b)
  BY DEF ProcessTx, ProcessPair, LocksItself, ProcessRaises, ProcessMine, TakesTx
<1>10. QED BY <1>3, <1>4, <1>5, <1>6, <1>7, <1>8, <1>9 DEF Next, MainLoop
-----------------------------------------------------------------------------
LEMMA InvInit == Init => IInv
<1> SUFFICES ASSUME Init PROVE IInv
  OBVIOUS
<1>1. TypeOK
  BY TypeInit
<1>2. /\ pc = "scan" /\ block_list = {} /\ txQueue = {} /\ pairs = {} /\ todo = WalkOf(data)
      /\ \A w \in Workers : workers[w].num = -1
      /\ \A b \in Blocks : ~Ended(b)
  BY DEF Init, Ended, NoJob
<1>3. \A b \in Blocks : ~InRun(b) /\ ~InList(b) /\ ~Elsewhere(b)
  BY <1>1, <1>2, JobNumbers DEF InRun, InList, Elsewhere
<1>4. WaitInv /\ FreeInv /\ TailIsDrained /\ PairsInv
  BY <1>2 DEF WaitInv, InWait, FreeInv, TailIsDrained, PairsInv
<1>5. FoundInv
  BY <1>2 DEF FoundInv, Walked, InTodo
<1>6. \A b \in Blocks : NamedOnce(b) => Single(b)
  BY <1>2, <1>3 DEF NamedOnce, Single, InRun
<1>7. QED BY <1>1, <1>4, <1>5, <1>6 DEF IInv, SingleInv

LEMMA InvStep == IInv /\ [Next]_vars => IInv'
<1> SUFFICES ASSUME IInv, [Next]_vars PROVE IInv'
  OBVIOUS
<1>1. TypeOK /\ WaitInv /\ PlaceInv /\ PairsInv /\ FreeInv /\ TailIsDrained
  BY DEF IInv, PlaceInv
<1>2. TypeOK' /\ PlaceInv' /\ WaitInv' /\ PairsInv' /\ FreeInv' /\ TailIsDrained'
  BY <1>1, StepType, PlaceStep, WaitStep, PairsStep, FreeStep, TailStep
<1>3. QED BY <1>2 DEF IInv, PlaceInv

LEMMA Invariance == Spec => []IInv
BY InvInit, InvStep, PTL DEF Spec

LEMMA AccountedFor == IInv => Accounted
<1> SUFFICES ASSUME IInv, NEW b \in Walked
             PROVE  /\ PlacesOf(b) # {}
                    /\ skip \/ ~NamedOnce(b) \/ (/\ Cardinality(PlacesOf(b)) = 1
                                                 /\ b \in pairs => PlacesOf(b) = {"end"})
  BY DEF Accounted
<1>1. TypeOK /\ FoundInv /\ SingleInv /\ PairsInv
  BY DEF IInv
<1>2. b \in Blocks
  BY <1>1, WalkedAreBlocks
<1>3. /\ "todo" \in PlacesOf(b) <=> InTodo(b)
      /\ "list" \in PlacesOf(b) <=> InList(b)
      /\ "running" \in PlacesOf(b) <=> InRun(b)
      /\ "queue" \in PlacesOf(b) <=> b \in txQueue
      /\ "end" \in PlacesOf(b) <=> Ended(b)
      /\ PlacesOf(b) \subseteq {"todo", "list", "running", "queue", "end"}
  BY <1>1, <1>2, JobNumbers DEF PlacesOf, InTodo, InList, Ended
<1>4. PlacesOf(b) # {}
  BY <1>1, <1>3 DEF FoundInv, Elsewhere
<1>5. ASSUME ~skip, NamedOnce(b)
      PROVE  Cardinality(PlacesOf(b)) = 1 /\ (b \in pairs => PlacesOf(b) = {"end"})
  <2>1. Single(b)
    BY <1>1, <1>2, <1>5 DEF SingleInv
  <2>2. \A x, y \in PlacesOf(b) : x = y
    BY <1>3, <2>1 DEF Single, Elsewhere
  <2>3. PICK x : PlacesOf(b) = {x}
    BY <1>4, <2>2
  <2>4. Cardinality(PlacesOf(b)) = 1
    BY <2>3, FS_Singleton
  <2>5. b \in pairs => "end" \in PlacesOf(b)
    BY <1>1, <1>3 DEF PairsInv
  <2>6. QED BY <2>3, <2>4, <2>5
<1>6. QED BY <1>4, <1>5
-----------------------------------------------------------------------------
\* For any calls, blocks, workers and bounds: the types hold, no block of the
\* walk vanishes without one of the causes the code logs, none is in two places,
\* and one whose pair is in lppair_list.txt never comes up again.
THEOREM BlocksAreAccounted == Spec => []Inv
<1>1. IInv => Inv
  BY AccountedFor DEF IInv, Inv
<1>2. QED BY <1>1, Invariance, PTL

\* When the walk is over every block that was started is worked off, unless a
\* wait has timed out.
THEOREM TailDrained == Spec => []TailIsDrained
<1>1. IInv => TailIsDrained
  BY DEF IInv
<1>2. QED BY <1>1, Invariance, PTL
-----------------------------------------------------------------------------
(* Why no block is passed over: since the last wait of the walk, which has *)
(* left no worker busy, fewer than Every blocks have taken one.            *)

\* The walk goes up, or down from the second number to 1.
Downwards == Len(data) = 2 /\ data[1] = 0 /\ data[2] > 0

Consecutive ==
  ~Listed => \A i \in 1 .. Len(todo) - 1 :
               todo[i + 1] = IF Downwards THEN todo[i] - 1 ELSE todo[i] + 1

Busy == {w \in Workers : ~Free(w)}

\* The blocks since the last one the walk has waited at.
Since(h) == IF Downwards THEN Every - (h % Every) ELSE h % Every

NoOtherCause == ~Listed /\ ~others /\ Cardinality(Workers) >= Every

FewBusy == \A h \in Blocks : todo # <<>> /\ h = Head(todo) /\ h % Every # 0 =>
                               Cardinality(Busy) <= Since(h)

NoneSkipped == \A b \in Blocks : fate[b] # "skipped"

RestInv ==
  /\ skip \/ pc = "place" \/ (pc = "flush" /\ allFree) => Busy = {}
  /\ pc = "place" \/ (InWait /\ back = "place") =>
       todo # <<>> /\ \A h \in Blocks : h = Head(todo) => h % Every = 0

BusyInv == NoOtherCause => NoneSkipped /\ FewBusy /\ RestInv

LEMMA ModUnique ==
  ASSUME NEW e \in Int, NEW k \in Int, NEW r \in 0 .. e - 1
  PROVE  (e * k + r) % e = r
BY SMT

LEMMA ModParts ==
  ASSUME NEW n \in Int, NEW e \in Int, e > 0
  PROVE  n \div e \in Int /\ n % e \in 0 .. e - 1 /\ n = e * (n \div e) + (n % e)
<1>1. n \div e \in Int
  BY Z3
<1>2. n % e \in 0 .. e - 1
  BY SMT
<1>3. n % e = n - (n \div e) * e
  BY SMT
<1>4. (n \div e) * e = e * (n \div e) /\ (n \div e) * e \in Int
  BY <1>1
<1>5. QED BY <1>1, <1>2, <1>3, <1>4

LEMMA ModNext ==
  ASSUME NEW n \in Int, NEW e \in Int, e > 0
  PROVE  (n + 1) % e = IF n % e = e - 1 THEN 0 ELSE (n % e) + 1
<1> DEFINE k == n \div e
           r == n % e
<1>1. k \in Int /\ r \in 0 .. e - 1 /\ n = e * k + r
  BY ModParts
<1> HIDE DEF k, r
<1>2. e * k \in Int /\ e * (k + 1) = e * k + e
  BY <1>1
<1>3. CASE r = e - 1
  <2>1. n + 1 = e * (k + 1) + 0 /\ k + 1 \in Int /\ 0 \in 0 .. e - 1
    BY <1>1, <1>2, <1>3
  <2>2. (e * (k + 1) + 0) % e = 0
    BY <2>1, ModUnique
  <2>3. QED BY <1>3, <2>1, <2>2 DEF r
<1>4. CASE r # e - 1
  <2>1. n + 1 = e * k + (r + 1) /\ r + 1 \in 0 .. e - 1
    BY <1>1, <1>2, <1>4
  <2>2. (e * k + (r + 1)) % e = r + 1
    BY <1>1, <2>1, ModUnique
  <2>3. QED BY <1>4, <2>1, <2>2 DEF r
<1>5. QED BY <1>3, <1>4

LEMMA ModPrev ==
  ASSUME NEW n \in Int, NEW e \in Int, e > 0
  PROVE  (n - 1) % e = IF n % e = 0 THEN e - 1 ELSE (n % e) - 1
<1> DEFINE r == (n - 1) % e
<1>1. r \in 0 .. e - 1 /\ n - 1 \in Int /\ n - 1 + 1 = n
  BY ModParts
<1>2. n % e = IF r = e - 1 THEN 0 ELSE r + 1
  <2>1. ((n - 1) + 1) % e = IF (n - 1) % e = e - 1 THEN 0 ELSE ((n - 1) % e) + 1
    BY <1>1, ModNext
  <2>2. QED BY <1>1, <2>1
<1>3. QED BY <1>1, <1>2

\* One block on, the distance from the last wait is one more.
LEMMA SinceNext ==
  ASSUME NEW h \in Int, NEW g \in Int, g = (IF Downwards THEN h - 1 ELSE h + 1), g % Every # 0
  PROVE  /\ Since(g) \in Int /\ Since(h) \in Int
         /\ h % Every = 0 => Since(g) = 1
         /\ h % Every # 0 => Since(g) = Since(h) + 1
<1>1. Every \in Int /\ Every > 0
  BY ReplayAssumption
<1>2. h % Every \in 0 .. Every - 1 /\ g % Every \in 0 .. Every - 1
  BY <1>1, ModParts
<1>3. CASE Downwards
  <2>1. g % Every = IF h % Every = 0 THEN Every - 1 ELSE (h % Every) - 1
    BY <1>1, <1>3, ModPrev
  <2>2. QED BY <1>1, <1>2, <1>3, <2>1 DEF Since
<1>4. CASE ~Downwards
  <2>1. g % Every = IF h % Every = Every - 1 THEN 0 ELSE (h % Every) + 1
    BY <1>1, <1>4, ModNext
  <2>2. QED BY <1>1, <1>2, <1>4, <2>1 DEF Since
<1>5. QED BY <1>3, <1>4

LEMMA SinceBound ==
  ASSUME NEW h \in Int
  PROVE  Since(h) \in Nat /\ (h % Every # 0 => Since(h) < Every)
<1>1. Every \in Int /\ Every > 0
  BY ReplayAssumption
<1>2. h % Every \in 0 .. Every - 1
  BY <1>1, ModParts
<1>3. QED BY <1>1, <1>2 DEF Since

LEMMA BusyIsFinite ==
  ASSUME NEW S \in SUBSET Workers, NEW T \in SUBSET S
  PROVE  Cardinality(S) \in Nat /\ Cardinality(T) \in Nat /\ Cardinality(T) <= Cardinality(S)
<1>1. IsFiniteSet(S)
  BY ReplayAssumption, FS_Subset
<1>2. QED BY <1>1, FS_Subset, FS_CardinalityType

LEMMA ConsecutiveInit == Init => Consecutive
<1> SUFFICES ASSUME Init, ~Listed, NEW i \in 1 .. Len(todo) - 1
             PROVE  todo[i + 1] = IF Downwards THEN todo[i] - 1 ELSE todo[i] + 1
  BY DEF Consecutive
<1>1. /\ data \in Inputs /\ todo = WalkOf(data) /\ todo \in Seq(Blocks)
      /\ Len(data) \in 1 .. 2
  <2>1. data \in Inputs /\ todo = WalkOf(data)
    BY DEF Init
  <2>2. Len(data) \in Nat \ {0} /\ ~(Len(data) > 2)
    BY <2>1, InputIsWalk DEF Listed
  <2>3. Len(data) \in 1 .. 2
    <3>1. \A n \in Nat \ {0} : ~(n > 2) => n \in 1 .. 2
      OBVIOUS
    <3>2. QED BY <2>2, <3>1
  <2>4. todo \in Seq(Blocks)
    BY <2>1, WalkIsSeq
  <2>5. QED BY <2>1, <2>3, <2>4
<1>2. i \in DOMAIN todo /\ i + 1 \in DOMAIN todo /\ i \in Int
  BY <1>1, LenProperties
<1>3. CASE Downwards
  <2>1. todo = [j \in 1 .. data[2] |-> data[2] - j + 1] /\ data[2] \in Int
    BY <1>1, <1>3, InputIsWalk DEF WalkOf, Downwards, Blocks
  <2>2. QED BY <1>2, <1>3, <2>1
<1>4. CASE ~Downwards
  <2>1. /\ todo = [j \in 1 .. data[Len(data)] - data[1] + 1 |-> data[1] + j - 1]
        /\ data[1] \in Int
    BY <1>1, <1>4, InputIsWalk DEF WalkOf, WalkForward, Downwards, Blocks
  <2>2. QED BY <1>2, <1>4, <2>1
<1>5. QED BY <1>3, <1>4

\* A step leaves the walk alone or goes on by one block.
LEMMA WalkSteps ==
  ASSUME TypeOK, WaitInv, [Next]_vars
  PROVE  /\ data' = data /\ skip' = skip /\ (others => others')
         /\ todo' = todo \/ (todo # <<>> /\ todo' = Tail(todo))
<1> USE DEF args, list, wait, history
<1>1. CASE UNCHANGED vars \/ ExitCommand \/ \E e \in Entries : BecomesDue(e)
  BY <1>1 DEF vars, ExitCommand, BecomesDue
<1>2. ASSUME NEW e \in Entries, NoWorkerForRetry(e) \/ \E w \in Workers : RetryStarts(e, w)
      PROVE  data' = data /\ skip' = skip /\ (others => others') /\ todo' = todo
  BY <1>2 DEF NoWorkerForRetry, RetryStarts, Takes
<1>3. CASE ScanEnd \/ WalkOver \/ BatchWait \/ SkipWaits \/ RaisedHere \/ DrainEnd \/ WaitCheck
  <2>1. others' = others
    <3>1. CASE ScanEnd \/ WalkOver \/ BatchWait \/ SkipWaits
      BY <1>3, <3>1 DEF ScanEnd, WalkOver, BatchWait, SkipWaits, WaitsFor
    <3>2. CASE RaisedHere \/ DrainEnd \/ WaitCheck
      BY <1>3, <3>2 DEF RaisedHere, DrainEnd, WaitCheck, WaitsFor
    <3>3. QED BY <1>3, <3>1, <3>2
  <2>2. QED BY <1>3, <2>1, QuietSteps
<1>4. CASE NoWorker \/ \E w \in Workers : StartBlock(w)
  BY <1>4 DEF NoWorker, StartBlock, Places, Advance, TypeOK
<1>5. CASE FetchedHere \/ FailedHere
  BY <1>5 DEF FetchedHere, FailedHere
<1>6. ASSUME NEW b \in Blocks,
             \/ ProcessTx(b) \/ ProcessPair(b) \/ LocksItself(b) \/ ProcessRaises(b) \/ ProcessMine(b)
      PROVE  data' = data /\ skip' = skip /\ (others => others') /\ todo' = todo
  BY <1>6 DEF ProcessTx, ProcessPair, LocksItself, ProcessRaises, ProcessMine, TakesTx
<1>7. CASE FlushEnd \/ WaitTimeout
  BY <1>7 DEF FlushEnd, WaitTimeout, Returns, Advance, WaitInv, InWait
<1>8. ASSUME NEW w \in Workers, Worker(w)
      PROVE  data' = data /\ skip' = skip /\ (others => others') /\ todo' = todo
  BY <1>8 DEF Worker, OwnJobDone, FetchRetry, FetchMissed, FetchDies, Fetched, Leaves
<1>9. QED BY <1>1, <1>2, <1>3, <1>4, <1>5, <1>6, <1>7, <1>8 DEF Next, MainLoop

LEMMA ConsecutiveStep == TypeOK /\ WaitInv /\ Consecutive /\ [Next]_vars => Consecutive'
<1> SUFFICES ASSUME TypeOK, WaitInv, Consecutive, [Next]_vars, ~Listed,
                    NEW i \in 1 .. Len(todo') - 1
             PROVE  todo'[i + 1] = IF Downwards THEN todo'[i] - 1 ELSE todo'[i] + 1
  BY WalkSteps DEF Consecutive, Listed, Downwards
<1>1. todo' = todo \/ (todo # <<>> /\ todo' = Tail(todo))
  BY WalkSteps
<1>2. CASE todo' = todo
  BY <1>2 DEF Consecutive
<1>3. CASE todo # <<>> /\ todo' = Tail(todo)
  <2>1. /\ Len(todo) \in Nat /\ Len(todo') = Len(todo) - 1
        /\ \A j \in 1 .. Len(todo) - 1 : todo'[j] = todo[j + 1]
    BY <1>3, TailOf DEF TypeOK
  <2>2. i + 1 \in 1 .. Len(todo) - 1 /\ i \in 1 .. Len(todo) - 1
    BY <2>1
  <2>3. todo'[i] = todo[i + 1] /\ todo'[i + 1] = todo[(i + 1) + 1]
    BY <2>1, <2>2
  <2>4. QED BY <2>2, <2>3 DEF Consecutive
<1>4. QED BY <1>1, <1>2, <1>3

\* No further worker is busy, and the walk stays where it is.
LEMMA FewerBusy ==
  ASSUME data' = data, todo' = todo, Busy' \subseteq Busy, FewBusy
  PROVE  FewBusy'
<1> SUFFICES ASSUME NEW h \in Blocks, todo # <<>>, h = Head(todo), h % Every # 0
             PROVE  Cardinality(Busy') <= Since(h)
  BY DEF FewBusy, Since, Downwards
<1>1. Cardinality(Busy) <= Since(h)
  BY DEF FewBusy
<1>2. Busy \in SUBSET Workers
  BY DEF Busy
<1>3. Cardinality(Busy) \in Nat /\ Cardinality(Busy') \in Nat /\ Cardinality(Busy') <= Cardinality(Busy)
  BY <1>2, BusyIsFinite
<1>4. Since(h) \in Nat
  <2>1. h \in Int
    BY ReplayAssumption DEF Blocks
  <2>2. QED BY <2>1, SinceBound
<1>5. \A k, m, n \in Nat : k <= m /\ m <= n => k <= n
  OBVIOUS
<1>6. QED BY <1>1, <1>3, <1>4, <1>5

\* None is busy.
LEMMA NoneBusy ==
  ASSUME TypeOK', Busy' = {}
  PROVE  FewBusy'
<1> SUFFICES ASSUME NEW h \in Blocks PROVE Cardinality(Busy') <= Since(h)'
  BY DEF FewBusy
<1>1. Cardinality(Busy') = 0
  BY FS_EmptySet
<1>2. h \in Int /\ Every \in Int /\ Every > 0
  BY ReplayAssumption DEF Blocks
<1>3. h % Every \in 0 .. Every - 1
  BY <1>2, ModParts
<1>4. Since(h)' \in Nat
  BY <1>2, <1>3 DEF Since
<1>5. QED BY <1>1, <1>4

\* A worker takes the next block.
LEMMA StartIsOneMore ==
  ASSUME TypeOK, Consecutive, NoOtherCause, FewBusy, RestInv,
         NEW w \in Workers, StartBlock(w), TypeOK'
  PROVE  FewBusy'
<1> SUFFICES ASSUME NEW g \in Blocks, todo' # <<>>, g = Head(todo'), g % Every # 0
             PROVE  Cardinality(Busy') <= Since(g)
  BY DEF FewBusy, Since, Downwards, StartBlock, args
<1>1. /\ todo # <<>> /\ todo' = Tail(todo) /\ Free(w) /\ ~Listed
      /\ workers' = [workers EXCEPT ![w] = Job(Head(todo), 0)]
      /\ pc = "place" \/ ~MustWait
  BY DEF StartBlock, Places, Advance, NoOtherCause, TypeOK
<1>2. PICK h \in Blocks : h = Head(todo)
  BY <1>1, TailOf DEF TypeOK
<1>3. g = (IF Downwards THEN h - 1 ELSE h + 1) /\ h \in Int /\ g \in Int
  <2>1. /\ Head(todo) = todo[1] /\ Len(todo) \in Nat \ {0} /\ Len(todo') = Len(todo) - 1
        /\ \A j \in 1 .. Len(todo) - 1 : todo'[j] = todo[j + 1]
    BY <1>1, TailOf DEF TypeOK
  <2>2. Head(todo') = todo'[1] /\ Len(todo') \in Nat \ {0}
    BY TailOf DEF TypeOK
  <2>3. g = todo[2] /\ 1 \in 1 .. Len(todo) - 1
    BY <2>1, <2>2
  <2>4. todo[1 + 1] = IF Downwards THEN todo[1] - 1 ELSE todo[1] + 1
    BY <1>1, <2>3 DEF Consecutive
  <2>5. h \in Int /\ g \in Int
    BY ReplayAssumption DEF Blocks
  <2>6. QED BY <1>2, <2>1, <2>3, <2>4, <2>5
<1>4. Busy' = Busy \cup {w} /\ w \notin Busy /\ Busy \in SUBSET Workers
  <2>1. Job(h, 0) # NoJob
    BY JobNumbers DEF Job
  <2>2. \A v \in Workers : workers'[v] = IF v = w THEN Job(h, 0) ELSE workers[v]
    BY <1>1, <1>2 DEF TypeOK
  <2>3. QED BY <1>1, <2>1, <2>2 DEF Busy, Free
<1>5. Cardinality(Busy) \in Nat /\ Cardinality(Busy') = Cardinality(Busy) + 1
  <2>1. IsFiniteSet(Busy)
    BY <1>4, ReplayAssumption, FS_Subset
  <2>2. QED BY <1>4, <2>1, FS_AddElement, FS_CardinalityType
<1>6. CASE h % Every = 0
  <2>1. pc = "place"
    BY <1>1, <1>2, <1>6 DEF MustWait
  <2>2. Cardinality(Busy) = 0
    BY <2>1, FS_EmptySet DEF RestInv
  <2>3. QED BY <1>3, <1>5, <1>6, <2>2, SinceNext
<1>7. CASE h % Every # 0
  <2>1. Cardinality(Busy) <= Since(h)
    BY <1>1, <1>2, <1>7 DEF FewBusy
  <2>2. QED BY <1>3, <1>5, <1>7, <2>1, SinceNext
<1>8. QED BY <1>6, <1>7

\* Some worker is free wherever the walk places a block.
LEMMA WorkersSuffice ==
  ASSUME TypeOK, NoOtherCause, FewBusy, RestInv
  PROVE  ~NoWorker
<1> SUFFICES ASSUME NoWorker PROVE FALSE
  OBVIOUS
<1>1. Busy = Workers /\ todo # <<>> /\ Places
  BY DEF NoWorker, Places, Busy, TypeOK
<1>2. Cardinality(Workers) \in Nat /\ Cardinality(Workers) >= Every /\ Every \in Nat \ {0}
  BY BusyIsFinite, ReplayAssumption DEF NoOtherCause
<1>3. Busy # {}
  <2>1. Cardinality({}) = 0
    BY FS_EmptySet
  <2>2. Workers # {}
    BY <1>2, <2>1
  <2>3. QED BY <1>1, <2>2
<1>4. PICK h \in Blocks : h = Head(todo)
  BY <1>1, TailOf DEF TypeOK
<1>5. h % Every # 0
  BY <1>1, <1>3, <1>4 DEF Places, RestInv, MustWait, NoOtherCause
<1>6. Cardinality(Workers) <= Since(h)
  BY <1>1, <1>4, <1>5 DEF FewBusy
<1>7. h \in Int
  BY ReplayAssumption DEF Blocks
<1>8. QED BY <1>2, <1>5, <1>6, <1>7, SinceBound

LEMMA BusyStep ==
  TypeOK /\ WaitInv /\ Consecutive /\ BusyInv /\ [Next]_vars => BusyInv'
<1> SUFFICES ASSUME TypeOK, WaitInv, Consecutive, BusyInv, [Next]_vars, NoOtherCause'
             PROVE  NoneSkipped' /\ FewBusy' /\ RestInv'
  BY DEF BusyInv
<1>0. TypeOK' /\ data' = data /\ skip' = skip /\ (others => others')
  BY StepType, WalkSteps
<1>1. NoOtherCause /\ ~others'
  BY <1>0 DEF NoOtherCause, Listed
<1>2. NoneSkipped /\ FewBusy /\ RestInv
  BY <1>1 DEF BusyInv
<1> USE DEF args, list, wait, history
<1>3. ASSUME todo' = todo, Busy' \subseteq Busy, pc' = pc, back' = back, allFree' = allFree
      PROVE  FewBusy' /\ RestInv'
  <2>1. FewBusy'
    BY <1>0, <1>2, <1>3, FewerBusy
  <2>2. RestInv'
    BY <1>0, <1>2, <1>3 DEF RestInv, InWait
  <2>3. QED BY <2>1, <2>2
<1>4. ASSUME workers' = workers PROVE Busy' = Busy
  BY <1>4 DEF Busy, Free
<1>5. CASE UNCHANGED vars \/ ExitCommand \/ \E e \in Entries : BecomesDue(e)
  <2>1. /\ todo' = todo /\ pc' = pc /\ back' = back /\ allFree' = allFree
        /\ workers' = workers /\ fate' = fate
    BY <1>5 DEF vars, ExitCommand, BecomesDue
  <2>2. QED BY <1>2, <1>3, <1>4, <2>1 DEF NoneSkipped
<1>6. ASSUME NEW e \in Entries, NoWorkerForRetry(e) PROVE NoneSkipped' /\ FewBusy' /\ RestInv'
  <2>1. /\ todo' = todo /\ pc' = pc /\ back' = back /\ allFree' = allFree /\ workers' = workers
        /\ e[1] \in Blocks /\ Ends(e[1], "dropped")
    BY <1>6 DEF NoWorkerForRetry, Takes, Entries
  <2>2. NoneSkipped'
    BY <1>2, <2>1, EndsType DEF NoneSkipped
  <2>3. QED BY <1>3, <1>4, <2>1, <2>2
<1>7. ASSUME NEW e \in Entries, NEW w \in Workers PROVE ~RetryStarts(e, w)
  BY <1>1 DEF RetryStarts
<1>8. ~NoWorker
  BY <1>1, <1>2, WorkersSuffice
\* Another place in the turn, with no worker taken.
<1>9. ASSUME todo' = todo, workers' = workers, fate' = fate, RestInv' PROVE NoneSkipped' /\ FewBusy' /\ RestInv'
  <2>1. FewBusy'
    BY <1>0, <1>2, <1>4, <1>9, FewerBusy
  <2>2. QED BY <1>2, <1>9, <2>1 DEF NoneSkipped
<1>10. ASSUME workers' = workers, pc' \notin {"place", "wait", "flush"} PROVE RestInv'
  BY <1>0, <1>2, <1>4, <1>10 DEF RestInv, InWait
<1>11. ASSUME workers' = workers, pc' = "wait", back' # "place" PROVE RestInv'
  BY <1>0, <1>2, <1>4, <1>11 DEF RestInv, InWait
<1>12. CASE ScanEnd \/ RaisedHere
  BY <1>9, <1>10, <1>12 DEF ScanEnd, RaisedHere
<1>13. CASE WalkOver \/ SkipWaits
  BY <1>9, <1>11, <1>13 DEF WalkOver, SkipWaits, WaitsFor
<1>14. CASE DrainEnd
  BY <1>9, <1>10, <1>11, <1>14 DEF DrainEnd, WaitsFor
<1>15. CASE FetchedHere \/ FailedHere
  BY <1>9, <1>11, <1>15 DEF FetchedHere, FailedHere
<1>16. CASE BatchWait
  <2>1. /\ todo # <<>> /\ Head(todo) % Every = 0 /\ pc' = "wait" /\ back' = "place"
        /\ todo' = todo /\ workers' = workers /\ fate' = fate
    BY <1>16 DEF BatchWait, MustWait, WaitsFor
  <2>2. RestInv'
    BY <1>0, <1>2, <1>4, <2>1 DEF RestInv, InWait
  <2>3. QED BY <1>9, <2>1, <2>2
<1>17. CASE WaitCheck
  <2>1. /\ pc = "wait" /\ pc' = "flush" /\ back' = back /\ (allFree' <=> \A w \in Workers : Free(w))
        /\ todo' = todo /\ workers' = workers /\ fate' = fate
    BY <1>17 DEF WaitCheck
  <2>2. RestInv'
    BY <1>0, <1>2, <1>4, <2>1 DEF RestInv, InWait, Busy
  <2>3. QED BY <1>9, <2>1, <2>2
<1>18. ASSUME NEW w \in Workers, StartBlock(w) PROVE NoneSkipped' /\ FewBusy' /\ RestInv'
  <2>1. FewBusy'
    BY <1>0, <1>1, <1>2, <1>18, StartIsOneMore
  <2>2. NoneSkipped' /\ RestInv'
    BY <1>0, <1>2, <1>18 DEF StartBlock, NoneSkipped, RestInv, InWait
  <2>3. QED BY <2>1, <2>2
<1>19. ASSUME NEW b \in Blocks,
              ProcessTx(b) \/ ProcessPair(b) \/ LocksItself(b) \/ ProcessRaises(b)
       PROVE  NoneSkipped' /\ FewBusy' /\ RestInv'
  <2>1. /\ todo' = todo /\ back' = back /\ allFree' = allFree /\ workers' = workers
        /\ Ends(b, "done") /\ (pc' = pc \/ pc' \in {"stuck", "drain", "crashed"})
    BY <1>19 DEF ProcessTx, ProcessPair, LocksItself, ProcessRaises, TakesTx
  <2>2. NoneSkipped'
    BY <1>2, <2>1, EndsType DEF NoneSkipped
  <2>3. FewBusy'
    BY <1>0, <1>2, <1>4, <2>1, FewerBusy
  <2>4. RestInv'
    BY <1>3, <1>4, <1>10, <2>1
  <2>5. QED BY <2>2, <2>3, <2>4
<1>20. ASSUME NEW b \in Blocks PROVE ~ProcessMine(b)
  BY <1>1 DEF ProcessMine
<1>21. CASE FlushEnd
  <2>1. pc = "flush" /\ workers' = workers /\ fate' = fate /\ back' = back
    BY <1>21 DEF FlushEnd
  <2>2. CASE ~allFree
    <3>1. todo' = todo /\ pc' = "wait"
      BY <1>21, <2>2 DEF FlushEnd
    <3>2. RestInv'
      BY <1>0, <1>2, <1>4, <2>1, <3>1 DEF RestInv, InWait
    <3>3. QED BY <1>9, <2>1, <3>1, <3>2
  <2>3. CASE allFree
    <3>1. Busy' = {} /\ Returns
      BY <1>2, <1>4, <1>21, <2>1, <2>3 DEF RestInv, FlushEnd
    <3>2. RestInv'
      BY <1>2, <2>1, <3>1 DEF Returns, RestInv, InWait, TypeOK
    <3>3. QED BY <1>0, <1>2, <2>1, <3>1, <3>2, NoneBusy DEF NoneSkipped
  <2>4. QED BY <2>2, <2>3
<1>22. CASE WaitTimeout
  <2>1. /\ pc = "wait" /\ back' = back /\ Returns /\ workers' = [w \in Workers |-> NoJob]
        /\ fate' = [b \in Blocks |-> IF b \in Running THEN "killed" ELSE fate[b]]
    BY <1>22 DEF WaitTimeout
  <2>2. Busy' = {}
    BY <2>1 DEF Busy, Free
  <2>3. RestInv'
    BY <1>2, <2>1, <2>2 DEF Returns, RestInv, InWait, TypeOK
  <2>4. NoneSkipped'
    BY <1>2, <2>1 DEF NoneSkipped
  <2>5. QED BY <1>0, <2>2, <2>3, <2>4, NoneBusy
<1>23. ASSUME NEW w \in Workers, Worker(w) PROVE NoneSkipped' /\ FewBusy' /\ RestInv'
  <2>1. /\ todo' = todo /\ pc' = pc /\ back' = back /\ allFree' = allFree
        /\ workers' = [workers EXCEPT ![w] = NoJob]
    BY <1>23 DEF Worker, OwnJobDone, FetchRetry, FetchMissed, FetchDies, Fetched, Leaves
  <2>2. Busy' \subseteq Busy
    BY <2>1 DEF Busy, Free, TypeOK
  <2>3. \/ fate' = fate
        \/ \E b \in Blocks : Ends(b, "missed") \/ Ends(b, "died")
    BY <1>23 DEF Worker, OwnJobDone, FetchRetry, FetchMissed, FetchDies, Fetched, HasBlock
  <2>4. NoneSkipped'
    BY <1>2, <2>3, EndsType DEF NoneSkipped
  <2>5. QED BY <1>3, <2>1, <2>2, <2>4
<1>24. QED BY <1>5, <1>6, <1>7, <1>8, <1>12, <1>13, <1>14, <1>15, <1>16, <1>17, <1>18, <1>19,
              <1>20, <1>21, <1>22, <1>23 DEF Next, MainLoop

LEMMA BusyInit == Init => BusyInv
<1> SUFFICES ASSUME Init PROVE NoneSkipped /\ FewBusy /\ RestInv
  BY DEF BusyInv
<1>1. /\ pc = "scan" /\ \A b \in Blocks : fate[b] = "none"
      /\ \A w \in Workers : Free(w)
  BY DEF Init, Free
<1>2. Busy = {}
  BY <1>1 DEF Busy
<1>3. \A h \in Blocks : Since(h) \in Nat
  BY SinceBound, ReplayAssumption DEF Blocks
<1>4. FewBusy
  BY <1>2, <1>3, FS_EmptySet DEF FewBusy
<1>5. QED BY <1>1, <1>2, <1>4 DEF NoneSkipped, RestInv, InWait

\* For any range, any distance between two waits and as many workers: a block is
\* passed over for want of a worker only in a list, or when retries or own
\* transactions have taken some.
THEOREM SkipsHaveCause == Spec => []SkipsNeedCause
<1>1. Init => TypeOK /\ WaitInv /\ Consecutive /\ BusyInv
  BY InvInit, ConsecutiveInit, BusyInit DEF IInv
<1>2. TypeOK /\ WaitInv /\ Consecutive /\ BusyInv /\ IInv /\ [Next]_vars => Consecutive' /\ BusyInv'
  BY ConsecutiveStep, BusyStep
<1>3. IInv => TypeOK /\ WaitInv
  BY DEF IInv
<1>4. BusyInv => SkipsNeedCause
  <2>1. Cardinality(Workers) \in Nat /\ Every \in Nat
    BY BusyIsFinite, ReplayAssumption
  <2>2. QED BY <2>1 DEF BusyInv, NoneSkipped, NoOtherCause, SkipsNeedCause
<1>5. QED BY <1>1, <1>2, <1>3, <1>4, Invariance, PTL DEF Spec
=============================================================================
