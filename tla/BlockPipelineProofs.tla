------------------------- MODULE BlockPipelineProofs -------------------------
(***************************************************************************)
(* Proofs about BlockPipeline, for any number of blocks, nodes and worker  *)
(* slots.  IInv is the inductive invariant; it says of every block where   *)
(* its one piece of work is, and of every entry that waits to be removed   *)
(* that it is older than that piece of work.  At the end, BlockPipeline    *)
(* implements BlockLifecycle under the mapping StatusOf: every step of a   *)
(* process is a step in the life of the blocks it moves, or leaves all of  *)
(* them where they are.                                                    *)
(***************************************************************************)
EXTENDS BlockPipeline, TLAPS

\* The list holds only blocks that were queued, and the poller is ahead of
\* them all, so the number it appends next is new.
ListInv ==
  /\ due \subseteq block_list
  /\ bs_to_rm \subseteq block_list
  /\ \A e \in block_list : e[1] \in queued
  /\ \A b \in queued : b <= prev

\* A live entry is the only one of its block, and no process has the block.
LiveInv ==
  /\ \A e, f \in Live : e[1] = f[1] => e = f
  /\ \A e \in Live : \A w \in Busy : workers[w].num # e[1]

BusyInv ==
  /\ OneFetchPerBlock
  /\ \A w \in Busy : workers[w].num \in queued

\* What waits to be removed is older than the work on the same block: the
\* retry a process appends is never taken for the entry it was started from.
OlderInv ==
  \A e \in bs_to_rm :
    /\ \A w \in Busy : workers[w].num = e[1] => e[2] <= workers[w].rec
    /\ \A f \in Live : f[1] = e[1] => e[2] < f[2]

\* recursion_cnt counts the calls made so far.
AttemptsInv ==
  /\ \A b \in Blocks : b \notin queued => attempts[b] = 0
  /\ \A e \in Live : attempts[e[1]] = e[2]
  /\ \A w \in Busy : attempts[workers[w].num] =
       workers[w].rec + IF workers[w].stage = "deliver" THEN 1 ELSE 0
  /\ RetryBudget

\* Once wait_all_th_finish has found all slots free, only what it drains can
\* put a process into one.
ExitInv ==
  /\ mpc = "flush" /\ allFree => \A w \in Workers : workers[w] \in {NoJob, LateJob}
  /\ CleanExit

IInv == /\ TypeOK /\ ListInv /\ LiveInv /\ BusyInv /\ OlderInv
        /\ Accounted /\ AttemptsInv /\ ExitInv
-----------------------------------------------------------------------------
(* Slots *)

Slots == Jobs \cup {NoJob, OwnJob, LateJob}

LEMMA BusyAreJobs ==
  ASSUME TypeOK, NEW w \in Workers
  PROVE  /\ w \in Busy => workers[w] \in Jobs
         /\ w \notin Busy => workers[w] \in {NoJob, OwnJob, LateJob}
<1>1. workers[w] \in Jobs \/ workers[w] \in {NoJob, OwnJob, LateJob}
  BY DEF TypeOK
<1>2. workers[w] \in Jobs => workers[w].stage \in {"fetch", "deliver"}
  BY DEF Jobs
<1>3. workers[w] \in {NoJob, OwnJob, LateJob} => workers[w].stage \notin {"fetch", "deliver"}
  BY DEF NoJob, OwnJob, LateJob
<1>4. QED BY <1>1, <1>2, <1>3 DEF Busy

\* The processes of transactions do not touch those of blocks.
LEMMA OwnJobsApart ==
  ASSUME TypeOK, OwnJobsStart \/ \E w \in Workers : OwnJobDone(w)
  PROVE  /\ workers' \in [Workers -> Slots]
         /\ Busy' = Busy /\ Fetching' = Fetching
         /\ \A w \in Busy : workers'[w] = workers[w]
<1>1. workers \in [Workers -> Slots]
  BY DEF TypeOK, Slots
<1>2. /\ workers' \in [Workers -> Slots]
      /\ \A w \in Workers : \/ workers'[w] = workers[w]
                           \/ /\ workers[w] \in {NoJob, OwnJob, LateJob}
                              /\ workers'[w] \in {NoJob, OwnJob, LateJob}
  <2>1. CASE OwnJobsStart
    BY <1>1, <2>1 DEF OwnJobsStart, Free, Slots
  <2>2. CASE \E w \in Workers : OwnJobDone(w)
    BY <1>1, <2>2 DEF OwnJobDone, Slots
  <2>3. QED BY <2>1, <2>2
<1>3. \A j \in {NoJob, OwnJob, LateJob} : j.stage \notin {"fetch", "deliver"}
  BY DEF NoJob, OwnJob, LateJob
<1>4. Busy' = Busy /\ \A w \in Busy : workers'[w] = workers[w]
  BY <1>2, <1>3 DEF Busy
<1>5. Fetching' = Fetching
  BY <1>4 DEF Fetching
<1>6. QED BY <1>2, <1>4, <1>5
-----------------------------------------------------------------------------
\* Every variable keeps its type: in particular no step appends a number
\* beyond the last block or an entry with a recursion_cnt beyond the last try.
LEMMA TypeStep == TypeOK /\ [Next]_vars => TypeOK'
<1> SUFFICES ASSUME TypeOK, [Next]_vars PROVE TypeOK'
  OBVIOUS
<1> USE DEF TypeOK
<1>1. CASE UNCHANGED vars
  BY <1>1 DEF vars, pollVars, listVars, mainVars, history
<1>2. CASE ChainGrows
  <2>1. head' \in Blocks
    BY <1>2, PipelineAssumption DEF ChainGrows, Blocks
  <2>2. QED BY <1>2, <2>1 DEF ChainGrows, pollVars, listVars, mainVars, history
<1>3. CASE ExitCommand
  BY <1>3 DEF ExitCommand, pollVars, listVars, mainVars, history
<1>4. CASE PollRead
  <2>1. ASSUME NEW web3 \in Int, NEW leaked \in Int, Poll(web3, leaked)
        PROVE  TypeOK'
    <3>1. PICK ahead \in 0 .. MaxAhead : ChooseTarget(web3, leaked, ahead)
      BY <2>1 DEF Poll
    <3>2. prev' \in Int /\ prev' >= -1 /\ target' \in Int /\ target' <= MaxBlock
      BY <2>1, <3>1, PipelineAssumption DEF ChooseTarget, Poll
    <3>3. QED BY <2>1, <3>2 DEF Poll, listVars, mainVars, history
  <2>2. \A h \in Blocks : h \in Int /\ h - Behind \in Int
    BY PipelineAssumption DEF Blocks
  <2>3. -1 - Behind \in Int
    BY PipelineAssumption
  <2>4. QED BY <1>4, <2>1, <2>2, <2>3 DEF PollRead, PollFails, PollAnswered, Heights
<1>5. CASE PollQueue
  <2>1. prev + 1 \in Blocks /\ <<prev + 1, 0>> \in Entries
    BY <1>5, PipelineAssumption DEF PollQueue, Blocks, Entries
  <2>2. prev + 1 \in Int /\ prev + 1 >= -1
    OBVIOUS
  <2>3. QED BY <1>5, <2>1, <2>2 DEF PollQueue, mainVars
<1>6. CASE PollSleep \/ PollExit
  BY <1>6 DEF PollSleep, PollExit, listVars, mainVars, history
<1>7. ASSUME NEW e \in Entries, BecomesDue(e)
      PROVE  TypeOK'
  BY <1>7 DEF BecomesDue, pollVars, mainVars, history
<1>8. ASSUME NEW e \in Entries, NEW w \in Workers, ScanStart(e, w)
      PROVE  TypeOK'
  <2>1. [stage |-> "fetch", num |-> e[1], rec |-> e[2]] \in Jobs
    BY <1>8 DEF Jobs, Entries
  <2>2. workers' \in [Workers -> Jobs \cup {NoJob, OwnJob, LateJob}]
    BY <1>8, <2>1 DEF ScanStart
  <2>3. QED BY <1>8, <2>2 DEF ScanStart, Visits, Take, pollVars, listVars, history
<1>9. ASSUME NEW e \in Entries, ScanNoWorker(e) \/ ScanRaises(e) \/ RemoveOne(e)
      PROVE  TypeOK'
  BY <1>9 DEF Entries, ScanNoWorker, ScanRaises, RemoveOne, Removed, Visits, Take, pollVars, listVars, history
<1>10. CASE ScanEnd \/ RemoveEnd \/ ProcessEnd \/ WaitCheck \/ FlushEnd
  BY <1>10 DEF ScanEnd, RemoveEnd, ProcessEnd, WaitCheck, FlushEnd, pollVars, listVars, history
<1>11. ASSUME NEW b \in Blocks, Process(b) \/ ProcessRaises(b)
       PROVE  TypeOK'
  <2>1. workers' \in [Workers -> Slots]
    BY <1>11, OwnJobsApart DEF Process, ProcessRaises
  <2>2. QED BY <1>11, <2>1 DEF Process, ProcessRaises, TakeFromQueue, Slots, pollVars, listVars, mainVars
<1>12. CASE WaitTimeout
  <2>1. workers' \in [Workers -> Jobs \cup {NoJob, OwnJob, LateJob}]
    BY <1>12 DEF WaitTimeout
  <2>2. \A w \in Busy : workers[w].num \in Blocks
    BY BusyAreJobs DEF Jobs, Busy
  <2>4. lost' \in SUBSET Blocks
    BY <1>12, <2>2 DEF WaitTimeout, Fetching
  <2>3. QED BY <1>12, <2>1, <2>4 DEF WaitTimeout, pollVars, listVars
<1>13. ASSUME NEW w \in Workers, Worker(w)
       PROVE  TypeOK'
  <2>0. w \in Busy
    BY <1>13 DEF Worker, FetchRetry, FetchMissed, FetchSucceeds, PresaleRaises, Deliver,
                 Fetches, Delivers, Busy
  <2>1. /\ workers[w] \in Jobs
        /\ workers[w].num \in Blocks /\ workers[w].rec \in 0 .. MaxRecursion + 1
    BY <2>0, BusyAreJobs DEF Jobs
  <2>2. [workers EXCEPT ![w] = NoJob] \in [Workers -> Jobs \cup {NoJob, OwnJob, LateJob}]
    OBVIOUS
  <2>3. [attempts EXCEPT ![workers[w].num] = @ + 1] \in [Blocks -> Nat]
    BY <2>1
  <2>4. CASE FetchRetry(w)
    <3>1. <<workers[w].num, workers[w].rec + 1>> \in Entries
      BY <2>1, <2>4, PipelineAssumption DEF FetchRetry, OutOfTries, Entries
    <3>2. QED BY <2>2, <2>3, <2>4, <3>1 DEF FetchRetry, Fetches, pollVars, mainVars
  <2>5. CASE FetchMissed(w)
    BY <2>1, <2>2, <2>3, <2>5 DEF FetchMissed, Fetches, pollVars, listVars, mainVars
  <2>6. CASE FetchSucceeds(w)
    <3>1. [workers EXCEPT ![w].stage = "deliver"] \in [Workers -> Jobs \cup {NoJob, OwnJob, LateJob}]
      BY <2>1 DEF Jobs
    <3>2. QED BY <2>3, <2>6, <3>1 DEF FetchSucceeds, Fetches, pollVars, listVars, mainVars
  <2>7. CASE PresaleRaises(w) \/ Deliver(w)
    BY <2>1, <2>2, <2>7 DEF PresaleRaises, Deliver, Delivers, pollVars, listVars, mainVars, history
  <2>8. QED BY <1>13, <2>4, <2>5, <2>6, <2>7 DEF Worker
<1>14. ASSUME NEW w \in Workers, OwnJobDone(w)
       PROVE  TypeOK'
  <2>1. workers' \in [Workers -> Slots]
    BY <1>14, OwnJobsApart
  <2>2. QED BY <1>14, <2>1 DEF OwnJobDone, Slots, pollVars, listVars, mainVars, history
<1>15. QED
  BY <1>1, <1>2, <1>3, <1>4, <1>5, <1>6, <1>7, <1>8, <1>9, <1>10, <1>11, <1>12, <1>13, <1>14
     DEF Next, Poller, MainLoop, Crash, Time, Stopped

THEOREM TypeCorrect == Spec => []TypeOK
<1>1. ASSUME Init PROVE TypeOK
  <2>1. head \in Blocks /\ -1 <= MaxBlock
    BY <1>1, PipelineAssumption DEF Init, Blocks
  <2>2. prev \in Int /\ prev >= -1 /\ target \in Int /\ target <= MaxBlock
    BY <1>1, <2>1, PipelineAssumption DEF Init
  <2>3. QED BY <1>1, <2>1, <2>2 DEF Init, TypeOK
<1>2. QED BY <1>1, TypeStep, PTL DEF Spec
-----------------------------------------------------------------------------
(* The steps that move no block. *)

\* What the parts of IInv about the blocks depend on.
work == <<block_list, bs_to_rm, workers, txQueue, queued, attempts, scanned, missed, dropped, lost>>

\* A step that leaves the work alone and does not move the poller back keeps
\* the invariant, when it keeps the part about the exit.
LEMMA NothingMoves ==
  ASSUME IInv, TypeOK', UNCHANGED work, due' \subseteq block_list', prev' >= prev, ExitInv'
  PROVE  IInv'
<1>1. Busy' = Busy /\ Live' = Live /\ Fetching' = Fetching /\ Waiting' = Waiting
  BY DEF work, Busy, Live, Fetching, Waiting
<1>2. ListInv'
  <2>1. ASSUME NEW b \in queued PROVE b <= prev'
    <3>1. b \in Int /\ prev \in Int /\ prev' \in Int
      BY <2>1 DEF IInv, TypeOK, Blocks
    <3>2. QED BY <2>1, <3>1 DEF IInv, ListInv
  <2>2. QED BY <2>1 DEF IInv, ListInv, work
<1>3. LiveInv' /\ BusyInv' /\ OlderInv'
  BY <1>1 DEF IInv, LiveInv, BusyInv, OneFetchPerBlock, OlderInv, work
<1>4. Accounted'
  BY <1>1 DEF IInv, Accounted, Ends, work
<1>5. AttemptsInv'
  BY <1>1 DEF IInv, AttemptsInv, RetryBudget, work
<1>6. QED BY <1>2, <1>3, <1>4, <1>5 DEF IInv

LEMMA QuietSteps ==
  ASSUME IInv, TypeOK',
         \/ UNCHANGED vars \/ ChainGrows \/ ExitCommand \/ PollRead \/ PollSleep \/ PollExit
         \/ \E e \in Entries : BecomesDue(e) \/ ScanRaises(e)
         \/ ScanEnd \/ RemoveEnd \/ ProcessEnd \/ WaitCheck \/ FlushEnd
  PROVE  IInv'
<1> USE DEF IInv, ListInv, work, pollVars, listVars, mainVars, history, ExitInv, CleanExit, Free
<1>1. CASE UNCHANGED vars
  <2>1. UNCHANGED work /\ due' \subseteq block_list' /\ prev' >= prev
    BY <1>1 DEF vars, TypeOK
  <2>2. QED BY <1>1, <2>1, NothingMoves DEF vars
<1>2. CASE PollRead
  <2>1. prev' >= prev
    <3>1. ASSUME NEW web3 \in Int, NEW leaked, Poll(web3, leaked) PROVE prev' >= prev
      <4>1. PICK ahead \in 0 .. MaxAhead : ChooseTarget(web3, leaked, ahead)
        BY <3>1 DEF Poll
      <4>2. QED BY <4>1 DEF ChooseTarget, TypeOK
    <3>2. \A h \in Blocks : h - Behind \in Int
      BY PipelineAssumption DEF Blocks
    <3>3. -1 - Behind \in Int
      BY PipelineAssumption
    <3>4. QED BY <1>2, <3>1, <3>2, <3>3 DEF PollRead, PollFails, PollAnswered, Heights
  <2>2. UNCHANGED <<work, due, mpc, allFree, killed>>
    BY <1>2 DEF PollRead, PollFails, PollAnswered, Poll
  <2>3. QED BY <2>1, <2>2, NothingMoves
<1>3. CASE ChainGrows \/ ExitCommand \/ PollSleep \/ PollExit
  <2>1. UNCHANGED <<work, due, prev, mpc, allFree, killed>>
    BY <1>3 DEF ChainGrows, ExitCommand, PollSleep, PollExit
  <2>2. prev' >= prev
    BY <2>1 DEF TypeOK
  <2>3. QED BY <2>1, <2>2, NothingMoves
<1>4. ASSUME NEW e \in Entries, BecomesDue(e) \/ ScanRaises(e)
      PROVE  IInv'
  <2>1. UNCHANGED <<work, prev, allFree, killed>> /\ due' \subseteq block_list'
    BY <1>4 DEF BecomesDue, ScanRaises
  <2>2. mpc' = mpc \/ mpc' = "crashed"
    BY <1>4 DEF BecomesDue, ScanRaises
  <2>3. prev' >= prev
    BY <2>1 DEF TypeOK
  <2>4. QED BY <2>1, <2>2, <2>3, NothingMoves
<1>5. CASE ScanEnd \/ RemoveEnd \/ ProcessEnd \/ WaitCheck \/ FlushEnd
  <2>1. UNCHANGED <<work, due, prev, killed>>
    BY <1>5 DEF ScanEnd, RemoveEnd, ProcessEnd, WaitCheck, FlushEnd
  <2>2. prev' >= prev
    BY <2>1 DEF TypeOK
  <2>3. ExitInv'
    BY <1>5 DEF ScanEnd, RemoveEnd, ProcessEnd, WaitCheck, FlushEnd
  <2>4. QED BY <2>1, <2>2, <2>3, NothingMoves
<1>6. QED BY <1>1, <1>2, <1>3, <1>4, <1>5
-----------------------------------------------------------------------------
(* The steps of the list: a block is queued, started, dropped or removed. *)

LEMMA QueueStep == IInv /\ TypeOK' /\ PollQueue => IInv'
<1> SUFFICES ASSUME IInv, TypeOK', PollQueue PROVE IInv'
  OBVIOUS
<1> DEFINE new == <<prev + 1, 0>>
<1> USE DEF IInv, mainVars
<1>1. prev + 1 \in Blocks /\ prev \in Int
  BY PipelineAssumption DEF PollQueue, TypeOK, Blocks
<1>2. \A b \in queued : b \in Int /\ b < prev + 1
  BY <1>1 DEF ListInv, TypeOK, Blocks
<1>3. prev + 1 \notin queued /\ \A e \in block_list : e[1] # prev + 1
  BY <1>1, <1>2 DEF ListInv
<1>4. /\ Live' = Live \cup {new} /\ Busy' = Busy
      /\ Waiting' = Waiting \cup {prev + 1} /\ Fetching' = Fetching
  <2>1. Live' = Live \cup {new}
    BY <1>3 DEF PollQueue, Live, ListInv
  <2>2. Busy' = Busy /\ Fetching' = Fetching
    BY DEF PollQueue, Busy, Fetching
  <2>3. Waiting' = Waiting \cup {new[1]}
    BY <2>1 DEF Waiting
  <2>4. QED BY <2>1, <2>2, <2>3
<1>5. ListInv'
  BY <1>1, <1>2 DEF PollQueue, ListInv
<1>6. LiveInv'
  <2>1. \A e \in Live : e[1] # prev + 1
    BY <1>3 DEF Live
  <2>2. \A w \in Busy : workers[w].num # prev + 1
    BY <1>3 DEF BusyInv
  <2>3. QED BY <1>4, <2>1, <2>2 DEF PollQueue, LiveInv
<1>7. BusyInv'
  BY <1>4 DEF PollQueue, BusyInv, OneFetchPerBlock
<1>8. OlderInv'
  BY <1>3, <1>4 DEF PollQueue, OlderInv, ListInv
<1>9. Accounted'
  BY <1>3, <1>4 DEF PollQueue, Accounted, Ends
<1>10. AttemptsInv'
  BY <1>1, <1>3, <1>4 DEF PollQueue, AttemptsInv, RetryBudget
<1>11. ExitInv'
  BY <1>4 DEF PollQueue, ExitInv, CleanExit
<1>12. QED BY <1>5, <1>6, <1>7, <1>8, <1>9, <1>10, <1>11

\* What the scan and the removal find in the list.
LEMMA DueIsLive ==
  ASSUME IInv, NEW e, Visits(e)
  PROVE  /\ e \in Live /\ e \in Entries /\ e[1] \in Waiting /\ e[1] \in queued /\ mpc = "scan"
         /\ e[1] \in Blocks /\ e[2] \in Nat
         /\ {f[1] : f \in Live \ {e}} = Waiting \ {e[1]}
<1>1. e \in Live /\ e \in Entries /\ mpc = "scan"
  BY DEF IInv, ListInv, Visits, Live, TypeOK
<1>2. e[1] \in Blocks /\ e[2] \in Nat
  BY <1>1, PipelineAssumption DEF Entries
<1>3. QED BY <1>1, <1>2 DEF IInv, ListInv, LiveInv, Live, Waiting

LEMMA StartStep ==
  ASSUME IInv, TypeOK', NEW e \in Entries, NEW w \in Workers, ScanStart(e, w)
  PROVE  IInv'
<1> USE DEF IInv, pollVars, listVars, history
<1>1. /\ e \in Live /\ e[1] \in Waiting /\ e[1] \in queued /\ mpc = "scan"
      /\ e[1] \in Blocks /\ e[2] \in Nat
      /\ {f[1] : f \in Live \ {e}} = Waiting \ {e[1]}
  BY DueIsLive DEF ScanStart
<1>2. /\ workers' = [workers EXCEPT ![w] = [stage |-> "fetch", num |-> e[1], rec |-> e[2]]]
      /\ w \notin Busy
      /\ workers \in [Workers -> Jobs \cup {NoJob, OwnJob, LateJob}]
      /\ bs_to_rm' = bs_to_rm \cup {e}
  BY DEF ScanStart, Take, Busy, Free, NoJob, TypeOK
<1>3. workers'[w].num = e[1] /\ workers'[w].rec = e[2] /\ workers'[w].stage = "fetch"
      /\ \A v \in Busy : workers'[v] = workers[v]
  BY <1>2
<1>4. Busy' = Busy \cup {w}
  BY <1>2, <1>3 DEF Busy
<1>5. Live' = Live \ {e} /\ Waiting' = Waiting \ {e[1]} /\ Fetching' = Fetching \cup {e[1]}
  <2>1. Live' = Live \ {e}
    BY <1>2 DEF ScanStart, Live
  <2>2. Fetching' = Fetching \cup {e[1]}
    BY <1>3, <1>4 DEF Fetching
  <2>3. QED BY <1>1, <2>1, <2>2 DEF Waiting
<1>6. ListInv'
  BY <1>1, <1>2 DEF ScanStart, ListInv, Live
<1>7. LiveInv' /\ BusyInv'
  BY <1>1, <1>3, <1>4, <1>5 DEF ScanStart, LiveInv, BusyInv, OneFetchPerBlock
<1>8. OlderInv'
  <2>1. ASSUME NEW g \in bs_to_rm', NEW v \in Busy', workers'[v].num = g[1] PROVE g[2] <= workers'[v].rec
    <3>1. CASE g = e
      BY <1>1, <1>3, <1>4, <2>1, <3>1 DEF LiveInv
    <3>2. CASE g \in bs_to_rm /\ v \in Busy
      BY <1>3, <2>1, <3>2 DEF OlderInv
    <3>3. CASE g \in bs_to_rm /\ v = w
      <4>1. g[2] < e[2]
        BY <1>1, <1>3, <2>1, <3>3 DEF OlderInv
      <4>2. g[2] \in Nat
        BY <3>3, PipelineAssumption DEF TypeOK, Entries
      <4>3. QED BY <1>1, <1>3, <3>3, <4>1, <4>2
    <3>4. QED BY <1>2, <1>4, <3>1, <3>2, <3>3
  <2>2. ASSUME NEW g \in bs_to_rm', NEW f \in Live', f[1] = g[1] PROVE g[2] < f[2]
    BY <1>1, <1>2, <1>5, <2>2 DEF OlderInv, LiveInv
  <2>3. QED BY <2>1, <2>2 DEF OlderInv
<1>9. Accounted'
  BY <1>1, <1>5 DEF ScanStart, Accounted, Ends
<1>10. AttemptsInv'
  BY <1>1, <1>3, <1>4, <1>5 DEF ScanStart, AttemptsInv, RetryBudget
<1>11. ExitInv'
  BY <1>1 DEF ScanStart, ExitInv, CleanExit
<1>12. QED BY <1>6, <1>7, <1>8, <1>9, <1>10, <1>11

LEMMA NoWorkerStep ==
  ASSUME IInv, TypeOK', NEW e \in Entries, ScanNoWorker(e)
  PROVE  IInv'
<1> USE DEF IInv, pollVars, listVars
<1>1. /\ e \in Live /\ e[1] \in Waiting /\ e[1] \in queued /\ mpc = "scan"
      /\ {f[1] : f \in Live \ {e}} = Waiting \ {e[1]}
  BY DueIsLive DEF ScanNoWorker
<1>2. /\ bs_to_rm' = bs_to_rm \cup {e} /\ Busy' = Busy /\ Fetching' = Fetching
      /\ Live' = Live \ {e}
  BY DEF ScanNoWorker, Take, Busy, Fetching, Live
<1>3. Waiting' = Waiting \ {e[1]}
  BY <1>1, <1>2 DEF Waiting
<1>4. ListInv'
  BY <1>1, <1>2 DEF ScanNoWorker, ListInv, Live
<1>5. LiveInv' /\ BusyInv' /\ OlderInv'
  BY <1>1, <1>2 DEF ScanNoWorker, LiveInv, BusyInv, OneFetchPerBlock, OlderInv
<1>6. Accounted'
  BY <1>1, <1>2, <1>3 DEF ScanNoWorker, Accounted, Ends
<1>7. AttemptsInv' /\ ExitInv'
  BY <1>1, <1>2 DEF ScanNoWorker, AttemptsInv, RetryBudget, ExitInv, CleanExit
<1>8. QED BY <1>4, <1>5, <1>6, <1>7

\* Removing an entry that has been gone through touches no live entry.
LEMMA RemoveStep ==
  ASSUME IInv, TypeOK', NEW e \in Entries, RemoveOne(e)
  PROVE  IInv'
<1> USE DEF IInv, pollVars, history
<1>1. Live' = Live /\ Busy' = Busy /\ Waiting' = Waiting /\ Fetching' = Fetching
      /\ bs_to_rm' \subseteq bs_to_rm /\ block_list' \subseteq block_list
  BY DEF RemoveOne, Removed, Live, Busy, Waiting, Fetching
<1>2. ListInv'
  BY DEF RemoveOne, Removed, ListInv
<1>3. LiveInv' /\ BusyInv' /\ OlderInv'
  BY <1>1 DEF RemoveOne, LiveInv, BusyInv, OneFetchPerBlock, OlderInv
<1>4. Accounted' /\ AttemptsInv' /\ ExitInv'
  BY <1>1 DEF RemoveOne, Accounted, Ends, AttemptsInv, RetryBudget, ExitInv, CleanExit
<1>5. QED BY <1>2, <1>3, <1>4
-----------------------------------------------------------------------------
(* The steps at the end: transactions are processed, processes killed. *)

LEMMA ProcessStep ==
  ASSUME IInv, TypeOK', NEW b \in Blocks, Process(b) \/ ProcessRaises(b)
  PROVE  IInv'
<1> USE DEF IInv, pollVars, listVars, mainVars
<1>1. /\ b \in txQueue /\ txQueue' = txQueue \ {b} /\ scanned' = scanned \cup {b}
      /\ UNCHANGED <<pollVars, listVars, bs_to_rm, queued, attempts, missed, dropped, lost,
                     allFree, killed>>
      /\ OwnJobsStart /\ mpc \in {"process", "flush"}
      /\ mpc' = mpc \/ mpc' = "crashed"
  BY DEF Process, ProcessRaises, TakeFromQueue
<1>2. /\ Live' = Live /\ Busy' = Busy /\ Waiting' = Waiting /\ Fetching' = Fetching
      /\ \A w \in Busy : workers'[w] = workers[w]
  BY <1>1, OwnJobsApart DEF Live, Waiting
<1>3. ListInv' /\ LiveInv' /\ BusyInv' /\ OlderInv'
  BY <1>1, <1>2 DEF ListInv, LiveInv, BusyInv, OneFetchPerBlock, OlderInv
<1>4. Accounted'
  BY <1>1, <1>2 DEF Accounted, Ends
<1>5. AttemptsInv'
  BY <1>1, <1>2 DEF AttemptsInv, RetryBudget
<1>6. ExitInv'
  <2>1. mpc = "flush" /\ allFree =>
          \A w \in Workers : workers'[w] = workers[w] \/ workers'[w] = LateJob
    BY <1>1 DEF OwnJobsStart
  <2>2. QED BY <1>1, <2>1 DEF ExitInv, CleanExit
<1>7. QED BY <1>3, <1>4, <1>5, <1>6

\* The process of a transaction ends.
LEMMA OwnDoneStep ==
  ASSUME IInv, TypeOK', NEW w \in Workers, OwnJobDone(w)
  PROVE  IInv'
<1> USE DEF IInv, pollVars, listVars, mainVars, history
<1>1. UNCHANGED <<block_list, due, prev, bs_to_rm, txQueue, queued, attempts, scanned, missed,
                  dropped, lost, mpc, allFree, killed>>
  BY DEF OwnJobDone
<1>2. /\ Live' = Live /\ Busy' = Busy /\ Waiting' = Waiting /\ Fetching' = Fetching
      /\ \A v \in Busy : workers'[v] = workers[v]
  BY <1>1, OwnJobsApart DEF Live, Waiting
<1>3. ListInv' /\ LiveInv' /\ BusyInv' /\ OlderInv'
  BY <1>1, <1>2 DEF ListInv, LiveInv, BusyInv, OneFetchPerBlock, OlderInv
<1>4. Accounted' /\ AttemptsInv'
  BY <1>1, <1>2 DEF Accounted, Ends, AttemptsInv, RetryBudget
<1>5. ExitInv'
  <2>1. \A v \in Workers : workers'[v] = workers[v] \/ workers'[v] = NoJob
    BY DEF OwnJobDone, TypeOK
  <2>2. QED BY <1>1, <2>1 DEF ExitInv, CleanExit
<1>6. QED BY <1>3, <1>4, <1>5

LEMMA TimeoutStep == IInv /\ TypeOK' /\ WaitTimeout => IInv'
<1> SUFFICES ASSUME IInv, TypeOK', WaitTimeout PROVE IInv'
  OBVIOUS
<1> USE DEF IInv, pollVars, listVars
<1>1. Busy' = {} /\ Fetching' = {} /\ lost' = lost \cup Fetching
  BY DEF WaitTimeout, Busy, Fetching, NoJob
<1>2. Live' = Live /\ Waiting' = Waiting
  BY DEF WaitTimeout, Live, Waiting
<1>3. ListInv' /\ LiveInv' /\ BusyInv' /\ OlderInv'
  BY <1>1, <1>2 DEF WaitTimeout, ListInv, LiveInv, BusyInv, OneFetchPerBlock, OlderInv
<1>4. Accounted'
  BY <1>1, <1>2 DEF WaitTimeout, Accounted, Ends
<1>5. AttemptsInv' /\ ExitInv'
  BY <1>1, <1>2 DEF WaitTimeout, AttemptsInv, RetryBudget, ExitInv, CleanExit
<1>6. QED BY <1>3, <1>4, <1>5
-----------------------------------------------------------------------------
(* The steps of the process in slot w. *)

\* What changes when the process of slot w ends.
LEMMA JobEnds ==
  ASSUME IInv, NEW w \in Busy, workers' = [workers EXCEPT ![w] = NoJob]
  PROVE  /\ workers[w] \in Jobs /\ workers[w].num \in Blocks /\ workers[w].rec \in Nat
         /\ workers[w].num \in queued /\ workers[w].num \in Fetching
         /\ Busy' = Busy \ {w} /\ \A v \in Busy' : workers'[v] = workers[v]
         /\ Fetching' = Fetching \ {workers[w].num}
<1> USE DEF IInv, TypeOK
<1>1. /\ workers[w] \in Jobs /\ workers[w].num \in Blocks /\ workers[w].rec \in Nat
      /\ w \in Workers
  BY BusyAreJobs, PipelineAssumption DEF Busy, Jobs
<1>2. Busy' = Busy \ {w} /\ \A v \in Busy' : workers'[v] = workers[v]
  BY <1>1 DEF Busy, NoJob
<1>3. Fetching' = Fetching \ {workers[w].num}
  <2>1. Fetching' = {workers[v].num : v \in Busy \ {w}}
    BY <1>2 DEF Fetching
  <2>2. QED BY <2>1 DEF Fetching, BusyInv, OneFetchPerBlock
<1>4. QED BY <1>1, <1>2, <1>3 DEF BusyInv, Fetching

\* As long as the process of a block is alive, the wait for all is not over.
LEMMA NotYetOver ==
  ASSUME IInv, NEW w \in Busy, UNCHANGED <<mpc, allFree, killed>>
  PROVE  ExitInv'
<1>1. w \in Workers /\ workers[w] \notin {NoJob, LateJob}
  BY DEF Busy, NoJob, LateJob
<1>2. QED BY <1>1 DEF IInv, ExitInv, CleanExit

LEMMA RetryStep ==
  ASSUME IInv, TypeOK', NEW w \in Workers, FetchRetry(w)
  PROVE  IInv'
<1> DEFINE b == workers[w].num
           new == <<workers[w].num, workers[w].rec + 1>>
<1> USE DEF IInv, pollVars, mainVars
<1>1. w \in Busy /\ workers' = [workers EXCEPT ![w] = NoJob] /\ workers[w].stage = "fetch"
  BY DEF FetchRetry, Fetches, Busy
<1>2. /\ b \in Blocks /\ workers[w].rec \in Nat
      /\ b \in queued /\ b \in Fetching
      /\ Busy' = Busy \ {w} /\ \A v \in Busy' : workers'[v] = workers[v]
      /\ Fetching' = Fetching \ {b}
  BY <1>1, JobEnds
<1>3. /\ block_list' = block_list \cup {new} /\ UNCHANGED <<due, bs_to_rm, queued, prev>>
      /\ attempts' = [attempts EXCEPT ![b] = @ + 1]
  BY DEF FetchRetry, Fetches
<1>4. \A e \in Live : e[1] # b
  BY <1>1 DEF LiveInv
<1>5. \A e \in bs_to_rm : e[1] = b => e[2] < workers[w].rec + 1
  <2>1. \A e \in bs_to_rm : e[2] \in Nat
    BY PipelineAssumption DEF TypeOK, Entries
  <2>2. QED BY <1>1, <1>2, <2>1 DEF OlderInv
<1>6. new \notin bs_to_rm /\ new[1] = b /\ new[2] = workers[w].rec + 1
  BY <1>2, <1>5
<1>7. Live' = Live \cup {new} /\ Waiting' = Waiting \cup {b}
  <2>1. Live' = Live \cup {new}
    BY <1>3, <1>6 DEF Live
  <2>2. Waiting' = Waiting \cup {new[1]}
    BY <2>1 DEF Waiting
  <2>3. QED BY <2>1, <2>2
<1>8. ListInv'
  BY <1>2, <1>3, <1>6 DEF ListInv
<1>9. \A v \in Busy' : workers'[v].num # b
  BY <1>1, <1>2 DEF BusyInv, OneFetchPerBlock
<1>10. LiveInv'
  BY <1>2, <1>4, <1>6, <1>7, <1>9 DEF LiveInv
<1>11. BusyInv'
  BY <1>2, <1>3 DEF BusyInv, OneFetchPerBlock
<1>12. OlderInv'
  BY <1>2, <1>3, <1>5, <1>6, <1>7 DEF OlderInv
<1>13. Accounted'
  BY <1>2, <1>7 DEF FetchRetry, Accounted, Ends
<1>14. AttemptsInv'
  <2>1. attempts[b] = workers[w].rec /\ attempts'[b] = workers[w].rec + 1
        /\ \A c \in Blocks : c # b => attempts'[c] = attempts[c]
    BY <1>1, <1>2, <1>3 DEF AttemptsInv, TypeOK
  <2>2. workers[w].rec + 1 <= MaxRecursion + 2 /\ b \notin missed /\ UNCHANGED missed
    <3>1. workers[w].rec <= MaxRecursion
      BY <1>2, PipelineAssumption DEF FetchRetry, OutOfTries
    <3>2. QED BY <1>2, <3>1, PipelineAssumption DEF FetchRetry, Accounted, Ends
  <2>3. \A e \in Live : e[1] \in Blocks
    BY DEF Live, TypeOK, Entries
  <2>4. \A v \in Busy' : workers'[v].num \in Blocks
    BY <1>2 DEF BusyInv, TypeOK
  <2>5. RetryBudget'
    BY <2>1, <2>2 DEF AttemptsInv, RetryBudget
  <2>6. \A v \in Busy' : attempts'[workers'[v].num] =
          workers'[v].rec + IF workers'[v].stage = "deliver" THEN 1 ELSE 0
    BY <1>2, <1>9, <2>1, <2>4 DEF AttemptsInv
  <2>7. \A e \in Live' : attempts'[e[1]] = e[2]
    BY <1>4, <1>6, <1>7, <2>1, <2>3 DEF AttemptsInv
  <2>8. QED BY <1>2, <1>3, <2>1, <2>5, <2>6, <2>7 DEF AttemptsInv
<1>15. ExitInv'
  BY <1>1, NotYetOver DEF FetchRetry
<1>16. QED BY <1>8, <1>10, <1>11, <1>12, <1>13, <1>14, <1>15

\* A process that ends without giving its block back: the block is at an end
\* or in the transaction queue, and nothing else of it is left.
LEMMA BlockLeaves ==
  ASSUME IInv, TypeOK', NEW w \in Busy, workers' = [workers EXCEPT ![w] = NoJob],
         UNCHANGED <<block_list, due, bs_to_rm, queued, prev>>
  PROVE  /\ ListInv' /\ LiveInv' /\ BusyInv' /\ OlderInv'
         /\ Live' = Live /\ Waiting' = Waiting
<1> USE DEF IInv
<1>1. Busy' = Busy \ {w} /\ \A v \in Busy' : workers'[v] = workers[v]
  BY JobEnds
<1>2. Live' = Live /\ Waiting' = Waiting
  BY DEF Live, Waiting
<1>3. QED BY <1>1, <1>2 DEF ListInv, LiveInv, BusyInv, OneFetchPerBlock, OlderInv

LEMMA MissedStep ==
  ASSUME IInv, TypeOK', NEW w \in Workers, FetchMissed(w)
  PROVE  IInv'
<1> DEFINE b == workers[w].num
<1> USE DEF IInv, pollVars, mainVars, listVars
<1>1. w \in Busy /\ workers' = [workers EXCEPT ![w] = NoJob] /\ workers[w].stage = "fetch"
  BY DEF FetchMissed, Fetches, Busy
<1>2. /\ b \in Blocks /\ workers[w].rec \in Nat /\ b \in queued /\ b \in Fetching
      /\ Busy' = Busy \ {w} /\ \A v \in Busy' : workers'[v] = workers[v]
      /\ Fetching' = Fetching \ {b}
  BY <1>1, JobEnds
<1>3. /\ ListInv' /\ LiveInv' /\ BusyInv' /\ OlderInv'
      /\ Live' = Live /\ Waiting' = Waiting
  BY <1>1, BlockLeaves DEF FetchMissed
<1>4. Accounted'
  BY <1>2, <1>3 DEF FetchMissed, Accounted, Ends
<1>5. AttemptsInv'
  <2>1. attempts[b] = workers[w].rec /\ attempts'[b] = workers[w].rec + 1
        /\ \A c \in Blocks : c # b => attempts'[c] = attempts[c]
    BY <1>1, <1>2 DEF AttemptsInv, TypeOK, FetchMissed, Fetches
  <2>2. workers[w].rec + 1 = MaxRecursion + 2
    <3>1. workers[w].rec \in 0 .. MaxRecursion + 1
      BY <1>1, BusyAreJobs DEF Busy, Jobs
    <3>2. QED BY <3>1, PipelineAssumption DEF FetchMissed, OutOfTries
  <2>3. RetryBudget'
    BY <2>1, <2>2, PipelineAssumption DEF AttemptsInv, RetryBudget, FetchMissed
  <2>4. \A v \in Busy' : workers'[v].num \in Blocks /\ workers'[v].num # b
    BY <1>1, <1>2 DEF BusyInv, OneFetchPerBlock, TypeOK
  <2>5. \A e \in Live' : e[1] \in Blocks /\ e[1] # b
    BY <1>1, <1>3 DEF LiveInv, Live, TypeOK, Entries
  <2>6. QED BY <1>2, <1>3, <2>1, <2>3, <2>4, <2>5 DEF AttemptsInv, FetchMissed
<1>6. ExitInv'
  BY <1>1, NotYetOver DEF FetchMissed
<1>7. QED BY <1>3, <1>4, <1>5, <1>6

LEMMA SuccessStep ==
  ASSUME IInv, TypeOK', NEW w \in Workers, FetchSucceeds(w)
  PROVE  IInv'
<1> DEFINE b == workers[w].num
<1> USE DEF IInv, pollVars, mainVars, listVars
<1>1. /\ w \in Busy /\ workers[w] \in Jobs /\ workers[w].stage = "fetch"
      /\ b \in Blocks /\ workers[w].rec \in Nat
  <2>1. w \in Busy /\ workers[w].stage = "fetch"
    BY DEF FetchSucceeds, Fetches, Busy
  <2>2. QED BY <2>1, BusyAreJobs, PipelineAssumption DEF Jobs
<1>2. /\ workers'[w].num = b /\ workers'[w].rec = workers[w].rec /\ workers'[w].stage = "deliver"
      /\ \A v \in Workers : v # w => workers'[v] = workers[v]
  BY <1>1 DEF FetchSucceeds, TypeOK, Jobs
<1>3. Busy' = Busy /\ \A v \in Busy : workers'[v].num = workers[v].num /\ workers'[v].rec = workers[v].rec
  BY <1>1, <1>2 DEF Busy
<1>4. Fetching' = Fetching /\ Live' = Live /\ Waiting' = Waiting
  BY <1>3 DEF FetchSucceeds, Fetching, Live, Waiting
<1>5. ListInv' /\ LiveInv' /\ BusyInv' /\ OlderInv'
  BY <1>3, <1>4 DEF FetchSucceeds, ListInv, LiveInv, BusyInv, OneFetchPerBlock, OlderInv
<1>6. Accounted'
  BY <1>4 DEF FetchSucceeds, Accounted, Ends
<1>7. AttemptsInv'
  <2>1. attempts[b] = workers[w].rec /\ attempts'[b] = workers[w].rec + 1
        /\ \A c \in Blocks : c # b => attempts'[c] = attempts[c]
    BY <1>1 DEF AttemptsInv, TypeOK, FetchSucceeds, Fetches
  <2>2. workers[w].rec + 1 <= MaxRecursion + 2 /\ b \notin missed /\ b \in queued
    <3>1. workers[w].rec \in 0 .. MaxRecursion + 1
      BY <1>1 DEF Jobs
    <3>2. b \in Fetching
      BY <1>1 DEF Fetching
    <3>3. QED BY <3>1, <3>2, PipelineAssumption DEF Accounted, Ends
  <2>3. RetryBudget'
    BY <2>1, <2>2 DEF AttemptsInv, RetryBudget, FetchSucceeds
  <2>4. \A v \in Busy : v # w => workers[v].num \in Blocks /\ workers[v].num # b
    BY <1>1 DEF BusyInv, OneFetchPerBlock, TypeOK
  <2>5. \A e \in Live : e[1] \in Blocks /\ e[1] # b
    BY <1>1 DEF LiveInv, Live, TypeOK, Entries
  <2>6. \A v \in Busy' : attempts'[workers'[v].num] =
          workers'[v].rec + IF workers'[v].stage = "deliver" THEN 1 ELSE 0
    <3>1. CASE TRUE
      <4>1. ASSUME NEW v \in Busy, v # w
            PROVE  attempts'[workers'[v].num] =
                     workers'[v].rec + IF workers'[v].stage = "deliver" THEN 1 ELSE 0
        <5>1. v \in Workers
          BY DEF Busy
        <5>2. QED BY <1>2, <2>1, <2>4, <4>1, <5>1 DEF AttemptsInv
      <4>2. QED BY <1>2, <1>3, <2>1, <4>1
    <3>2. QED BY <3>1
  <2>7. QED BY <1>4, <2>1, <2>2, <2>3, <2>5, <2>6 DEF AttemptsInv, FetchSucceeds
<1>8. ExitInv'
  BY <1>1, NotYetOver DEF FetchSucceeds
<1>9. QED BY <1>5, <1>6, <1>7, <1>8

LEMMA DeliverStep ==
  ASSUME IInv, TypeOK', NEW w \in Workers, PresaleRaises(w) \/ Deliver(w)
  PROVE  IInv'
<1> DEFINE b == workers[w].num
<1> USE DEF IInv, pollVars, mainVars, listVars, history
<1>1. /\ w \in Busy /\ workers' = [workers EXCEPT ![w] = NoJob]
      /\ UNCHANGED <<block_list, due, bs_to_rm, queued, prev, attempts, missed, allFree, mpc, killed>>
  BY DEF PresaleRaises, Deliver, Delivers, Busy
<1>2. /\ b \in queued /\ b \in Fetching
      /\ Busy' = Busy \ {w} /\ \A v \in Busy' : workers'[v] = workers[v]
      /\ Fetching' = Fetching \ {b}
  BY <1>1, JobEnds
<1>3. /\ ListInv' /\ LiveInv' /\ BusyInv' /\ OlderInv'
      /\ Live' = Live /\ Waiting' = Waiting
  BY <1>1, BlockLeaves
<1>4. Accounted'
  BY <1>2, <1>3 DEF PresaleRaises, Deliver, Accounted, Ends
<1>5. AttemptsInv'
  BY <1>1, <1>2, <1>3 DEF AttemptsInv, RetryBudget
<1>6. ExitInv'
  BY <1>1, NotYetOver
<1>7. QED BY <1>3, <1>4, <1>5, <1>6
-----------------------------------------------------------------------------
(* The theorems. *)

LEMMA InvInit == Init => IInv
<1> SUFFICES ASSUME Init PROVE IInv
  OBVIOUS
<1>1. TypeOK
  <2>1. head \in Blocks /\ -1 <= MaxBlock
    BY PipelineAssumption DEF Init, Blocks
  <2>2. prev \in Int /\ prev >= -1 /\ target \in Int /\ target <= MaxBlock
    BY <2>1, PipelineAssumption DEF Init
  <2>3. QED BY <2>1, <2>2 DEF Init, TypeOK
<1>2. Busy = {} /\ Live = {} /\ Waiting = {} /\ Fetching = {}
  BY DEF Init, Busy, NoJob, Live, Waiting, Fetching
<1>3. RetryBudget
  BY PipelineAssumption DEF Init, RetryBudget
<1>4. QED
  BY <1>1, <1>2, <1>3 DEF Init, IInv, ListInv, LiveInv, BusyInv, OneFetchPerBlock, OlderInv,
                          Accounted, Ends, AttemptsInv, ExitInv, CleanExit

LEMMA InvStep == IInv /\ [Next]_vars => IInv'
<1> SUFFICES ASSUME IInv, [Next]_vars PROVE IInv'
  OBVIOUS
<1>1. TypeOK'
  BY TypeStep DEF IInv
<1>2. CASE \/ UNCHANGED vars \/ ChainGrows \/ ExitCommand \/ PollRead \/ PollSleep \/ PollExit
           \/ \E e \in Entries : BecomesDue(e) \/ ScanRaises(e)
           \/ ScanEnd \/ RemoveEnd \/ ProcessEnd \/ WaitCheck \/ FlushEnd
  BY <1>1, <1>2, QuietSteps
<1>3. CASE PollQueue
  BY <1>1, <1>3, QueueStep
<1>4. ASSUME NEW e \in Entries, NEW w \in Workers, ScanStart(e, w) PROVE IInv'
  BY <1>1, <1>4, StartStep
<1>5. ASSUME NEW e \in Entries, ScanNoWorker(e) \/ RemoveOne(e) PROVE IInv'
  BY <1>1, <1>5, NoWorkerStep, RemoveStep
<1>6. ASSUME NEW b \in Blocks, Process(b) \/ ProcessRaises(b) PROVE IInv'
  BY <1>1, <1>6, ProcessStep
<1>7. CASE WaitTimeout
  BY <1>1, <1>7, TimeoutStep
<1>8. ASSUME NEW w \in Workers, Worker(w) \/ OwnJobDone(w) PROVE IInv'
  BY <1>1, <1>8, RetryStep, MissedStep, SuccessStep, DeliverStep, OwnDoneStep DEF Worker
<1>9. QED
  BY <1>2, <1>3, <1>4, <1>5, <1>6, <1>7, <1>8 DEF Next, Poller, MainLoop, Crash, Time, Stopped

LEMMA Invariance == Spec => []IInv
BY InvInit, InvStep, PTL DEF Spec

\* Whatever the interleaving, each queued block is in exactly one place: none
\* is lost between the list, the processes and the transaction queue.
THEOREM BlocksAccounted == Spec => []Accounted
<1>1. IInv => Accounted
  BY DEF IInv
<1>2. QED BY <1>1, Invariance, PTL

\* Two processes never ask for the same block.
THEOREM NoDoubleFetch == Spec => []OneFetchPerBlock
<1>1. IInv => OneFetchPerBlock
  BY DEF IInv, BusyInv
<1>2. QED BY <1>1, Invariance, PTL

\* A block costs at most MaxRecursion + 2 calls, and is given up only after them.
THEOREM RetriesBounded == Spec => []RetryBudget
<1>1. IInv => RetryBudget
  BY DEF IInv, AttemptsInv
<1>2. QED BY <1>1, Invariance, PTL

\* An unforced exit leaves no block and no transaction behind, and no process
\* but those that its own last drain has started.
THEOREM ExitIsClean == Spec => []CleanExit
<1>1. IInv => CleanExit
  BY DEF IInv, ExitInv
<1>2. QED BY <1>1, Invariance, PTL

\* No append ever finds its entry in the list already.
THEOREM FreshAppends == Spec => []AppendsAreFresh
<1>1. ASSUME IInv PROVE AppendsAreFresh
  <2> USE <1>1 DEF IInv
  <2>1. \A e \in block_list : e[1] <= prev
    BY DEF ListInv
  <2>2. ASSUME NEW w \in Busy, <<workers[w].num, workers[w].rec + 1>> \in block_list PROVE FALSE
    <3> DEFINE new == <<workers[w].num, workers[w].rec + 1>>
    <3>1. workers[w].rec \in Nat /\ new[1] = workers[w].num /\ new[2] = workers[w].rec + 1
      BY BusyAreJobs, PipelineAssumption DEF Busy, Jobs
    <3>2. CASE new \in Live
      BY <3>1, <3>2 DEF LiveInv
    <3>3. CASE new \in bs_to_rm
      <4>1. workers[w].rec + 1 <= workers[w].rec
        BY <3>1, <3>3 DEF OlderInv
      <4>2. QED BY <3>1, <4>1
    <3>4. QED BY <2>2, <3>2, <3>3 DEF Live
  <2>3. QED BY <2>1, <2>2 DEF AppendsAreFresh, LiveInv
<1>2. QED BY <1>1, Invariance, PTL

\* The poller leaves no hole, however it mixes what it reads and predicts.
THEOREM NoHoles == Spec => []NoGap
<1>1. Init => NoGap
  BY DEF Init, NoGap
<1>2. ASSUME IInv, NoGap, [Next]_vars PROVE NoGap'
  <2> USE <1>2 DEF IInv
  <2>1. CASE UNCHANGED <<queued, prev>>
    BY <2>1 DEF NoGap
  <2>2. CASE PollQueue
    <3>1. prev \in Int /\ prev' = prev + 1 /\ queued' = queued \cup {prev + 1}
      BY <2>2 DEF PollQueue, TypeOK
    <3>2. \A b \in queued : b \in Int /\ b <= prev
      BY DEF ListInv, TypeOK, Blocks
    <3>3. ASSUME NEW b \in queued', NEW c \in b .. prev' PROVE c \in queued'
      BY <3>1, <3>2, <3>3 DEF NoGap
    <3>4. QED BY <3>3 DEF NoGap
  <2>3. CASE PollRead
    <3>1. queued' = queued /\ (prev' = prev \/ prev < 0)
      BY <2>3 DEF PollRead, PollFails, PollAnswered, Poll, ChooseTarget, history
    <3>2. CASE prev < 0
      <4>1. queued = {}
        BY <3>2 DEF ListInv, TypeOK, Blocks
      <4>2. QED BY <3>1, <4>1 DEF NoGap
    <3>3. QED BY <2>1, <3>1, <3>2
  <2>4. QED
    <3>1. [Next]_vars => UNCHANGED <<queued, prev>> \/ PollQueue \/ PollRead
      BY DEF Next, vars, ChainGrows, ExitCommand, Poller, PollSleep, PollExit, MainLoop, Crash, Time,
             Stopped, Worker, ScanStart, ScanNoWorker, ScanRaises, ScanEnd, RemoveOne, RemoveEnd,
             Process, ProcessRaises, ProcessEnd, WaitCheck, FlushEnd, WaitTimeout, BecomesDue,
             FetchRetry, FetchMissed, FetchSucceeds, PresaleRaises, Deliver, OwnJobDone, pollVars, history
    <3>2. QED BY <1>2, <2>1, <2>2, <2>3, <3>1
<1>3. QED BY <1>1, <1>2, Invariance, PTL DEF Spec
-----------------------------------------------------------------------------
(* The refinement *)

status == [b \in Blocks |-> StatusOf(b)]

\* In which place a block is decides its status.
Placed(b, s) ==
  /\ b \in Waiting <=> s = "waiting"
  /\ b \in Fetching <=> s = "fetching"
  /\ b \in txQueue <=> s = "handed"
  /\ b \in scanned <=> s = "scanned"
  /\ b \in missed <=> s = "missed"
  /\ b \in dropped <=> s = "dropped"
  /\ b \in lost <=> s = "lost"
  /\ b \notin queued <=> s = "unseen"

LEMMA StatusPlaces == Accounted => \A b \in Blocks : Placed(b, status[b])
<1> SUFFICES ASSUME Accounted, NEW b \in Blocks PROVE Placed(b, status[b])
  OBVIOUS
<1>1. status[b] = StatusOf(b)
  BY DEF status
<1>2. CASE b \in Waiting
  BY <1>1, <1>2 DEF Accounted, Ends, Placed, StatusOf
<1>3. CASE b \in Fetching
  BY <1>1, <1>3 DEF Accounted, Ends, Placed, StatusOf
<1>4. CASE b \in txQueue
  BY <1>1, <1>4 DEF Accounted, Ends, Placed, StatusOf
<1>5. CASE b \in Ends
  BY <1>1, <1>5 DEF Accounted, Ends, Placed, StatusOf
<1>6. CASE b \notin queued
  BY <1>1, <1>6 DEF Accounted, Ends, Placed, StatusOf
<1>7. QED BY <1>2, <1>3, <1>4, <1>5, <1>6 DEF Accounted

LEMMA StatusPlacesNext == Accounted' => \A b \in Blocks : Placed(b, status[b])'
<1> SUFFICES ASSUME Accounted', NEW b \in Blocks PROVE Placed(b, status[b])'
  OBVIOUS
<1>1. status[b]' = StatusOf(b)'
  BY DEF status
<1>2. CASE b \in Waiting'
  BY <1>1, <1>2 DEF Accounted, Ends, Placed, StatusOf
<1>3. CASE b \in Fetching'
  BY <1>1, <1>3 DEF Accounted, Ends, Placed, StatusOf
<1>4. CASE b \in txQueue'
  BY <1>1, <1>4 DEF Accounted, Ends, Placed, StatusOf
<1>5. CASE b \in Ends'
  BY <1>1, <1>5 DEF Accounted, Ends, Placed, StatusOf
<1>6. CASE b \notin queued'
  BY <1>1, <1>6 DEF Accounted, Ends, Placed, StatusOf
<1>7. QED BY <1>2, <1>3, <1>4, <1>5, <1>6 DEF Accounted

\* A block that stays where it is keeps its status.
LEMMA StatusKept ==
  ASSUME Accounted, Accounted', NEW b \in Blocks,
         b \in Waiting' <=> b \in Waiting, b \in Fetching' <=> b \in Fetching,
         b \in txQueue' <=> b \in txQueue, b \in scanned' <=> b \in scanned,
         b \in missed' <=> b \in missed, b \in dropped' <=> b \in dropped,
         b \in lost' <=> b \in lost
  PROVE  status'[b] = status[b]
BY DEF status, StatusOf
-----------------------------------------------------------------------------
\* The poller, the clock, the exit and the bookkeeping of the main loop.
LEMMA QuietRefines ==
  ASSUME UNCHANGED work
  PROVE  UNCHANGED Lifecycle!vars
<1>1. UNCHANGED <<Waiting, Fetching>>
  BY DEF work, Waiting, Fetching, Live, Busy
<1>2. \A b \in Blocks : StatusOf(b)' = StatusOf(b)
  BY <1>1 DEF work, StatusOf
<1>3. QED BY <1>2 DEF Lifecycle!vars, work

LEMMA StatusMove ==
  ASSUME NEW b \in Blocks, NEW t, status'[b] = t,
         \A c \in Blocks : c # b => status'[c] = status[c]
  PROVE  status' = [status EXCEPT ![b] = t]
BY DEF status

LEMMA QueueRefines ==
  ASSUME IInv, IInv', PollQueue
  PROVE  \E b \in Blocks : Lifecycle!Queue(b)
<1> DEFINE b == prev + 1
           new == <<prev + 1, 0>>
<1> USE DEF IInv
<1>1. b \in Blocks /\ prev \in Int
  BY PipelineAssumption DEF PollQueue, TypeOK, Blocks
<1>2. b \notin queued
  BY <1>1 DEF ListInv, TypeOK, Blocks
<1>3. Waiting' = Waiting \cup {b} /\ Fetching' = Fetching
  <2>1. Live' = Live \cup {new}
    BY <1>2 DEF PollQueue, Live, ListInv, mainVars
  <2>2. Waiting' = Waiting \cup {new[1]}
    BY <2>1 DEF Waiting
  <2>3. Fetching' = Fetching
    BY DEF PollQueue, Fetching, Busy, mainVars
  <2>4. QED BY <2>2, <2>3
<1>4. status[b] = "unseen" /\ status'[b] = "waiting"
  BY <1>1, <1>2, <1>3, StatusPlaces, StatusPlacesNext DEF Placed
<1>5. ASSUME NEW c \in Blocks, c # b PROVE status'[c] = status[c]
  BY <1>3, <1>5, StatusKept DEF PollQueue
<1>6. status' = [status EXCEPT ![b] = "waiting"]
  BY <1>1, <1>4, <1>5, StatusMove
<1>7. QED BY <1>1, <1>4, <1>6 DEF Lifecycle!Queue, Lifecycle!Move, PollQueue, status

LEMMA StartRefines ==
  ASSUME IInv, IInv', NEW e \in Entries, NEW w \in Workers, ScanStart(e, w)
  PROVE  \E b \in Blocks : Lifecycle!Assign(b)
<1> DEFINE b == e[1]
<1> USE DEF IInv, history
<1>1. /\ e \in Live /\ b \in Waiting /\ b \in Blocks
      /\ {f[1] : f \in Live \ {e}} = Waiting \ {b}
  BY DueIsLive DEF ScanStart
<1>2. /\ workers' = [workers EXCEPT ![w] = [stage |-> "fetch", num |-> e[1], rec |-> e[2]]]
      /\ w \notin Busy /\ workers \in [Workers -> Jobs \cup {NoJob, OwnJob, LateJob}]
  BY DEF ScanStart, Busy, Free, NoJob, TypeOK
<1>3. Busy' = Busy \cup {w} /\ workers'[w].num = b /\ \A v \in Busy : workers'[v] = workers[v]
  BY <1>2 DEF Busy
<1>4. Fetching' = Fetching \cup {b}
  BY <1>3 DEF Fetching
<1>5. Live' = Live \ {e}
  BY DEF ScanStart, Take, Live, listVars
<1>6. Waiting' = Waiting \ {b}
  BY <1>1, <1>5 DEF Waiting
<1>7. status[b] = "waiting" /\ status'[b] = "fetching"
  BY <1>1, <1>4, StatusPlaces, StatusPlacesNext DEF Placed
<1>8. ASSUME NEW c \in Blocks, c # b PROVE status'[c] = status[c]
  BY <1>4, <1>6, <1>8, StatusKept DEF ScanStart
<1>9. status' = [status EXCEPT ![b] = "fetching"]
  BY <1>1, <1>7, <1>8, StatusMove
<1>10. attempts[b] < MaxRecursion + 2
  <2>1. attempts[b] = e[2] /\ e[2] \in 0 .. MaxRecursion + 1
    BY <1>1 DEF AttemptsInv, Entries
  <2>2. QED BY <2>1, PipelineAssumption
<1>11. QED BY <1>1, <1>7, <1>9, <1>10 DEF Lifecycle!Assign, Lifecycle!Move, ScanStart, status

LEMMA NoWorkerRefines ==
  ASSUME IInv, IInv', NEW e \in Entries, ScanNoWorker(e)
  PROVE  \E b \in Blocks : Lifecycle!Drop(b)
<1> DEFINE b == e[1]
<1> USE DEF IInv
<1>1. /\ e \in Live /\ b \in Waiting /\ b \in Blocks
      /\ {f[1] : f \in Live \ {e}} = Waiting \ {b}
  BY DueIsLive DEF ScanNoWorker
<1>2. Fetching' = Fetching /\ Live' = Live \ {e}
  BY DEF ScanNoWorker, Take, Busy, Fetching, Live, listVars
<1>3. Waiting' = Waiting \ {b} /\ dropped' = dropped \cup {b}
  BY <1>1, <1>2 DEF Waiting, ScanNoWorker
<1>4. status[b] = "waiting" /\ status'[b] = "dropped"
  BY <1>1, <1>3, StatusPlaces, StatusPlacesNext DEF Placed
<1>5. ASSUME NEW c \in Blocks, c # b PROVE status'[c] = status[c]
  BY <1>2, <1>3, <1>5, StatusKept DEF ScanNoWorker
<1>6. status' = [status EXCEPT ![b] = "dropped"]
  BY <1>1, <1>4, <1>5, StatusMove
<1>7. QED BY <1>1, <1>4, <1>6 DEF Lifecycle!Drop, Lifecycle!Move, ScanNoWorker, status

LEMMA RemoveRefines ==
  ASSUME NEW e, RemoveOne(e)
  PROVE  UNCHANGED Lifecycle!vars
<1>1. Live' = Live /\ Busy' = Busy
  BY DEF RemoveOne, Removed, Live, Busy
<1>2. Waiting' = Waiting /\ Fetching' = Fetching
  BY <1>1 DEF Waiting, Fetching, RemoveOne
<1>3. \A b \in Blocks : StatusOf(b)' = StatusOf(b)
  BY <1>2 DEF RemoveOne, StatusOf, history
<1>4. QED BY <1>3 DEF Lifecycle!vars, RemoveOne, history

LEMMA ProcessRefines ==
  ASSUME IInv, IInv', NEW b \in Blocks, Process(b) \/ ProcessRaises(b)
  PROVE  \E S \in SUBSET Blocks : Lifecycle!ScanSome(S)
<1> USE DEF IInv
<1>1. /\ b \in txQueue /\ txQueue' = txQueue \ {b} /\ scanned' = scanned \cup {b}
      /\ OwnJobsStart /\ UNCHANGED <<block_list, bs_to_rm, attempts, missed, dropped, lost>>
  BY DEF Process, ProcessRaises, TakeFromQueue, listVars, mainVars
<1>2. Waiting' = Waiting /\ Fetching' = Fetching
  BY <1>1, OwnJobsApart DEF Live, Waiting
<1>3. status[b] = "handed" /\ status'[b] = "scanned"
  BY <1>1, <1>2, StatusPlaces, StatusPlacesNext DEF Placed
<1>4. ASSUME NEW c \in Blocks, c # b PROVE status'[c] = status[c]
  BY <1>1, <1>2, <1>4, StatusKept
<1>5. status' = [c \in Blocks |-> IF c \in {b} THEN "scanned" ELSE status[c]]
  BY <1>3, <1>4 DEF status
<1>6. Lifecycle!ScanSome({b})
  BY <1>1, <1>3, <1>5 DEF Lifecycle!ScanSome, status
<1>7. QED BY <1>6

LEMMA OwnDoneRefines ==
  ASSUME IInv, NEW w \in Workers, OwnJobDone(w)
  PROVE  UNCHANGED Lifecycle!vars
<1>1. Waiting' = Waiting /\ Fetching' = Fetching
  BY OwnJobsApart DEF IInv, OwnJobDone, Waiting, Live, listVars, mainVars
<1>2. \A b \in Blocks : StatusOf(b)' = StatusOf(b)
  BY <1>1 DEF OwnJobDone, StatusOf, history
<1>3. QED BY <1>2 DEF Lifecycle!vars, OwnJobDone, history

LEMMA TimeoutRefines ==
  ASSUME IInv, IInv', WaitTimeout
  PROVE  (\E S \in SUBSET Blocks : Lifecycle!LoseSome(S)) \/ UNCHANGED Lifecycle!vars
<1> USE DEF IInv
<1>1. Fetching' = {} /\ lost' = lost \cup Fetching /\ Waiting' = Waiting
      /\ UNCHANGED <<txQueue, scanned, missed, dropped, attempts>>
  BY DEF WaitTimeout, Busy, NoJob, Fetching, Waiting, Live, listVars
<1>2. Fetching \in SUBSET Blocks
  BY BusyAreJobs DEF Busy, Jobs, Fetching
<1>3. \A b \in Fetching : status[b] = "fetching" /\ status'[b] = "lost"
  BY <1>1, <1>2, StatusPlaces, StatusPlacesNext DEF Placed
<1>4. ASSUME NEW c \in Blocks \ Fetching PROVE status'[c] = status[c]
  BY <1>1, <1>4, StatusKept
<1>5. status' = [c \in Blocks |-> IF c \in Fetching THEN "lost" ELSE status[c]]
  BY <1>3, <1>4 DEF status
<1>6. CASE Fetching = {}
  BY <1>1, <1>5, <1>6 DEF Lifecycle!vars, status
<1>7. CASE Fetching # {}
  <2>1. Lifecycle!LoseSome(Fetching)
    BY <1>1, <1>3, <1>5, <1>7 DEF Lifecycle!LoseSome, status
  <2>2. QED BY <1>2, <2>1
<1>8. QED BY <1>6, <1>7
-----------------------------------------------------------------------------
(* The processes. *)

\* What a process does to its own block when it ends.
LEMMA JobLeaves ==
  ASSUME IInv, NEW w \in Workers, workers[w].stage \in {"fetch", "deliver"}
  PROVE  /\ w \in Busy /\ workers[w].num \in Blocks /\ workers[w].num \in Fetching
         /\ workers' = [workers EXCEPT ![w] = NoJob]
              => Fetching' = Fetching \ {workers[w].num}
<1>1. w \in Busy
  BY DEF Busy
<1>2. CASE workers' = [workers EXCEPT ![w] = NoJob]
  BY <1>1, <1>2, JobEnds
<1>3. workers[w].num \in Blocks /\ workers[w].num \in Fetching
  BY <1>1, BusyAreJobs DEF IInv, Jobs, Fetching
<1>4. QED BY <1>1, <1>2, <1>3

LEMMA CallFailsRefines ==
  ASSUME IInv, IInv', NEW w \in Workers, FetchRetry(w) \/ FetchMissed(w)
  PROVE  \E b \in Blocks : Lifecycle!CallFails(b)
<1> DEFINE b == workers[w].num
           new == <<workers[w].num, workers[w].rec + 1>>
<1> USE DEF IInv
<1>1. /\ workers[w].stage = "fetch"
      /\ workers' = [workers EXCEPT ![w] = NoJob]
      /\ attempts' = [attempts EXCEPT ![b] = @ + 1]
      /\ UNCHANGED <<bs_to_rm, txQueue, scanned, dropped, lost>>
  BY DEF FetchRetry, FetchMissed, Fetches, mainVars
<1>2. /\ w \in Busy /\ b \in Blocks /\ b \in Fetching /\ Fetching' = Fetching \ {b}
  BY <1>1, JobLeaves
<1>3. status[b] = "fetching"
  BY <1>2, StatusPlaces DEF Placed
<1>4. /\ attempts[b] = workers[w].rec /\ attempts'[b] = workers[w].rec + 1
      /\ workers[w].rec \in 0 .. MaxRecursion + 1
  BY <1>1, <1>2, BusyAreJobs DEF AttemptsInv, TypeOK, Jobs
<1>5. ASSUME NEW t, status'[b] = t, \A c \in Blocks : c # b => status'[c] = status[c]
      PROVE  Lifecycle!Move(b, "fetching", t)
  <2>1. status' = [status EXCEPT ![b] = t]
    BY <1>2, <1>5, StatusMove
  <2>2. QED BY <1>2, <1>3, <2>1 DEF Lifecycle!Move, status
<1>6. CASE FetchRetry(w)
  <2>1. block_list' = block_list \cup {new} /\ missed' = missed /\ workers[w].rec <= MaxRecursion
    BY <1>4, <1>6, PipelineAssumption DEF FetchRetry, OutOfTries
  <2>2. new \notin bs_to_rm
    <3>1. new \in bs_to_rm => workers[w].rec + 1 <= workers[w].rec
      BY <1>2 DEF OlderInv
    <3>2. QED BY <1>4, <3>1
  <2>3. Live' = Live \cup {new}
    BY <1>1, <2>1, <2>2 DEF Live
  <2>4. Waiting' = Waiting \cup {new[1]}
    BY <2>3 DEF Waiting
  <2>5. status'[b] = "waiting"
    BY <1>2, <2>4, StatusPlacesNext DEF Placed
  <2>6. ASSUME NEW c \in Blocks, c # b PROVE status'[c] = status[c]
    BY <1>1, <1>2, <2>1, <2>4, <2>6, StatusKept
  <2>7. Lifecycle!Move(b, "fetching", "waiting")
    BY <1>5, <2>5, <2>6
  <2>8. attempts'[b] < MaxRecursion + 2
    BY <1>4, <2>1, PipelineAssumption
  <2>9. QED BY <1>1, <1>2, <2>7, <2>8 DEF Lifecycle!CallFails
<1>7. CASE FetchMissed(w)
  <2>1. /\ block_list' = block_list /\ missed' = missed \cup {b} /\ workers[w].rec > MaxRecursion
    BY <1>7 DEF FetchMissed, OutOfTries, listVars
  <2>2. Waiting' = Waiting
    BY <1>1, <2>1 DEF Waiting, Live
  <2>3. status'[b] = "missed"
    BY <1>2, <2>1, StatusPlacesNext DEF Placed
  <2>4. ASSUME NEW c \in Blocks, c # b PROVE status'[c] = status[c]
    BY <1>1, <1>2, <2>1, <2>2, <2>4, StatusKept
  <2>5. Lifecycle!Move(b, "fetching", "missed")
    BY <1>5, <2>3, <2>4
  <2>6. attempts'[b] = MaxRecursion + 2
    BY <1>4, <2>1, PipelineAssumption
  <2>7. QED BY <1>1, <1>2, <2>5, <2>6 DEF Lifecycle!CallFails
<1>8. QED BY <1>6, <1>7

LEMMA CallSucceedsRefines ==
  ASSUME IInv, IInv', NEW w \in Workers, FetchSucceeds(w)
  PROVE  \E b \in Blocks : Lifecycle!CallSucceeds(b)
<1> DEFINE b == workers[w].num
<1> USE DEF IInv
<1>1. /\ workers[w].stage = "fetch"
      /\ workers' = [workers EXCEPT ![w].stage = "deliver"]
      /\ attempts' = [attempts EXCEPT ![b] = @ + 1]
      /\ UNCHANGED <<block_list, bs_to_rm, txQueue, scanned, missed, dropped, lost>>
  BY DEF FetchSucceeds, Fetches, mainVars, listVars
<1>2. b \in Blocks /\ b \in Fetching /\ w \in Busy
  BY <1>1, JobLeaves
<1>3. Busy' = Busy /\ \A v \in Busy : workers'[v].num = workers[v].num
  <2>1. workers[w] \in Jobs
    BY <1>2, BusyAreJobs
  <2>2. workers'[w].stage = "deliver" /\ workers'[w].num = b
    BY <1>1, <2>1 DEF TypeOK, Jobs
  <2>3. \A v \in Workers : v # w => workers'[v] = workers[v]
    BY <1>1 DEF TypeOK
  <2>4. QED BY <1>2, <2>2, <2>3 DEF Busy
<1>4. Fetching' = Fetching /\ Waiting' = Waiting
  BY <1>1, <1>3 DEF Fetching, Waiting, Live
<1>5. \A c \in Blocks : StatusOf(c)' = StatusOf(c)
  BY <1>1, <1>4 DEF StatusOf
<1>6. status[b] = "fetching"
  BY <1>2, StatusPlaces DEF Placed
<1>7. QED BY <1>1, <1>2, <1>5, <1>6 DEF Lifecycle!CallSucceeds, status

LEMMA DeliverRefines ==
  ASSUME IInv, IInv', NEW w \in Workers, Deliver(w)
  PROVE  \E b \in Blocks : Lifecycle!HandOver(b)
<1> DEFINE b == workers[w].num
<1> USE DEF IInv
<1>1. /\ workers[w].stage = "deliver" /\ workers' = [workers EXCEPT ![w] = NoJob]
      /\ txQueue' = txQueue \cup {b}
      /\ UNCHANGED <<block_list, bs_to_rm, attempts, scanned, missed, dropped, lost>>
  BY DEF Deliver, Delivers, mainVars, listVars, history
<1>2. b \in Blocks /\ b \in Fetching /\ Fetching' = Fetching \ {b} /\ Waiting' = Waiting
  BY <1>1, JobLeaves DEF Waiting, Live
<1>3. status[b] = "fetching" /\ status'[b] = "handed"
  BY <1>1, <1>2, StatusPlaces, StatusPlacesNext DEF Placed
<1>4. ASSUME NEW c \in Blocks, c # b PROVE status'[c] = status[c]
  BY <1>1, <1>2, <1>4, StatusKept
<1>5. status' = [status EXCEPT ![b] = "handed"]
  BY <1>2, <1>3, <1>4, StatusMove
<1>6. QED BY <1>1, <1>2, <1>3, <1>5 DEF Lifecycle!HandOver, Lifecycle!Move, status

LEMMA PresaleRefines ==
  ASSUME IInv, IInv', NEW w \in Workers, PresaleRaises(w)
  PROVE  \E S \in SUBSET Blocks : Lifecycle!LoseSome(S)
<1> DEFINE b == workers[w].num
<1> USE DEF IInv
<1>1. /\ workers[w].stage = "deliver" /\ workers' = [workers EXCEPT ![w] = NoJob]
      /\ lost' = lost \cup {b}
      /\ UNCHANGED <<block_list, bs_to_rm, txQueue, attempts, scanned, missed, dropped>>
  BY DEF PresaleRaises, Delivers, mainVars, listVars
<1>2. b \in Blocks /\ b \in Fetching /\ Fetching' = Fetching \ {b} /\ Waiting' = Waiting
  BY <1>1, JobLeaves DEF Waiting, Live
<1>3. status[b] = "fetching" /\ status'[b] = "lost"
  BY <1>1, <1>2, StatusPlaces, StatusPlacesNext DEF Placed
<1>4. ASSUME NEW c \in Blocks, c # b PROVE status'[c] = status[c]
  BY <1>1, <1>2, <1>4, StatusKept
<1>5. status' = [c \in Blocks |-> IF c \in {b} THEN "lost" ELSE status[c]]
  BY <1>2, <1>3, <1>4 DEF status
<1>6. Lifecycle!LoseSome({b})
  BY <1>1, <1>2, <1>3, <1>5 DEF Lifecycle!LoseSome, status
<1>7. QED BY <1>2, <1>6
-----------------------------------------------------------------------------
\* At the start every block is unseen and has cost nothing.
LEMMA InitRefines == Init => Lifecycle!Init
<1> SUFFICES ASSUME Init PROVE Lifecycle!Init
  OBVIOUS
<1>1. Waiting = {} /\ Fetching = {}
  BY DEF Init, Waiting, Fetching, Live, Busy, NoJob
<1>2. \A b \in Blocks : StatusOf(b) = "unseen"
  BY <1>1 DEF Init, StatusOf
<1>3. QED BY <1>2 DEF Init, Lifecycle!Init

LEMMA StepRefines == IInv /\ IInv' /\ [Next]_vars => [Lifecycle!Next]_(Lifecycle!vars)
<1> SUFFICES ASSUME IInv, IInv', [Next]_vars PROVE Lifecycle!Next \/ UNCHANGED Lifecycle!vars
  OBVIOUS
<1>1. CASE UNCHANGED work
  BY <1>1, QuietRefines
<1>2. CASE PollQueue
  BY <1>2, QueueRefines DEF Lifecycle!Next
<1>3. ASSUME NEW e \in Entries, NEW w \in Workers, ScanStart(e, w)
      PROVE  Lifecycle!Next
  BY <1>3, StartRefines DEF Lifecycle!Next
<1>4. ASSUME NEW e \in Entries, ScanNoWorker(e)
      PROVE  Lifecycle!Next
  BY <1>4, NoWorkerRefines DEF Lifecycle!Next
<1>5. ASSUME NEW e \in Entries, RemoveOne(e)
      PROVE  UNCHANGED Lifecycle!vars
  BY <1>5, RemoveRefines
<1>6. ASSUME NEW b \in Blocks, Process(b) \/ ProcessRaises(b)
      PROVE  Lifecycle!Next
  BY <1>6, ProcessRefines DEF Lifecycle!Next
<1>7. CASE WaitTimeout
  BY <1>7, TimeoutRefines DEF Lifecycle!Next
<1>8. ASSUME NEW w \in Workers, Worker(w)
      PROVE  Lifecycle!Next
  BY <1>8, CallFailsRefines, CallSucceedsRefines, DeliverRefines, PresaleRefines
     DEF Worker, Lifecycle!Next
<1>9. ASSUME NEW w \in Workers, OwnJobDone(w)
       PROVE  UNCHANGED Lifecycle!vars
  BY <1>9, OwnDoneRefines
<1>10. \/ UNCHANGED work \/ PollQueue \/ WaitTimeout
       \/ \E e \in Entries : \/ ScanNoWorker(e) \/ RemoveOne(e)
                             \/ \E w \in Workers : ScanStart(e, w)
       \/ \E b \in Blocks : Process(b) \/ ProcessRaises(b)
       \/ \E w \in Workers : Worker(w) \/ OwnJobDone(w)
  <2>1. CASE \/ UNCHANGED vars \/ ChainGrows \/ ExitCommand \/ PollRead \/ PollSleep \/ PollExit
             \/ \E e \in Entries : BecomesDue(e) \/ ScanRaises(e)
             \/ ScanEnd \/ RemoveEnd \/ ProcessEnd \/ WaitCheck \/ FlushEnd
    BY <2>1 DEF vars, ChainGrows, ExitCommand, PollRead, PollFails, PollAnswered, Poll, PollSleep,
         PollExit, ScanRaises, ScanEnd, RemoveEnd, ProcessEnd, WaitCheck, FlushEnd, BecomesDue,
         pollVars, listVars, mainVars, history, work
  <2>2. QED BY <2>1 DEF Next, Poller, MainLoop, Crash, Time, Stopped
<1>11. QED BY <1>1, <1>2, <1>3, <1>4, <1>5, <1>6, <1>7, <1>8, <1>9, <1>10

\* The pipeline keeps the promise of BlockLifecycle about every block, however
\* many blocks, nodes and worker slots there are: a block is queued once, asked
\* for by one process at a time and within its tries, and handed over once.
THEOREM Refinement == Spec => KeepsLifecycle
<1>1. Init => Lifecycle!Init
  BY InitRefines
<1>2. IInv /\ IInv' /\ [Next]_vars => [Lifecycle!Next]_(Lifecycle!vars)
  BY StepRefines
<1>3. QED BY <1>1, <1>2, Invariance, PTL DEF Spec, KeepsLifecycle, Lifecycle!Spec
=============================================================================
