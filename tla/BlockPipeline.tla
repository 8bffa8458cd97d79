---------------------------- MODULE BlockPipeline ----------------------------
(***************************************************************************)
(* The realtime block pipeline of altcoin/web3bsc/web3bsc.py.              *)
(*                                                                         *)
(* poll_block_num() runs in a process of its own and appends new block     *)
(* numbers to block_list, which it shares with the main loop of            *)
(* poll_transactions().  The main loop starts one process per due entry    *)
(* (get_block_transactions), removes the entries it has gone through,      *)
(* drains worker_tx_queue and starts again.  A worker that fails appends   *)
(* its block again with a delay.  A transaction may start a process of its *)
(* own in a worker slot.  The exit command makes both loops stop, the main *)
(* one through wait_all_th_finish().                                       *)
(*                                                                         *)
(* block_list is a set of entries <<number, recursion_cnt>>: its order     *)
(* only decides which block meets a full pool.  AppendsAreFresh shows that *)
(* no append ever finds its entry already there, so nothing is merged.     *)
(* time_to_process is whether the entry is due.  All the transactions of a *)
(* block travel together.                                                  *)
(***************************************************************************)
EXTENDS Integers, FiniteSets

CONSTANTS
  MaxBlock,      \* bound: the largest block number the run reaches
  Rpcs,          \* how many nodes w3_get_block holds
  Workers,       \* the worker slots of self.workers
  Behind,        \* minus poll_blocknum_offset: how far behind the tip to stay (10 by default)
  StartHead,     \* the height of the chain when the scanner starts
  MaxLag,        \* how far a node may be behind the chain
  MaxAhead,      \* bound: blocks one prediction may add
  EpochAhead,    \* what the prediction adds on the first poll, when last_block_ts is -1
  MaxRecursion   \* a worker gives up when recursion_cnt > MaxRecursion (4 in the code)

ASSUME PipelineAssumption ==
  /\ MaxBlock \in Nat
  /\ Rpcs \in Nat \ {0}
  /\ Behind \in Nat
  /\ StartHead \in 0 .. MaxBlock
  /\ MaxLag \in Nat
  /\ MaxAhead \in Nat
  /\ EpochAhead \in Nat \ {0}
  /\ MaxRecursion \in Nat

Blocks == 0 .. MaxBlock
Entries == Blocks \X (0 .. MaxRecursion + 1)

\* What a worker slot holds: no live process; the process of one block, which
\* is calling the node or has the block and is about to hand it over; or one
\* that a transaction has started, "late" when wait_all_th_finish had already
\* found all slots free.
NoJob == [stage |-> "free"]
OwnJob == [stage |-> "own"]
LateJob == [stage |-> "late"]
Jobs == [stage : {"fetch", "deliver"}, num : Blocks, rec : 0 .. MaxRecursion + 1]

VARIABLES
  head,        \* height of the chain
  ppc,         \* poll_block_num: "poll", "queue" or "done"
  prev,        \* prev_block_number
  target,      \* block_num, which outlives an iteration of the loop
  block_list,  \* the shared list
  due,         \* its entries whose time_to_process has passed
  mpc,         \* poll_transactions: "scan", "remove", "process", "wait", "flush", "done", "crashed"
  bs_to_rm,    \* entries the for loop has taken, to be removed after it
  workers,     \* self.workers
  txQueue,     \* worker_tx_queue: blocks whose transactions are in it
  allFree,     \* all_worker_free of wait_all_th_finish
  exiting,     \* mp_exit_main_loop
  killed,      \* history: wait_all_th_finish has timed out
  queued,      \* history: block numbers poll_block_num has appended
  attempts,    \* history: get_block calls per block
  scanned, missed, dropped, lost   \* history: how the blocks ended

pollVars == <<ppc, prev, target>>
listVars == <<block_list, due>>
mainVars == <<mpc, bs_to_rm, allFree, killed>>
history == <<queued, attempts, scanned, missed, dropped, lost>>
vars == <<head, pollVars, listVars, mainVars, workers, txQueue, exiting, history>>
-----------------------------------------------------------------------------
Init ==
  /\ head = StartHead
  /\ ppc = "poll" /\ prev = -1 /\ target = -1
  /\ block_list = {} /\ due = {}
  /\ mpc = "scan" /\ bs_to_rm = {} /\ allFree = FALSE /\ killed = FALSE
  /\ workers = [w \in Workers |-> NoJob]
  /\ txQueue = {} /\ exiting = FALSE
  /\ queued = {} /\ attempts = [b \in Blocks |-> 0]
  /\ scanned = {} /\ missed = {} /\ dropped = {} /\ lost = {}

Free == {w \in Workers : workers[w] = NoJob}
Busy == {w \in Workers : workers[w].stage \in {"fetch", "deliver"}}
Fetching == {workers[w].num : w \in Busy}

\* The chain grows (the node is outside the repository).
ChainGrows == /\ head < MaxBlock
              /\ head' = head + 1
              /\ UNCHANGED <<pollVars, listVars, mainVars, workers, txQueue, exiting, history>>

\* The exit command of listen_to_external_commands.
ExitCommand == /\ ~exiting
               /\ exiting' = TRUE
               /\ UNCHANGED <<head, pollVars, listVars, mainVars, workers, txQueue, history>>
-----------------------------------------------------------------------------
(* poll_block_num *)

Heights == {h \in Blocks : h <= head /\ h >= head - MaxLag}

ChooseTargetJumps(web3, leaked, ahead) ==       \* fault: has a read number down as queued
  IF prev < web3 THEN target' = web3 /\ prev' = web3
                 ELSE target' = prev + 1 /\ UNCHANGED prev

ChooseTargetLate(web3, leaked, ahead) ==        \* fault: off by one, and no fallback
  IF prev + 1 < web3 THEN target' = web3 /\ prev' = IF prev < 0 THEN web3 - 1 ELSE prev
                     ELSE target' = prev /\ UNCHANGED prev

\* web3 is max(block_nums) + block_offset.  When neither branch is taken
\* block_num still is what the loop over the nodes has left in it.
ChooseTarget(web3, leaked, ahead) ==
  LET pred == prev + IF prev = -1 THEN EpochAhead ELSE ahead
  IN IF prev < web3 THEN /\ target' = web3
                         /\ prev' = IF prev < 0 THEN web3 - 1 ELSE prev
                    ELSE /\ target' = IF prev < pred THEN pred ELSE leaked
                         /\ UNCHANGED prev

Poll(web3, leaked) ==
  /\ ppc = "poll" /\ ~exiting
  /\ \E ahead \in 0 .. MaxAhead : ChooseTarget(web3, leaked, ahead)
  /\ target' <= MaxBlock
  /\ ppc' = "queue"
  /\ UNCHANGED <<head, listVars, mainVars, workers, txQueue, exiting, history>>

\* Every node raises: block_nums is [-1], and block_num that of the last loop.
PollFails == Poll(-1 - Behind, target)

\* Some nodes answer: top is the highest answer, last that of the last one.
\* Neither carries the offset yet.
PollAnswered(top) == \E last \in Heights : /\ last <= top
                                           /\ last = top \/ Rpcs > 1
                                           /\ Poll(top - Behind, last)

PollRead == PollFails \/ \E top \in Heights : PollAnswered(top)

\* One turn of `for b in range(prev_block_number, block_num)`.
PollQueue ==
  /\ ppc = "queue" /\ prev < target
  /\ block_list' = block_list \cup {<<prev + 1, 0>>}
  /\ due' = due \cup {<<prev + 1, 0>>}
  /\ prev' = prev + 1
  /\ queued' = queued \cup {prev + 1}
  /\ UNCHANGED <<head, ppc, target, mainVars, workers, txQueue, exiting,
                 attempts, scanned, missed, dropped, lost>>

PollSleep == /\ ppc = "queue" /\ prev >= target
             /\ ppc' = "poll"
             /\ UNCHANGED <<head, prev, target, listVars, mainVars, workers, txQueue, exiting, history>>

PollExit == /\ ppc = "poll" /\ exiting
            /\ ppc' = "done"
            /\ UNCHANGED <<head, prev, target, listVars, mainVars, workers, txQueue, exiting, history>>

BecomesDueFresh(e) == /\ e \in block_list \ due /\ e[2] = 0   \* fault: a retry never comes up
                      /\ due' = due \cup {e}
                      /\ UNCHANGED <<head, pollVars, block_list, mainVars, workers, txQueue, exiting, history>>

\* The delay of a retry runs out.
BecomesDue(e) == /\ e \in block_list \ due
                 /\ due' = due \cup {e}
                 /\ UNCHANGED <<head, pollVars, block_list, mainVars, workers, txQueue, exiting, history>>
-----------------------------------------------------------------------------
(* The main loop of poll_transactions *)

\* The for loop comes to an entry that is due.  It passes over the others: one
\* that becomes due behind the loop's back is taken by the next scan, as if it
\* had become due only then.
Visits(e) == mpc = "scan" /\ e \in due \ bs_to_rm

\* bs_to_rm.append(b)
Take(e) == bs_to_rm' = bs_to_rm \cup {e}

\* get_free_worker_idx finds a slot without a live process.
ScanStart(e, w) ==
  /\ Visits(e)
  /\ w \in Free
  /\ workers' = [workers EXCEPT ![w] = [stage |-> "fetch", num |-> e[1], rec |-> e[2]]]
  /\ Take(e)
  /\ UNCHANGED <<head, pollVars, listVars, mpc, allFree, killed, txQueue, exiting, history>>

\* No free worker: an ERROR line is logged, and the entry is removed all the same.
ScanNoWorker(e) ==
  /\ Visits(e)
  /\ Free = {}
  /\ Take(e)
  /\ dropped' = dropped \cup {e[1]}
  /\ UNCHANGED <<head, pollVars, listVars, mpc, allFree, killed, workers, txQueue, exiting,
                 queued, attempts, scanned, missed, lost>>

\* Starting the process raises.  The handler formats block_num, which only
\* the replay mode assigns, so the handler raises as well and the loop is gone.
ScanRaises(e) ==
  /\ Visits(e)
  /\ Free # {}
  /\ mpc' = "crashed"
  /\ UNCHANGED <<head, pollVars, listVars, bs_to_rm, allFree, killed, workers, txQueue,
                 exiting, history>>

ScanEnd == /\ mpc = "scan" /\ due \subseteq bs_to_rm
           /\ mpc' = "remove"
           /\ UNCHANGED <<head, pollVars, listVars, bs_to_rm, allFree, killed, workers,
                          txQueue, exiting, history>>

RemovedByNumber(e) == {f \in block_list : f[1] = e[1]}   \* fault: takes a fresh retry along

\* self.block_list.remove(b_to_rm): the entry that equals it.
Removed(e) == {e}

RemoveOne(e) == /\ mpc = "remove" /\ e \in bs_to_rm
                /\ block_list' = block_list \ Removed(e)
                /\ due' = due \ Removed(e)
                /\ bs_to_rm' = bs_to_rm \ {e}
                /\ UNCHANGED <<head, pollVars, mpc, allFree, killed, workers, txQueue,
                               exiting, history>>

RemoveEnd == /\ mpc = "remove" /\ bs_to_rm = {}
             /\ mpc' = "process"
             /\ UNCHANGED <<head, pollVars, listVars, bs_to_rm, allFree, killed, workers,
                            txQueue, exiting, history>>

\* start_worker takes what is in the queue and processes it in this process.
TakeFromQueue(b) == /\ mpc \in {"process", "flush"} /\ b \in txQueue
                    /\ txQueue' = txQueue \ {b}

\* What process_transaction leaves in the slots: a transaction of an account
\* of its own, a swap of the token or an event to claim is given a free one,
\* if there is one, for a process that waits for its receipt.
OwnJobsStart ==
  \E S \in SUBSET Free :
    workers' = [w \in Workers |-> IF w \notin S THEN workers[w]
                                  ELSE IF mpc = "flush" /\ allFree THEN LateJob ELSE OwnJob]

Process(b) == /\ TakeFromQueue(b)
              /\ OwnJobsStart
              /\ scanned' = scanned \cup {b}
              /\ UNCHANGED <<head, pollVars, listVars, mainVars, exiting,
                             queued, attempts, missed, dropped, lost>>

\* process_transaction raises (decode_function_input does on a call the ABI
\* does not know); nothing catches it.
ProcessRaises(b) == /\ TakeFromQueue(b)
                    /\ OwnJobsStart
                    /\ scanned' = scanned \cup {b}
                    /\ mpc' = "crashed"
                    /\ UNCHANGED <<head, pollVars, listVars, bs_to_rm, allFree, killed,
                                   exiting, queued, attempts, missed, dropped, lost>>

\* The queue is empty: sleep, and start the loop again unless told to exit.
ProcessEnd == /\ mpc = "process" /\ txQueue = {}
              /\ mpc' = IF exiting THEN "wait" ELSE "scan"
              /\ UNCHANGED <<head, pollVars, listVars, bs_to_rm, allFree, killed, workers, txQueue,
                             exiting, history>>
-----------------------------------------------------------------------------
(* wait_all_th_finish *)

WaitCheck == /\ mpc = "wait"
             /\ allFree' = (Free = Workers)
             /\ mpc' = "flush"
             /\ UNCHANGED <<head, pollVars, listVars, bs_to_rm, killed, workers, txQueue,
                            exiting, history>>

FlushEndAtOnce ==                           \* fault: returns before the queue is drained
  /\ mpc = "flush" /\ mpc' = IF allFree THEN "done" ELSE "wait"
  /\ UNCHANGED <<head, pollVars, listVars, bs_to_rm, allFree, killed, workers, txQueue, exiting, history>>

FlushEnd == /\ mpc = "flush" /\ txQueue = {}
            /\ mpc' = IF allFree THEN "done" ELSE "wait"
            /\ UNCHANGED <<head, pollVars, listVars, bs_to_rm, allFree, killed, workers,
                           txQueue, exiting, history>>

\* After max_wait every live process is terminated and the wait ends at once.
WaitTimeout ==
  /\ mpc = "wait"
  /\ killed' = TRUE
  /\ lost' = lost \cup Fetching
  /\ workers' = [w \in Workers |-> NoJob]
  /\ mpc' = "done"
  /\ UNCHANGED <<head, pollVars, listVars, bs_to_rm, allFree, txQueue, exiting,
                 queued, attempts, scanned, missed, dropped>>
-----------------------------------------------------------------------------
(* get_block_transactions, in the process of slot w *)

Fetches(w) == /\ workers[w].stage = "fetch"
              /\ attempts' = [attempts EXCEPT ![workers[w].num] = @ + 1]

OutOfTriesEarly(w) == workers[w].rec >= MaxRecursion       \* fault: one try too few

\* recursion_cnt > 4
OutOfTries(w) == workers[w].rec > MaxRecursion

FetchRetry(w) ==
  /\ Fetches(w)
  /\ ~OutOfTries(w)
  /\ block_list' = block_list \cup {<<workers[w].num, workers[w].rec + 1>>}
  /\ workers' = [workers EXCEPT ![w] = NoJob]
  /\ UNCHANGED <<head, pollVars, due, mainVars, txQueue, exiting,
                 queued, scanned, missed, dropped, lost>>

FetchMissed(w) ==
  /\ Fetches(w)
  /\ OutOfTries(w)
  /\ missed' = missed \cup {workers[w].num}
  /\ workers' = [workers EXCEPT ![w] = NoJob]
  /\ UNCHANGED <<head, pollVars, listVars, mainVars, txQueue, exiting,
                 queued, scanned, dropped, lost>>

FetchSucceeds(w) ==
  /\ Fetches(w)
  /\ workers' = [workers EXCEPT ![w].stage = "deliver"]
  /\ UNCHANGED <<head, pollVars, listVars, mainVars, txQueue, exiting,
                 queued, scanned, missed, dropped, lost>>

Delivers(w) == workers[w].stage = "deliver"

\* presale_process raises, for one on the empty median window every
\* block_dt_collection_max_size blocks: the process dies with the block.
PresaleRaises(w) ==
  /\ Delivers(w)
  /\ lost' = lost \cup {workers[w].num}
  /\ workers' = [workers EXCEPT ![w] = NoJob]
  /\ UNCHANGED <<head, pollVars, listVars, mainVars, txQueue, exiting,
                 queued, attempts, scanned, missed, dropped>>

Deliver(w) ==
  /\ Delivers(w)
  /\ txQueue' = txQueue \cup {workers[w].num}
  /\ workers' = [workers EXCEPT ![w] = NoJob]
  /\ UNCHANGED <<head, pollVars, listVars, mainVars, exiting, history>>

\* The process that a transaction has started ends.
OwnJobDone(w) == /\ workers[w] \in {OwnJob, LateJob}
                 /\ workers' = [workers EXCEPT ![w] = NoJob]
                 /\ UNCHANGED <<head, pollVars, listVars, mainVars, txQueue, exiting, history>>
-----------------------------------------------------------------------------
Poller == PollRead \/ PollQueue \/ PollSleep \/ PollExit

MainLoop == \/ \E e \in Entries : \/ ScanNoWorker(e) \/ RemoveOne(e)
                                  \/ \E w \in Workers : ScanStart(e, w)
            \/ ScanEnd \/ RemoveEnd
            \/ \E b \in Blocks : Process(b)
            \/ ProcessEnd \/ WaitCheck \/ FlushEnd

Crash == (\E e \in Entries : ScanRaises(e)) \/ (\E b \in Blocks : ProcessRaises(b))

Worker(w) == \/ FetchRetry(w) \/ FetchMissed(w) \/ FetchSucceeds(w)
             \/ PresaleRaises(w) \/ Deliver(w)

Time == \E e \in Entries : BecomesDue(e)

\* Everything has stopped: the scanner has exited, or its loop has crashed.
Stopped == /\ mpc \in {"done", "crashed"}
           /\ ppc \in {"poll", "done"}
           /\ UNCHANGED vars

Next == \/ ChainGrows \/ ExitCommand \/ Poller \/ MainLoop \/ Crash \/ WaitTimeout \/ Time
        \/ \E w \in Workers : Worker(w) \/ OwnJobDone(w)
        \/ Stopped

Spec == Init /\ [][Next]_vars

\* The operating system runs every process, and delays end.  Nothing forces
\* a crash, a timeout, an exit or a new block, nor the process of a
\* transaction to end.  The nodes do not all fail or lag for ever.
FairSpec == /\ Spec
            /\ WF_vars(Poller) /\ WF_vars(MainLoop)
            /\ SF_vars(PollAnswered(head))
            /\ \A e \in Entries : WF_vars(BecomesDue(e))
            /\ \A w \in Workers : WF_vars(Worker(w))
-----------------------------------------------------------------------------
(* Properties *)

\* The entries that still stand for work: the rest has been started or
\* dropped, and waits to be removed.
Live == block_list \ bs_to_rm
Waiting == {e[1] : e \in Live}

TypeOK ==
  /\ head \in Blocks
  /\ ppc \in {"poll", "queue", "done"}
  /\ prev \in Int /\ prev >= -1
  /\ target \in Int /\ target <= MaxBlock
  /\ block_list \in SUBSET Entries /\ due \in SUBSET Entries
  /\ mpc \in {"scan", "remove", "process", "wait", "flush", "done", "crashed"}
  /\ bs_to_rm \in SUBSET Entries
  /\ workers \in [Workers -> Jobs \cup {NoJob, OwnJob, LateJob}]
  /\ txQueue \in SUBSET Blocks
  /\ allFree \in BOOLEAN /\ exiting \in BOOLEAN /\ killed \in BOOLEAN
  /\ queued \in SUBSET Blocks
  /\ attempts \in [Blocks -> Nat]
  /\ scanned \in SUBSET Blocks /\ missed \in SUBSET Blocks
  /\ dropped \in SUBSET Blocks /\ lost \in SUBSET Blocks

\* No append, by the poller or by a failing worker, finds its entry or its
\* block in the list already: the entry of a block that is being retried is
\* still there, waiting to be removed, with another recursion_cnt.
AppendsAreFresh ==
  /\ \A e \in block_list : e[1] <= prev
  /\ \A w \in Busy : <<workers[w].num, workers[w].rec + 1>> \notin block_list
  /\ \A e, f \in Live : e[1] = f[1] => e = f

\* Two processes never work on the same block, although the entry of a
\* started block stays in the list until the scan is over.
OneFetchPerBlock ==
  \A v, w \in Busy : workers[v].num = workers[w].num => v = w

\* Every block the poller has queued is in exactly one place: in the list,
\* with a process, in the transaction queue, or at one of the four ends.
Ends == scanned \cup missed \cup dropped \cup lost

Accounted ==
  /\ queued = Waiting \cup Fetching \cup txQueue \cup Ends
  /\ Waiting \cap Fetching = {}
  /\ (Waiting \cup Fetching) \cap txQueue = {}
  /\ (Waiting \cup Fetching \cup txQueue) \cap Ends = {}
  /\ scanned \cap (missed \cup dropped \cup lost) = {}
  /\ missed \cap (dropped \cup lost) = {}
  /\ dropped \cap lost = {}

\* The poller leaves no hole behind: from the first block on, every number up
\* to prev_block_number has been queued, whether read, leaked or predicted.
NoGap == \A b \in queued : b .. prev \subseteq queued

\* A block costs at most MaxRecursion + 2 calls, and is only reported as
\* missed when it has had them all.
RetryBudget ==
  \A b \in Blocks : /\ attempts[b] <= MaxRecursion + 2
                    /\ b \in missed => attempts[b] = MaxRecursion + 2

\* When the main loop returns without having killed anything, no block is with
\* a process and no transaction is left in the queue: what a worker put there
\* after the last check of the workers is still processed.  That last drain
\* may start processes, and they are all that may still be alive: one that an
\* earlier transaction has started has been waited for.
CleanExit == mpc = "done" /\ ~killed =>
               /\ txQueue = {}
               /\ \A w \in Workers : workers[w] \in {NoJob, LateJob}

\* The promise of BlockLifecycle is kept.
StatusOf(b) == CASE b \in Waiting  -> "waiting"
                 [] b \in Fetching -> "fetching"
                 [] b \in txQueue  -> "handed"
                 [] b \in scanned  -> "scanned"
                 [] b \in missed   -> "missed"
                 [] b \in dropped  -> "dropped"
                 [] b \in lost     -> "lost"
                 [] OTHER          -> "unseen"

Lifecycle == INSTANCE BlockLifecycle
  WITH MaxTries <- MaxRecursion + 2,
       status <- [b \in Blocks |-> StatusOf(b)], tries <- attempts
KeepsLifecycle == Lifecycle!Spec

\* Unless the scanner is told to exit or its loop dies, every queued block
\* comes to an end: no entry is forgotten in the list, no retry is lost.
EveryBlockEnds ==
  \A b \in Blocks :
    b \in queued ~> b \in Ends \/ exiting \/ mpc = "crashed"

\* A block that the chain has left Behind blocks back is queued: the numbers
\* the poller reads, leaks and predicts never make it overlook the chain.
KeepsUp ==
  \A b \in Blocks : head - Behind >= b ~> prev >= b \/ exiting
=============================================================================
