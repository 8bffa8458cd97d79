-------------------------------- MODULE Replay --------------------------------
(***************************************************************************)
(* The replay mode of poll_transactions() in altcoin/web3bsc/web3bsc.py:   *)
(* the main loop walks over a range or a list of old blocks itself.  A     *)
(* turn goes through the retries, gives the next block to a worker, and    *)
(* drains worker_tx_queue.  In a range it waits for all workers at every   *)
(* Every-th block; with skip_multithreading it fetches the block itself,   *)
(* between two waits, and holds workers_lock meanwhile.                    *)
(*                                                                         *)
(* An entry of block_list leaves it when it is visited: nothing else reads *)
(* it before the loop that removes it.  The transactions of a block travel *)
(* together; content is the one among them that matters.                   *)
(***************************************************************************)
EXTENDS Integers, Sequences, FiniteSets

CONSTANTS
  Inputs,        \* bound: what poll_transactions is called with
  MaxBlock,      \* bound: the largest block number
  Contents,      \* bound: what the blocks hold
  Workers,       \* the block workers
  Every,         \* stop_cnt_2_wait: 50, or 150 on Fantom
  MaxRecursion   \* a worker gives up when recursion_cnt > MaxRecursion (4 in the code)

Blocks == 0 .. MaxBlock
Entries == Blocks \X (1 .. MaxRecursion + 1)

\* "mine" is a transaction of an own account, or another one that takes a
\* worker; "bad" one process_transaction raises on; "pair" one that adds
\* liquidity, which counts with _LPPAIR_SEARCH_: then nothing else does.
Kinds == {"plain", "mine", "bad", "pair"}

ASSUME ReplayAssumption ==
  /\ MaxBlock \in Nat /\ Every \in Nat \ {0} /\ MaxRecursion \in Nat
  /\ Inputs \subseteq Seq(Blocks) \ {<<>>}
  /\ Contents \subseteq [Blocks -> Kinds \ {"pair"}] \cup [Blocks -> {"plain", "pair"}]
  /\ IsFiniteSet(Workers)

VARIABLES
  data, skip,       \* the arguments data and skip_multithreading
  content,          \* what the blocks hold
  todo,             \* the blocks from block_num on
  pc,               \* what the main loop does next
  back,             \* what wait_all_th_finish returns to
  allFree,          \* all_worker_free of wait_all_th_finish
  block_list, due,  \* the retries, and those whose time_to_process has passed
  workers,          \* self.workers
  txQueue,          \* worker_tx_queue: the blocks it has transactions of
  exiting,          \* mp_exit_main_loop
  pairs,            \* lppair_list.txt: the blocks whose pair it has
  fate,             \* history: how each block has ended
  others,           \* history: a retry or a transaction has taken a worker
  timedOut          \* history: a wait has timed out

args == <<data, skip, content>>
list == <<block_list, due>>
wait == <<back, allFree>>
history == <<fate, others, timedOut>>
vars == <<args, todo, pc, wait, list, workers, txQueue, exiting, pairs, history>>

NoJob == [num |-> -1, rec |-> -1]
OwnJob == [num |-> -1, rec |-> 0]       \* process_self_transaction
Job(b, rec) == [num |-> b, rec |-> rec]
-----------------------------------------------------------------------------
Listed == Len(data) > 2

WalkForward(d) == [i \in 1 .. d[Len(d)] - d[1] + 1 |-> d[1] + i - 1]

\* More than two numbers are a list; two in order are a range, but from 0 on
\* it is walked down to 1; two that are not in order are nothing, and equal
\* ones the block.
WalkOf(d) == IF Len(d) > 2 THEN d
             ELSE IF Len(d) = 2 /\ d[1] = 0 /\ d[2] > 0
                  THEN [i \in 1 .. d[2] |-> d[2] - i + 1]
                  ELSE WalkForward(d)

Init ==
  /\ data \in Inputs /\ skip \in BOOLEAN /\ content \in Contents
  /\ todo = WalkOf(data)
  /\ pc = "scan" /\ back = "end" /\ allFree = FALSE
  /\ block_list = {} /\ due = {}
  /\ workers = [w \in Workers |-> NoJob]
  /\ txQueue = {} /\ exiting = FALSE /\ pairs = {}
  /\ fate = [b \in Blocks |-> "none"] /\ others = FALSE /\ timedOut = FALSE

Free(w) == workers[w] = NoJob
Ends(b, how) == fate' = [fate EXCEPT ![b] = how]

ExitCommand == /\ ~exiting /\ exiting' = TRUE
               /\ UNCHANGED <<args, todo, pc, wait, list, workers, txQueue, pairs, history>>

BecomesDue(e) == /\ e \in block_list \ due
                 /\ due' = due \cup {e}
                 /\ UNCHANGED <<args, todo, pc, wait, block_list, workers, txQueue, exiting, pairs, history>>
-----------------------------------------------------------------------------
(* One turn of the loop: the retries *)

Takes(e) == /\ pc = "scan" /\ e \in due
            /\ block_list' = block_list \ {e} /\ due' = due \ {e}
            /\ UNCHANGED <<args, todo, pc, wait, txQueue, exiting, pairs, timedOut>>

RetryStarts(e, w) == /\ Takes(e) /\ Free(w)
                     /\ workers' = [workers EXCEPT ![w] = Job(e[1], e[2])]
                     /\ others' = TRUE
                     /\ UNCHANGED fate

NoWorkerForRetry(e) == /\ Takes(e) /\ \A w \in Workers : ~Free(w)
                       /\ Ends(e[1], "dropped")
                       /\ UNCHANGED <<workers, others>>

ScanEnd == /\ pc = "scan" /\ due = {}
           /\ pc' = "push"
           /\ UNCHANGED <<args, todo, wait, list, workers, txQueue, exiting, pairs, history>>
-----------------------------------------------------------------------------
(* The next block *)

\* wait_all_th_finish is called, to go on at b.
WaitsFor(b) == /\ pc' = "wait" /\ back' = b
               /\ UNCHANGED <<args, todo, allFree, list, workers, txQueue, exiting, pairs, history>>

WalkOver == pc = "push" /\ todo = <<>> /\ WaitsFor("end")

MustWaitNever == FALSE                       \* fault: the walk does not wait

MustWait == ~Listed /\ Head(todo) % Every = 0

BatchWait == pc = "push" /\ todo # <<>> /\ MustWait /\ WaitsFor("place")

Places == \/ pc = "place"
          \/ pc = "push" /\ todo # <<>> /\ ~MustWait

AdvanceNever == UNCHANGED todo               \* fault: the increment is missing

\* block_num += block_num_inc
Advance == todo' = Tail(todo)

\* Only an error line is logged, and block_num goes on.
NoWorker == /\ Places /\ \A w \in Workers : ~Free(w)
            /\ Ends(Head(todo), "skipped")
            /\ Advance /\ pc' = "drain"
            /\ UNCHANGED <<args, wait, list, workers, txQueue, exiting, pairs, others, timedOut>>

StartBlock(w) == /\ Places /\ ~skip /\ Free(w)
                 /\ workers' = [workers EXCEPT ![w] = Job(Head(todo), 0)]
                 /\ Advance /\ pc' = "drain"
                 /\ UNCHANGED <<args, wait, list, txQueue, exiting, pairs, history>>

SkipWaits == Places /\ skip /\ (\E w \in Workers : Free(w)) /\ WaitsFor("fetch")

\* get_block_transactions in the main loop itself.
FetchedHere == /\ pc = "fetch"
               /\ txQueue' = txQueue \cup {Head(todo)}
               /\ pc' = "wait" /\ back' = "pushed"
               /\ UNCHANGED <<args, todo, allFree, list, workers, exiting, pairs, history>>

FailedHere == /\ pc = "fetch"
              /\ block_list' = block_list \cup {<<Head(todo), 1>>}
              /\ pc' = "wait" /\ back' = "pushed"
              /\ UNCHANGED <<args, todo, allFree, due, workers, txQueue, exiting, pairs, history>>

\* presale_process raises; the handler logs it, and the block comes up again.
RaisedHere == /\ pc = "fetch" /\ pc' = "drain"
              /\ UNCHANGED <<args, todo, wait, list, workers, txQueue, exiting, pairs, history>>
-----------------------------------------------------------------------------
(* start_worker, at the end of a turn and in wait_all_th_finish *)

LockHeld == pc = "flush" /\ back \in {"fetch", "pushed"}

TakesTx(b) == /\ pc \in {"drain", "flush"} /\ b \in txQueue
              /\ txQueue' = txQueue \ {b}
              /\ UNCHANGED <<args, todo, wait, list, exiting, timedOut>>

ProcessTx(b) == /\ TakesTx(b) /\ content[b] = "plain"
                /\ Ends(b, "done")
                /\ UNCHANGED <<pc, workers, others, pairs>>

\* lppair_search_process: a receipt that does not come, a transaction that was
\* reverted, a pair with WBNB or one without a way to it are left out.
ProcessPair(b) == /\ TakesTx(b) /\ content[b] = "pair"
                  /\ Ends(b, "done")
                  /\ pairs' \in {pairs, pairs \cup {b}}
                  /\ UNCHANGED <<pc, workers, others>>

\* Without a free worker that is only logged.
ProcessMine(b) ==
  /\ TakesTx(b) /\ content[b] = "mine" /\ ~LockHeld
  /\ Ends(b, "done")
  /\ IF \E w \in Workers : Free(w)
     THEN \E w \in Workers : Free(w) /\ workers' = [workers EXCEPT ![w] = OwnJob]
     ELSE UNCHANGED workers
  /\ others' = TRUE
  /\ UNCHANGED <<pc, pairs>>

\* workers_lock is not reentrant, and this thread has it.
LocksItself(b) == /\ TakesTx(b) /\ content[b] = "mine" /\ LockHeld
                  /\ Ends(b, "done") /\ pc' = "stuck"
                  /\ UNCHANGED <<workers, others, pairs>>

\* Decoding the input or asking for the account's balance raises.  Only in the
\* waits of a turn is there a handler, which goes on without block_num += 1.
ProcessRaises(b) == /\ TakesTx(b) /\ content[b] # "plain"
                    /\ Ends(b, "done")
                    /\ pc' = IF pc = "flush" /\ back # "end" THEN "drain" ELSE "crashed"
                    /\ UNCHANGED <<workers, others, pairs>>

DrainEnd == /\ pc = "drain" /\ txQueue = {}
            /\ IF exiting THEN WaitsFor("end")
               ELSE pc' = "scan" /\ UNCHANGED <<args, todo, wait, list, workers, txQueue,
                                                exiting, pairs, history>>
-----------------------------------------------------------------------------
(* wait_all_th_finish *)

WaitCheck == /\ pc = "wait"
             /\ allFree' = (\A w \in Workers : Free(w))
             /\ pc' = "flush"
             /\ UNCHANGED <<args, todo, back, list, workers, txQueue, exiting, pairs, history>>

Returns == IF back = "pushed" THEN Advance /\ pc' = "drain"
           ELSE pc' = back /\ UNCHANGED todo

FlushEndAtOnce ==                            \* fault: returns before the queue is drained
  /\ pc = "flush"
  /\ IF allFree THEN Returns ELSE pc' = "wait" /\ UNCHANGED todo
  /\ UNCHANGED <<args, wait, list, workers, txQueue, exiting, pairs, history>>

FlushEnd == /\ pc = "flush" /\ txQueue = {}
            /\ IF allFree THEN Returns ELSE pc' = "wait" /\ UNCHANGED todo
            /\ UNCHANGED <<args, wait, list, workers, txQueue, exiting, pairs, history>>

Running == {workers[w].num : w \in Workers} \ {-1}

\* After max_wait every live process is terminated, and the wait is over.
WaitTimeout == /\ pc = "wait" /\ \E w \in Workers : ~Free(w)
               /\ fate' = [b \in Blocks |-> IF b \in Running THEN "killed" ELSE fate[b]]
               /\ workers' = [w \in Workers |-> NoJob]
               /\ timedOut' = TRUE
               /\ Returns
               /\ UNCHANGED <<args, wait, list, txQueue, exiting, pairs, others>>
-----------------------------------------------------------------------------
(* The process of worker w *)

Leaves(w) == /\ workers' = [workers EXCEPT ![w] = NoJob]
             /\ UNCHANGED <<args, todo, pc, wait, due, exiting, pairs, others, timedOut>>

OwnJobDone(w) == workers[w] = OwnJob /\ Leaves(w) /\ UNCHANGED <<block_list, txQueue, fate>>

HasBlock(w) == workers[w].num \in Blocks

RetryForgotten(w) ==                         \* fault: a failed block is not put down
  /\ HasBlock(w) /\ workers[w].rec <= MaxRecursion /\ Leaves(w)
  /\ UNCHANGED <<block_list, txQueue, fate>>

FetchRetry(w) == /\ HasBlock(w) /\ workers[w].rec <= MaxRecursion /\ Leaves(w)
                 /\ block_list' = block_list \cup {<<workers[w].num, workers[w].rec + 1>>}
                 /\ UNCHANGED <<txQueue, fate>>

FetchMissed(w) == /\ HasBlock(w) /\ workers[w].rec > MaxRecursion /\ Leaves(w)
                  /\ Ends(workers[w].num, "missed")
                  /\ UNCHANGED <<block_list, txQueue>>

\* presale_process raises, and the process dies.
FetchDies(w) == /\ HasBlock(w) /\ Leaves(w)
                /\ Ends(workers[w].num, "died")
                /\ UNCHANGED <<block_list, txQueue>>

Fetched(w) == /\ HasBlock(w) /\ Leaves(w)
              /\ txQueue' = txQueue \cup {workers[w].num}
              /\ UNCHANGED <<block_list, fate>>
-----------------------------------------------------------------------------
MainLoop == \/ \E e \in Entries : NoWorkerForRetry(e) \/ \E w \in Workers : RetryStarts(e, w)
            \/ ScanEnd
            \/ WalkOver \/ BatchWait \/ NoWorker \/ SkipWaits
            \/ \E w \in Workers : StartBlock(w)
            \/ FetchedHere \/ FailedHere \/ RaisedHere
            \/ \E b \in Blocks : \/ ProcessTx(b) \/ ProcessPair(b) \/ ProcessMine(b)
                                 \/ LocksItself(b) \/ ProcessRaises(b)
            \/ DrainEnd \/ WaitCheck \/ FlushEnd

Worker(w) == OwnJobDone(w) \/ FetchRetry(w) \/ FetchMissed(w) \/ FetchDies(w) \/ Fetched(w)

Next == \/ ExitCommand \/ MainLoop \/ WaitTimeout
        \/ \E e \in Entries : BecomesDue(e)
        \/ \E w \in Workers : Worker(w)

Spec == Init /\ [][Next]_vars

\* The main loop runs on, and so does every process: a request ends, if only by
\* the time-out of its connection.
FairSpec == Spec /\ WF_vars(MainLoop) /\ \A w \in Workers : WF_vars(Worker(w))
-----------------------------------------------------------------------------
(* Properties *)

Jobs == {NoJob, OwnJob} \cup [num : Blocks, rec : 0 .. MaxRecursion + 1]

TypeOK ==
  /\ data \in Inputs /\ skip \in BOOLEAN /\ content \in Contents
  /\ todo \in Seq(Blocks)
  /\ pc \in {"scan", "push", "place", "fetch", "drain", "wait", "flush", "end", "stuck", "crashed"}
  /\ back \in {"place", "fetch", "pushed", "end"} /\ allFree \in BOOLEAN
  /\ block_list \subseteq Entries /\ due \subseteq block_list
  /\ workers \in [Workers -> Jobs]
  /\ txQueue \subseteq Blocks /\ exiting \in BOOLEAN /\ pairs \subseteq Blocks
  /\ fate \in [Blocks -> {"none", "done", "skipped", "dropped", "missed", "killed", "died"}]
  /\ others \in BOOLEAN /\ timedOut \in BOOLEAN
  /\ todo = <<>> => pc \notin {"place", "fetch"}

\* No block of the walk vanishes without one of the causes the code logs, and
\* none comes up twice: it is ahead, waiting for a retry, with a worker, in the
\* queue or at its end, and in one of these places only, unless the main loop
\* fetches it itself or a list names it twice.  Once lppair_list.txt has its pair
\* it never comes up again, so the pair is written once.
Walked == {WalkOf(data)[i] : i \in 1 .. Len(WalkOf(data))}
PlacesOf(b) ==
  {x \in {"todo", "list", "running", "queue", "end"} :
     CASE x = "todo" -> \E i \in 1 .. Len(todo) : todo[i] = b
       [] x = "list" -> \E e \in block_list : e[1] = b
       [] x = "running" -> b \in Running
       [] x = "queue" -> b \in txQueue
       [] OTHER -> fate[b] # "none"}


NamedOnce(b) == \A i, j \in 1 .. Len(WalkOf(data)) :
                  WalkOf(data)[i] = b /\ WalkOf(data)[j] = b => i = j

Accounted ==
  \A b \in Walked :
    /\ PlacesOf(b) # {}
    /\ skip \/ ~NamedOnce(b) \/ (/\ Cardinality(PlacesOf(b)) = 1
                                 /\ b \in pairs => PlacesOf(b) = {"end"})

\* The types hold, and every block is accounted for, in every state of the walk.
Inv == TypeOK /\ Accounted

\* A range that waits often enough for its workers passes over no block unless
\* retries or own transactions have taken some of them; a list never waits.
SkipsNeedCause ==
  (\E b \in Blocks : fate[b] = "skipped") => Listed \/ others \/ Cardinality(Workers) < Every

\* When the walk is over every block that was started is worked off, unless a
\* wait has timed out.  What waits for a retry is forgotten even so, and a
\* process the last turn of the wait has started for an own transaction may
\* still run.
TailIsDrained == pc = "end" => timedOut \/ (txQueue = {} /\ Running = {})

\* Without skip_multithreading a walk ends, or a transaction stops it: waits,
\* retries and exceptions never keep it at one block.
WalkEnds == ~skip ~> pc \in {"end", "crashed"}
=============================================================================
