------------------------------ MODULE DivFinder ------------------------------
(***************************************************************************)
(* The contract finder altcoin/crygo/div_finder/div_finder.go.             *)
(*                                                                         *)
(* block_req() walks from a start block to the latest one and starts a     *)
(* goroutine per block (investigate_block).  The buffered channel limiter  *)
(* holds one token per goroutine: it is put in before a goroutine starts   *)
(* and taken out at its end.  A goroutine asks a node for its block and    *)
(* sends what it finds through the unbuffered channel c to main(), which   *)
(* writes it down until c is closed.  A goroutine that gets no block       *)
(* starts another one for the block, while it keeps its own token.         *)
(*                                                                         *)
(* The end of the walk is always the latest block, as in main().  What     *)
(* makes a transaction interesting is left out: Finds says how many        *)
(* results a block holds.                                                  *)
(***************************************************************************)
EXTENDS Integers, FiniteSets

CONSTANTS
  MaxHead,    \* bound: the last height of the chain
  StartHead,  \* its height when the finder starts
  First,      \* start_block
  MaxLag,     \* how far the node that answers may be behind
  MaxSlots,   \* MAX_PARALLEL_BLOCK_GOROUTINE (50)
  MaxRetry,   \* a goroutine gives up when recursion > MaxRetry (5)
  Finds       \* the results of a block

Heights == 0 .. MaxHead
Blocks == First .. MaxHead
Recursions == 0 .. MaxRetry + 1
Tasks == Blocks \X Recursions     \* a goroutine: its block and its recursion

ASSUME FinderAssumption ==
  /\ MaxHead \in Nat /\ StartHead \in Heights /\ First \in Heights
  /\ MaxLag \in Nat /\ MaxSlots \in Nat \ {0} /\ MaxRetry \in Nat
  /\ Finds \in [Blocks -> Nat]

VARIABLES
  head,     \* height of the chain
  gpc,      \* block_req's goroutine: "head", "loop", or "closed" once c is closed
  next,     \* block_num
  end,      \* end_block
  limiter,  \* tokens in limiter
  task,     \* what each goroutine does next; "none" before, "done" or "missed" after it
  pos,      \* results each goroutine has sent
  sent,     \* history: results of the block that main has written down
  status    \* "running", or how the program has ended

walk == <<gpc, next, end>>
results == <<pos, sent>>
vars == <<head, walk, limiter, task, results, status>>
-----------------------------------------------------------------------------
Init == /\ head = StartHead
        /\ gpc = "head" /\ next = First /\ end = -1
        /\ limiter = 0
        /\ task = [t \in Tasks |-> "none"]
        /\ pos = [t \in Tasks |-> 0] /\ sent = [b \in Blocks |-> 0]
        /\ status = "running"

Running == status = "running"

ChainGrows == /\ Running /\ head < MaxHead
              /\ head' = head + 1
              /\ UNCHANGED <<walk, limiter, task, results, status>>

HasRoom == limiter < MaxSlots

\* `limiter_ch <- true` and the goroutine it lets start.
Starts(t) == /\ HasRoom
             /\ limiter' = limiter + 1
             /\ pos' = [pos EXCEPT ![t] = 0]
             /\ UNCHANGED sent
-----------------------------------------------------------------------------
(* block_req *)

LatestReached(h) == next >= h

\* The walk has come to the latest block: close(c).
WalkEnds(h) == /\ LatestReached(h)
               /\ gpc' = "closed" /\ end' = h

WalkGoesOn(h) == /\ ~LatestReached(h)
                 /\ gpc' = "loop" /\ end' = h

\* HeaderByNumber of the node that happens to answer.
ReadHead == /\ Running /\ gpc = "head"
            /\ \E h \in Heights : /\ h <= head /\ h >= head - MaxLag
                                  /\ WalkEnds(h) \/ WalkGoesOn(h)
            /\ UNCHANGED <<head, next, limiter, task, results, status>>

\* The call fails: log.Fatal.
HeadFails == /\ Running /\ gpc = "head"
             /\ status' = "fatal"
             /\ UNCHANGED <<head, walk, limiter, task, results>>

Investigate == /\ Running /\ gpc = "loop" /\ next <= end
               /\ Starts(<<next, 0>>)
               /\ task' = [task EXCEPT ![<<next, 0>>] = "fetch"]
               /\ next' = next + 1
               /\ UNCHANGED <<head, gpc, end, status>>

BatchEndStepsBack ==                         \* fault: the last block is walked again
  /\ Running /\ gpc = "loop" /\ next > end
  /\ gpc' = "head" /\ next' = end
  /\ UNCHANGED <<head, end, limiter, task, results, status>>

BatchEnd == /\ Running /\ gpc = "loop" /\ next > end
            /\ gpc' = "head"
            /\ UNCHANGED <<head, next, end, limiter, task, results, status>>
-----------------------------------------------------------------------------
(* investigate_block, in a goroutine of its own *)

At(t, stage) == Running /\ task[t] = stage
Goto(t, stage) == task' = [task EXCEPT ![t] = stage]

FetchOkEarly(t) ==                           \* fault: hands its token on before it scans
  /\ At(t, "fetch") /\ Goto(t, "scan") /\ limiter' = limiter - 1
  /\ UNCHANGED <<head, walk, results, status>>

FetchOk(t) == /\ At(t, "fetch")
              /\ Goto(t, "scan")
              /\ UNCHANGED <<head, walk, limiter, results, status>>

OutOfTries(t) == t[2] > MaxRetry

\* No block: sleep, and start over.
FetchNil(t) == /\ At(t, "fetch") /\ ~OutOfTries(t)
               /\ Goto(t, "retry")
               /\ UNCHANGED <<head, walk, limiter, results, status>>

\* "block missed": a plain return, the token stays where it is.  It takes a
\* goroutine that started a retry so long to get on that the retry runs out.
GiveUp(t) == /\ At(t, "fetch") /\ OutOfTries(t)
             /\ Goto(t, "missed")
             /\ UNCHANGED <<head, walk, limiter, results, status>>

\* The recursive call returns once the new goroutine is started.
Again(t) == <<t[1], t[2] + 1>>

Retry(t) == /\ At(t, "retry")
            /\ Starts(Again(t))
            /\ task' = [task EXCEPT ![t] = "nil", ![Again(t)] = "fetch"]
            /\ UNCHANGED <<head, walk, status>>

\* The goroutine that has started a retry then goes on with block.Transactions()
\* of no block.
DerefNil(t) == /\ At(t, "nil")
               /\ status' = "nilblock"
               /\ UNCHANGED <<head, walk, limiter, task, results>>

More(t) == pos[t] < Finds[t[1]]

\* The receipt of an interesting transaction cannot be read: log.Fatal.
ReceiptFails(t) == /\ At(t, "scan") /\ More(t)
                   /\ status' = "fatal"
                   /\ UNCHANGED <<head, walk, limiter, task, results>>

\* main receives the result and writes it down.
SendResult(t) == /\ At(t, "scan") /\ More(t)
                 /\ gpc # "closed"
                 /\ pos' = [pos EXCEPT ![t] = @ + 1]
                 /\ sent' = [sent EXCEPT ![t[1]] = @ + 1]
                 /\ UNCHANGED <<head, walk, limiter, task, status>>

\* The walk is over and c closed: the send panics.
SendPanics(t) == /\ At(t, "scan") /\ More(t)
                 /\ gpc = "closed"
                 /\ status' = "sendclosed"
                 /\ UNCHANGED <<head, walk, limiter, task, results>>

FinishKeepsToken(t) ==                       \* fault: one more return without the token
  /\ At(t, "scan") /\ ~More(t) /\ Goto(t, "done")
  /\ UNCHANGED <<head, walk, limiter, results, status>>

Finish(t) == /\ At(t, "scan") /\ ~More(t)
             /\ Goto(t, "done")
             /\ limiter' = limiter - 1
             /\ UNCHANGED <<head, walk, results, status>>

\* main: `range c` ends once c is closed, and the program with it.
MainReturns == /\ Running /\ gpc = "closed"
               /\ status' = "exited"
               /\ UNCHANGED <<head, walk, limiter, task, results>>
-----------------------------------------------------------------------------
Walk == ReadHead \/ HeadFails \/ Investigate \/ BatchEnd

\* What the node, the scheduler and main bring about for a goroutine.
Works(t) == \/ FetchOk(t) \/ FetchNil(t) \/ GiveUp(t)
            \/ DerefNil(t) \/ ReceiptFails(t) \/ SendResult(t) \/ SendPanics(t) \/ Finish(t)

Next == \/ ChainGrows \/ Walk \/ MainReturns
        \/ \E t \in Tasks : Works(t) \/ Retry(t)

Spec == Init /\ [][Next]_vars

\* The walk, the goroutines and main are scheduled, and calls to the node return.
\* Nothing is asked of one goroutine rather than another, nor of the channels'
\* queues, and nothing forces the chain to grow.
FairSpec == /\ Spec
            /\ WF_vars(ReadHead \/ Investigate \/ BatchEnd) /\ WF_vars(MainReturns)
            /\ WF_vars(\E t \in Tasks : Works(t))
            /\ WF_vars(\E t \in Tasks : Retry(t))
-----------------------------------------------------------------------------
(* Properties *)

Stages == {"none", "fetch", "retry", "nil", "scan", "done", "missed"}

TypeOK ==
  /\ head \in Heights
  /\ gpc \in {"head", "loop", "closed"}
  /\ next \in First .. MaxHead + 1
  /\ end \in Heights \cup {-1}
  /\ limiter \in 0 .. MaxSlots
  /\ task \in [Tasks -> Stages]
  /\ pos \in [Tasks -> Nat] /\ sent \in [Blocks -> Nat]
  /\ status \in {"running", "exited", "fatal", "nilblock", "sendclosed"}

\* The tokens are those of the goroutines that run and of the ones that gave
\* up: none is ever given back twice, and the goroutines never exceed their
\* number, although a retry holds two.
Holders == {t \in Tasks : task[t] \in {"fetch", "retry", "nil", "scan", "missed"}}

TokensAccounted == limiter = Cardinality(Holders)

\* A block that the walk has passed is with exactly one goroutine that may
\* still scan it, or scanned, or missed: the growing end makes the walk
\* neither skip a block nor take one twice, and a retry takes over from the
\* goroutine that starts it.
Charge(b) == {r \in Recursions : task[<<b, r>>] \in {"fetch", "retry", "scan", "done", "missed"}}

OneInCharge == \A b \in Blocks : Cardinality(Charge(b)) = IF b < next THEN 1 ELSE 0

\* No result is written down twice, and none of a block that was not read.
NoDuplicate ==
  \A b \in Blocks : /\ sent[b] <= Finds[b]
                    /\ sent[b] > 0 => \E r \in Charge(b) : task[<<b, r>>] \in {"scan", "done"}

\* The program leaves when the walk is over, not when its goroutines are, and
\* whatever ends it before that (a failed call, the nil block of a retry, the
\* closed channel) takes all goroutines along: what is lost of the blocks the
\* walk has passed is at most one block per token.
Unfinished == {b \in Blocks : b < next /\ \A r \in Recursions : task[<<b, r>>] # "done"}

LossIsBounded == ~Running => Cardinality(Unfinished) <= MaxSlots

\* Nothing but retries can hang the program, in spite of the tokens, the
\* unbuffered c and the walk that waits for the goroutines: a block that has
\* been passed ends and a batch is walked to its end, or the program ends, or
\* every token is with a goroutine that waits for another one to start its
\* retry, or gone with a missed block.
Hung == Cardinality({t \in Tasks : task[t] \in {"retry", "missed"}}) = MaxSlots

EndsOrHangs ==
  /\ \A b \in Blocks : b < next ~> \/ \E r \in Recursions : task[<<b, r>>] \in {"done", "missed"}
                                   \/ ~Running \/ Hung
  /\ gpc = "loop" ~> gpc = "head" \/ ~Running \/ Hung

=============================================================================
