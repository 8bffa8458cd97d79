--------------------------- MODULE BlockLifecycle ---------------------------
(***************************************************************************)
(* What the block scanner of web3bsc promises about each block, whatever   *)
(* the processes between the node and process_transaction() do: a block is *)
(* queued once, is fetched by one process at a time, at most MaxTries      *)
(* times, and is handed over at most once.  The only ways out are named.   *)
(***************************************************************************)
EXTENDS Naturals

CONSTANTS Blocks,    \* the block numbers
          MaxTries   \* how often a block may be asked for before it is given up

VARIABLES status,    \* where each block is
          tries      \* how many get_block calls it has cost

vars == <<status, tries>>

Statuses == {"unseen", "waiting", "fetching", "handed", "scanned",
             "missed", "dropped", "lost"}

TypeOK == /\ status \in [Blocks -> Statuses]
          /\ tries \in [Blocks -> 0 .. MaxTries]

Init == /\ status = [b \in Blocks |-> "unseen"]
        /\ tries = [b \in Blocks |-> 0]

Move(b, from, to) == /\ status[b] = from
                     /\ status' = [status EXCEPT ![b] = to]

Queue(b) == Move(b, "unseen", "waiting") /\ UNCHANGED tries

Assign(b) == /\ Move(b, "waiting", "fetching")
             /\ tries[b] < MaxTries
             /\ UNCHANGED tries

Drop(b) == Move(b, "waiting", "dropped") /\ UNCHANGED tries

\* A failed call sends the block back, or gives it up after the last try.
CallFails(b) == /\ tries' = [tries EXCEPT ![b] = @ + 1]
                /\ \/ Move(b, "fetching", "waiting") /\ tries'[b] < MaxTries
                   \/ Move(b, "fetching", "missed") /\ tries'[b] = MaxTries

CallSucceeds(b) == /\ status[b] = "fetching"
                   /\ tries' = [tries EXCEPT ![b] = @ + 1]
                   /\ UNCHANGED status

HandOver(b) == Move(b, "fetching", "handed") /\ UNCHANGED tries

ScanSome(S) == /\ S # {}
               /\ \A b \in S : status[b] = "handed"
               /\ status' = [b \in Blocks |-> IF b \in S THEN "scanned" ELSE status[b]]
               /\ UNCHANGED tries

\* Processes may be terminated together, and take their blocks with them.
LoseSome(S) == /\ S # {}
               /\ \A b \in S : status[b] = "fetching"
               /\ status' = [b \in Blocks |-> IF b \in S THEN "lost" ELSE status[b]]
               /\ UNCHANGED tries

Next == \/ \E b \in Blocks : \/ Queue(b) \/ Assign(b) \/ Drop(b)
                             \/ CallFails(b) \/ CallSucceeds(b) \/ HandOver(b)
        \/ \E S \in SUBSET Blocks : ScanSome(S) \/ LoseSome(S)

Spec == Init /\ [][Next]_vars
=============================================================================
