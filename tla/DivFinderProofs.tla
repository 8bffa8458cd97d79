-------------------------- MODULE DivFinderProofs --------------------------
(***************************************************************************)
(* Proofs about DivFinder, for every chain, number of tokens and retries.  *)
(*                                                                         *)
(* The inductive invariant adds to the properties how the goroutines of a  *)
(* block follow each other: one is in charge, those before it have started *)
(* a retry and wait for their nil block, and none comes after it.          *)
(***************************************************************************)
EXTENDS DivFinder, FiniteSetTheorems, TLAPS

InCharge == {"fetch", "retry", "scan", "done", "missed"}
Holding == {"fetch", "retry", "nil", "scan", "missed"}
Reads == {"scan", "done"}

\* Goroutine r of block b is in charge.
Owns(b, r) ==
  /\ task[<<b, r>>] \in InCharge
  /\ \A q \in Recursions : /\ q < r => task[<<b, q>>] = "nil"
                           /\ q > r => task[<<b, q>>] = "none"

Untouched(b) == \A r \in Recursions : task[<<b, r>>] = "none"

Succession ==
  \A b \in Blocks : IF b < next THEN \E r \in Recursions : Owns(b, r) ELSE Untouched(b)

\* A goroutine that retries has a try left.
TriesLeft == \A t \in Tasks : task[t] = "retry" => t[2] <= MaxRetry

\* What has been written down of a block is what its reader has sent.
Written ==
  /\ \A t \in Tasks : /\ pos[t] <= Finds[t[1]]
                      /\ task[t] \notin Reads => pos[t] = 0
                      /\ task[t] \in Reads => sent[t[1]] = pos[t]
  /\ \A b \in Blocks : (\A r \in Recursions : task[<<b, r>>] \notin Reads) => sent[b] = 0

IInv == TypeOK /\ TokensAccounted /\ Succession /\ TriesLeft /\ Written
-----------------------------------------------------------------------------
LEMMA TaskParts ==
  ASSUME NEW t \in Tasks
  PROVE  t[1] \in Blocks /\ t[2] \in Recursions /\ t = <<t[1], t[2]>>
BY DEF Tasks

LEMMA Numbers ==
  /\ Blocks \subseteq Int /\ Recursions \subseteq Int /\ Heights \subseteq Int
  /\ First \in Nat /\ MaxHead \in Nat /\ First <= MaxHead
  /\ MaxRetry \in Nat /\ MaxSlots \in Nat \ {0} /\ 0 \in Recursions
BY FinderAssumption DEF Blocks, Recursions, Heights

LEMMA FiniteTasks == IsFiniteSet(Tasks) /\ IsFiniteSet(Blocks) /\ IsFiniteSet(Recursions)
<1>1. IsFiniteSet(Blocks)
  BY FS_Interval, Numbers DEF Blocks
<1>2. IsFiniteSet(Recursions)
  BY FS_Interval, Numbers DEF Recursions
<1>3. QED BY <1>1, <1>2, FS_Product DEF Tasks

LEMMA FiniteHolders == IsFiniteSet(Holders) /\ Cardinality(Holders) \in Nat
<1>1. Holders \in SUBSET Tasks
  BY DEF Holders
<1>2. QED BY <1>1, FiniteTasks, FS_Subset, FS_CardinalityType

\* Two goroutines of a block are not both in charge.
LEMMA OwnerIsUnique ==
  ASSUME NEW b, NEW r \in Recursions, Owns(b, r), NEW q \in Recursions,
         task[<<b, q>>] \in InCharge
  PROVE  q = r
<1>1. q \in Int /\ r \in Int
  BY Numbers
<1>2. ~(q < r) /\ ~(q > r)
  BY DEF Owns, InCharge
<1>3. QED BY <1>1, <1>2
-----------------------------------------------------------------------------
LEMMA InvInit == Init => IInv
<1> SUFFICES ASSUME Init PROVE IInv
  OBVIOUS
<1>1. TypeOK
  BY FinderAssumption, Numbers DEF Init, TypeOK, Stages, Heights
<1>2. Holders = {}
  BY DEF Init, Holders
<1>3. TokensAccounted
  BY <1>2, FS_EmptySet DEF Init, TokensAccounted
<1>4. \A t \in Tasks : task[t] = "none" /\ pos[t] = 0
  BY DEF Init
<1>5. \A b \in Blocks : Untouched(b) /\ ~(b < next)
  <2> TAKE b \in Blocks
  <2>1. \A r \in Recursions : <<b, r>> \in Tasks
    BY DEF Tasks
  <2>2. QED BY <2>1, <1>4, Numbers DEF Untouched, Init, Blocks
<1>6. Succession /\ TriesLeft
  BY <1>4, <1>5 DEF Succession, TriesLeft
<1>7. Written
  <2>1. \A t \in Tasks : Finds[t[1]] \in Nat
    BY TaskParts, FinderAssumption
  <2>2. \A t \in Tasks : pos[t] <= Finds[t[1]] /\ task[t] \notin Reads /\ pos[t] = 0
    BY <2>1, <1>4 DEF Reads
  <2>3. \A b \in Blocks : sent[b] = 0
    BY DEF Init
  <2>4. QED BY <2>2, <2>3 DEF Written
<1>8. QED BY <1>1, <1>3, <1>6, <1>7 DEF IInv
-----------------------------------------------------------------------------
(* A goroutine that is started: the first of a block, or a retry. *)

LEMMA StartTokens ==
  ASSUME TokensAccounted, TypeOK, NEW t \in Tasks, task[t] \notin Holding,
         limiter' = limiter + 1, task'[t] = "fetch",
         \A u \in Tasks \ {t} : task[u] \in Holding <=> task'[u] \in Holding
  PROVE  TokensAccounted'
<1>1. Holders' = Holders \cup {t} /\ t \notin Holders
  BY DEF Holders, Holding
<1>2. QED BY <1>1, FiniteHolders, FS_AddElement DEF TokensAccounted

LEMMA SameTokens ==
  ASSUME TokensAccounted, limiter' = limiter,
         \A u \in Tasks : task[u] \in Holding <=> task'[u] \in Holding
  PROVE  TokensAccounted'
<1>1. Holders' = Holders
  BY DEF Holders, Holding
<1>2. QED BY <1>1 DEF TokensAccounted

LEMMA FinishTokens ==
  ASSUME TokensAccounted, TypeOK, NEW t \in Tasks, task[t] = "scan",
         limiter' = limiter - 1, task' = [task EXCEPT ![t] = "done"]
  PROVE  TokensAccounted' /\ limiter' \in 0 .. MaxSlots
<1>1. Holders' = Holders \ {t} /\ t \in Holders
  BY DEF Holders, TypeOK
<1>2. Cardinality(Holders') = Cardinality(Holders) - 1
  BY <1>1, FiniteHolders, FS_RemoveElement
<1>3. Cardinality(Holders') \in Nat
  BY <1>1, FiniteHolders, FS_RemoveElement, FS_CardinalityType
<1>4. QED BY <1>2, <1>3, Numbers, FiniteHolders DEF TokensAccounted, TypeOK

\* A goroutine in charge goes on and stays in charge.
LEMMA SuccessionGoto ==
  ASSUME TypeOK, Succession, NEW t \in Tasks, NEW s \in InCharge, task[t] \in InCharge,
         task' = [task EXCEPT ![t] = s], next' = next
  PROVE  Succession'
<1> SUFFICES ASSUME NEW b \in Blocks
             PROVE  IF b < next THEN (\E r \in Recursions : Owns(b, r))' ELSE Untouched(b)'
  BY DEF Succession
<1>1. \A r \in Recursions : /\ <<b, r>> \in Tasks
                            /\ task'[<<b, r>>] = IF <<b, r>> = t THEN s ELSE task[<<b, r>>]
  BY DEF Tasks, TypeOK
<1>2. CASE b < next
  <2>1. PICK r \in Recursions : Owns(b, r)
    BY <1>2 DEF Succession
  <2>2. \A q \in Recursions : q # r => <<b, q>> # t
    BY <2>1, OwnerIsUnique
  <2>3. Owns(b, r)'
    BY <1>1, <2>1, <2>2, Numbers DEF Owns
  <2>4. QED BY <1>2, <2>3
<1>3. CASE ~(b < next)
  <2>1. Untouched(b)
    BY <1>3 DEF Succession
  <2>2. \A r \in Recursions : <<b, r>> # t
    BY <2>1 DEF Untouched, InCharge
  <2>3. QED BY <1>1, <1>3, <2>1, <2>2 DEF Untouched
<1>4. QED BY <1>2, <1>3

\* The walk starts the first goroutine of the next block.
LEMMA SuccessionInvestigate ==
  ASSUME TypeOK, Succession, next \in Blocks,
         task' = [task EXCEPT ![<<next, 0>>] = "fetch"], next' = next + 1
  PROVE  task[<<next, 0>>] = "none" /\ Succession'
<1>1. Untouched(next) /\ next \in Int
  BY Numbers DEF Succession
<1>2. \A b \in Blocks, r \in Recursions :
         task'[<<b, r>>] = IF b = next /\ r = 0 THEN "fetch" ELSE task[<<b, r>>]
  BY Numbers DEF Tasks, TypeOK
<1>3. task[<<next, 0>>] = "none"
  BY <1>1, Numbers DEF Untouched
<1>4. ASSUME NEW b \in Blocks
      PROVE  IF b < next + 1 THEN (\E r \in Recursions : Owns(b, r))' ELSE Untouched(b)'
  <2>1. b \in Int
    BY Numbers
  <2>2. CASE b = next
    <3>1. \A q \in Recursions : q < 0 \/ q > 0 => q > 0
      BY Numbers DEF Recursions
    <3>2. Owns(b, 0)'
      BY <1>1, <1>2, <2>2, <3>1, Numbers DEF Owns, Untouched, InCharge, Recursions
    <3>3. QED BY <3>2, <2>1, <2>2, Numbers
  <2>3. CASE b < next
    <3>1. PICK r \in Recursions : Owns(b, r)
      BY <2>3 DEF Succession
    <3>2. Owns(b, r)'
      BY <1>2, <2>1, <2>3, <3>1, <1>1 DEF Owns
    <3>3. QED BY <3>2, <2>1, <2>3, <1>1
  <2>4. CASE b > next
    <3>1. Untouched(b)
      BY <2>1, <2>4, <1>1 DEF Succession
    <3>2. Untouched(b)'
      BY <1>2, <2>1, <2>4, <3>1, <1>1 DEF Untouched
    <3>3. QED BY <3>2, <2>1, <2>4, <1>1
  <2>5. QED BY <1>1, <2>1, <2>2, <2>3, <2>4
<1>5. QED BY <1>3, <1>4 DEF Succession

\* The retry takes over from the goroutine that starts it.
LEMMA SuccessionRetry ==
  ASSUME TypeOK, Succession, TriesLeft, NEW t \in Tasks, task[t] = "retry",
         task' = [task EXCEPT ![t] = "nil", ![Again(t)] = "fetch"], next' = next
  PROVE  Again(t) \in Tasks /\ Again(t) # t /\ task[Again(t)] = "none" /\ Succession'
<1>1. PICK c \in Blocks, r \in Recursions : t = <<c, r>>
  BY DEF Tasks
<1>2. r + 1 \in Recursions /\ r + 1 # r
  BY <1>1, Numbers DEF TriesLeft, Recursions
<1>3. Again(t) = <<c, r + 1>> /\ Again(t) \in Tasks /\ Again(t) # t
  <2>1. Again(t) = <<c, r + 1>>
    BY <1>1 DEF Again
  <2>2. <<c, r + 1>> # <<c, r>>
    BY <1>2
  <2>3. QED BY <1>1, <1>2, <2>1, <2>2 DEF Tasks
<1>4. c < next /\ Owns(c, r)
  <2>1. ~Untouched(c)
    BY <1>1 DEF Untouched
  <2>2. c < next /\ \E q \in Recursions : Owns(c, q)
    BY <1>1, <2>1 DEF Succession
  <2>3. \A q \in Recursions : Owns(c, q) => q = r
    BY <1>1, OwnerIsUnique DEF InCharge
  <2>4. QED BY <2>2, <2>3
<1>5. task[Again(t)] = "none"
  <2>1. r + 1 > r
    BY <1>1, Numbers
  <2>2. QED BY <1>2, <1>3, <1>4, <2>1 DEF Owns
<1>6. \A b \in Blocks, q \in Recursions :
         task'[<<b, q>>] = IF b = c /\ q = r + 1 THEN "fetch"
                           ELSE IF b = c /\ q = r THEN "nil" ELSE task[<<b, q>>]
  <2> TAKE b \in Blocks, q \in Recursions
  <2>1. <<b, q>> \in Tasks
    BY DEF Tasks
  <2>2. <<b, q>> = Again(t) <=> b = c /\ q = r + 1
    BY <1>3
  <2>3. <<b, q>> = t <=> b = c /\ q = r
    BY <1>1
  <2>4. task'[<<b, q>>] = IF <<b, q>> = Again(t) THEN "fetch"
                          ELSE IF <<b, q>> = t THEN "nil" ELSE task[<<b, q>>]
    BY <2>1, <1>3 DEF TypeOK
  <2>5. QED BY <2>2, <2>3, <2>4
<1>7. Owns(c, r + 1)'
  <2>1. task'[<<c, r + 1>>] = "fetch"
    BY <1>1, <1>2, <1>6
  <2>2. ASSUME NEW q \in Recursions, q < r + 1
        PROVE  task'[<<c, q>>] = "nil"
    <3>1. q = r \/ q < r
      BY <1>1, <2>2, Numbers
    <3>2. q # r + 1
      BY <1>1, <2>2, Numbers
    <3>3. q < r => task[<<c, q>>] = "nil" /\ q # r
      BY <1>1, <1>4, Numbers DEF Owns
    <3>4. QED BY <1>6, <3>1, <3>2, <3>3
  <2>3. ASSUME NEW q \in Recursions, q > r + 1
        PROVE  task'[<<c, q>>] = "none"
    <3>1. q > r /\ q # r + 1 /\ q # r
      BY <1>1, <2>3, Numbers
    <3>2. QED BY <1>1, <1>4, <1>6, <3>1 DEF Owns
  <2>4. QED BY <2>1, <2>2, <2>3 DEF Owns, InCharge
<1>8. ASSUME NEW b \in Blocks
      PROVE  IF b < next THEN (\E q \in Recursions : Owns(b, q))' ELSE Untouched(b)'
  <2>1. CASE b = c
    BY <1>2, <1>4, <1>7, <2>1
  <2>2. CASE b # c
    <3>1. \A q \in Recursions : task'[<<b, q>>] = task[<<b, q>>]
      BY <1>6, <2>2
    <3>2. \A q \in Recursions : Owns(b, q) => Owns(b, q)'
      BY <3>1 DEF Owns
    <3>3. Untouched(b) => Untouched(b)'
      BY <3>1 DEF Untouched
    <3>4. QED BY <3>2, <3>3 DEF Succession
  <2>3. QED BY <2>1, <2>2
<1>9. QED BY <1>3, <1>5, <1>8 DEF Succession
-----------------------------------------------------------------------------
\* A goroutine in charge of its block is the only one.
LEMMA AloneInCharge ==
  ASSUME Succession, NEW t \in Tasks, task[t] \in InCharge,
         NEW u \in Tasks, task[u] \in InCharge, u[1] = t[1]
  PROVE  u = t
<1>1. PICK b \in Blocks, r \in Recursions, q \in Recursions : t = <<b, r>> /\ u = <<b, q>>
  BY DEF Tasks
<1>2. ~Untouched(b)
  BY <1>1 DEF Untouched, InCharge
<1>3. PICK o \in Recursions : Owns(b, o)
  BY <1>2 DEF Succession
<1>4. r = o /\ q = o
  BY <1>1, <1>3, OwnerIsUnique
<1>5. QED BY <1>1, <1>4

\* Who has read a block and what was written down of it stay the same.
LEMMA WrittenSame ==
  ASSUME Written, pos' = pos, sent' = sent,
         \A t \in Tasks : task'[t] \in Reads <=> task[t] \in Reads
  PROVE  Written'
<1>1. \A b \in Blocks, r \in Recursions : <<b, r>> \in Tasks
  BY DEF Tasks
<1>2. QED BY <1>1 DEF Written

\* A goroutine has got its block: nothing was written down of it yet.
LEMMA WrittenFetchOk ==
  ASSUME TypeOK, Succession, Written, NEW t \in Tasks, FetchOk(t)
  PROVE  Written'
<1>1. \A u \in Tasks : task'[u] = IF u = t THEN "scan" ELSE task[u]
  BY DEF FetchOk, Goto, TypeOK
<1>2. task[t] = "fetch" /\ pos' = pos /\ sent' = sent
  BY DEF FetchOk, At, results
<1>3. \A b \in Blocks, r \in Recursions : <<b, r>> \in Tasks
  BY DEF Tasks
<1>4. \A u \in Tasks : u[1] = t[1] => task[u] \notin Reads
  <2> SUFFICES ASSUME NEW u \in Tasks, u[1] = t[1], task[u] \in Reads PROVE FALSE
    OBVIOUS
  <2>1. u = t
    BY <1>2, AloneInCharge DEF Reads, InCharge
  <2>2. QED BY <1>2, <2>1 DEF Reads
<1>5. t[1] \in Blocks /\ \A r \in Recursions : task[<<t[1], r>>] \notin Reads
  BY <1>3, <1>4, TaskParts
<1>6. sent[t[1]] = 0 /\ pos[t] = 0
  BY <1>2, <1>5 DEF Written, Reads
<1>7. \A u \in Tasks : /\ pos'[u] <= Finds[u[1]]
                       /\ task'[u] \notin Reads => pos'[u] = 0
                       /\ task'[u] \in Reads => sent'[u[1]] = pos'[u]
  BY <1>1, <1>2, <1>6 DEF Written
<1>8. ASSUME NEW b \in Blocks, \A r \in Recursions : task'[<<b, r>>] \notin Reads
      PROVE  sent'[b] = 0
  <2>1. \A r \in Recursions : <<b, r>> # t
    BY <1>1, <1>3, <1>8 DEF Reads
  <2>2. \A r \in Recursions : task[<<b, r>>] \notin Reads
    BY <1>1, <1>3, <1>8, <2>1
  <2>3. QED BY <1>2, <2>2 DEF Written
<1>9. QED BY <1>7, <1>8 DEF Written

\* A result goes to main.
LEMMA WrittenSend ==
  ASSUME TypeOK, Succession, Written, NEW t \in Tasks, SendResult(t)
  PROVE  Written'
<1>1. /\ task' = task /\ task[t] = "scan" /\ pos[t] < Finds[t[1]]
      /\ pos' = [pos EXCEPT ![t] = pos[t] + 1]
      /\ sent' = [sent EXCEPT ![t[1]] = sent[t[1]] + 1]
  BY DEF SendResult, At, More
<1>2. /\ t[1] \in Blocks /\ pos[t] \in Nat /\ Finds[t[1]] \in Nat
      /\ \A u \in Tasks : pos'[u] = IF u = t THEN pos[t] + 1 ELSE pos[u]
      /\ \A b \in Blocks : sent'[b] = IF b = t[1] THEN sent[b] + 1 ELSE sent[b]
  BY <1>1, TaskParts, FinderAssumption DEF TypeOK
<1>3. \A u \in Tasks : task[u] \in Reads /\ u[1] = t[1] => u = t
  BY <1>1, AloneInCharge DEF Reads, InCharge
<1>4. sent[t[1]] = pos[t]
  BY <1>1 DEF Written, Reads
<1>5. ASSUME NEW u \in Tasks
      PROVE  /\ pos'[u] <= Finds[u[1]]
             /\ task'[u] \notin Reads => pos'[u] = 0
             /\ task'[u] \in Reads => sent'[u[1]] = pos'[u]
  <2>1. CASE u = t
    BY <1>1, <1>2, <1>4, <2>1 DEF Reads
  <2>2. CASE u # t
    <3>1. u[1] \in Blocks /\ pos'[u] = pos[u]
      BY <1>2, <2>2, TaskParts
    <3>2. task[u] \in Reads => sent'[u[1]] = sent[u[1]]
      BY <1>2, <1>3, <2>2, <3>1
    <3>3. QED BY <1>1, <3>1, <3>2 DEF Written
  <2>3. QED BY <2>1, <2>2
<1>6. ASSUME NEW b \in Blocks, \A r \in Recursions : task'[<<b, r>>] \notin Reads
      PROVE  sent'[b] = 0
  <2>1. b # t[1]
    BY <1>1, <1>6, TaskParts DEF Reads
  <2>2. QED BY <1>1, <1>2, <1>6, <2>1 DEF Written
<1>7. QED BY <1>5, <1>6 DEF Written
-----------------------------------------------------------------------------
\* What a step of a goroutine that only moves on to stage s keeps.
LEMMA GotoStep ==
  ASSUME IInv, NEW t \in Tasks, NEW s \in InCharge, task[t] \in InCharge,
         task' = [task EXCEPT ![t] = s], s = "retry" => t[2] <= MaxRetry,
         UNCHANGED <<head, walk, results, status>>, limiter' \in 0 .. MaxSlots
  PROVE  TypeOK' /\ Succession' /\ TriesLeft'
<1>1. \A u \in Tasks : task'[u] = IF u = t THEN s ELSE task[u]
  BY DEF IInv, TypeOK
<1>2. TypeOK'
  BY DEF IInv, TypeOK, walk, results, InCharge, Stages
<1>3. Succession'
  BY SuccessionGoto DEF IInv, walk
<1>4. TriesLeft'
  BY <1>1 DEF IInv, TriesLeft
<1>5. QED BY <1>2, <1>3, <1>4

\* The walk and the end of the program touch no goroutine.
LEMMA WalkStep ==
  ASSUME IInv, TypeOK', UNCHANGED <<next, limiter, task, results>>
  PROVE  IInv'
<1>1. TokensAccounted'
  BY SameTokens DEF IInv
<1>2. Succession'
  BY DEF IInv, Succession, Owns, Untouched
<1>3. TriesLeft'
  BY DEF IInv, TriesLeft
<1>4. Written'
  BY WrittenSame DEF IInv, results
<1>5. QED BY <1>1, <1>2, <1>3, <1>4 DEF IInv

LEMMA InvInvestigate == IInv /\ Investigate => IInv'
<1> SUFFICES ASSUME IInv, Investigate PROVE IInv'
  OBVIOUS
<1> DEFINE t == <<next, 0>>
<1>1. next \in Blocks /\ t \in Tasks
  BY Numbers DEF IInv, TypeOK, Investigate, Blocks, Heights, Tasks
<1>2. /\ task' = [task EXCEPT ![t] = "fetch"] /\ next' = next + 1
      /\ limiter' = limiter + 1 /\ limiter < MaxSlots /\ sent' = sent
      /\ pos' = [pos EXCEPT ![t] = 0]
  BY DEF Investigate, Starts, HasRoom
<1>3. task[t] = "none" /\ Succession'
  BY <1>1, <1>2, SuccessionInvestigate DEF IInv
<1> HIDE DEF t
<1>4. \A u \in Tasks : task'[u] = IF u = t THEN "fetch" ELSE task[u]
  BY <1>2 DEF IInv, TypeOK
<1>5. pos' = pos
  <2>1. pos[t] = 0
    BY <1>1, <1>3 DEF IInv, Written, Reads
  <2>2. QED BY <1>2, <2>1 DEF IInv, TypeOK
<1>6. TypeOK'
  <2>1. limiter' \in 0 .. MaxSlots /\ next' \in First .. MaxHead + 1
    BY <1>1, <1>2, Numbers DEF IInv, TypeOK, Blocks
  <2>2. task' \in [Tasks -> Stages]
    BY <1>2 DEF IInv, TypeOK, Stages
  <2>3. QED BY <1>2, <1>5, <2>1, <2>2 DEF IInv, TypeOK, Investigate
<1>7. TokensAccounted'
  BY <1>1, <1>2, <1>3, <1>4, StartTokens DEF IInv, Holding
<1>8. TriesLeft'
  BY <1>4 DEF IInv, TriesLeft
<1>9. Written'
  BY <1>2, <1>3, <1>4, <1>5, WrittenSame DEF IInv, Reads
<1>10. QED BY <1>3, <1>6, <1>7, <1>8, <1>9 DEF IInv

LEMMA InvRetry == \A t \in Tasks : IInv /\ Retry(t) => IInv'
<1> SUFFICES ASSUME NEW t \in Tasks, IInv, Retry(t) PROVE IInv'
  OBVIOUS
<1>1. /\ task' = [task EXCEPT ![t] = "nil", ![Again(t)] = "fetch"] /\ task[t] = "retry"
      /\ limiter' = limiter + 1 /\ limiter < MaxSlots /\ sent' = sent
      /\ pos' = [pos EXCEPT ![Again(t)] = 0] /\ UNCHANGED <<head, gpc, next, end, status>>
  BY DEF Retry, At, Starts, HasRoom, walk
<1>2. Again(t) \in Tasks /\ Again(t) # t /\ task[Again(t)] = "none" /\ Succession'
  BY <1>1, SuccessionRetry DEF IInv
<1>3. \A u \in Tasks : task'[u] = IF u = Again(t) THEN "fetch"
                                  ELSE IF u = t THEN "nil" ELSE task[u]
  BY <1>1, <1>2 DEF IInv, TypeOK
<1>4. pos' = pos
  <2>1. pos[Again(t)] = 0
    BY <1>2 DEF IInv, Written, Reads
  <2>2. QED BY <1>1, <2>1 DEF IInv, TypeOK
<1>5. TypeOK'
  <2>1. limiter' \in 0 .. MaxSlots
    BY <1>1, Numbers DEF IInv, TypeOK
  <2>2. task' \in [Tasks -> Stages]
    BY <1>1 DEF IInv, TypeOK, Stages
  <2>3. QED BY <1>1, <1>4, <2>1, <2>2 DEF IInv, TypeOK
<1>6. TokensAccounted'
  <2>1. task[Again(t)] \notin Holding /\ task'[Again(t)] = "fetch"
    BY <1>2, <1>3 DEF Holding
  <2>2. \A u \in Tasks \ {Again(t)} : task[u] \in Holding <=> task'[u] \in Holding
    BY <1>1, <1>3 DEF Holding
  <2>3. QED BY <1>1, <1>2, <2>1, <2>2, StartTokens DEF IInv
<1>7. TriesLeft'
  BY <1>3 DEF IInv, TriesLeft
<1>8. Written'
  <2>1. \A u \in Tasks : task'[u] \in Reads <=> task[u] \in Reads
    <3> TAKE u \in Tasks
    <3>1. CASE u = Again(t)
      BY <1>2, <1>3, <3>1 DEF Reads
    <3>2. CASE u = t
      <4>1. u # Again(t) /\ task[u] = "retry"
        BY <1>1, <1>2, <3>2
      <4>2. task'[u] = "nil"
        BY <1>3, <3>2, <4>1
      <4>3. QED BY <4>1, <4>2 DEF Reads
    <3>3. CASE u # t /\ u # Again(t)
      BY <1>3, <3>3
    <3>4. QED BY <3>1, <3>2, <3>3
  <2>2. QED BY <1>1, <1>4, <2>1, WrittenSame DEF IInv
<1>9. QED BY <1>2, <1>5, <1>6, <1>7, <1>8 DEF IInv

LEMMA InvWorks == \A t \in Tasks : IInv /\ Works(t) => IInv'
<1> SUFFICES ASSUME NEW t \in Tasks, IInv, Works(t) PROVE IInv'
  OBVIOUS
<1>1. CASE FetchOk(t)
  <2>1. TypeOK' /\ Succession' /\ TriesLeft'
    BY <1>1, GotoStep DEF FetchOk, At, Goto, InCharge, IInv, TypeOK
  <2>2. TokensAccounted'
    BY <1>1, SameTokens DEF FetchOk, At, Goto, Holding, IInv, TypeOK
  <2>3. Written'
    BY <1>1, WrittenFetchOk DEF IInv
  <2>4. QED BY <2>1, <2>2, <2>3 DEF IInv
<1>2. CASE FetchNil(t)
  <2>1. t[2] <= MaxRetry
    BY <1>2, TaskParts, Numbers DEF FetchNil, OutOfTries
  <2>2. TypeOK' /\ Succession' /\ TriesLeft'
    BY <1>2, <2>1, GotoStep DEF FetchNil, At, Goto, InCharge, IInv, TypeOK
  <2>3. TokensAccounted'
    BY <1>2, SameTokens DEF FetchNil, At, Goto, Holding, IInv, TypeOK
  <2>4. Written'
    BY <1>2, WrittenSame DEF FetchNil, At, Goto, Reads, IInv, TypeOK, results
  <2>5. QED BY <2>2, <2>3, <2>4 DEF IInv
<1>3. CASE GiveUp(t)
  <2>1. TypeOK' /\ Succession' /\ TriesLeft'
    BY <1>3, GotoStep DEF GiveUp, At, Goto, InCharge, IInv, TypeOK
  <2>2. TokensAccounted'
    BY <1>3, SameTokens DEF GiveUp, At, Goto, Holding, IInv, TypeOK
  <2>3. Written'
    BY <1>3, WrittenSame DEF GiveUp, At, Goto, Reads, IInv, TypeOK, results
  <2>4. QED BY <2>1, <2>2, <2>3 DEF IInv
<1>4. CASE Finish(t)
  <2>1. TokensAccounted' /\ limiter' \in 0 .. MaxSlots
    BY <1>4, FinishTokens DEF Finish, At, Goto, IInv
  <2>2. TypeOK' /\ Succession' /\ TriesLeft'
    BY <1>4, <2>1, GotoStep DEF Finish, At, Goto, InCharge
  <2>3. Written'
    BY <1>4, WrittenSame DEF Finish, At, Goto, Reads, IInv, TypeOK, results
  <2>4. QED BY <2>1, <2>2, <2>3 DEF IInv
<1>5. CASE SendResult(t)
  <2>1. TypeOK'
    BY <1>5, TaskParts DEF SendResult, IInv, TypeOK, walk
  <2>2. TokensAccounted'
    BY <1>5, SameTokens DEF SendResult, IInv
  <2>3. Succession' /\ TriesLeft'
    BY <1>5 DEF SendResult, IInv, Succession, Owns, Untouched, TriesLeft, walk
  <2>4. Written'
    BY <1>5, WrittenSend DEF IInv
  <2>5. QED BY <2>1, <2>2, <2>3, <2>4 DEF IInv
<1>6. CASE DerefNil(t) \/ ReceiptFails(t) \/ SendPanics(t)
  <2>1. status' \in {"fatal", "nilblock", "sendclosed"}
        /\ UNCHANGED <<head, walk, limiter, task, results>>
    BY <1>6 DEF DerefNil, ReceiptFails, SendPanics
  <2>2. TypeOK'
    BY <2>1 DEF IInv, TypeOK, walk, results
  <2>3. QED BY <2>1, <2>2, WalkStep DEF walk
<1>7. QED BY <1>1, <1>2, <1>3, <1>4, <1>5, <1>6 DEF Works

LEMMA InvStep == IInv /\ [Next]_vars => IInv'
<1> SUFFICES ASSUME IInv, [Next]_vars PROVE IInv'
  OBVIOUS
<1>1. CASE ChainGrows
  <2>1. TypeOK'
    BY <1>1, Numbers DEF ChainGrows, IInv, TypeOK, Heights, walk, results
  <2>2. QED BY <1>1, <2>1, WalkStep DEF ChainGrows, walk
<1>2. CASE ReadHead
  <2>1. TypeOK'
    BY <1>2 DEF ReadHead, WalkEnds, WalkGoesOn, IInv, TypeOK, results
  <2>2. QED BY <1>2, <2>1, WalkStep DEF ReadHead
<1>3. CASE HeadFails \/ MainReturns
  <2>1. status' \in {"fatal", "exited"} /\ UNCHANGED <<head, walk, limiter, task, results>>
    BY <1>3 DEF HeadFails, MainReturns
  <2>2. TypeOK'
    BY <2>1 DEF IInv, TypeOK, walk, results
  <2>3. QED BY <2>1, <2>2, WalkStep DEF walk
<1>4. CASE Investigate
  BY <1>4, InvInvestigate
<1>5. CASE BatchEnd
  <2>1. TypeOK'
    BY <1>5 DEF BatchEnd, IInv, TypeOK, results
  <2>2. QED BY <1>5, <2>1, WalkStep DEF BatchEnd
<1>6. ASSUME NEW t \in Tasks, Works(t) PROVE IInv'
  BY <1>6, InvWorks
<1>7. ASSUME NEW t \in Tasks, Retry(t) PROVE IInv'
  BY <1>7, InvRetry
<1>8. CASE UNCHANGED vars
  <2>1. TypeOK'
    BY <1>8 DEF IInv, TypeOK, vars, walk, results
  <2>2. QED BY <1>8, <2>1, WalkStep DEF vars, walk
<1>9. QED BY <1>1, <1>2, <1>3, <1>4, <1>5, <1>6, <1>7, <1>8 DEF Next, Walk

LEMMA Invariance == Spec => []IInv
  BY InvInit, InvStep, PTL DEF Spec
-----------------------------------------------------------------------------
(* The theorems *)

\* Every variable keeps its type: the tokens never exceed the channel.
THEOREM TypeCorrect == Spec => []TypeOK
  BY Invariance, PTL DEF IInv

\* The tokens in limiter are those of the goroutines that run and of the ones
\* that gave up: none is given back twice.
THEOREM TokensAreAccounted == Spec => []TokensAccounted
  BY Invariance, PTL DEF IInv

\* A block that the walk has passed is with exactly one goroutine, and one that
\* it has not reached with none.
THEOREM ExactlyOneInCharge == Spec => []OneInCharge
<1>1. IInv => OneInCharge
  <2> SUFFICES ASSUME IInv, NEW b \in Blocks
               PROVE  Cardinality(Charge(b)) = IF b < next THEN 1 ELSE 0
    BY DEF OneInCharge
  <2>1. CASE b < next
    <3>1. PICK r \in Recursions : Owns(b, r)
      BY <2>1 DEF IInv, Succession
    <3>2. Charge(b) = {r}
      BY <3>1, OwnerIsUnique DEF Charge, InCharge, Owns
    <3>3. QED BY <2>1, <3>2, FS_Singleton
  <2>2. CASE ~(b < next)
    <3>1. Untouched(b)
      BY <2>2 DEF IInv, Succession
    <3>2. Charge(b) = {}
      BY <3>1 DEF Charge, Untouched
    <3>3. QED BY <2>2, <3>2, FS_EmptySet
  <2>3. QED BY <2>1, <2>2
<1>2. QED BY <1>1, Invariance, PTL

\* main writes no result down twice, and none of a block that was not read.
THEOREM NeverDuplicated == Spec => []NoDuplicate
<1>1. IInv => NoDuplicate
  <2> SUFFICES ASSUME IInv, NEW b \in Blocks
               PROVE  /\ sent[b] <= Finds[b]
                      /\ sent[b] > 0 => \E r \in Charge(b) : task[<<b, r>>] \in {"scan", "done"}
    BY DEF NoDuplicate
  <2>1. Finds[b] \in Nat /\ \A r \in Recursions : <<b, r>> \in Tasks
    BY FinderAssumption DEF Tasks
  <2>2. CASE \A r \in Recursions : task[<<b, r>>] \notin Reads
    <3>1. sent[b] = 0
      BY <2>2 DEF IInv, Written
    <3>2. QED BY <3>1, <2>1
  <2>3. ASSUME NEW r \in Recursions, task[<<b, r>>] \in Reads
        PROVE  sent[b] <= Finds[b] /\ r \in Charge(b) /\ task[<<b, r>>] \in {"scan", "done"}
    <3>1. sent[b] <= Finds[b]
      BY <2>1, <2>3 DEF IInv, Written
    <3>2. QED BY <2>3, <3>1 DEF Charge, Reads
  <2>4. QED BY <2>2, <2>3
<1>2. QED BY <1>1, Invariance, PTL

\* When the program has ended, at most one block per token that the walk has
\* passed is unfinished: each has a goroutine that still holds its token.
THEOREM LossBounded == Spec => []LossIsBounded
<1>1. IInv => LossIsBounded
  <2> SUFFICES ASSUME IInv PROVE Cardinality(Unfinished) <= MaxSlots
    BY DEF LossIsBounded
  <2> DEFINE f == [t \in Holders |-> t[1]]
             Image == {f[t] : t \in Holders}
  <2>1. ASSUME NEW b \in Unfinished
        PROVE  b \in Image
    <3>1. b \in Blocks /\ b < next
      BY DEF Unfinished
    <3>2. PICK r \in Recursions : Owns(b, r)
      BY <3>1 DEF IInv, Succession
    <3>3. task[<<b, r>>] # "done"
      BY DEF Unfinished
    <3>4. <<b, r>> \in Tasks
      BY <3>1 DEF Tasks
    <3>5. <<b, r>> \in Holders
      BY <3>2, <3>3, <3>4 DEF Holders, Owns, InCharge
    <3>6. f[<<b, r>>] = b
      BY <3>5
    <3>7. QED BY <3>5, <3>6
  <2>2. f \in Surjection(Holders, Image)
    BY DEF Surjection
  <2>3. IsFiniteSet(Image) /\ Cardinality(Image) <= Cardinality(Holders)
    BY <2>2, FiniteHolders, FS_Surjection
  <2>4. Unfinished \in SUBSET Image
    BY <2>1
  <2>5. Cardinality(Unfinished) <= Cardinality(Image)
    BY <2>3, <2>4, FS_Subset
  <2>6. Cardinality(Holders) \in 0 .. MaxSlots
    BY DEF IInv, TokensAccounted, TypeOK
  <2>7. Cardinality(Unfinished) \in Int /\ Cardinality(Image) \in Int
    BY <2>3, <2>4, FS_Subset, FS_CardinalityType
  <2>8. QED BY <2>3, <2>5, <2>6, <2>7, Numbers
<1>2. QED BY <1>1, Invariance, PTL
=============================================================================
