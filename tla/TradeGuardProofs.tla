-------------------------- MODULE TradeGuardProofs --------------------------
(***************************************************************************)
(* Proofs about TradeGuard for any number of processes, limits and lock    *)
(* times: is_running never sticks, and the limit and the lock time only    *)
(* fail through a race.                                                    *)
(***************************************************************************)
EXTENDS TradeGuard, TLAPS

\* A process that has passed the limit and has not yet decided to trade.
Opens(p, d) == /\ dir[p] = d
               /\ guard[p] \in {"check", "set", "opposite", "lock", "count", "kill"}

\* A trade that has read the count and not yet written it.
Writes(p, d) == dir[p] = d /\ trade[p] = "write"

\* The count and what is left of the limit agree but for one trade that is on
\* its way into the count.  While a process is open no trade is uncounted but
\* those of buythis, so they agree exactly and there is something left for it.
Budget(d) ==
  /\ left[d] >= 0
  /\ Limit[d] - cnt[d] <= left[d] + 1
  /\ \A q \in Procs : Writes(q, d) => Limit[d] - tmp[q] <= left[d] + 1
  /\ (\A q \in Procs : ~Uncounted(q, d)) => Limit[d] - cnt[d] <= left[d]
  /\ \A p \in Procs : Opens(p, d) =>
       /\ left[d] >= 1
       /\ Limit[d] - cnt[d] <= left[d]
       /\ \A q \in Procs : Writes(q, d) => Limit[d] - tmp[q] <= left[d]
       /\ \A q \in Procs : Opens(q, d) => q = p

BudgetInv == \A d \in Dirs : raced[d] \/ Budget(d)
-----------------------------------------------------------------------------
(* Types *)

LEMMA LowestBound ==
  /\ Limit \in [Dirs -> Nat]
  /\ \A d \in Dirs : Lowest(d) \in Int /\ Lowest(d) <= 0
  /\ \A d \in Dirs : \A n \in 1 .. MaxOrder : Limit[d] - n >= Lowest(d)
BY GuardAssumption DEF Lowest

LEMMA AgeBound == /\ Cap \in 0 .. Cap /\ 0 \in 0 .. Cap
                  /\ \A n \in 0 .. Cap : Older(n) \in 0 .. Cap
BY GuardAssumption DEF Older

LEMMA Directions == /\ "buy" \in Dirs /\ Watched \subseteq Dirs
                    /\ \A d \in Dirs : Opposite(d) \in Dirs
BY GuardAssumption DEF Dirs, Opposite, Watched

LEMMA TypeInit == ASSUME Init PROVE TypeOK
<1>1. left \in [Dirs -> Int]
  BY GuardAssumption DEF Init
<1>2. \A d \in Dirs : cnt[d] >= Lowest(d)
  BY LowestBound DEF Init
<1>3. age \in [Dirs -> 0 .. Cap] /\ quiet \in [Dirs -> 0 .. Cap]
  BY AgeBound DEF Init
<1>4. /\ dir \in [Procs -> Dirs] /\ guard \in [Procs -> Stages]
      /\ trade \in [Procs -> {"off"}] /\ tmp \in [Procs -> {0}]
  BY Directions DEF Init, Stages
<1>5. /\ running \in [Dirs -> BOOLEAN] /\ kill \in [Dirs -> BOOLEAN]
      /\ raced \in [Dirs -> BOOLEAN]
  BY DEF Init
<1>6. swapped \in BOOLEAN
  BY DEF Init
<1>7. cnt \in [Dirs -> Int] /\ lock \in LockTimes /\ attended \in BOOLEAN
  BY DEF Init
<1>8. /\ trade \in [Procs -> {"off", "stamp", "read", "write", "prepare", "build", "sign"}]
      /\ \A p \in Procs : trade[p] # "write" /\ tmp[p] = 0
      /\ \A p \in Procs : guard[p] = "off"
      /\ tmp \in [Procs -> Int]
  BY DEF Init
<1>9. QED BY <1>1, <1>2, <1>3, <1>4, <1>5, <1>6, <1>7, <1>8 DEF TypeOK

LEMMA TypeStep == ASSUME TypeOK, [Next]_vars PROVE TypeOK'
<1>0. attended' \in BOOLEAN
  BY DEF Next, Guard, vars, TypeOK
<1> USE <1>0 DEF TypeOK, Stages, flags, clock, procs, history
<1>1. CASE Tick
  BY <1>1, AgeBound DEF Tick
<1>2. ASSUME NEW D \in Scopes, KillCommand(D) PROVE TypeOK'
  BY <1>2 DEF KillCommand
<1>3. ASSUME NEW D \in Scopes, ClearCommand(D) PROVE TypeOK'
  <2>1. \A d \in Dirs : Limit[d] \in Int /\ Limit[d] - Limit[d] = 0
    BY LowestBound
  <2>2. cnt' \in [Dirs -> Int] /\ \A d \in Dirs : cnt'[d] >= Lowest(d)
    BY <1>3, <2>1, LowestBound DEF ClearCommand, ResetTo
  <2>3. age' \in [Dirs -> 0 .. Cap] /\ quiet' \in [Dirs -> 0 .. Cap]
    BY <1>3, AgeBound DEF ClearCommand, ResetTo
  <2>4. QED BY <1>3, <2>1, <2>2, <2>3 DEF ClearCommand, ResetTo
<1>4. ASSUME NEW l \in LockTimes, SetLockTime(l) PROVE TypeOK'
  BY <1>4 DEF SetLockTime
<1>5. ASSUME NEW p \in Procs, Guard(p) PROVE TypeOK'
  <2>1. CASE SwapCheck(p)
    BY <2>1 DEF SwapCheck, At, Goto
  <2>2. CASE SwapSet(p)
    BY <2>2 DEF SwapSet, At, Goto
  <2>3. CASE ReadLimit(p)
    BY <2>3 DEF ReadLimit, At, Goto
  <2>4. CASE CheckRunning(p)
    BY <2>4 DEF CheckRunning, At, Goto
  <2>5. CASE SetRunning(p)
    BY <2>5 DEF SetRunning, At, Goto
  <2>6. CASE StopOpposite(p)
    BY <2>6, Directions DEF StopOpposite, At, Goto
  <2>7. CASE StartTrade(p)
    BY <2>7, AgeBound DEF StartTrade, At
  <2>8. CASE WaitForLock(p)
    BY <2>8 DEF WaitForLock, At, Goto
  <2>9. CASE RereadLimit(p)
    BY <2>9 DEF RereadLimit, At, Goto
  <2>10. CASE ObeyKill(p)
    BY <2>10 DEF ObeyKill, At, Goto
  <2>11. CASE ClearRunning(p)
    BY <2>11 DEF ClearRunning, At, Goto
  <2>20. QED BY <1>5, <2>1, <2>2, <2>3, <2>4, <2>5, <2>6, <2>7, <2>8, <2>9, <2>10, <2>11 DEF Guard
<1>6. ASSUME NEW p \in Procs, Trade(p) PROVE TypeOK'
  <2>1. CASE Stamp(p)
    BY <2>1, AgeBound DEF Stamp, TradeStep
  <2>2. CASE ReadCount(p)
    BY <2>2, LowestBound DEF ReadCount, TradeStep
  <2>3. CASE WriteCount(p)
    <3>1. dir[p] \in Dirs /\ tmp[p] + 1 >= Lowest(dir[p]) /\ tmp[p] + 1 \in Int
      BY <2>3, LowestBound DEF WriteCount, TradeStep
    <3>2. QED BY <2>3, <3>1 DEF WriteCount, TradeStep
  <2>4. CASE Refused(p) \/ Prepare(p) \/ Build(p) \/ Send(p)
    BY <2>4 DEF Refused, Prepare, Build, Send, TradeStep
  <2>5. CASE OutOfMoney(p)
    BY <2>5, LowestBound DEF OutOfMoney, TradeStep
  <2>20. QED BY <1>6, <2>1, <2>2, <2>3, <2>4, <2>5 DEF Trade
<1>7. ASSUME NEW p \in Procs, Starts(p) PROVE TypeOK'
  <2>1. CASE SwapSeen(p)
    BY <2>1, Directions DEF SwapSeen, StartsGuard, Occupies
  <2>2. CASE BuyThis(p) \/ SendPresale(p)
    BY <2>2, AgeBound, Directions DEF BuyThis, SendPresale, Unguarded, Occupies
  <2>3. ASSUME NEW d \in Dirs, Trigger(p, d) PROVE TypeOK'
    BY <2>3, Directions DEF Trigger, StartsGuard, Occupies
  <2>4. ASSUME NEW d \in Dirs, NEW n \in 1 .. MaxOrder, CountedOrder(p, d, n) PROVE TypeOK'
    <3>1. d \in Dirs /\ Limit[d] - n \in Int /\ Limit[d] - n >= Lowest(d) /\ n \in Int
      BY LowestBound, Directions
    <3>2. cnt' \in [Dirs -> Int] /\ \A e \in Dirs : cnt'[e] >= Lowest(e)
      BY <2>4, <3>1 DEF CountedOrder, ResetTo
    <3>3. age' \in [Dirs -> 0 .. Cap] /\ quiet' \in [Dirs -> 0 .. Cap]
      BY <2>4, AgeBound DEF CountedOrder, ResetTo
    <3>4. left' \in [Dirs -> Int] /\ kill' \in [Dirs -> BOOLEAN]
      BY <2>4, <3>1 DEF CountedOrder, ResetTo
    <3>5. raced' \in [Dirs -> BOOLEAN]
      BY <2>4 DEF CountedOrder, ResetTo
    <3>6. QED BY <2>4, <3>1, <3>2, <3>3, <3>4, <3>5 DEF CountedOrder, StartsGuard, Occupies, ResetTo
  <2>5. QED BY <1>7, <2>1, <2>2, <2>3, <2>4, Directions DEF Starts, Order
<1>8. CASE UNCHANGED vars
  BY <1>8 DEF vars
<1>9. QED BY <1>1, <1>2, <1>3, <1>4, <1>5, <1>6, <1>7, <1>8 DEF Next, Commands

\* Every variable keeps its type, a count is never below what an order leaves,
\* and a slot trades only once its process_trading is on its way out.
THEOREM TypeCorrect == Spec => []TypeOK
<1>1. Init => TypeOK
  BY TypeInit
<1>2. TypeOK /\ [Next]_vars => TypeOK'
  BY TypeStep
<1>3. QED BY <1>1, <1>2, PTL DEF Spec
-----------------------------------------------------------------------------
(* is_running *)

\* A process that stays an owner, or lets go with the flag down, keeps the
\* flag held.
LEMMA HeldStep == ASSUME TypeOK, RunningIsHeld, [Next]_vars PROVE RunningIsHeld'
<1> USE DEF RunningIsHeld, Owns, flags, clock, procs, history
<1>1. CASE Tick
  BY <1>1 DEF Tick
<1>2. ASSUME NEW D \in Scopes, KillCommand(D) PROVE RunningIsHeld'
  BY <1>2 DEF KillCommand
<1>3. ASSUME NEW D \in Scopes, ClearCommand(D) PROVE RunningIsHeld'
  BY <1>3 DEF ClearCommand, ResetTo
<1>4. ASSUME NEW l \in LockTimes, SetLockTime(l) PROVE RunningIsHeld'
  BY <1>4 DEF SetLockTime
<1>5. ASSUME NEW p \in Procs, Guard(p) PROVE RunningIsHeld'
  <2>1. CASE SwapCheck(p)
    BY <2>1 DEF TypeOK, SwapCheck, At, Goto
  <2>2. CASE SwapSet(p)
    BY <2>2 DEF TypeOK, SwapSet, At, Goto
  <2>3. CASE ReadLimit(p)
    BY <2>3 DEF TypeOK, ReadLimit, At, Goto
  <2>4. CASE CheckRunning(p)
    BY <2>4 DEF TypeOK, CheckRunning, At, Goto
  <2>5. CASE SetRunning(p)
    BY <2>5 DEF TypeOK, SetRunning, At, Goto
  <2>6. CASE StopOpposite(p)
    BY <2>6 DEF TypeOK, StopOpposite, At, Goto
  <2>7. CASE StartTrade(p)
    BY <2>7 DEF TypeOK, StartTrade, At
  <2>8. CASE WaitForLock(p)
    BY <2>8 DEF TypeOK, WaitForLock, At, Goto
  <2>9. CASE RereadLimit(p)
    BY <2>9 DEF TypeOK, RereadLimit, At, Goto
  <2>10. CASE ObeyKill(p)
    BY <2>10 DEF TypeOK, ObeyKill, At, Goto
  <2>11. CASE ClearRunning(p)
    BY <2>11 DEF TypeOK, ClearRunning, At, Goto
  <2>20. QED BY <1>5, <2>1, <2>2, <2>3, <2>4, <2>5, <2>6, <2>7, <2>8, <2>9, <2>10, <2>11 DEF Guard
<1>6. ASSUME NEW p \in Procs, Trade(p) PROVE RunningIsHeld'
  BY <1>6 DEF Trade, TradeStep, Stamp, ReadCount, WriteCount, Refused, Prepare,
                 Build, Send, OutOfMoney
<1>7. ASSUME NEW p \in Procs, Starts(p) PROVE RunningIsHeld'
  <2>1. ASSUME NEW d, Occupies(p, d), UNCHANGED running,
               guard' = guard \/ \E at \in {"swap", "limit"} : guard' = [guard EXCEPT ![p] = at]
        PROVE  RunningIsHeld'
    BY <2>1 DEF TypeOK, Occupies
  <2>2. QED BY <1>7, <2>1 DEF Starts, SwapSeen, BuyThis, SendPresale, Unguarded, Trigger, Order, CountedOrder,
                              StartsGuard, ResetTo
<1>8. CASE UNCHANGED vars
  BY <1>8 DEF vars
<1>9. QED BY <1>1, <1>2, <1>3, <1>4, <1>5, <1>6, <1>7, <1>8 DEF Next, Commands

\* is_running never outlives its owners, so no direction is shut for good.
THEOREM NeverSticks == Spec => []RunningIsHeld
<1>1. Init => RunningIsHeld
  BY DEF Init, RunningIsHeld
<1>2. TypeOK /\ RunningIsHeld /\ [Next]_vars => RunningIsHeld'
  BY HeldStep
<1>3. QED BY <1>1, <1>2, TypeCorrect, PTL DEF Spec
-----------------------------------------------------------------------------
(* The limit *)

LEMMA LimitPositive == \A d \in Dirs : Limit[d] \in Nat /\ Limit[d] >= 1
BY GuardAssumption

\* What leaves count, budget and stale counts alone keeps a budget, as long as
\* no process opens, and every trade that stops being uncounted was none yet.
LEMMA BudgetFrame ==
  ASSUME TypeOK, NEW d \in Dirs, Budget(d), left'[d] = left[d], cnt'[d] = cnt[d],
         \A q \in Procs : Writes(q, d)' => Writes(q, d) /\ tmp'[q] = tmp[q],
         \A q \in Procs : Opens(q, d)' => Opens(q, d),
         \A q \in Procs : Uncounted(q, d) => Uncounted(q, d)' \/ Opens(q, d)
  PROVE  Budget(d)'
BY LimitPositive DEF Budget

\* A process of process_trading that neither opens nor starts a trade.
LEMMA BudgetGuard ==
  ASSUME TypeOK, BudgetInv, NEW p \in Procs, NEW to, Goto(p, to), to # "off" => guard[p] # "off",
         to \in {"check", "set", "opposite", "lock", "count", "kill"} => Opens(p, dir[p]),
         UNCHANGED <<cnt, left, raced>>
  PROVE  BudgetInv'
<1> SUFFICES ASSUME NEW d \in Dirs, ~raced'[d] PROVE Budget(d)'
  BY DEF BudgetInv
<1>1. Budget(d)
  BY DEF BudgetInv
<1>2. QED BY <1>1, BudgetFrame DEF Goto, TypeOK, Opens, Writes, Uncounted

\* A trade that is neither read nor written, and a new process.
LEMMA BudgetOther ==
  ASSUME TypeOK, BudgetInv, UNCHANGED <<cnt, left, raced, tmp>>, NEW p \in Procs,
         \A q \in Procs \ {p} : UNCHANGED <<dir[q], guard[q], trade[q]>>,
         \/ /\ guard[p] = "off" /\ trade[p] = "off"
            /\ guard'[p] \in {"off", "swap", "limit"} /\ trade'[p] \in {"off", "stamp"}
         \/ /\ UNCHANGED <<dir[p], guard[p]>>
            /\ trade[p] \in {"stamp", "prepare", "build", "sign"}
            /\ IF trade[p] = "stamp" THEN trade'[p] = "read" ELSE trade'[p] \in {"off", "build", "sign"}
  PROVE  BudgetInv'
<1> SUFFICES ASSUME NEW d \in Dirs, ~raced'[d] PROVE Budget(d)'
  BY DEF BudgetInv
<1>1. Budget(d)
  BY DEF BudgetInv
<1>2. \A q \in Procs : Writes(q, d)' => Writes(q, d) /\ tmp'[q] = tmp[q]
  BY DEF Writes
<1>3. \A q \in Procs : Opens(q, d)' => Opens(q, d)
  BY DEF Opens
<1>4. \A q \in Procs : Uncounted(q, d) => Uncounted(q, d)'
  BY DEF Uncounted
<1>5. QED BY <1>1, <1>2, <1>3, <1>4, BudgetFrame

LEMMA BudgetReads ==
  ASSUME TypeOK, BudgetInv, NEW p \in Procs, ReadLimit(p)
  PROVE  BudgetInv'
<1> SUFFICES ASSUME NEW d \in Dirs, ~raced'[d] PROVE Budget(d)'
  BY DEF BudgetInv
<1>1. raced[d] = FALSE /\ Budget(d)
  BY DEF ReadLimit, TypeOK, BudgetInv
<1>2. CASE dir[p] = d /\ ~Done(d)
  <2>1. \A q \in Procs : ~Uncounted(q, d)
    BY <1>2 DEF ReadLimit, TypeOK
  <2>2. Limit[d] - cnt[d] <= left[d] /\ left[d] >= 1
    BY <1>1, <1>2, <2>1, LimitPositive DEF Budget, Done, TypeOK
  <2>3. \A q \in Procs : ~Writes(q, d)' /\ (Opens(q, d)' => q = p)
    BY <1>2, <2>1 DEF ReadLimit, At, Goto, TypeOK, Opens, Writes, Uncounted
  <2>4. left' = left /\ cnt' = cnt
    BY DEF ReadLimit, history
  <2>5. QED BY <1>1, <2>2, <2>3, <2>4, LimitPositive DEF Budget, TypeOK
<1>3. CASE dir[p] # d \/ Done(d)
  <2>1. left' = left /\ cnt' = cnt
    BY DEF ReadLimit
  <2>2. \A q \in Procs : Writes(q, d)' => Writes(q, d) /\ tmp'[q] = tmp[q]
    BY DEF ReadLimit, Goto, Writes
  <2>3. \A q \in Procs : Opens(q, d)' => Opens(q, d)
    BY <1>3 DEF ReadLimit, Goto, Opens, TypeOK
  <2>4. \A q \in Procs : Uncounted(q, d) => Uncounted(q, d)' \/ Opens(q, d)
    BY DEF ReadLimit, At, Goto, Uncounted, TypeOK
  <2>5. QED BY <1>1, <2>1, <2>2, <2>3, <2>4, BudgetFrame
<1>4. QED BY <1>2, <1>3

LEMMA BudgetStarts ==
  ASSUME TypeOK, BudgetInv, NEW p \in Procs, StartTrade(p)
  PROVE  BudgetInv'
<1> SUFFICES ASSUME NEW d \in Dirs, ~raced'[d] PROVE Budget(d)'
  BY DEF BudgetInv
<1>1. Budget(d) /\ cnt' = cnt /\ tmp' = tmp /\ dir' = dir
  BY DEF StartTrade, BudgetInv
<1>2. trade[p] = "off"
  BY DEF StartTrade, At, TypeOK
<1>3. \A q \in Procs : Writes(q, d)' => Writes(q, d)
  BY <1>1 DEF StartTrade, Writes, TypeOK
<1>4. \A q \in Procs : Opens(q, d)' => Opens(q, d) /\ q # p
  BY <1>1 DEF StartTrade, Opens, TypeOK
<1>5. CASE dir[p] = d
  <2>1. Opens(p, d) /\ Uncounted(p, d)' /\ left'[d] = left[d] - 1
    BY <1>1, <1>5 DEF StartTrade, At, Opens, Uncounted, TypeOK
  <2>2. \A q \in Procs : ~Opens(q, d)'
    BY <1>1, <1>4, <2>1 DEF Budget
  <2>3. QED BY <1>1, <1>3, <2>1, <2>2, LimitPositive DEF Budget, TypeOK
<1>6. CASE dir[p] # d
  <2>1. left'[d] = left[d]
    BY <1>6 DEF StartTrade, TypeOK
  <2>2. \A q \in Procs : Uncounted(q, d) => Uncounted(q, d)'
    BY <1>1, <1>6 DEF StartTrade, Uncounted, TypeOK
  <2>3. QED BY <1>1, <1>3, <1>4, <2>1, <2>2, BudgetFrame
<1>7. QED BY <1>5, <1>6

LEMMA BudgetReadsCount ==
  ASSUME TypeOK, BudgetInv, NEW p \in Procs, ReadCount(p)
  PROVE  BudgetInv'
<1> SUFFICES ASSUME NEW d \in Dirs, ~raced'[d] PROVE Budget(d)'
  BY DEF BudgetInv
<1>1. Budget(d) /\ left' = left /\ cnt' = cnt /\ dir' = dir /\ guard' = guard
  BY DEF ReadCount, TradeStep, BudgetInv, history
<1>2. \A q \in Procs : /\ Opens(q, d)' <=> Opens(q, d)
                       /\ Uncounted(q, d)' <=> Uncounted(q, d)
  BY <1>1 DEF ReadCount, TradeStep, Opens, Uncounted, TypeOK
<1>3. \A q \in Procs : Writes(q, d)' => \/ Writes(q, d) /\ tmp'[q] = tmp[q]
                                        \/ tmp'[q] = cnt[d]
  BY <1>1 DEF ReadCount, TradeStep, Writes, TypeOK
<1>4. QED BY <1>1, <1>2, <1>3, LimitPositive DEF Budget, TypeOK

LEMMA BudgetWrites ==
  ASSUME TypeOK, BudgetInv, NEW p \in Procs, WriteCount(p)
  PROVE  BudgetInv'
<1> SUFFICES ASSUME NEW d \in Dirs, ~raced'[d] PROVE Budget(d)'
  BY DEF BudgetInv
<1>1. Budget(d) /\ left' = left /\ dir' = dir /\ guard' = guard
  BY DEF WriteCount, TradeStep, BudgetInv, history
<1>2. \A q \in Procs : Opens(q, d)' <=> Opens(q, d)
  BY <1>1 DEF Opens
<1>3. \A q \in Procs : Writes(q, d)' => Writes(q, d) /\ tmp'[q] = tmp[q]
  BY <1>1 DEF WriteCount, TradeStep, Writes, TypeOK
<1>4. CASE dir[p] = d
  <2>1. Writes(p, d) /\ cnt'[d] = tmp[p] + 1
    BY <1>4 DEF WriteCount, TradeStep, Writes, TypeOK
  <2>2. QED BY <1>1, <1>2, <1>3, <2>1, LimitPositive DEF Budget, TypeOK
<1>5. CASE dir[p] # d
  <2>1. cnt'[d] = cnt[d]
    BY <1>5 DEF WriteCount, TypeOK
  <2>2. \A q \in Procs : Uncounted(q, d) => Uncounted(q, d)'
    BY <1>1, <1>5 DEF WriteCount, TradeStep, Uncounted, TypeOK
  <2>3. QED BY <1>1, <1>2, <1>3, <2>1, <2>2, BudgetFrame
<1>6. QED BY <1>4, <1>5

\* A reset that meets no half-done increment sets count and budget alike.
LEMMA BudgetReset ==
  ASSUME TypeOK, BudgetInv, NEW D \in SUBSET Dirs, NEW n, ResetTo(D, n), UNCHANGED <<tmp, trade>>,
         \A d \in D : n[d] \in Nat /\ n[d] >= 1,
         \A q \in Procs : guard'[q] # guard[q] =>
            guard[q] = "off" /\ guard'[q] = "limit" /\ trade[q] = "off",
         \A q \in Procs : dir'[q] # dir[q] =>
            trade[q] = "off" /\ guard[q] = "off" /\ guard'[q] \in {"off", "limit"}
  PROVE  BudgetInv'
<1> SUFFICES ASSUME NEW d \in Dirs, ~raced'[d] PROVE Budget(d)'
  BY DEF BudgetInv
<1>1. raced[d] = FALSE /\ Budget(d) /\ ~(d \in D /\ Stale(d))
  BY DEF ResetTo, TypeOK, BudgetInv
<1>2. \A q \in Procs : Opens(q, d)' => Opens(q, d)
  BY DEF Opens
<1>3. \A q \in Procs : Writes(q, d)' => Writes(q, d)
  BY DEF Writes
<1>4. \A q \in Procs : Uncounted(q, d) => Uncounted(q, d)'
  BY DEF Uncounted
<1>5. CASE d \in D
  <2>1. \A q \in Procs : ~Writes(q, d)'
    BY <1>1, <1>3, <1>5 DEF Stale, Writes
  <2>2. cnt'[d] = Limit[d] - n[d] /\ left'[d] = n[d] /\ n[d] \in Nat /\ n[d] >= 1
    BY <1>5 DEF ResetTo
  <2>3. QED BY <1>1, <1>2, <2>1, <2>2, LimitPositive DEF Budget
<1>6. CASE d \notin D
  <2>1. cnt'[d] = cnt[d] /\ left'[d] = left[d]
    BY <1>6 DEF ResetTo
  <2>2. QED BY <1>1, <1>2, <1>3, <1>4, <2>1, BudgetFrame
<1>7. QED BY <1>5, <1>6

LEMMA BudgetStep == ASSUME TypeOK, BudgetInv, [Next]_vars PROVE BudgetInv'
<1> USE DEF flags, clock, procs, history
<1>1. ASSUME UNCHANGED <<cnt, left, raced, procs>> PROVE BudgetInv'
  BY <1>1 DEF BudgetInv, Budget, Opens, Writes, Uncounted
<1>2. ASSUME NEW D \in Scopes, ClearCommand(D) PROVE BudgetInv'
  <2>1. D \in SUBSET Dirs
    BY GuardAssumption
  <2>2. QED BY <1>2, <2>1, LimitPositive, BudgetReset DEF ClearCommand
<1>3. ASSUME NEW p \in Procs, Guard(p) PROVE BudgetInv'
  <2>1. CASE SwapCheck(p)
    BY <2>1, BudgetGuard DEF SwapCheck, At, Opens
  <2>2. CASE SwapSet(p)
    BY <2>2, BudgetGuard DEF SwapSet, At, Opens
  <2>3. CASE CheckRunning(p)
    BY <2>3, BudgetGuard DEF CheckRunning, At, Opens
  <2>4. CASE SetRunning(p)
    BY <2>4, BudgetGuard DEF SetRunning, At, Opens
  <2>5. CASE StopOpposite(p)
    BY <2>5, BudgetGuard DEF StopOpposite, At, Opens
  <2>6. CASE WaitForLock(p)
    BY <2>6, BudgetGuard DEF WaitForLock, At, Opens
  <2>7. CASE RereadLimit(p)
    BY <2>7, BudgetGuard DEF RereadLimit, At, Opens
  <2>8. CASE ObeyKill(p)
    BY <2>8, BudgetGuard DEF ObeyKill, At, Opens
  <2>9. CASE ClearRunning(p)
    BY <2>9, BudgetGuard DEF ClearRunning, At, Opens
  <2>10. QED BY <1>3, <2>1, <2>2, <2>3, <2>4, <2>5, <2>6, <2>7, <2>8, <2>9,
                BudgetReads, BudgetStarts DEF Guard
<1>4. ASSUME NEW p \in Procs, Trade(p) PROVE BudgetInv'
  <2>1. CASE Stamp(p) \/ Refused(p) \/ Prepare(p) \/ Build(p) \/ Send(p) \/ OutOfMoney(p)
    BY <2>1, BudgetOther DEF Stamp, Refused, Prepare, Build, Send, OutOfMoney, TradeStep, TypeOK
  <2>2. QED BY <1>4, <2>1, BudgetReadsCount, BudgetWrites DEF Trade
<1>5. ASSUME NEW p \in Procs, Starts(p) PROVE BudgetInv'
  <2>1. CASE SwapSeen(p)
    BY <2>1, BudgetOther DEF SwapSeen, StartsGuard, Occupies, TypeOK
  <2>2. CASE BuyThis(p) \/ SendPresale(p)
    BY <2>2, BudgetOther DEF BuyThis, SendPresale, Unguarded, Occupies, TypeOK
  <2>3. ASSUME NEW d \in Dirs, Trigger(p, d) PROVE BudgetInv'
    BY <2>3, BudgetOther DEF Trigger, StartsGuard, Occupies, TypeOK
  <2>4. ASSUME NEW d \in Dirs, NEW n \in 1 .. MaxOrder, CountedOrder(p, d, n) PROVE BudgetInv'
    <3>1. {d} \in SUBSET Dirs /\ n \in Nat /\ n >= 1
      BY GuardAssumption
    <3>2. \A q \in Procs : guard'[q] # guard[q] =>
            guard[q] = "off" /\ guard'[q] = "limit" /\ trade[q] = "off"
      BY <2>4 DEF CountedOrder, StartsGuard, Occupies, TypeOK
    <3>3. \A q \in Procs : dir'[q] # dir[q] =>
            trade[q] = "off" /\ guard[q] = "off" /\ guard'[q] \in {"off", "limit"}
      BY <2>4 DEF CountedOrder, StartsGuard, Occupies, TypeOK
    <3>4. UNCHANGED <<tmp, trade>>
      BY <2>4 DEF CountedOrder, StartsGuard
    <3>5. \A e \in {d} : [f \in Dirs |-> n][e] \in Nat /\ [f \in Dirs |-> n][e] >= 1
      BY <3>1
    <3>6. ResetTo({d}, [e \in Dirs |-> n])
      BY <2>4 DEF CountedOrder
    <3>7. QED BY <3>1, <3>2, <3>3, <3>4, <3>5, <3>6, BudgetReset
  <2>5. QED BY <1>5, <2>1, <2>2, <2>3, <2>4, Directions DEF Starts, Order
<1>6. CASE Tick
  BY <1>1, <1>6 DEF Tick
<1>7. ASSUME NEW D \in Scopes, KillCommand(D) PROVE BudgetInv'
  BY <1>1, <1>7 DEF KillCommand
<1>8. ASSUME NEW l \in LockTimes, SetLockTime(l) PROVE BudgetInv'
  BY <1>1, <1>8 DEF SetLockTime
<1>9. CASE UNCHANGED vars
  BY <1>1, <1>9 DEF vars
<1>10. QED BY <1>2, <1>3, <1>4, <1>5, <1>6, <1>7, <1>8, <1>9 DEF Next, Commands

\* No trade exceeds the limit but through a race.
THEOREM LimitHolds == Spec => []LimitUnlessRaced
<1>1. Init => BudgetInv
  BY LimitPositive DEF Init, BudgetInv, Budget, Opens, Writes, Uncounted
<1>2. TypeOK /\ BudgetInv /\ [Next]_vars => BudgetInv'
  BY BudgetStep
<1>3. TypeOK /\ BudgetInv => LimitUnlessRaced
  BY DEF TypeOK, BudgetInv, Budget, LimitUnlessRaced
<1>4. QED BY <1>1, <1>2, <1>3, TypeCorrect, PTL DEF Spec
-----------------------------------------------------------------------------
(* The lock time *)

\* A trade that has put down its stamp has put it down for both directions, so
\* a stamp is at most as old as the last trade, unless one is still to come.
QuietInv == \/ \A d \in Dirs : age[d] <= quiet[d]
            \/ \E q \in Procs : trade[q] = "stamp"

\* Whoever keeps its trade at the stamp, and ages and quiet alike, keeps it.
LEMMA QuietFrame ==
  ASSUME QuietInv, UNCHANGED <<age, quiet>>,
         \A q \in Procs : trade[q] = "stamp" => trade'[q] = "stamp"
  PROVE  QuietInv'
BY DEF QuietInv

LEMMA QuietGuard ==
  ASSUME TypeOK, QuietInv, NEW p \in Procs, Guard(p)
  PROVE  QuietInv'
<1>1. CASE StartTrade(p)
  BY <1>1 DEF TypeOK, StartTrade, QuietInv
<1>2. CASE SwapCheck(p) \/ SwapSet(p) \/ ReadLimit(p) \/ CheckRunning(p) \/ SetRunning(p)
  BY <1>2, QuietFrame DEF SwapCheck, SwapSet, ReadLimit, CheckRunning, SetRunning, Goto, clock, history
<1>3. CASE StopOpposite(p) \/ WaitForLock(p) \/ RereadLimit(p) \/ ObeyKill(p) \/ ClearRunning(p)
  BY <1>3, QuietFrame DEF StopOpposite, WaitForLock, RereadLimit, ObeyKill, ClearRunning, Goto, clock, history
<1>4. QED BY <1>1, <1>2, <1>3 DEF Guard

LEMMA QuietTrade ==
  ASSUME TypeOK, QuietInv, NEW p \in Procs, Trade(p)
  PROVE  QuietInv'
<1>1. CASE Stamp(p)
  <2>1. \A d \in Dirs : age'[d] = 0 /\ quiet'[d] = quiet[d] /\ quiet[d] \in 0 .. Cap
    BY <1>1 DEF Stamp, history, TypeOK
  <2>2. QED BY <2>1 DEF QuietInv
<1>2. CASE ReadCount(p) \/ WriteCount(p) \/ Refused(p)
  BY <1>2, QuietFrame DEF TypeOK, ReadCount, WriteCount, Refused, TradeStep, clock, history
<1>3. CASE OutOfMoney(p) \/ Prepare(p) \/ Build(p) \/ Send(p)
  BY <1>3, QuietFrame DEF TypeOK, OutOfMoney, Prepare, Build, Send, TradeStep, clock, history
<1>4. QED BY <1>1, <1>2, <1>3 DEF Trade

\* A reset forgets the trades of its directions together with their stamps.
LEMMA QuietReset ==
  ASSUME QuietInv, NEW D, NEW n, ResetTo(D, n), UNCHANGED trade
  PROVE  QuietInv'
<1>1. CASE \E q \in Procs : trade[q] = "stamp"
  BY <1>1 DEF QuietInv
<1>2. CASE \A d \in Dirs : age[d] <= quiet[d]
  <2>1. \A d \in Dirs : IF d \in D THEN age'[d] = Cap /\ quiet'[d] = Cap
                                   ELSE age'[d] = age[d] /\ quiet'[d] = quiet[d]
    BY DEF ResetTo
  <2>2. QED BY <1>2, <2>1, GuardAssumption DEF QuietInv
<1>3. QED BY <1>1, <1>2 DEF QuietInv

LEMMA QuietStarts ==
  ASSUME TypeOK, QuietInv, NEW p \in Procs, Starts(p)
  PROVE  QuietInv'
<1>1. CASE SwapSeen(p)
  BY <1>1, QuietFrame DEF SwapSeen, StartsGuard, clock, history
<1>2. CASE BuyThis(p) \/ SendPresale(p)
  BY <1>2 DEF TypeOK, BuyThis, SendPresale, Unguarded, QuietInv
<1>3. ASSUME NEW d \in Dirs, Trigger(p, d) PROVE QuietInv'
  BY <1>3, QuietFrame DEF Trigger, StartsGuard, clock, history
<1>4. ASSUME NEW d \in Dirs, NEW n \in 1 .. MaxOrder, CountedOrder(p, d, n) PROVE QuietInv'
  BY <1>4, QuietReset DEF CountedOrder, StartsGuard
<1>5. QED BY <1>1, <1>2, <1>3, <1>4, Directions DEF Starts, Order

LEMMA QuietStep == ASSUME TypeOK, QuietInv, [Next]_vars PROVE QuietInv'
<1>1. CASE Tick
  <2>1. CASE \E q \in Procs : trade[q] = "stamp"
    BY <1>1, <2>1 DEF Tick, procs, QuietInv
  <2>2. CASE \A d \in Dirs : age[d] <= quiet[d]
    <3>1. \A a, b \in 0 .. Cap : a <= b => Older(a) <= Older(b)
      BY GuardAssumption DEF Older
    <3>2. \A d \in Dirs : age'[d] = Older(age[d]) /\ quiet'[d] = Older(quiet[d])
      BY <1>1 DEF Tick
    <3>3. QED BY <2>2, <3>1, <3>2 DEF QuietInv, TypeOK
  <2>3. QED BY <2>1, <2>2 DEF QuietInv
<1>2. ASSUME NEW D \in Scopes, KillCommand(D) \/ ClearCommand(D) PROVE QuietInv'
  BY <1>2, QuietFrame, QuietReset DEF KillCommand, ClearCommand, clock, procs, history
<1>3. ASSUME NEW l \in LockTimes, SetLockTime(l) PROVE QuietInv'
  BY <1>3, QuietFrame DEF SetLockTime, procs, history
<1>4. ASSUME NEW p \in Procs, Guard(p) \/ Trade(p) \/ Starts(p) PROVE QuietInv'
  BY <1>4, QuietGuard, QuietTrade, QuietStarts
<1>5. CASE UNCHANGED vars
  BY <1>5, QuietFrame DEF vars, clock, procs, history
<1>6. QED BY <1>1, <1>2, <1>3, <1>4, <1>5 DEF Next, Commands

\* Only process_trading of the slot itself begins a trade of it, and only with
\* the lock time over.
LEMMA BeginsAfterLock ==
  ASSUME TypeOK, QuietInv, [Next]_vars, NEW p \in Procs, Begins(p)
  PROVE  quiet[dir[p]] >= lock + 1 \/ \E q \in Procs : trade[q] = "stamp"
<1>1. LockOver(dir[p])
  <2>1. guard[p] = "lock" /\ trade[p] = "off" /\ trade'[p] = "stamp" /\ guard'[p] = "clear"
    BY DEF Begins, At, TypeOK
  <2>2. ~(Tick \/ Commands \/ UNCHANGED vars)
    BY <2>1 DEF Tick, Commands, KillCommand, ClearCommand, SetLockTime, procs, vars
  <2>3. ASSUME NEW q \in Procs, Trade(q) PROVE FALSE
    BY <2>1, <2>3 DEF Trade, TradeStep, Stamp, ReadCount, WriteCount, Refused,
                      Prepare, Build, Send, OutOfMoney
  <2>4. ASSUME NEW q \in Procs, Starts(q) PROVE FALSE
    <3>1. guard[q] = "off"
      BY <2>4 DEF Starts, SwapSeen, BuyThis, SendPresale, Unguarded, Trigger, Order,
                  CountedOrder, StartsGuard, Occupies
    <3>2. guard' = guard \/ trade' = trade
      BY <2>4 DEF Starts, SwapSeen, BuyThis, SendPresale, Unguarded, Trigger, Order,
                  CountedOrder, StartsGuard
    <3>3. QED BY <2>1, <3>2
  <2>5. PICK q \in Procs : Guard(q)
    BY <2>2, <2>3, <2>4 DEF Next
  <2>6. StartTrade(q) /\ q = p
    BY <2>1, <2>5 DEF Guard, SwapCheck, SwapSet, ReadLimit, CheckRunning, SetRunning,
                      StopOpposite, StartTrade, WaitForLock, RereadLimit, ObeyKill,
                      ClearRunning, Goto, TypeOK
  <2>7. QED BY <2>6 DEF StartTrade
<1>2. lock \in Nat /\ dir[p] \in Dirs
  BY GuardAssumption DEF TypeOK
<1>3. age[dir[p]] \in 0 .. Cap /\ quiet[dir[p]] \in 0 .. Cap
  BY <1>2 DEF TypeOK
<1>4. QED BY <1>1, <1>2, <1>3, GuardAssumption DEF LockOver, QuietInv

\* Unless the last trade has not put down its stamp yet, a guarded trade starts
\* lock time + 1 after it, for any lock times and any number of processes.
THEOREM IntervalHolds == Spec => IntervalUnlessRaced
<1>1. Init => QuietInv
  BY GuardAssumption DEF Init, QuietInv
<1>2. TypeOK /\ QuietInv /\ [Next]_vars => QuietInv'
  BY QuietStep
<1>3. TypeOK /\ QuietInv /\ [Next]_vars =>
        [\A p \in Procs : Begins(p) => \/ quiet[dir[p]] >= lock + 1
                                       \/ \E q \in Procs : trade[q] = "stamp"]_vars
  BY BeginsAfterLock
<1>4. QED BY <1>1, <1>2, <1>3, TypeCorrect, PTL DEF Spec, IntervalUnlessRaced
=============================================================================
