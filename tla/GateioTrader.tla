----------------------------- MODULE GateioTrader -----------------------------
(***************************************************************************)
(* How binance_listing_bot/GateioTrader.py buys a newly listed coin.       *)
(*                                                                         *)
(* A trigger starts buy_thread() and sell_thread(), two coroutines of one  *)
(* asyncio loop: they alternate at their sleeps, and a turn of one of them *)
(* is a step.  They share the coin's entry in listed_coins.  A process of  *)
(* its own, currencies_thread(), tells which coins Gate.io trades.  The    *)
(* order book is LocalOrderBook's; here it only gets ready once, and then  *)
(* holds any depth at any price.                                           *)
(*                                                                         *)
(* Money is in units of quote currency, and an amount of the coin is       *)
(* measured by what the plan would pay for it.  An order is immediate or   *)
(* cancel, at a limit five percent above the worst price of the plan: what *)
(* it buys costs up to MaxSlip more than planned, or less.  The test mode  *)
(* plays one partial fill and then a full one.                             *)
(***************************************************************************)
EXTENDS Integers

CONSTANTS
  Budget,      \* usd_to_spend
  MaxSlip,     \* bound on what one order costs beyond its plan
  MaxUnbooked  \* bound: orders that buy without being booked

ASSUME TraderAssumption == Budget \in Nat \ {0} /\ MaxSlip \in Nat /\ MaxUnbooked \in Nat

States == {"init", "partial", "done", "error"}       \* BuyStates

VARIABLES
  listed,    \* currency_list: "empty", "with" the coin or "without" it
  lister,    \* currencies_thread is alive
  ready,     \* order_book_ready_event
  buyer,     \* buy_thread: "sleep", "book" (waits for it), "returned" or "died"
  seller,    \* sell_thread: "on" or "left"
  order,     \* what order[coin_symbol] is left with: "none", "kept" for another try
  volume,    \* total_volume of the session
  amount,    \* total_amount of the session
  state,     \* what listed_coins shows: the state of the buy ...
  shown,     \* ... and its total_volume and total_amount
  spent,     \* history: what the account has paid
  unbooked   \* history: what orders that were not booked have cost, and their number

market == <<listed, lister, ready>>
session == <<order, volume, amount>>
entry == <<state, shown>>
traderVars == <<market, buyer, seller, session, entry, spent, unbooked>>
-----------------------------------------------------------------------------
\* The trader has just been made: its list is empty, its process has started.
TraderStarted == listed = "empty" /\ lister = TRUE

\* An announcement has triggered the coin's order book, entry and coroutines.
CoinTriggered == /\ ready = FALSE /\ buyer = "sleep" /\ seller = "on"
                 /\ state = "init" /\ shown = [volume |-> 0, amount |-> 0]

TraderInit == /\ TraderStarted /\ CoinTriggered
              /\ order = "none" /\ volume = 0 /\ amount = 0
              /\ spent = 0 /\ unbooked = [cost |-> 0, orders |-> 0]

ListUpdated == /\ lister
               /\ listed' \in {"with", "without"}
               /\ UNCHANGED <<lister, ready, buyer, seller, session, entry, spent, unbooked>>

\* list_currencies raises, and nothing catches it.
ListerDies == /\ lister
              /\ lister' = FALSE
              /\ UNCHANGED <<listed, ready, buyer, seller, session, entry, spent, unbooked>>

BookReady == /\ ~ready
             /\ ready' = TRUE
             /\ UNCHANGED <<listed, lister, buyer, seller, session, entry, spent, unbooked>>
-----------------------------------------------------------------------------
(* buy_thread.  With an empty currency_list a turn of it changes nothing. *)

NotSupported == /\ buyer = "sleep" /\ listed = "without"
                /\ buyer' = "returned"
                /\ UNCHANGED <<market, seller, session, entry, spent, unbooked>>

WaitForBook == /\ buyer = "sleep" /\ listed = "with" /\ ~ready
               /\ buyer' = "book"
               /\ UNCHANGED <<market, seller, session, entry, spent, unbooked>>

PlansAsleep ==                               \* fault: a buyer that waits is not woken
  ready /\ buyer = "sleep" /\ listed = "with"

\* The turn goes on with the order book, and does not wait again before its end.
Plans == ready /\ (buyer = "book" \/ (buyer = "sleep" /\ listed = "with"))

RemainingIgnoresVolume == Budget             \* fault: forgets what earlier orders have cost

Remaining == Budget - volume

\* The asks do not reach what remains (no 'average_price'), there is none, or
\* nothing remains (0 / 0): an exception outside the try.
PlanDies == /\ Plans
            /\ buyer' = "died"
            /\ UNCHANGED <<market, seller, session, entry, spent, unbooked>>

\* The order is made for what remains.  One that is kept from a failed turn has
\* its amount, which costs what it costs now.
Planned == IF order = "none" THEN {Remaining}
           ELSE IF Remaining > 0 THEN 1 .. Remaining ELSE Remaining .. -1

Fails == /\ state' = "error" /\ UNCHANGED shown
         /\ order' = "kept" /\ UNCHANGED <<volume, amount>>
         /\ buyer' = "sleep"

\* The assertion fails, for the price of a kept order or for a rounded sum; the
\* exchange refuses, as it does a negative amount; it fills nothing, and the
\* average price divides by zero.
OrderFails == /\ Plans /\ Remaining # 0
              /\ Fails
              /\ UNCHANGED <<market, seller, spent, unbooked>>

\* What the exchange may do with an order of planned cost c.
Fills(c) == {f \in [units : 1 .. Budget, cost : 1 .. Budget + MaxSlip] :
               f.units <= c /\ f.cost <= f.units + MaxSlip}

\* The exchange has filled an order, or a part of it, that the session does
\* not learn of.
Unbooked(f) == /\ Plans /\ unbooked.orders < MaxUnbooked
               /\ \E c \in Planned : f \in Fills(c)
               /\ spent' = spent + f.cost
               /\ unbooked' = [cost |-> unbooked.cost + f.cost, orders |-> unbooked.orders + 1]
               /\ UNCHANGED <<market, seller>>

\* The answer is lost: the next turn tries the same order.
AnswerLost(f) == Unbooked(f) /\ Fails

\* The order is neither closed nor cancelled with a rest, but still open, or
\* cancelled when it was full: it is cleared, and the next turn makes another.
Cleared(f) == /\ Unbooked(f)
              /\ order' = "none" /\ buyer' = "sleep"
              /\ UNCHANGED <<volume, amount, entry>>

Booked(f) == /\ volume' = volume + f.cost
             /\ amount' = amount + f.units
             /\ spent' = spent + f.cost

ShowsLast(f) ==                              \* fault: shows the order, not the session
  shown' = [volume |-> f.cost, amount |-> f.units]

Shows(f) == shown' = [volume |-> volume + f.cost, amount |-> amount + f.units]

\* A cancelled order that has bought something: book it, and buy the rest.
PartialFill(f) ==
  /\ Plans /\ \E c \in Planned : f \in Fills(c) /\ f.units < c
  /\ Booked(f) /\ Shows(f)
  /\ state' = "partial"
  /\ order' = "none" /\ buyer' = "sleep"
  /\ UNCHANGED <<market, seller, unbooked>>

\* A closed order.
Filled(f) ==
  /\ Plans /\ f.units \in Planned /\ f \in Fills(f.units)
  /\ Booked(f) /\ Shows(f)
  /\ state' = "done"
  /\ order' = "kept" /\ buyer' = "returned"
  /\ UNCHANGED <<market, seller, unbooked>>
-----------------------------------------------------------------------------
(* sell_thread.  Other turns of it change nothing: it works out the average
   price of what has been bought, and that is all. *)

SellerLeaves == /\ seller = "on" /\ state = "error"
                /\ seller' = "left"
                /\ UNCHANGED <<market, buyer, session, entry, spent, unbooked>>
-----------------------------------------------------------------------------
AnyFill == [units : 1 .. Budget, cost : 1 .. Budget + MaxSlip]

BuyTurn == \/ NotSupported \/ WaitForBook \/ PlanDies \/ OrderFails
           \/ \E f \in AnyFill : \/ PartialFill(f) \/ Filled(f)
                              \/ AnswerLost(f) \/ Cleared(f)

TraderNext == ListUpdated \/ ListerDies \/ BookReady \/ BuyTurn \/ SellerLeaves

TraderSpec == TraderInit /\ [][TraderNext]_traderVars

\* The loop gives the buyer its turns.  Nothing forces the order book to get
\* ready, or the list of currencies to come.
TraderFairSpec == TraderSpec /\ WF_traderVars(BuyTurn)
-----------------------------------------------------------------------------
(* Properties *)

Totals == [volume : Nat, amount : Nat]

TraderTypeOK ==
  /\ listed \in {"empty", "with", "without"} /\ lister \in BOOLEAN /\ ready \in BOOLEAN
  /\ buyer \in {"sleep", "book", "returned", "died"}
  /\ seller \in {"on", "left"}
  /\ order \in {"none", "kept"}
  /\ volume \in Nat /\ amount \in Nat
  /\ state \in States /\ shown \in Totals
  /\ state \in {"init", "partial"} => order = "none"
  /\ state = "done" => buyer = "returned"
  /\ spent \in Nat
  /\ unbooked \in [cost : Nat, orders : 0 .. MaxUnbooked]

\* What the seller works with is what the session has bought, whatever failed
\* in between: it never divides by zero, and averages all the fills.
SellerCanPrice ==
  /\ shown = [volume |-> volume, amount |-> amount]
  /\ state \in {"partial", "done"} => shown.amount > 0

\* However many partial fills it takes, what the session books and shows
\* exceeds the budget by the slip of a single order: each order is made for
\* what remains, and when nothing does none is filled any more.  What the
\* account pays beyond that is in orders that were not booked, and each of
\* them costs a budget and a slip at most.
OneSlipAtMost ==
  /\ shown.volume <= Budget + MaxSlip
  /\ spent = shown.volume + unbooked.cost
  /\ unbooked.cost <= unbooked.orders * (Budget + MaxSlip)

\* What the comment before the assertion on an order's amount asks for
\* (GateioTrader.py:257, "just in case...stop buying more than our config
\* amount").  It fails: the assertion only looks at the planned price, and
\* at orders that were booked.
StopsAtBudget == spent <= Budget

\* No endless series of orders, and no lost wakeup: the buyer ends, or keeps
\* failing, or has to wait for ever for the list of currencies or the book.
BuyerSettles == \/ <>[](buyer \in {"returned", "died"})
                \/ []<>(state = "error")
                \/ []<>(listed # "with" \/ ~ready)
=============================================================================
