----------------------------- MODULE WalletProofs -----------------------------
(***************************************************************************)
(* Proofs about the two jobs on wallets.                                   *)
(*                                                                         *)
(* WalletCache, for any processes, tokens and lists of holdings: doubled   *)
(* rows stay few and nobody goes by them, and what an update stored that   *)
(* ran to its end, and alone, is what the site answered.                   *)
(*                                                                         *)
(* TransferChain, for any accounts and paths, also ones that name an       *)
(* account twice or the last one in between, any tokens, fees and number   *)
(* of runs: the nonces keep step, a run that ends with good answers leaves *)
(* nothing on the way, and each run leaves at most one allowance.          *)
(***************************************************************************)
EXTENDS WalletCache, TransferChain, TLAPS,
        FiniteSetTheorems, SequenceTheorems, WellFoundedInduction

-----------------------------------------------------------------------------
(***************************************************************************)
(* WalletCache                                                             *)
(***************************************************************************)

(* What every state of the cache keeps to *)

Rows == [token : Currencies, fake : BOOLEAN, old : BOOLEAN]

NoRepeats(s) == \A i, j \in 1 .. Len(s) : s[i] = s[j] => i = j

\* How a call fits together: a frame below another is that of the native token,
\* and the frame of a token is that of the first one of the list.
Fits(c) ==
  /\ c.native.token = Native
  /\ c.own.at # "none" <=> c.pc \in {"currency", "bnb"}
  /\ c.native.at # "none" => c.own.at = "value" /\ c.own.token # Native
  /\ c.pc = "bnb" => c.own.token = Native
  /\ c.pc = "currency" => c.list # <<>> /\ c.own.token = c.list[1]
  /\ c.pc = "store" => c.list # <<>>
  /\ c.pc # "store" => c.cid = 0
  /\ c.pc \in {"clear", "ask"} => c.update /\ c.list = <<>>
  /\ c.pc \in {"idle", "bnb"} => ~c.update
  /\ c.update => NoRepeats(c.list)
CallsFit == \A p \in Procs : Fits(call[p])

\* Every id that is known, of a frame, of a call or stored, is that of the first
\* row of its token.
Knows(c) ==
  /\ c.own.row # 0 => First(c.own.row, c.own.token)
  /\ c.native.row # 0 => First(c.native.row, c.native.token)
  /\ c.pc = "store" => First(c.cid, c.list[1])
IdsInv == /\ \A p \in Procs : Knows(call[p])
          /\ \A i \in 1 .. Len(holdings) :
               holdings[i] # 0 => First(holdings[i], currency[holdings[i]].token)

\* Who inserts a row is one of those who have looked before there was any.
Inserts(f, t) == f.token = t /\ f.at = "insert" /\ f.row = 0
Waits(c, t) == Inserts(c.own, t) \/ Inserts(c.native, t)
Inserting(t) == {p \in Procs : Waits(call[p], t)}
DoublesInv ==
  \A t \in Currencies : Cardinality(RowsOf(t)) + Cardinality(Inserting(t)) <= Cardinality(Procs)

\* Each update stores a token once; what it may still store counts already.
Has(t) == {i \in 1 .. Len(holdings) : holdings[i] # 0 /\ currency[holdings[i]].token = t}
Lists(c, t) == \E i \in 1 .. Len(c.list) : c.list[i] = t
May(c, t) == c.update /\ (c.pc = "ask" \/ Lists(c, t))
MayStore(t) == {p \in Procs : May(call[p], t)}
TimesInv ==
  \A t \in Currencies :
    /\ Cardinality(Has(t)) + Cardinality(MayStore(t)) <= Cardinality(Procs)
    /\ \A p \in Procs : ~call[p].update => Times(call[p].list, t) <= Cardinality(Procs)

\* An update that is alone has stored the first tokens of the answer and has the
\* others before it.
Stores(i) == holdings[i] # 0 /\ currency[holdings[i]].token = answer[i]
Rest(c) == /\ Len(holdings) + Len(c.list) = Len(answer)
           /\ \A i \in 1 .. Len(holdings) : Stores(i)
           /\ \A i \in 1 .. Len(c.list) : c.list[i] = answer[Len(holdings) + i]
           /\ c.empty <=> answer = <<>>
Whole == /\ answer = <<>> => holdings = <<0>>
         /\ answer # <<>> => Len(holdings) = Len(answer) /\ \A i \in 1 .. Len(holdings) : Stores(i)
AloneInv ==
  /\ \A p \in Procs : solo[p] =>
       /\ Updating(p) /\ \A q \in Procs : Updating(q) => q = p
       /\ IF At(p, "ask") THEN holdings = <<>> ELSE Rest(call[p])
  /\ whole => Whole /\ \A p \in Procs : ~Updating(p)

CacheIInv == CacheTypeOK /\ CallsFit /\ IdsInv /\ DoublesInv /\ TimesInv /\ AloneInv
-----------------------------------------------------------------------------
(* The rows of a token *)

LEMMA Given ==
  /\ IsFiniteSet(Procs) /\ IsFiniteSet(Currencies) /\ Native \in Currencies
  /\ Answers \subseteq Seq(Currencies)
  /\ \A s \in Answers : NoRepeats(s)
<1>1. ASSUME NEW s \in Answers PROVE NoRepeats(s)
  <2>1. s \in Seq(Currencies)
    BY CacheAssumption
  <2>2. DOMAIN s = 1 .. Len(s)
    BY <2>1, LenProperties
  <2>3. QED BY <2>2, CacheAssumption DEF NoRepeats
<1>2. QED BY <1>1, CacheAssumption

\* A set of positive numbers that is not empty has a least one.
LEMMA LeastOf ==
  ASSUME NEW S \in SUBSET Nat, S # {}
  PROVE  \E m \in S : \A i \in S : m <= i
<1>1. PICK x \in S : TRUE
  OBVIOUS
<1>2. PICK m \in S : \A w \in S : ~(<<w, m>> \in OpToRel(<, Nat))
  BY <1>1, NatLessThanWellFounded, WFMin
<1>3. \A i \in S : ~(i < m)
  BY <1>2 DEF OpToRel
<1>4. QED BY <1>3

LEMMA LenOf ==
  ASSUME NEW S, NEW n \in Nat, NEW s \in [1 .. n -> S]
  PROVE  s \in Seq(S) /\ Len(s) = n
<1>1. s \in Seq(S)
  BY SeqDef
<1>2. DOMAIN s = 1 .. Len(s) /\ Len(s) \in Nat /\ DOMAIN s = 1 .. n
  BY <1>1, LenProperties
<1> DEFINE m == Len(s)
<1>3. m \in Nat /\ 1 .. m = 1 .. n
  BY <1>2
<1> HIDE DEF m
<1>4. (m \in 1 .. m <=> m \in 1 .. n) /\ (n \in 1 .. m <=> n \in 1 .. n)
  BY <1>3
<1>5. m = n
  BY <1>3, <1>4
<1>6. QED BY <1>1, <1>5 DEF m

RowsOK == currency \in Seq(Rows)

LEMMA RowsAre ==
  ASSUME RowsOK
  PROVE  /\ Len(currency) \in Nat /\ DOMAIN currency = 1 .. Len(currency)
         /\ \A i \in 1 .. Len(currency) : currency[i] \in Rows
BY LenProperties, ElementOfSeq DEF RowsOK

LEMMA HoldingsAre ==
  ASSUME CacheTypeOK
  PROVE  /\ RowsOK /\ Len(holdings) \in Nat /\ DOMAIN holdings = 1 .. Len(holdings)
         /\ \A i \in 1 .. Len(holdings) : holdings[i] \in Nat /\ holdings[i] <= Len(currency)
         /\ \A i \in 1 .. Len(holdings) : holdings[i] # 0 => holdings[i] \in 1 .. Len(currency)
<1>1. RowsOK /\ holdings \in Seq(Nat)
  BY DEF CacheTypeOK, Rows, RowsOK
<1>2. Len(currency) \in Nat
  BY <1>1, RowsAre
<1>3. /\ Len(holdings) \in Nat /\ DOMAIN holdings = 1 .. Len(holdings)
      /\ \A i \in 1 .. Len(holdings) : holdings[i] \in Nat
  BY <1>1, LenProperties, ElementOfSeq
<1>4. \A i \in 1 .. Len(holdings) : holdings[i] <= Len(currency)
  BY <1>3 DEF CacheTypeOK
<1>5. QED BY <1>1, <1>2, <1>3, <1>4

\* SELECT ... fetchone gives the first row.
FindsFirst(t) == /\ Found(t) \in Nat
                 /\ Found(t) # 0 => First(Found(t), t)
                 /\ Found(t) # 0 <=> RowsOf(t) # {}

LEMMA FoundIsFirst == RowsOK => \A t \in Currencies : FindsFirst(t)
<1> SUFFICES ASSUME RowsOK, NEW t \in Currencies PROVE FindsFirst(t)
  OBVIOUS
<1>1. RowsOf(t) \in SUBSET Nat /\ 0 \notin RowsOf(t)
  BY RowsAre DEF RowsOf
<1>2. CASE RowsOf(t) # {}
  <2>1. \E m \in RowsOf(t) : First(m, t)
    BY <1>1, <1>2, LeastOf DEF First
  <2>2. First(Found(t), t) /\ Found(t) \in RowsOf(t)
    BY <1>2, <2>1 DEF Found
  <2>3. QED BY <1>1, <1>2, <2>2 DEF FindsFirst
<1>3. CASE RowsOf(t) = {}
  BY <1>3 DEF Found, FindsFirst
<1>4. QED BY <1>2, <1>3

LEMMA FoundNext == RowsOK' => (\A t \in Currencies : FindsFirst(t))'
BY FoundIsFirst, PTL

LEMMA FirstIsFound ==
  ASSUME RowsOK, NEW t, NEW cid, First(cid, t)
  PROVE  Found(t) = cid /\ cid \in 1 .. Len(currency) /\ currency[cid].token = t /\ t \in Currencies
<1>1. RowsOf(t) \in SUBSET Nat /\ cid \in RowsOf(t) /\ cid \in 1 .. Len(currency) /\ currency[cid].token = t
  BY RowsAre DEF RowsOf, First
<1>2. currency[cid] \in Rows
  BY <1>1, RowsAre
<1>3. t \in Currencies
  BY <1>1, <1>2 DEF Rows
<1>4. First(Found(t), t)
  BY <1>1, <1>3, FoundIsFirst DEF FindsFirst
<1>5. Found(t) \in RowsOf(t) /\ Found(t) <= cid /\ cid <= Found(t)
  BY <1>1, <1>4 DEF First
<1>6. QED BY <1>1, <1>3, <1>5

\* Rows are added behind the others, and keep their token.
Grows == /\ Len(currency) <= Len(currency')
         /\ \A i \in 1 .. Len(currency) : currency'[i].token = currency[i].token

LEMMA FirstStays ==
  ASSUME RowsOK, RowsOK', Grows, NEW t, NEW cid, First(cid, t)
  PROVE  First(cid, t)'
<1>1. cid \in 1 .. Len(currency) /\ currency[cid].token = t
  BY FirstIsFound
<1>2. /\ DOMAIN currency' = 1 .. Len(currency') /\ Len(currency') \in Nat /\ Len(currency) \in Nat
      /\ DOMAIN currency = 1 .. Len(currency)
  BY RowsAre, LenProperties DEF RowsOK
<1>3. cid \in RowsOf(t)'
  BY <1>1, <1>2 DEF Grows, RowsOf
<1>4. ASSUME NEW i \in RowsOf(t)' PROVE cid <= i
  <2>1. i \in 1 .. Len(currency') /\ currency'[i].token = t
    BY <1>2 DEF RowsOf
  <2>2. CASE i <= Len(currency)
    <3>1. i \in RowsOf(t)
      BY <1>2, <2>1, <2>2 DEF Grows, RowsOf
    <3>2. QED BY <3>1 DEF First
  <2>3. CASE i > Len(currency)
    BY <1>1, <1>2, <2>1, <2>3
  <2>4. QED BY <1>2, <2>1, <2>2, <2>3
<1>5. QED BY <1>3, <1>4 DEF First

-----------------------------------------------------------------------------
(* The calls *)

SameWork(c, d) == /\ c.pc = d.pc /\ c.update = d.update /\ c.list = d.list
                  /\ c.empty = d.empty /\ c.cid = d.cid

LEMMA IdleFits == Idle \in Calls /\ Fits(Idle) /\ Frame(Native) \in Frames /\ NoFrame \in Frames
<1>1. Frame(Native) \in Frames /\ NoFrame \in Frames
  BY Given DEF Frame, NoFrame, Frames
<1>2. Idle \in Calls
  BY <1>1, EmptySeq DEF Idle, Calls
<1>3. Fits(Idle)
  BY DEF Idle, Fits, NoFrame, Frame
<1>4. QED BY <1>1, <1>2, <1>3

LEMMA Becoming ==
  ASSUME CacheTypeOK, CallsFit, NEW p \in Procs, NEW c \in Calls, Fits(c), Becomes(p, c)
  PROVE  /\ call' \in [Procs -> Calls] /\ CallsFit'
         /\ call'[p] = c /\ \A q \in Procs : q # p => call'[q] = call[q]
<1>1. call \in [Procs -> Calls]
  BY DEF CacheTypeOK
<1>2. /\ call' \in [Procs -> Calls] /\ call'[p] = c
      /\ \A q \in Procs : q # p => call'[q] = call[q]
  BY <1>1 DEF Becomes
<1>3. \A q \in Procs : Fits(call'[q])
  BY <1>2 DEF CallsFit
<1>4. QED BY <1>2, <1>3 DEF CallsFit

\* The frame that get_currency works on.
LEMMA TopOf ==
  ASSUME CacheTypeOK, CallsFit, NEW p \in Procs,
         NEW at \in {"look", "price", "value", "insert"}, InCurrency(p, at)
  PROVE  /\ call[p] \in Calls /\ Fits(call[p]) /\ call[p].pc \in {"currency", "bnb"} /\ call[p].cid = 0
         /\ Top(p) \in Frames /\ Top(p).at = at
         /\ IF InNative(p) THEN Top(p) = call[p].native /\ Top(p).token = Native
                           ELSE Top(p) = call[p].own /\ call[p].native.at = "none"
<1>1. call[p] \in Calls /\ Fits(call[p])
  BY DEF CacheTypeOK, CallsFit
<1>2. /\ IF InNative(p) THEN Top(p) = call[p].native /\ Top(p).token = Native
                        ELSE Top(p) = call[p].own /\ call[p].native.at = "none"
      /\ Top(p).at = at
  BY <1>1 DEF Top, InNative, InCurrency, Fits
<1>3. Top(p) \in Frames
  BY <1>1, <1>2 DEF Calls
<1>4. call[p].own.at # "none"
  BY <1>1, <1>2 DEF InNative, Fits
<1>5. call[p].pc \in {"currency", "bnb"}
  BY <1>1, <1>4 DEF Fits
<1>6. call[p].cid = 0
  BY <1>1, <1>5 DEF Fits
<1>7. QED BY <1>1, <1>2, <1>3, <1>5, <1>6

LEMMA SetTopGives ==
  ASSUME CacheTypeOK, CallsFit, NEW p \in Procs,
         NEW at \in {"look", "price", "value", "insert"}, InCurrency(p, at),
         NEW f \in Frames, f.token = Top(p).token, f.at \in {"price", "value", "insert"}, SetTop(p, f)
  PROVE  \E c \in Calls :
           /\ Becomes(p, c) /\ Fits(c) /\ SameWork(c, call[p])
           /\ IF InNative(p) THEN c.native = f /\ c.own = call[p].own
                             ELSE c.own = f /\ c.native = call[p].native
<1> DEFINE c == IF InNative(p) THEN [call[p] EXCEPT !.native = f] ELSE [call[p] EXCEPT !.own = f]
<1>1. Becomes(p, c)
  BY DEF SetTop
<1>2. /\ call[p] \in Calls /\ Fits(call[p]) /\ call[p].pc \in {"currency", "bnb"}
      /\ IF InNative(p) THEN Top(p) = call[p].native /\ Top(p).token = Native
                        ELSE Top(p) = call[p].own /\ call[p].native.at = "none"
  BY TopOf
<1>3. /\ c \in Calls /\ SameWork(c, call[p])
      /\ IF InNative(p) THEN c.native = f /\ c.own = call[p].own
                        ELSE c.own = f /\ c.native = call[p].native
  BY <1>2 DEF Calls, SameWork
<1> HIDE DEF c
<1>4. Fits(c)
  BY <1>2, <1>3 DEF Fits, SameWork, InNative
<1>5. QED BY <1>1, <1>3, <1>4

LEMMA ReturnsGives ==
  ASSUME CacheTypeOK, CallsFit, NEW p \in Procs,
         NEW at \in {"look", "price", "value", "insert"}, InCurrency(p, at),
         NEW cid \in Nat, Returns(p, cid)
  PROVE  \E c \in Calls :
           /\ Becomes(p, c) /\ Fits(c)
           /\ \/ InNative(p) /\ SameWork(c, call[p]) /\ c.native = NoFrame /\ c.own = call[p].own
              \/ ~InNative(p) /\ call[p].pc = "bnb" /\ c = Idle
              \/ /\ ~InNative(p) /\ call[p].pc = "currency" /\ c.pc = "store" /\ c.cid = cid
                 /\ c.update = call[p].update /\ c.list = call[p].list /\ c.empty = call[p].empty
                 /\ c.own = NoFrame /\ c.native = call[p].native /\ c.list[1] = Top(p).token
<1>1. /\ call[p] \in Calls /\ Fits(call[p]) /\ call[p].pc \in {"currency", "bnb"}
      /\ IF InNative(p) THEN Top(p) = call[p].native /\ Top(p).token = Native
                        ELSE Top(p) = call[p].own /\ call[p].native.at = "none"
  BY TopOf
<1>2. Idle \in Calls /\ Fits(Idle) /\ NoFrame \in Frames
  BY IdleFits
<1>3. CASE InNative(p)
  <2> DEFINE c == [call[p] EXCEPT !.native = NoFrame]
  <2>1. Becomes(p, c)
    BY <1>3 DEF Returns
  <2>2. c \in Calls /\ SameWork(c, call[p]) /\ c.native = NoFrame /\ c.own = call[p].own
    BY <1>1, <1>2 DEF Calls, SameWork
  <2> HIDE DEF c
  <2>3. Fits(c)
    BY <1>1, <2>2 DEF Fits, SameWork, NoFrame, Frame
  <2>4. QED BY <1>3, <2>1, <2>2, <2>3
<1>4. CASE ~InNative(p) /\ call[p].pc = "bnb"
  BY <1>2, <1>4 DEF Returns, At
<1>5. CASE ~InNative(p) /\ call[p].pc = "currency"
  <2> DEFINE c == [call[p] EXCEPT !.pc = "store", !.own = NoFrame, !.cid = cid]
  <2>1. Becomes(p, c)
    BY <1>5 DEF Returns, At
  <2>2. /\ c \in Calls /\ c.pc = "store" /\ c.cid = cid
        /\ c.update = call[p].update /\ c.list = call[p].list /\ c.empty = call[p].empty
        /\ c.own = NoFrame /\ c.native = call[p].native
    BY <1>1, <1>2 DEF Calls
  <2> HIDE DEF c
  <2>3. Fits(c) /\ c.list[1] = Top(p).token
    BY <1>1, <1>5, <2>2 DEF Fits, NoFrame, Frame
  <2>4. QED BY <1>5, <2>1, <2>2, <2>3
<1>6. QED BY <1>1, <1>3, <1>4, <1>5

\* What get_currency does to the table: the price of a row is set, or a row is
\* added behind the others.
LEMMA CurrencyStep ==
  ASSUME CacheTypeOK, CallsFit, IdsInv, [CacheNext]_cacheVars
  PROVE  RowsOK' /\ Grows /\ (PricesAge \/ UNCHANGED currency => Len(currency') = Len(currency))
<1>1. RowsOK /\ Len(currency) \in Nat /\ DOMAIN currency = 1 .. Len(currency)
      /\ \A i \in 1 .. Len(currency) : currency[i] \in Rows
  BY HoldingsAre, RowsAre
<1>2. CASE UNCHANGED currency
  BY <1>1, <1>2 DEF RowsOK, Grows
<1>3. ASSUME NEW p \in Procs, Reprice(p) PROVE RowsOK' /\ Grows
  <2> DEFINE i == Top(p).row
  <2>1. InCurrency(p, "value") /\ i # 0 /\ currency' = [currency EXCEPT ![i].old = FALSE]
    BY <1>3 DEF Reprice
  <2>2. First(i, Top(p).token)
    <3>1. Top(p) = call[p].native \/ Top(p) = call[p].own
      BY DEF Top
    <3>2. QED BY <2>1, <3>1 DEF IdsInv, Knows
  <2>3. i \in 1 .. Len(currency)
    BY <1>1, <2>2, FirstIsFound
  <2> HIDE DEF i
  <2>4. [currency[i] EXCEPT !.old = FALSE] \in Rows
        /\ [currency[i] EXCEPT !.old = FALSE].token = currency[i].token
    BY <1>1, <2>3 DEF Rows
  <2>5. currency' = [currency EXCEPT ![i] = [currency[i] EXCEPT !.old = FALSE]]
    BY <2>1
  <2>6. /\ currency' \in Seq(Rows) /\ Len(currency') = Len(currency)
        /\ \A j \in 1 .. Len(currency) :
             currency'[j] = IF j = i THEN [currency[i] EXCEPT !.old = FALSE] ELSE currency[j]
    BY <1>1, <2>3, <2>4, <2>5, ExceptSeq DEF RowsOK
  <2>7. \A j \in 1 .. Len(currency) : currency'[j].token = currency[j].token
    BY <2>3, <2>4, <2>6
  <2>8. QED BY <1>1, <2>6, <2>7 DEF RowsOK, Grows
<1>4. ASSUME NEW p \in Procs, NEW t \in Currencies, Insert(p, t) PROVE RowsOK' /\ Grows
  <2> DEFINE row == [token |-> t, fake |-> Top(p).fake, old |-> FALSE]
  <2>1. InCurrency(p, "insert") /\ currency' \in {currency, Append(currency, row)}
    BY <1>4 DEF Insert
  <2>2. row \in Rows
    BY <2>1, TopOf DEF Rows, Frames
  <2> HIDE DEF row
  <2>3. CASE currency' = Append(currency, row)
    BY <1>1, <2>2, <2>3, AppendProperties DEF RowsOK, Grows
  <2>4. QED BY <1>2, <2>1, <2>3
<1>5. ASSUME PricesAge PROVE RowsOK' /\ Grows /\ Len(currency') = Len(currency)
  <2>1. currency' = [i \in 1 .. Len(currency) |-> [currency[i] EXCEPT !.old = TRUE]]
    BY <1>1, <1>5 DEF PricesAge
  <2>2. \A i \in 1 .. Len(currency) : /\ [currency[i] EXCEPT !.old = TRUE] \in Rows
                                      /\ [currency[i] EXCEPT !.old = TRUE].token = currency[i].token
    BY <1>1 DEF Rows
  <2>3. currency' \in [1 .. Len(currency) -> Rows]
    BY <2>1, <2>2
  <2>4. currency' \in Seq(Rows) /\ Len(currency') = Len(currency)
    BY <1>1, <2>3, LenOf
  <2>5. \A j \in 1 .. Len(currency) : currency'[j].token = currency[j].token
    BY <2>1, <2>2
  <2>6. QED BY <1>1, <2>4, <2>5 DEF RowsOK, Grows
<1>6. QED
  BY <1>2, <1>3, <1>4, <1>5 DEF CacheNext, cacheVars, tables, GetBnbPrice, GetBalance, GetCurrency, Balance,
     Raises, Look, Price, PriceInNative, LookAgain, Clear, Etherscan, Poocoin, Bscscan, SiteAnswers,
     SiteFails, NextToken, StoreToken, BalanceDone

\* What get_currency leaves of the work of the caller.
Works(c, d) ==
  \/ SameWork(c, d)
  \/ d.pc = "bnb" /\ c = Idle
  \/ d.pc = "currency" /\ c.pc = "store" /\ c.update = d.update /\ c.list = d.list /\ c.empty = d.empty

LEMMA KnowsStay ==
  ASSUME CacheTypeOK, IdsInv, RowsOK', Grows, NEW p \in Procs, NEW d, d = call[p]
  PROVE  Knows(d)'
<1>1. RowsOK /\ Knows(d)
  BY HoldingsAre DEF IdsInv
<1>2. QED BY <1>1, FirstStays DEF Knows

LEMMA SetTopOK ==
  ASSUME CacheTypeOK, CallsFit, IdsInv, RowsOK', Grows, NEW p \in Procs,
         NEW at \in {"look", "price", "value", "insert"}, InCurrency(p, at),
         NEW f \in Frames, f.token = Top(p).token, f.at \in {"price", "value", "insert"},
         f.row # 0 => First(f.row, f.token)', SetTop(p, f)
  PROVE  \E c \in Calls : /\ Becomes(p, c) /\ Fits(c) /\ SameWork(c, call[p]) /\ Knows(c)'
                          /\ \A t \in Currencies : Waits(c, t) => Inserts(f, t)
<1>1. PICK c \in Calls :
           /\ Becomes(p, c) /\ Fits(c) /\ SameWork(c, call[p])
           /\ IF InNative(p) THEN c.native = f /\ c.own = call[p].own
                             ELSE c.own = f /\ c.native = call[p].native
  BY SetTopGives
<1>2. PICK d : d = call[p]
  OBVIOUS
<1>3. Knows(d)' /\ Fits(d) /\ d.pc \in {"currency", "bnb"} /\ (~InNative(p) => d.native.at = "none")
  BY <1>2, KnowsStay, TopOf
<1>4. Knows(c)'
  BY <1>1, <1>2, <1>3 DEF Knows, SameWork
<1>5. ASSUME NEW t \in Currencies, Waits(c, t) PROVE Inserts(f, t)
  BY <1>1, <1>2, <1>3, <1>5 DEF Waits, Inserts, Fits, InNative
<1>6. QED BY <1>1, <1>4, <1>5

LEMMA ReturnsOK ==
  ASSUME CacheTypeOK, CallsFit, IdsInv, RowsOK', Grows, NEW p \in Procs,
         NEW at \in {"look", "price", "value", "insert"}, InCurrency(p, at),
         NEW t, t = Top(p).token, NEW cid \in Nat, First(cid, t)', Returns(p, cid)
  PROVE  \E c \in Calls : /\ Becomes(p, c) /\ Fits(c) /\ Works(c, call[p]) /\ Knows(c)'
                          /\ \A u \in Currencies : ~Waits(c, u)
<1>1. PICK c \in Calls :
           /\ Becomes(p, c) /\ Fits(c)
           /\ \/ InNative(p) /\ SameWork(c, call[p]) /\ c.native = NoFrame /\ c.own = call[p].own
              \/ ~InNative(p) /\ call[p].pc = "bnb" /\ c = Idle
              \/ /\ ~InNative(p) /\ call[p].pc = "currency" /\ c.pc = "store" /\ c.cid = cid
                 /\ c.update = call[p].update /\ c.list = call[p].list /\ c.empty = call[p].empty
                 /\ c.own = NoFrame /\ c.native = call[p].native /\ c.list[1] = Top(p).token
  BY ReturnsGives
<1>2. PICK d : d = call[p]
  OBVIOUS
<1>3. Knows(d)' /\ Fits(d) /\ d.pc \in {"currency", "bnb"} /\ (~InNative(p) => d.native.at = "none")
  BY <1>2, KnowsStay, TopOf
<1>4. NoFrame.row = 0 /\ NoFrame.at = "none" /\ Idle.own = NoFrame /\ Idle.native = NoFrame /\ Idle.pc = "idle"
  BY DEF NoFrame, Frame, Idle
<1>5. Knows(c)'
  <2>1. CASE InNative(p) /\ SameWork(c, d) /\ c.native = NoFrame /\ c.own = d.own
    BY <1>3, <1>4, <2>1 DEF Knows, SameWork
  <2>2. CASE c = Idle
    BY <1>4, <2>2 DEF Knows
  <2>3. CASE c.pc = "store" /\ c.cid = cid /\ c.own = NoFrame /\ c.native = d.native /\ c.list[1] = t
    BY <1>3, <1>4, <2>3 DEF Knows
  <2>4. QED BY <1>1, <1>2, <2>1, <2>2, <2>3
<1>6. Works(c, call[p])
  BY <1>1 DEF Works
<1>7. ASSUME NEW u \in Currencies PROVE ~Waits(c, u)
  BY <1>1, <1>2, <1>3, <1>4 DEF Waits, Inserts, Fits, InNative
<1>8. QED BY <1>1, <1>5, <1>6, <1>7

\* Each step of get_currency: the work of the caller is kept, what is known
\* is right, and a process comes to insert a row only while there is none.
Adds(p, c) ==
  \/ /\ Len(currency') = Len(currency)
     /\ \A t \in Currencies : Waits(c, t) => Waits(call[p], t) \/ RowsOf(t) = {}
  \/ /\ \A u \in Currencies : ~Waits(c, u)
     /\ \E t \in Currencies : /\ Waits(call[p], t) /\ Len(currency') = Len(currency) + 1
                              /\ currency'[Len(currency) + 1].token = t

LEMMA GetCurrencyGives ==
  ASSUME CacheTypeOK, CallsFit, IdsInv, RowsOK', Grows, NEW p \in Procs, GetCurrency(p)
  PROVE  /\ UNCHANGED <<holdings, history>>
         /\ \E c \in Calls : /\ Becomes(p, c) /\ Fits(c) /\ Works(c, call[p]) /\ Knows(c)'
                             /\ Adds(p, c)
<1>1. UNCHANGED <<holdings, history>>
  BY DEF GetCurrency, Look, Price, PriceInNative, Reprice, LookAgain, Insert, tables
<1>2. PICK f : f = Top(p)
  OBVIOUS
<1>3. RowsOK /\ Len(currency) \in Nat
  BY HoldingsAre, RowsAre
<1>4. ASSUME NEW at \in {"look", "price", "value", "insert"}, InCurrency(p, at)
      PROVE  /\ f \in Frames /\ f.at = at /\ f.token \in Currencies /\ f.row \in Nat
             /\ f.row # 0 => First(f.row, f.token) /\ First(f.row, f.token)'
             /\ FindsFirst(f.token) /\ call[p] \in Calls /\ Fits(call[p]) /\ call[p].cid = 0
             /\ Inserts(f, f.token) => Waits(call[p], f.token)
  <2>1. /\ call[p] \in Calls /\ Fits(call[p]) /\ f \in Frames /\ f.at = at /\ call[p].cid = 0
        /\ f = call[p].native \/ f = call[p].own
    BY <1>2, <1>4, TopOf
  <2>2. f.token \in Currencies /\ f.row \in Nat
    BY <2>1 DEF Frames
  <2>3. f.row # 0 => First(f.row, f.token)
    BY <2>1 DEF IdsInv, Knows
  <2>4. f.row # 0 => First(f.row, f.token)'
    BY <1>3, <2>3, FirstStays
  <2>5. QED BY <1>3, <2>1, <2>2, <2>3, <2>4, FoundIsFirst DEF Waits
<1>5. CASE Look(p)
  <2>1. InCurrency(p, "look") /\ UNCHANGED currency
    BY <1>5 DEF Look, tables
  <2>2. PICK row \in Nat : row = Found(f.token)
    BY <1>4, <2>1 DEF FindsFirst
  <2>3. row # 0 => First(row, f.token)'
    BY <1>3, <1>4, <2>1, <2>2, FirstStays DEF FindsFirst
  <2>4. CASE Usable(row)
    <3>1. Returns(p, row) /\ row # 0
      BY <1>2, <1>5, <2>2, <2>4 DEF Look, Usable
    <3>2. \E c \in Calls : /\ Becomes(p, c) /\ Fits(c) /\ Works(c, call[p]) /\ Knows(c)'
                          /\ \A u \in Currencies : ~Waits(c, u)
      BY <1>2, <2>1, <2>3, <3>1, ReturnsOK
    <3>3. QED BY <1>1, <2>1, <3>2 DEF Adds
  <2>5. CASE ~Usable(row)
    <3> DEFINE g == [f EXCEPT !.at = "price", !.row = row]
    <3>1. SetTop(p, g)
      BY <1>2, <1>5, <2>2, <2>5 DEF Look
    <3>2. g \in Frames /\ g.token = f.token /\ g.at = "price" /\ g.row = row
      BY <1>4, <2>1 DEF Frames
    <3> HIDE DEF g
    <3>3. \E c \in Calls : /\ Becomes(p, c) /\ Fits(c) /\ SameWork(c, call[p]) /\ Knows(c)'
                          /\ \A t \in Currencies : Waits(c, t) => Inserts(g, t)
      BY <1>2, <2>1, <2>3, <3>1, <3>2, SetTopOK
    <3>4. \A t \in Currencies : ~Inserts(g, t)
      BY <3>2 DEF Inserts
    <3>5. QED BY <1>1, <2>1, <3>3, <3>4 DEF Adds, Works
  <2>6. QED BY <2>4, <2>5
<1>6. CASE Price(p)
  <2> DEFINE g == [f EXCEPT !.at = "value"]
  <2>1. InCurrency(p, "price") /\ UNCHANGED currency /\ SetTop(p, g)
    BY <1>2, <1>6 DEF Price, tables
  <2>2. g \in Frames /\ g.token = f.token /\ g.at = "value" /\ g.row = f.row
    BY <1>4, <2>1 DEF Frames
  <2> HIDE DEF g
  <2>3. \E c \in Calls : /\ Becomes(p, c) /\ Fits(c) /\ SameWork(c, call[p]) /\ Knows(c)'
                        /\ \A t \in Currencies : Waits(c, t) => Inserts(g, t)
    BY <1>2, <1>4, <2>1, <2>2, SetTopOK
  <2>4. \A t \in Currencies : ~Inserts(g, t)
    BY <2>2 DEF Inserts
  <2>5. QED BY <1>1, <2>1, <2>3, <2>4 DEF Adds, Works
<1>7. CASE PriceInNative(p)
  <2>1. InCurrency(p, "price") /\ UNCHANGED currency /\ f.token # Native
    BY <1>2, <1>7 DEF PriceInNative, tables
  <2>2. PICK fake \in BOOLEAN :
          Becomes(p, [call[p] EXCEPT !.own = [f EXCEPT !.at = "value", !.fake = fake],
                                     !.native = Frame(Native)])
    BY <1>2, <1>7 DEF PriceInNative
  <2> DEFINE g == [f EXCEPT !.at = "value", !.fake = fake]
  <2>3. g \in Frames /\ g.token = f.token /\ g.at = "value" /\ g.row = f.row
    BY <1>4, <2>1 DEF Frames
  <2>4. Becomes(p, [call[p] EXCEPT !.own = g, !.native = Frame(Native)])
    BY <2>2
  <2> HIDE DEF g
  <2>5. PICK c \in Calls : /\ Becomes(p, c) /\ SameWork(c, call[p]) /\ c.own = g
                           /\ c.native = Frame(Native)
    <3> DEFINE d == [call[p] EXCEPT !.own = g, !.native = Frame(Native)]
    <3>1. d \in Calls /\ SameWork(d, call[p]) /\ d.own = g /\ d.native = Frame(Native)
      BY <1>4, <2>1, <2>3, IdleFits DEF Calls, SameWork
    <3> HIDE DEF d
    <3>2. Becomes(p, d)
      BY <2>4 DEF d
    <3>3. QED BY <3>1, <3>2
  <2>6. Frame(Native).token = Native /\ Frame(Native).at = "look" /\ Frame(Native).row = 0
    BY DEF Frame
  <2>7. call[p].pc \in {"currency", "bnb"} /\ f = call[p].own
    BY <1>2, <2>1, TopOf
  <2>8. Fits(c)
    BY <1>4, <2>1, <2>3, <2>5, <2>6, <2>7 DEF Fits, SameWork
  <2>9. Knows(c)'
    <3>1. c.pc # "store" /\ c.native.row = 0 /\ c.own.row = f.row /\ c.own.token = f.token
      BY <2>3, <2>5, <2>6, <2>7 DEF SameWork
    <3>2. f.row # 0 => First(f.row, f.token)'
      BY <1>4, <2>1
    <3>3. QED BY <3>1, <3>2 DEF Knows
  <2>10. \A t \in Currencies : ~Waits(c, t)
    BY <2>3, <2>5, <2>6 DEF Waits, Inserts
  <2>11. Adds(p, c) /\ Works(c, call[p])
    BY <2>1, <2>5, <2>10 DEF Adds, Works
  <2>12. QED BY <1>1, <2>5, <2>8, <2>9, <2>11
<1>8. CASE Reprice(p)
  <2>1. InCurrency(p, "value") /\ f.row # 0 /\ Returns(p, f.row)
        /\ currency' = [currency EXCEPT ![f.row].old = FALSE]
    BY <1>2, <1>8 DEF Reprice
  <2>2. Len(currency') = Len(currency)
    BY <1>3, <2>1 DEF RowsOK
  <2>3. \E c \in Calls : /\ Becomes(p, c) /\ Fits(c) /\ Works(c, call[p]) /\ Knows(c)'
                        /\ \A u \in Currencies : ~Waits(c, u)
    BY <1>2, <1>4, <2>1, ReturnsOK
  <2>4. QED BY <1>1, <2>2, <2>3 DEF Adds
<1>9. CASE LookAgain(p)
  <2>1. InCurrency(p, "value") /\ UNCHANGED currency /\ f.row = 0
    BY <1>2, <1>9 DEF LookAgain, tables
  <2>2. PICK row \in Nat : row = Found(f.token)
    BY <1>4, <2>1 DEF FindsFirst
  <2>3. row # 0 => First(row, f.token)'
    BY <1>3, <1>4, <2>1, <2>2, FirstStays DEF FindsFirst
  <2> DEFINE g == [f EXCEPT !.at = "insert", !.row = row]
  <2>4. SetTop(p, g)
    BY <1>2, <1>9, <2>2 DEF LookAgain
  <2>5. g \in Frames /\ g.token = f.token /\ g.at = "insert" /\ g.row = row
    BY <1>4, <2>1 DEF Frames
  <2> HIDE DEF g
  <2>6. \E c \in Calls : /\ Becomes(p, c) /\ Fits(c) /\ SameWork(c, call[p]) /\ Knows(c)'
                        /\ \A t \in Currencies : Waits(c, t) => Inserts(g, t)
    BY <1>2, <2>1, <2>3, <2>4, <2>5, SetTopOK
  <2>7. \A t \in Currencies : Inserts(g, t) => RowsOf(t) = {}
    BY <1>4, <2>1, <2>2, <2>5 DEF Inserts, FindsFirst
  <2>8. QED BY <1>1, <2>1, <2>6, <2>7 DEF Adds, Works
<1>10. ASSUME NEW t \in Currencies, Insert(p, t)
       PROVE  \E c \in Calls : /\ Becomes(p, c) /\ Fits(c) /\ Works(c, call[p]) /\ Knows(c)'
                               /\ Adds(p, c)
  <2>1. InCurrency(p, "insert") /\ t = f.token /\ Returns(p, Found(t)')
        /\ currency' = IF f.row # 0 THEN currency
                       ELSE Append(currency, [token |-> t, fake |-> f.fake, old |-> FALSE])
    BY <1>2, <1>10 DEF Insert, RowOnceMore
  <2>2. FindsFirst(t)'
    BY <1>10, FoundNext
  <2>3. RowsOf(t)' # {} /\ (\/ Len(currency') = Len(currency)
                            \/ /\ f.row = 0 /\ Len(currency') = Len(currency) + 1
                               /\ currency'[Len(currency) + 1].token = t)
    <3>1. CASE f.row # 0
      BY <1>4, <2>1, <3>1 DEF First
    <3>2. CASE f.row = 0
      <4> DEFINE row == [token |-> t, fake |-> f.fake, old |-> FALSE]
      <4>1. currency' = Append(currency, row) /\ row \in Rows /\ row.token = t
        BY <1>4, <2>1, <3>2 DEF Rows, Frames
      <4> HIDE DEF row
      <4>2. Len(currency') = Len(currency) + 1 /\ currency'[Len(currency) + 1] = row
        BY <1>3, <4>1, AppendProperties DEF RowsOK
      <4>3. DOMAIN currency' = 1 .. Len(currency')
        BY LenProperties DEF RowsOK
      <4>4. Len(currency) + 1 \in RowsOf(t)'
        BY <1>3, <4>1, <4>2, <4>3 DEF RowsOf
      <4>5. QED BY <3>2, <4>1, <4>2, <4>4
    <3>3. QED BY <3>1, <3>2
  <2>4. PICK cid \in Nat : cid = Found(t)'
    BY <2>2 DEF FindsFirst
  <2>5. First(cid, t)'
    BY <2>2, <2>3, <2>4 DEF FindsFirst
  <2>6. \E c \in Calls : /\ Becomes(p, c) /\ Fits(c) /\ Works(c, call[p]) /\ Knows(c)'
                        /\ \A u \in Currencies : ~Waits(c, u)
    BY <1>2, <2>1, <2>4, <2>5, ReturnsOK
  <2>7. f.row = 0 => Waits(call[p], t)
    BY <1>4, <2>1 DEF Inserts
  <2>8. QED BY <2>3, <2>6, <2>7 DEF Adds
<1>11. QED BY <1>1, <1>5, <1>6, <1>7, <1>8, <1>9, <1>10 DEF GetCurrency

-----------------------------------------------------------------------------
(* The stored holdings *)

LEMMA FilledIs ==
  ASSUME CacheTypeOK
  PROVE  Filled \in SUBSET (1 .. Len(holdings)) /\ IsFiniteSet(Filled) /\ Cardinality(Filled) \in Nat
<1>1. Filled \in SUBSET (1 .. Len(holdings)) /\ Len(holdings) \in Nat
  BY HoldingsAre DEF Filled
<1>2. IsFiniteSet(1 .. Len(holdings))
  BY <1>1, FS_Interval
<1>3. QED BY <1>1, <1>2, FS_Subset, FS_CardinalityType

UpTo(F, v) == {j \in F : j <= v}

LEMMA UpToNext ==
  ASSUME NEW F \in SUBSET (Nat \ {0}), NEW m \in Nat
  PROVE  /\ UpTo(F, 0) = {} /\ UpTo(F, m) \in SUBSET F
         /\ m \notin F => UpTo(F, m) = UpTo(F, m - 1)
         /\ m \in F => UpTo(F, m) = UpTo(F, m - 1) \cup {m} /\ m \notin UpTo(F, m - 1)
<1>1. \A j \in F : j \in Nat /\ j # 0 /\ ~(j <= 0)
  OBVIOUS
<1>2. UpTo(F, 0) = {} /\ UpTo(F, m) \in SUBSET F
  BY <1>1 DEF UpTo
<1>3. \A j \in F : j <= m <=> (j <= m - 1 \/ j = m)
  BY <1>1
<1>4. ~(m <= m - 1)
  OBVIOUS
<1>5. QED BY <1>2, <1>3, <1>4 DEF UpTo

\* Of finitely many numbers there is a k-th.
LEMMA KthOf ==
  ASSUME NEW F \in SUBSET (Nat \ {0}), IsFiniteSet(F), NEW n \in Nat, \A j \in F : j <= n,
         NEW k \in 1 .. Cardinality(F)
  PROVE  \E m \in F : Cardinality(UpTo(F, m)) = k
<1> DEFINE Enough == {v \in Nat : k <= Cardinality(UpTo(F, v))}
<1>1. Cardinality(F) \in Nat /\ k \in Nat /\ k >= 1 /\ k <= Cardinality(F)
  BY FS_CardinalityType
<1>2. \A v \in Nat : IsFiniteSet(UpTo(F, v)) /\ Cardinality(UpTo(F, v)) \in Nat
  BY UpToNext, FS_Subset, FS_CardinalityType
<1>3. UpTo(F, n) = F
  BY DEF UpTo
<1>4. n \in Enough
  BY <1>1, <1>3
<1>5. PICK m \in Enough : \A i \in Enough : m <= i
  <2>1. Enough \in SUBSET Nat /\ Enough # {}
    BY <1>4
  <2> HIDE DEF Enough
  <2>2. QED BY <2>1, LeastOf
<1>6. m \in Nat /\ k <= Cardinality(UpTo(F, m))
  BY <1>5
<1>7. m # 0
  <2>1. m = 0 => Cardinality(UpTo(F, m)) = 0
    BY UpToNext, FS_EmptySet
  <2>2. QED BY <1>1, <1>6, <2>1
<1>8. m - 1 \in Nat /\ Cardinality(UpTo(F, m - 1)) < k
  <2>1. m - 1 \in Nat /\ ~(m <= m - 1)
    BY <1>6, <1>7
  <2>2. m - 1 \notin Enough
    BY <1>5, <2>1
  <2>3. ~(k <= Cardinality(UpTo(F, m - 1)))
    BY <2>1, <2>2
  <2>4. QED BY <1>1, <1>2, <2>1, <2>3
<1>9. m \in F
  <2>1. m \notin F => UpTo(F, m) = UpTo(F, m - 1)
    BY <1>6, UpToNext
  <2>2. QED BY <1>1, <1>2, <1>6, <1>8, <2>1
<1>10. Cardinality(UpTo(F, m)) = Cardinality(UpTo(F, m - 1)) + 1
  <2>1. UpTo(F, m) = UpTo(F, m - 1) \cup {m} /\ m \notin UpTo(F, m - 1)
    BY <1>6, <1>9, UpToNext
  <2>2. QED BY <1>2, <1>8, <2>1, FS_AddElement
<1>11. QED BY <1>1, <1>2, <1>6, <1>8, <1>9, <1>10

LEMMA PlaceIs ==
  ASSUME CacheTypeOK, NEW k \in 1 .. Cardinality(Filled)
  PROVE  Place(k) \in Filled /\ Cardinality(UpTo(Filled, Place(k))) = k
<1>1. /\ Filled \in SUBSET (1 .. Len(holdings)) /\ IsFiniteSet(Filled) /\ Len(holdings) \in Nat
  BY FilledIs, HoldingsAre
<1>2. Filled \in SUBSET (Nat \ {0}) /\ \A j \in Filled : j <= Len(holdings)
  BY <1>1
<1>3. \E m \in Filled : Cardinality(UpTo(Filled, m)) = k
  BY <1>1, <1>2, KthOf
<1>4. QED BY <1>3 DEF Place, UpTo

LEMMA StoredIs ==
  ASSUME CacheTypeOK
  PROVE  Stored \in Seq(Currencies) /\ Len(Stored) = Cardinality(Filled)
<1>1. ASSUME NEW k \in 1 .. Cardinality(Filled)
      PROVE  currency[holdings[Place(k)]].token \in Currencies
  <2>1. Place(k) \in 1 .. Len(holdings) /\ holdings[Place(k)] # 0
    BY PlaceIs, FilledIs DEF Filled
  <2>2. holdings[Place(k)] \in 1 .. Len(currency)
    BY <2>1, HoldingsAre
  <2>3. QED BY <2>2, HoldingsAre, RowsAre DEF Rows
<1>2. Stored \in [1 .. Cardinality(Filled) -> Currencies]
  BY <1>1 DEF Stored
<1>3. QED BY <1>2, FilledIs, LenOf

\* A token is listed as often as it is stored.
LEMMA HasIs ==
  ASSUME CacheTypeOK, NEW t
  PROVE  IsFiniteSet(Has(t)) /\ Cardinality(Has(t)) \in Nat
<1>1. Has(t) \in SUBSET (1 .. Len(holdings)) /\ IsFiniteSet(1 .. Len(holdings))
  BY HoldingsAre, FS_Interval DEF Has
<1>2. QED BY <1>1, FS_Subset, FS_CardinalityType

LEMMA TimesStored ==
  ASSUME CacheTypeOK, NEW t
  PROVE  Times(Stored, t) <= Cardinality(Has(t))
<1> DEFINE T == {k \in DOMAIN Stored : Stored[k] = t}
           f == [k \in T |-> Place(k)]
<1>1. DOMAIN Stored = 1 .. Cardinality(Filled)
  BY DEF Stored
<1>2. ASSUME NEW k \in T PROVE Place(k) \in Has(t)
  <2>1. Place(k) \in Filled /\ Stored[k] = currency[holdings[Place(k)]].token
    BY <1>1, PlaceIs DEF Stored
  <2>2. QED BY <2>1, HoldingsAre DEF Filled, Has
<1>3. ASSUME NEW k \in T, NEW l \in T, Place(k) = Place(l) PROVE k = l
  <2>1. \A i \in T : Cardinality(UpTo(Filled, Place(i))) = i
    BY <1>1, PlaceIs
  <2> HIDE DEF T
  <2>2. QED BY <1>3, <2>1
<1>4. f \in Injection(T, Has(t))
  BY <1>2, <1>3 DEF Injection, IsInjective
<1>5. QED BY <1>4, HasIs, FS_Injection DEF Times

-----------------------------------------------------------------------------
(* The other steps of a call *)

LEMMA ListsAre ==
  ASSUME NEW list \in Seq(Currencies)
  PROVE  /\ Len(list) \in Nat /\ DOMAIN list = 1 .. Len(list)
         /\ list # <<>> => /\ Len(list) >= 1 /\ Head(list) = list[1] /\ list[1] \in Currencies
                           /\ Tail(list) \in Seq(Currencies) /\ Len(Tail(list)) = Len(list) - 1
                           /\ \A i \in 1 .. Len(Tail(list)) : Tail(list)[i] = list[i + 1]
         /\ list = <<>> <=> Len(list) = 0
<1>1. Len(list) \in Nat /\ DOMAIN list = 1 .. Len(list) /\ (list # <<>> => Len(list) \in Nat \ {0})
  BY LenProperties, EmptySeq
<1>2. ASSUME list # <<>>
      PROVE  /\ Tail(list) \in Seq(Currencies) /\ Len(Tail(list)) = Len(list) - 1
             /\ \A i \in 1 .. Len(Tail(list)) : Tail(list)[i] = list[i + 1]
  BY <1>2, HeadTailProperties
<1>3. list # <<>> => list[1] \in Currencies
  BY <1>1, ElementOfSeq
<1>4. Len(<<>>) = 0 /\ Head(list) = list[1]
  BY EmptySeq
<1>5. QED BY <1>1, <1>2, <1>3, <1>4

LEMMA NoRepeatsOf ==
  ASSUME NEW list \in Seq(Currencies), NoRepeats(list)
  PROVE  /\ list # <<>> => NoRepeats(Tail(list)) /\ ~(\E i \in 1 .. Len(Tail(list)) : Tail(list)[i] = list[1])
         /\ \A n \in 0 .. Len(list) : SubSeq(list, 1, n) \in Seq(Currencies) /\ NoRepeats(SubSeq(list, 1, n))
<1>1. ASSUME list # <<>>
      PROVE  NoRepeats(Tail(list)) /\ ~(\E i \in 1 .. Len(Tail(list)) : Tail(list)[i] = list[1])
  <2>1. /\ Len(list) \in Nat /\ Len(list) >= 1 /\ Len(Tail(list)) = Len(list) - 1
        /\ \A i \in 1 .. Len(Tail(list)) : Tail(list)[i] = list[i + 1]
    BY <1>1, ListsAre
  <2>2. \A i \in 1 .. Len(Tail(list)) : i + 1 \in 1 .. Len(list) /\ i + 1 # 1
    BY <2>1
  <2>3. 1 \in 1 .. Len(list)
    BY <2>1
  <2>4. ASSUME NEW i \in 1 .. Len(Tail(list)), NEW j \in 1 .. Len(Tail(list)), Tail(list)[i] = Tail(list)[j]
        PROVE  i = j
    <3>1. i + 1 = j + 1
      BY <2>1, <2>2, <2>4 DEF NoRepeats
    <3>2. QED BY <3>1
  <2>5. QED BY <2>1, <2>2, <2>3, <2>4 DEF NoRepeats
<1>2. ASSUME NEW n \in 0 .. Len(list)
      PROVE  SubSeq(list, 1, n) \in Seq(Currencies) /\ NoRepeats(SubSeq(list, 1, n))
  <2> DEFINE s == SubSeq(list, 1, n)
  <2>1. n \in Nat /\ n <= Len(list) /\ Len(list) \in Nat
    BY ListsAre
  <2>2. \A i \in 1 .. n : i \in 1 .. Len(list) /\ list[i] \in Currencies
    BY <2>1, ElementOfSeq
  <2>3. /\ s \in Seq(Currencies) /\ Len(s) = IF 1 <= n THEN n - 1 + 1 ELSE 0
        /\ \A i \in 1 .. n - 1 + 1 : s[i] = list[1 + i - 1]
    BY <2>1, <2>2, SubSeqProperties
  <2> HIDE DEF s
  <2>4. Len(s) = n /\ \A i \in 1 .. n : s[i] = list[i]
    BY <2>1, <2>3
  <2>5. NoRepeats(s)
    BY <2>2, <2>4 DEF NoRepeats
  <2>6. QED BY <2>3, <2>5 DEF s
<1>3. QED BY <1>1, <1>2

\* The site's list, whole, cut off or empty, names no token twice.
LEMMA AnswersAre ==
  ASSUME NEW p, Etherscan(p) \/ Poocoin(p) \/ Bscscan(p)
  PROVE  \E list \in Seq(Currencies) : NoRepeats(list) /\ SiteAnswers(p, list)
<1>1. <<>> \in Seq(Currencies) /\ NoRepeats(<<>>)
  BY EmptySeq DEF NoRepeats
<1>2. CASE Etherscan(p) \/ Poocoin(p)
  BY <1>1, <1>2, Given DEF Etherscan, Poocoin
<1>3. CASE Bscscan(p)
  <2>1. PICK list \in Answers : \E n \in 0 .. Len(list) : SiteAnswers(p, SubSeq(list, 1, n))
    BY <1>3 DEF Bscscan
  <2>2. list \in Seq(Currencies) /\ NoRepeats(list)
    BY Given
  <2>3. \A n \in 0 .. Len(list) :
          SubSeq(list, 1, n) \in Seq(Currencies) /\ NoRepeats(SubSeq(list, 1, n))
    BY <2>2, NoRepeatsOf
  <2>4. QED BY <2>1, <2>3
<1>4. QED BY <1>2, <1>3

\* What a step outside get_currency makes of the call d.
Plain(c, d) == /\ c.pc # "store" /\ c.own.at # "insert" /\ c.native.at # "insert"
               /\ c.own = d.own \/ c.own.row = 0
               /\ c.native = d.native \/ c.native.row = 0

SameList(c, d) == c.update = d.update /\ c.list = d.list /\ c.empty = d.empty

Task(p, c, d) ==
  \/ GetBnbPrice(p) /\ ~d.update /\ ~c.update /\ c.list = <<>> /\ c.pc = "bnb"
  \/ Raises(p) /\ c = Idle
  \/ /\ (\E force \in BOOLEAN : GetBalance(p, force)) /\ ~d.update
     /\ \/ c.update /\ c.pc = "clear" /\ c.list = <<>>
        \/ ~c.update /\ c.list = Stored /\ c.pc = "next"
  \/ Clear(p) /\ c.update /\ c.list = <<>> /\ c.pc = "ask" /\ c.empty = d.empty
  \/ /\ \E list \in Seq(Currencies) :
          NoRepeats(list) /\ SiteAnswers(p, list) /\ c.list = list /\ c.empty = (list = <<>>)
     /\ d.update /\ c.update /\ c.pc = "next"
  \/ SiteFails(p) /\ c = Idle
  \/ NextToken(p) /\ SameList(c, d) /\ c.pc = "currency"
  \/ /\ StoreToken(p) /\ c.update = d.update /\ c.empty = d.empty /\ c.list = Tail(d.list)
     /\ c.pc = "next"
  \/ BalanceDone(p) /\ c = Idle

LEMMA TaskGives ==
  ASSUME CacheTypeOK, CallsFit, NEW p \in Procs, NEW d, d = call[p],
         \/ GetBnbPrice(p) \/ (\E force \in BOOLEAN : GetBalance(p, force)) \/ Balance(p) \/ Raises(p)
  PROVE  \E c \in Calls : Becomes(p, c) /\ Fits(c) /\ Plain(c, d) /\ Task(p, c, d)
<1>1. d \in Calls /\ Fits(d) /\ d.list \in Seq(Currencies)
  BY DEF CacheTypeOK, CallsFit, Calls
<1>2. /\ Idle \in Calls /\ Fits(Idle) /\ NoFrame \in Frames /\ NoFrame.row = 0 /\ NoFrame.at = "none"
      /\ NoFrame.token = Native
      /\ Idle.own = NoFrame /\ Idle.native = NoFrame /\ Idle.pc = "idle" /\ Idle.list = <<>>
      /\ Idle.cid = 0 /\ Idle.update = FALSE
  BY IdleFits DEF NoFrame, Frame, Idle
<1>3. Plain(Idle, d)
  BY <1>2 DEF Plain
<1>4. \A t \in Currencies : /\ Frame(t) \in Frames /\ Frame(t).token = t /\ Frame(t).at = "look"
                            /\ Frame(t).row = 0
  BY DEF Frame, Frames
<1>5. CASE Raises(p) \/ SiteFails(p) \/ BalanceDone(p)
  BY <1>2, <1>3, <1>5 DEF Raises, SiteFails, BalanceDone, Task
<1>6. ASSUME d.pc \notin {"currency", "bnb"}
      PROVE  d.own.at = "none" /\ d.native.at = "none" /\ d.own \in Frames /\ d.native \in Frames
  BY <1>1, <1>6 DEF Fits, Calls
<1>7. CASE GetBnbPrice(p)
  <2> DEFINE c == [Idle EXCEPT !.pc = "bnb", !.own = Frame(Native)]
  <2>1. Becomes(p, c) /\ d.pc = "idle"
    BY <1>7 DEF GetBnbPrice, At
  <2>2. /\ c \in Calls /\ c.pc = "bnb" /\ c.own = Frame(Native) /\ c.native = NoFrame /\ c.list = <<>>
        /\ c.cid = 0 /\ c.update = FALSE
    BY <1>2, <1>4, Given DEF Calls, Idle
  <2> HIDE DEF c
  <2>3. Fits(c) /\ Plain(c, d)
    BY <1>2, <1>4, <2>2, Given DEF Fits, Plain
  <2>4. ~d.update
    BY <1>1, <2>1 DEF Fits
  <2>5. QED BY <1>7, <2>1, <2>2, <2>3, <2>4 DEF Task
<1>8. ASSUME NEW force \in BOOLEAN, GetBalance(p, force)
      PROVE  \E c \in Calls : Becomes(p, c) /\ Fits(c) /\ Plain(c, d) /\ Task(p, c, d)
  <2>1. d.pc = "idle" /\ ~d.update
    BY <1>1, <1>8 DEF GetBalance, At, Fits
  <2>2. CASE Becomes(p, [Idle EXCEPT !.pc = "clear", !.update = TRUE])
    <3> DEFINE c == [Idle EXCEPT !.pc = "clear", !.update = TRUE]
    <3>1. /\ c \in Calls /\ c.pc = "clear" /\ c.own = NoFrame /\ c.native = NoFrame /\ c.list = <<>>
          /\ c.cid = 0 /\ c.update = TRUE /\ Becomes(p, c)
      BY <1>2, <2>2 DEF Calls, Idle
    <3> HIDE DEF c
    <3>2. Len(<<>>) = 0
      BY EmptySeq
    <3>3. Fits(c) /\ Plain(c, d)
      BY <1>2, <3>1, <3>2 DEF Fits, Plain, NoRepeats
    <3>4. QED BY <1>8, <2>1, <3>1, <3>3 DEF Task
  <2>3. CASE Becomes(p, [Idle EXCEPT !.pc = "next", !.list = Stored])
    <3>1. PICK list \in Seq(Currencies) : list = Stored
      BY StoredIs
    <3> DEFINE c == [Idle EXCEPT !.pc = "next", !.list = list]
    <3>2. /\ c \in Calls /\ c.pc = "next" /\ c.own = NoFrame /\ c.native = NoFrame /\ c.list = Stored
          /\ c.cid = 0 /\ c.update = FALSE /\ Becomes(p, c)
      BY <1>2, <2>3, <3>1 DEF Calls, Idle
    <3> HIDE DEF c
    <3>3. Fits(c) /\ Plain(c, d)
      BY <1>2, <3>2 DEF Fits, Plain
    <3>4. QED BY <1>8, <2>1, <3>2, <3>3 DEF Task
  <2>4. QED BY <1>8, <2>2, <2>3 DEF GetBalance
<1>9. CASE Clear(p)
  <2> DEFINE c == [d EXCEPT !.pc = "ask"]
  <2>1. Becomes(p, c) /\ d.pc = "clear" /\ d.update /\ d.list = <<>> /\ d.cid = 0
    BY <1>1, <1>9 DEF Clear, At, Fits
  <2>2. /\ c \in Calls /\ c.pc = "ask" /\ SameList(c, d) /\ c.own = d.own /\ c.native = d.native
        /\ c.cid = d.cid
    BY <1>1 DEF Calls, SameList
  <2> HIDE DEF c
  <2>3. Fits(c) /\ Plain(c, d)
    BY <1>1, <1>6, <2>1, <2>2 DEF Fits, Plain, SameList
  <2>4. QED BY <1>9, <2>1, <2>2, <2>3 DEF Task, SameList
<1>10. CASE Etherscan(p) \/ Poocoin(p) \/ Bscscan(p)
  <2>1. PICK list \in Seq(Currencies) : NoRepeats(list) /\ SiteAnswers(p, list)
    BY <1>10, AnswersAre
  <2> DEFINE c == [d EXCEPT !.pc = "next", !.list = list, !.empty = (list = <<>>)]
  <2>2. Becomes(p, c) /\ d.pc = "ask" /\ d.update /\ d.cid = 0
    BY <1>1, <2>1 DEF SiteAnswers, At, Fits
  <2>3. /\ c \in Calls /\ c.pc = "next" /\ c.update = d.update /\ c.list = list
        /\ c.empty = (list = <<>>) /\ c.own = d.own /\ c.native = d.native /\ c.cid = d.cid
    BY <1>1 DEF Calls
  <2> HIDE DEF c
  <2>4. Fits(c) /\ Plain(c, d)
    BY <1>1, <1>6, <2>1, <2>2, <2>3 DEF Fits, Plain
  <2>5. Task(p, c, d)
    BY <2>1, <2>2, <2>3 DEF Task
  <2>6. QED BY <2>2, <2>3, <2>4, <2>5
<1>11. CASE NextToken(p)
  <2>1. d.pc = "next" /\ d.list # <<>> /\ d.cid = 0 /\ Head(d.list) = d.list[1] /\ d.list[1] \in Currencies
    BY <1>1, <1>11, ListsAre DEF NextToken, At, Fits
  <2> DEFINE c == [d EXCEPT !.pc = "currency", !.own = Frame(d.list[1])]
  <2>2. Becomes(p, c)
    BY <1>11, <2>1 DEF NextToken
  <2>3. /\ c \in Calls /\ c.pc = "currency" /\ SameList(c, d) /\ c.own = Frame(d.list[1])
        /\ c.native = d.native /\ c.cid = d.cid
    BY <1>1, <1>4, <2>1 DEF Calls, SameList
  <2> HIDE DEF c
  <2>4. Fits(c) /\ Plain(c, d)
    BY <1>1, <1>4, <1>6, <2>1, <2>3 DEF Fits, Plain, SameList
  <2>5. QED BY <1>11, <2>2, <2>3, <2>4 DEF Task
<1>12. CASE StoreToken(p)
  <2>1. d.pc = "store" /\ d.list # <<>> /\ Tail(d.list) \in Seq(Currencies)
    BY <1>1, <1>12, ListsAre DEF StoreToken, At, Fits
  <2> DEFINE c == [d EXCEPT !.pc = "next", !.list = Tail(d.list), !.cid = 0]
  <2>2. Becomes(p, c)
    BY <1>12, <2>1 DEF StoreToken
  <2>3. /\ c \in Calls /\ c.pc = "next" /\ c.update = d.update /\ c.list = Tail(d.list)
        /\ c.empty = d.empty /\ c.own = d.own /\ c.native = d.native /\ c.cid = 0
    BY <1>1, <2>1 DEF Calls
  <2> HIDE DEF c
  <2>4. c.update => NoRepeats(c.list)
    BY <1>1, <2>1, <2>3, NoRepeatsOf DEF Fits
  <2>5. Fits(c) /\ Plain(c, d)
    BY <1>1, <1>6, <2>1, <2>3, <2>4 DEF Fits, Plain
  <2>6. QED BY <1>12, <2>2, <2>3, <2>5 DEF Task
<1>13. QED BY <1>5, <1>7, <1>8, <1>9, <1>10, <1>11, <1>12 DEF Balance

-----------------------------------------------------------------------------
(* The invariant is kept *)

\* Who moves, and how.
LEMMA Moves ==
  ASSUME CacheTypeOK, CallsFit, IdsInv, [CacheNext]_cacheVars
  PROVE  \/ UNCHANGED <<holdings, call, history>> /\ Len(currency') = Len(currency)
         \/ \E p \in Procs : GetCurrency(p)
         \/ /\ UNCHANGED currency
            /\ \E p \in Procs : \/ GetBnbPrice(p) \/ (\E force \in BOOLEAN : GetBalance(p, force))
                                \/ Balance(p) \/ Raises(p)
<1>1. CASE UNCHANGED cacheVars
  BY <1>1, CurrencyStep DEF cacheVars, history
<1>2. CASE PricesAge
  BY <1>2, CurrencyStep DEF PricesAge
<1>3. ASSUME NEW p \in Procs,
             \/ GetBnbPrice(p) \/ (\E force \in BOOLEAN : GetBalance(p, force)) \/ Balance(p) \/ Raises(p)
      PROVE  UNCHANGED currency
  BY <1>3 DEF GetBnbPrice, GetBalance, Balance, Raises, Clear, Etherscan, Poocoin, Bscscan, SiteAnswers,
     SiteFails, NextToken, StoreToken, BalanceDone, tables
<1>4. QED BY <1>1, <1>2, <1>3 DEF CacheNext

Adding(cid) == /\ holdings' = Append(holdings, cid) /\ cid <= Len(currency)
               /\ cid # 0 => First(cid, currency[cid].token)

LEMMA HoldingsStep ==
  ASSUME CacheTypeOK, CallsFit, IdsInv, NEW p \in Procs,
         \/ GetBnbPrice(p) \/ (\E force \in BOOLEAN : GetBalance(p, force)) \/ Balance(p) \/ Raises(p)
  PROVE  UNCHANGED holdings \/ holdings' = <<>> \/ \E cid \in Nat : Adding(cid)
<1>1. CASE StoreToken(p)
  <2>1. call[p] \in Calls /\ call[p].pc = "store" /\ Knows(call[p]) /\ RowsOK
    BY <1>1, HoldingsAre DEF StoreToken, At, CacheTypeOK, IdsInv
  <2>2. First(call[p].cid, call[p].list[1])
    BY <2>1 DEF Knows
  <2>3. call[p].cid \in 1 .. Len(currency) /\ currency[call[p].cid].token = call[p].list[1]
    BY <2>1, <2>2, FirstIsFound
  <2>4. call[p].cid \in Nat /\ call[p].cid <= Len(currency) /\ Len(currency) \in Nat
    BY <2>1, <2>3, RowsAre DEF Calls
  <2>5. QED BY <1>1, <2>2, <2>3, <2>4 DEF StoreToken, AddHolding, Adding
<1>2. CASE BalanceDone(p)
  <2>1. 0 <= Len(currency)
    BY HoldingsAre, RowsAre
  <2>2. QED BY <1>2, <2>1 DEF BalanceDone, AddHolding, Adding
<1>3. QED
  BY <1>1, <1>2 DEF GetBnbPrice, GetBalance, Balance, Raises, Clear, Cleared, Etherscan, Poocoin, Bscscan,
     SiteAnswers, SiteFails, NextToken, tables

LEMMA CallStep ==
  ASSUME CacheTypeOK, CallsFit, IdsInv, [CacheNext]_cacheVars
  PROVE  call' \in [Procs -> Calls] /\ CallsFit'
<1>1. RowsOK' /\ Grows
  BY CurrencyStep
<1>2. CASE UNCHANGED call
  BY <1>2 DEF CacheTypeOK, CallsFit
<1>3. ASSUME NEW p \in Procs, GetCurrency(p) PROVE call' \in [Procs -> Calls] /\ CallsFit'
  BY <1>1, <1>3, GetCurrencyGives, Becoming
<1>4. ASSUME NEW p \in Procs,
             \/ GetBnbPrice(p) \/ (\E force \in BOOLEAN : GetBalance(p, force)) \/ Balance(p) \/ Raises(p)
      PROVE  call' \in [Procs -> Calls] /\ CallsFit'
  BY <1>4, TaskGives, Becoming
<1>5. QED BY <1>2, <1>3, <1>4, Moves

LEMMA HistoryStep ==
  ASSUME CacheTypeOK, CallsFit, IdsInv, [CacheNext]_cacheVars
  PROVE  solo' \in [Procs -> BOOLEAN] /\ whole' \in BOOLEAN /\ answer' \in Seq(Currencies)
<1>1. solo \in [Procs -> BOOLEAN] /\ whole \in BOOLEAN /\ answer \in Seq(Currencies)
  BY DEF CacheTypeOK
<1>2. CASE UNCHANGED history
  BY <1>1, <1>2 DEF history
<1>3. ASSUME NEW p \in Procs, Clear(p) PROVE solo' \in [Procs -> BOOLEAN] /\ whole' \in BOOLEAN /\ UNCHANGED answer
  <2>1. solo' = [q \in Procs |-> q = p /\ \A r \in Procs : ~Updating(r)] /\ whole' = FALSE /\ UNCHANGED answer
    BY <1>3 DEF Clear
  <2>2. \A q \in Procs : (q = p /\ \A r \in Procs : ~Updating(r)) \in BOOLEAN
    BY Zenon
  <2>3. QED BY <2>1, <2>2
<1>4. ASSUME NEW p \in Procs, Etherscan(p) \/ Poocoin(p) \/ Bscscan(p)
      PROVE  UNCHANGED <<solo, whole>> /\ answer' \in Seq(Currencies)
  <2>1. PICK list \in Seq(Currencies) : SiteAnswers(p, list)
    BY <1>4, AnswersAre
  <2>2. QED BY <1>1, <2>1 DEF SiteAnswers
<1>5. ASSUME NEW p \in Procs, SiteFails(p) \/ Raises(p) \/ BalanceDone(p)
      PROVE  solo' \in [Procs -> BOOLEAN] /\ whole' \in BOOLEAN /\ UNCHANGED answer
  <2>1. solo' = [solo EXCEPT ![p] = FALSE] /\ UNCHANGED answer
        /\ (whole' = whole \/ whole' = (whole \/ solo[p]))
    BY <1>5 DEF SiteFails, Raises, BalanceDone
  <2>2. (whole \/ solo[p]) \in BOOLEAN
    BY Zenon
  <2>3. QED BY <1>1, <2>1, <2>2
<1>6. ASSUME NEW p \in Procs,
             \/ GetBnbPrice(p) \/ (\E force \in BOOLEAN : GetBalance(p, force)) \/ Balance(p) \/ Raises(p)
      PROVE  solo' \in [Procs -> BOOLEAN] /\ whole' \in BOOLEAN /\ answer' \in Seq(Currencies)
  <2>1. CASE GetBnbPrice(p) \/ (\E force \in BOOLEAN : GetBalance(p, force)) \/ NextToken(p) \/ StoreToken(p)
    BY <1>2, <2>1 DEF GetBnbPrice, GetBalance, NextToken, StoreToken
  <2>2. CASE Clear(p)
    BY <1>1, <1>3, <2>2
  <2>3. CASE Etherscan(p) \/ Poocoin(p) \/ Bscscan(p)
    BY <1>1, <1>4, <2>3
  <2>4. CASE SiteFails(p) \/ Raises(p) \/ BalanceDone(p)
    BY <1>1, <1>5, <2>4
  <2>5. QED BY <1>6, <2>1, <2>2, <2>3, <2>4 DEF Balance
<1>7. ASSUME NEW p \in Procs, GetCurrency(p) PROVE UNCHANGED history
  BY <1>7, CurrencyStep, GetCurrencyGives
<1>8. QED BY <1>2, <1>6, <1>7, Moves DEF history

LEMMA CacheTypeStep ==
  ASSUME CacheTypeOK, CallsFit, IdsInv, [CacheNext]_cacheVars
  PROVE  CacheTypeOK'
<1>1. RowsOK' /\ Grows /\ currency' \in Seq([token : Currencies, fake : BOOLEAN, old : BOOLEAN])
  BY CurrencyStep DEF RowsOK, Rows
<1>2. /\ holdings \in Seq(Nat) /\ Len(holdings) \in Nat /\ DOMAIN holdings = 1 .. Len(holdings)
      /\ \A i \in 1 .. Len(holdings) : holdings[i] \in Nat /\ holdings[i] <= Len(currency)
      /\ Len(currency) \in Nat /\ Len(currency') \in Nat /\ Len(currency) <= Len(currency')
  BY <1>1, HoldingsAre, RowsAre, LenProperties DEF CacheTypeOK, RowsOK, Grows
<1>3. ASSUME holdings' \in Seq(Nat), \A i \in 1 .. Len(holdings') : holdings'[i] <= Len(currency)
      PROVE  holdings' \in Seq(Nat) /\ \A i \in DOMAIN holdings' : holdings'[i] <= Len(currency')
  <2>1. DOMAIN holdings' = 1 .. Len(holdings') /\ \A i \in 1 .. Len(holdings') : holdings'[i] \in Nat
    BY <1>3, LenProperties, ElementOfSeq
  <2>2. QED BY <1>2, <1>3, <2>1
<1>4. ASSUME UNCHANGED holdings
      PROVE  holdings' \in Seq(Nat) /\ \A i \in DOMAIN holdings' : holdings'[i] <= Len(currency')
  BY <1>2, <1>3, <1>4
<1>5. ASSUME holdings' = <<>>
      PROVE  holdings' \in Seq(Nat) /\ \A i \in DOMAIN holdings' : holdings'[i] <= Len(currency')
  BY <1>3, <1>5, EmptySeq
<1>6. ASSUME NEW cid \in Nat, Adding(cid)
      PROVE  holdings' \in Seq(Nat) /\ \A i \in DOMAIN holdings' : holdings'[i] <= Len(currency')
  <2>1. /\ holdings' \in Seq(Nat) /\ Len(holdings') = Len(holdings) + 1
        /\ \A i \in 1 .. Len(holdings) : holdings'[i] = holdings[i]
        /\ holdings'[Len(holdings) + 1] = cid /\ cid <= Len(currency)
    BY <1>2, <1>6, AppendProperties DEF Adding
  <2>2. ASSUME NEW i \in 1 .. Len(holdings') PROVE holdings'[i] <= Len(currency)
    <3>1. i \in 1 .. Len(holdings) \/ i = Len(holdings) + 1
      BY <1>2, <2>1
    <3>2. QED BY <1>2, <2>1, <3>1
  <2>3. QED BY <1>3, <2>1, <2>2
<1>7. holdings' \in Seq(Nat) /\ \A i \in DOMAIN holdings' : holdings'[i] <= Len(currency')
  <2>1. ASSUME NEW p \in Procs, GetCurrency(p) PROVE UNCHANGED holdings
    BY <1>1, <2>1, GetCurrencyGives
  <2>2. UNCHANGED holdings \/ holdings' = <<>> \/ \E cid \in Nat : Adding(cid)
    BY <2>1, Moves, HoldingsStep
  <2>3. QED BY <1>4, <1>5, <1>6, <2>2
<1>8. QED BY <1>1, <1>7, CallStep, HistoryStep DEF CacheTypeOK

\* A token's first row stays the first, and only ids of first rows are stored.
LEMMA IdsStep ==
  ASSUME CacheTypeOK, CallsFit, IdsInv, [CacheNext]_cacheVars
  PROVE  IdsInv'
<1>1. RowsOK' /\ Grows /\ RowsOK /\ Len(holdings) \in Nat
  BY CurrencyStep, HoldingsAre
<1>2. ASSUME NEW q \in Procs, UNCHANGED call[q] PROVE Knows(call[q])'
  <2>1. PICK d : d = call[q]
    OBVIOUS
  <2>2. Knows(d)'
    BY <1>1, <2>1, KnowsStay
  <2>3. QED BY <1>2, <2>1, <2>2
<1>3. ASSUME NEW cid, First(cid, currency[cid].token) PROVE First(cid, currency[cid].token)'
  <2>1. PICK t : t = currency[cid].token
    OBVIOUS
  <2>2. First(cid, t)' /\ cid \in 1 .. Len(currency)
    BY <1>1, <1>3, <2>1, FirstStays, FirstIsFound
  <2>3. currency'[cid].token = t
    BY <1>1, <2>1, <2>2 DEF Grows
  <2>4. QED BY <2>2, <2>3
<1>4. ASSUME \A i \in 1 .. Len(holdings') :
               holdings'[i] # 0 => \/ \E j \in 1 .. Len(holdings) : holdings[j] = holdings'[i]
                                   \/ First(holdings'[i], currency[holdings'[i]].token)
      PROVE  \A i \in 1 .. Len(holdings') :
               holdings'[i] # 0 => First(holdings[i], currency[holdings[i]].token)'
  <2> SUFFICES ASSUME NEW i \in 1 .. Len(holdings'), holdings'[i] # 0
               PROVE  First(holdings[i], currency[holdings[i]].token)'
    OBVIOUS
  <2>1. PICK cid : cid = holdings'[i]
    OBVIOUS
  <2>2. First(cid, currency[cid].token)
    BY <1>4, <2>1 DEF IdsInv
  <2>3. First(cid, currency[cid].token)'
    BY <1>3, <2>2
  <2>4. QED BY <2>1, <2>3
<1>5. ASSUME UNCHANGED holdings
      PROVE  \A i \in 1 .. Len(holdings') :
               holdings'[i] # 0 => First(holdings[i], currency[holdings[i]].token)'
  BY <1>4, <1>5
<1>6. ASSUME holdings' = <<>>
      PROVE  \A i \in 1 .. Len(holdings') :
               holdings'[i] # 0 => First(holdings[i], currency[holdings[i]].token)'
  <2>1. Len(holdings') = 0
    BY <1>6, EmptySeq
  <2>2. QED BY <1>4, <2>1
<1>7. ASSUME NEW cid \in Nat, Adding(cid)
      PROVE  \A i \in 1 .. Len(holdings') :
               holdings'[i] # 0 => First(holdings[i], currency[holdings[i]].token)'
  <2>1. /\ Len(holdings') = Len(holdings) + 1 /\ holdings'[Len(holdings) + 1] = cid
        /\ \A i \in 1 .. Len(holdings) : holdings'[i] = holdings[i]
    BY <1>7, AppendProperties DEF Adding, CacheTypeOK
  <2>2. \A i \in 1 .. Len(holdings') : i \in 1 .. Len(holdings) \/ i = Len(holdings) + 1
    BY <1>1, <2>1
  <2>3. cid # 0 => First(cid, currency[cid].token)
    BY <1>7 DEF Adding
  <2>4. QED BY <1>4, <2>1, <2>2, <2>3
<1>8. \A i \in 1 .. Len(holdings') :
        holdings'[i] # 0 => First(holdings[i], currency[holdings[i]].token)'
  <2>1. ASSUME NEW p \in Procs, GetCurrency(p) PROVE UNCHANGED holdings
    BY <1>1, <2>1, GetCurrencyGives
  <2>2. UNCHANGED holdings \/ holdings' = <<>> \/ \E cid \in Nat : Adding(cid)
    BY <2>1, Moves, HoldingsStep
  <2>3. QED BY <1>5, <1>6, <1>7, <2>2
<1>9. \A q \in Procs : Knows(call[q])'
  <2>1. CASE UNCHANGED call
    BY <1>2, <2>1
  <2>2. ASSUME NEW p \in Procs, NEW c \in Calls, Becomes(p, c), Fits(c), Knows(c)'
        PROVE  \A q \in Procs : Knows(call[q])'
    <3>1. call'[p] = c /\ \A q \in Procs : q # p => call'[q] = call[q]
      BY <2>2, Becoming
    <3>2. QED BY <1>2, <2>2, <3>1
  <2>3. ASSUME NEW p \in Procs, GetCurrency(p) PROVE \A q \in Procs : Knows(call[q])'
    BY <1>1, <2>2, <2>3, GetCurrencyGives
  <2>4. ASSUME NEW p \in Procs,
               \/ GetBnbPrice(p) \/ (\E force \in BOOLEAN : GetBalance(p, force)) \/ Balance(p)
               \/ Raises(p)
        PROVE  \A q \in Procs : Knows(call[q])'
    <3>1. PICK d : d = call[p]
      OBVIOUS
    <3>2. PICK c \in Calls : Becomes(p, c) /\ Fits(c) /\ Plain(c, d)
      BY <2>4, <3>1, TaskGives
    <3>3. Knows(d)'
      BY <1>1, <3>1, KnowsStay
    <3>4. Knows(c)'
      BY <3>2, <3>3 DEF Knows, Plain
    <3>5. QED BY <2>2, <3>2, <3>4
  <2>5. QED BY <2>1, <2>3, <2>4, Moves
<1>10. QED BY <1>8, <1>9 DEF IdsInv

LEMMA Finite ==
  ASSUME RowsOK, NEW t
  PROVE  /\ IsFiniteSet(RowsOf(t)) /\ Cardinality(RowsOf(t)) \in Nat /\ RowsOf(t) \in SUBSET (1 .. Len(currency))
         /\ \A S \in SUBSET Procs : /\ IsFiniteSet(S) /\ Cardinality(S) \in Nat
                                    /\ Cardinality(S) <= Cardinality(Procs)
         /\ Cardinality(Procs) \in Nat
<1>1. RowsOf(t) \in SUBSET (1 .. Len(currency)) /\ IsFiniteSet(1 .. Len(currency))
  BY RowsAre, FS_Interval DEF RowsOf
<1>2. IsFiniteSet(RowsOf(t)) /\ Cardinality(RowsOf(t)) \in Nat
  BY <1>1, FS_Subset, FS_CardinalityType
<1>3. \A S \in SUBSET Procs : /\ IsFiniteSet(S) /\ Cardinality(S) \in Nat
                              /\ Cardinality(S) <= Cardinality(Procs)
  BY Given, FS_Subset, FS_CardinalityType
<1>4. QED BY <1>1, <1>2, <1>3

LEMMA SameRows ==
  ASSUME RowsOK, RowsOK', Grows, NEW t,
         \A i \in 1 .. Len(currency') : i > Len(currency) => currency'[i].token # t
  PROVE  RowsOf(t)' = RowsOf(t)
<1>1. /\ DOMAIN currency' = 1 .. Len(currency') /\ Len(currency') \in Nat /\ Len(currency) \in Nat
      /\ DOMAIN currency = 1 .. Len(currency)
  BY RowsAre, LenProperties DEF RowsOK
<1>2. \A i \in 1 .. Len(currency') : i \in 1 .. Len(currency) \/ i > Len(currency)
  BY <1>1
<1>3. \A i \in 1 .. Len(currency) : i \in 1 .. Len(currency') /\ currency'[i].token = currency[i].token
  BY <1>1 DEF Grows
<1>4. \A i : i \in RowsOf(t)' <=> i \in 1 .. Len(currency') /\ currency'[i].token = t
  BY <1>1 DEF RowsOf
<1>5. \A i : i \in RowsOf(t) <=> i \in 1 .. Len(currency) /\ currency[i].token = t
  BY <1>1 DEF RowsOf
<1>6. QED BY <1>2, <1>3, <1>4, <1>5

\* Every row beyond the first has been inserted by a process that looked before
\* there was one, and each process inserts one of them.
LEMMA DoublesStep ==
  ASSUME CacheTypeOK, CallsFit, IdsInv, DoublesInv, [CacheNext]_cacheVars
  PROVE  DoublesInv'
<1> SUFFICES ASSUME NEW t \in Currencies
             PROVE  Cardinality(RowsOf(t)') + Cardinality(Inserting(t)') <= Cardinality(Procs)
  BY DEF DoublesInv
<1>1. RowsOK' /\ Grows /\ RowsOK /\ Len(currency) \in Nat /\ Len(currency') \in Nat
  BY CurrencyStep, HoldingsAre, RowsAre, LenProperties DEF RowsOK
<1>2. Inserting(t) \in SUBSET Procs /\ Inserting(t)' \in SUBSET Procs
  BY DEF Inserting
<1>3. /\ IsFiniteSet(Inserting(t)) /\ Cardinality(Inserting(t)) \in Nat
      /\ IsFiniteSet(Inserting(t)') /\ Cardinality(Inserting(t)') \in Nat
      /\ Cardinality(Inserting(t)') <= Cardinality(Procs) /\ Cardinality(Procs) \in Nat
      /\ IsFiniteSet(RowsOf(t)) /\ Cardinality(RowsOf(t)) \in Nat
      /\ Cardinality(RowsOf(t)) + Cardinality(Inserting(t)) <= Cardinality(Procs)
  BY <1>1, <1>2, Finite DEF DoublesInv
<1>4. ASSUME Len(currency') = Len(currency) PROVE RowsOf(t)' = RowsOf(t)
  <2>1. \A i \in 1 .. Len(currency') : ~(i > Len(currency))
    BY <1>1, <1>4
  <2>2. QED BY <1>1, <2>1, SameRows
<1>5. ASSUME RowsOf(t)' = RowsOf(t), Inserting(t)' \in SUBSET Inserting(t)
      PROVE  Cardinality(RowsOf(t)') + Cardinality(Inserting(t)') <= Cardinality(Procs)
  <2>1. Cardinality(Inserting(t)') <= Cardinality(Inserting(t))
    BY <1>3, <1>5, FS_Subset
  <2>2. QED BY <1>3, <1>5, <2>1
<1>6. CASE UNCHANGED <<holdings, call, history>> /\ Len(currency') = Len(currency)
  BY <1>4, <1>5, <1>6 DEF Inserting
<1>7. ASSUME NEW p \in Procs, NEW c \in Calls, Becomes(p, c), Fits(c)
      PROVE  /\ \A q \in Procs : q # p => (q \in Inserting(t)' <=> q \in Inserting(t))
             /\ p \in Inserting(t)' <=> Waits(c, t)
             /\ p \in Inserting(t) <=> Waits(call[p], t)
  <2>1. call'[p] = c /\ \A q \in Procs : q # p => call'[q] = call[q]
    BY <1>7, Becoming
  <2>2. QED BY <2>1 DEF Inserting
<1>8. ASSUME NEW p \in Procs, GetCurrency(p)
      PROVE  Cardinality(RowsOf(t)') + Cardinality(Inserting(t)') <= Cardinality(Procs)
  <2>1. PICK c \in Calls : Becomes(p, c) /\ Fits(c) /\ Adds(p, c)
    BY <1>1, <1>8, GetCurrencyGives
  <2>2. CASE Len(currency') = Len(currency) /\ (Waits(c, t) => Waits(call[p], t))
    <3>1. Inserting(t)' \in SUBSET Inserting(t)
      BY <1>2, <1>7, <2>1, <2>2
    <3>2. QED BY <1>4, <1>5, <2>2, <3>1
  <2>3. CASE Len(currency') = Len(currency) /\ RowsOf(t) = {}
    <3>1. Cardinality(RowsOf(t)') = 0
      BY <1>4, <2>3, FS_EmptySet
    <3>2. QED BY <1>3, <3>1
  <2>4. CASE \E u \in Currencies : /\ Waits(call[p], u) /\ Len(currency') = Len(currency) + 1
                                   /\ currency'[Len(currency) + 1].token = u /\ ~Waits(c, t)
    <3>1. PICK u \in Currencies : /\ Waits(call[p], u) /\ Len(currency') = Len(currency) + 1
                                  /\ currency'[Len(currency) + 1].token = u /\ ~Waits(c, t)
      BY <2>4
    <3>2. \A i \in 1 .. Len(currency') : i > Len(currency) => i = Len(currency) + 1
      BY <1>1, <3>1
    <3>3. CASE u # t
      <4>1. RowsOf(t)' = RowsOf(t)
        BY <1>1, <3>1, <3>2, <3>3, SameRows
      <4>2. Inserting(t)' \in SUBSET Inserting(t)
        BY <1>2, <1>7, <2>1, <3>1
      <4>3. QED BY <1>5, <4>1, <4>2
    <3>4. CASE u = t
      <4>1. /\ DOMAIN currency' = 1 .. Len(currency') /\ DOMAIN currency = 1 .. Len(currency)
        BY <1>1, RowsAre, LenProperties DEF RowsOK
      <4>2. \A i \in 1 .. Len(currency') : i \in 1 .. Len(currency) \/ i = Len(currency) + 1
        BY <1>1, <3>1
      <4>3. RowsOf(t)' \in SUBSET (RowsOf(t) \cup {Len(currency) + 1})
        BY <1>1, <4>1, <4>2 DEF RowsOf, Grows
      <4>4. /\ Cardinality(RowsOf(t) \cup {Len(currency) + 1}) <= Cardinality(RowsOf(t)) + 1
            /\ IsFiniteSet(RowsOf(t) \cup {Len(currency) + 1})
            /\ Cardinality(RowsOf(t) \cup {Len(currency) + 1}) \in Nat
        <5>1. /\ IsFiniteSet(RowsOf(t) \cup {Len(currency) + 1})
              /\ \/ Cardinality(RowsOf(t) \cup {Len(currency) + 1}) = Cardinality(RowsOf(t))
                 \/ Cardinality(RowsOf(t) \cup {Len(currency) + 1}) = Cardinality(RowsOf(t)) + 1
          BY <1>3, FS_AddElement
        <5>2. QED BY <1>3, <5>1
      <4>5. Cardinality(RowsOf(t)') <= Cardinality(RowsOf(t)) + 1 /\ Cardinality(RowsOf(t)') \in Nat
        <5>1. /\ Cardinality(RowsOf(t)') <= Cardinality(RowsOf(t) \cup {Len(currency) + 1})
              /\ Cardinality(RowsOf(t)') \in Nat
          BY <4>3, <4>4, FS_Subset, FS_CardinalityType
        <5>2. QED BY <1>3, <4>4, <5>1
      <4>6. p \in Inserting(t) /\ Inserting(t)' \in SUBSET (Inserting(t) \ {p})
        BY <1>2, <1>7, <2>1, <3>1, <3>4
      <4>7. IsFiniteSet(Inserting(t) \ {p}) /\ Cardinality(Inserting(t) \ {p}) = Cardinality(Inserting(t)) - 1
        BY <1>3, <4>6, FS_RemoveElement
      <4>8. Cardinality(Inserting(t)') <= Cardinality(Inserting(t)) - 1
        BY <4>6, <4>7, FS_Subset
      <4>9. QED BY <1>3, <4>5, <4>8
    <3>5. QED BY <3>3, <3>4
  <2>5. QED BY <2>1, <2>2, <2>3, <2>4 DEF Adds
<1>9. ASSUME NEW p \in Procs, UNCHANGED currency,
             \/ GetBnbPrice(p) \/ (\E force \in BOOLEAN : GetBalance(p, force)) \/ Balance(p) \/ Raises(p)
      PROVE  Cardinality(RowsOf(t)') + Cardinality(Inserting(t)') <= Cardinality(Procs)
  <2>1. PICK d : d = call[p]
    OBVIOUS
  <2>2. PICK c \in Calls : Becomes(p, c) /\ Fits(c) /\ Plain(c, d)
    BY <1>9, <2>1, TaskGives
  <2>3. ~Waits(c, t)
    BY <2>2 DEF Plain, Waits, Inserts
  <2>4. Inserting(t)' \in SUBSET Inserting(t)
    BY <1>2, <1>7, <2>2, <2>3
  <2>5. QED BY <1>4, <1>5, <1>9, <2>4
<1>10. QED BY <1>6, <1>8, <1>9, Moves

LEMMA TimesOf ==
  ASSUME NEW list \in Seq(Currencies), NEW t
  PROVE  /\ Times(list, t) \in Nat
         /\ list = <<>> => Times(list, t) = 0
         /\ NoRepeats(list) => Times(list, t) <= 1
         /\ list # <<>> => Times(Tail(list), t) <= Times(list, t)
<1> DEFINE T(s) == {i \in DOMAIN s : s[i] = t}
<1>1. /\ Len(list) \in Nat /\ DOMAIN list = 1 .. Len(list) /\ (list = <<>> <=> Len(list) = 0)
  BY ListsAre
<1>2. IsFiniteSet(T(list)) /\ Cardinality(T(list)) \in Nat /\ Times(list, t) = Cardinality(T(list))
  <2>1. T(list) \in SUBSET (1 .. Len(list)) /\ IsFiniteSet(1 .. Len(list))
    BY <1>1, FS_Interval
  <2> HIDE DEF T
  <2>2. IsFiniteSet(T(list)) /\ Cardinality(T(list)) \in Nat
    BY <2>1, FS_Subset, FS_CardinalityType
  <2>3. QED BY <2>2 DEF Times, T
<1>3. ASSUME list = <<>> PROVE Times(list, t) = 0
  <2>1. T(list) = {}
    BY <1>1, <1>3
  <2>2. QED BY <1>2, <2>1, FS_EmptySet
<1>4. ASSUME NoRepeats(list) PROVE Times(list, t) <= 1
  <2>1. CASE T(list) = {}
    BY <1>2, <2>1, FS_EmptySet
  <2>2. CASE T(list) # {}
    <3>1. PICK i \in T(list) : TRUE
      BY <2>2
    <3>2. T(list) = {i}
      BY <1>1, <1>4, <3>1 DEF NoRepeats
    <3> HIDE DEF T
    <3>3. Cardinality({i}) = 1
      BY FS_Singleton
    <3>4. QED BY <1>2, <3>2, <3>3
  <2>3. QED BY <2>1, <2>2
<1>5. ASSUME list # <<>> PROVE Times(Tail(list), t) <= Times(list, t)
  <2>1. /\ Tail(list) \in Seq(Currencies) /\ Len(Tail(list)) = Len(list) - 1
        /\ \A i \in 1 .. Len(Tail(list)) : Tail(list)[i] = list[i + 1]
    BY <1>5, ListsAre
  <2>2. DOMAIN Tail(list) = 1 .. Len(Tail(list))
    BY <2>1, LenProperties
  <2> DEFINE f == [i \in T(Tail(list)) |-> i + 1]
  <2>3. \A i \in T(Tail(list)) : i \in Int /\ i + 1 \in T(list)
    BY <1>1, <2>1, <2>2
  <2>4. \A i, j \in T(Tail(list)) : i + 1 = j + 1 => i = j
    BY <2>3
  <2>5. f \in Injection(T(Tail(list)), T(list))
    BY <2>3, <2>4 DEF Injection, IsInjective
  <2>6. Cardinality(T(Tail(list))) <= Cardinality(T(list))
    BY <1>2, <2>5, FS_Injection
  <2>7. QED BY <2>6 DEF Times
<1>6. QED BY <1>2, <1>3, <1>4, <1>5

LEMMA HasAfter ==
  ASSUME CacheTypeOK, RowsOK', Grows, NEW t
  PROVE  /\ UNCHANGED holdings => Has(t)' = Has(t)
         /\ holdings' = <<>> => Has(t)' = {}
         /\ \A cid \in Nat : Adding(cid) =>
              /\ Has(t)' \in SUBSET (Has(t) \cup {Len(holdings) + 1})
              /\ cid = 0 \/ currency[cid].token # t => Has(t)' \in SUBSET Has(t)
<1>1. /\ Len(holdings) \in Nat /\ RowsOK /\ holdings \in Seq(Nat)
      /\ \A i \in 1 .. Len(holdings) : holdings[i] # 0 => holdings[i] \in 1 .. Len(currency)
  BY HoldingsAre DEF CacheTypeOK
<1>2. ASSUME UNCHANGED holdings PROVE Has(t)' = Has(t)
  BY <1>1, <1>2 DEF Has, Grows
<1>3. ASSUME holdings' = <<>> PROVE Has(t)' = {}
  <2>1. Len(holdings') = 0
    BY <1>3, EmptySeq
  <2>2. QED BY <2>1 DEF Has
<1>4. ASSUME NEW cid \in Nat, Adding(cid)
      PROVE  /\ Has(t)' \in SUBSET (Has(t) \cup {Len(holdings) + 1})
             /\ cid = 0 \/ currency[cid].token # t => Has(t)' \in SUBSET Has(t)
  <2>1. /\ Len(holdings') = Len(holdings) + 1 /\ holdings'[Len(holdings) + 1] = cid
        /\ \A i \in 1 .. Len(holdings) : holdings'[i] = holdings[i]
    BY <1>1, <1>4, AppendProperties DEF Adding
  <2>2. \A i \in 1 .. Len(holdings') : i \in 1 .. Len(holdings) \/ i = Len(holdings) + 1
    BY <1>1, <2>1
  <2>3. cid # 0 => cid \in 1 .. Len(currency)
    BY <1>1, <1>4, FirstIsFound DEF Adding
  <2>4. ASSUME NEW i \in Has(t)' PROVE i \in Has(t) \/ (i = Len(holdings) + 1 /\ cid # 0 /\ currency[cid].token = t)
    <3>1. i \in 1 .. Len(holdings') /\ holdings'[i] # 0 /\ currency'[holdings'[i]].token = t
      BY DEF Has
    <3>2. CASE i \in 1 .. Len(holdings)
      BY <1>1, <2>1, <3>1, <3>2 DEF Has, Grows
    <3>3. CASE i = Len(holdings) + 1
      BY <2>1, <2>3, <3>1, <3>3 DEF Grows
    <3>4. QED BY <2>2, <3>1, <3>2, <3>3
  <2>5. QED BY <2>4
<1>5. QED BY <1>2, <1>3, <1>4

\* Each update still stores at most one row of a token, and has counted for one.
LEMMA TimesStep ==
  ASSUME CacheTypeOK, CallsFit, IdsInv, TimesInv, [CacheNext]_cacheVars
  PROVE  TimesInv'
<1> SUFFICES ASSUME NEW t \in Currencies
             PROVE  /\ Cardinality(Has(t)') + Cardinality(MayStore(t)') <= Cardinality(Procs)
                    /\ \A p \in Procs : ~call'[p].update => Times(call'[p].list, t) <= Cardinality(Procs)
  BY DEF TimesInv, Times
<1> DEFINE Goal == /\ Cardinality(Has(t)') + Cardinality(MayStore(t)') <= Cardinality(Procs)
                   /\ \A p \in Procs : ~call'[p].update => Times(call'[p].list, t) <= Cardinality(Procs)
<1>1. /\ RowsOK' /\ Grows /\ RowsOK /\ Len(holdings) \in Nat /\ CacheTypeOK'
      /\ call \in [Procs -> Calls] /\ holdings \in Seq(Nat)
  BY CurrencyStep, HoldingsAre, CacheTypeStep DEF CacheTypeOK
<1>2. MayStore(t) \in SUBSET Procs /\ MayStore(t)' \in SUBSET Procs
  BY DEF MayStore
<1>3. /\ IsFiniteSet(MayStore(t)) /\ Cardinality(MayStore(t)) \in Nat
      /\ IsFiniteSet(MayStore(t)') /\ Cardinality(MayStore(t)') \in Nat
      /\ Cardinality(MayStore(t)') <= Cardinality(Procs) /\ Cardinality(Procs) \in Nat
      /\ IsFiniteSet(Has(t)) /\ Cardinality(Has(t)) \in Nat
      /\ Cardinality(Has(t)) + Cardinality(MayStore(t)) <= Cardinality(Procs)
      /\ \A p \in Procs : ~call[p].update => Times(call[p].list, t) <= Cardinality(Procs)
  BY <1>1, <1>2, Finite, HasIs DEF TimesInv
<1>4. ASSUME Has(t)' \in SUBSET Has(t), MayStore(t)' \in SUBSET MayStore(t)
      PROVE  Cardinality(Has(t)') + Cardinality(MayStore(t)') <= Cardinality(Procs)
  <2>1. Cardinality(MayStore(t)') <= Cardinality(MayStore(t))
    BY <1>3, <1>4, FS_Subset
  <2>2. Cardinality(Has(t)') <= Cardinality(Has(t)) /\ Cardinality(Has(t)') \in Nat
    BY <1>3, <1>4, FS_Subset, FS_CardinalityType
  <2>3. QED BY <1>3, <2>1, <2>2
<1>5. CASE UNCHANGED <<holdings, call, history>>
  <2>1. Has(t)' \in SUBSET Has(t)
    BY <1>1, <1>5, HasAfter
  <2>2. MayStore(t)' \in SUBSET MayStore(t)
    BY <1>5 DEF MayStore
  <2>3. QED BY <1>3, <1>4, <1>5, <2>1, <2>2
<1>6. ASSUME NEW p \in Procs, NEW c \in Calls, Becomes(p, c), Fits(c)
      PROVE  /\ (May(c, t) => May(call[p], t)) => MayStore(t)' \in SUBSET MayStore(t)
             /\ ~May(c, t) => MayStore(t)' \in SUBSET (MayStore(t) \ {p})
             /\ May(call[p], t) => p \in MayStore(t)
             /\ (~c.update => Times(c.list, t) <= Cardinality(Procs))
                => \A q \in Procs : ~call'[q].update => Times(call'[q].list, t) <= Cardinality(Procs)
  <2>1. call'[p] = c /\ \A q \in Procs : q # p => call'[q] = call[q]
    BY <1>6, Becoming
  <2>2. \A q \in Procs : q \in MayStore(t)' <=> May(call'[q], t)
    BY DEF MayStore
  <2>3. \A q \in Procs : q \in MayStore(t) <=> May(call[q], t)
    BY DEF MayStore
  <2>4. QED BY <1>2, <1>3, <2>1, <2>2, <2>3
<1>7. Idle.update = FALSE /\ Idle.list = <<>> /\ Times(<<>>, t) <= Cardinality(Procs)
  <2>1. Times(<<>>, t) = 0
    BY EmptySeq, TimesOf
  <2>2. QED BY <1>3, <2>1 DEF Idle
<1>8. ASSUME NEW p \in Procs, GetCurrency(p) PROVE Goal
  <2>1. PICK c \in Calls : Becomes(p, c) /\ Fits(c) /\ Works(c, call[p])
    BY <1>1, <1>8, GetCurrencyGives
  <2>2. UNCHANGED holdings
    BY <1>1, <1>8, GetCurrencyGives
  <2>3. (May(c, t) => May(call[p], t)) /\ (~c.update => Times(c.list, t) <= Cardinality(Procs))
    BY <1>3, <1>7, <2>1 DEF Works, SameWork, May, Lists
  <2>4. Has(t)' \in SUBSET Has(t)
    BY <1>1, <2>2, HasAfter
  <2>5. QED BY <1>4, <1>6, <2>1, <2>3, <2>4
<1>9. ASSUME NEW p \in Procs,
             \/ GetBnbPrice(p) \/ (\E force \in BOOLEAN : GetBalance(p, force)) \/ Balance(p) \/ Raises(p)
      PROVE  Goal
  <2>1. PICK d : d = call[p]
    OBVIOUS
  <2>2. PICK c \in Calls : Becomes(p, c) /\ Fits(c) /\ Task(p, c, d)
    BY <1>9, <2>1, TaskGives
  <2>3. d \in Calls /\ Fits(d) /\ d.list \in Seq(Currencies) /\ Knows(d)
    BY <1>1, <2>1 DEF CallsFit, Calls, IdsInv
  <2>4. Len(<<>>) = 0
    BY EmptySeq
  <2>5. ASSUME Has(t)' \in SUBSET Has(t), May(c, t) => May(d, t),
               ~c.update => Times(c.list, t) <= Cardinality(Procs)
        PROVE  Goal
    BY <1>4, <1>6, <2>1, <2>2, <2>5
  <2>6. UNCHANGED holdings => Has(t)' \in SUBSET Has(t)
    BY <1>1, HasAfter
  <2>7. CASE \/ GetBnbPrice(p) /\ ~c.update /\ c.list = <<>>
             \/ (Raises(p) \/ SiteFails(p)) /\ c = Idle
    <3>1. UNCHANGED holdings
      BY <2>7 DEF GetBnbPrice, Raises, SiteFails, tables
    <3>2. QED BY <1>7, <2>5, <2>6, <2>7, <3>1 DEF May
  <2>8. CASE BalanceDone(p) /\ c = Idle
    <3>1. UNCHANGED holdings \/ Adding(0)
      <4>1. 0 <= Len(currency)
        BY <1>1, RowsAre
      <4>2. QED BY <2>8, <4>1 DEF BalanceDone, AddHolding, Adding
    <3>2. Has(t)' \in SUBSET Has(t)
      BY <1>1, <2>6, <3>1, HasAfter
    <3>3. QED BY <1>7, <2>5, <2>8, <3>2 DEF May
  <2>9. CASE \/ SameList(c, d) /\ NextToken(p) /\ c.pc = "currency"
             \/ /\ (\E force \in BOOLEAN : GetBalance(p, force))
                /\ \/ c.update /\ c.pc = "clear" /\ c.list = <<>>
                   \/ ~c.update /\ c.list = Stored
    <3>1. UNCHANGED holdings
      BY <2>9 DEF NextToken, GetBalance, tables
    <3>2. Times(Stored, t) <= Cardinality(Procs)
      <4>1. Times(Stored, t) \in Nat /\ Times(Stored, t) <= Cardinality(Has(t))
        BY TimesStored, StoredIs, TimesOf
      <4>2. QED BY <1>3, <4>1
    <3>3. May(c, t) => May(d, t)
      <4>1. c.list = <<>> => Len(c.list) = 0
        BY <2>4
      <4>2. c.list = <<>> => ~Lists(c, t)
        BY <4>1 DEF Lists
      <4>3. CASE SameList(c, d) /\ c.pc = "currency"
        BY <4>3 DEF May, Lists, SameList
      <4>4. QED BY <2>9, <4>2, <4>3 DEF May
    <3>4. ~c.update => Times(c.list, t) <= Cardinality(Procs)
      BY <1>3, <2>1, <2>9, <3>2 DEF SameList
    <3>5. QED BY <2>5, <2>6, <3>1, <3>3, <3>4
  <2>10. CASE Clear(p) /\ c.update
    <3>1. Has(t)' = {}
      BY <1>1, <2>10, HasAfter DEF Clear, Cleared
    <3>2. Cardinality(Has(t)') + Cardinality(MayStore(t)') <= Cardinality(Procs)
      BY <1>3, <3>1, FS_EmptySet
    <3>3. QED BY <1>6, <2>2, <2>10, <3>2
  <2>11. CASE (\E list \in Seq(Currencies) : SiteAnswers(p, list)) /\ d.update /\ c.update
    <3>1. UNCHANGED holdings /\ d.pc = "ask"
      BY <2>1, <2>11 DEF SiteAnswers, At, tables
    <3>2. QED BY <2>5, <2>6, <2>11, <3>1 DEF May
  <2>12. CASE StoreToken(p) /\ c.update = d.update /\ c.list = Tail(d.list) /\ c.pc = "next"
    <3>1. /\ d.pc = "store" /\ d.list # <<>> /\ First(d.cid, d.list[1]) /\ d.cid \in Nat
          /\ holdings' = IF d.update THEN Append(holdings, d.cid) ELSE holdings
      BY <2>1, <2>3, <2>12 DEF StoreToken, At, AddHolding, Fits, Knows, Calls
    <3>2. d.cid \in 1 .. Len(currency) /\ currency[d.cid].token = d.list[1] /\ Len(currency) \in Nat
      BY <1>1, <3>1, FirstIsFound, RowsAre
    <3>3. /\ Len(d.list) \in Nat /\ Len(d.list) >= 1 /\ Len(c.list) = Len(d.list) - 1
          /\ \A i \in 1 .. Len(c.list) : c.list[i] = d.list[i + 1]
      BY <2>3, <2>12, <3>1, ListsAre
    <3>4. Lists(c, t) => Lists(d, t)
      <4>1. \A i \in 1 .. Len(c.list) : i + 1 \in 1 .. Len(d.list)
        BY <3>3
      <4>2. QED BY <3>3, <4>1 DEF Lists
    <3>5. CASE ~d.update
      <4>1. UNCHANGED holdings /\ ~c.update
        BY <2>12, <3>1, <3>5
      <4>2. Times(c.list, t) <= Times(d.list, t) /\ Times(d.list, t) \in Nat
        BY <2>3, <2>12, <3>1, TimesOf
      <4>3. Tail(d.list) \in Seq(Currencies)
        BY <2>3, <3>1, ListsAre
      <4>4. Times(c.list, t) \in Nat
        BY <2>12, <4>3, TimesOf
      <4>5. Times(d.list, t) <= Cardinality(Procs)
        BY <1>3, <2>1, <3>5
      <4>6. Times(c.list, t) <= Cardinality(Procs)
        BY <1>3, <4>2, <4>4, <4>5
      <4>7. QED BY <2>5, <2>6, <4>1, <4>6 DEF May
    <3>6. CASE d.update /\ d.list[1] # t
      <4>1. Adding(d.cid)
        BY <3>1, <3>2, <3>6 DEF Adding
      <4>2. Has(t)' \in SUBSET Has(t)
        BY <1>1, <3>1, <3>2, <3>6, <4>1, HasAfter
      <4>3. QED BY <2>5, <2>12, <3>4, <3>6, <4>2 DEF May
    <3>7. CASE d.update /\ d.list[1] = t
      <4>1. Adding(d.cid)
        BY <3>1, <3>2, <3>7 DEF Adding
      <4>2. Has(t)' \in SUBSET (Has(t) \cup {Len(holdings) + 1})
        BY <1>1, <3>1, <4>1, HasAfter
      <4>3. /\ IsFiniteSet(Has(t) \cup {Len(holdings) + 1})
            /\ \/ Cardinality(Has(t) \cup {Len(holdings) + 1}) = Cardinality(Has(t))
               \/ Cardinality(Has(t) \cup {Len(holdings) + 1}) = Cardinality(Has(t)) + 1
        BY <1>3, FS_AddElement
      <4>4. Cardinality(Has(t)') <= Cardinality(Has(t)) + 1 /\ Cardinality(Has(t)') \in Nat
        <5>1. /\ Cardinality(Has(t)') <= Cardinality(Has(t) \cup {Len(holdings) + 1})
              /\ Cardinality(Has(t)') \in Nat
          BY <4>2, <4>3, FS_Subset, FS_CardinalityType
        <5>2. QED BY <1>3, <4>3, <5>1
      <4>5. ~Lists(c, t) /\ Lists(d, t)
        <5>1. ~(\E i \in 1 .. Len(Tail(d.list)) : Tail(d.list)[i] = d.list[1])
          BY <2>3, <3>1, <3>7, NoRepeatsOf DEF Fits
        <5>2. 1 \in 1 .. Len(d.list)
          BY <3>3
        <5>3. QED BY <2>12, <3>7, <5>1, <5>2 DEF Lists
      <4>6. p \in MayStore(t) /\ MayStore(t)' \in SUBSET (MayStore(t) \ {p})
        BY <1>6, <2>1, <2>2, <2>12, <3>7, <4>5 DEF May
      <4>7. IsFiniteSet(MayStore(t) \ {p}) /\ Cardinality(MayStore(t) \ {p}) = Cardinality(MayStore(t)) - 1
        BY <1>3, <4>6, FS_RemoveElement
      <4>8. Cardinality(MayStore(t)') <= Cardinality(MayStore(t)) - 1
        BY <4>6, <4>7, FS_Subset
      <4>9. Cardinality(Has(t)') + Cardinality(MayStore(t)') <= Cardinality(Procs)
        BY <1>3, <4>4, <4>8
      <4>10. QED BY <1>6, <2>2, <2>12, <3>7, <4>9
    <3>8. QED BY <3>5, <3>6, <3>7
  <2>13. QED BY <2>2, <2>7, <2>8, <2>9, <2>10, <2>11, <2>12 DEF Task
<1>10. QED BY <1>5, <1>8, <1>9, Moves

Upd(c) == c.update /\ c.pc # "clear"

\* To an update that is alone the step from d to c is nothing.
Quiet(c, d) ==
  \/ SameList(c, d) /\ (Upd(c) <=> Upd(d)) /\ (c.pc = "ask" <=> d.pc = "ask")
  \/ ~Upd(c) /\ ~Upd(d)

\* AloneInv for a process p in the state d, and for the stored holdings.
AloneAs(p, d) == /\ Upd(d) /\ \A q \in Procs : Upd(call[q]) => q = p
                 /\ IF d.pc = "ask" THEN holdings = <<>> ELSE Rest(d)

LEMMA AloneIs ==
  AloneInv <=> /\ \A p \in Procs : solo[p] => AloneAs(p, call[p])
               /\ whole => Whole /\ \A p \in Procs : ~Upd(call[p])
BY DEF AloneInv, AloneAs, Updating, Upd, At

LEMMA AloneNext ==
  AloneInv' <=> /\ \A p \in Procs : solo'[p] => AloneAs(p, call[p])'
                /\ whole' => Whole' /\ \A p \in Procs : ~Upd(call'[p])
BY DEF AloneInv, AloneAs, Updating, Upd, At

LEMMA StoresStay ==
  ASSUME CacheTypeOK, Grows, UNCHANGED <<holdings, answer>>
  PROVE  /\ \A i \in 1 .. Len(holdings) : Stores(i) => Stores(i)'
         /\ Whole => Whole'
         /\ \A c, d \in Calls : SameList(c, d) /\ Rest(d) => Rest(c)'
<1>1. \A i \in 1 .. Len(holdings) : holdings[i] # 0 => holdings[i] \in 1 .. Len(currency)
  BY HoldingsAre
<1>2. ASSUME NEW i \in 1 .. Len(holdings), Stores(i) PROVE Stores(i)'
  <2>1. PICK cid : cid = holdings[i]
    OBVIOUS
  <2>2. cid \in 1 .. Len(currency) /\ cid # 0 /\ currency[cid].token = answer[i]
    BY <1>1, <1>2, <2>1 DEF Stores
  <2>3. QED BY <2>1, <2>2 DEF Stores, Grows
<1>3. Whole => Whole'
  BY <1>2 DEF Whole
<1>4. ASSUME NEW c \in Calls, NEW d \in Calls, SameList(c, d), Rest(d) PROVE Rest(c)'
  BY <1>2, <1>4 DEF Rest, SameList
<1>5. QED BY <1>2, <1>3, <1>4

LEMMA QuietStep ==
  ASSUME CacheTypeOK, AloneInv, Grows, call' \in [Procs -> Calls], UNCHANGED <<holdings, history>>,
         \A q \in Procs : Quiet(call'[q], call[q])
  PROVE  AloneInv'
<1>1. \A q \in Procs : Upd(call'[q]) <=> Upd(call[q])
  BY DEF Quiet
<1>2. UNCHANGED <<holdings, solo, whole, answer>>
  BY DEF history
<1>3. ASSUME NEW p \in Procs, solo'[p] PROVE AloneAs(p, call[p])'
  <2>1. PICK d \in Calls : d = call[p]
    BY DEF CacheTypeOK
  <2>2. PICK c \in Calls : c = call'[p]
    OBVIOUS
  <2>3. AloneAs(p, d)
    BY <1>2, <1>3, <2>1, AloneIs
  <2>4. SameList(c, d) /\ Upd(c) /\ (c.pc = "ask" <=> d.pc = "ask")
    BY <2>1, <2>2, <2>3 DEF Quiet, AloneAs
  <2>5. Rest(d) => Rest(c)'
    BY <1>2, <2>4, StoresStay
  <2>6. AloneAs(p, c)'
    BY <1>1, <1>2, <2>3, <2>4, <2>5 DEF AloneAs
  <2>7. QED BY <2>2, <2>6
<1>4. whole' => Whole' /\ \A p \in Procs : ~Upd(call'[p])
  BY <1>1, <1>2, StoresStay, AloneIs
<1>5. QED BY <1>3, <1>4, AloneNext

LEMMA QuietCurrency ==
  ASSUME CacheTypeOK, CallsFit, IdsInv, RowsOK', Grows, AloneInv, NEW p \in Procs, GetCurrency(p)
  PROVE  AloneInv'
<1>1. PICK c \in Calls : Becomes(p, c) /\ Fits(c) /\ Works(c, call[p])
  BY GetCurrencyGives
<1>2. UNCHANGED <<holdings, history>>
  BY GetCurrencyGives
<1>3. call' \in [Procs -> Calls] /\ call'[p] = c /\ \A q \in Procs : q # p => call'[q] = call[q]
  BY <1>1, Becoming
<1>4. Fits(call[p]) /\ Idle.update = FALSE
  BY DEF CallsFit, Idle
<1>5. Quiet(c, call[p])
  BY <1>1, <1>4 DEF Works, SameWork, SameList, Quiet, Upd, Fits
<1>6. \A d : Quiet(d, d)
  BY DEF Quiet, SameList
<1>7. QED BY <1>2, <1>3, <1>5, <1>6, QuietStep

\* An update that is alone stores the answer from its beginning to its end.
LEMMA AloneStep ==
  ASSUME CacheTypeOK, CallsFit, IdsInv, AloneInv, [CacheNext]_cacheVars
  PROVE  AloneInv'
<1>1. /\ RowsOK' /\ Grows /\ RowsOK /\ Len(holdings) \in Nat /\ holdings \in Seq(Nat)
      /\ call \in [Procs -> Calls] /\ solo \in [Procs -> BOOLEAN] /\ answer \in Seq(Currencies)
      /\ call' \in [Procs -> Calls] /\ Len(answer) \in Nat
  BY CurrencyStep, HoldingsAre, CallStep, LenProperties DEF CacheTypeOK
<1>2. \A d : Quiet(d, d)
  BY DEF Quiet, SameList
<1>3. CASE UNCHANGED <<holdings, call, history>>
  BY <1>1, <1>2, <1>3, QuietStep
<1>4. ASSUME NEW p \in Procs, GetCurrency(p) PROVE AloneInv'
  BY <1>1, <1>4, QuietCurrency
<1>5. ASSUME NEW p \in Procs,
             \/ GetBnbPrice(p) \/ (\E force \in BOOLEAN : GetBalance(p, force)) \/ Balance(p) \/ Raises(p)
      PROVE  AloneInv'
  <2>1. PICK d \in Calls : d = call[p] /\ Fits(d) /\ Knows(d)
    BY <1>1 DEF CallsFit, IdsInv
  <2>2. PICK c \in Calls : Becomes(p, c) /\ Fits(c) /\ Task(p, c, d)
    BY <1>5, <2>1, TaskGives
  <2>3. call'[p] = c /\ \A q \in Procs : q # p => call'[q] = call[q]
    BY <2>2, Becoming
  <2>4. /\ \A q \in Procs : solo[q] => AloneAs(q, call[q])
        /\ whole => Whole /\ \A q \in Procs : ~Upd(call[q])
    BY AloneIs
  <2>5. /\ d.list \in Seq(Currencies) /\ c.list \in Seq(Currencies)
        /\ Len(d.list) \in Nat /\ Len(c.list) \in Nat /\ Len(<<>>) = 0
        /\ d.list = <<>> <=> Len(d.list) = 0
        /\ answer = <<>> <=> Len(answer) = 0
    BY <1>1, ListsAre, EmptySeq DEF Calls
  <2>6. ~Upd(Idle)
    BY DEF Upd, Idle
  <2>7. ASSUME UNCHANGED <<holdings, history>>, Quiet(c, d) PROVE AloneInv'
    BY <1>1, <1>2, <2>1, <2>3, <2>7, QuietStep
  <2>8. ASSUME UNCHANGED <<holdings, answer>>, solo' = [solo EXCEPT ![p] = FALSE], c = Idle, whole' => whole
        PROVE  AloneInv'
    <3>1. ASSUME NEW q \in Procs, solo'[q] PROVE AloneAs(q, call[q])'
      <4>1. q # p /\ solo[q] /\ call'[q] = call[q]
        BY <1>1, <2>3, <2>8, <3>1
      <4>2. PICK e \in Calls : e = call[q]
        BY <1>1
      <4>3. AloneAs(q, e)
        BY <2>4, <4>1, <4>2
      <4>4. Rest(e) => Rest(e)'
        BY <1>1, <2>8, StoresStay DEF SameList
      <4>5. \A r \in Procs : Upd(call'[r]) => Upd(call[r])
        BY <2>3, <2>6, <2>8
      <4>6. AloneAs(q, e)'
        BY <2>8, <4>3, <4>4, <4>5 DEF AloneAs
      <4>7. QED BY <4>1, <4>2, <4>6
    <3>2. whole' => Whole' /\ \A q \in Procs : ~Upd(call'[q])
      BY <1>1, <2>3, <2>4, <2>6, <2>8, StoresStay
    <3>3. QED BY <3>1, <3>2, AloneNext
  <2>9. CASE GetBnbPrice(p) /\ ~d.update /\ ~c.update
    BY <2>7, <2>9 DEF GetBnbPrice, tables, Quiet, Upd
  <2>10. CASE (\E force \in BOOLEAN : GetBalance(p, force)) /\ ~d.update /\ (c.pc = "clear" \/ ~c.update)
    BY <2>7, <2>10 DEF GetBalance, tables, Quiet, Upd
  <2>11. CASE NextToken(p) /\ SameList(c, d) /\ c.pc = "currency"
    <3>1. d.pc = "next"
      BY <2>1, <2>11 DEF NextToken, At
    <3>2. QED BY <2>7, <2>11, <3>1 DEF NextToken, tables, Quiet, Upd, SameList
  <2>12. CASE (Raises(p) \/ SiteFails(p)) /\ c = Idle
    BY <2>8, <2>12 DEF Raises, SiteFails, tables
  <2>13. CASE Clear(p) /\ c.update /\ c.pc = "ask"
    <3>1. /\ holdings' = <<>> /\ solo' = [q \in Procs |-> q = p /\ \A r \in Procs : ~Updating(r)]
          /\ whole' = FALSE
      BY <2>13 DEF Clear, Cleared
    <3>2. ASSUME NEW q \in Procs, solo'[q] PROVE AloneAs(q, call[q])'
      <4>1. q = p /\ \A r \in Procs : ~Upd(call[r])
        BY <3>1, <3>2 DEF Updating, Upd, At
      <4>2. AloneAs(p, c)'
        BY <2>3, <2>13, <3>1, <4>1 DEF AloneAs, Upd
      <4>3. QED BY <2>3, <4>1, <4>2
    <3>3. QED BY <3>1, <3>2, AloneNext
  <2>14. ASSUME Upd(d) PROVE ~whole /\ \A q \in Procs : solo[q] => q = p
    BY <2>1, <2>4, <2>14 DEF AloneAs
  <2>15. ASSUME NEW list \in Seq(Currencies), SiteAnswers(p, list), c.list = list,
                c.empty = (list = <<>>), d.update, c.update, c.pc = "next"
         PROVE  AloneInv'
    <3>1. /\ d.pc = "ask" /\ UNCHANGED <<holdings, solo, whole>>
          /\ answer' = IF solo[p] THEN list ELSE answer
      BY <2>1, <2>15 DEF SiteAnswers, At, tables
    <3>2. Upd(d) /\ Upd(c) /\ ~whole /\ \A q \in Procs : solo[q] => q = p
      BY <2>14, <2>15, <3>1 DEF Upd
    <3>3. ASSUME solo[p] PROVE AloneAs(p, c)'
      <4>1. AloneAs(p, d)
        BY <2>1, <2>4, <3>3
      <4>2. holdings' = <<>> /\ answer' = c.list /\ Len(holdings') = 0
            /\ \A q \in Procs : Upd(call[q]) => q = p
        BY <2>5, <2>15, <3>1, <3>3, <4>1 DEF AloneAs
      <4>3. \A i \in 1 .. Len(c.list) : 0 + i = i
        BY <2>5
      <4>4. Rest(c)'
        <5>1. c.list = answer' /\ (c.empty <=> answer' = <<>>) /\ Len(answer') = Len(c.list)
          BY <2>15, <4>2
        <5>2. Len(holdings') + Len(c.list) = Len(answer') /\ ~(\E i \in 1 .. Len(holdings') : TRUE)
          BY <2>5, <4>2, <5>1
        <5>3. \A i \in 1 .. Len(c.list) : Len(holdings') + i = i
          BY <4>2, <4>3
        <5>4. \A i \in 1 .. Len(c.list) : c.list[i] = answer'[Len(holdings') + i]
          BY <5>1, <5>3
        <5>5. QED BY <5>1, <5>2, <5>4 DEF Rest
      <4>5. QED BY <2>3, <2>15, <3>2, <4>2, <4>4 DEF AloneAs
    <3>4. QED BY <2>3, <3>1, <3>2, <3>3, AloneNext
  <2>16. CASE StoreToken(p) /\ c.update = d.update /\ c.empty = d.empty /\ c.list = Tail(d.list) /\ c.pc = "next"
    <3>1. /\ d.pc = "store" /\ d.list # <<>> /\ First(d.cid, d.list[1]) /\ d.cid \in Nat
          /\ holdings' = IF d.update THEN Append(holdings, d.cid) ELSE holdings
          /\ UNCHANGED <<currency, history>>
      BY <2>1, <2>16 DEF StoreToken, At, AddHolding, Fits, Knows, Calls
    <3>2. CASE ~d.update
      BY <2>7, <2>16, <3>1, <3>2 DEF Quiet, Upd
    <3>3. CASE d.update
      <4>1. Upd(d) /\ Upd(c) /\ ~whole /\ ~whole' /\ solo' = solo /\ answer' = answer
            /\ \A q \in Procs : solo[q] => q = p
        BY <2>14, <2>16, <3>1, <3>3 DEF Upd, history
      <4>2. ASSUME solo[p] PROVE AloneAs(p, c)'
        <5>1. AloneAs(p, d) /\ Rest(d)
          BY <2>1, <2>4, <3>1, <4>2 DEF AloneAs
        <5>2. /\ Len(holdings') = Len(holdings) + 1 /\ holdings'[Len(holdings) + 1] = d.cid
              /\ \A i \in 1 .. Len(holdings) : holdings'[i] = holdings[i]
          BY <1>1, <3>1, <3>3, AppendProperties
        <5>3. /\ Len(d.list) >= 1 /\ Len(c.list) = Len(d.list) - 1
              /\ \A i \in 1 .. Len(c.list) : c.list[i] = d.list[i + 1]
          BY <2>5, <2>16, <3>1, ListsAre
        <5>4. d.cid # 0 /\ currency[d.cid].token = d.list[1]
          BY <1>1, <3>1, FirstIsFound
        <5>5. d.list[1] = answer[Len(holdings) + 1]
          <6>1. 1 \in 1 .. Len(d.list)
            BY <2>5, <5>3
          <6>2. QED BY <5>1, <6>1 DEF Rest
        <5>6. ASSUME NEW i \in 1 .. Len(holdings') PROVE Stores(i)'
          <6>1. CASE i \in 1 .. Len(holdings)
            BY <3>1, <4>1, <5>1, <5>2, <6>1 DEF Rest, Stores
          <6>2. CASE i = Len(holdings) + 1
            BY <3>1, <4>1, <5>2, <5>4, <5>5, <6>2 DEF Stores
          <6>3. QED BY <1>1, <5>2, <6>1, <6>2
        <5>7. ASSUME NEW i \in 1 .. Len(c.list) PROVE c.list[i] = answer[Len(holdings') + i]
          <6>1. /\ i + 1 \in 1 .. Len(d.list) /\ c.list[i] = d.list[i + 1]
                /\ Len(holdings) + (i + 1) = Len(holdings') + i
            <7>1. i \in Nat /\ i >= 1 /\ i <= Len(d.list) - 1
              BY <2>5, <5>3
            <7>2. i + 1 \in 1 .. Len(d.list)
              BY <2>5, <7>1
            <7>3. Len(holdings) + (i + 1) = Len(holdings') + i
              BY <1>1, <5>2, <7>1
            <7>4. QED BY <5>3, <7>2, <7>3
          <6>2. d.list[i + 1] = answer[Len(holdings) + (i + 1)]
            BY <5>1, <6>1 DEF Rest
          <6>3. QED BY <6>1, <6>2
        <5>8. Len(holdings') + Len(c.list) = Len(answer) /\ (c.empty <=> answer = <<>>)
          <6>1. Len(holdings) + Len(d.list) = Len(answer) /\ (d.empty <=> answer = <<>>)
            BY <5>1 DEF Rest
          <6>2. Len(holdings') + Len(c.list) = Len(answer)
            <7>1. Len(holdings) \in Nat /\ Len(answer) \in Nat
              BY <1>1
            <7>2. Len(d.list) \in Nat
              BY <2>5
            <7>3. Len(c.list) = Len(d.list) - 1
              BY <5>3
            <7>4. Len(holdings') = Len(holdings) + 1
              BY <5>2
            <7>5. PICK a \in Nat : a = Len(holdings)
              BY <7>1
            <7>6. PICK b \in Nat : b = Len(d.list)
              BY <7>2
            <7>7. PICK e \in Nat : e = Len(answer)
              BY <7>1
            <7>8. a + b = e
              BY <6>1, <7>5, <7>6, <7>7
            <7>9. (a + 1) + (b - 1) = e
              BY <7>8
            <7>10. Len(holdings') = a + 1 /\ Len(c.list) = b - 1
              BY <7>3, <7>4, <7>5, <7>6
            <7>11. QED BY <7>7, <7>9, <7>10
          <6>3. QED BY <2>16, <6>1, <6>2
        <5>9. Rest(c)'
          BY <4>1, <5>6, <5>7, <5>8 DEF Rest
        <5>10. QED BY <2>3, <2>16, <4>1, <5>1, <5>9 DEF AloneAs
      <4>3. QED BY <2>3, <4>1, <4>2, AloneNext
    <3>4. QED BY <2>1, <3>2, <3>3 DEF Calls
  <2>17. CASE BalanceDone(p) /\ c = Idle
    <3>1. /\ d.list = <<>> /\ d.pc = "next" /\ UNCHANGED answer
          /\ holdings' = IF d.update /\ d.empty THEN Append(holdings, 0) ELSE holdings
          /\ solo' = [solo EXCEPT ![p] = FALSE] /\ whole' = (whole \/ solo[p])
      BY <2>1, <2>17 DEF BalanceDone, At, AddHolding
    <3>2. CASE ~d.update
      <4>1. ~solo[p]
        BY <2>1, <2>4, <3>2 DEF AloneAs, Upd
      <4>2. QED BY <2>8, <2>17, <3>1, <3>2, <4>1
    <3>3. CASE d.update
      <4>1. Upd(d) /\ ~whole /\ \A q \in Procs : solo[q] => q = p
        BY <2>14, <3>1, <3>3 DEF Upd
      <4>2. \A q \in Procs : ~solo'[q]
        BY <1>1, <3>1, <4>1
      <4>3. ASSUME solo[p] PROVE Whole' /\ \A q \in Procs : ~Upd(call'[q])
        <5>1. AloneAs(p, d) /\ Rest(d)
          BY <2>1, <2>4, <3>1, <4>3 DEF AloneAs
        <5>2. \A q \in Procs : ~Upd(call'[q])
          BY <2>3, <2>6, <2>17, <5>1 DEF AloneAs
        <5>3. /\ Len(holdings) = Len(answer) /\ (d.empty <=> answer = <<>>)
              /\ \A i \in 1 .. Len(holdings) : Stores(i)
          BY <1>1, <2>5, <3>1, <5>1 DEF Rest
        <5>4. CASE answer = <<>>
          <6>1. holdings = <<>>
            <7>1. Len(holdings) = 0
              BY <2>5, <5>3, <5>4
            <7>2. QED BY <1>1, <7>1, EmptySeq
          <6>2. holdings' = <<0>>
            BY <3>1, <3>3, <5>3, <5>4, <6>1
          <6>3. QED BY <3>1, <5>2, <5>4, <6>2 DEF Whole
        <5>5. CASE answer # <<>>
          <6>1. UNCHANGED <<holdings, answer>>
            BY <3>1, <5>3, <5>5
          <6>2. \A i \in 1 .. Len(holdings) : Stores(i)'
            BY <1>1, <5>3, <6>1, StoresStay
          <6>3. QED BY <5>2, <5>3, <5>5, <6>1, <6>2 DEF Whole
        <5>6. QED BY <5>4, <5>5
      <4>4. QED BY <3>1, <4>1, <4>2, <4>3, AloneNext
    <3>4. QED BY <2>1, <3>2, <3>3 DEF Calls
  <2>18. QED BY <2>2, <2>9, <2>10, <2>11, <2>12, <2>13, <2>15, <2>16, <2>17 DEF Task
<1>6. QED BY <1>3, <1>4, <1>5, Moves

-----------------------------------------------------------------------------
(* Every state of the cache *)

LEMMA CacheInitial == CacheInit => CacheIInv
<1> SUFFICES ASSUME CacheInit PROVE CacheIInv
  OBVIOUS
<1>1. /\ currency = <<>> /\ holdings = <<>> /\ ~whole /\ answer = <<>>
      /\ \A p \in Procs : call[p] = Idle /\ ~solo[p]
  BY DEF CacheInit
<1>2. Len(<<>>) = 0 /\ DOMAIN <<>> = {} /\ (\A S : <<>> \in Seq(S))
  BY EmptySeq
<1>3. CacheTypeOK /\ RowsOK
  <2>1. call \in [Procs -> Calls] /\ solo \in [Procs -> BOOLEAN] /\ whole \in BOOLEAN
    BY IdleFits DEF CacheInit
  <2>2. QED BY <1>1, <1>2, <2>1 DEF CacheTypeOK, RowsOK
<1>4. CallsFit
  BY <1>1, IdleFits DEF CallsFit
<1>5. ~(\E i \in 1 .. Len(holdings) : TRUE)
  BY <1>1, <1>2
<1>6. Knows(Idle) /\ Idle.list = <<>> /\ ~Idle.update
  BY DEF Knows, Idle, NoFrame, Frame
<1>7. IdsInv
  BY <1>1, <1>5, <1>6 DEF IdsInv
<1>8. DoublesInv
  <2> SUFFICES ASSUME NEW t \in Currencies
               PROVE  Cardinality(RowsOf(t)) + Cardinality(Inserting(t)) <= Cardinality(Procs)
    BY DEF DoublesInv
  <2>1. RowsOf(t) = {}
    BY <1>1, <1>2 DEF RowsOf
  <2>2. Inserting(t) = {}
    BY <1>1 DEF Inserting, Waits, Inserts, Idle, NoFrame, Frame
  <2>3. QED BY <1>3, <2>1, <2>2, Finite, FS_EmptySet
<1>9. TimesInv
  <2> SUFFICES ASSUME NEW t \in Currencies
               PROVE  /\ Cardinality(Has(t)) + Cardinality(MayStore(t)) <= Cardinality(Procs)
                      /\ \A p \in Procs : Times(call[p].list, t) <= Cardinality(Procs)
    BY DEF TimesInv
  <2>1. Has(t) = {} /\ MayStore(t) = {}
    BY <1>1, <1>5, <1>6 DEF Has, MayStore, May
  <2>2. Cardinality(Procs) \in Nat /\ Cardinality({}) = 0
    BY <1>3, Finite, FS_EmptySet
  <2>3. Times(<<>>, t) = 0
    BY <1>2, TimesOf
  <2>4. QED BY <1>1, <1>6, <2>1, <2>2, <2>3
<1>10. AloneInv
  BY <1>1 DEF AloneInv
<1>11. QED BY <1>3, <1>4, <1>7, <1>8, <1>9, <1>10 DEF CacheIInv

LEMMA CacheStep == CacheIInv /\ [CacheNext]_cacheVars => CacheIInv'
<1> SUFFICES ASSUME CacheIInv, [CacheNext]_cacheVars PROVE CacheIInv'
  OBVIOUS
<1>1. CacheTypeOK /\ CallsFit /\ IdsInv /\ DoublesInv /\ TimesInv /\ AloneInv
  BY DEF CacheIInv
<1>2. CacheTypeOK'
  BY <1>1, CacheTypeStep
<1>3. CallsFit'
  BY <1>1, CallStep
<1>4. IdsInv'
  BY <1>1, IdsStep
<1>5. DoublesInv'
  BY <1>1, DoublesStep
<1>6. TimesInv'
  BY <1>1, TimesStep
<1>7. AloneInv'
  BY <1>1, AloneStep
<1>8. QED BY <1>2, <1>3, <1>4, <1>5, <1>6, <1>7 DEF CacheIInv

LEMMA CacheInvariance == CacheSpec => []CacheIInv
BY CacheInitial, CacheStep, PTL DEF CacheSpec

LEMMA InvHolds == CacheIInv => CacheInv
<1> SUFFICES ASSUME CacheIInv PROVE CacheInv
  OBVIOUS
<1>1. CacheTypeOK /\ CallsFit /\ IdsInv /\ DoublesInv /\ TimesInv /\ RowsOK
  BY HoldingsAre DEF CacheIInv
<1>2. FewDoubles
  <2> SUFFICES ASSUME NEW t \in Currencies PROVE Cardinality(RowsOf(t)) <= Cardinality(Procs)
    BY DEF FewDoubles
  <2>1. Inserting(t) \in SUBSET Procs
    BY DEF Inserting
  <2>2. /\ Cardinality(RowsOf(t)) \in Nat /\ Cardinality(Inserting(t)) \in Nat
        /\ Cardinality(Procs) \in Nat
    BY <1>1, <2>1, Finite
  <2>3. Cardinality(RowsOf(t)) + Cardinality(Inserting(t)) <= Cardinality(Procs)
    BY <1>1 DEF DoublesInv
  <2>4. QED BY <2>2, <2>3
<1>3. IdsAgree
  <2>1. ASSUME NEW i \in DOMAIN holdings, holdings[i] # 0
        PROVE  holdings[i] = Found(currency[holdings[i]].token)
    <3>1. i \in 1 .. Len(holdings)
      BY <1>1, HoldingsAre
    <3>2. First(holdings[i], currency[holdings[i]].token)
      BY <1>1, <2>1, <3>1 DEF IdsInv
    <3>3. QED BY <1>1, <3>2, FirstIsFound
  <2>2. ASSUME NEW p \in Procs, call[p].cid # 0
        PROVE  call[p].cid = Found(currency[call[p].cid].token)
    <3>1. call[p].pc = "store"
      BY <1>1, <2>2 DEF CallsFit, Fits
    <3>2. First(call[p].cid, call[p].list[1])
      BY <1>1, <3>1 DEF IdsInv, Knows
    <3>3. Found(call[p].list[1]) = call[p].cid /\ currency[call[p].cid].token = call[p].list[1]
      BY <1>1, <3>2, FirstIsFound
    <3>4. QED BY <3>3
  <2>3. QED BY <2>1, <2>2 DEF IdsAgree
<1>4. ListIsBounded
  <2> SUFFICES ASSUME NEW p \in Procs, NEW t \in Currencies
               PROVE  Times(call[p].list, t) <= IF call[p].update THEN 1 ELSE Cardinality(Procs)
    BY DEF ListIsBounded
  <2>1. CASE call[p].update
    <3>1. call[p].list \in Seq(Currencies)
      BY <1>1 DEF CacheTypeOK, Calls
    <3>2. NoRepeats(call[p].list)
      BY <1>1, <2>1 DEF CallsFit, Fits
    <3>3. QED BY <2>1, <3>1, <3>2, TimesOf
  <2>2. CASE ~call[p].update
    BY <1>1, <2>2 DEF TimesInv
  <2>3. QED BY <2>1, <2>2
<1>5. QED BY <1>1, <1>2, <1>3, <1>4 DEF CacheInv

\* The k-th of the stored rows is the k-th of them all when each has a token.
LEMMA PlacesInOrder ==
  ASSUME CacheTypeOK, Filled = 1 .. Len(holdings)
  PROVE  /\ Cardinality(Filled) = Len(holdings)
         /\ \A k \in 1 .. Len(holdings) : Place(k) = k
<1>1. Len(holdings) \in Nat
  BY HoldingsAre
<1>2. \A m \in 0 .. Len(holdings) : Cardinality(1 .. m) = m
  BY <1>1, FS_Interval
<1>3. Cardinality(Filled) = Len(holdings)
  BY <1>1, <1>2
<1>4. ASSUME NEW k \in 1 .. Len(holdings) PROVE Place(k) = k
  <2>1. PICK m : m = Place(k)
    OBVIOUS
  <2>2. m \in 1 .. Len(holdings) /\ Cardinality(UpTo(Filled, m)) = k
    BY <1>3, <2>1, PlaceIs
  <2>3. UpTo(Filled, m) = 1 .. m
    BY <1>1, <2>2 DEF UpTo
  <2>4. Cardinality(1 .. m) = m
    BY <1>1, <1>2, <2>2
  <2>5. QED BY <2>1, <2>2, <2>3, <2>4
<1>5. QED BY <1>3, <1>4

LEMMA WholeIsStored ==
  ASSUME CacheTypeOK, Whole
  PROVE  Stored = answer /\ Len(holdings) = IF answer = <<>> THEN 1 ELSE Len(answer)
<1>1. /\ Stored \in Seq(Currencies) /\ Len(Stored) = Cardinality(Filled)
      /\ answer \in Seq(Currencies) /\ Len(answer) \in Nat
      /\ Len(holdings) \in Nat /\ DOMAIN holdings = 1 .. Len(holdings)
  BY StoredIs, HoldingsAre, LenProperties DEF CacheTypeOK
<1>2. CASE answer = <<>>
  <2>1. holdings = <<0>>
    BY <1>2 DEF Whole
  <2>2. Len(holdings) = 1 /\ Filled = {}
    BY <2>1 DEF Filled
  <2>3. Len(Stored) = 0
    BY <1>1, <2>2, FS_EmptySet
  <2>4. Stored = <<>>
    BY <1>1, <2>3, EmptySeq
  <2>5. QED BY <1>2, <2>2, <2>4
<1>3. CASE answer # <<>>
  <2>1. Len(holdings) = Len(answer) /\ \A i \in 1 .. Len(holdings) : Stores(i)
    BY <1>3 DEF Whole
  <2>2. Filled = 1 .. Len(holdings)
    BY <1>1, <2>1 DEF Filled, Stores
  <2>3. Cardinality(Filled) = Len(holdings) /\ \A k \in 1 .. Len(holdings) : Place(k) = k
    BY <2>2, PlacesInOrder
  <2>4. \A k \in 1 .. Len(holdings) : Stored[k] = currency[holdings[k]].token
    BY <2>3 DEF Stored
  <2>5. \A k \in 1 .. Len(Stored) : Stored[k] = answer[k]
    BY <1>1, <2>1, <2>3, <2>4 DEF Stores
  <2>6. Stored = answer
    BY <1>1, <2>1, <2>3, <2>5, SeqEqual
  <2>7. QED BY <1>3, <2>1, <2>6
<1>4. QED BY <1>2, <1>3

LEMMA StoredHolds == CacheIInv => StoredIsAnswer
<1> SUFFICES ASSUME CacheIInv, whole PROVE Stored = answer /\ Len(holdings) = IF answer = <<>> THEN 1 ELSE Len(answer)
  BY DEF StoredIsAnswer
<1>1. CacheTypeOK /\ Whole
  BY DEF CacheIInv, AloneInv
<1>2. QED BY <1>1, WholeIsStored

\* However many processes look a token up, add it, reprice it and fail in between,
\* a token has no more rows than there are processes, every id that is stored or
\* under way is that of its first row, and no list of holdings counts a token
\* more than once per process, that of a call that updates them not twice.
THEOREM DoublesAreHarmless == CacheSpec => []CacheInv
<1>1. CacheSpec => []CacheIInv
  BY CacheInvariance
<1>2. CacheIInv => CacheInv
  BY InvHolds
<1>3. QED BY <1>1, <1>2, PTL

\* After an update of the holdings that ran to its end with no other beside it,
\* get_wallet_holding_addresses gives the list the site gave, in its order, for
\* any number of readers, price look-ups and failed calls around it.
THEOREM AnswerIsKept == CacheSpec => []StoredIsAnswer
<1>1. CacheSpec => []CacheIInv
  BY CacheInvariance
<1>2. CacheIInv => StoredIsAnswer
  BY StoredHolds
<1>3. QED BY <1>1, <1>2, PTL

-----------------------------------------------------------------------------
(***************************************************************************)
(* TransferChain                                                           *)
(***************************************************************************)

(* What every state keeps to *)

Working == {"token", "approve", "swap", "transfer"}
Calling == {"approve", "swap", "transfer"}

\* What of value the account at hand still holds.
Kept == {t \in worth : owner[t] = From}

\* Which of the two jobs is where.
JobInv ==
  /\ job = "convert" => idx = 1
  /\ pc \in {"approve", "swap"} => job = "convert"
  /\ pc \in {"transfer", "native"} => job = "transfer"
  /\ job = "transfer" /\ pc \notin {"next", "end", "stopped"} => From # Final
  /\ pc = "end" /\ job = "transfer" => idx = Len(Chain)

\* What the run has still to go through belongs to the account at hand; with
\* good answers it is all the account holds.
HoldInv ==
  /\ pc \in Working => \A t \in todo : owner[t] = From
  /\ pc \in Calling => token \in worth \ todo /\ owner[token] = From
  /\ ~doubt /\ pc = "token" => Kept \subseteq todo
  /\ ~doubt /\ pc \in Calling => Kept \subseteq todo \cup {token}
  /\ ~doubt /\ (pc = "native" \/ (pc = "end" /\ job = "convert")) => Kept = {}

\* An allowance that is left is for a token that is still there to be swapped.
AllowInv ==
  /\ job = "transfer" => allowed = {}
  /\ \A t \in allowed : t \in worth /\ owner[t] = path[1]

CountInv ==
  /\ IsFiniteSet(allowed) /\ Cardinality(allowed) <= runs
  /\ pc \notin {"swap", "stopped"} => Cardinality(allowed) <= runs - 1
  /\ pc = "swap" => token \in allowed

\* The accounts the run has passed are empty, but for what one that comes again
\* later on the path has been handed since.
PassedInv ==
  ~doubt /\ job = "transfer" =>
    \A j \in 1 .. idx - 1 :
      path[j] # Final =>
        /\ \A t \in worth : owner[t] # path[j]
        /\ (\A k \in idx .. Len(path) : path[k] # path[j]) => native[path[j]] < NativeFee

IInv == TypeOK /\ NonceIsNext /\ JobInv /\ HoldInv /\ AllowInv /\ CountInv /\ PassedInv
-----------------------------------------------------------------------------
LEMMA Amounts ==
  /\ MaxNative \in Nat /\ NativeFee \in Nat /\ TokenFee \in Nat /\ Proceeds \in Nat
  /\ MaxRuns \in Nat /\ NativeFee > 0 /\ MaxRuns > 0
  /\ Final \in Accounts /\ Pool \notin Accounts /\ Pool # Final
BY TransferAssumption

\* The iterator goes over the path, and then to the last account.
LEMMA ChainOf ==
  ASSUME path \in Paths
  PROVE  /\ Len(path) \in Nat \ {0} /\ Len(Chain) = Len(path) + 1
         /\ \A i \in 1 .. Len(path) : path[i] \in Accounts /\ Chain[i] = path[i]
         /\ Chain[Len(path) + 1] = Final
         /\ \A i \in 1 .. Len(Chain) : Chain[i] \in Accounts
<1>1. path \in Seq(Accounts) /\ path # <<>>
  BY TransferAssumption
<1>2. Len(path) \in Nat \ {0} /\ \A i \in 1 .. Len(path) : path[i] \in Accounts
  BY <1>1, EmptySeq, ElementOfSeq
<1>3. /\ Len(Chain) = Len(path) + 1
      /\ \A i \in 1 .. Len(path) : Chain[i] = path[i]
      /\ Chain[Len(path) + 1] = Final
  BY <1>1, Amounts, AppendProperties DEF Chain
<1>4. \A i \in 1 .. Len(Chain) : Chain[i] \in Accounts
  BY <1>2, <1>3, Amounts
<1>5. QED BY <1>2, <1>3, <1>4

LEMMA AtHand ==
  ASSUME TypeOK
  PROVE  /\ From \in Accounts /\ idx \in Nat \ {0} /\ idx <= Len(path) + 1
         /\ native[From] \in Nat /\ count[From] \in Nat
         /\ idx < Len(Chain) => /\ idx \in 1 .. Len(path) /\ From = path[idx]
                                /\ idx + 1 \in 1 .. Len(Chain) /\ To \in Accounts
                                /\ idx = Len(path) => To = Final
                                /\ idx # Len(path) => To = path[idx + 1]
<1>1. path \in Paths /\ idx \in 1 .. Len(Chain) /\ native \in [Accounts -> Nat] /\ count \in [Accounts -> Nat]
  BY DEF TypeOK
<1>2. /\ Len(path) \in Nat \ {0} /\ Len(Chain) = Len(path) + 1
      /\ \A i \in 1 .. Len(path) : path[i] \in Accounts /\ Chain[i] = path[i]
      /\ Chain[Len(path) + 1] = Final
      /\ \A i \in 1 .. Len(Chain) : Chain[i] \in Accounts
  BY <1>1, ChainOf
<1>3. From \in Accounts /\ idx \in Nat \ {0} /\ idx <= Len(path) + 1
  BY <1>1, <1>2 DEF From
<1>4. ASSUME idx < Len(Chain)
      PROVE  /\ idx \in 1 .. Len(path) /\ From = path[idx]
             /\ idx + 1 \in 1 .. Len(Chain) /\ To \in Accounts
             /\ idx = Len(path) => To = Final
             /\ idx # Len(path) => To = path[idx + 1]
  <2>1. idx \in 1 .. Len(path) /\ idx + 1 \in 1 .. Len(path) + 1 /\ idx + 1 \in 1 .. Len(Chain)
    BY <1>2, <1>3, <1>4
  <2>2. From = path[idx] /\ To \in Accounts /\ (idx = Len(path) => To = Final)
    BY <1>2, <2>1 DEF From, To
  <2>3. idx # Len(path) => To = path[idx + 1]
    <3>1. idx # Len(path) => idx + 1 \in 1 .. Len(path)
      BY <1>2, <2>1
    <3>2. QED BY <1>2, <3>1 DEF To
  <2>4. QED BY <2>1, <2>2, <2>3
<1>5. QED BY <1>1, <1>3, <1>4

\* A transaction is taken with its fee, and counted.
LEMMA MinedType ==
  ASSUME TypeOK, NEW cost \in Int, cost <= native[From], Mined(cost)
  PROVE  /\ native' \in [Accounts -> Nat] /\ count' \in [Accounts -> Nat]
         /\ count'[From] = count[From] + 1
         /\ \A a \in Accounts : native'[a] = IF a = From THEN native[a] - cost ELSE native[a]
<1>1. From \in Accounts /\ native[From] \in Nat /\ count[From] \in Nat
  BY AtHand
<1>2. native[From] - cost \in Nat /\ count[From] + 1 \in Nat
  BY <1>1
<1>3. native' = [native EXCEPT ![From] = native[From] - cost]
      /\ count' = [count EXCEPT ![From] = count[From] + 1]
  BY DEF Mined
<1>4. QED BY <1>1, <1>2, <1>3 DEF TypeOK

\* The native currency goes from one account to the next.
LEMMA HandMoves ==
  ASSUME TypeOK, NEW balance \in Int, Hand(balance)
  PROVE  /\ native' \in [Accounts -> Nat] /\ count' \in [Accounts -> Nat]
         /\ count'[From] = count[From] + 1
         /\ From # To => native'[From] = native[From] - balance
         /\ \A a \in Accounts \ {From, To} : native'[a] = native[a]
         /\ idx < Len(Chain)
<1>1. From \in Accounts /\ native[From] \in Nat /\ count[From] \in Nat /\ idx < Len(Chain) /\ To \in Accounts
  BY AtHand DEF Hand, TypeOK
<1>2. PICK v \in Int : v = balance - NativeFee
  BY Amounts
<1>3. /\ v \in Nat /\ native[From] >= NativeFee + v /\ NativeFee \in Nat
      /\ count' = [count EXCEPT ![From] = count[From] + 1]
      /\ native' = [a \in Accounts |->
                      native[a] + (IF a = To THEN v ELSE 0) - (IF a = From THEN balance ELSE 0)]
  BY <1>2, Amounts DEF Hand, Accepted
<1>4. ASSUME NEW a \in Accounts PROVE native'[a] \in Nat
  <2>1. native[a] \in Nat
    BY DEF TypeOK
  <2>2. native'[a] = native[a] + (IF a = To THEN v ELSE 0) - (IF a = From THEN balance ELSE 0)
    BY <1>3
  <2>3. CASE a = From
    BY <1>1, <1>2, <1>3, <2>2, <2>3
  <2>4. CASE a # From
    BY <1>3, <2>1, <2>2, <2>4
  <2>5. QED BY <2>3, <2>4
<1>5. native' \in [Accounts -> Nat]
  BY <1>3, <1>4
<1>6. count' \in [Accounts -> Nat] /\ count'[From] = count[From] + 1
  BY <1>1, <1>3 DEF TypeOK
<1>7. (From # To => native'[From] = native[From] - balance)
      /\ \A a \in Accounts \ {From, To} : native'[a] = native[a]
  BY <1>1, <1>2, <1>3 DEF TypeOK
<1>8. QED BY <1>1, <1>5, <1>6, <1>7
-----------------------------------------------------------------------------
LEMMA TypeInit == Init => TypeOK
<1> SUFFICES ASSUME Init PROVE TypeOK
  OBVIOUS
<1>1. /\ job \in {"transfer", "convert"} /\ path \in Paths /\ worth \subseteq Tokens
      /\ pc = "next" /\ idx = 1 /\ todo = {} /\ nonce = 0 /\ allowed = {} /\ runs = 1
      /\ owner \in [Tokens -> Accounts]
  BY DEF Init
<1>2. native \in [Accounts -> Nat] /\ count \in [Accounts -> Nat]
  BY Amounts DEF Init
<1>3. token \in Tokens
  BY TransferAssumption DEF Init
<1>4. doubt \in BOOLEAN /\ behind \in BOOLEAN
  BY Zenon DEF Init
<1>5. 1 \in 1 .. Len(Chain) /\ 1 \in 1 .. MaxRuns
  BY <1>1, ChainOf, Amounts
<1>6. owner \in [Tokens -> Accounts \cup {Pool}]
  BY <1>1
<1>7. QED BY <1>1, <1>2, <1>3, <1>4, <1>5, <1>6 DEF TypeOK

\* Nobody changes the job, its path or its limit.
LEMMA FixedStep == [Next]_vars => job' = job /\ path' = path /\ worth' = worth
<1> USE DEF fixed
<1>1. Restart \/ StopIteration \/ NothingToDo \/ NoHoldings \/ NothingToConvert \/ UNCHANGED vars
      => job' = job /\ path' = path /\ worth' = worth
  BY DEF Restart, StopIteration, NothingToDo, NoHoldings, NothingToConvert, Unanswered, vars
<1>2. ASSUME NEW listed, NEW known, Holdings(listed, known)
      PROVE  job' = job /\ path' = path /\ worth' = worth
  BY <1>2 DEF Holdings
<1>3. SendingFails \/ Reverts \/ TransferToken \/ Approve \/ Swap \/ TokensDone
      => job' = job /\ path' = path /\ worth' = worth
  BY DEF SendingFails, Reverts, TransferToken, Approve, Swap, TokensDone, GoesOn
<1>4. ASSUME NEW t, SkipToken(t) \/ SendToken(t) PROVE job' = job /\ path' = path /\ worth' = worth
  BY <1>4 DEF SkipToken, SendToken, TakeToken
<1>5. ASSUME NEW balance, NothingLeft(balance) \/ Hand(balance)
      PROVE  job' = job /\ path' = path /\ worth' = worth
  BY <1>5 DEF NothingLeft, Hand
<1>6. QED BY <1>1, <1>2, <1>3, <1>4, <1>5 DEF Next

\* The account at hand changes with idx only.
LEMMA SameFrom ==
  ASSUME path' = path
  PROVE  Chain' = Chain /\ (idx' = idx => From' = From)
BY DEF Chain, From

\* What a transaction of a token may leave.
LEMMA CallType ==
  ASSUME TypeOK, TransferToken \/ Approve \/ Swap \/ Reverts
  PROVE  /\ native' \in [Accounts -> Nat] /\ count' \in [Accounts -> Nat]
         /\ count'[From] = count[From] + 1 /\ idx' = idx /\ behind' = behind /\ doubt' = doubt
         /\ nonce + 1 = count[From] /\ runs' = runs /\ todo' = todo /\ token' = token
<1>1. ASSUME NEW cost \in Int, NEW f \in Nat, cost <= f, native[From] >= f, Mined(cost)
      PROVE  /\ native' \in [Accounts -> Nat] /\ count' \in [Accounts -> Nat]
             /\ count'[From] = count[From] + 1
  <2>1. cost <= native[From]
    BY <1>1, AtHand
  <2>2. QED BY <1>1, <2>1, MinedType
<1>2. CASE TransferToken \/ Approve
  <2>1. Mined(TokenFee) /\ native[From] >= TokenFee + 0 /\ nonce + 1 = count[From]
    BY <1>2 DEF TransferToken, Approve, Accepted
  <2>2. QED BY <1>1, <1>2, <2>1, Amounts DEF TransferToken, Approve, GoesOn
<1>3. CASE Swap
  <2>1. Mined(TokenFee - Proceeds) /\ native[From] >= TokenFee + 0 /\ nonce + 1 = count[From]
    BY <1>3 DEF Swap, Accepted
  <2>2. TokenFee - Proceeds \in Int /\ TokenFee - Proceeds <= TokenFee
    BY Amounts
  <2>3. QED BY <1>1, <1>3, <2>1, <2>2, Amounts DEF Swap, GoesOn
<1>4. CASE Reverts
  <2>1. Mined(Fee) /\ native[From] >= Fee + 0 /\ nonce + 1 = count[From]
    BY <1>4 DEF Reverts, Accepted
  <2>2. Fee \in Nat
    BY Amounts DEF Fee
  <2>3. QED BY <1>1, <1>4, <2>1, <2>2 DEF Reverts
<1>5. QED BY <1>2, <1>3, <1>4

LEMMA TypeStep == TypeOK /\ [Next]_vars => TypeOK'
<1> SUFFICES ASSUME TypeOK, [Next]_vars PROVE TypeOK'
  OBVIOUS
<1> USE DEF fixed, chain
<1>1. job' = job /\ path' = path /\ worth' = worth /\ Chain' = Chain
  BY FixedStep, SameFrom
<1>2. Len(Chain) \in Nat /\ idx \in Nat \ {0} /\ idx <= Len(Chain)
  BY AtHand, ChainOf DEF TypeOK
\* A step that leaves the chain alone.
<1>3. ASSUME owner' = owner, native' = native, count' = count, allowed' = allowed,
             todo' \subseteq Tokens, token' \in Tokens, nonce' \in Int, runs' \in 1 .. MaxRuns,
             pc' \in {"next", "token", "approve", "swap", "transfer", "native", "end", "stopped"},
             idx' \in 1 .. Len(Chain), doubt' \in BOOLEAN, behind' \in BOOLEAN,
             pc' \notin {"next", "end", "stopped"} => idx' < Len(Chain)
      PROVE  TypeOK'
  <2>1. /\ job' \in {"transfer", "convert"} /\ path' \in Paths /\ worth' \subseteq Tokens
        /\ owner' \in [Tokens -> Accounts \cup {Pool}] /\ allowed' \subseteq Tokens
        /\ native' \in [Accounts -> Nat] /\ count' \in [Accounts -> Nat]
    BY <1>1, <1>3 DEF TypeOK
  <2>2. QED BY <1>1, <1>3, <2>1 DEF TypeOK
<1>4. CASE UNCHANGED vars \/ SendingFails \/ TokensDone
  <2>1. /\ owner' = owner /\ native' = native /\ count' = count /\ allowed' = allowed
        /\ todo' = todo /\ token' = token /\ nonce' = nonce /\ runs' = runs /\ idx' = idx
        /\ doubt' = doubt /\ behind' = behind
        /\ pc' \in {pc, "stopped"} \/ (pc = "token" /\ pc' \in {"native", "end"})
    BY <1>4 DEF vars, SendingFails, TokensDone, Stops
  <2>2. QED BY <1>3, <2>1 DEF TypeOK
<1>5. CASE Restart \/ StopIteration
  <2>1. /\ owner' = owner /\ native' = native /\ count' = count /\ allowed' = allowed
        /\ todo' = todo /\ token' = token /\ nonce' = nonce /\ idx' \in {1, idx}
        /\ pc' \in {"next", "end"}
        /\ runs' = runs \/ (runs < MaxRuns /\ runs' = runs + 1)
    BY <1>5 DEF Restart, StopIteration
  <2>2. doubt' \in BOOLEAN /\ behind' \in BOOLEAN
    BY <1>5, Zenon DEF Restart, StopIteration, TypeOK
  <2>3. runs' \in 1 .. MaxRuns /\ idx' \in 1 .. Len(Chain)
    BY <1>2, <2>1, Amounts DEF TypeOK
  <2>4. QED BY <1>3, <2>1, <2>2, <2>3 DEF TypeOK
<1>6. CASE NothingToDo \/ NoHoldings \/ NothingToConvert
  <2>1. /\ owner' = owner /\ native' = native /\ count' = count /\ allowed' = allowed
        /\ todo' = todo /\ token' = token /\ nonce' = nonce /\ runs' = runs /\ behind' = behind
        /\ idx < Len(Chain) /\ idx' \in {idx, idx + 1} /\ pc' \in {"next", "stopped"}
    BY <1>6 DEF NothingToDo, NoHoldings, NothingToConvert, Unanswered, NextAccount, Stops, Asks, AtAccount
  <2>2. doubt' \in BOOLEAN
    BY <1>6, Zenon DEF NothingToDo, NoHoldings, NothingToConvert, Unanswered, TypeOK
  <2>3. idx' \in 1 .. Len(Chain)
    BY <1>2, <2>1
  <2>4. QED BY <1>3, <2>1, <2>2, <2>3 DEF TypeOK
<1>7. ASSUME NEW listed \in SUBSET Held, NEW known \in Late(count[From]), Holdings(listed, known)
      PROVE  TypeOK'
  <2>1. /\ owner' = owner /\ native' = native /\ count' = count /\ allowed' = allowed
        /\ todo' = listed /\ token' = token /\ nonce' = known - 1 /\ runs' = runs
        /\ idx < Len(Chain) /\ idx' = idx /\ pc' = "token"
    BY <1>7 DEF Holdings, Asks, AtAccount
  <2>2. doubt' \in BOOLEAN /\ behind' \in BOOLEAN
    BY <1>7, Zenon DEF Holdings
  <2>3. listed \subseteq Tokens /\ known - 1 \in Int
    BY DEF Held, Late
  <2>4. QED BY <1>3, <2>1, <2>2, <2>3 DEF TypeOK
<1>8. ASSUME NEW t \in Tokens, SkipToken(t) \/ SendToken(t) PROVE TypeOK'
  <2>1. /\ owner' = owner /\ native' = native /\ count' = count /\ allowed' = allowed
        /\ todo' = todo \ {t} /\ token' = t /\ nonce' = nonce /\ runs' = runs
        /\ idx' = idx /\ doubt' = doubt /\ behind' = behind
        /\ pc = "token" /\ pc' \in {"token", "transfer", "approve"}
    BY <1>8 DEF SkipToken, SendToken, TakeToken
  <2>2. QED BY <1>3, <2>1 DEF TypeOK
<1>9. ASSUME NEW balance, NothingLeft(balance) PROVE TypeOK'
  <2>1. /\ owner' = owner /\ native' = native /\ count' = count /\ allowed' = allowed
        /\ todo' = todo /\ token' = token /\ nonce' = nonce /\ runs' = runs /\ behind' = behind
        /\ pc = "native" /\ pc' = "next" /\ idx' = idx + 1
    BY <1>9 DEF NothingLeft, NextAccount
  <2>2. doubt' \in BOOLEAN
    BY <1>9, Zenon DEF NothingLeft
  <2>3. idx' \in 1 .. Len(Chain)
    BY <1>2, <2>1 DEF TypeOK
  <2>4. QED BY <1>3, <2>1, <2>2, <2>3 DEF TypeOK
<1>10. ASSUME NEW balance \in Int, Hand(balance) PROVE TypeOK'
  <2>1. /\ owner' = owner /\ allowed' = allowed /\ todo' = todo /\ token' = token
        /\ nonce' = nonce + 1 /\ runs' = runs /\ behind' = behind
        /\ pc' \in {"next", "stopped"} /\ idx' \in {idx, idx + 1}
    BY <1>10 DEF Hand, NextAccount, Stops
  <2>2. native' \in [Accounts -> Nat] /\ count' \in [Accounts -> Nat] /\ idx < Len(Chain)
    BY <1>10, HandMoves
  <2>3. doubt' \in BOOLEAN
    BY <1>10, Zenon DEF Hand
  <2>4. idx' \in 1 .. Len(Chain)
    BY <1>2, <2>1, <2>2
  <2>5. QED BY <1>1, <2>1, <2>2, <2>3, <2>4 DEF TypeOK
<1>11. CASE TransferToken \/ Approve \/ Swap \/ Reverts
  <2>1. /\ native' \in [Accounts -> Nat] /\ count' \in [Accounts -> Nat]
        /\ idx' = idx /\ behind' = behind /\ doubt' = doubt
        /\ runs' = runs /\ todo' = todo /\ token' = token
    BY <1>11, CallType
  <2>2. owner' \in [Tokens -> Accounts \cup {Pool}]
    BY <1>11, Amounts DEF TransferToken, Approve, Swap, Reverts, TypeOK
  <2>3. /\ allowed' \subseteq Tokens /\ nonce' \in Int
        /\ pc \in {"transfer", "approve", "swap", "native"} /\ pc' \in {"token", "swap", "stopped"}
    BY <1>11 DEF TransferToken, Approve, Swap, Reverts, GoesOn, Stops, TypeOK
  <2>4. QED BY <1>1, <2>1, <2>2, <2>3 DEF TypeOK
<1>12. \A balance \in {native[From], 0, MaxNative} : balance \in Int
  BY AtHand, Amounts
<1>13. QED BY <1>4, <1>5, <1>6, <1>7, <1>8, <1>9, <1>10, <1>11, <1>12 DEF Next
-----------------------------------------------------------------------------
\* Every transaction the run goes on after is counted twice, here and on the chain.
LEMMA NonceStep == TypeOK /\ NonceIsNext /\ [Next]_vars => NonceIsNext'
<1> SUFFICES ASSUME TypeOK, NonceIsNext, [Next]_vars,
                    pc' \in Working \cup {"native"}, ~behind'
             PROVE  nonce' + 1 = count'[From']
  BY DEF NonceIsNext, Working
<1> USE DEF fixed, chain
<1>1. path' = path /\ (idx' = idx => From' = From)
  BY FixedStep, SameFrom
<1>2. ASSUME nonce' = nonce, count' = count, idx' = idx, behind' = behind,
             pc \in Working \cup {"native"}
      PROVE  nonce' + 1 = count'[From']
  BY <1>1, <1>2 DEF NonceIsNext, Working
<1>3. CASE UNCHANGED vars
  BY <1>2, <1>3 DEF vars
<1>4. CASE TokensDone \/ \E t \in Tokens : SkipToken(t) \/ SendToken(t)
  BY <1>2, <1>4 DEF TokensDone, SkipToken, SendToken, TakeToken, Working
<1>5. ASSUME NEW listed \in SUBSET Held, NEW known \in Late(count[From]), Holdings(listed, known)
      PROVE  nonce' + 1 = count'[From']
  <2>1. /\ count' = count /\ idx' = idx /\ nonce' = known - 1 /\ (behind' <=> known # count[From])
    BY <1>5 DEF Holdings
  <2>2. known = count[From] /\ known \in Int
    BY <2>1, AtHand
  <2>3. QED BY <1>1, <2>1, <2>2
<1>6. CASE TransferToken \/ Approve \/ Swap
  <2>1. /\ count'[From] = count[From] + 1 /\ idx' = idx /\ nonce + 1 = count[From]
    BY <1>6, CallType
  <2>2. nonce' = nonce + 1
    BY <1>6 DEF TransferToken, Approve, Swap, GoesOn
  <2>3. QED BY <1>1, <2>1, <2>2
<1>7. ~(Restart \/ StopIteration \/ NothingToDo \/ NoHoldings \/ NothingToConvert)
  BY DEF Restart, StopIteration, NothingToDo, NoHoldings, NothingToConvert, Unanswered,
         NextAccount, Stops, Working
<1>8. ~(SendingFails \/ Reverts) /\ \A balance : ~NothingLeft(balance) /\ ~Hand(balance)
  BY DEF SendingFails, Reverts, NothingLeft, Hand, NextAccount, Stops, Working
<1>9. QED BY <1>3, <1>4, <1>5, <1>6, <1>7, <1>8 DEF Next

LEMMA JobStep == TypeOK /\ JobInv /\ [Next]_vars => JobInv'
<1> SUFFICES ASSUME TypeOK, JobInv, [Next]_vars PROVE JobInv'
  OBVIOUS
<1> USE DEF fixed, chain
<1>1. /\ job' = job /\ path' = path /\ Chain' = Chain /\ (idx' = idx => From' = From)
  BY FixedStep, SameFrom
<1>2. CASE UNCHANGED vars \/ SendingFails \/ Reverts
  BY <1>1, <1>2 DEF vars, SendingFails, Reverts, Stops, JobInv
<1>3. CASE Restart \/ StopIteration
  BY <1>1, <1>3 DEF Restart, StopIteration, JobInv
<1>4. CASE NothingToDo \/ NoHoldings
  BY <1>1, <1>4 DEF NothingToDo, Arrived, NoHoldings, Unanswered, NextAccount, JobInv, TypeOK
<1>5. CASE NothingToConvert
  BY <1>1, <1>5 DEF NothingToConvert, Unanswered, Stops, JobInv
<1>6. ASSUME NEW listed, NEW known, Holdings(listed, known) PROVE JobInv'
  BY <1>1, <1>6 DEF Holdings, Asks, Arrived, JobInv
<1>7. ASSUME NEW t, SkipToken(t) \/ SendToken(t) PROVE JobInv'
  BY <1>1, <1>7 DEF SkipToken, SendToken, TakeToken, JobInv, TypeOK
<1>8. CASE TransferToken \/ Approve \/ Swap
  BY <1>1, <1>8 DEF TransferToken, Approve, Swap, GoesOn, JobInv
<1>9. CASE TokensDone
  BY <1>1, <1>9 DEF TokensDone, JobInv
<1>10. ASSUME NEW balance, NothingLeft(balance) \/ Hand(balance) PROVE JobInv'
  <2>1. job = "transfer" /\ pc' \in {"next", "stopped"}
    BY <1>10 DEF NothingLeft, Hand, NextAccount, Stops, JobInv
  <2>2. QED BY <1>1, <2>1 DEF JobInv
<1>11. QED BY <1>2, <1>3, <1>4, <1>5, <1>6, <1>7, <1>8, <1>9, <1>10 DEF Next

LEMMA HoldStep == TypeOK /\ JobInv /\ HoldInv /\ [Next]_vars => HoldInv'
<1> SUFFICES ASSUME TypeOK, JobInv, HoldInv, [Next]_vars PROVE HoldInv'
  OBVIOUS
<1> USE DEF fixed, chain, Working, Calling
<1>1. /\ job' = job /\ worth' = worth /\ path' = path /\ (idx' = idx => From' = From)
      /\ JobInv'
  BY FixedStep, SameFrom, JobStep
<1>2. (idx' = idx /\ owner' = owner) => Kept' = Kept
  BY <1>1 DEF Kept
<1>3. CASE UNCHANGED vars
  BY <1>1, <1>2, <1>3 DEF vars, HoldInv
\* A step between two accounts.
<1>4. ASSUME pc' \in {"next", "stopped"} PROVE HoldInv'
  BY <1>4 DEF HoldInv
<1>5. CASE Restart \/ NothingToDo \/ NoHoldings \/ NothingToConvert \/ SendingFails \/ Reverts
           \/ \E balance \in {native[From], 0, MaxNative} : NothingLeft(balance) \/ Hand(balance)
  BY <1>4, <1>5 DEF Restart, NothingToDo, NoHoldings, NothingToConvert, Unanswered, SendingFails,
     Reverts, NothingLeft, Hand, NextAccount, Stops
<1>6. CASE StopIteration
  <2>1. job # "convert" /\ pc' = "end"
    BY <1>6, ChainOf DEF StopIteration, JobInv, TypeOK
  <2>2. QED BY <1>1, <2>1 DEF HoldInv
<1>7. ASSUME NEW listed \in SUBSET Held, NEW known, Holdings(listed, known) PROVE HoldInv'
  <2>1. /\ pc' = "token" /\ idx' = idx /\ owner' = owner /\ todo' = listed
        /\ ~doubt' => listed = Held
    BY <1>7 DEF Holdings
  <2>2. (\A t \in listed : owner[t] = From) /\ Kept \subseteq Held
    BY DEF Held, Kept, TypeOK
  <2>3. QED BY <1>1, <1>2, <2>1, <2>2 DEF HoldInv
<1>8. ASSUME NEW t \in Tokens, SkipToken(t) \/ SendToken(t) PROVE HoldInv'
  <2>1. /\ pc = "token" /\ t \in todo /\ todo' = todo \ {t} /\ token' = t /\ idx' = idx
        /\ owner' = owner /\ doubt' = doubt
    BY <1>8 DEF SkipToken, SendToken, TakeToken
  <2>2. CASE SkipToken(t)
    <3>1. pc' = "token" /\ t \notin Kept
      BY <2>2 DEF SkipToken, Kept
    <3>2. QED BY <1>1, <1>2, <2>1, <3>1 DEF HoldInv
  <2>3. CASE SendToken(t)
    <3>1. pc' \in Calling /\ t \in worth
      BY <2>3 DEF SendToken
    <3>2. QED BY <1>1, <1>2, <2>1, <3>1 DEF HoldInv
  <2>4. QED BY <1>8, <2>2, <2>3
<1>9. CASE Approve
  <2>1. /\ pc \in Calling /\ pc' \in {"swap", "stopped"} /\ idx' = idx /\ owner' = owner
        /\ doubt' = doubt /\ todo' = todo /\ token' = token
    BY <1>9 DEF Approve, GoesOn
  <2>2. QED BY <1>1, <1>2, <2>1 DEF HoldInv
<1>10. CASE TransferToken \/ Swap
  <2>1. /\ pc \in Calling /\ pc' \in {"token", "stopped"} /\ idx' = idx
        /\ doubt' = doubt /\ todo' = todo /\ token' = token
        /\ \E a \in {Final, Pool} : a # From /\ owner' = [owner EXCEPT ![token] = a]
    <3>1. CASE TransferToken
      <4>1. From # Final
        BY <3>1 DEF TransferToken, JobInv
      <4>2. QED BY <3>1, <4>1 DEF TransferToken, GoesOn
    <3>2. CASE Swap
      <4>1. From # Pool
        BY AtHand, Amounts
      <4>2. QED BY <3>2, <4>1 DEF Swap, GoesOn
    <3>3. QED BY <1>10, <3>1, <3>2
  <2>2. PICK a : a # From /\ owner' = [owner EXCEPT ![token] = a]
    BY <2>1
  <2>3. \A t \in Tokens : owner'[t] = IF t = token THEN a ELSE owner[t]
    BY <2>2 DEF TypeOK
  <2>4. Kept' = Kept \ {token}
    BY <1>1, <2>1, <2>2, <2>3 DEF Kept, TypeOK
  <2>5. \A t \in todo : t \in Tokens /\ t # token /\ owner[t] = From
    BY <2>1 DEF HoldInv, TypeOK
  <2>6. QED BY <1>1, <2>1, <2>3, <2>4, <2>5 DEF HoldInv
<1>11. CASE TokensDone
  <2>1. /\ pc = "token" /\ todo = {} /\ pc' \in {"native", "end"} /\ idx' = idx /\ owner' = owner
        /\ doubt' = doubt
    BY <1>11 DEF TokensDone
  <2>2. QED BY <1>1, <1>2, <2>1 DEF HoldInv
<1>12. QED BY <1>3, <1>5, <1>6, <1>7, <1>8, <1>9, <1>10, <1>11 DEF Next

\* Only Approve, Swap and TransferToken touch owners and allowances.
LEMMA ChainSteps ==
  ASSUME [Next]_vars
  PROVE  (owner' = owner /\ allowed' = allowed) \/ Approve \/ Swap \/ TransferToken
<1> USE DEF fixed, chain
<1>1. UNCHANGED vars \/ Restart \/ StopIteration \/ NothingToDo \/ NoHoldings \/ NothingToConvert
      => owner' = owner /\ allowed' = allowed
  BY DEF vars, Restart, StopIteration, NothingToDo, NoHoldings, NothingToConvert, Unanswered
<1>2. ASSUME NEW listed, NEW known, Holdings(listed, known)
      PROVE  owner' = owner /\ allowed' = allowed
  BY <1>2 DEF Holdings
<1>3. SendingFails \/ Reverts \/ TokensDone => owner' = owner /\ allowed' = allowed
  BY DEF SendingFails, Reverts, TokensDone
<1>4. ASSUME NEW t, SkipToken(t) \/ SendToken(t) PROVE owner' = owner /\ allowed' = allowed
  BY <1>4 DEF SkipToken, SendToken, TakeToken
<1>5. ASSUME NEW balance, NothingLeft(balance) \/ Hand(balance) PROVE owner' = owner /\ allowed' = allowed
  BY <1>5 DEF NothingLeft, Hand
<1>6. QED BY <1>1, <1>2, <1>3, <1>4, <1>5 DEF Next

\* A swap uses up its own allowance, and nothing else moves the token.
LEMMA AllowStep == TypeOK /\ JobInv /\ HoldInv /\ AllowInv /\ [Next]_vars => AllowInv'
<1> SUFFICES ASSUME TypeOK, JobInv, HoldInv, AllowInv, [Next]_vars PROVE AllowInv'
  OBVIOUS
<1>1. job' = job /\ worth' = worth /\ path' = path
  BY FixedStep
<1>2. CASE owner' = owner /\ allowed' = allowed
  BY <1>1, <1>2 DEF AllowInv
<1>3. CASE Approve
  <2>1. /\ job = "convert" /\ idx = 1 /\ token \in worth /\ owner[token] = From
        /\ owner' = owner /\ allowed' = allowed \cup {token}
    BY <1>3 DEF Approve, JobInv, HoldInv, Calling
  <2>2. From = path[1]
    <3>1. 1 < Len(Chain)
      BY ChainOf DEF TypeOK
    <3>2. QED BY <2>1, <3>1, AtHand
  <2>3. QED BY <1>1, <2>1, <2>2 DEF AllowInv
<1>4. CASE Swap
  <2>1. /\ job = "convert" /\ allowed' = allowed \ {token}
        /\ owner' = [owner EXCEPT ![token] = Pool]
    BY <1>4 DEF Swap, JobInv
  <2>2. \A t \in allowed' : t \in Tokens /\ owner'[t] = owner[t]
    BY <2>1 DEF TypeOK
  <2>3. QED BY <1>1, <2>1, <2>2 DEF AllowInv
<1>5. CASE TransferToken
  <2>1. job = "transfer" /\ allowed' = allowed
    BY <1>5 DEF TransferToken, JobInv
  <2>2. QED BY <1>1, <2>1 DEF AllowInv
<1>6. QED BY <1>2, <1>3, <1>4, <1>5, ChainSteps

\* A run gives one allowance more than its swaps have used up, when it stops.
LEMMA CountStep == TypeOK /\ CountInv /\ [Next]_vars => CountInv'
<1> SUFFICES ASSUME TypeOK, CountInv, [Next]_vars PROVE CountInv'
  OBVIOUS
<1> USE DEF fixed, chain
<1>1. /\ IsFiniteSet(allowed) /\ Cardinality(allowed) \in Nat /\ Cardinality(allowed) <= runs
      /\ runs \in Nat
  BY FS_CardinalityType DEF CountInv, TypeOK
<1>2. ASSUME allowed' = allowed, runs' = runs, pc' # "swap", pc \notin {"swap", "stopped"} \/ pc' = "stopped"
      PROVE  CountInv'
  BY <1>1, <1>2 DEF CountInv
<1>3. CASE UNCHANGED vars
  BY <1>3 DEF vars, CountInv
<1>4. CASE Restart
  <2>1. allowed' = allowed /\ runs' = runs + 1 /\ pc' = "next"
    BY <1>4 DEF Restart
  <2>2. QED BY <1>1, <2>1 DEF CountInv
<1>5. CASE StopIteration \/ NothingToDo \/ NoHoldings \/ NothingToConvert
  BY <1>2, <1>5 DEF StopIteration, NothingToDo, NoHoldings, NothingToConvert, Unanswered, Asks,
     AtAccount, NextAccount, Stops
<1>6. ASSUME NEW listed, NEW known, Holdings(listed, known) PROVE CountInv'
  BY <1>2, <1>6 DEF Holdings, Asks, AtAccount
<1>7. CASE SendingFails \/ Reverts \/ TokensDone
  BY <1>2, <1>7 DEF SendingFails, Reverts, TokensDone, Stops
<1>8. ASSUME NEW t, SkipToken(t) \/ SendToken(t) PROVE CountInv'
  BY <1>2, <1>8 DEF SkipToken, SendToken, TakeToken
<1>9. CASE TransferToken
  BY <1>2, <1>9 DEF TransferToken, GoesOn
<1>10. ASSUME NEW balance, NothingLeft(balance) \/ Hand(balance) PROVE CountInv'
  BY <1>2, <1>10 DEF NothingLeft, Hand, NextAccount, Stops
<1>11. CASE Approve
  <2>1. /\ pc = "approve" /\ allowed' = allowed \cup {token} /\ runs' = runs /\ token' = token
        /\ pc' \in {"swap", "stopped"}
    BY <1>11 DEF Approve, GoesOn
  <2>2. IsFiniteSet(allowed') /\ Cardinality(allowed') <= Cardinality(allowed) + 1
    BY <1>1, <2>1, FS_AddElement
  <2>3. Cardinality(allowed') \in Nat
    BY <2>2, FS_CardinalityType
  <2>4. Cardinality(allowed) <= runs - 1
    BY <2>1 DEF CountInv
  <2>5. QED BY <1>1, <2>1, <2>2, <2>3, <2>4 DEF CountInv
<1>12. CASE Swap
  <2>1. /\ pc = "swap" /\ allowed' = allowed \ {token} /\ runs' = runs /\ token \in allowed
        /\ pc' \in {"token", "stopped"}
    BY <1>12 DEF Swap, GoesOn, CountInv
  <2>2. IsFiniteSet(allowed') /\ Cardinality(allowed') = Cardinality(allowed) - 1
    BY <1>1, <2>1, FS_RemoveElement
  <2>3. QED BY <1>1, <2>1, <2>2 DEF CountInv
<1>13. QED BY <1>3, <1>4, <1>5, <1>6, <1>7, <1>8, <1>9, <1>10, <1>11, <1>12 DEF Next

\* The native currency moves on along the path, and no token moves back.
LEMMA PassedStep == TypeOK /\ JobInv /\ HoldInv /\ PassedInv /\ [Next]_vars => PassedInv'
<1> SUFFICES ASSUME TypeOK, JobInv, HoldInv, PassedInv, [Next]_vars, ~doubt', job' = "transfer",
                    NEW j \in 1 .. idx' - 1, path'[j] # Final
             PROVE  /\ \A t \in worth' : owner'[t] # path'[j]
                    /\ (\A k \in idx' .. Len(path') : path'[k] # path'[j])
                       => native'[path'[j]] < NativeFee
  BY DEF PassedInv
<1> USE DEF fixed, chain
<1>1. job = "transfer" /\ job' = job /\ path' = path /\ worth' = worth /\ path[j] # Final
  BY FixedStep
<1>2. /\ idx \in Nat \ {0} /\ Len(path) \in Nat \ {0} /\ Len(Chain) = Len(path) + 1
      /\ \A i \in 1 .. Len(path) : path[i] \in Accounts
      /\ From \in Accounts /\ NativeFee \in Nat /\ NativeFee > 0
  BY AtHand, ChainOf, Amounts DEF TypeOK
<1>3. ASSUME ~doubt, idx' = idx
      PROVE  /\ j \in 1 .. idx - 1 /\ \A t \in worth : owner[t] # path[j]
             /\ (\A k \in idx .. Len(path) : path[k] # path[j]) => native[path[j]] < NativeFee
  BY <1>1, <1>3 DEF PassedInv
<1>4. ASSUME ~doubt, idx' = idx, owner' = owner, native' = native
      PROVE  /\ \A t \in worth' : owner'[t] # path'[j]
             /\ (\A k \in idx' .. Len(path') : path'[k] # path'[j]) => native'[path'[j]] < NativeFee
  BY <1>1, <1>3, <1>4
<1>5. CASE UNCHANGED vars \/ StopIteration \/ SendingFails \/ TokensDone
           \/ \E t \in Tokens : SkipToken(t) \/ SendToken(t)
  <2>1. ~doubt /\ idx' = idx /\ owner' = owner /\ native' = native
    <3>1. CASE UNCHANGED vars \/ StopIteration \/ SendingFails \/ TokensDone
      BY <3>1 DEF vars, StopIteration, SendingFails, TokensDone
    <3>2. CASE \E t \in Tokens : SkipToken(t) \/ SendToken(t)
      BY <3>2 DEF SkipToken, SendToken, TakeToken
    <3>3. QED BY <1>5, <3>1, <3>2
  <2>2. QED BY <1>4, <2>1
<1>6. ASSUME NEW listed, NEW known, Holdings(listed, known)
      PROVE  ~doubt /\ idx' = idx /\ owner' = owner /\ native' = native
  BY <1>6 DEF Holdings
<1>7. ~Restart
  BY <1>2 DEF Restart
<1>8. ~NoHoldings /\ ~NothingToConvert
  BY DEF NoHoldings, NothingToConvert, Unanswered
\* A call of a token costs the account at hand, which is still on the path.
<1>9. CASE TransferToken \/ Approve \/ Swap \/ Reverts
  <2>1. ~doubt /\ idx' = idx /\ idx < Len(Chain)
    BY <1>9, CallType DEF TransferToken, Approve, Swap, Reverts, TypeOK
  <2>2. idx \in 1 .. Len(path) /\ From = path[idx] /\ path[j] \in Accounts
    BY <1>2, <1>3, <2>1, AtHand
  <2>3. native'[path[j]] = native[path[j]] \/ path[j] = From
    BY <1>9, <2>2 DEF TransferToken, Approve, Swap, Reverts, Mined, TypeOK
  <2>4. \A t \in worth : owner'[t] = owner[t] \/ owner'[t] = Final
    BY <1>1, <1>9 DEF TransferToken, Approve, Swap, Reverts, JobInv, TypeOK
  <2>5. (\A k \in idx .. Len(path) : path[k] # path[j]) => path[j] # From
    BY <1>2, <2>2
  <2>6. QED BY <1>1, <1>3, <2>1, <2>3, <2>4, <2>5
\* The account that has just been passed, and those before it.
<1>10. ASSUME ~doubt, idx' = idx + 1, owner' = owner, idx \in 1 .. Len(path), From = path[idx]
       PROVE  /\ j \in 1 .. Len(path) /\ path[j] \in Accounts
              /\ j # idx => /\ \A t \in worth : owner[t] # path[j]
                            /\ path[j] # From /\ (\A k \in idx' .. Len(path) : path[k] # path[j])
                               => native[path[j]] < NativeFee
  <2>1. j \in 1 .. Len(path) /\ (j # idx => j \in 1 .. idx - 1)
    BY <1>2, <1>10
  <2>2. ASSUME j # idx
        PROVE  /\ \A t \in worth : owner[t] # path[j]
               /\ path[j] # From /\ (\A k \in idx' .. Len(path) : path[k] # path[j])
                  => native[path[j]] < NativeFee
    <3>1. /\ \A t \in worth : owner[t] # path[j]
          /\ (\A k \in idx .. Len(path) : path[k] # path[j]) => native[path[j]] < NativeFee
      BY <1>1, <1>10, <2>1, <2>2 DEF PassedInv
    <3>2. ASSUME path[j] # From, \A k \in idx' .. Len(path) : path[k] # path[j]
          PROVE  \A k \in idx .. Len(path) : path[k] # path[j]
      <4>1. \A k \in idx .. Len(path) : k = idx \/ k \in idx' .. Len(path)
        BY <1>2, <1>10
      <4>2. QED BY <1>10, <3>2, <4>1
    <3>3. QED BY <3>1, <3>2
  <2>3. QED BY <1>2, <2>1, <2>2
<1>11. CASE NothingToDo
  <2>1. ~doubt /\ idx' = idx + 1 /\ owner' = owner /\ native' = native /\ From = Final /\ idx < Len(Chain)
    BY <1>11 DEF NothingToDo, NextAccount, AtAccount, Arrived
  <2>2. idx \in 1 .. Len(path) /\ From = path[idx]
    BY <2>1, AtHand
  <2>3. j # idx /\ path[j] # From
    BY <1>1, <2>1, <2>2
  <2>4. QED BY <1>1, <1>10, <2>1, <2>2, <2>3
<1>12. ASSUME NEW balance \in Int, NothingLeft(balance)
       PROVE  /\ \A t \in worth' : owner'[t] # path'[j]
              /\ (\A k \in idx' .. Len(path') : path'[k] # path'[j]) => native'[path'[j]] < NativeFee
  <2>1. /\ pc = "native" /\ ~doubt /\ idx' = idx + 1 /\ owner' = owner /\ native' = native
        /\ native[From] < NativeFee
    BY <1>12 DEF NothingLeft, NextAccount
  <2>2. idx \in 1 .. Len(path) /\ From = path[idx]
    BY <2>1, AtHand DEF TypeOK
  <2>3. \A t \in worth : owner[t] # From
    BY <2>1 DEF HoldInv, Kept
  <2>4. QED BY <1>1, <1>10, <2>1, <2>2, <2>3
<1>13. ASSUME NEW balance \in Int, Hand(balance)
       PROVE  /\ \A t \in worth' : owner'[t] # path'[j]
              /\ (\A k \in idx' .. Len(path') : path'[k] # path'[j]) => native'[path'[j]] < NativeFee
  <2>1. /\ pc = "native" /\ ~doubt /\ balance = native[From] /\ owner' = owner
        /\ idx' \in {idx, idx + 1}
    BY <1>13 DEF Hand, NextAccount
  <2>2. /\ \A a \in Accounts \ {From, To} : native'[a] = native[a]
        /\ From # To => native'[From] = native[From] - balance
        /\ idx < Len(Chain)
    BY <1>13, HandMoves
  <2>3. /\ idx \in 1 .. Len(path) /\ From = path[idx]
        /\ To = Final \/ (idx + 1 \in 1 .. Len(path) /\ To = path[idx + 1])
    BY <1>2, <2>2, AtHand
  <2>4. \A t \in worth : owner[t] # From
    BY <2>1 DEF HoldInv, Kept
  <2>5. CASE idx' = idx
    <3>1. j \in 1 .. Len(path) /\ path[j] \in Accounts
      BY <1>2, <1>3, <2>1, <2>3, <2>5
    <3>2. ASSUME \A k \in idx .. Len(path) : path[k] # path[j] PROVE path[j] \notin {From, To}
      BY <1>1, <1>2, <2>3, <3>2
    <3>3. QED BY <1>1, <1>3, <2>1, <2>2, <2>5, <3>1, <3>2
  <2>6. CASE idx' = idx + 1
    <3>1. ASSUME \A k \in idx' .. Len(path) : path[k] # path[j] PROVE path[j] # To
      BY <1>1, <1>2, <2>3, <2>6, <3>1
    <3>2. CASE path[j] = From
      <4>1. native[From] \in Nat
        BY AtHand
      <4>2. To # From => native'[path[j]] = 0
        BY <2>1, <2>2, <3>2, <4>1
      <4>3. QED BY <1>1, <1>2, <2>1, <2>4, <3>1, <3>2, <4>2
    <3>3. CASE path[j] # From
      <4>1. j # idx /\ path[j] \in Accounts
        BY <1>10, <2>1, <2>3, <2>6, <3>3
      <4>2. QED BY <1>1, <1>10, <2>1, <2>2, <2>3, <2>6, <3>1, <3>3, <4>1
    <3>4. QED BY <3>2, <3>3
  <2>7. QED BY <2>1, <2>5, <2>6
<1>14. \A balance \in {native[From], 0, MaxNative} : balance \in Int
  BY AtHand, Amounts
<1>15. QED BY <1>4, <1>5, <1>6, <1>7, <1>8, <1>9, <1>11, <1>12, <1>13, <1>14 DEF Next
-----------------------------------------------------------------------------
LEMMA InvInit == Init => IInv
<1> SUFFICES ASSUME Init PROVE IInv
  OBVIOUS
<1>1. TypeOK
  BY TypeInit
<1>2. pc = "next" /\ idx = 1 /\ allowed = {} /\ runs = 1
  BY DEF Init
<1>3. NonceIsNext /\ JobInv /\ HoldInv /\ AllowInv
  BY <1>2 DEF NonceIsNext, JobInv, HoldInv, AllowInv, Working, Calling
<1>4. CountInv
  BY <1>2, FS_EmptySet DEF CountInv
<1>5. PassedInv
  BY <1>2 DEF PassedInv
<1>6. QED BY <1>1, <1>3, <1>4, <1>5 DEF IInv

LEMMA InvStep == IInv /\ [Next]_vars => IInv'
BY TypeStep, NonceStep, JobStep, HoldStep, AllowStep, CountStep, PassedStep DEF IInv

LEMMA Invariance == Spec => []IInv
BY InvInit, InvStep, PTL DEF Spec

\* For any accounts, tokens and fees: the types hold, and only a late transaction
\* count makes a node refuse.
THEOREM NoncesKeepStep == Spec => []Inv
<1>1. IInv => Inv
  BY DEF IInv, Inv
<1>2. QED BY <1>1, Invariance, PTL

\* Along any path a run that ends with good answers leaves no token of value and
\* no more native currency than a transfer costs, wherever an earlier run was cut off.
THEOREM NothingIsLeft == Spec => []AllArrives
<1>1. IInv => AllArrives
  <2> SUFFICES ASSUME IInv, pc = "end", ~doubt PROVE AllArrives
    BY DEF AllArrives
  <2>1. /\ job \in {"convert", "transfer"} /\ Len(path) \in Nat \ {0} /\ Len(Chain) = Len(path) + 1
    BY ChainOf DEF IInv, TypeOK
  <2>2. CASE job = "convert"
    <3>1. idx = 1 /\ Kept = {}
      BY <2>2 DEF IInv, JobInv, HoldInv
    <3>2. From = path[1]
      BY <2>1, <3>1, AtHand DEF IInv
    <3>3. \A t \in worth : owner[t] # path[1]
      BY <3>1, <3>2 DEF Kept
    <3>4. allowed = {}
      BY <3>3 DEF IInv, AllowInv
    <3>5. QED BY <2>2, <3>3, <3>4 DEF AllArrives
  <2>3. CASE job = "transfer"
    <3>1. idx = Len(path) + 1
      BY <2>1, <2>3 DEF IInv, JobInv
    <3>2. ASSUME NEW i \in 1 .. Len(path), path[i] # Final
          PROVE  native[path[i]] < NativeFee /\ \A t \in worth : owner[t] # path[i]
      <4>1. i \in 1 .. idx - 1 /\ \A k \in idx .. Len(path) : path[k] # path[i]
        BY <2>1, <3>1
      <4>2. QED BY <2>3, <3>2, <4>1 DEF IInv, PassedInv
    <3>3. QED BY <2>3, <3>2 DEF AllArrives
  <2>4. QED BY <2>1, <2>2, <2>3
<1>2. QED BY <1>1, Invariance, PTL

\* However often the job is started and wherever it stops, each run leaves at
\* most one allowance behind.
THEOREM OneAllowanceARun == Spec => []FewAllowances
<1>1. IInv => FewAllowances
  BY DEF IInv, CountInv, FewAllowances
<1>2. QED BY <1>1, Invariance, PTL
=============================================================================
