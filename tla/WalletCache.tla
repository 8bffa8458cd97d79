----------------------------- MODULE WalletCache -----------------------------
(***************************************************************************)
(* The wallet's holdings and the currencies of altcoin/web3bsc/web3bsc.py, *)
(* kept in the database of reward_token/db_handler.py.                     *)
(*                                                                         *)
(* get_wallet_balance() takes the tokens of a wallet from wallet_holdings, *)
(* or, when there are none, they have expired or the caller forces it,     *)
(* clears them, asks a site and stores what it says token by token.        *)
(* get_currency() finds, adds or reprices the row of a token in currency;  *)
(* the price of a token needs that of the native one.                      *)
(*                                                                         *)
(* The callers (trade processes, reports) are processes of their own: each *)
(* has its own copy of conn_lock, so it is a single statement with its     *)
(* commit that is atomic, no more.  There is one wallet; prices are old or *)
(* not.  Which site is asked depends on the network; here each call may go *)
(* to any of them.                                                         *)
(***************************************************************************)
EXTENDS Integers, Sequences, FiniteSets

CONSTANTS
  Procs,       \* processes that use the database
  Native,      \* the token '-'
  Currencies,  \* all tokens
  Answers      \* lists of tokens a site may have for the wallet

ASSUME CacheAssumption ==
  /\ IsFiniteSet(Procs) /\ IsFiniteSet(Currencies) /\ Native \in Currencies
  /\ Answers \subseteq Seq(Currencies)
  /\ \A s \in Answers : \A i, j \in DOMAIN s : s[i] = s[j] => i = j

VARIABLES
  currency,  \* the table currency, by currency_id
  holdings,  \* the table wallet_holdings of the wallet: currency_ids, 0 for NULL
  call,      \* what each process is doing
  solo,      \* history: it updates the holdings and no other has done so since it began
  whole,     \* history: the last update ran to its end, and alone
  answer     \* history: the list of that update

cacheVars == <<currency, holdings, call, solo, whole, answer>>

\* get_currency under way for a token: where it is, and the row it has found.
Frame(t) == [token |-> t, at |-> "look", row |-> 0, fake |-> FALSE]
NoFrame == [Frame(Native) EXCEPT !.at = "none"]
Frames == [token : Currencies, at : {"none", "look", "price", "value", "insert"}, row : Nat, fake : BOOLEAN]

\* A call has its own frame, and that of the native token below it.
Idle == [pc |-> "idle", update |-> FALSE, list |-> <<>>, empty |-> FALSE,
         own |-> NoFrame, native |-> NoFrame, cid |-> 0]
Calls == [pc : {"idle", "clear", "ask", "next", "currency", "bnb", "store"}, update : BOOLEAN,
          list : Seq(Currencies), empty : BOOLEAN, own : Frames, native : Frames, cid : Nat]

CacheInit ==
  /\ currency = <<>> /\ holdings = <<>>
  /\ call = [p \in Procs |-> Idle] /\ solo = [p \in Procs |-> FALSE]
  /\ whole = FALSE /\ answer = <<>>

At(p, pc) == call[p].pc = pc
tables == <<currency, holdings>>
history == <<solo, whole, answer>>
-----------------------------------------------------------------------------
(* get_currency *)

RowsOf(t) == {i \in DOMAIN currency : currency[i].token = t}

First(cid, t) == cid \in RowsOf(t) /\ \A i \in RowsOf(t) : cid <= i

\* SELECT ... fetchone: the row with the lowest currency_id, 0 if there is none.
Found(t) == IF RowsOf(t) = {} THEN 0 ELSE CHOOSE cid \in RowsOf(t) : First(cid, t)

Becomes(p, c) == call' = [call EXCEPT ![p] = c]

InNative(p) == call[p].native.at # "none"
Top(p) == IF InNative(p) THEN call[p].native ELSE call[p].own
InCurrency(p, at) == Top(p).at = at
SetTop(p, frame) == Becomes(p, IF InNative(p) THEN [call[p] EXCEPT !.native = frame]
                                              ELSE [call[p] EXCEPT !.own = frame])

\* get_currency returns: to the price of its caller's token, to a caller that
\* only wants the native price, or to the loop over the tokens.
Returns(p, cid) ==
  Becomes(p, IF InNative(p) THEN [call[p] EXCEPT !.native = NoFrame]
             ELSE IF At(p, "bnb") THEN Idle
             ELSE [call[p] EXCEPT !.pc = "store", !.own = NoFrame, !.cid = cid])

\* The price is not too old; that of a fake token never is.
Usable(row) == row # 0 /\ (currency[row].fake \/ ~currency[row].old)

Look(p) == /\ InCurrency(p, "look")
           /\ LET row == Found(Top(p).token) IN
                IF Usable(row) THEN Returns(p, row)
                               ELSE SetTop(p, [Top(p) EXCEPT !.at = "price", !.row = row])
           /\ UNCHANGED <<tables, history>>

\* The price is asked for: a token's in the native one, whose own price then
\* comes from get_currency, or in dollars if there is no such pool.
Price(p) == /\ InCurrency(p, "price")
            /\ SetTop(p, [Top(p) EXCEPT !.at = "value"])
            /\ UNCHANGED <<tables, history>>

\* The token of a new row that does not tell its decimals or price is noted as
\* fake, whatever the reason.
PriceInNative(p) ==
  /\ InCurrency(p, "price") /\ Top(p).token # Native
  /\ \E fake \in BOOLEAN :
       /\ fake => Top(p).row = 0
       /\ Becomes(p, [call[p] EXCEPT !.own = [Top(p) EXCEPT !.at = "value", !.fake = fake],
                                     !.native = Frame(Native)])
  /\ UNCHANGED <<tables, history>>

\* update_currency_price goes by currency_id.
Reprice(p) == /\ InCurrency(p, "value") /\ Top(p).row # 0
              /\ currency' = [currency EXCEPT ![Top(p).row].old = FALSE]
              /\ Returns(p, Top(p).row)
              /\ UNCHANGED <<holdings, history>>

\* insert_into_currency_table looks for the token before it takes its lock.
LookAgain(p) == /\ InCurrency(p, "value") /\ Top(p).row = 0
                /\ SetTop(p, [Top(p) EXCEPT !.at = "insert", !.row = Found(Top(p).token)])
                /\ UNCHANGED <<tables, history>>

RowJustAdded(t) == Len(currency)             \* fault: goes by its own lastrowid

\* get_currency looks for the token once more.
RowOnceMore(t) == Found(t)

Insert(p, t) ==
  /\ InCurrency(p, "insert") /\ t = Top(p).token
  /\ currency' = IF Top(p).row # 0 THEN currency
                 ELSE Append(currency, [token |-> t, fake |-> Top(p).fake, old |-> FALSE])
  /\ Returns(p, RowOnceMore(t)')
  /\ UNCHANGED <<holdings, history>>

GetBnbPrice(p) == /\ At(p, "idle")
                  /\ Becomes(p, [Idle EXCEPT !.pc = "bnb", !.own = Frame(Native)])
                  /\ UNCHANGED <<tables, history>>
-----------------------------------------------------------------------------
(* get_wallet_balance *)

\* get_wallet_holding_addresses: NULL stands for an empty wallet.
Filled == {i \in DOMAIN holdings : holdings[i] # 0}
Place(k) == CHOOSE i \in Filled : Cardinality({j \in Filled : j <= i}) = k
Stored == [k \in 1 .. Cardinality(Filled) |-> currency[holdings[Place(k)]].token]

\* The holdings are asked for anew when there are none, when the caller forces
\* it, or when the oldest is half an hour old.
GetBalance(p, forceOrExpired) ==
  /\ At(p, "idle")
  /\ Becomes(p, IF holdings = <<>> \/ forceOrExpired
                THEN [Idle EXCEPT !.pc = "clear", !.update = TRUE]
                ELSE [Idle EXCEPT !.pc = "next", !.list = Stored])
  /\ UNCHANGED <<tables, history>>

ClearedEmpty == SelectSeq(holdings, LAMBDA cid : cid # 0)    \* fault: leaves the tokens

\* remove_all_wallet_holdings_table
Cleared == <<>>

Updating(q) == call[q].update /\ ~At(q, "clear")

Clear(p) ==
  /\ At(p, "clear")
  /\ holdings' = Cleared
  /\ Becomes(p, [call[p] EXCEPT !.pc = "ask"])
  /\ solo' = [q \in Procs |-> q = p /\ \A r \in Procs : ~Updating(r)]
  /\ whole' = FALSE
  /\ UNCHANGED <<currency, answer>>

SiteAnswers(p, list) ==
  /\ At(p, "ask")
  /\ Becomes(p, [call[p] EXCEPT !.pc = "next", !.list = list, !.empty = (list = <<>>)])
  /\ answer' = IF solo[p] THEN list ELSE answer
  /\ UNCHANGED <<tables, solo, whole>>

\* Anything but the whole table is None.
Etherscan(p) == \E list \in Answers : SiteAnswers(p, list)

\* Another status than 200 is taken for an empty wallet.
Poocoin(p) == \E list \in Answers \cup {<<>>} : SiteAnswers(p, list)

\* So it is here, and a row that does not parse ends the list.
Bscscan(p) == \E list \in Answers : \E n \in 0 .. Len(list) : SiteAnswers(p, SubSeq(list, 1, n))

\* None: the call fails, and leaves no holdings behind.
SiteFails(p) == /\ At(p, "ask")
                /\ Becomes(p, Idle)
                /\ solo' = [solo EXCEPT ![p] = FALSE]
                /\ UNCHANGED <<tables, whole, answer>>

NextToken(p) == /\ At(p, "next") /\ call[p].list # <<>>
                /\ Becomes(p, [call[p] EXCEPT !.pc = "currency", !.own = Frame(Head(call[p].list))])
                /\ UNCHANGED <<tables, history>>

AddHolding(cid) == holdings' = Append(holdings, cid)

\* The balance is read and counted, and the token stored.
StoreToken(p) ==
  /\ At(p, "store")
  /\ IF call[p].update THEN AddHolding(call[p].cid) ELSE UNCHANGED holdings
  /\ Becomes(p, [call[p] EXCEPT !.pc = "next", !.list = Tail(call[p].list), !.cid = 0])
  /\ UNCHANGED <<currency, history>>

BalanceDone(p) ==
  /\ At(p, "next") /\ call[p].list = <<>>
  /\ IF call[p].update /\ call[p].empty THEN AddHolding(0) ELSE UNCHANGED holdings
  /\ Becomes(p, Idle)
  /\ solo' = [solo EXCEPT ![p] = FALSE]
  /\ whole' = (whole \/ solo[p])
  /\ UNCHANGED <<currency, answer>>
-----------------------------------------------------------------------------
\* A contract does not answer, the database is locked for too long, or the
\* process is killed: the call leaves things as they are.
Raises(p) == /\ ~At(p, "idle")
             /\ Becomes(p, Idle)
             /\ solo' = [solo EXCEPT ![p] = FALSE]
             /\ UNCHANGED <<tables, whole, answer>>

\* Prices expire after five minutes.
PricesAge == /\ \E i \in DOMAIN currency : ~currency[i].old
             /\ currency' = [i \in DOMAIN currency |-> [currency[i] EXCEPT !.old = TRUE]]
             /\ UNCHANGED <<holdings, call, history>>

GetCurrency(p) == \/ Look(p) \/ Price(p) \/ PriceInNative(p) \/ Reprice(p)
                  \/ LookAgain(p) \/ \E t \in Currencies : Insert(p, t)
Balance(p) == \/ Clear(p) \/ Etherscan(p) \/ Poocoin(p) \/ Bscscan(p) \/ SiteFails(p)
              \/ NextToken(p) \/ StoreToken(p) \/ BalanceDone(p)

CacheNext ==
  \/ \E p \in Procs : \/ GetBnbPrice(p) \/ (\E force \in BOOLEAN : GetBalance(p, force))
                       \/ GetCurrency(p) \/ Balance(p) \/ Raises(p)
  \/ PricesAge

CacheSpec == CacheInit /\ [][CacheNext]_cacheVars
-----------------------------------------------------------------------------
(* Properties *)

CacheTypeOK ==
  /\ currency \in Seq([token : Currencies, fake : BOOLEAN, old : BOOLEAN])
  /\ holdings \in Seq(Nat) /\ \A i \in DOMAIN holdings : holdings[i] <= Len(currency)
  /\ call \in [Procs -> Calls]
  /\ solo \in [Procs -> BOOLEAN] /\ whole \in BOOLEAN /\ answer \in Seq(Currencies)

\* The look-up outside the lock lets two callers add the same token, but each
\* caller at most once, whatever fails and is tried again.
FewDoubles == \A t \in Currencies : Cardinality(RowsOf(t)) <= Cardinality(Procs)

\* In spite of doubles everybody goes by the same row of a token: the ids that
\* are stored, and the ids under way, are all of the first one.
IdsAgree ==
  /\ \A i \in DOMAIN holdings :
       holdings[i] # 0 => holdings[i] = Found(currency[holdings[i]].token)
  /\ \A p \in Procs : call[p].cid # 0 => call[p].cid = Found(currency[call[p].cid].token)

\* An update that ran to its end, and alone, leaves exactly the list of the
\* site, each token once and in its order; a second row of a token, a failed or
\* killed call before it and readers beside it do not matter.
StoredIsAnswer == whole => /\ Stored = answer
                           /\ Len(holdings) = IF answer = <<>> THEN 1 ELSE Len(answer)

Times(list, t) == Cardinality({i \in DOMAIN list : list[i] = t})

\* A token is never counted more than once per process, even after updates that
\* have run into each other, and not twice in the call that made the update.
ListIsBounded ==
  \A p \in Procs : \A t \in Currencies :
    Times(call[p].list, t) <= IF call[p].update THEN 1 ELSE Cardinality(Procs)

\* What holds of the tables and of the calls under way in every state: a row a
\* process has added twice does no harm.
CacheInv == CacheTypeOK /\ FewDoubles /\ IdsAgree /\ ListIsBounded
=============================================================================
