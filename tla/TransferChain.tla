---------------------------- MODULE TransferChain ----------------------------
(***************************************************************************)
(* The two jobs of altcoin/web3bsc/transferUtils.py: transfer_all() sends  *)
(* the tokens of a chain of accounts to a last one and hands the native    *)
(* currency on from account to account; convert_all_to_bnb() approves and  *)
(* swaps the tokens of one.  Each transaction is waited for, and the first *)
(* that fails ends the job; the operator starts it again.                  *)
(*                                                                         *)
(* The chain is modelled by what the two read and write: balances, nonces  *)
(* and allowances.  Nobody else uses the accounts, but a node may answer   *)
(* late, and the list of holdings comes from a site.  The amount of a      *)
(* token is either worth a transaction or not.                             *)
(***************************************************************************)
EXTENDS Integers, Sequences, FiniteSets

CONSTANTS
  Accounts,    \* the accounts of the wallets
  Final,       \* account_final
  Paths,       \* bound: accounts_from
  Tokens,      \* bound: the tokens the accounts may hold
  Pool,        \* where a swapped token goes
  MaxNative,   \* bound: the native currency an account starts with
  NativeFee,   \* gas_limit_native * gas_price, which a transfer uses up
  TokenFee,    \* what a call of a token contract costs
  Proceeds,    \* what a swap yields
  MaxRuns      \* bound: how often the job is started

ASSUME TransferAssumption ==
  /\ Final \in Accounts /\ Pool \notin Accounts
  /\ Paths \subseteq Seq(Accounts) \ {<<>>}
  /\ {MaxNative, NativeFee, TokenFee, Proceeds, MaxRuns} \subseteq Nat
  /\ NativeFee > 0 /\ MaxRuns > 0 /\ Tokens # {}

VARIABLES
  job, path,     \* which function, and its accounts_from
  worth,         \* the tokens whose value reaches min_usd_value_to_transfer
  pc, idx,       \* where the job is, and idx of the iterator
  todo, token,   \* the balances still to go through, and the one at hand
  nonce,         \* the local nonce
  owner,         \* who holds each token
  native, count, \* balance and transaction count of each account
  allowed,       \* the tokens PancakeSwap may take
  doubt,         \* history: this run has met a late or missing answer
  behind,        \* history: the transaction count was a late one
  runs           \* history: how often the job was started

fixed == <<job, path, worth>>
chain == <<owner, native, count, allowed>>
vars == <<fixed, pc, idx, todo, token, nonce, chain, doubt, behind, runs>>
-----------------------------------------------------------------------------
ChainAsGiven == path                         \* fault: the last account is not appended

\* append() puts the last account behind the others, in the same list.
Chain == Append(path, Final)
From == Chain[idx]
To == Chain[idx + 1]

Init ==
  /\ job \in {"transfer", "convert"} /\ path \in Paths
  /\ worth \in SUBSET Tokens
  /\ pc = "next" /\ idx = 1 /\ todo = {} /\ token \in {CHOOSE t \in Tokens : TRUE} /\ nonce = 0
  /\ owner \in [Tokens -> Accounts]
  /\ native \in [Accounts -> {0, MaxNative}] /\ count = [a \in Accounts |-> 0]
  /\ allowed = {} /\ doubt = FALSE /\ behind = FALSE /\ runs = 1

Stops == pc' = "stopped"

\* Nothing is kept between two runs but what is on the chain.
Restart == /\ pc \in {"stopped", "end"} /\ runs < MaxRuns
           /\ pc' = "next" /\ idx' = 1 /\ runs' = runs + 1
           /\ doubt' = FALSE /\ behind' = FALSE
           /\ UNCHANGED <<fixed, todo, token, nonce, chain>>
-----------------------------------------------------------------------------
(* An account *)

AtAccount == pc = "next" /\ idx < Len(Chain)

NextAccount == pc' = "next" /\ idx' = idx + 1

StopIteration == /\ pc = "next" /\ idx = Len(Chain)
                 /\ pc' = "end"
                 /\ UNCHANGED <<fixed, idx, todo, token, nonce, chain, doubt, behind, runs>>

\* From is the last account already: its money stays.
Arrived == job = "transfer" /\ From = Final

NothingToDo == /\ AtAccount /\ Arrived
               /\ NextAccount
               /\ UNCHANGED <<fixed, todo, token, nonce, chain, doubt, behind, runs>>

Asks == AtAccount /\ ~Arrived

Unanswered(next) == /\ Asks /\ next
                    /\ doubt' = TRUE
                    /\ UNCHANGED <<fixed, todo, token, nonce, chain, behind, runs>>

\* The account is passed over, with what has just been handed on to it.
NoHoldings == job = "transfer" /\ Unanswered(NextAccount)

\* convert_all_to_bnb returns.
NothingToConvert == job = "convert" /\ Unanswered(Stops /\ UNCHANGED idx)

Held == {t \in Tokens : owner[t] = From}

\* The site lists what the account holds, or a part of it.
Holdings(listed, answer) ==
  /\ Asks /\ listed \subseteq Held
  /\ todo' = listed
  /\ nonce' = answer - 1
  /\ doubt' = (doubt \/ listed # Held \/ answer # count[From])
  /\ behind' = (answer # count[From])
  /\ pc' = "token"
  /\ UNCHANGED <<fixed, idx, token, chain, runs>>
-----------------------------------------------------------------------------
(* A transaction of the account *)

\* What the node takes: the next nonce, and the fee has to be there.
Accepted(fee, value) == nonce + 1 = count[From] /\ native[From] >= fee + value

\* The transaction is mined, and its cost goes from the account.
Mined(cost) == /\ count' = [count EXCEPT ![From] = @ + 1]
               /\ native' = [native EXCEPT ![From] = @ - cost]

Fee == IF pc = "native" THEN NativeFee ELSE TokenFee

\* Sending raises, or _ARMED_ is not set: the job is over.
SendingFails == /\ pc \in {"approve", "swap", "transfer", "native"}
                /\ Stops
                /\ UNCHANGED <<fixed, idx, todo, token, nonce, chain, doubt, behind, runs>>

RevertsGoesOn ==                             \* fault: the return is missing
  /\ pc \in {"approve", "swap", "transfer"} /\ Accepted(Fee, 0) /\ Mined(Fee)
  /\ pc' = "token" /\ nonce' = nonce + 1
  /\ UNCHANGED <<fixed, idx, todo, token, owner, allowed, doubt, behind, runs>>

\* The receipt says that the call has failed.
Reverts == /\ pc \in {"approve", "swap", "transfer", "native"}
           /\ Accepted(Fee, 0) /\ Mined(Fee)
           /\ Stops
           /\ UNCHANGED <<fixed, idx, todo, token, nonce, owner, allowed, doubt, behind, runs>>

\* After a good receipt the job goes on; when the wait for it raises, the
\* transaction is mined all the same and the job is over.
GoesOn(to) == /\ nonce' = nonce + 1 /\ pc' \in {to, "stopped"}
              /\ UNCHANGED <<fixed, idx, todo, token, doubt, behind, runs>>

\* The next of the balances; the native one is left for the end.
TakeToken(t) == /\ pc = "token" /\ t \in todo
                /\ todo' = todo \ {t} /\ token' = t
                /\ UNCHANGED <<fixed, idx, nonce, chain, doubt, behind, runs>>

SkipTokenCounts(t) ==                        \* fault: the nonce is taken before the value is looked at
  /\ pc = "token" /\ t \in todo /\ t \notin worth
  /\ todo' = todo \ {t} /\ token' = t /\ nonce' = nonce + 1
  /\ UNCHANGED <<fixed, pc, idx, chain, doubt, behind, runs>>

SkipToken(t) == TakeToken(t) /\ t \notin worth /\ pc' = "token"

SendToken(t) == TakeToken(t) /\ t \in worth
                /\ pc' = IF job = "transfer" THEN "transfer" ELSE "approve"

TransferToken == /\ pc = "transfer" /\ Accepted(TokenFee, 0)
                 /\ Mined(TokenFee)
                 /\ owner' = [owner EXCEPT ![token] = Final]
                 /\ GoesOn("token")
                 /\ UNCHANGED allowed

Approve == /\ pc = "approve" /\ Accepted(TokenFee, 0)
           /\ Mined(TokenFee)
           /\ allowed' = allowed \cup {token}
           /\ GoesOn("swap")
           /\ UNCHANGED owner

Swap == /\ pc = "swap" /\ Accepted(TokenFee, 0)
        /\ Mined(TokenFee - Proceeds)
        /\ owner' = [owner EXCEPT ![token] = Pool] /\ allowed' = allowed \ {token}
        /\ GoesOn("token")

\* convert_all_to_bnb is over; transfer_all goes on to the native currency.
TokensDone == /\ pc = "token" /\ todo = {}
              /\ pc' = IF job = "transfer" THEN "native" ELSE "end"
              /\ UNCHANGED <<fixed, idx, todo, token, nonce, chain, doubt, behind, runs>>
-----------------------------------------------------------------------------
(* The native currency *)

\* Read after seven seconds; a late node still has an old balance.
NothingLeft(balance) == /\ pc = "native" /\ balance < NativeFee
                        /\ NextAccount
                        /\ doubt' = (doubt \/ balance # native[From])
                        /\ UNCHANGED <<fixed, todo, token, nonce, chain, behind, runs>>

\* The transaction is built from the balance read, and stopped or sent.
Hand(balance) ==
  LET value == balance - NativeFee IN
  /\ pc = "native" /\ value >= 0 /\ Accepted(NativeFee, value)
  /\ count' = [count EXCEPT ![From] = @ + 1]
  /\ native' = [a \in Accounts |->
                  native[a] + (IF a = To THEN value ELSE 0) - (IF a = From THEN balance ELSE 0)]
  /\ nonce' = nonce + 1
  /\ \/ NextAccount
     \/ Stops /\ UNCHANGED idx
  /\ doubt' = (doubt \/ balance # native[From])
  /\ UNCHANGED <<fixed, todo, token, owner, allowed, behind, runs>>

-----------------------------------------------------------------------------
Late(n) == {n, n - 1} \cap Nat

Next == \/ Restart \/ StopIteration \/ NothingToDo \/ NoHoldings \/ NothingToConvert
        \/ \E listed \in SUBSET Held : \E answer \in Late(count[From]) : Holdings(listed, answer)
        \/ SendingFails \/ Reverts
        \/ \E t \in Tokens : SkipToken(t) \/ SendToken(t)
        \/ TransferToken \/ Approve \/ Swap \/ TokensDone
        \/ \E balance \in {native[From], 0, MaxNative} : NothingLeft(balance) \/ Hand(balance)

Spec == Init /\ [][Next]_vars
-----------------------------------------------------------------------------
(* Properties *)

TypeOK ==
  /\ job \in {"transfer", "convert"} /\ path \in Paths /\ worth \subseteq Tokens
  /\ pc \in {"next", "token", "approve", "swap", "transfer", "native", "end", "stopped"}
  /\ idx \in 1 .. Len(Chain)
  /\ todo \subseteq Tokens /\ token \in Tokens /\ nonce \in Int
  /\ owner \in [Tokens -> Accounts \cup {Pool}]
  /\ native \in [Accounts -> Nat] /\ count \in [Accounts -> Nat]
  /\ allowed \subseteq Tokens
  /\ doubt \in BOOLEAN /\ behind \in BOOLEAN /\ runs \in 1 .. MaxRuns
  /\ pc \notin {"next", "end", "stopped"} => idx < Len(Chain)

\* The local nonce keeps step with the chain over the tokens that are skipped,
\* the two transactions of a swap and the native transfer: only a late
\* transaction count makes a node refuse.
NonceIsNext == pc \in {"token", "approve", "swap", "transfer", "native"} /\ ~behind
               => nonce + 1 = count[From]

\* The types hold and the nonce keeps step in every state of a job.
Inv == TypeOK /\ NonceIsNext

\* A run that comes to its end with good answers leaves nothing behind on the
\* way, whatever an earlier run that was cut off has left where.
AllArrives ==
  pc = "end" /\ ~doubt =>
    IF job = "convert"
    THEN allowed = {} /\ \A t \in worth : owner[t] # path[1]
    ELSE \A i \in 1 .. Len(path) :
           path[i] # Final => /\ native[path[i]] < NativeFee
                              /\ \A t \in worth : owner[t] # path[i]

\* Each run leaves at most one allowance that no swap has used up.
FewAllowances == Cardinality(allowed) <= runs
=============================================================================
