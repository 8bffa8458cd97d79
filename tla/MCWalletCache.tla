--------------------------- MODULE MCWalletCache ---------------------------
(* Instances of WalletCache for TLC. *)
EXTENDS WalletCache, TLC

CONSTANTS t

\* An empty wallet, and one with a token and the native one.
Wallets == {<<>>, <<t, Native>>}

\* The processes are interchangeable.
ProcSymmetry == Permutations(Procs)
=============================================================================
