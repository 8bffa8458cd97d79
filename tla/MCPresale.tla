----------------------------- MODULE MCPresale -----------------------------
(* An instance of Presale for TLC. *)
EXTENDS Presale

CONSTANTS near, far, pool

\* A pinksale and a DxSale in the configuration, and another in the transfers.
Listing == [k \in Kinds |-> IF k = "pinksale" THEN {pool} ELSE {far}]

\* The one starts later than any distance between blocks reaches, the others at once.
Starts == [s \in Sales |-> IF s = far THEN 20 ELSE 1]

\* The two modes, each on its own.
OneMode == {{"presale"}, {"claim"}}
=============================================================================
