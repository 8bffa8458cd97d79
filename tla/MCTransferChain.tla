--------------------------- MODULE MCTransferChain ---------------------------
(* An instance of TransferChain for TLC. *)
EXTENDS TransferChain

CONSTANTS a, b

\* Two accounts, two with the last one between them, and one that comes again.
Ways == {<<a, b>>, <<a, Final, b>>, <<a, b, a>>}
=============================================================================
