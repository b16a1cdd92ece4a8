------------------------- MODULE MCTransactionStream -------------------------
(***************************************************************************)
(* The instance of TransactionStream that TLC explores: TransactionStream  *)
(* .cfg gives the constants small sets of model values.                    *)
(***************************************************************************)
EXTENDS TransactionStream
=============================================================================
