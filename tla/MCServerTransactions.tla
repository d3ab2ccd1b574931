------------------------ MODULE MCServerTransactions ------------------------
(* Instances of ServerTransactions for TLC.                                 *)
EXTENDS ServerTransactions
=============================================================================
