--------------------------- MODULE MCCorrelation ---------------------------
(***************************************************************************)
(* Small instances of Correlation: the configurations give every constant  *)
(* its value.                                                              *)
(***************************************************************************)
EXTENDS Correlation
=============================================================================
