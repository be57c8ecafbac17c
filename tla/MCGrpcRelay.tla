---------------------------- MODULE MCGrpcRelay ----------------------------
(***************************************************************************)
(* Small instances of GrpcRelay: the configurations give every constant    *)
(* its value.                                                              *)
(***************************************************************************)
EXTENDS GrpcRelay
=============================================================================
