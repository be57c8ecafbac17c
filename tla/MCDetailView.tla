---------------------------- MODULE MCDetailView ----------------------------
(***************************************************************************)
(* Small instances of DetailView: the configuration gives every constant   *)
(* its value.                                                              *)
(***************************************************************************)
EXTENDS DetailView
=============================================================================
