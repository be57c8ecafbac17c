---------------------------- MODULE MCSqlComment ----------------------------
(***************************************************************************)
(* Short queries for SqlComment: the configuration gives the bounds.       *)
(***************************************************************************)
EXTENDS SqlComment
=============================================================================
