------------------------------- MODULE Config -------------------------------
(***************************************************************************)
(* internal/config: how the command line, a YAML file and the defaults are *)
(* merged.  A command is a record of                                       *)
(*   version   whether an argument asks for the version                    *)
(*   flags     the flags given, a function from names to values            *)
(*   known     whether the flag package accepts all of them                *)
(*   default   the file .tapbox.yaml                                       *)
(*   named     the file that --config names                                *)
(* and a file is a record of its readability and the settings in it.  The  *)
(* listen addresses are strings like the targets and are left out.         *)
(***************************************************************************)
EXTENDS Integers, Sequences, TLC

Names == {"http-target", "grpc-target", "sql-target", "max-body-size", "max-traces", "explain-dsn"}

Defaults ==
  [n \in Names |-> CASE n = "max-body-size" -> 65536
                     [] n = "max-traces"    -> 1000
                     [] OTHER               -> ""]

NoFile == [there |-> FALSE, valid |-> FALSE, settings |-> <<>>]

(* The Mut_ operators of this module are deliberately wrong variants of the *)
(* definitions that follow them.  No definition uses them: each shows that *)
(* some property would notice the bug.                                     *)

(* The file that --config names, by default .tapbox.yaml if it is there.   *)
(* An empty --config asks for no file.                                     *)
configPath(c) ==
  IF "config" \in DOMAIN c.flags THEN c.flags["config"]
  ELSE IF c.default.there THEN "default" ELSE ""

File(c) == IF configPath(c) = "default" THEN c.default ELSE c.named

(* The file has the last word. *)
Mut_applyFileConfig(settings, file, explicit) ==
  [n \in Names |-> IF n \in DOMAIN file THEN file[n] ELSE settings[n]]

applyFileConfig(settings, file, explicit) ==
  [n \in Names |-> IF n \in DOMAIN file /\ n \notin explicit THEN file[n] ELSE settings[n]]

Valid(settings) ==
  settings["http-target"] # "" /\ settings["max-body-size"] >= 0 /\ settings["max-traces"] >= 1

WithDSN(settings) ==
  IF settings["explain-dsn"] = "" /\ settings["sql-target"] # ""
  THEN [settings EXCEPT !["explain-dsn"] = "of sql-target"] ELSE settings

Refused == [ok |-> FALSE, settings |-> Defaults]

Parse(c) ==
  LET flagged == [n \in Names |-> IF n \in DOMAIN c.flags THEN c.flags[n] ELSE Defaults[n]]
      merged  == IF configPath(c) = "" THEN flagged
                 ELSE applyFileConfig(flagged, File(c).settings, DOMAIN c.flags)
  IN  IF \/ ~ c.known
         \/ configPath(c) # "" /\ ~ (File(c).there /\ File(c).valid)
         \/ ~ Valid(merged)
      THEN Refused
      ELSE [ok |-> TRUE, settings |-> WithDSN(merged)]
=============================================================================
