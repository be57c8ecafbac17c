---------------------------- MODULE MCLifecycle ----------------------------
(***************************************************************************)
(* Command lines and files for Lifecycle.                                  *)
(***************************************************************************)
EXTENDS Lifecycle

(* A setting that is absent or has one of some values, and several of them.*)
Maybe(name, values) == {<<>>} \cup {name :> v : v \in values}
Both(F, G) == {f @@ g : f \in F, g \in G}

Readable(settings) == [there |-> TRUE, valid |-> TRUE, settings |-> settings]
Broken == [there |-> TRUE, valid |-> FALSE, settings |-> <<>>]

Cmd(flags, default, named) ==
  [version |-> FALSE, known |-> TRUE, flags |-> flags, default |-> default, named |-> named]

(* Every way in which flags, the file of --config, .tapbox.yaml and the    *)
(* defaults can meet, with an invalid value among each one's.              *)
Configuring ==
  LET flags == Both(Maybe("config", {"", "named"}),
                    Both(Maybe("http-target", {"", "web"}), Maybe("max-traces", {0, 1})))
      files == {NoFile, Broken} \cup {Readable(f) : f \in
                 Both(Maybe("max-traces", {0, 2}), Maybe("sql-target", {"db"}))}
      default == Readable("http-target" :> "web" @@ "max-body-size" :> -1)
  IN  {Cmd(f, d, n) : f \in flags, d \in {NoFile, default, Readable("http-target" :> "file")},
                      n \in files}

All == ("http-target" :> "web") @@ ("grpc-target" :> "api") @@ ("sql-target" :> "db")

AllCommands ==
  Configuring
  \cup {Cmd(All, NoFile, NoFile), Cmd(All @@ ("explain-dsn" :> "other"), NoFile, NoFile)}
  \cup {[Cmd(All, NoFile, NoFile) EXCEPT !.version = TRUE],
        [Cmd(All, NoFile, NoFile) EXCEPT !.known = FALSE]}
=============================================================================
