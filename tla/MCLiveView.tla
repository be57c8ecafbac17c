----------------------------- MODULE MCLiveView -----------------------------
(***************************************************************************)
(* Small instances of LiveView.  Spans carry one start time and last for   *)
(* no time: the timing of traces is the subject of TraceStore.             *)
(***************************************************************************)
EXTENDS LiveView

Unit    == {1}
Instant == {0}
=============================================================================
