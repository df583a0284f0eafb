----------------------------- MODULE MCAffinity -----------------------------
(***************************************************************************)
(* Two tasks, so that one runs between the two lock sections of the other; *)
(* two sessions, so that a stale entry is not replaced by the only traffic *)
(* there is; a binding is live for one tick and retained for two, the      *)
(* clock runs for three, and every second operation sweeps.                *)
(***************************************************************************)
EXTENDS Affinity
=============================================================================
