-------------------------- MODULE DialerRefinement --------------------------
(***************************************************************************)
(* Dialer implements AbstractDialer.  The connection is up when one of the *)
(* handles of the entry is; everything between two waits is "awake", the   *)
(* debounce included; the verdict is the one the worker keeps.             *)
(***************************************************************************)
EXTENDS DialerProperties

Phase ==
  CASE Has("start") -> "starting"
    [] Has("wait")  -> "asleep"
    [] pc["worker"] \in {"leave", "cancel", "close"} -> "leaving"
    [] Has("done")  -> "ended"
    [] OTHER        -> "awake"

A == INSTANCE AbstractDialer WITH up <- OwnUp, phase <- Phase, verdict <- waitFor

(***************************************************************************)
(* Every step of the worker, of its watchdog, of Windows and of other      *)
(* programs is one the abstract dialler allows (worker.rs 146-348): it     *)
(* sleeps only on a verdict that is true at that moment, leaves its loop   *)
(* only when asked, and comes back from a crash at the beginning.          *)
(***************************************************************************)
Implements == A!Spec

(***************************************************************************)
(* The events, callbacks and time-outs of the implementation (worker.rs    *)
(* 455-499, ras.rs 130-138, 170-203) do what the abstract dialler merely   *)
(* promises: an outdated verdict wakes the worker, and an evaluation ends  *)
(* although the server may be silent.                                      *)
(***************************************************************************)
KeepsPromises == A!Progress
=============================================================================
