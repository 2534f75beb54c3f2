--------------------------- MODULE AbstractDialer ---------------------------
(***************************************************************************)
(* What src/worker.rs promises, without the means: no events, callbacks,   *)
(* debounce, RAS calls or second thread.  The world is a cable and a       *)
(* connection that come and go, and a stop request.  The worker is awake   *)
(* (it evaluates, dials, clears attempts) or asleep on a verdict it saw to *)
(* be true, and a verdict that is no longer true wakes it.                 *)
(***************************************************************************)
VARIABLES
  cable,   \* a cable is plugged in
  up,      \* the connection is up
  stop,    \* the worker has been asked to stop
  phase,   \* what the worker is doing
  verdict  \* why it sleeps

world == <<cable, up, stop>>
vars  == <<world, phase, verdict>>

Phase   == {"starting", "awake", "asleep", "leaving", "ended"}
Verdict == {"cable", "online", "retry"}

Init ==
  /\ cable \in BOOLEAN /\ up \in BOOLEAN /\ stop = FALSE
  /\ phase = "starting" /\ verdict = "nothing"

\* What the verdict says; a failed dial is worth a retry at any time.
True(v) == CASE v = "cable"  -> ~cable
             [] v = "online" -> up
             [] v = "retry"  -> TRUE

\* Cable and connection change at any moment; a stop request is final.
World ==
  /\ cable' \in BOOLEAN /\ up' \in BOOLEAN
  /\ stop' \in BOOLEAN /\ stop => stop'
  /\ UNCHANGED <<phase, verdict>>

Moves(from, to, why) ==
  /\ phase \in from /\ phase' = to /\ verdict' = why
  /\ UNCHANGED world

Begin  == Moves({"starting"}, "awake", "nothing")
GiveUp == Moves({"starting"}, "ended", "nothing")
Sleep  == \E v \in Verdict : True(v) /\ Moves({"awake"}, "asleep", v)
Wake   == Moves({"asleep"}, "awake", "nothing")
Leave  == stop /\ Moves({"awake", "asleep"}, "leaving", "nothing")
End    == Moves({"leaving"}, "ended", "nothing")

\* The process dies and a new one, of which no stop was asked, takes over.
Restart ==
  /\ phase # "ended" /\ phase' = "starting"
  /\ verdict' = "nothing" /\ stop' = FALSE
  /\ UNCHANGED <<cable, up>>

Next == World \/ Begin \/ GiveUp \/ Sleep \/ Wake \/ Leave \/ End \/ Restart

Spec == Init /\ [][Next]_vars

-----------------------------------------------------------------------------
(***************************************************************************)
(* The promises about progress.  A verdict that is outdated, or only       *)
(* called for a retry, does not let the worker sleep for ever; and every   *)
(* evaluation ends, whatever the server does.                              *)
(***************************************************************************)
Outdated == phase = "asleep" /\ (verdict # "retry" => ~True(verdict))

Progress ==
  /\ Outdated ~> ~Outdated
  /\ phase = "awake" ~> phase # "awake"
=============================================================================
