------------------------------ MODULE MCDialer ------------------------------
EXTENDS DialerRefinement, TLC

CONSTANTS h1, h2, f1, null

MCOwn     == {h1, h2}
OneOwn    == {h1}
MCForeign == {f1}
NoForeign == {}
Symmetry  == Permutations(MCOwn)

\* Everything that may go wrong, by API call or by actor.
AllFaults == {"noise", "cable", "server", "drop", "user", "status", "enum", "hangup", "release",
              "spawn", "event", "timeout", "preempt", "reject", "stuck", "setup", "entry", "query", "wait", "crash"}

\* Every class of failure but those that disarm the watchdog: it cannot start,
\* list the connections or hang up, or it fires before the call it guards.
StopFaults == {"cable", "server", "drop", "release", "timeout", "reject", "stuck", "wait", "crash"}
NoWatchdog == {"server", "spawn"}
=============================================================================
