----------------------------- MODULE MCDialOnce -----------------------------
EXTENDS DialOnce

CONSTANTS h1, h2, f1, null

MCOwn     == {h1, h2}
MCForeign == {f1}

\* Every kind the command can meet, but those that disarm its watchdog.
OnceFaults == {"cable", "server", "drop", "user", "status", "release", "event",
               "timeout", "reject", "stuck", "query", "entry", "crash"}
=============================================================================
