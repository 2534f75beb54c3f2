------------------------------ MODULE MCLogger ------------------------------
EXTENDS Logger

CONSTANTS t1, t2, t3

\* The service with two threads, and a command in a console.
MCProcess == {"service", "console"}
MCThread  == {t1, t2, t3}
MCOf      == [t \in MCThread |-> IF t = t3 THEN "console" ELSE "service"]
Symmetry  == Permutations({t1, t2})
=============================================================================
