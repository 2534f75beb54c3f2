---------------------------- MODULE MCSvcInstall ----------------------------
EXTENDS SvcInstall, TLC

\* A file that loads, no file, one without a delay, and one that names another
\* service.
MCSettings == [entry_name |-> "entry", username |-> "user", password |-> "secret"]
File(given) == [exists |-> TRUE, encoding |-> "utf8", toml |-> TRUE, given |-> given]

MCGood    == File(MCSettings)
MCMissing == [MCGood EXCEPT !.exists = FALSE]
MCHasty   == File([reconnect_delay_secs |-> 0] @@ MCSettings)
MCRenamed == File([name |-> "Other"] @@ MCSettings)

MCFiles    == {MCGood, MCMissing, MCHasty}
MCAnyFiles == MCFiles \cup {MCRenamed}

\* The administrator, and somebody else who must not install or uninstall.
MCConsole == {"first", "second"}
MCAllowed == [c \in MCConsole |-> IF c = "first" THEN Command ELSE {"start"}]
=============================================================================
