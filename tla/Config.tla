------------------------------- MODULE Config -------------------------------
(***************************************************************************)
(* src/config.rs as functions: a configuration file is what decides        *)
(* whether it loads (is it there, its encoding, is it TOML with fields of  *)
(* the right types) and the fields it gives.  A text stands for itself     *)
(* trimmed and, where the code does not mind, in lower case; "a\b" is any  *)
(* text with a path separator.                                             *)
(***************************************************************************)
EXTENDS Integers, Sequences

SERVICE_NAME == "PppoeDialer"

\* Default: what a field that the file does not give is set to.
Default == [
  name |-> SERVICE_NAME,
  entry_name |-> "", username |-> "", password |-> "",
  dial_timeout_secs |-> 90,
  interface_types |-> <<"ethernet">>,
  reconnect_delay_secs |-> 5, max_backoff_secs |-> 300,
  event_debounce_ms |-> 500, safety_recheck_secs |-> 0,
  dir |-> "logs", level |-> "info", rotation |-> "daily"]

\* Unknown fields are ignored.
from_toml_str(given) ==
  [f \in DOMAIN Default |-> IF f \in DOMAIN given THEN given[f] ELSE Default[f]]

\* The byte order mark decides; what is neither UTF-16 nor UTF-8 is an error.
decode(file) == file.encoding \in {"utf8", "utf8 with BOM", "utf16le with BOM", "utf16be with BOM"}

-----------------------------------------------------------------------------
(***************************************************************************)
(* Config::validate, by section.                                           *)
(***************************************************************************)
ValidService(c) == c.name # "" /\ c.name # "a\\b"

ValidDial(c) ==
  /\ c.entry_name # "" /\ c.username # "" /\ c.password # ""
  /\ c.dial_timeout_secs >= 10

ValidLog(c) ==
  /\ c.level \in {"error", "warn", "warning", "info", "debug", "trace"}
  /\ c.rotation \in {"daily", "never"}

\* The two that Backoff::new takes.
ValidDelays(c) ==
  /\ c.reconnect_delay_secs >= 1
  /\ c.max_backoff_secs >= c.reconnect_delay_secs

ValidMonitor(c) ==
  /\ ValidDelays(c)
  /\ c.event_debounce_ms <= 60000
  /\ c.safety_recheck_secs = 0 \/ c.safety_recheck_secs >= 30

interface_types(c) ==
  /\ c.interface_types # <<>>
  /\ \A i \in DOMAIN c.interface_types : c.interface_types[i] = "ethernet"

validate(c) ==
  ValidDial(c) /\ ValidService(c) /\ ValidLog(c) /\ ValidMonitor(c) /\ interface_types(c)

\* Config::load succeeds.
Loads(file) ==
  file.exists /\ decode(file) /\ file.toml /\ validate(from_toml_str(file.given))

\* load_config(args).unwrap_or_default()
LoadOrDefault(file) == IF Loads(file) THEN from_toml_str(file.given) ELSE Default
=============================================================================
