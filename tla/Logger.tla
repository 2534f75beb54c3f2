------------------------------- MODULE Logger -------------------------------
(***************************************************************************)
(* The file sink of src/logger.rs: one file per day or a single one, and   *)
(* a limit on how many are kept, enforced at start-up and whenever the day *)
(* changes.  Every thread of a process logs through the same sink.  A      *)
(* thread reads the clock before it takes the lock, so a record can reach  *)
(* the sink after records of a later day.  The service and a console       *)
(* command are processes with a sink each and one directory: either may    *)
(* remove a file that the other has open.                                  *)
(*                                                                         *)
(* A file is reduced to its name, and the directory to the order of the    *)
(* last writes.  Text, levels, console and event log are left out.         *)
(***************************************************************************)
EXTENDS SequencesExt

CONSTANTS Process, Thread,
          Of,         \* the process of each thread
          LastDay,    \* bound: the clock stops here
          max_files,
          Faults,     \* the kinds of failures that may happen
          MaxTrouble  \* bound: how many of them altogether

ASSUME LoggerAssumption ==
  /\ IsFiniteSet(Process) /\ IsFiniteSet(Thread) /\ Of \in [Thread -> Process]
  /\ max_files \in Nat
  /\ LastDay \in Nat \ {0} /\ MaxTrouble \in Nat

Day == 1..LastDay

\* pppoe.log itself, and a file of the user's whose name begins the same.
SingleFile == 0
Copy       == -1
Name       == Day \cup {SingleFile, Copy}

NoDay  == 0   \* the empty string
NoFile == -2
Removed == -3  \* a file that is open but no longer in the directory

VARIABLES
  today,        \* the clock
  rotation,     \* "Daily" or "Never"
  files,        \* names that begin with file_name, the last written first
  initialized,  \* per process: LOGGER
  day, file,    \* ... of Sink: day of the open file, and that file
  stamp,        \* the day each thread read for the record it is emitting
  written,      \* names under which a record was ever stored
  lost,         \* those of them of which a record was lost since
  trouble       \* failures still to come

sink    == <<day, file>>
history == <<written, lost>>
vars == <<today, rotation, files, initialized, sink, stamp, history, trouble>>

TypeOK ==
  /\ today \in Day /\ rotation \in {"Daily", "Never"}
  /\ files \in Seq(Name) /\ IsInjective(files)
  /\ initialized \in [Process -> BOOLEAN]
  /\ day \in [Process -> Day \cup {NoDay}]
  /\ file \in [Process -> ToSet(files) \cup {NoFile, Removed}]
  /\ \A p \in Process : day[p] = NoDay => file[p] = NoFile
  /\ stamp \in [Thread -> Day \cup {NoDay}]
  /\ written \subseteq Name /\ lost \subseteq written
  /\ trouble \in 0..MaxTrouble

Fault(f) == f \in Faults /\ trouble > 0 /\ trouble' = trouble - 1

Idle == [t \in Thread |-> NoDay]

\* The directory as an earlier run under the same settings left it.
Init ==
  /\ today = 1 /\ rotation \in {"Daily", "Never"}
  /\ files \in {<<>>, <<SingleFile>>, <<Copy>>, <<Copy, SingleFile>>, <<SingleFile, Copy>>}
  /\ initialized = [p \in Process |-> FALSE]
  /\ day = [p \in Process |-> NoDay] /\ file = [p \in Process |-> NoFile]
  /\ stamp = Idle
  /\ written = ToSet(files) /\ lost = {}
  /\ trouble = MaxTrouble

-----------------------------------------------------------------------------
\* Broken variant: sorted by time, but the wrong way round.
PruneKeepsOldest(dir, keep) ==
  IF Len(dir) <= keep THEN dir ELSE SubSeq(dir, Len(dir) - keep + 1, Len(dir))

\* prune(): the first keep of the names, the last written first.  The order is
\* that of the writes: a modification time that the file system notes late, for
\* a file that is open, is left out.
Prune(dir, keep) == SubSeq(dir, 1, IF Len(dir) <= keep THEN Len(dir) ELSE keep)

\* What a clean-up leaves; 0 means no limit.
Limited == IF max_files > 0 THEN Prune(files, max_files) ELSE files

\* A directory that cannot be read, or files that cannot be removed.
Cleaned(dir) ==
  \/ dir = Limited /\ UNCHANGED trouble
  \/ dir = files /\ Fault("read_dir")

Forgets(dir) == lost' = lost \cup (written \ ToSet(dir))

\* Files are opened such that others may delete them.
Held(dir) ==
  [p \in Process |-> IF file[p] \in Name \ ToSet(dir) THEN Removed ELSE file[p]]

\* The file written last is the first of the directory.
Fronted(name, dir) == Cons(name, RemoveFirst(dir, name))

-----------------------------------------------------------------------------
(***************************************************************************)
(* A process: init(), shutdown(), and its end.                             *)
(***************************************************************************)
init(p) ==
  /\ ~initialized[p] /\ initialized' = [initialized EXCEPT ![p] = TRUE]
  /\ Cleaned(files') /\ Forgets(files') /\ file' = Held(files')
  /\ UNCHANGED <<today, rotation, day, stamp, written>>

\* The file is closed, its day stays; a thread that logs later opens it again.
shutdown(p) ==
  /\ initialized[p] /\ file' = [file EXCEPT ![p] = NoFile]
  /\ UNCHANGED <<today, rotation, files, initialized, day, stamp, history, trouble>>

ProcessEnds(p) ==
  /\ initialized[p] /\ initialized' = [initialized EXCEPT ![p] = FALSE]
  /\ day' = [day EXCEPT ![p] = NoDay] /\ file' = [file EXCEPT ![p] = NoFile]
  /\ stamp' = [t \in Thread |-> IF Of[t] = p THEN NoDay ELSE stamp[t]]
  /\ UNCHANGED <<today, rotation, files, history, trouble>>

NextDay ==
  /\ today < LastDay /\ today' = today + 1
  /\ UNCHANGED <<rotation, files, initialized, sink, stamp, history, trouble>>

-----------------------------------------------------------------------------
(***************************************************************************)
(* emit(): now(), and then write_file under the lock.                      *)
(***************************************************************************)
now(t) ==
  /\ initialized[Of[t]] /\ stamp[t] = NoDay
  /\ stamp' = [stamp EXCEPT ![t] = today]
  /\ UNCHANGED <<today, rotation, files, initialized, sink, history, trouble>>

NameOf(d) == IF rotation = "Daily" THEN d ELSE SingleFile

Changes(p, d) == rotation = "Daily" /\ day[p] # d

\* Broken variant: the limit is enforced at start-up only.
DirectoryUncleaned(p, d, dir) == dir = files /\ UNCHANGED trouble

\* The directory once the day has changed; the first record of a process
\* changes it from nothing, which does not count.
Directory(p, d, dir) ==
  IF Changes(p, d) /\ day[p] # NoDay THEN Cleaned(dir) ELSE dir = files /\ UNCHANGED trouble

\* Broken variant: the file of the day before stays open.
OpenStays(p, d) == file[p]

\* The file that is open once the day has changed.
Open(p, d) == IF Changes(p, d) THEN NoFile ELSE file[p]

Opens(p, d) == Open(p, d) = NoFile

\* Broken variant: the day of the file is not kept.
DayForgotten(p, d) == day[p]

DayAfter(p, d) == IF Opens(p, d) THEN d ELSE day[p]

\* A write that fails loses its record and is not modelled: nothing depends on it.
Record(t) ==
  /\ stamp[t] # NoDay
  /\ \E dir \in {files, Limited} :
       LET p == Of[t]
           d == stamp[t]
           target == IF Opens(p, d) THEN NameOf(d) ELSE file[p]
       IN  /\ Directory(p, d, dir)
           /\ IF target = Removed
              THEN files' = dir /\ written' = written
              ELSE files' = Fronted(target, dir) /\ written' = written \cup {target}
           /\ lost' = lost \cup (written \ ToSet(dir)) \cup (IF target = Removed THEN {NameOf(d)} ELSE {})
           /\ file' = [Held(dir) EXCEPT ![p] = target]
           /\ day' = [day EXCEPT ![p] = DayAfter(p, d)]
  /\ stamp' = [stamp EXCEPT ![t] = NoDay]
  /\ UNCHANGED <<today, rotation, initialized>>

\* The record is dropped and the day stays as it was; the directory may be out
\* of reach for the clean-up too.
OpenFails(t) ==
  /\ stamp[t] # NoDay /\ Opens(Of[t], stamp[t])
  /\ Fault("open")
  /\ \/ files' = files
     \/ Changes(Of[t], stamp[t]) /\ day[Of[t]] # NoDay /\ files' = Limited
  /\ Forgets(files')
  /\ file' = [Held(files') EXCEPT ![Of[t]] = NoFile]
  /\ stamp' = [stamp EXCEPT ![t] = NoDay]
  /\ UNCHANGED <<today, rotation, initialized, day, written>>

Next == \/ \E p \in Process : init(p) \/ shutdown(p) \/ ProcessEnds(p)
        \/ NextDay
        \/ \E t \in Thread : now(t) \/ Record(t) \/ OpenFails(t)

Spec == Init /\ [][Next]_vars

-----------------------------------------------------------------------------
(***************************************************************************)
(* What is logged today is there for the rest of the day (logger.rs 253,   *)
(* 297-309, 384-403), in spite of the clean-ups of other processes.  A     *)
(* record that comes late brings its file back to the front of the order,  *)
(* and one such record per other thread can push today's file out, so this *)
(* takes as many files as threads.                                         *)
(***************************************************************************)
Roomy == max_files = 0 \/ max_files >= Cardinality(Thread)

TodayKept == Roomy => today \notin lost

(***************************************************************************)
(* A service that never restarts keeps to the limit too (logger.rs 303-    *)
(* 308): there is at most one file more per process, the one opened after  *)
(* a clean-up, and one for every clean-up or start that failed.            *)
(***************************************************************************)
Bounded ==
  (\E p \in Process : initialized[p]) /\ max_files > 0
    => Len(files) <= max_files + Cardinality(Process) + (MaxTrouble - trouble)

(***************************************************************************)
(* A record is stored in the file of the day its time stamp shows, however *)
(* the records of the threads overtake each other at midnight (logger.rs   *)
(* 297-320).  Only a record that comes late can be lost, in a file that    *)
(* another process has removed meanwhile (logger.rs 384-403).              *)
(***************************************************************************)
OwnDay ==
  [][\A t \in Thread : Record(t) /\ rotation = "Daily" =>
       \/ files' # <<>> /\ files'[1] = stamp[t]
       \/ file[Of[t]] = Removed /\ (Roomy => stamp[t] < today)]_vars

-----------------------------------------------------------------------------
(***************************************************************************)
(* The inductive invariant behind these: what they rest on beside each     *)
(* other.                                                                  *)
(***************************************************************************)

\* Nothing is dated later than today (logger.rs 297).
NotAhead ==
  /\ \A p \in Process : day[p] <= today
  /\ \A t \in Thread : stamp[t] <= today
  /\ \A n \in written : n <= today
  /\ rotation = "Never" => \A n \in written : n \notin Day

\* Only the threads of a process that runs log (logger.rs 253).
Emitting == \A t \in Thread : stamp[t] # NoDay => initialized[Of[t]]

\* The file a process has open is the one of its day (logger.rs 303-320).
OpenOfDay ==
  \A p \in Process : file[p] # NoFile =>
    NameOf(day[p]) \in written /\ file[p] \in {NameOf(day[p]), Removed}

(***************************************************************************)
(* Today's file is never further from the front of the order than there    *)
(* are threads, and nearer by the records still on their way that are      *)
(* late: each of them can push it back by one place.                       *)
(***************************************************************************)
Late == {t \in Thread : stamp[t] # NoDay /\ stamp[t] < today}

NearFront(i) == max_files > 0 => i + Cardinality(Late) <= Cardinality(Thread)

TodayInFront ==
  rotation = "Daily" /\ Roomy =>
    /\ today \in written => \E i \in 1..Len(files) : files[i] = today /\ NearFront(i)
    /\ \A p \in Process : file[p] = Removed => day[p] < today

(***************************************************************************)
(* A process can add to the directory without a clean-up only once: when   *)
(* it opens its first file, or the file of its day anew after another      *)
(* process removed it, which was a clean-up.  So the processes that have   *)
(* done so pay for what exceeds the limit, as does one that did not start  *)
(* yet: it begins with a clean-up.                                         *)
(***************************************************************************)
Settled == {p \in Process : initialized[p] => day[p] # NoDay /\ NameOf(day[p]) \in ToSet(files)}

PaidFor ==
  Process # {} /\ max_files > 0
    => Len(files) <= max_files + Cardinality(Settled) + (MaxTrouble - trouble)

IInv == TypeOK /\ NotAhead /\ Emitting /\ OpenOfDay /\ TodayInFront /\ TodayKept /\ PaidFor
=============================================================================
