---------------------------- MODULE LoggerProofs ----------------------------
(***************************************************************************)
(* The file sink for any number of processes, threads, days and files.     *)
(***************************************************************************)
EXTENDS Logger, SequenceTheorems, FiniteSetTheorems, TLAPS

\* What a directory is: no name twice.
IsDirectory(dir) == dir \in Seq(Name) /\ IsInjective(dir)

\* The names of a directory are those at its places, each at one.
LEMMA DirectoryDomain ==
  ASSUME NEW dir, IsDirectory(dir)
  PROVE  /\ Len(dir) \in Nat /\ DOMAIN dir = 1..Len(dir)
         /\ \A i \in 1..Len(dir) : dir[i] \in Name
         /\ \A i, j \in 1..Len(dir) : dir[i] = dir[j] => i = j
         /\ \A n : n \in ToSet(dir) <=> \E i \in 1..Len(dir) : dir[i] = n
<1>1. dir \in Seq(Name)
  BY DEF IsDirectory
<1>2. Len(dir) \in Nat /\ DOMAIN dir = 1..Len(dir) /\ \A i \in 1..Len(dir) : dir[i] \in Name
  BY <1>1, LenProperties, ElementOfSeq
<1> QED
  BY <1>2 DEF IsDirectory, IsInjective, ToSet

(***************************************************************************)
(* Removing a name leaves the order of the others as it was.               *)
(***************************************************************************)
LEMMA RemoveProperties ==
  ASSUME NEW dir, IsDirectory(dir), NEW i \in 1..Len(dir)
  PROVE  /\ RemoveFirst(dir, dir[i]) \in Seq(Name)
         /\ Len(RemoveFirst(dir, dir[i])) = Len(dir) - 1
         /\ \A j \in 1..Len(dir) - 1 :
              RemoveFirst(dir, dir[i])[j] = IF j < i THEN dir[j] ELSE dir[j + 1]
<1> DEFINE before == SubSeq(dir, 1, i - 1)
           after  == SubSeq(dir, i + 1, Len(dir))
<1>1. RemoveFirst(dir, dir[i]) = before \o after
  <2>1. {j \in 1..Len(dir) : dir[j] = dir[i]} = {i}
    BY DirectoryDomain
  <2>2. Min({i}) = i
    BY DEF Min
  <2> QED
    BY <2>1, <2>2 DEF RemoveFirst, SelectInSeq, RemoveAt
<1>2. /\ before \in Seq(Name) /\ Len(before) = i - 1
      /\ \A j \in 1..i - 1 : before[j] = dir[j]
  <2>1. \A j \in 1..i - 1 : dir[j] \in Name
    BY DirectoryDomain
  <2> QED
    BY <2>1, SubSeqProperties
<1>3. /\ after \in Seq(Name) /\ Len(after) = Len(dir) - i
      /\ \A j \in 1..Len(dir) - i : after[j] = dir[j + i]
  <2>1. \A j \in i + 1..Len(dir) : dir[j] \in Name
    BY DirectoryDomain
  <2> QED
    BY DirectoryDomain, <2>1, SubSeqProperties
<1> HIDE DEF before, after
<1>4. /\ before \o after \in Seq(Name)
      /\ Len(before \o after) = Len(before) + Len(after)
      /\ \A j \in 1..Len(before) + Len(after) :
           (before \o after)[j] = IF j <= Len(before) THEN before[j] ELSE after[j - Len(before)]
  BY <1>2, <1>3, ConcatProperties
<1>5. Len(before) + Len(after) = Len(dir) - 1
  BY <1>2, <1>3, DirectoryDomain
<1>6. ASSUME NEW j \in 1..Len(dir) - 1
      PROVE  (before \o after)[j] = IF j < i THEN dir[j] ELSE dir[j + 1]
  <2>1. CASE j < i
    BY <1>2, <1>4, <1>5, <2>1
  <2>2. CASE ~(j < i)
    <3> DEFINE m == j - Len(before)
    <3>1. m \in 1..Len(dir) - i /\ m + i = j + 1 /\ ~(j <= Len(before))
      BY <1>2, <2>2, DirectoryDomain
    <3>2. after[m] = dir[m + i]
      BY <1>3, <3>1
    <3>3. (before \o after)[j] = after[m]
      BY <1>4, <1>5, <3>1
    <3> QED
      BY <2>2, <3>1, <3>2, <3>3
  <2> QED
    BY <2>1, <2>2
<1> QED
  BY <1>1, <1>4, <1>5, <1>6

(***************************************************************************)
(* A name in front of a sequence.                                          *)
(***************************************************************************)
LEMMA ConsProperties ==
  ASSUME NEW rest \in Seq(Name), NEW n \in Name
  PROVE  /\ Cons(n, rest) \in Seq(Name) /\ Cons(n, rest) # <<>>
         /\ Len(Cons(n, rest)) = Len(rest) + 1 /\ DOMAIN Cons(n, rest) = 1..Len(rest) + 1
         /\ Cons(n, rest)[1] = n
         /\ \A j \in 1..Len(rest) : Cons(n, rest)[j + 1] = rest[j]
<1>1. <<n>> \in Seq(Name) /\ Len(<<n>>) = 1 /\ <<n>>[1] = n
  OBVIOUS
<1>2. Len(rest) \in Nat
  BY LenProperties
<1> DEFINE f == <<n>> \o rest
<1>3. /\ f \in Seq(Name) /\ Len(f) = 1 + Len(rest)
      /\ \A j \in 1..1 + Len(rest) : f[j] = IF j <= 1 THEN <<n>>[j] ELSE rest[j - 1]
  BY <1>1, ConcatProperties
<1> HIDE DEF f
<1>4. DOMAIN f = 1..Len(rest) + 1 /\ Len(f) = Len(rest) + 1
  BY <1>2, <1>3, LenProperties
<1>5. f # <<>>
  BY <1>2, <1>4, EmptySeq
<1>6. f[1] = n
  BY <1>1, <1>2, <1>3
<1>7. ASSUME NEW j \in 1..Len(rest)
      PROVE  f[j + 1] = rest[j]
  <2>1. j + 1 \in 1..1 + Len(rest) /\ ~(j + 1 <= 1) /\ (j + 1) - 1 = j
    BY <1>2
  <2> QED
    BY <1>3, <2>1
<1> QED
  BY <1>3, <1>4, <1>5, <1>6, <1>7 DEF Cons, f

(***************************************************************************)
(* The name written last comes to the front, and moves every other one     *)
(* back by one place at most (Record).                                     *)
(***************************************************************************)
LEMMA FrontedNew ==
  ASSUME NEW dir, IsDirectory(dir), NEW n \in Name, n \notin ToSet(dir)
  PROVE  /\ IsDirectory(Fronted(n, dir)) /\ Fronted(n, dir)[1] = n
         /\ Len(Fronted(n, dir)) = Len(dir) + 1
         /\ \A i \in 1..Len(dir) : Fronted(n, dir)[i + 1] = dir[i]
<1> DEFINE f == Cons(n, dir)
<1>1. Fronted(n, dir) = f
  <2>1. ~\E i \in 1..Len(dir) : dir[i] = n
    BY DirectoryDomain
  <2> QED
    BY <2>1 DEF Fronted, RemoveFirst
<1>2. /\ f \in Seq(Name) /\ Len(f) = Len(dir) + 1 /\ DOMAIN f = 1..Len(dir) + 1
      /\ f[1] = n /\ \A j \in 1..Len(dir) : f[j + 1] = dir[j]
  BY ConsProperties DEF IsDirectory
<1> HIDE DEF f
<1>3. \A i \in 1..Len(dir) : dir[i] # n
  BY DirectoryDomain
<1>4. \A j \in 2..Len(dir) + 1 : j - 1 \in 1..Len(dir) /\ f[j] = dir[j - 1]
  <2> TAKE j \in 2..Len(dir) + 1
  <2>1. j - 1 \in 1..Len(dir) /\ (j - 1) + 1 = j
    BY DirectoryDomain
  <2> QED
    BY <1>2, <2>1
<1>5. IsInjective(f)
  <2> SUFFICES ASSUME NEW a \in 1..Len(dir) + 1, NEW b \in 1..Len(dir) + 1, f[a] = f[b]
               PROVE  a = b
    BY <1>2 DEF IsInjective
  <2>1. CASE a = 1 \/ b = 1
    BY <1>2, <1>3, <1>4, <2>1, DirectoryDomain
  <2>2. CASE a # 1 /\ b # 1
    BY <1>4, <2>2, DirectoryDomain
  <2> QED
    BY <2>1, <2>2
<1> QED
  BY <1>1, <1>2, <1>5 DEF IsDirectory

\* A name that was there already: only those in front of it move back.
LEMMA FrontedOld ==
  ASSUME NEW dir, IsDirectory(dir), NEW k \in 1..Len(dir), NEW n, n = dir[k]
  PROVE  /\ IsDirectory(Fronted(n, dir)) /\ Fronted(n, dir)[1] = n
         /\ Len(Fronted(n, dir)) = Len(dir)
         /\ \A i \in 1..Len(dir) : i < k => Fronted(n, dir)[i + 1] = dir[i]
         /\ \A i \in 1..Len(dir) : i > k => Fronted(n, dir)[i] = dir[i]
<1> DEFINE rest == RemoveFirst(dir, n)
           f    == Cons(n, rest)
<1>1. /\ rest \in Seq(Name) /\ Len(rest) = Len(dir) - 1
      /\ \A j \in 1..Len(dir) - 1 : rest[j] = IF j < k THEN dir[j] ELSE dir[j + 1]
  BY RemoveProperties
<1>2. n \in Name /\ Len(dir) \in Nat
  BY DirectoryDomain
<1> HIDE DEF rest
<1>3. /\ f \in Seq(Name) /\ Len(f) = Len(dir) /\ DOMAIN f = 1..Len(dir)
      /\ f[1] = n /\ \A j \in 1..Len(dir) - 1 : f[j + 1] = rest[j]
  <2>1. Len(rest) + 1 = Len(dir)
    BY <1>1, <1>2
  <2>2. /\ f \in Seq(Name) /\ Len(f) = Len(rest) + 1 /\ DOMAIN f = 1..Len(rest) + 1
        /\ f[1] = n /\ \A j \in 1..Len(rest) : f[j + 1] = rest[j]
    BY <1>1, <1>2, ConsProperties
  <2> HIDE DEF f
  <2> QED
    BY <1>1, <2>1, <2>2
<1> HIDE DEF f
<1>4. \A i \in 1..Len(dir) : i < k => f[i + 1] = dir[i]
  <2> TAKE i \in 1..Len(dir)
  <2> HAVE i < k
  <2>1. i \in 1..Len(dir) - 1
    BY <1>2
  <2> QED
    BY <1>1, <1>3, <2>1
<1>5. \A i \in 1..Len(dir) : i > k => f[i] = dir[i]
  <2> TAKE i \in 1..Len(dir)
  <2> HAVE i > k
  <2>1. i - 1 \in 1..Len(dir) - 1 /\ ~(i - 1 < k) /\ (i - 1) + 1 = i
    BY <1>2
  <2> QED
    BY <1>1, <1>3, <2>1
<1>6. IsInjective(f)
  <2> DEFINE at(a) == IF a = 1 THEN k ELSE IF a <= k THEN a - 1 ELSE a
  <2>1. ASSUME NEW a \in 1..Len(dir)
        PROVE  at(a) \in 1..Len(dir) /\ f[a] = dir[at(a)]
    <3>1. CASE a = 1
      BY <1>3, <3>1
    <3>2. CASE a # 1 /\ a <= k
      <4>1. a - 1 \in 1..Len(dir) /\ a - 1 < k /\ (a - 1) + 1 = a /\ at(a) = a - 1
        BY <1>2, <3>2
      <4> QED
        BY <1>4, <4>1
    <3>3. CASE a > k
      BY <1>5, <3>3
    <3> QED
      BY <3>1, <3>2, <3>3
  <2> SUFFICES ASSUME NEW a \in 1..Len(dir), NEW b \in 1..Len(dir), f[a] = f[b]
               PROVE  a = b
    BY <1>3 DEF IsInjective
  <2>2. dir[at(a)] = dir[at(b)] /\ at(a) \in 1..Len(dir) /\ at(b) \in 1..Len(dir)
    BY <2>1
  <2>3. at(a) = at(b)
    <3> HIDE DEF at
    <3> QED
      BY <2>2, DirectoryDomain
  <2> QED
    BY <2>3
<1> QED
  BY <1>3, <1>4, <1>5, <1>6 DEF IsDirectory, Fronted, rest, f

\* Both cases of a write, the way the invariants need them.
LEMMA FrontedProperties ==
  ASSUME NEW dir, IsDirectory(dir), NEW n \in Name
  PROVE  /\ IsDirectory(Fronted(n, dir))
         /\ Fronted(n, dir) # <<>> /\ Fronted(n, dir)[1] = n
         /\ ToSet(Fronted(n, dir)) = ToSet(dir) \cup {n}
         /\ Len(Fronted(n, dir)) = IF n \in ToSet(dir) THEN Len(dir) ELSE Len(dir) + 1
         /\ \A i \in 1..Len(dir) : dir[i] # n =>
              \E j \in 1..i + 1 : j \in 1..Len(Fronted(n, dir)) /\ Fronted(n, dir)[j] = dir[i]
<1> DEFINE f == Fronted(n, dir)
<1>1. ASSUME n \notin ToSet(dir)
      PROVE  /\ IsDirectory(f) /\ f[1] = n /\ Len(f) = Len(dir) + 1
             /\ \A i \in 1..Len(dir) : f[i + 1] = dir[i]
  BY <1>1, FrontedNew
<1>2. ASSUME NEW k \in 1..Len(dir), dir[k] = n
      PROVE  /\ IsDirectory(f) /\ f[1] = n /\ Len(f) = Len(dir)
             /\ \A i \in 1..Len(dir) : i < k => f[i + 1] = dir[i]
             /\ \A i \in 1..Len(dir) : i > k => f[i] = dir[i]
  BY <1>2, FrontedOld
<1> HIDE DEF f
<1>3. IsDirectory(f) /\ f[1] = n /\ Len(f) = IF n \in ToSet(dir) THEN Len(dir) ELSE Len(dir) + 1
  <2>1. CASE n \notin ToSet(dir)
    BY <1>1, <2>1
  <2>2. CASE n \in ToSet(dir)
    BY <1>2, <2>2, DirectoryDomain
  <2> QED
    BY <2>1, <2>2
<1>4. ASSUME NEW i \in 1..Len(dir), dir[i] # n
      PROVE  \E j \in 1..i + 1 : j \in 1..Len(f) /\ f[j] = dir[i]
  <2>1. CASE n \notin ToSet(dir)
    BY <2>1, <1>1, DirectoryDomain
  <2>2. CASE n \in ToSet(dir)
    <3>1. PICK k \in 1..Len(dir) : dir[k] = n
      BY <2>2, DirectoryDomain
    <3>2. CASE i < k
      BY <3>1, <3>2, <1>2, DirectoryDomain
    <3>3. CASE i > k
      BY <3>1, <3>3, <1>2, DirectoryDomain
    <3> QED
      BY <1>4, <3>1, <3>2, <3>3
  <2> QED
    BY <2>1, <2>2
<1>5. ASSUME NEW j \in 1..Len(f)
      PROVE  f[j] \in ToSet(dir) \cup {n}
  <2>1. CASE n \notin ToSet(dir)
    <3>1. CASE j = 1
      BY <1>3, <3>1
    <3>2. CASE j # 1
      <4>1. j - 1 \in 1..Len(dir) /\ (j - 1) + 1 = j
        BY <1>3, <2>1, <3>2, DirectoryDomain
      <4>2. f[(j - 1) + 1] = dir[j - 1]
        BY <1>1, <2>1, <4>1
      <4> QED
        BY <4>1, <4>2, DirectoryDomain
    <3> QED
      BY <3>1, <3>2
  <2>2. CASE n \in ToSet(dir)
    <3>1. PICK k \in 1..Len(dir) : dir[k] = n
      BY <2>2, DirectoryDomain
    <3>2. CASE j = 1
      BY <1>3, <3>2
    <3>3. CASE j > k
      BY <1>3, <2>2, <3>1, <3>3, <1>2, DirectoryDomain
    <3>4. CASE j # 1 /\ j <= k
      <4>1. j - 1 \in 1..Len(dir) /\ (j - 1) + 1 = j /\ j - 1 < k
        BY <1>3, <2>2, <3>4, DirectoryDomain
      <4>2. f[(j - 1) + 1] = dir[j - 1]
        BY <1>2, <3>1, <4>1
      <4> QED
        BY <4>1, <4>2, DirectoryDomain
    <3> QED
      BY <3>2, <3>3, <3>4, <3>1
  <2> QED
    BY <2>1, <2>2
<1>6. Len(f) \in Nat /\ 1 \in 1..Len(f)
  BY <1>3, DirectoryDomain
<1>7. f # <<>>
  BY <1>3, <1>6, EmptySeq
<1>8. ToSet(f) = ToSet(dir) \cup {n}
  <2>1. ToSet(f) \subseteq ToSet(dir) \cup {n}
    BY <1>3, <1>5, DirectoryDomain
  <2>2. n \in ToSet(f)
    BY <1>3, <1>6, DirectoryDomain
  <2>3. ASSUME NEW m \in ToSet(dir), m # n PROVE m \in ToSet(f)
    <3>1. PICK i \in 1..Len(dir) : dir[i] = m
      BY DirectoryDomain
    <3>2. PICK j \in 1..Len(f) : f[j] = m
      BY <1>4, <2>3, <3>1
    <3> QED
      BY <1>3, <3>2, DirectoryDomain
  <2> QED
    BY <2>1, <2>2, <2>3
<1> QED
  BY <1>3, <1>4, <1>7, <1>8 DEF f

(***************************************************************************)
(* prune() keeps the first names of the order.                             *)
(***************************************************************************)
LEMMA PruneProperties ==
  ASSUME NEW dir, IsDirectory(dir), NEW keep \in Nat
  PROVE  /\ IsDirectory(Prune(dir, keep))
         /\ Len(Prune(dir, keep)) <= keep /\ Len(Prune(dir, keep)) <= Len(dir)
         /\ ToSet(Prune(dir, keep)) \subseteq ToSet(dir)
         /\ \A i \in 1..Len(dir) : i <= keep => i \in 1..Len(Prune(dir, keep)) /\ Prune(dir, keep)[i] = dir[i]
<1> DEFINE n == IF Len(dir) <= keep THEN Len(dir) ELSE keep
           f == SubSeq(dir, 1, n)
<1>1. n \in Nat /\ n <= Len(dir) /\ n <= keep /\ \A i \in 1..Len(dir) : i <= keep => i <= n
  BY DirectoryDomain
<1> HIDE DEF n
<1>2. f \in Seq(Name) /\ Len(f) = n /\ \A i \in 1..n : f[i] = dir[i]
  <2>1. \A i \in 1..n : dir[i] \in Name
    BY <1>1, DirectoryDomain
  <2> QED
    BY <1>1, <2>1, SubSeqProperties
<1> HIDE DEF f
<1>3. DOMAIN f = 1..n
  BY <1>2, LenProperties
<1>4. IsDirectory(f)
  BY <1>1, <1>2, <1>3, DirectoryDomain DEF IsDirectory, IsInjective
<1>5. ToSet(f) \subseteq ToSet(dir)
  BY <1>1, <1>2, <1>4, DirectoryDomain
<1> QED
  BY <1>1, <1>2, <1>4, <1>5, DirectoryDomain DEF Prune, f, n

-----------------------------------------------------------------------------
USE LoggerAssumption
USE DEF sink, history, Fault, NoDay, SingleFile, Copy, NoFile, Removed

(***************************************************************************)
(* What a clean-up, or none, leaves of the directory.                      *)
(***************************************************************************)
LEMMA LeftOver ==
  ASSUME TypeOK, NEW dir \in {files, Limited}
  PROVE  /\ IsDirectory(files) /\ IsDirectory(dir)
         /\ ToSet(dir) \subseteq ToSet(files)
         /\ dir # files /\ max_files > 0 => Len(dir) <= max_files
         /\ Limited # files => max_files > 0
         /\ \A i \in 1..Len(files) :
              (max_files > 0 => i <= max_files) => i \in 1..Len(dir) /\ dir[i] = files[i]
<1>1. IsDirectory(files)
  BY DEF TypeOK, IsDirectory
<1>2. CASE dir = files
  BY <1>1, <1>2 DEF Limited
<1>3. CASE dir # files
  <2>1. max_files > 0 /\ dir = Prune(files, max_files)
    BY <1>3 DEF Limited
  <2> QED
    BY <1>1, <1>3, <2>1, PruneProperties
<1> QED
  BY <1>2, <1>3

(***************************************************************************)
(* What a record does, once the clean-up of a change of the day has left   *)
(* dir: it goes to the file of its own day, or it is lost in a file that   *)
(* was removed while it was open.                                          *)
(***************************************************************************)
Emitted(t, dir) ==
  /\ Of[t] \in Process /\ stamp[t] \in Day
  /\ Directory(Of[t], stamp[t], dir)
  /\ stamp' = [stamp EXCEPT ![t] = NoDay]
  /\ UNCHANGED <<today, rotation, initialized>>

Stored(t, dir) ==
  /\ files' = Fronted(NameOf(stamp[t]), dir)
  /\ written' = written \cup {NameOf(stamp[t])} /\ lost' = lost \cup (written \ ToSet(dir))
  /\ file' = [Held(dir) EXCEPT ![Of[t]] = NameOf(stamp[t])]
  /\ IF Opens(Of[t], stamp[t])
     THEN day' = [day EXCEPT ![Of[t]] = stamp[t]]
     ELSE /\ day' = day /\ dir = files
          /\ file[Of[t]] = NameOf(stamp[t]) /\ NameOf(stamp[t]) = NameOf(day[Of[t]])

Missed(t, dir) ==
  /\ ~Opens(Of[t], stamp[t]) /\ file[Of[t]] = Removed /\ dir = files
  /\ NameOf(stamp[t]) = NameOf(day[Of[t]])
  /\ files' = files /\ written' = written /\ day' = day
  /\ file' = [Held(dir) EXCEPT ![Of[t]] = Removed]
  /\ lost' = lost \cup (written \ ToSet(dir)) \cup {NameOf(stamp[t])}

\* Every record is stored in the file of its day or missed (write_file).
LEMMA RecordCases ==
  ASSUME TypeOK, OpenOfDay, NEW t \in Thread, Record(t)
  PROVE  \E dir \in {files, Limited} : Emitted(t, dir) /\ (Stored(t, dir) \/ Missed(t, dir))
<1>1. Of[t] \in Process /\ stamp[t] \in Day
  BY DEF Record, TypeOK
<1>2. PICK dir \in {files, Limited} :
        LET p == Of[t]
            d == stamp[t]
            target == IF Opens(p, d) THEN NameOf(d) ELSE file[p]
        IN  /\ Directory(p, d, dir)
            /\ IF target = Removed
               THEN files' = dir /\ written' = written
               ELSE files' = Fronted(target, dir) /\ written' = written \cup {target}
            /\ lost' = lost \cup (written \ ToSet(dir)) \cup (IF target = Removed THEN {NameOf(d)} ELSE {})
            /\ file' = [Held(dir) EXCEPT ![p] = target]
            /\ day' = [day EXCEPT ![p] = DayAfter(p, d)]
  BY DEF Record
<1>3. Emitted(t, dir)
  BY <1>1, <1>2 DEF Record, Emitted
<1>4. NameOf(stamp[t]) # Removed
  BY <1>1 DEF NameOf, Day
<1>5. CASE Opens(Of[t], stamp[t])
  BY <1>2, <1>3, <1>4, <1>5 DEF DayAfter, Stored
<1>6. CASE ~Opens(Of[t], stamp[t])
  <2>1. ~Changes(Of[t], stamp[t]) /\ file[Of[t]] # NoFile
    BY <1>6 DEF Opens, Open
  <2>2. NameOf(stamp[t]) = NameOf(day[Of[t]])
    BY <2>1 DEF Changes, NameOf
  <2>3. file[Of[t]] \in {NameOf(stamp[t]), Removed}
    BY <1>1, <2>1, <2>2 DEF OpenOfDay
  <2>4. dir = files
    BY <1>2, <2>1 DEF Directory
  <2>5. day' = day
    BY <1>1, <1>2, <1>6 DEF DayAfter, TypeOK
  <2> QED
    BY <1>2, <1>3, <1>4, <1>6, <2>2, <2>3, <2>4, <2>5 DEF Stored, Missed
<1> QED
  BY <1>5, <1>6

(***************************************************************************)
(* A file that is open and no longer in the directory is known as removed. *)
(***************************************************************************)
LEMMA HeldType ==
  ASSUME TypeOK, NEW dir
  PROVE  /\ Held(dir) \in [Process -> ToSet(dir) \cup {NoFile, Removed}]
         /\ \A p \in Process : Held(dir)[p] \in {file[p], Removed}
         /\ \A p \in Process : file[p] = NoFile => Held(dir)[p] = NoFile
<1>1. ToSet(files) \subseteq Name
  BY DirectoryDomain DEF TypeOK, IsDirectory
<1> QED
  BY <1>1 DEF Held, TypeOK, Name, Day

-----------------------------------------------------------------------------
(***************************************************************************)
(* Every variable keeps its type; what is open is in the directory.        *)
(***************************************************************************)
LEMMA TypeStep ==
  ASSUME TypeOK, OpenOfDay, Emitting, [Next]_vars
  PROVE  TypeOK'
<1>1. ASSUME NEW p \in Process, init(p) PROVE TypeOK'
  <2>1. files' \in {files, Limited} /\ file' = Held(files') /\ trouble' \in 0..MaxTrouble
    BY <1>1 DEF init, Cleaned, TypeOK
  <2>2. IsDirectory(files')
    BY <2>1, LeftOver
  <2>3. lost' \subseteq written
    BY <1>1 DEF init, Forgets, TypeOK
  <2> QED
    BY <1>1, <2>1, <2>2, <2>3, HeldType DEF init, TypeOK, IsDirectory
<1>2. ASSUME NEW p \in Process, shutdown(p) PROVE TypeOK'
  BY <1>2 DEF shutdown, TypeOK
<1>3. ASSUME NEW p \in Process, ProcessEnds(p) PROVE TypeOK'
  BY <1>3 DEF ProcessEnds, TypeOK
<1>4. CASE NextDay
  BY <1>4 DEF NextDay, TypeOK, Day
<1>5. ASSUME NEW t \in Thread, now(t) PROVE TypeOK'
  BY <1>5 DEF now, TypeOK
<1>6. ASSUME NEW t \in Thread, Record(t) PROVE TypeOK'
  <2> DEFINE name == NameOf(stamp[t])
  <2>1. PICK dir \in {files, Limited} : Emitted(t, dir) /\ (Stored(t, dir) \/ Missed(t, dir))
    BY <1>6, RecordCases
  <2>2. trouble' \in 0..MaxTrouble /\ name \in Name
    BY <2>1 DEF Emitted, Directory, Cleaned, TypeOK, NameOf, Name
  <2>3. /\ Held(dir) \in [Process -> ToSet(dir) \cup {NoFile, Removed}]
        /\ \A q \in Process : day[q] = NoDay => Held(dir)[q] = NoFile
    BY HeldType DEF TypeOK
  <2>4. CASE Stored(t, dir)
    <3>1. IsDirectory(files') /\ ToSet(files') = ToSet(dir) \cup {name}
      BY <2>2, <2>4, LeftOver, FrontedProperties DEF Stored
    <3>2. file' \in [Process -> ToSet(files') \cup {NoFile, Removed}]
      BY <2>3, <2>4, <3>1 DEF Stored
    <3>3. written' \subseteq Name /\ lost' \subseteq written'
      BY <2>2, <2>4 DEF TypeOK, Stored
    <3>4. day' \in [Process -> Day \cup {NoDay}] /\ day'[Of[t]] # NoDay
      BY <2>1, <2>4 DEF TypeOK, Emitted, Stored, Day, NameOf
    <3>5. \A q \in Process : day'[q] = NoDay => file'[q] = NoFile
      BY <2>1, <2>3, <2>4, <3>4 DEF TypeOK, Emitted, Stored
    <3> QED
      BY <2>1, <2>2, <3>1, <3>2, <3>3, <3>4, <3>5 DEF TypeOK, IsDirectory, Emitted
  <2>5. CASE Missed(t, dir)
    <3>1. name \in written
      BY <2>1, <2>5 DEF OpenOfDay, Missed, Emitted
    <3> QED
      BY <2>1, <2>2, <2>3, <2>5, <3>1 DEF TypeOK, Missed, Emitted
  <2> QED
    BY <2>1, <2>4, <2>5
<1>7. ASSUME NEW t \in Thread, OpenFails(t) PROVE TypeOK'
  <2>1. files' \in {files, Limited} /\ trouble' \in 0..MaxTrouble /\ lost' \subseteq written
    BY <1>7 DEF OpenFails, Forgets, TypeOK
  <2>2. IsDirectory(files')
    BY <2>1, LeftOver
  <2> QED
    BY <1>7, <2>1, <2>2, HeldType DEF OpenFails, TypeOK, IsDirectory
<1>8. CASE UNCHANGED vars
  BY <1>8 DEF vars, TypeOK
<1> QED
  BY <1>1, <1>2, <1>3, <1>4, <1>5, <1>6, <1>7, <1>8 DEF Next

(***************************************************************************)
(* Nothing is dated later than today: a thread reads the clock first and   *)
(* writes afterwards (now, Record).                                        *)
(***************************************************************************)
LEMMA NotAheadStep ==
  ASSUME TypeOK, NotAhead, OpenOfDay, [Next]_vars
  PROVE  NotAhead'
<1>0. /\ today \in Day /\ today \in Int /\ written \subseteq Name
  BY DEF TypeOK, Day
<1>1. ASSUME NEW p \in Process, init(p) PROVE NotAhead'
  BY <1>1 DEF init, NotAhead
<1>2. ASSUME NEW p \in Process, shutdown(p) PROVE NotAhead'
  BY <1>2 DEF shutdown, NotAhead
<1>3. ASSUME NEW p \in Process, ProcessEnds(p) PROVE NotAhead'
  BY <1>0, <1>3 DEF ProcessEnds, NotAhead, TypeOK, Day
<1>4. CASE NextDay
  <2>1. \A n : n \in Int /\ n <= today => n <= today + 1
    BY <1>0
  <2>2. /\ \A p \in Process : day[p] \in Int
        /\ \A t \in Thread : stamp[t] \in Int
        /\ \A n \in written : n \in Int
    BY <1>0 DEF TypeOK, Day, Name
  <2> QED
    BY <1>4, <2>1, <2>2 DEF NextDay, NotAhead
<1>5. ASSUME NEW t \in Thread, now(t) PROVE NotAhead'
  BY <1>0, <1>5 DEF now, NotAhead, TypeOK
<1>6. ASSUME NEW t \in Thread, Record(t) PROVE NotAhead'
  <2>1. PICK dir \in {files, Limited} : Emitted(t, dir) /\ (Stored(t, dir) \/ Missed(t, dir))
    BY <1>6, RecordCases
  <2>2. /\ NameOf(stamp[t]) <= today /\ stamp[t] <= today
        /\ rotation = "Never" => NameOf(stamp[t]) \notin Day
    BY <1>0, <2>1 DEF NotAhead, NameOf, Emitted, Day
  <2>3. \A q \in Process : day'[q] <= today
    BY <2>1, <2>2 DEF NotAhead, Stored, Missed, TypeOK, Emitted
  <2>4. \A u \in Thread : stamp'[u] <= today
    BY <1>0, <2>1 DEF NotAhead, TypeOK, Emitted, Day
  <2>5. written' \subseteq written \cup {NameOf(stamp[t])}
    BY <2>1 DEF Stored, Missed
  <2>6. \A n \in written' : n <= today /\ (rotation = "Never" => n \notin Day)
    BY <2>2, <2>5 DEF NotAhead
  <2>7. today' = today /\ rotation' = rotation
    BY <2>1 DEF Emitted
  <2> QED
    BY <2>3, <2>4, <2>6, <2>7 DEF NotAhead
<1>7. ASSUME NEW t \in Thread, OpenFails(t) PROVE NotAhead'
  BY <1>0, <1>7 DEF OpenFails, NotAhead, TypeOK, Day
<1>8. CASE UNCHANGED vars
  BY <1>8 DEF vars, NotAhead
<1> QED
  BY <1>1, <1>2, <1>3, <1>4, <1>5, <1>6, <1>7, <1>8 DEF Next

(***************************************************************************)
(* A process that ends takes its threads' records with it (ProcessEnds).   *)
(***************************************************************************)
LEMMA EmittingStep ==
  ASSUME TypeOK, Emitting, OpenOfDay, [Next]_vars
  PROVE  Emitting'
<1>1. ASSUME NEW p \in Process, init(p) PROVE Emitting'
  BY <1>1 DEF init, Emitting, TypeOK
<1>2. ASSUME NEW p \in Process, shutdown(p) PROVE Emitting'
  BY <1>2 DEF shutdown, Emitting
<1>3. ASSUME NEW p \in Process, ProcessEnds(p) PROVE Emitting'
  BY <1>3 DEF ProcessEnds, Emitting, TypeOK
<1>4. CASE NextDay
  BY <1>4 DEF NextDay, Emitting
<1>5. ASSUME NEW t \in Thread, now(t) PROVE Emitting'
  BY <1>5 DEF now, Emitting, TypeOK
<1>6. ASSUME NEW t \in Thread, Record(t) PROVE Emitting'
  BY <1>6 DEF Record, Emitting, TypeOK
<1>7. ASSUME NEW t \in Thread, OpenFails(t) PROVE Emitting'
  BY <1>7 DEF OpenFails, Emitting, TypeOK
<1>8. CASE UNCHANGED vars
  BY <1>8 DEF vars, Emitting
<1> QED
  BY <1>1, <1>2, <1>3, <1>4, <1>5, <1>6, <1>7, <1>8 DEF Next

(***************************************************************************)
(* The file that is open stays that of the day: when the day changes it is *)
(* closed, and the next one is opened under the day of the record, also by *)
(* a record that comes late (Open, DayAfter).                              *)
(***************************************************************************)
LEMMA OpenOfDayStep ==
  ASSUME TypeOK, OpenOfDay, [Next]_vars
  PROVE  OpenOfDay'
<1>1. ASSUME NEW p \in Process, init(p) PROVE OpenOfDay'
  <2>1. file' = Held(files') /\ UNCHANGED <<rotation, day, written>>
    BY <1>1 DEF init
  <2>2. \A q \in Process : /\ Held(files')[q] \in {file[q], Removed}
                           /\ file[q] = NoFile => Held(files')[q] = NoFile
    BY HeldType
  <2> QED
    BY <2>1, <2>2 DEF OpenOfDay, NameOf
<1>2. ASSUME NEW p \in Process, shutdown(p) PROVE OpenOfDay'
  BY <1>2 DEF shutdown, OpenOfDay, NameOf, TypeOK
<1>3. ASSUME NEW p \in Process, ProcessEnds(p) PROVE OpenOfDay'
  BY <1>3 DEF ProcessEnds, OpenOfDay, NameOf, TypeOK
<1>4. CASE NextDay
  BY <1>4 DEF NextDay, OpenOfDay, NameOf
<1>5. ASSUME NEW t \in Thread, now(t) PROVE OpenOfDay'
  BY <1>5 DEF now, OpenOfDay, NameOf
<1>6. ASSUME NEW t \in Thread, Record(t) PROVE OpenOfDay'
  <2>1. PICK dir \in {files, Limited} : Emitted(t, dir) /\ (Stored(t, dir) \/ Missed(t, dir))
    BY <1>6, RecordCases
  <2>2. \A q \in Process : /\ Held(dir)[q] \in {file[q], Removed}
                           /\ file[q] = NoFile => Held(dir)[q] = NoFile
    BY HeldType
  <2>3. Held(dir) \in [Process -> ToSet(dir) \cup {NoFile, Removed}]
    BY HeldType
  <2>4. CASE Stored(t, dir)
    <3>1. ASSUME NEW q \in Process, q # Of[t], file'[q] # NoFile
          PROVE  /\ file[q] # NoFile /\ file'[q] \in {file[q], Removed} /\ day'[q] = day[q]
                 /\ NameOf(day[q]) \in written'
      BY <2>1, <2>2, <2>3, <2>4, <3>1 DEF Stored, Emitted, OpenOfDay, TypeOK
    <3>2. /\ file'[Of[t]] = NameOf(stamp[t]) /\ NameOf(day'[Of[t]]) = NameOf(stamp[t])
          /\ NameOf(stamp[t]) \in written'
      BY <2>1, <2>3, <2>4 DEF Stored, Emitted, TypeOK
    <3> QED
      BY <2>1, <3>1, <3>2 DEF OpenOfDay, Emitted, NameOf
  <2>5. CASE Missed(t, dir)
    BY <2>1, <2>2, <2>3, <2>5 DEF Missed, Emitted, OpenOfDay, TypeOK, NameOf
  <2> QED
    BY <2>1, <2>4, <2>5
<1>7. ASSUME NEW t \in Thread, OpenFails(t) PROVE OpenOfDay'
  <2>1. \A q \in Process : /\ Held(files')[q] \in {file[q], Removed}
                           /\ file[q] = NoFile => Held(files')[q] = NoFile
    BY HeldType
  <2>2. Held(files') \in [Process -> ToSet(files') \cup {NoFile, Removed}]
    BY HeldType
  <2> QED
    BY <1>7, <2>1, <2>2 DEF OpenFails, OpenOfDay, NameOf
<1>8. CASE UNCHANGED vars
  BY <1>8 DEF vars, OpenOfDay, NameOf
<1> QED
  BY <1>1, <1>2, <1>3, <1>4, <1>5, <1>6, <1>7, <1>8 DEF Next


-----------------------------------------------------------------------------
(***************************************************************************)
(* The records that are late are those of so many threads.                 *)
(***************************************************************************)
LEMMA LateFinite ==
  /\ IsFiniteSet(Late) /\ Cardinality(Late) \in Nat /\ Cardinality(Thread) \in Nat
  /\ Cardinality(Late) <= Cardinality(Thread)
  /\ \A S \in SUBSET Late : Cardinality(S) \in Nat /\ Cardinality(S) <= Cardinality(Late)
  /\ \A t \in Late : Cardinality(Late \ {t}) = Cardinality(Late) - 1
  /\ \A S \in SUBSET Thread : \A t \in Thread \ S :
       Cardinality(S) \in Nat /\ 1 + Cardinality(S) <= Cardinality(Thread)
<1>1. Late \subseteq Thread
  BY DEF Late
<1>2. \A S \in SUBSET Thread :
        /\ IsFiniteSet(S) /\ Cardinality(S) \in Nat /\ Cardinality(S) <= Cardinality(Thread)
        /\ \A R \in SUBSET S : Cardinality(R) \in Nat /\ Cardinality(R) <= Cardinality(S)
        /\ \A t \in S : Cardinality(S \ {t}) = Cardinality(S) - 1
  BY FS_Subset, FS_CardinalityType, FS_RemoveElement
<1>3. ASSUME NEW S \in SUBSET Thread, NEW t \in Thread \ S
      PROVE  Cardinality(S) \in Nat /\ 1 + Cardinality(S) <= Cardinality(Thread)
  <2>1. S \in SUBSET (Thread \ {t}) /\ t \in Thread /\ Thread \ {t} \in SUBSET Thread
    OBVIOUS
  <2>2. Cardinality(Thread \ {t}) = Cardinality(Thread) - 1
    BY <1>2, <2>1
  <2>3. Cardinality(S) \in Nat /\ Cardinality(S) <= Cardinality(Thread \ {t})
    BY <1>2, <2>1
  <2>4. Cardinality(Thread) \in Nat
    BY FS_CardinalityType
  <2> QED
    BY <2>2, <2>3, <2>4
<1>4. Cardinality(Thread) \in Nat
  BY FS_CardinalityType
<1> QED
  BY <1>1, <1>2, <1>3, <1>4

\* As long as no other thread comes late, a place stays near enough.
LEMMA NearFrontKept ==
  ASSUME Late' \subseteq Late, NEW i \in Nat, NearFront(i)
  PROVE  NearFront(i)'
<1>1. Cardinality(Late') \in Nat /\ Cardinality(Late') <= Cardinality(Late)
  BY LateFinite
<1>2. max_files' = max_files /\ Cardinality(Thread)' = Cardinality(Thread)
  OBVIOUS
<1> QED
  BY <1>1, <1>2, LateFinite DEF NearFront

(***************************************************************************)
(* A clean-up never reaches the file of today, if there is room for one    *)
(* file per thread.                                                        *)
(***************************************************************************)
LEMMA TodayStays ==
  ASSUME TypeOK, TodayInFront, Roomy, rotation = "Daily", today \in written,
         NEW dir \in {files, Limited}
  PROVE  /\ \E i \in 1..Len(dir) : dir[i] = today /\ NearFront(i)
         /\ today \in ToSet(dir)
<1>1. PICK i \in 1..Len(files) : files[i] = today /\ NearFront(i)
  BY DEF TodayInFront
<1>2. max_files > 0 => i <= max_files
  BY <1>1, LateFinite DEF NearFront, Roomy
<1>3. i \in 1..Len(dir) /\ dir[i] = today
  BY <1>1, <1>2, LeftOver
<1> QED
  BY <1>1, <1>3, LeftOver, DirectoryDomain

(***************************************************************************)
(* So a file that another process removes while it is open is one of an    *)
(* earlier day.                                                            *)
(***************************************************************************)
LEMMA RemovedIsOlder ==
  ASSUME TypeOK, NotAhead, OpenOfDay, TodayInFront, Roomy, rotation = "Daily",
         NEW dir \in {files, Limited}, NEW p \in Process, Held(dir)[p] = Removed
  PROVE  day[p] < today
<1>1. CASE file[p] = Removed
  BY <1>1 DEF TodayInFront
<1>2. CASE file[p] # Removed
  <2>1. file[p] \in Name \ ToSet(dir)
    BY <1>2 DEF Held
  <2>2. file[p] # NoFile
    BY <2>1 DEF Name, Day
  <2>3. day[p] \in written /\ day[p] \notin ToSet(dir)
    BY <1>2, <2>1, <2>2 DEF OpenOfDay, NameOf
  <2>4. day[p] # today
    BY <2>3, TodayStays
  <2>5. day[p] <= today /\ day[p] \in Int /\ today \in Int
    BY DEF NotAhead, TypeOK, Day
  <2> QED
    BY <2>4, <2>5
<1> QED
  BY <1>1, <1>2

\* A file that is open and removed is of an earlier day after every step.
LEMMA RemovedIsOlderStep ==
  ASSUME TypeOK, NotAhead, OpenOfDay, TodayInFront, Roomy, rotation = "Daily", [Next]_vars,
         NEW q \in Process, file'[q] = Removed
  PROVE  day'[q] < today'
<1>0. \A dir \in {files, Limited} : Held(dir)[q] = Removed => day[q] < today
  BY RemovedIsOlder
<1>00. file[q] = Removed => day[q] < today
  BY DEF TodayInFront
<1>1. ASSUME NEW p \in Process, init(p) PROVE day'[q] < today'
  BY <1>0, <1>1 DEF init, Cleaned
<1>2. ASSUME NEW p \in Process, shutdown(p) PROVE day'[q] < today'
  BY <1>00, <1>2 DEF shutdown, TypeOK
<1>3. ASSUME NEW p \in Process, ProcessEnds(p) PROVE day'[q] < today'
  BY <1>00, <1>3 DEF ProcessEnds, TypeOK
<1>4. CASE NextDay
  BY <1>00, <1>4 DEF NextDay, TypeOK, Day
<1>5. ASSUME NEW t \in Thread, now(t) PROVE day'[q] < today'
  BY <1>00, <1>5 DEF now
<1>6. ASSUME NEW t \in Thread, Record(t) PROVE day'[q] < today'
  <2>1. PICK dir \in {files, Limited} : Emitted(t, dir) /\ (Stored(t, dir) \/ Missed(t, dir))
    BY <1>6, RecordCases
  <2>2. Held(dir) \in [Process -> ToSet(dir) \cup {NoFile, Removed}]
    BY HeldType
  <2>3. CASE Stored(t, dir)
    <3>1. NameOf(stamp[t]) # Removed
      BY <2>1 DEF NameOf, Emitted, Day
    <3>2. q # Of[t] /\ Held(dir)[q] = Removed /\ day'[q] = day[q]
      BY <2>1, <2>2, <2>3, <3>1 DEF Stored, Emitted, TypeOK
    <3> QED
      BY <1>0, <2>1, <3>2 DEF Emitted
  <2>4. CASE Missed(t, dir)
    BY <1>0, <1>00, <2>1, <2>2, <2>4 DEF Missed, Emitted
  <2> QED
    BY <2>1, <2>3, <2>4
<1>7. ASSUME NEW t \in Thread, OpenFails(t) PROVE day'[q] < today'
  <2>1. files' \in {files, Limited} /\ day' = day /\ today' = today
    BY <1>7 DEF OpenFails
  <2>2. Held(files')[q] = Removed
    BY <1>7, HeldType DEF OpenFails
  <2> QED
    BY <1>0, <2>1, <2>2
<1>8. CASE UNCHANGED vars
  BY <1>00, <1>8 DEF vars
<1> QED
  BY <1>1, <1>2, <1>3, <1>4, <1>5, <1>6, <1>7, <1>8 DEF Next

(***************************************************************************)
(* Today's file keeps its place among the first.  Only a record that comes *)
(* late pushes it back, by one place, and then that thread is no longer    *)
(* late; a record of today brings it to the very front (Record).           *)
(***************************************************************************)
LEMMA InFrontStep ==
  ASSUME TypeOK, NotAhead, OpenOfDay, TodayInFront, Roomy, rotation = "Daily", [Next]_vars,
         today' \in written'
  PROVE  \E i \in 1..Len(files') : files'[i] = today' /\ NearFront(i)'
<1> DEFINE Goal == \E i \in 1..Len(files') : files'[i] = today' /\ NearFront(i)'
<1>1. ASSUME files' \in {files, Limited}, UNCHANGED <<today, written>>, Late' \subseteq Late
      PROVE  Goal
  <2>1. PICK i \in 1..Len(files') : files'[i] = today /\ NearFront(i)
    BY <1>1, TodayStays
  <2>2. NearFront(i)'
    BY <1>1, <2>1, NearFrontKept
  <2> QED
    BY <1>1, <2>1, <2>2
<1>2. ASSUME NEW p \in Process, init(p) PROVE Goal
  <2>1. Late' = Late
    BY <1>2 DEF init, Late
  <2> QED
    BY <1>1, <1>2, <2>1 DEF init, Cleaned
<1>3. ASSUME NEW p \in Process, shutdown(p) PROVE Goal
  BY <1>1, <1>3 DEF shutdown, Late
<1>4. ASSUME NEW p \in Process, ProcessEnds(p) PROVE Goal
  <2>1. Late' \subseteq Late
    BY <1>4 DEF ProcessEnds, Late
  <2> QED
    BY <1>1, <1>4, <2>1 DEF ProcessEnds
<1>5. CASE NextDay
  BY <1>5 DEF NextDay, NotAhead, TypeOK, Day
<1>6. ASSUME NEW t \in Thread, now(t) PROVE Goal
  <2>1. Late' \subseteq Late
    BY <1>6 DEF now, Late, TypeOK, Day
  <2> QED
    BY <1>1, <1>6, <2>1 DEF now
<1>7. ASSUME NEW t \in Thread, OpenFails(t) PROVE Goal
  <2>1. Late' \subseteq Late
    BY <1>7 DEF OpenFails, Late, TypeOK
  <2> QED
    BY <1>1, <1>7, <2>1 DEF OpenFails
<1>8. ASSUME NEW t \in Thread, Record(t) PROVE Goal
  <2>1. PICK dir \in {files, Limited} : Emitted(t, dir) /\ (Stored(t, dir) \/ Missed(t, dir))
    BY <1>8, RecordCases
  <2>2. /\ stamp[t] \in Day /\ NameOf(stamp[t]) = stamp[t] /\ today' = today
        /\ stamp[t] <= today /\ IsDirectory(dir)
    BY <2>1, LeftOver DEF Emitted, NameOf, NotAhead
  <2>3. Late' = Late \ {t}
    BY <2>1 DEF Emitted, Late, TypeOK, Day
  <2>4. CASE stamp[t] = today
    <3>1. Stored(t, dir)
      BY <2>1, <2>2, <2>4 DEF Missed, Emitted, NameOf, TodayInFront, Day
    <3>2. 1 \in 1..Len(files') /\ files'[1] = today
      <4>1. IsDirectory(files') /\ files' # <<>> /\ files'[1] = today
        BY <2>2, <2>4, <3>1, FrontedProperties DEF Stored, Name
      <4> QED
        BY <4>1, EmptySeq, DirectoryDomain DEF IsDirectory
    <3>3. NearFront(1)'
      <4>1. Late' \in SUBSET Thread /\ t \in Thread \ Late'
        BY <2>3 DEF Late
      <4>2. 1 + Cardinality(Late') <= Cardinality(Thread)
        BY <4>1, LateFinite
      <4> QED
        BY <4>2 DEF NearFront
    <3> QED
      BY <2>2, <3>2, <3>3
  <2>5. CASE stamp[t] < today
    <3>1. t \in Late
      BY <2>2, <2>5 DEF Late, Day
    <3>2. today \in written
      BY <2>1, <2>2, <2>5 DEF Stored, Missed, TypeOK, Day
    <3>3. PICK i \in 1..Len(dir) : dir[i] = today /\ NearFront(i)
      BY <3>2, TodayStays
    <3>4. CASE Stored(t, dir)
      <4>1. dir[i] # stamp[t]
        BY <2>2, <2>5, <3>3 DEF Day
      <4>2. PICK j \in 1..i + 1 : j \in 1..Len(files') /\ files'[j] = today
        BY <2>2, <3>3, <3>4, <4>1, FrontedProperties DEF Stored, Name
      <4>3. Cardinality(Late') = Cardinality(Late) - 1
        BY <2>3, <3>1, LateFinite
      <4>4. NearFront(j)'
        <5> SUFFICES ASSUME max_files > 0 PROVE j + Cardinality(Late') <= Cardinality(Thread)
          BY DEF NearFront
        <5>1. i + Cardinality(Late) <= Cardinality(Thread)
          BY <3>3 DEF NearFront
        <5> QED
          BY <4>2, <4>3, <5>1, LateFinite
      <4> QED
        BY <2>2, <4>2, <4>4
    <3>5. CASE Missed(t, dir)
      BY <1>1, <2>2, <2>3, <3>5 DEF Missed
    <3> QED
      BY <2>1, <3>4, <3>5
  <2> QED
    BY <2>2, <2>4, <2>5 DEF TypeOK, Day
<1>9. CASE UNCHANGED vars
  BY <1>1, <1>9 DEF vars, Late
<1> QED
  BY <1>2, <1>3, <1>4, <1>5, <1>6, <1>7, <1>8, <1>9 DEF Next

\* The setting is read once, when the process starts.
LEMMA RotationKept ==
  ASSUME [Next]_vars
  PROVE  rotation' = rotation
BY DEF Next, vars, init, shutdown, ProcessEnds, NextDay, now, Record, OpenFails

\* Today's file stays in front, and only older ones are removed while open.
LEMMA TodayInFrontStep ==
  ASSUME TypeOK, NotAhead, OpenOfDay, TodayInFront, [Next]_vars
  PROVE  TodayInFront'
<1> SUFFICES ASSUME rotation = "Daily", Roomy
             PROVE  /\ today' \in written' => \E i \in 1..Len(files') : files'[i] = today' /\ NearFront(i)'
                    /\ \A p \in Process : file'[p] = Removed => day'[p] < today'
  BY RotationKept DEF TodayInFront, Roomy
<1> QED
  BY InFrontStep, RemovedIsOlderStep

(***************************************************************************)
(* Nothing of today is lost: no clean-up reaches its file, and a file that *)
(* was removed while it was open is one of an earlier day.                 *)
(***************************************************************************)
LEMMA TodayKeptStep ==
  ASSUME TypeOK, TypeOK', NotAhead, NotAhead', OpenOfDay, TodayInFront, TodayKept, [Next]_vars
  PROVE  TodayKept'
<1> SUFFICES ASSUME Roomy PROVE today' \notin lost'
  BY DEF TodayKept, Roomy
<1>1. CASE rotation = "Never"
  BY <1>1, RotationKept DEF TypeOK, NotAhead
<1>2. CASE rotation = "Daily"
  <2>1. today \notin lost /\ \A dir \in {files, Limited} : today \notin written \ ToSet(dir)
    BY <1>2, TodayStays DEF TodayKept
  <2>2. ASSUME NEW p \in Process, init(p) PROVE today' \notin lost'
    BY <2>1, <2>2 DEF init, Cleaned, Forgets
  <2>3. ASSUME NEW p \in Process, shutdown(p) PROVE today' \notin lost'
    BY <2>1, <2>3 DEF shutdown
  <2>4. ASSUME NEW p \in Process, ProcessEnds(p) PROVE today' \notin lost'
    BY <2>1, <2>4 DEF ProcessEnds
  <2>5. CASE NextDay
    BY <2>5 DEF NextDay, NotAhead, TypeOK, Day
  <2>6. ASSUME NEW t \in Thread, now(t) PROVE today' \notin lost'
    BY <2>1, <2>6 DEF now
  <2>7. ASSUME NEW t \in Thread, Record(t) PROVE today' \notin lost'
    <3>1. PICK dir \in {files, Limited} : Emitted(t, dir) /\ (Stored(t, dir) \/ Missed(t, dir))
      BY <2>7, RecordCases
    <3>2. CASE Stored(t, dir)
      BY <2>1, <3>1, <3>2 DEF Stored, Emitted
    <3>3. CASE Missed(t, dir)
      <4>1. NameOf(stamp[t]) = day[Of[t]] /\ day[Of[t]] < today /\ today \in Int
        BY <1>2, <3>1, <3>3 DEF Missed, Emitted, NameOf, TodayInFront, TypeOK, Day
      <4> QED
        BY <2>1, <3>1, <3>3, <4>1 DEF Missed, Emitted
    <3> QED
      BY <3>1, <3>2, <3>3
  <2>8. ASSUME NEW t \in Thread, OpenFails(t) PROVE today' \notin lost'
    BY <2>1, <2>8 DEF OpenFails, Forgets
  <2>9. CASE UNCHANGED vars
    BY <2>1, <2>9 DEF vars
  <2> QED
    BY <2>2, <2>3, <2>4, <2>5, <2>6, <2>7, <2>8, <2>9 DEF Next
<1> QED
  BY <1>1, <1>2 DEF TypeOK

-----------------------------------------------------------------------------
(***************************************************************************)
(* How processes are counted.                                              *)
(***************************************************************************)
LEMMA ProcessCount ==
  /\ Cardinality(Process) \in Nat /\ Settled \in SUBSET Process
  /\ \A S \in SUBSET Process : Cardinality(S) \in Nat /\ Cardinality(S) <= Cardinality(Process)
  /\ \A S, R \in SUBSET Process :
       /\ S \subseteq R => Cardinality(S) <= Cardinality(R)
       /\ \A p \in S : Cardinality(S) >= 1 /\ (S \ {p} \subseteq R => Cardinality(S) <= Cardinality(R) + 1)
       /\ \A p \in R : p \notin S /\ S \subseteq R => Cardinality(S) + 1 <= Cardinality(R)
<1>1. \A S \in SUBSET Process :
        /\ Cardinality(S) \in Nat /\ Cardinality(S) <= Cardinality(Process)
        /\ \A R \in SUBSET S : Cardinality(R) <= Cardinality(S)
        /\ \A p \in S : Cardinality(S \ {p}) = Cardinality(S) - 1 /\ Cardinality(S \ {p}) \in Nat
  <2> TAKE S \in SUBSET Process
  <2>1. IsFiniteSet(S) /\ Cardinality(S) \in Nat /\ Cardinality(S) <= Cardinality(Process)
    BY FS_Subset, FS_CardinalityType
  <2>2. \A R \in SUBSET S : Cardinality(R) <= Cardinality(S)
    BY <2>1, FS_Subset
  <2>3. ASSUME NEW p \in S
        PROVE  Cardinality(S \ {p}) = Cardinality(S) - 1 /\ Cardinality(S \ {p}) \in Nat
    <3>1. IsFiniteSet(S \ {p})
      BY <2>1, FS_RemoveElement
    <3> QED
      BY <2>1, <3>1, FS_RemoveElement, FS_CardinalityType
  <2> QED
    BY <2>1, <2>2, <2>3
<1>2. ASSUME NEW S \in SUBSET Process, NEW R \in SUBSET Process, NEW p \in S
      PROVE  Cardinality(S) >= 1 /\ (S \ {p} \subseteq R => Cardinality(S) <= Cardinality(R) + 1)
  <2>1. Cardinality(S \ {p}) = Cardinality(S) - 1 /\ Cardinality(S \ {p}) \in Nat /\ Cardinality(S) \in Nat
    BY <1>1
  <2>2. S \ {p} \subseteq R => Cardinality(S \ {p}) <= Cardinality(R)
    BY <1>1
  <2> QED
    BY <1>1, <2>1, <2>2
<1>3. ASSUME NEW S \in SUBSET Process, NEW R \in SUBSET Process, NEW p \in R, p \notin S, S \subseteq R
      PROVE  Cardinality(S) + 1 <= Cardinality(R)
  <2>1. S \in SUBSET (R \ {p}) /\ R \ {p} \in SUBSET Process
    BY <1>3
  <2>2. Cardinality(S) <= Cardinality(R \ {p})
    BY <1>1, <2>1
  <2>3. Cardinality(R \ {p}) = Cardinality(R) - 1
    BY <1>1
  <2> QED
    BY <1>1, <2>2, <2>3
<1>4. Cardinality(Process) \in Nat
  BY FS_CardinalityType
<1> QED
  BY <1>1, <1>2, <1>3, <1>4 DEF Settled

\* A clean-up that succeeds leaves no more files than the limit.
LEMMA LimitedLength ==
  ASSUME TypeOK, max_files > 0
  PROVE  Len(Limited) <= max_files
<1>1. IsDirectory(files)
  BY DEF TypeOK, IsDirectory
<1> QED
  BY <1>1, PruneProperties DEF Limited

(***************************************************************************)
(* Every file above the limit is paid for.  After a clean-up there is at   *)
(* most the file that was just opened; without one the process that opens  *)
(* a file that is not there had none of its day so far, and now has; a     *)
(* clean-up that fails is a failure more (init, Record, OpenFails).        *)
(***************************************************************************)
LEMMA PaidForStep ==
  ASSUME TypeOK, TypeOK', Emitting, OpenOfDay, PaidFor, [Next]_vars
  PROVE  PaidFor'
<1> SUFFICES ASSUME Process # {}, max_files > 0
             PROVE  Len(files') <= max_files + Cardinality(Settled') + (MaxTrouble - trouble')
  BY DEF PaidFor
<1> DEFINE Goal == Len(files') <= max_files + Cardinality(Settled') + (MaxTrouble - trouble')
<1>1. /\ Len(files) \in Nat /\ Len(files') \in Nat
      /\ trouble \in 0..MaxTrouble /\ trouble' \in 0..MaxTrouble
      /\ Settled \in SUBSET Process /\ Settled' \in SUBSET Process
      /\ Cardinality(Settled) \in Nat /\ Cardinality(Settled') \in Nat
  <2>1. Len(files) \in Nat /\ Len(files') \in Nat
    BY LenProperties DEF TypeOK
  <2>2. Settled \in SUBSET Process /\ Settled' \in SUBSET Process
    BY DEF Settled
  <2> QED
    BY <2>1, <2>2, ProcessCount DEF TypeOK
<1>2. Len(files) <= max_files + Cardinality(Settled) + (MaxTrouble - trouble)
  BY DEF PaidFor
<1>3. ASSUME files' = Limited PROVE Goal
  BY <1>1, <1>3, LimitedLength
<1>4. ASSUME files' = files, trouble' <= trouble, Settled \subseteq Settled' PROVE Goal
  <2>1. Cardinality(Settled) <= Cardinality(Settled')
    BY <1>1, <1>4, ProcessCount
  <2> QED
    BY <1>1, <1>2, <1>4, <2>1
<1>5. ASSUME NEW p \in Process, init(p) PROVE Goal
  <2>1. CASE files' = Limited
    BY <1>3, <2>1
  <2>2. CASE files' = files /\ trouble' = trouble - 1
    <3>1. p \in Settled /\ Settled \ {p} \subseteq Settled'
      BY <1>5, <2>2 DEF init, Settled, NameOf, TypeOK
    <3>2. Cardinality(Settled) <= Cardinality(Settled') + 1
      BY <1>1, <3>1, ProcessCount
    <3> QED
      BY <1>1, <1>2, <2>2, <3>2
  <2> QED
    BY <1>5, <2>1, <2>2 DEF init, Cleaned
<1>6. ASSUME NEW p \in Process, shutdown(p) PROVE Goal
  BY <1>1, <1>4, <1>6 DEF shutdown, Settled, NameOf
<1>7. ASSUME NEW p \in Process, ProcessEnds(p) PROVE Goal
  <2>1. Settled \subseteq Settled'
    BY <1>7 DEF ProcessEnds, Settled, NameOf, TypeOK
  <2> QED
    BY <1>1, <1>4, <1>7, <2>1 DEF ProcessEnds
<1>8. CASE NextDay
  BY <1>1, <1>4, <1>8 DEF NextDay, Settled, NameOf
<1>9. ASSUME NEW t \in Thread, now(t) PROVE Goal
  BY <1>1, <1>4, <1>9 DEF now, Settled, NameOf
<1>10. ASSUME NEW t \in Thread, OpenFails(t) PROVE Goal
  <2>1. CASE files' = Limited
    BY <1>3, <2>1
  <2>2. CASE files' = files
    <3>1. Settled' = Settled /\ trouble' <= trouble
      BY <1>1, <1>10, <2>2 DEF OpenFails, Settled, NameOf
    <3> QED
      BY <1>4, <2>2, <3>1
  <2> QED
    BY <1>10, <2>1, <2>2 DEF OpenFails
<1>11. ASSUME NEW t \in Thread, Record(t) PROVE Goal
  <2> DEFINE p == Of[t]
             name == NameOf(stamp[t])
  <2>1. PICK dir \in {files, Limited} : Emitted(t, dir) /\ (Stored(t, dir) \/ Missed(t, dir))
    BY <1>11, RecordCases
  <2>2. /\ p \in Process /\ initialized[p] /\ stamp[t] \in Day /\ stamp[t] # NoDay
        /\ name \in Name /\ rotation' = rotation /\ initialized' = initialized
    BY <2>1 DEF Emitted, Emitting, NameOf, Name, Day
  <2>3. CASE Missed(t, dir)
    <3>1. Settled' = Settled
      BY <2>1, <2>3 DEF Missed, Emitted, Settled, NameOf
    <3>2. files' = files /\ trouble' <= trouble
      BY <1>1, <2>1, <2>3 DEF Missed, Emitted, Directory, Opens, Open
    <3> QED
      BY <1>4, <3>1, <3>2
  <2>4. CASE Stored(t, dir)
    <3>1. /\ ToSet(files') = ToSet(dir) \cup {name}
          /\ Len(files') = IF name \in ToSet(dir) THEN Len(dir) ELSE Len(dir) + 1
          /\ Len(dir) \in Nat
      BY <2>2, <2>4, LeftOver, FrontedProperties, DirectoryDomain DEF Stored
    <3>2. p \in Settled'
      <4>1. day'[p] # NoDay /\ NameOf(day'[p]) = name
        BY <2>2, <2>4 DEF Stored, TypeOK, Opens, NameOf, Day
      <4> QED
        BY <2>2, <3>1, <4>1 DEF Settled, NameOf
    <3>3. Cardinality(Settled') >= 1
      BY <1>1, <3>2, ProcessCount
    <3>4. ASSUME dir = files PROVE Settled \subseteq Settled'
      <4>1. ASSUME NEW q \in Settled, q # p PROVE q \in Settled'
        <5>1. q \in Process /\ day'[q] = day[q]
          BY <2>2, <2>4, <4>1 DEF Stored, Settled, TypeOK
        <5> QED
          BY <2>2, <3>1, <3>4, <5>1 DEF Settled, NameOf
      <4> QED
        BY <3>2, <4>1
    <3>5. CASE dir = Limited
      BY <1>1, <3>1, <3>3, <3>5, LimitedLength
    <3>6. CASE dir = files /\ trouble' = trouble - 1
      <4>1. Cardinality(Settled) <= Cardinality(Settled')
        BY <1>1, <3>4, <3>6, ProcessCount
      <4> QED
        BY <1>1, <1>2, <3>1, <3>6, <4>1
    <3>7. CASE dir = files /\ trouble' = trouble /\ name \in ToSet(files)
      <4>1. Cardinality(Settled) <= Cardinality(Settled')
        BY <1>1, <3>4, <3>7, ProcessCount
      <4> QED
        BY <1>1, <1>2, <3>1, <3>7, <4>1
    <3>8. CASE /\ dir = files /\ trouble' = trouble /\ name \notin ToSet(files)
               /\ ~(Changes(p, stamp[t]) /\ day[p] # NoDay)
      <4>1. day[p] # NoDay => NameOf(day[p]) = name
        BY <3>8 DEF Changes, NameOf
      <4>2. p \notin Settled
        BY <2>2, <3>8, <4>1 DEF Settled
      <4>3. Cardinality(Settled) + 1 <= Cardinality(Settled')
        BY <1>1, <3>2, <3>4, <3>8, <4>2, ProcessCount
      <4> QED
        BY <1>1, <1>2, <3>1, <3>8, <4>3
    <3> QED
      BY <2>1, <3>5, <3>6, <3>7, <3>8 DEF Emitted, Directory, Cleaned
  <2> QED
    BY <2>1, <2>3, <2>4
<1>12. CASE UNCHANGED vars
  BY <1>1, <1>4, <1>12 DEF vars, Settled, NameOf
<1> QED
  BY <1>5, <1>6, <1>7, <1>8, <1>9, <1>10, <1>11, <1>12 DEF Next

-----------------------------------------------------------------------------
\* The directory an earlier run left satisfies the invariant.
LEMMA InitIInv ==
  ASSUME Init
  PROVE  IInv
<1>1. \A n \in {SingleFile, Copy} : n \in Name /\ n <= 1 /\ n \notin Day
  BY DEF Name, Day
<1>2. /\ files \in Seq(Name) /\ IsInjective(files) /\ Len(files) <= 2 /\ Len(files) \in Nat
      /\ ToSet(files) \subseteq {SingleFile, Copy}
  <2>1. CASE files = <<>>
    BY <2>1 DEF IsInjective, ToSet
  <2>2. CASE files = <<SingleFile>>
    BY <1>1, <2>2 DEF IsInjective, ToSet
  <2>3. CASE files = <<Copy>>
    BY <1>1, <2>3 DEF IsInjective, ToSet
  <2>4. CASE files = <<Copy, SingleFile>>
    BY <1>1, <2>4 DEF IsInjective, ToSet
  <2>5. CASE files = <<SingleFile, Copy>>
    BY <1>1, <2>5 DEF IsInjective, ToSet
  <2> QED
    BY <2>1, <2>2, <2>3, <2>4, <2>5 DEF Init
<1>3. TypeOK
  <2>1. ToSet(files) \subseteq Name
    BY <1>1, <1>2
  <2> QED
    BY <1>2, <2>1 DEF Init, TypeOK, Day, Idle
<1>4. NotAhead /\ Emitting /\ OpenOfDay /\ TodayKept
  BY <1>1, <1>2 DEF Init, Idle, NotAhead, Emitting, OpenOfDay, TodayKept
<1>5. TodayInFront
  BY <1>1, <1>2 DEF Init, TodayInFront, Day
<1>6. PaidFor
  <2> SUFFICES ASSUME Process # {}, max_files > 0
               PROVE  Len(files) <= max_files + Cardinality(Settled) + (MaxTrouble - trouble)
    BY DEF PaidFor
  <2>1. Settled = Process
    BY DEF Init, Settled
  <2>2. Cardinality(Settled) >= 1 /\ Cardinality(Settled) \in Nat
    BY <2>1, ProcessCount
  <2>3. MaxTrouble - trouble = 0
    BY DEF Init
  <2> QED
    BY <1>2, <2>2, <2>3
<1> QED
  BY <1>3, <1>4, <1>5, <1>6 DEF IInv

\* Every step keeps the invariant, conjunct by conjunct.
LEMMA StepIInv ==
  ASSUME IInv, [Next]_vars
  PROVE  IInv'
<1>1. TypeOK' /\ NotAhead' /\ Emitting' /\ OpenOfDay' /\ TodayInFront'
  BY TypeStep, NotAheadStep, EmittingStep, OpenOfDayStep, TodayInFrontStep DEF IInv
<1> QED
  BY <1>1, TodayKeptStep, PaidForStep DEF IInv

(***************************************************************************)
(* The inductive invariant of the sink.                                    *)
(***************************************************************************)
THEOREM Invariance == Spec => []IInv
BY InitIInv, StepIInv, PTL DEF Spec

(***************************************************************************)
(* Every variable has its type, and a file that is open is in the          *)
(* directory or known to be removed.                                       *)
(***************************************************************************)
THEOREM TypeCorrect == Spec => []TypeOK
<1>1. IInv => TypeOK
  BY DEF IInv
<1> QED
  BY <1>1, Invariance, PTL

(***************************************************************************)
(* With room for a file per thread, no record of today is lost before the  *)
(* day is over, whatever the processes remove (prune, write_file).         *)
(***************************************************************************)
THEOREM KeepsToday == Spec => []TodayKept
<1>1. IInv => TodayKept
  BY DEF IInv
<1> QED
  BY <1>1, Invariance, PTL

(***************************************************************************)
(* The files exceed the limit by one per process and one per failed        *)
(* clean-up at most, for however long the processes run.                   *)
(***************************************************************************)
THEOREM KeepsLimit == Spec => []Bounded
<1>1. IInv => Bounded
  <2> SUFFICES ASSUME IInv, NEW p \in Process, max_files > 0
               PROVE  Len(files) <= max_files + Cardinality(Process) + (MaxTrouble - trouble)
    BY DEF Bounded
  <2>1. Len(files) <= max_files + Cardinality(Settled) + (MaxTrouble - trouble)
    BY DEF IInv, PaidFor
  <2>2. Len(files) \in Nat /\ trouble \in 0..MaxTrouble
    BY LenProperties DEF IInv, TypeOK
  <2>3. Settled \in SUBSET Process
    BY DEF Settled
  <2>4. Cardinality(Settled) \in Nat /\ Cardinality(Settled) <= Cardinality(Process)
    BY <2>3, ProcessCount
  <2> QED
    BY <2>1, <2>2, <2>4, ProcessCount
<1> QED
  BY <1>1, Invariance, PTL

(***************************************************************************)
(* A record is stored in the file of its own day, or it comes late and its *)
(* file was removed (write_file).                                          *)
(***************************************************************************)
THEOREM StoresInOwnDay == Spec => OwnDay
<1>1. ASSUME IInv, NEW t \in Thread, Record(t), rotation = "Daily"
      PROVE  \/ files' # <<>> /\ files'[1] = stamp[t]
             \/ file[Of[t]] = Removed /\ (Roomy => stamp[t] < today)
  <2>1. PICK dir \in {files, Limited} : Emitted(t, dir) /\ (Stored(t, dir) \/ Missed(t, dir))
    BY <1>1, RecordCases DEF IInv
  <2>2. stamp[t] \in Name /\ NameOf(stamp[t]) = stamp[t] /\ IsDirectory(dir)
    BY <1>1, <2>1, LeftOver DEF IInv, Emitted, NameOf, Name
  <2>3. CASE Stored(t, dir)
    BY <2>2, <2>3, FrontedProperties DEF Stored
  <2>4. CASE Missed(t, dir)
    <3>1. file[Of[t]] = Removed /\ stamp[t] = day[Of[t]] /\ Of[t] \in Process
      BY <1>1, <2>1, <2>2, <2>4 DEF Missed, Emitted, NameOf
    <3> QED
      BY <1>1, <3>1 DEF IInv, TodayInFront
  <2> QED
    BY <2>1, <2>3, <2>4
<1>2. IInv => [\A t \in Thread : Record(t) /\ rotation = "Daily" =>
       \/ files' # <<>> /\ files'[1] = stamp[t]
       \/ file[Of[t]] = Removed /\ (Roomy => stamp[t] < today)]_vars
  BY <1>1
<1> QED
  BY <1>2, Invariance, PTL DEF OwnDay
=============================================================================
