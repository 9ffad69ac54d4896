---- MODULE ServicesProofs ----
(* Proofs about the modules that MCServices puts together, and about all of them together.     *)
(* Durable, for any number of processes, migrations and faults. CommandLine, for any number   *)
(* of lines typed and of loops: lines become commands of the run in the order typed, and a     *)
(* line is lost only where CommandsHeard says. Stores, for any threads and scripts: the stored *)
(* trace is the recorder's log. Replay, for any graphs and numbers of attempts: responses do   *)
(* not run out, and a node gives the first answer it gave in the run.                          *)
EXTENDS MCServices, NodeAttemptsProofs, NaturalRecursion, FiniteSetTheorems, TLAPS

----
(* Migrations and blob store *)

\* Where a process is past the migrations.
Past == {"open", "put"} \union Putting
\* The types of the migrations and the blob store.
DurableTypes ==
    /\ step \in [Process -> {"new", "open"} \union Migrating \union Putting \union Over]
    /\ seen \in [Process -> 0..Migrations]
    /\ applied \subseteq Migration
    /\ blob \in {"absent", "partial", "whole"} /\ meta \in {"absent", "partial", "whole"}
    /\ faults \in 0..MaxFaults
    /\ faultAt \subseteq {"new", "open"} \union Migrating \union Putting
    /\ overlapped \subseteq {"open", "put"}

\* Versions are recorded in order, after their statements; whoever saw a version had it recorded.
Schema ==
    /\ \E n \in 0..Migrations : recorded = 1..n
    /\ recorded \subseteq applied
    /\ \A p \in Process :
          /\ 1..seen[p] \subseteq recorded
          /\ step[p] = "applied" => seen[p] < Migrations /\ seen[p] + 1 \in applied
          /\ step[p] \in Past => seen[p] = Migrations

\* Without a crash between statements and version, and without an overlap, one process at most is
\* at the migrations, and it knows how far they are.
OneOpener ==
    "applied" \notin faultAt /\ "open" \notin overlapped =>
        /\ \A p, q \in Process : step[p] \in Migrating /\ step[q] \in Migrating => p = q
        /\ \A p \in Process : step[p] # "failed"
        /\ \A p \in Process : step[p] \in Migrating => recorded = 1..seen[p]
        /\ \A v \in applied \ recorded :
              \E p \in Process : step[p] = "applied" /\ v = seen[p] + 1

\* Likewise for the writers of the artifact, who know how far its files are.
OneWriter ==
    "put" \notin overlapped =>
        /\ \A p, q \in Process : step[p] \in Putting /\ step[q] \in Putting => p = q
        /\ \A p \in Process :
              /\ step[p] = "absent" => blob = "absent"
              /\ step[p] \in {"written", "describing"} => blob = "whole"
        /\ meta # "absent" => blob = "whole"

\* Without a fault while writing, what was put is whole, and described.
PutIsWhole ==
    "put" \notin overlapped /\ "writing" \notin faultAt =>
        \A p \in Process : step[p] = "put" => blob = "whole"

PutIsDescribed ==
    "put" \notin overlapped /\ Writing \intersect faultAt = {} =>
        /\ \A p, q \in Process : step[p] = "put" => step[q] \notin Putting /\ meta = "whole"
        /\ blob # "absent" => meta = "whole" \/ \E p \in Process : step[p] \in Writing

Files == OneWriter /\ PutIsWhole /\ PutIsDescribed /\ ShortOnlyIf

DurableInv == DurableTypes /\ Schema /\ OneOpener /\ Files

-----------------------------------------------------------------------------
\* The version read is the last one recorded.
LEMMA HighestRecorded ==
    ASSUME NEW n \in 0..Migrations, recorded = 1..n
    PROVE  Highest = n
<1> USE MigrationsAssumption
<1>1. CASE n = 0
  BY <1>1 DEF Highest
<1>2. CASE n # 0
  <2>1. n \in recorded /\ \A w \in recorded : w <= n
    BY <1>2
  <2>2. \A v \in recorded : (\A w \in recorded : w <= v) => v = n
    BY <2>1
  <2> QED BY <2>1, <2>2 DEF Highest
<1> QED BY <1>1, <1>2

LEMMA InitDurable == DurableInit => DurableInv
BY MigrationsAssumption DEF DurableInit, DurableInv, DurableTypes, Schema, OneOpener, Files, OneWriter,
       PutIsWhole, PutIsDescribed, ShortOnlyIf, Past, Migrating, Putting, Writing, Over, Migration

\* A step between two places outside put leaves the files as they are.
LEMMA SameFiles ==
    ASSUME DurableTypes, Files, NEW p \in Process, NEW to,
           step' = [step EXCEPT ![p] = to], step[p] \notin {"put"} \union Putting,
           to \notin {"put"} \union Putting, UNCHANGED <<blob, meta, faultAt>>,
           "put" \in overlapped => "put" \in overlapped'
    PROVE  Files'
<1>1. \A q \in Process : step'[q] \in {"put"} \union Putting \/ step[q] \in {"put"} \union Putting =>
          step'[q] = step[q]
      BY DEF DurableTypes
<1>2. Putting = {"absent", "writing", "written", "describing"} /\ Writing = {"writing", "written", "describing"}
      BY DEF Putting, Writing
<1>3. OneWriter'
      BY <1>1, <1>2 DEF Files, OneWriter
<1>4. PutIsWhole' /\ ShortOnlyIf'
      BY <1>1, <1>2 DEF Files, PutIsWhole, ShortOnlyIf
<1>5. PutIsDescribed'
      BY <1>1, <1>2 DEF Files, PutIsDescribed
<1> QED
    BY <1>3, <1>4, <1>5 DEF Files

LEMMA NextDurable == DurableInv /\ [DurableNext]_durableVars => DurableInv'
<1> USE MigrationsAssumption
<1> SUFFICES ASSUME DurableInv, [DurableNext]_durableVars
             PROVE  DurableInv'
  OBVIOUS
<1> USE DEF DurableInv, DurableTypes, Migrating, Putting, Writing, Over, Migration, Goes, Others
<1>1. ASSUME NEW p \in Process, Open(p) PROVE DurableInv'
  <2>1. PICK n \in 0..Migrations : recorded = 1..n
    BY DEF Schema
  <2>2. seen' = [seen EXCEPT ![p] = n]
    BY <1>1, <2>1, HighestRecorded DEF Open
  <2>3. DurableTypes'
    BY <1>1, <2>2 DEF Open
  <2>4. Schema'
    BY <1>1, <2>1, <2>2 DEF Open, Schema, Past
  <2>5. OneOpener'
    BY <1>1, <2>1, <2>2 DEF Open, OneOpener
  <2>6. Files'
    BY <1>1, SameFiles DEF Open
  <2> QED BY <2>3, <2>4, <2>5, <2>6
<1>2. ASSUME NEW p \in Process, ApplyScript(p) PROVE DurableInv'
  <2> DEFINE v == seen[p] + 1
  <2>a. /\ step[p] = "opening" /\ v \in Migration
        /\ UNCHANGED <<seen, recorded, blob, meta, faults, faultAt, overlapped>>
    BY <1>2 DEF ApplyScript
  <2>b. \/ v \in applied /\ step' = [step EXCEPT ![p] = "failed"] /\ applied' = applied
        \/ step' = [step EXCEPT ![p] = "applied"] /\ applied' = applied \union {v}
    BY <1>2 DEF ApplyScript
  <2> HIDE DEF v
  <2>1. DurableTypes'
    BY <2>a, <2>b
  <2>2. Schema'
    BY <2>a, <2>b DEF Schema, Past, v
  <2>3. OneOpener'
    <3>1. SUFFICES ASSUME "applied" \notin faultAt, "open" \notin overlapped
                   PROVE  OneOpener'
      BY <2>a DEF OneOpener
    <3>2. /\ recorded = 1..seen[p]
          /\ \A q \in Process : step[q] \in Migrating => q = p
          /\ applied \subseteq recorded
      BY <3>1, <2>a DEF OneOpener
    <3>3. v \notin applied
      BY <3>2 DEF v
    <3>4. step' = [step EXCEPT ![p] = "applied"] /\ applied' = applied \union {v}
      BY <2>b, <3>3
    <3> QED BY <2>a, <3>1, <3>2, <3>4 DEF OneOpener, v
  <2>4. Files'
    BY <2>a, <2>b, SameFiles
  <2> QED BY <2>1, <2>2, <2>3, <2>4
<1>3. ASSUME NEW p \in Process, RecordVersion(p) PROVE DurableInv'
  <2> DEFINE v == seen[p] + 1
  <2>a. /\ step[p] = "applied" /\ v \in Migration /\ v \in applied
        /\ UNCHANGED <<applied, blob, meta, faults, faultAt, overlapped>>
    BY <1>3 DEF RecordVersion, Schema
  <2>b. \/ v \in recorded /\ step' = [step EXCEPT ![p] = "failed"] /\ UNCHANGED <<recorded, seen>>
        \/ /\ v \notin recorded
           /\ step' = [step EXCEPT ![p] = "opening"]
           /\ recorded' = recorded \union {v}
           /\ seen' = [seen EXCEPT ![p] = v]
    BY <1>3 DEF RecordVersion
  <2>1. DurableTypes'
    BY <2>a, <2>b
  <2>2. Schema'
    <3>1. CASE UNCHANGED <<recorded, seen>> /\ step' = [step EXCEPT ![p] = "failed"]
      BY <3>1, <2>a DEF Schema, Past
    <3>2. CASE /\ v \notin recorded
               /\ step' = [step EXCEPT ![p] = "opening"]
               /\ recorded' = recorded \union {v}
               /\ seen' = [seen EXCEPT ![p] = v]
      <4>1. PICK n \in 0..Migrations : recorded = 1..n
        BY DEF Schema
      <4>2. 1..seen[p] \subseteq recorded /\ seen[p] \in 0..Migrations
        BY DEF Schema
      <4>3. v = n + 1
        BY <4>1, <4>2, <3>2
      <4>4. recorded' = 1..v /\ v \in 0..Migrations
        BY <4>1, <4>3, <3>2, <2>a
      <4>5. \A q \in Process : 1..seen'[q] \subseteq recorded'
        BY <4>4, <3>2 DEF Schema
      <4>6. \A q \in Process :
               /\ step'[q] = "applied" => seen'[q] < Migrations /\ seen'[q] + 1 \in applied'
               /\ step'[q] \in Past => seen'[q] = Migrations
        BY <3>2, <2>a DEF Schema, Past
      <4>7. recorded' \subseteq applied'
        BY <3>2, <2>a DEF Schema
      <4> QED BY <4>4, <4>5, <4>6, <4>7 DEF Schema
    <3> QED BY <2>b, <3>1, <3>2
  <2>3. OneOpener'
    <3>1. SUFFICES ASSUME "applied" \notin faultAt, "open" \notin overlapped
                   PROVE  OneOpener'
      BY <2>a DEF OneOpener
    <3>2. /\ recorded = 1..seen[p]
          /\ \A q \in Process : step[q] \in Migrating => q = p
          /\ \A w \in applied \ recorded : w = v
          /\ \A q \in Process : step[q] # "failed"
      BY <3>1, <2>a DEF OneOpener
    <3>3. /\ step' = [step EXCEPT ![p] = "opening"]
          /\ recorded' = recorded \union {v}
          /\ seen' = [seen EXCEPT ![p] = v]
      BY <2>b, <3>2
    <3>4. recorded' = 1..seen'[p]
      BY <3>2, <3>3
    <3> QED BY <2>a, <3>1, <3>2, <3>3, <3>4 DEF OneOpener
  <2>4. Files'
    BY <2>a, <2>b, SameFiles
  <2> QED BY <2>1, <2>2, <2>3, <2>4
<1>4. ASSUME NEW p \in Process, Opened(p) PROVE DurableInv'
  <2>1. DurableTypes' /\ Schema' /\ OneOpener'
    BY <1>4 DEF Opened, Schema, Past, OneOpener
  <2>2. Files'
    BY <1>4, SameFiles DEF Opened
  <2> QED BY <2>1, <2>2
<1>5. ASSUME NEW p \in Process, PutCheck(p) PROVE DurableInv'
  <2>1. DurableTypes' /\ Schema' /\ OneOpener'
    BY <1>5 DEF PutCheck, Schema, Past, OneOpener
  <2>2. OneWriter'
    BY <1>5 DEF PutCheck, Files, OneWriter, ShortOnlyIf
  <2>3. PutIsWhole' /\ ShortOnlyIf'
    BY <1>5 DEF PutCheck, Files, OneWriter, PutIsWhole, ShortOnlyIf
  <2>4. PutIsDescribed'
    BY <1>5 DEF PutCheck, Files, OneWriter, PutIsDescribed
  <2> QED BY <2>1, <2>2, <2>3, <2>4 DEF Files
<1>6. ASSUME NEW p \in Process, OpenFile(p) PROVE DurableInv'
  <2>1. DurableTypes' /\ Schema' /\ OneOpener'
    BY <1>6 DEF OpenFile, Schema, Past, OneOpener
  <2>2. OneWriter'
    BY <1>6 DEF OpenFile, Files, OneWriter, ShortOnlyIf
  <2>3. PutIsWhole' /\ ShortOnlyIf'
    BY <1>6 DEF OpenFile, Files, OneWriter, PutIsWhole, ShortOnlyIf
  <2>4. PutIsDescribed'
    BY <1>6 DEF OpenFile, Files, OneWriter, PutIsDescribed
  <2> QED BY <2>1, <2>2, <2>3, <2>4 DEF Files
<1>7. ASSUME NEW p \in Process, WriteBytes(p) PROVE DurableInv'
  <2>1. DurableTypes' /\ Schema' /\ OneOpener'
    BY <1>7 DEF WriteBytes, Schema, Past, OneOpener
  <2>2. OneWriter'
    BY <1>7 DEF WriteBytes, Files, OneWriter, ShortOnlyIf
  <2>3. PutIsWhole' /\ ShortOnlyIf'
    BY <1>7 DEF WriteBytes, Files, OneWriter, PutIsWhole, ShortOnlyIf
  <2>4. PutIsDescribed'
    BY <1>7 DEF WriteBytes, Files, OneWriter, PutIsDescribed
  <2> QED BY <2>1, <2>2, <2>3, <2>4 DEF Files
<1>8. ASSUME NEW p \in Process, OpenMeta(p) PROVE DurableInv'
  <2>1. DurableTypes' /\ Schema' /\ OneOpener'
    BY <1>8 DEF OpenMeta, Schema, Past, OneOpener
  <2>2. OneWriter'
    BY <1>8 DEF OpenMeta, Files, OneWriter, ShortOnlyIf
  <2>3. PutIsWhole' /\ ShortOnlyIf'
    BY <1>8 DEF OpenMeta, Files, OneWriter, PutIsWhole, ShortOnlyIf
  <2>4. PutIsDescribed'
    BY <1>8 DEF OpenMeta, Files, OneWriter, PutIsDescribed
  <2> QED BY <2>1, <2>2, <2>3, <2>4 DEF Files
<1>9. ASSUME NEW p \in Process, WriteMeta(p) PROVE DurableInv'
  <2>1. DurableTypes' /\ Schema' /\ OneOpener'
    BY <1>9 DEF WriteMeta, Schema, Past, OneOpener
  <2>2. OneWriter'
    BY <1>9 DEF WriteMeta, Files, OneWriter, ShortOnlyIf
  <2>3. PutIsWhole' /\ ShortOnlyIf'
    BY <1>9 DEF WriteMeta, Files, OneWriter, PutIsWhole, ShortOnlyIf
  <2>4. PutIsDescribed'
    BY <1>9 DEF WriteMeta, Files, OneWriter, PutIsDescribed
  <2> QED BY <2>1, <2>2, <2>3, <2>4 DEF Files
<1>10. ASSUME NEW p \in Process, PutFails(p) PROVE DurableInv'
  <2>a. /\ step[p] \in Putting
        /\ faults' \in 0..MaxFaults /\ faultAt' = faultAt \union {step[p]}
        /\ step' = [step EXCEPT ![p] = "open"]
        /\ UNCHANGED <<seen, applied, recorded, blob, meta, overlapped>>
    BY <1>10 DEF PutFails, Fault
  <2>1. DurableTypes'
    <3>1. step' \in [Process -> {"new", "open"} \union Migrating \union Putting \union Over]
      BY <2>a
    <3>2. faultAt' \subseteq {"new", "open"} \union Migrating \union Putting
      BY <2>a
    <3> QED BY <2>a, <3>1, <3>2
  <2>2. Schema'
    <3>1. \A q \in Process :
             /\ step'[q] = "applied" => seen[q] < Migrations /\ seen[q] + 1 \in applied
             /\ step'[q] \in Past => seen[q] = Migrations
      BY <2>a DEF Schema, Past
    <3> QED BY <2>a, <3>1 DEF Schema
  <2>3. OneOpener'
    BY <2>a DEF OneOpener
  <2>4. OneWriter' /\ PutIsWhole' /\ ShortOnlyIf'
    BY <2>a DEF Files, OneWriter, PutIsWhole, ShortOnlyIf
  <2>5. PutIsDescribed'
    BY <2>a DEF Files, PutIsDescribed
  <2> QED BY <2>1, <2>2, <2>3, <2>4, <2>5 DEF Files
<1>11. ASSUME NEW p \in Process, Crash(p) PROVE DurableInv'
  <2>a. /\ step[p] \in {"new", "open"} \union Migrating \union Putting
        /\ faults' \in 0..MaxFaults /\ faultAt' = faultAt \union {step[p]}
        /\ step' = [step EXCEPT ![p] = "dead"]
        /\ UNCHANGED <<seen, applied, recorded, blob, meta, overlapped>>
    BY <1>11 DEF Crash, Fault
  <2>1. DurableTypes'
    <3>1. step' \in [Process -> {"new", "open"} \union Migrating \union Putting \union Over]
      BY <2>a
    <3>2. faultAt' \subseteq {"new", "open"} \union Migrating \union Putting
      BY <2>a
    <3> QED BY <2>a, <3>1, <3>2
  <2>2. Schema'
    <3>1. \A q \in Process :
             /\ step'[q] = "applied" => seen[q] < Migrations /\ seen[q] + 1 \in applied
             /\ step'[q] \in Past => seen[q] = Migrations
      BY <2>a DEF Schema, Past
    <3> QED BY <2>a, <3>1 DEF Schema
  <2>3. OneOpener'
    BY <2>a DEF OneOpener
  <2>4. OneWriter' /\ PutIsWhole' /\ ShortOnlyIf'
    BY <2>a DEF Files, OneWriter, PutIsWhole, ShortOnlyIf
  <2>5. PutIsDescribed'
    BY <2>a DEF Files, PutIsDescribed
  <2> QED BY <2>1, <2>2, <2>3, <2>4, <2>5 DEF Files
<1>12. ASSUME NEW p \in Process, Restart(p) PROVE DurableInv'
  <2>1. DurableTypes' /\ Schema' /\ OneOpener'
    BY <1>12 DEF Restart, Schema, Past, OneOpener
  <2>2. Files'
    BY <1>12, SameFiles DEF Restart
  <2> QED BY <2>1, <2>2
<1>13. CASE UNCHANGED durableVars
  <2>1. DurableTypes' /\ Schema' /\ OneOpener'
    BY <1>13 DEF durableVars, Schema, Past, OneOpener
  <2>2. Files'
    BY <1>13 DEF durableVars, Files, OneWriter, PutIsWhole, PutIsDescribed, ShortOnlyIf
  <2> QED BY <2>1, <2>2
<1> QED
  BY <1>1, <1>2, <1>3, <1>4, <1>5, <1>6, <1>7, <1>8, <1>9, <1>10, <1>11, <1>12, <1>13
     DEF DurableNext, DurableStep

\* The types, the schema and what is known of the files hold in every state.
THEOREM DurableInvariance == DurableSpec => []DurableInv
<1> QED BY InitDurable, NextDurable, PTL DEF DurableSpec

\* An open database is complete, and failures to open it, short files and missing descriptions
\* have the causes named, whatever the number of processes, migrations, crashes and failed writes
\* (apply_migrations, FsCasStore.put).
THEOREM DiskWholeOrCrashed == DurableSpec => []WholeOrCrashed
<1>1. DurableInv => WholeOrCrashed
  <2> SUFFICES ASSUME DurableInv PROVE WholeOrCrashed
    OBVIOUS
  <2>1. SchemaWhole
    BY MigrationsAssumption
       DEF DurableInv, DurableTypes, Schema, SchemaWhole, Past, Migration, Putting, Writing
  <2>2. OpenFailsOnlyIf
    BY DEF DurableInv, OneOpener, OpenFailsOnlyIf
  <2>3. PutWhole /\ PutDescribed
    BY DEF DurableInv, Files, PutIsWhole, PutIsDescribed, PutWhole, PutDescribed
  <2> QED BY <2>1, <2>2, <2>3 DEF DurableInv, Files, WholeOrCrashed
<1> QED BY <1>1, DurableInvariance, PTL

----
(* The interactive session *)

----
\* Sequences of line numbers.

Increasing(s) == \A i, j \in DOMAIN s : i < j => s[i] < s[j]
Below(S, T) == \A x \in S, y \in T : x < y

\* The elements of a sequence of line numbers.
LEMMA Elements ==
    ASSUME NEW n \in Nat, NEW s \in Seq(1 .. n)
    PROVE  ToSet(s) \subseteq 1 .. n
BY DEF ToSet

\* Taking the first line off an increasing sequence: it is smaller than those left.
LEMMA Taken ==
    ASSUME NEW n \in Nat, NEW s \in Seq(1 .. n), s # <<>>, Increasing(s)
    PROVE  /\ Head(s) \in 1 .. n /\ Head(s) \in ToSet(s)
           /\ Tail(s) \in Seq(1 .. n) /\ Increasing(Tail(s))
           /\ ToSet(Tail(s)) \subseteq ToSet(s)
           /\ Below({Head(s)}, ToSet(Tail(s)))
<1> DEFINE t == Tail(s)
           L == Len(s)
<1>1. /\ L \in Nat \ {0} /\ s[1] = Head(s) /\ DOMAIN s = 1 .. L /\ t \in Seq(1 .. n)
      /\ DOMAIN t = 1 .. L - 1 /\ \A i \in 1 .. L - 1 : t[i] = s[i + 1]
      OBVIOUS
<1>2. \A i \in 1 .. L : s[i] \in 1 .. n
      OBVIOUS
<1> HIDE DEF t, L
<1>3. 1 \in DOMAIN s /\ \A i \in 1 .. L - 1 : i + 1 \in DOMAIN s /\ 1 < i + 1
      BY <1>1
<1>4. Increasing(t)
  <2> SUFFICES ASSUME NEW i \in 1 .. L - 1, NEW j \in 1 .. L - 1, i < j PROVE s[i + 1] < s[j + 1]
      BY <1>1 DEF Increasing
  <2>1. i + 1 \in DOMAIN s /\ j + 1 \in DOMAIN s /\ i + 1 < j + 1
        BY <1>1
  <2> QED
      BY <2>1 DEF Increasing
<1>5. \A y \in ToSet(t) : \E i \in 1 .. L - 1 : y = s[i + 1]
      BY <1>1 DEF ToSet
<1>6. ToSet(t) \subseteq ToSet(s)
  <2>1. \A i \in 1 .. L - 1 : s[i + 1] \in ToSet(s)
        BY <1>3 DEF ToSet
  <2> QED
      BY <1>5, <2>1
<1>7. Below({Head(s)}, ToSet(t))
  <2>1. \A i \in 1 .. L - 1 : s[1] < s[i + 1]
        BY <1>3 DEF Increasing
  <2> QED
      BY <1>1, <1>5, <2>1 DEF Below
<1>8. s[1] \in ToSet(s)
      BY <1>3 DEF ToSet
<1> QED
    BY <1>1, <1>2, <1>4, <1>6, <1>7, <1>8 DEF t

\* Adding a line at the end of an increasing sequence.
LEMMA Added ==
    ASSUME NEW n \in Nat, NEW s \in Seq(1 .. n), NEW x \in 1 .. n, Increasing(s),
           Below(ToSet(s), {x})
    PROVE  /\ Append(s, x) \in Seq(1 .. n) /\ Increasing(Append(s, x))
           /\ ToSet(Append(s, x)) = ToSet(s) \union {x}
<1> DEFINE a == Append(s, x)
           L == Len(s)
<1>1. /\ L \in Nat /\ a \in Seq(1 .. n) /\ DOMAIN a = 1 .. L + 1 /\ a[L + 1] = x
      /\ DOMAIN s = 1 .. L /\ \A i \in 1 .. L : a[i] = s[i]
      OBVIOUS
<1> HIDE DEF a, L
<1>2. \A i \in 1 .. L + 1 : i \in 1 .. L \/ i = L + 1
      BY <1>1
<1>3. \A i \in 1 .. L : s[i] < x
      BY <1>1 DEF Below, ToSet
<1>4. Increasing(a)
  <2> SUFFICES ASSUME NEW i \in 1 .. L + 1, NEW j \in 1 .. L + 1, i < j PROVE a[i] < a[j]
      BY <1>1 DEF Increasing
  <2>1. i \in 1 .. L
        BY <1>1
  <2>2. CASE j = L + 1
        BY <1>1, <1>3, <2>1, <2>2
  <2>3. CASE j \in 1 .. L
        BY <1>1, <2>1, <2>3 DEF Increasing
  <2> QED
      BY <1>2, <2>2, <2>3
<1>5. ToSet(a) = ToSet(s) \union {x}
  <2>1. ToSet(a) \subseteq ToSet(s) \union {x}
        BY <1>1, <1>2 DEF ToSet
  <2>2. ToSet(s) \subseteq ToSet(a)
    <3>1. \A i \in 1 .. L : i \in 1 .. L + 1
          BY <1>1
    <3> QED
        BY <1>1, <3>1 DEF ToSet
  <2>3. x \in ToSet(a)
        BY <1>1, L + 1 \in 1 .. L + 1 DEF ToSet
  <2> QED
      BY <2>1, <2>2, <2>3
<1> QED
    BY <1>1, <1>4, <1>5 DEF a
----
\* The inductive invariant.

\* The line the reader holds, as a set.
Held == IF reader.state = "holds" THEN {reader.line} ELSE {}

\* The types, those of the sequences included.
LineTypes ==
    /\ terminal \in {"both", "input", "none"} /\ resumed \in BOOLEAN /\ handle \in BOOLEAN
    /\ clarify \in BOOLEAN /\ raised \in BOOLEAN
    /\ stopping \in BOOLEAN
    /\ main \in {"check", "get", "close", "prompt", "returned", "raised"}
    /\ worker \in WorkerState
    /\ run \in RunState /\ status \in RunState
    /\ loop \in 1 .. MaxLoops
    /\ typed \in Seq([cmd : Line, awaited : BOOLEAN])
    /\ stdin \in Seq(1 .. Len(typed))
    /\ queue \in Seq(1 .. Len(typed))
    /\ commands \in Seq(1 .. Len(typed))
    /\ reader \in [state : {"polling", "holds", "off"}, line : 0 .. Len(typed)]
    /\ Held \subseteq 1 .. Len(typed)

\* A line goes from the terminal through the reader and the queue to the run, and none overtakes
\* another.
InOrder ==
    /\ Increasing(stdin) /\ Increasing(queue) /\ Increasing(commands)
    /\ Below(Held, ToSet(stdin))
    /\ Below(ToSet(queue), Held) /\ Below(ToSet(queue), ToSet(stdin))
    /\ Below(ToSet(commands), ToSet(queue)) /\ Below(ToSet(commands), Held)
    /\ Below(ToSet(commands), ToSet(stdin))

\* Where a line is before it is a command or lost.
Way == ToSet(stdin) \union Held \union ToSet(queue)

\* A lost line is not on that way any more, and became a command only to be refused; what was
\* lost, and when, has its reason.
Accounted(f) ==
    /\ f \in [line : 1 .. Len(typed), what : {"dropped", "refused", "swallowed", "left"},
              worker : WorkerState, loop : 1 .. MaxLoops]
    /\ f.line \notin Way
    /\ f.line \in ToSet(commands) => f.what = "refused"
    /\ f.what = "dropped" => resumed \/ f.loop > 1 \/ ~typed[f.line].awaited
    /\ f.what \in {"swallowed", "left"} =>
          f.worker \notin {"creating", "ready", "running"} \/ Refused
    /\ f.what = "refused" =>
          /\ f.worker # "creating"
          /\ f.worker = "running" => \E c \in ToSet(commands) : c < f.line

LossesAccounted == \A f \in losses : Accounted(f)

\* The loop of start() has the handle once there is a run to command, and only then are lines
\* awaited.
HandleKnown ==
    /\ handle => worker # "creating"
    /\ Started /\ ~handle =>
          /\ worker \notin {"ready", "running"}
          /\ \A i \in DOMAIN typed : ~typed[i].awaited

\* Only a command takes a run that has not come to rest out of the state the worker left it in.
Begun ==
    /\ worker = "creating" => run = IF Started THEN "PENDING" ELSE "RUNNING"
    /\ worker = "ready" => run = "PENDING" \/ commands # <<>>
    /\ worker = "running" => run = "RUNNING" \/ commands # <<>>

\* The input thread is stopped, and the loop closed, after the worker or a refusal.
StoppedLate ==
    /\ stopping => worker = "over" \/ Refused
    /\ main \in {"close", "prompt"} => worker = "over"
    /\ Refused => main = "raised"

Session == InOrder /\ LossesAccounted /\ HandleKnown /\ Begun /\ StoppedLate

\* A session starts with nothing typed.
LEMMA InitSession == LineInit => LineTypes /\ Session
<1> SUFFICES ASSUME LineInit PROVE LineTypes /\ Session
    OBVIOUS
<1>1. Held = {} /\ ToSet(<<>>) = {}
      BY DEF LineInit, Held, ToSet
<1>2. LineTypes
  <2>1. \A S : <<>> \in Seq(S)
        OBVIOUS
  <2>2. Len(<<>>) = 0 /\ 0 \in 0 .. 0 /\ 1 \in 1 .. MaxLoops
        BY LoopsAssumption
  <2>3. /\ typed \in Seq([cmd : Line, awaited : BOOLEAN]) /\ stdin \in Seq(1 .. Len(typed))
        /\ queue \in Seq(1 .. Len(typed)) /\ commands \in Seq(1 .. Len(typed))
        BY <2>1 DEF LineInit
  <2>4. reader \in [state : {"polling", "holds", "off"}, line : 0 .. Len(typed)]
        BY <2>2 DEF LineInit, NoLine
  <2> QED
      BY <1>1, <2>2, <2>3, <2>4 DEF LineInit, LineTypes, RunState, WorkerState
<1>3. InOrder
      BY <1>1 DEF LineInit, InOrder, Increasing, Below
<1>4. LossesAccounted /\ HandleKnown /\ Begun /\ StoppedLate
      BY DEF LineInit, LossesAccounted, HandleKnown, Begun, StoppedLate, Refused, Started
<1> QED
    BY <1>2, <1>3, <1>4 DEF Session

\* Line numbers stay line numbers when another line is typed.
LEMMA Widened ==
    ASSUME NEW n \in Nat, NEW s \in Seq(1 .. n)
    PROVE  s \in Seq(1 .. n + 1)
<1>1. 1 .. n \subseteq 1 .. n + 1
      OBVIOUS
<1> QED
    BY <1>1

\* What is left of line numbers, and line numbers with one more, are line numbers.
LEMMA StillLines ==
    ASSUME NEW n \in Nat, NEW s \in Seq(1 .. n)
    PROVE  /\ s # <<>> => Head(s) \in 1 .. n /\ Tail(s) \in Seq(1 .. n)
           /\ \A x \in 1 .. n : Append(s, x) \in Seq(1 .. n)
<1>1. s # <<>> => Head(s) \in 1 .. n /\ Tail(s) \in Seq(1 .. n)
      OBVIOUS
<1>2. ASSUME NEW x \in 1 .. n PROVE Append(s, x) \in Seq(1 .. n)
  <2> DEFINE S == 1 .. n
  <2>1. s \in Seq(S) /\ x \in S
        BY <1>2
  <2> HIDE DEF S
  <2>2. Append(s, x) \in Seq(S)
        BY <2>1
  <2> QED
      BY <2>2 DEF S
<1> QED
    BY <1>1, <1>2

\* A state of the run after a command, or when it comes to rest, is a state of a run.
LEMMA Targets == \A cmd : Target(cmd) \in RunState
BY DEF Target, RunState

\* The types are kept by the input thread and the typing of lines.
LEMMA InputTypes ==
    ASSUME LineTypes, InOrder, ReaderStep \/ \E cmd \in Line : Type(cmd)
    PROVE  LineTypes'
<1> USE DEF LineTypes, input, session, NoLine
<1>0. Len(typed) \in Nat
      OBVIOUS
<1>1. ASSUME NEW cmd \in Line, Type(cmd) PROVE LineTypes'
  <2>1. typed' \in Seq([cmd : Line, awaited : BOOLEAN]) /\ Len(typed') = Len(typed) + 1
    <3> DEFINE a == worker \in {"ready", "running"} /\ Started
    <3>1. a \in BOOLEAN
          BY DEF Started
    <3> HIDE DEF a
    <3>2. [cmd |-> cmd, awaited |-> a] \in [cmd : Line, awaited : BOOLEAN]
          BY <3>1
    <3>3. typed' = Append(typed, [cmd |-> cmd, awaited |-> a])
          BY <1>1 DEF Type, a
    <3> QED
        BY <3>2, <3>3
  <2>2. stdin' \in Seq(1 .. Len(typed) + 1)
    <3>1. stdin \in Seq(1 .. Len(typed) + 1) /\ Len(typed) + 1 \in 1 .. Len(typed) + 1
          BY <1>0, Widened
    <3> QED
        BY <1>1, <3>1 DEF Type
  <2>3. queue \in Seq(1 .. Len(typed) + 1) /\ commands \in Seq(1 .. Len(typed) + 1)
        BY <1>0, Widened
  <2>4. reader \in [state : {"polling", "holds", "off"}, line : 0 .. Len(typed) + 1]
        BY <1>0
  <2>5. Held' = Held
        BY <1>1 DEF Type, Held
  <2> QED
      BY <1>0, <1>1, <2>1, <2>2, <2>3, <2>4, <2>5 DEF Type
<1>2. CASE ReadLine
  <2>1. Head(stdin) \in 1 .. Len(typed) /\ Tail(stdin) \in Seq(1 .. Len(typed))
        BY <1>0, <1>2, Taken DEF ReadLine, InOrder
  <2>2. reader' \in [state : {"polling", "holds", "off"}, line : 0 .. Len(typed)]
        BY <1>0, <1>2, <2>1 DEF ReadLine
  <2>3. Held' \subseteq 1 .. Len(typed)
        BY <1>2, <2>1 DEF ReadLine, Held
  <2> QED
      BY <1>2, <2>1, <2>2, <2>3 DEF ReadLine
<1>3. CASE PutLine
  <2>1. reader.line \in 1 .. Len(typed)
        BY <1>3 DEF PutLine, Held
  <2>2. queue' \in Seq(1 .. Len(typed))
    <3>1. queue' = queue \/ queue' = Append(queue, reader.line)
          BY <1>3 DEF PutLine
    <3>2. queue \in Seq(1 .. Len(typed))
          OBVIOUS
    <3> HIDE DEF LineTypes
    <3>3. \A x \in 1 .. Len(typed) : Append(queue, x) \in Seq(1 .. Len(typed))
          BY <1>0, <3>2, StillLines
    <3> QED
        BY <2>1, <3>1, <3>2, <3>3
  <2>3. reader' \in [state : {"polling", "holds", "off"}, line : 0 .. Len(typed)]
        BY <1>0, <1>3 DEF PutLine
  <2>4. Held' = {}
        BY <1>3 DEF PutLine, Held
  <2> QED
      BY <1>3, <2>2, <2>3, <2>4 DEF PutLine
<1>4. CASE ReaderStops
  <2>1. reader' = [state |-> "off", line |-> 0]
        BY <1>4 DEF ReaderStops
  <2>2. reader' \in [state : {"polling", "holds", "off"}, line : 0 .. Len(typed)]
        BY <1>0, <2>1
  <2>3. Held' = {}
        BY <2>1 DEF Held
  <2> QED
      BY <1>4, <2>2, <2>3 DEF ReaderStops
<1> QED
    BY <1>1, <1>2, <1>3, <1>4 DEF ReaderStep

\* The types are kept by the worker.
LEMMA WorkerTypes == LineTypes /\ WorkerStep => LineTypes'
<1> SUFFICES ASSUME LineTypes, WorkerStep PROVE LineTypes'
    OBVIOUS
<1>1. UNCHANGED <<terminal, loop, main, stopping, typed, stdin, queue, commands, reader, resumed>>
      BY DEF WorkerStep, Publish, Begin, Rest, WorkerRaises, Tell, WorkerDone, input
<1>2. Held' = Held
      BY <1>1 DEF Held
<1>3. worker' \in WorkerState
      BY DEF LineTypes, WorkerState, WorkerStep, Publish, Begin, Rest, WorkerRaises, Tell, WorkerDone
<1>4. handle' \in BOOLEAN
  <2>1. CASE Publish
        BY <2>1, Zenon DEF Publish, Started
  <2> QED
      BY <2>1 DEF WorkerStep, Begin, Rest, WorkerRaises, Tell, WorkerDone, LineTypes
<1>5. run' \in RunState /\ status' \in RunState /\ clarify' \in BOOLEAN /\ raised' \in BOOLEAN
      BY DEF WorkerStep, Publish, Begin, Rest, WorkerRaises, Tell, WorkerDone, LineTypes, RunState
<1> QED
    BY <1>1, <1>2, <1>3, <1>4, <1>5 DEF LineTypes

\* The types are kept by the main thread.
LEMMA MainTypes ==
    ASSUME LineTypes, InOrder, MainStep
    PROVE  LineTypes'
<1> USE DEF LineTypes, input, session, NoLine
<1>0. Len(typed) \in Nat
      OBVIOUS
<1>1. UNCHANGED <<terminal, typed, resumed, raised>>
      BY DEF MainStep, Check, NoCommand, Drop, Apply, Close, Clarify, LeavePrompt, EndAtPrompt,
             StopAtPrompt, ContinueAtPrompt,
             TakeAnswer
<1>2. stopping' \in BOOLEAN
  <2>1. CASE Check
        BY <2>1, Zenon DEF Check
  <2>2. CASE Apply
        BY <2>2, Zenon DEF Apply
  <2> QED
      BY <2>1, <2>2 DEF MainStep, NoCommand, Drop, Close, Clarify, LeavePrompt, EndAtPrompt,
                        StopAtPrompt, ContinueAtPrompt
<1>3. stdin' \in Seq(1 .. Len(typed))
  <2>1. stdin' = stdin \/ (stdin # <<>> /\ stdin' = Tail(stdin))
        BY DEF MainStep, Check, NoCommand, Drop, Apply, Close, Clarify, LeavePrompt, EndAtPrompt,
               StopAtPrompt, ContinueAtPrompt,
               TakeAnswer
  <2>2. stdin \in Seq(1 .. Len(typed))
        OBVIOUS
  <2> QED
      BY <1>0, <2>1, <2>2, StillLines
<1>4. queue' \in Seq(1 .. Len(typed))
  <2>1. queue' = queue \/ queue' = <<>> \/ (queue # <<>> /\ queue' = Tail(queue))
        BY DEF MainStep, Check, NoCommand, Drop, Apply, Close, Clarify, LeavePrompt, EndAtPrompt,
               StopAtPrompt, ContinueAtPrompt
  <2>2. queue \in Seq(1 .. Len(typed)) /\ <<>> \in Seq(1 .. Len(typed))
        OBVIOUS
  <2> QED
      BY <1>0, <2>1, <2>2, StillLines
<1>5. commands' \in Seq(1 .. Len(typed))
  <2>1. commands' = commands \/ (queue # <<>> /\ commands' = Append(commands, Head(queue)))
        BY DEF MainStep, Check, NoCommand, Drop, Apply, Close, Clarify, LeavePrompt, EndAtPrompt,
               StopAtPrompt, ContinueAtPrompt
  <2>2. queue \in Seq(1 .. Len(typed)) /\ commands \in Seq(1 .. Len(typed))
        OBVIOUS
  <2>3. queue # <<>> => Head(queue) \in 1 .. Len(typed)
        BY <1>0, <2>2, StillLines
  <2> HIDE DEF LineTypes
  <2>4. \A x \in 1 .. Len(typed) : Append(commands, x) \in Seq(1 .. Len(typed))
        BY <1>0, <2>2, StillLines
  <2> QED
      BY <2>1, <2>2, <2>3, <2>4
<1>6. /\ reader' \in [state : {"polling", "holds", "off"}, line : 0 .. Len(typed)]
      /\ Held' \subseteq 1 .. Len(typed)
  <2>1. reader' = reader \/ reader' = [state |-> "polling", line |-> 0]
        BY DEF MainStep, Check, NoCommand, Drop, Apply, Close, Clarify, LeavePrompt, EndAtPrompt,
               StopAtPrompt, ContinueAtPrompt
  <2> QED
      BY <1>0, <2>1 DEF Held
<1>7. loop' \in 1 .. MaxLoops
      BY LoopsAssumption
      DEF MainStep, Check, NoCommand, Drop, Apply, Close, Clarify, LeavePrompt, EndAtPrompt,
          StopAtPrompt, ContinueAtPrompt
<1>8. /\ main' \in {"check", "get", "close", "prompt", "returned", "raised"}
      /\ worker' \in WorkerState
      /\ handle' \in BOOLEAN /\ clarify' \in BOOLEAN
      BY DEF MainStep, Check, NoCommand, Drop, Apply, Close, Clarify, LeavePrompt, EndAtPrompt,
             StopAtPrompt, ContinueAtPrompt, WorkerState
<1>9. run' \in RunState /\ status' \in RunState
      BY Targets
      DEF MainStep, Check, NoCommand, Drop, Apply, Close, Clarify, LeavePrompt, EndAtPrompt,
          StopAtPrompt, ContinueAtPrompt,
          RunState
<1> QED
    BY <1>1, <1>2, <1>3, <1>4, <1>5, <1>6, <1>7, <1>8, <1>9
----
\* The order of the lines.

\* A step keeps the order; lines come onto the way by typing only, and commands from it.
Moves ==
    /\ InOrder'
    /\ Way' \subseteq Way \union {Len(typed) + 1}
    /\ ToSet(commands') \subseteq ToSet(commands) \union Way

\* What is below stays so when there is less of it.
LEMMA FewerBelow ==
    ASSUME NEW S, NEW T, NEW U \in SUBSET S, NEW V \in SUBSET T, Below(S, T)
    PROVE  Below(U, V)
BY Zenon DEF Below

\* What is below both of two sets is below their union, and conversely.
LEMMA UnionBelow ==
    ASSUME NEW S, NEW T, NEW U
    PROVE  /\ Below(S, T) /\ Below(S, U) => Below(S, T \union U)
           /\ Below(S, U) /\ Below(T, U) => Below(S \union T, U)
BY Zenon DEF Below

\* Nothing is below itself.
LEMMA Apart ==
    ASSUME NEW n \in Nat, NEW S \in SUBSET (1 .. n), NEW T, Below(S, T)
    PROVE  S \intersect T = {}
<1> SUFFICES ASSUME NEW x \in S, x \in T PROVE FALSE
    OBVIOUS
<1>1. x < x
      BY DEF Below
<1> QED
    BY <1>1

\* Nothing is before or after no line.
LEMMA NoneBelow == ASSUME NEW S PROVE Below({}, S) /\ Below(S, {}) /\ ToSet(<<>>) = {}
BY DEF Below, ToSet

\* The lines on the way, and the commands, are lines typed.
LEMMA LinesTyped ==
    ASSUME LineTypes
    PROVE  /\ Len(typed) \in Nat
           /\ ToSet(stdin) \subseteq 1 .. Len(typed) /\ ToSet(queue) \subseteq 1 .. Len(typed)
           /\ ToSet(commands) \subseteq 1 .. Len(typed) /\ Held \subseteq 1 .. Len(typed)
<1>1. Len(typed) \in Nat
      BY DEF LineTypes
<1>2. /\ stdin \in Seq(1 .. Len(typed)) /\ queue \in Seq(1 .. Len(typed))
      /\ commands \in Seq(1 .. Len(typed)) /\ Held \subseteq 1 .. Len(typed)
      BY DEF LineTypes
<1> QED
    BY <1>1, <1>2, Elements

\* The order when a line is typed.
LEMMA TypeMoves ==
    ASSUME LineTypes, InOrder, NEW cmd \in Line, Type(cmd)
    PROVE  Moves
<1> DEFINE n == Len(typed)
<1>1. /\ n \in Nat /\ n + 1 \in 1 .. n + 1
      /\ Below(ToSet(stdin), {n + 1}) /\ Below(Held, {n + 1})
      /\ Below(ToSet(queue), {n + 1}) /\ Below(ToSet(commands), {n + 1})
  <2> DEFINE N == 1 .. n
             M == {n + 1}
  <2>1. n \in Nat /\ n + 1 \in 1 .. n + 1 /\ Below(N, M)
        BY LinesTyped DEF Below
  <2>2. /\ ToSet(stdin) \in SUBSET N /\ ToSet(queue) \in SUBSET N
        /\ ToSet(commands) \in SUBSET N /\ Held \in SUBSET N /\ M \in SUBSET M
        BY LinesTyped
  <2> HIDE DEF N, M
  <2>3. /\ Below(ToSet(stdin), M) /\ Below(Held, M)
        /\ Below(ToSet(queue), M) /\ Below(ToSet(commands), M)
        BY <2>1, <2>2, FewerBelow
  <2> QED
      BY <2>1, <2>3 DEF M
<1>2. /\ stdin' = Append(stdin, n + 1) /\ stdin \in Seq(1 .. n)
      /\ UNCHANGED <<queue, commands, reader>> /\ Held' = Held
      BY DEF Type, session, LineTypes, Held
<1> HIDE DEF n
<1>3. Increasing(stdin') /\ ToSet(stdin') = ToSet(stdin) \union {n + 1}
  <2>1. stdin \in Seq(1 .. n + 1) /\ Increasing(stdin)
        BY <1>1, <1>2, Widened DEF InOrder
  <2>2. n + 1 \in Nat
        BY <1>1
  <2> HIDE DEF Type
  <2> QED
      BY <1>1, <1>2, <2>1, <2>2, Added
<1>4. /\ Below(Held, ToSet(stdin')) /\ Below(ToSet(queue), ToSet(stdin'))
      /\ Below(ToSet(commands), ToSet(stdin'))
  <2>1. /\ Below(Held, ToSet(stdin)) /\ Below(ToSet(queue), ToSet(stdin))
        /\ Below(ToSet(commands), ToSet(stdin))
        BY DEF InOrder
  <2>2. /\ Below(Held, ToSet(stdin) \union {n + 1})
        /\ Below(ToSet(queue), ToSet(stdin) \union {n + 1})
        /\ Below(ToSet(commands), ToSet(stdin) \union {n + 1})
        BY <1>1, <2>1, UnionBelow
  <2> QED
      BY <1>3, <2>2
<1>5. InOrder'
      BY <1>2, <1>3, <1>4 DEF InOrder
<1> QED
    BY <1>2, <1>3, <1>5 DEF Moves, Way, n

\* The order when the reader takes a line.
LEMMA ReadMoves ==
    ASSUME LineTypes, InOrder, ReadLine
    PROVE  Moves
<1> DEFINE n == Len(typed)
           h == Head(stdin)
<1>1. /\ n \in Nat /\ stdin # <<>> /\ stdin \in Seq(1 .. n) /\ Increasing(stdin)
      BY LinesTyped DEF ReadLine, LineTypes, InOrder
<1>2. /\ stdin' = Tail(stdin) /\ UNCHANGED <<queue, commands>>
      /\ Held' = {h} \/ Held' = {}
      BY DEF ReadLine, session, Held
<1> HIDE DEF n
<1>3. /\ h \in ToSet(stdin) /\ Increasing(stdin') /\ ToSet(stdin') \subseteq ToSet(stdin)
      /\ Below({h}, ToSet(stdin'))
      BY <1>1, <1>2, Taken
<1>4. Below(Held', ToSet(stdin'))
      BY <1>2, <1>3, NoneBelow
<1>5. Held' \subseteq ToSet(stdin)
      BY <1>2, <1>3
<1>6. /\ Below(ToSet(queue), Held') /\ Below(ToSet(commands), Held')
      /\ Below(ToSet(queue), ToSet(stdin')) /\ Below(ToSet(commands), ToSet(stdin'))
  <2>1. Below(ToSet(queue), ToSet(stdin)) /\ Below(ToSet(commands), ToSet(stdin))
        BY DEF InOrder
  <2>2. ToSet(queue) \in SUBSET ToSet(queue) /\ ToSet(commands) \in SUBSET ToSet(commands)
        OBVIOUS
  <2> QED
      BY <1>3, <1>5, <2>1, <2>2, FewerBelow
<1>7. InOrder'
      BY <1>2, <1>3, <1>4, <1>6 DEF InOrder
<1> QED
    BY <1>2, <1>3, <1>5, <1>7 DEF Moves, Way

\* The order when the reader puts its line into the queue, or swallows it.
LEMMA PutMoves ==
    ASSUME LineTypes, InOrder, PutLine
    PROVE  Moves
<1> DEFINE n == Len(typed)
           h == reader.line
<1>1. /\ n \in Nat /\ queue \in Seq(1 .. n) /\ Increasing(queue) /\ Held = {h} /\ h \in 1 .. n
      BY LinesTyped DEF PutLine, LineTypes, InOrder, Held
<1>2. /\ UNCHANGED <<stdin, commands>> /\ Held' = {}
      /\ queue' = queue \/ queue' = Append(queue, h)
      BY DEF PutLine, session, Held, Loses
<1> HIDE DEF n, h
<1>3. Increasing(queue') /\ ToSet(queue') \subseteq ToSet(queue) \union Held
  <2>1. Below(ToSet(queue), {h})
        BY <1>1 DEF InOrder
  <2>2. Increasing(Append(queue, h)) /\ ToSet(Append(queue, h)) = ToSet(queue) \union {h}
        BY <1>1, <2>1, Added
  <2> QED
      BY <1>1, <1>2, <2>2
<1>4. Below(ToSet(queue'), ToSet(stdin)) /\ Below(ToSet(commands), ToSet(queue'))
  <2>1. /\ Below(ToSet(queue) \union Held, ToSet(stdin))
        /\ Below(ToSet(commands), ToSet(queue) \union Held)
        BY UnionBelow DEF InOrder
  <2>2. ToSet(stdin) \in SUBSET ToSet(stdin) /\ ToSet(commands) \in SUBSET ToSet(commands)
        OBVIOUS
  <2> QED
      BY <1>3, <2>1, <2>2, FewerBelow
<1>5. InOrder'
      BY <1>2, <1>3, <1>4, NoneBelow DEF InOrder
<1> QED
    BY <1>2, <1>3, <1>5 DEF Moves, Way

\* The order when the main thread takes a command off the queue, to apply it or to drop it.
LEMMA TakeMoves ==
    ASSUME LineTypes, InOrder, Drop \/ Apply
    PROVE  Moves
<1> DEFINE n == Len(typed)
           h == Head(queue)
<1>1. /\ n \in Nat /\ queue # <<>> /\ queue \in Seq(1 .. n) /\ Increasing(queue)
      /\ commands \in Seq(1 .. n) /\ Increasing(commands)
      BY LinesTyped DEF Drop, Apply, LineTypes, InOrder
<1>2. /\ queue' = Tail(queue) /\ UNCHANGED <<stdin, reader>> /\ Held' = Held
      /\ commands' = commands \/ commands' = Append(commands, h)
      BY DEF Drop, Apply, Held
<1> HIDE DEF n
<1>3. /\ h \in 1 .. n /\ h \in ToSet(queue) /\ Increasing(queue')
      /\ ToSet(queue') \subseteq ToSet(queue) /\ Below({h}, ToSet(queue'))
      BY <1>1, <1>2, Taken
<1> HIDE DEF h
<1>4. Increasing(commands') /\ ToSet(commands') \subseteq ToSet(commands) \union {h}
  <2>1. Below(ToSet(commands), {h})
    <3>1. Below(ToSet(commands), ToSet(queue)) /\ {h} \in SUBSET ToSet(queue)
          BY <1>3 DEF InOrder
    <3> QED
        BY <3>1, FewerBelow
  <2>2. Increasing(Append(commands, h)) /\ ToSet(Append(commands, h)) = ToSet(commands) \union {h}
        BY <1>1, <1>3, <2>1, Added
  <2> QED
      BY <1>1, <1>2, <2>2
<1>5. /\ Below(ToSet(queue'), Held) /\ Below(ToSet(queue'), ToSet(stdin))
      /\ Below({h}, Held) /\ Below({h}, ToSet(stdin)) /\ Below(ToSet(commands), ToSet(queue'))
  <2>1. /\ Below(ToSet(queue), Held) /\ Below(ToSet(queue), ToSet(stdin))
        /\ Below(ToSet(commands), ToSet(queue))
        BY DEF InOrder
  <2>2. /\ {h} \in SUBSET ToSet(queue) /\ ToSet(queue') \in SUBSET ToSet(queue)
        /\ Held \in SUBSET Held /\ ToSet(stdin) \in SUBSET ToSet(stdin)
        /\ ToSet(commands) \in SUBSET ToSet(commands)
        BY <1>3
  <2> QED
      BY <2>1, <2>2, FewerBelow
<1>6. /\ Below(ToSet(commands'), ToSet(queue')) /\ Below(ToSet(commands'), Held)
      /\ Below(ToSet(commands'), ToSet(stdin))
  <2>1. /\ Below(ToSet(commands) \union {h}, ToSet(queue')) /\ Below(ToSet(commands) \union {h}, Held)
        /\ Below(ToSet(commands) \union {h}, ToSet(stdin))
        BY <1>3, <1>5, UnionBelow DEF InOrder
  <2>2. /\ ToSet(queue') \in SUBSET ToSet(queue') /\ Held \in SUBSET Held
        /\ ToSet(stdin) \in SUBSET ToSet(stdin)
        OBVIOUS
  <2> QED
      BY <1>4, <2>1, <2>2, FewerBelow
<1>7. InOrder'
      BY <1>2, <1>3, <1>4, <1>5, <1>6 DEF InOrder
<1> QED
    BY <1>2, <1>3, <1>4, <1>7 DEF Moves, Way

\* The order when lines leave the way: answers at the prompt, a queue left behind, a new reader.
LEMMA LeavingMoves ==
    ASSUME LineTypes, InOrder, UNCHANGED commands,
           stdin' = stdin \/ (stdin # <<>> /\ stdin' = Tail(stdin)),
           queue' = queue \/ queue' = <<>>,
           Held' \subseteq Held
    PROVE  Moves
<1>1. Increasing(stdin') /\ ToSet(stdin') \subseteq ToSet(stdin)
  <2>1. Len(typed) \in Nat /\ stdin \in Seq(1 .. Len(typed)) /\ Increasing(stdin)
        BY LinesTyped DEF LineTypes, InOrder
  <2> QED
      BY <2>1, Taken
<1>2. Increasing(queue') /\ ToSet(queue') \subseteq ToSet(queue)
  <2>1. Increasing(<<>>) /\ ToSet(<<>>) = {}
        BY DEF Increasing, ToSet
  <2> QED
      BY <2>1 DEF InOrder
<1>3. /\ Below(Held', ToSet(stdin')) /\ Below(ToSet(queue'), Held')
      /\ Below(ToSet(queue'), ToSet(stdin')) /\ Below(ToSet(commands), ToSet(queue'))
      /\ Below(ToSet(commands), Held') /\ Below(ToSet(commands), ToSet(stdin'))
  <2>1. /\ ToSet(stdin') \in SUBSET ToSet(stdin) /\ ToSet(queue') \in SUBSET ToSet(queue)
        /\ Held' \in SUBSET Held /\ ToSet(commands) \in SUBSET ToSet(commands)
        BY <1>1, <1>2
  <2>2. /\ Below(Held, ToSet(stdin)) /\ Below(ToSet(queue), Held)
        /\ Below(ToSet(queue), ToSet(stdin)) /\ Below(ToSet(commands), ToSet(queue))
        /\ Below(ToSet(commands), Held) /\ Below(ToSet(commands), ToSet(stdin))
        BY DEF InOrder
  <2> QED
      BY <2>1, <2>2, FewerBelow
<1>4. InOrder'
      BY <1>1, <1>2, <1>3 DEF InOrder
<1> QED
    BY <1>1, <1>2, <1>4 DEF Moves, Way

\* Every step keeps the order.
LEMMA StepMoves ==
    ASSUME LineTypes, InOrder, LineNext
    PROVE  Moves
<1>1. CASE \E cmd \in Line : Type(cmd)
      BY <1>1, TypeMoves
<1>2. CASE ReaderStep
  <2>1. CASE ReaderStops
    <3>1. /\ UNCHANGED <<commands, stdin, queue>> /\ Held' = {}
          BY <2>1 DEF ReaderStops, session, Held
    <3> QED
        BY <3>1, LeavingMoves
  <2> QED
      BY <1>2, <2>1, ReadMoves, PutMoves DEF ReaderStep
<1>3. CASE WorkerStep
  <2>1. UNCHANGED <<commands, stdin, queue, reader>>
        BY <1>3 DEF WorkerStep, Publish, Begin, Rest, WorkerRaises, Tell, WorkerDone, input
  <2>2. Held' = Held
        BY <2>1 DEF Held
  <2> QED
      BY <2>1, <2>2, LeavingMoves
<1>4. CASE MainStep
  <2>1. CASE \/ Check \/ NoCommand \/ Close \/ Clarify \/ LeavePrompt \/ EndAtPrompt
             \/ StopAtPrompt \/ ContinueAtPrompt
    <3>1. /\ UNCHANGED commands
          /\ stdin' = stdin \/ (stdin # <<>> /\ stdin' = Tail(stdin))
          /\ queue' = queue \/ queue' = <<>>
          /\ reader' = reader \/ reader' = [state |-> "polling", line |-> NoLine]
          BY <2>1 DEF Check, NoCommand, Close, Clarify, LeavePrompt, EndAtPrompt, StopAtPrompt,
                      ContinueAtPrompt, TakeAnswer, input
    <3>2. Held' \subseteq Held
          BY <3>1 DEF Held
    <3> QED
        BY <3>1, <3>2, LeavingMoves
  <2> QED
      BY <1>4, <2>1, TakeMoves DEF MainStep
<1> QED
    BY <1>1, <1>2, <1>3, <1>4 DEF LineNext
----
\* The losses.

\* What is appended to keeps its elements.
LEMMA Prefixed ==
    ASSUME NEW n \in Nat, NEW s \in Seq(1 .. n), NEW x
    PROVE  ToSet(s) \subseteq ToSet(Append(s, x))
BY DEF ToSet

\* Lines typed stay typed, and losses lost.
LEMMA Grows ==
    ASSUME LineTypes, LineNext
    PROVE  /\ Len(typed) \in Nat /\ Len(typed') \in Nat /\ Len(typed) <= Len(typed')
           /\ \A i \in 1 .. Len(typed) : typed'[i] = typed[i]
           /\ losses \subseteq losses'
           /\ ToSet(commands) \subseteq ToSet(commands')
           /\ resumed' = resumed
           /\ Refused => Refused'
<1>0. ToSet(commands) \subseteq ToSet(commands')
  <2>1. commands' = commands \/ commands' = Append(commands, Head(queue))
        BY DEF LineNext, MainStep, WorkerStep, ReaderStep, Type, ReadLine, PutLine, ReaderStops,
               Publish, Begin, Rest, WorkerRaises, Tell, WorkerDone, Check, NoCommand, Drop, Apply,
               Close, Clarify, LeavePrompt, EndAtPrompt, StopAtPrompt, ContinueAtPrompt, input,
               session
  <2>2. commands \in Seq(1 .. Len(typed))
        BY DEF LineTypes
  <2>3. \A x : ToSet(commands) \subseteq ToSet(Append(commands, x))
        BY <2>2, Prefixed
  <2> QED
      BY <2>1, <2>3
<1>1. losses \subseteq losses' /\ resumed' = resumed
      BY DEF LineNext, MainStep, WorkerStep, ReaderStep, Type, ReadLine, PutLine, ReaderStops,
             Publish, Begin, Rest, WorkerRaises, Tell, WorkerDone, Check, NoCommand, Drop, Apply,
             Close, Clarify,
             LeavePrompt, EndAtPrompt, StopAtPrompt, ContinueAtPrompt, TakeAnswer, Loses, input,
             session
<1>2. Len(typed) \in Nat /\ typed \in Seq([cmd : Line, awaited : BOOLEAN])
      BY DEF LineTypes
<1>3. typed' = typed \/ \E e : typed' = Append(typed, e)
      BY DEF LineNext, MainStep, WorkerStep, ReaderStep, Type, ReadLine, PutLine, ReaderStops,
             Publish, Begin, Rest, WorkerRaises, Tell, WorkerDone, Check, NoCommand, Drop, Apply,
             Close, Clarify,
             LeavePrompt, EndAtPrompt, StopAtPrompt, ContinueAtPrompt, TakeAnswer, Loses, input,
             session
<1>4. /\ Len(typed') \in Nat /\ Len(typed) <= Len(typed')
      /\ \A i \in 1 .. Len(typed) : typed'[i] = typed[i]
      BY <1>2, <1>3
<1> QED
    BY <1>0, <1>1, <1>2, <1>4 DEF Refused

\* A loss stays accounted for.
LEMMA OldAccounted ==
    ASSUME LineTypes, LineNext, Moves, NEW f \in losses, Accounted(f)
    PROVE  Accounted(f)'
<1>1. /\ f.line \in 1 .. Len(typed) /\ f.line \notin Way
      BY DEF Accounted
<1>2. f.line \notin Way' /\ f.line \in 1 .. Len(typed')
  <2>1. f.line # Len(typed) + 1 /\ f.line \in 1 .. Len(typed')
        BY <1>1, Grows
  <2> QED
      BY <1>1, <2>1 DEF Moves
<1>3. f.line \in ToSet(commands') => f.what = "refused"
      BY <1>1 DEF Moves, Accounted
<1>4. f.what = "dropped" => resumed' \/ f.loop > 1 \/ ~typed'[f.line].awaited
      BY <1>1, Grows DEF Accounted
<1>5. f \in [line : 1 .. Len(typed'), what : {"dropped", "refused", "swallowed", "left"},
             worker : WorkerState, loop : 1 .. MaxLoops]
      BY <1>2 DEF Accounted
<1>6. /\ f.what \in {"swallowed", "left"} =>
            f.worker \notin {"creating", "ready", "running"} \/ Refused'
      BY Grows DEF Accounted
<1>7. f.what = "refused" =>
        /\ f.worker # "creating"
        /\ f.worker = "running" => \E c \in ToSet(commands') : c < f.line
      BY Grows DEF Accounted
<1> QED
    BY <1>2, <1>3, <1>4, <1>5, <1>6, <1>7 DEF Accounted

\* A line taken off the queue is nowhere on the way then, and was no command.
LEMMA HeadLeaves ==
    ASSUME LineTypes, InOrder, queue # <<>>, queue' = Tail(queue), UNCHANGED <<stdin, reader>>
    PROVE  /\ Head(queue) \in 1 .. Len(typed) /\ Head(queue) \notin Way'
           /\ Head(queue) \notin ToSet(commands)
<1> DEFINE n == Len(typed)
           h == Head(queue)
<1>1. n \in Nat /\ queue \in Seq(1 .. n) /\ Increasing(queue)
      BY LinesTyped DEF LineTypes, InOrder
<1>2. /\ ToSet(queue) \in SUBSET (1 .. n) /\ ToSet(commands) \in SUBSET (1 .. n)
      BY LinesTyped
<1>3. Held' = Held
      BY DEF Held
<1> HIDE DEF n
<1>4. /\ h \in 1 .. n /\ h \in ToSet(queue) /\ Below({h}, ToSet(queue')) /\ {h} \in SUBSET (1 .. n)
      BY <1>1, Taken
<1>5. /\ ToSet(queue) \intersect ToSet(stdin) = {} /\ ToSet(queue) \intersect Held = {}
      /\ ToSet(commands) \intersect ToSet(queue) = {}
      BY <1>1, <1>2, Apart DEF InOrder
<1>6. {h} \intersect ToSet(queue') = {}
      BY <1>1, <1>4, Apart
<1> QED
    BY <1>3, <1>4, <1>5, <1>6 DEF Way, n

\* A line the reader had is nowhere on the way when it is swallowed, and was no command.
LEMMA HeldLeaves ==
    ASSUME LineTypes, InOrder, reader.state = "holds", Held' = {}, UNCHANGED <<stdin, queue>>
    PROVE  /\ reader.line \in 1 .. Len(typed) /\ reader.line \notin Way'
           /\ reader.line \notin ToSet(commands)
<1> DEFINE n == Len(typed)
<1>1. /\ n \in Nat /\ ToSet(queue) \in SUBSET (1 .. n) /\ ToSet(commands) \in SUBSET (1 .. n)
      /\ Held \in SUBSET (1 .. n) /\ Held = {reader.line}
      BY LinesTyped DEF Held
<1> HIDE DEF n
<1>2. /\ Held \intersect ToSet(stdin) = {} /\ ToSet(queue) \intersect Held = {}
      /\ ToSet(commands) \intersect Held = {}
      BY <1>1, Apart DEF InOrder
<1> QED
    BY <1>1, <1>2 DEF Way, n

\* A line left in the queue is nowhere on the way then, and was no command.
LEMMA QueueLeaves ==
    ASSUME LineTypes, InOrder, Held' = {}, queue' = <<>>, stdin' = stdin, NEW i \in ToSet(queue)
    PROVE  i \in 1 .. Len(typed) /\ i \notin Way' /\ i \notin ToSet(commands)
<1> DEFINE n == Len(typed)
<1>1. /\ n \in Nat /\ ToSet(queue) \in SUBSET (1 .. n) /\ ToSet(commands) \in SUBSET (1 .. n)
      /\ ToSet(queue') = {}
      BY LinesTyped, NoneBelow
<1> HIDE DEF n
<1>2. /\ ToSet(queue) \intersect ToSet(stdin) = {} /\ ToSet(commands) \intersect ToSet(queue) = {}
      BY <1>1, Apart DEF InOrder
<1> QED
    BY <1>1, <1>2 DEF Way, n

\* Where lines are lost.
LEMMA LossSources ==
    ASSUME LineNext
    PROVE  \/ losses' = losses
           \/ PutLine /\ losses' = losses \union {Loss(reader.line, "swallowed")}
           \/ Drop /\ losses' = losses \union {Loss(Head(queue), "dropped")}
           \/ Apply /\ losses' = losses \union {Loss(Head(queue), "refused")}
           \/ Close /\ losses' = losses \union {Loss(i, "left") : i \in ToSet(queue)}
<1>1. PutLine \/ Drop \/ Apply \/ Close \/ losses' = losses
      BY DEF LineNext, MainStep, WorkerStep, ReaderStep, Type, ReadLine, ReaderStops,
             Publish, Begin, Rest, WorkerRaises, Tell, WorkerDone, Check, NoCommand, Clarify,
             LeavePrompt, EndAtPrompt, StopAtPrompt, ContinueAtPrompt, TakeAnswer, input, session
<1>2. PutLine => losses' = losses \/ losses' = losses \union {Loss(reader.line, "swallowed")}
      BY DEF PutLine, Loses
<1>3. Drop => losses' = losses \union {Loss(Head(queue), "dropped")}
      BY DEF Drop, Loses
<1>4. Apply => losses' = losses \/ losses' = losses \union {Loss(Head(queue), "refused")}
      BY DEF Apply, Loses
<1>5. Close => losses' = losses \union {Loss(i, "left") : i \in ToSet(queue)}
      BY DEF Close
<1> QED
    BY <1>1, <1>2, <1>3, <1>4, <1>5, Zenon

\* A loss that just happened is accounted for: a command is dropped without a handle, swallowed or
\* left behind after the worker or a refusal, refused by a run that has left RUNNING.
LEMMA NewAccounted ==
    ASSUME LineTypes, Session, LineNext, NEW f \in losses', f \notin losses
    PROVE  Accounted(f)'
<1> DEFINE What == {"dropped", "refused", "swallowed", "left"}
           Worker == WorkerState
<1>1. PICK i, what : f = Loss(i, what)
      BY LossSources
<1>2. f = [line |-> i, what |-> what, worker |-> worker, loop |-> loop]
      BY <1>1 DEF Loss
<1>3. f.line = i /\ f.what = what /\ f.worker = worker /\ f.loop = loop
      BY <1>2
<1>4. worker \in Worker /\ loop \in 1 .. MaxLoops
      BY DEF LineTypes
<1>5. InOrder
      BY DEF Session
<1>6. SUFFICES /\ i \in 1 .. Len(typed) /\ typed' = typed /\ what \in What /\ i \notin Way'
               /\ i \in ToSet(commands') => what = "refused"
               /\ what = "dropped" => resumed \/ loop > 1 \/ ~typed[i].awaited
               /\ what \in {"swallowed", "left"} =>
                     worker \notin {"creating", "ready", "running"} \/ Refused
               /\ what = "refused" =>
                     /\ worker # "creating"
                     /\ worker = "running" => \E c \in ToSet(commands') : c < i
  <2>1. f \in [line : 1 .. Len(typed'), what : What, worker : Worker, loop : 1 .. MaxLoops]
        BY <1>2, <1>4, <1>6
  <2> QED
      BY <1>3, <1>6, <2>1, Grows DEF Accounted
<1>7. CASE losses' = losses
      BY <1>7
<1>8. CASE PutLine
  <2>1. /\ stopping /\ i = reader.line /\ what = "swallowed" /\ reader.state = "holds"
        /\ UNCHANGED <<typed, stdin, queue, commands>> /\ Held' = {}
        BY <1>3, <1>8 DEF PutLine, Loses, Loss, Held, session
  <2>2. worker = "over" \/ Refused
        BY <2>1 DEF Session, StoppedLate
  <2> QED
      BY <1>5, <2>1, <2>2, HeldLeaves
<1>9. CASE Drop
  <2>1. /\ i = Head(queue) /\ what = "dropped" /\ ~handle /\ queue # <<>> /\ queue' = Tail(queue)
        /\ UNCHANGED <<typed, stdin, reader, commands>>
        BY <1>3, <1>9 DEF Drop, Loses, Loss
  <2>2. i \in 1 .. Len(typed) /\ i \notin Way' /\ i \notin ToSet(commands)
        BY <1>5, <2>1, HeadLeaves
  <2>3. resumed \/ loop > 1 \/ ~typed[i].awaited
    <3>1. resumed \/ loop > 1 \/ loop = 1
          BY <1>4, LoopsAssumption
    <3>2. i \in DOMAIN typed
          BY <2>2 DEF LineTypes
    <3> QED
        BY <2>1, <3>1, <3>2 DEF Session, HandleKnown, Started
  <2> QED
      BY <2>1, <2>2, <2>3
<1>10. CASE Apply
  <2>1. /\ i = Head(queue) /\ what = "refused" /\ handle /\ queue # <<>> /\ queue' = Tail(queue)
        /\ UNCHANGED <<typed, stdin, reader>>
        BY <1>3, <1>10 DEF Apply, Loses, Loss
  <2>2. i \in 1 .. Len(typed) /\ i \notin Way'
        BY <1>5, <2>1, HeadLeaves
  <2>3. worker # "creating"
        BY <2>1 DEF Session, HandleKnown
  <2>4. ASSUME worker = "running" PROVE \E c \in ToSet(commands') : c < i
    <3>1. ~CanTransition(run, Target(typed[i].cmd))
      <4>1. Loss(i, "refused") \notin losses /\ Loss(i, "refused") \in losses'
            BY <1>1, <2>1
      <4> QED
          BY <1>10, <2>1, <4>1 DEF Apply
    <3>2. \A cmd : CanTransition("RUNNING", Target(cmd))
          BY DEF Target, CanTransition
    <3>3. commands # <<>>
          BY <2>4, <3>1, <3>2 DEF Session, Begun
    <3>4. PICK c : c \in ToSet(commands)
      <4>1. commands \in Seq(1 .. Len(typed))
            BY DEF LineTypes
      <4> QED
          BY <1>5, <3>3, <4>1, LinesTyped, Taken DEF InOrder
    <3>5. i \in ToSet(queue)
      <4>1. queue \in Seq(1 .. Len(typed))
            BY DEF LineTypes
      <4> QED
          BY <1>5, <2>1, <4>1, LinesTyped, Taken DEF InOrder
    <3>6. c < i
          BY <1>5, <3>4, <3>5 DEF InOrder, Below
    <3> QED
        BY <3>4, <3>6, Grows
  <2> QED
      BY <2>1, <2>2, <2>3, <2>4
<1>11. CASE Close
  <2>1. /\ i \in ToSet(queue) /\ what = "left" /\ queue' = <<>> /\ Held' = {}
        /\ main = "close" /\ UNCHANGED <<typed, stdin, commands>>
        BY <1>3, <1>11 DEF Close, Loss, Held
  <2>2. worker = "over"
        BY <2>1 DEF Session, StoppedLate
  <2>3. i \in 1 .. Len(typed) /\ i \notin Way' /\ i \notin ToSet(commands)
        BY <1>5, <2>1, QueueLeaves
  <2> HIDE DEF Close
  <2> QED
      BY <2>1, <2>2, <2>3
<1> QED
    BY <1>7, <1>8, <1>9, <1>10, <1>11
    DEF LineNext, MainStep, WorkerStep, ReaderStep, Type, ReadLine, ReaderStops,
        Publish, Begin, Rest, WorkerRaises, Tell, WorkerDone, Check, NoCommand, Clarify,
        LeavePrompt, EndAtPrompt, StopAtPrompt, ContinueAtPrompt, TakeAnswer, input, session

\* Every loss is accounted for.
LEMMA LossesStep ==
    ASSUME LineTypes, Session, LineNext
    PROVE  LossesAccounted'
<1>1. Moves
      BY StepMoves DEF Session
<1>2. ASSUME NEW f \in losses' PROVE Accounted(f)'
  <2>1. CASE f \in losses
        BY <1>1, <2>1, OldAccounted DEF Session, LossesAccounted
  <2> QED
      BY <1>2, <2>1, NewAccounted
<1> QED
    BY <1>2 DEF LossesAccounted
----
\* The handle, and the end of the input.

\* The handle is there once the loop of start() has a run to command.
LEMMA HandleStep ==
    ASSUME LineTypes, HandleKnown, LineNext
    PROVE  HandleKnown'
<1>0. /\ resumed' = resumed /\ loop \in 1 .. MaxLoops /\ MaxLoops \in Nat
      /\ typed \in Seq([cmd : Line, awaited : BOOLEAN])
      BY Grows, LoopsAssumption DEF LineTypes
<1>1. CASE \E cmd \in Line : Type(cmd)
  <2>1. PICK cmd \in Line :
            typed' = Append(typed, [cmd |-> cmd, awaited |-> worker \in {"ready", "running"} /\ Started])
        BY <1>1 DEF Type
  <2>2. UNCHANGED <<worker, loop, handle>>
        BY <1>1 DEF Type, session
  <2>3. ASSUME Started, ~handle, NEW i \in DOMAIN typed' PROVE ~typed'[i].awaited
    <3>1. worker \notin {"ready", "running"} /\ \A k \in DOMAIN typed : ~typed[k].awaited
          BY <2>3 DEF HandleKnown
    <3>2. typed' = Append(typed, [cmd |-> cmd, awaited |-> FALSE])
          BY <2>1, <3>1, Zenon
    <3>3. DOMAIN typed = 1 .. Len(typed) /\ Len(typed) \in Nat
          BY <1>0
    <3>4. CASE i \in DOMAIN typed
          BY <1>0, <3>1, <3>2, <3>3, <3>4
    <3>5. CASE i = Len(typed) + 1
          BY <1>0, <3>2, <3>3, <3>5
    <3> QED
        BY <1>0, <2>3, <3>2, <3>3, <3>4, <3>5
  <2> QED
      BY <1>0, <2>2, <2>3 DEF HandleKnown, Started
<1>2. CASE Publish
  <2>1. worker' \in {"ready", "running"} /\ UNCHANGED <<loop, typed>> /\ handle' = Started
        BY <1>2 DEF Publish, input
  <2>2. Started' => handle'
        BY <1>0, <2>1, Zenon DEF Started
  <2> QED
      BY <2>1, <2>2 DEF HandleKnown
<1>3. CASE Begin \/ WorkerRaises
  <2>1. /\ UNCHANGED <<loop, typed, handle>> /\ worker' # "creating"
        /\ worker \in {"ready", "running"} \/ worker' \notin {"ready", "running"}
        BY <1>3 DEF Begin, WorkerRaises, input
  <2> QED
      BY <1>0, <2>1 DEF HandleKnown, Started
<1>4. CASE Rest \/ Tell \/ WorkerDone
      BY <1>0, <1>4 DEF Rest, Tell, WorkerDone, input, HandleKnown, Started
<1>5. CASE ContinueAtPrompt
  <2>1. CASE UNCHANGED <<loop, worker, handle>>
        BY <1>0, <1>5, <2>1 DEF ContinueAtPrompt, HandleKnown, Started
  <2>2. CASE loop' = loop + 1 /\ handle' = FALSE /\ worker' = "creating"
        BY <1>0, <2>2 DEF HandleKnown, Started
  <2> QED
      BY <1>5, <2>1, <2>2 DEF ContinueAtPrompt
<1>6. CASE UNCHANGED <<typed, loop, worker, handle>>
      BY <1>0, <1>6 DEF HandleKnown, Started
<1> QED
    BY <1>1, <1>2, <1>3, <1>4, <1>5, <1>6
    DEF LineNext, MainStep, WorkerStep, ReaderStep, ReadLine, PutLine, ReaderStops,
        Check, NoCommand, Drop, Apply, Close, Clarify, LeavePrompt, EndAtPrompt, StopAtPrompt,
        TakeAnswer, input, session

\* Until it comes to rest the run is where the worker has put it, but for a command.
LEMMA BegunStep ==
    ASSUME LineTypes, HandleKnown, Begun, StoppedLate, LineNext
    PROVE  Begun'
<1>0. resumed' = resumed /\ loop \in 1 .. MaxLoops /\ MaxLoops \in Nat
      BY Grows, LoopsAssumption DEF LineTypes
<1>1. CASE Publish
      BY <1>0, <1>1 DEF Publish, input, Begun, Started
<1>2. CASE Begin \/ Rest \/ WorkerRaises \/ Tell \/ WorkerDone
      BY <1>2 DEF Begin, Rest, WorkerRaises, Tell, WorkerDone, Begun
<1>3. CASE Apply
  <2>1. worker # "creating" /\ worker' = worker
        BY <1>3 DEF Apply, HandleKnown
  <2>2. commands' # <<>>
    <3>1. commands' = Append(commands, Head(queue)) /\ commands \in Seq(1 .. Len(typed))
          BY <1>3 DEF Apply, LineTypes
    <3> QED
        BY <3>1
  <2> QED
      BY <2>1, <2>2 DEF Begun
<1>4. CASE Clarify \/ LeavePrompt \/ EndAtPrompt \/ StopAtPrompt
  <2>1. worker' = "over"
        BY <1>4 DEF Clarify, LeavePrompt, EndAtPrompt, StopAtPrompt, StoppedLate
  <2> QED
      BY <2>1 DEF Begun
<1>5. CASE ContinueAtPrompt
  <2>1. CASE loop' = loop + 1 /\ run' = "RUNNING" /\ worker' = "creating"
        BY <1>0, <2>1 DEF Begun, Started
  <2>2. CASE UNCHANGED worker
        BY <1>5, <2>2 DEF ContinueAtPrompt, StoppedLate, Begun
  <2> QED
      BY <1>5, <2>1, <2>2 DEF ContinueAtPrompt
<1>6. CASE UNCHANGED <<loop, worker, run, commands>>
      BY <1>0, <1>6 DEF Begun, Started
<1> QED
    BY <1>1, <1>2, <1>3, <1>4, <1>5, <1>6
    DEF LineNext, MainStep, WorkerStep, ReaderStep, Type, ReadLine, PutLine, ReaderStops,
        Check, NoCommand, Drop, Close, input, session

\* A refusal ends the main thread.
LEMMA RefusedStep ==
    ASSUME LineTypes, StoppedLate, LineNext
    PROVE  Refused' => main' = "raised"
<1>1. CASE Refused
  <2>1. main = "raised"
        BY <1>1 DEF StoppedLate
  <2>2. ~MainStep
        BY <2>1 DEF MainStep, Check, NoCommand, Drop, Apply, Close, Clarify, LeavePrompt,
                    EndAtPrompt,
                    StopAtPrompt, ContinueAtPrompt
  <2> QED
      BY <2>1, <2>2 DEF LineNext, WorkerStep, ReaderStep, Type, ReadLine, PutLine, ReaderStops,
                        Publish, Begin, Rest, WorkerRaises, Tell, WorkerDone, input, session
<1>2. CASE ~Refused /\ ~Apply
  <2>1. \A f \in losses' : f \in losses \/ f.what # "refused"
        BY <1>2, LossSources DEF Loss
  <2> QED
      BY <1>2, <2>1 DEF Refused
<1>3. CASE ~Refused /\ Apply
  <2>1. losses' = losses \/ main' = "raised"
        BY <1>3 DEF Apply
  <2> QED
      BY <1>3, <2>1 DEF Refused
<1> QED
    BY <1>1, <1>2, <1>3

\* The input thread is stopped, and the loop closed, after the worker or a refusal.
LEMMA StoppedStep ==
    ASSUME LineTypes, StoppedLate, LineNext
    PROVE  StoppedLate'
<1>1. stopping' => worker' = "over" \/ Refused'
  <2>1. CASE Check
    <3>1. stopping' = (worker = "over") /\ worker' = worker
          BY <2>1 DEF Check
    <3> QED
        BY <3>1, Zenon
  <2>2. CASE Apply
    <3>1. stopping' => losses' = losses \union {Loss(Head(queue), "refused")}
          BY <2>2, Zenon DEF Apply, Loses
    <3>2. Loss(Head(queue), "refused").what = "refused"
          BY DEF Loss
    <3> QED
        BY <3>1, <3>2 DEF Refused
  <2>3. CASE ~Check /\ ~Apply
    <3>1. stopping' => stopping
          BY <2>3 DEF LineNext, MainStep, WorkerStep, ReaderStep, Type, ReadLine, PutLine, ReaderStops,
                      Publish, Begin, Rest, WorkerRaises, Tell, WorkerDone, NoCommand, Drop,
                      Close, Clarify,
                      LeavePrompt, EndAtPrompt, StopAtPrompt, ContinueAtPrompt, TakeAnswer, input,
                      session
    <3>2. stopping' /\ worker = "over" => worker' = "over"
          BY <2>3 DEF LineNext, MainStep, WorkerStep, ReaderStep, Type, ReadLine, PutLine, ReaderStops,
                      Publish, Begin, Rest, WorkerRaises, Tell, WorkerDone, NoCommand, Drop,
                      Close, Clarify,
                      LeavePrompt, EndAtPrompt, StopAtPrompt, ContinueAtPrompt, TakeAnswer, input,
                      session, StoppedLate
    <3> QED
        BY <3>1, <3>2, Grows DEF StoppedLate
  <2> QED
      BY <2>1, <2>2, <2>3
<1>2. main' \in {"close", "prompt"} => worker' = "over"
      BY DEF LineNext, MainStep, WorkerStep, ReaderStep, Type, ReadLine, PutLine, ReaderStops,
             Publish, Begin, Rest, WorkerRaises, Tell, WorkerDone, Check, NoCommand, Drop, Apply,
             Close, Clarify,
             LeavePrompt, EndAtPrompt, StopAtPrompt, ContinueAtPrompt, TakeAnswer, input, session,
             StoppedLate
<1> QED
    BY <1>1, <1>2, RefusedStep DEF StoppedLate
----
\* The types and the invariant, and what follows from them.

LEMMA SessionStep == LineTypes /\ Session /\ [LineNext]_lineVars => (LineTypes /\ Session)'
<1> SUFFICES ASSUME LineTypes, Session, [LineNext]_lineVars PROVE (LineTypes /\ Session)'
    OBVIOUS
<1>1. CASE LineNext
  <2>1. LineTypes'
        BY <1>1, InputTypes, WorkerTypes, MainTypes DEF LineNext, Session
  <2>2. InOrder'
        BY <1>1, StepMoves DEF Session, Moves
  <2> QED
      BY <1>1, <2>1, <2>2, LossesStep, HandleStep, BegunStep, StoppedStep DEF Session
<1>2. CASE UNCHANGED lineVars
      BY <1>2 DEF lineVars, LineTypes, Session, InOrder, LossesAccounted, Accounted, Way, Held,
                  HandleKnown, Begun, StoppedLate, Refused, Started
<1> QED
    BY <1>1, <1>2

\* The bookkeeping of a session is consistent at every step: lines in order on their way, each loss
\* with its reason, the handle and the input thread as far as the worker is (_interactive_run_loop).
THEOREM SessionInvariance == LineSpec => [](LineTypes /\ Session)
<1> QED
    BY InitSession, SessionStep, PTL DEF LineSpec

LEMMA SessionHasTypes == LineTypes /\ Session => LineTypeOK
<1> SUFFICES ASSUME LineTypes, Session PROVE LineTypeOK
    OBVIOUS
<1>1. DOMAIN typed = 1 .. Len(typed)
      BY DEF LineTypes
<1>2. ToSet(stdin) \union ToSet(queue) \union ToSet(commands) \subseteq DOMAIN typed
      BY <1>1, LinesTyped
<1>3. losses \subseteq [line : DOMAIN typed, what : {"dropped", "refused", "swallowed", "left"},
                   worker : WorkerState, loop : 1 .. MaxLoops]
      BY <1>1 DEF Session, LossesAccounted, Accounted
<1>4. reader.state \in {"polling", "holds", "off"}
      BY DEF LineTypes
<1> QED
    BY <1>2, <1>3, <1>4 DEF LineTypes, LineTypeOK

\* The parts of a session have their types.
THEOREM SessionTypes == LineSpec => []LineTypeOK
<1> QED
    BY SessionHasTypes, SessionInvariance, PTL

\* Commands reach the run in the order typed and at most once, and a line is forgotten or refused
\* only where CommandsHeard says, however the three threads interleave.
THEOREM HearsCommands == LineSpec => []CommandsHeard
<1>1. LineTypes /\ Session => CommandsHeard
  <2> SUFFICES ASSUME LineTypes, Session PROVE CommandsHeard
      OBVIOUS
  <2>1. \A i, j \in DOMAIN commands : i < j => commands[i] < commands[j]
        BY DEF Session, InOrder, Increasing
  <2>2. ASSUME NEW f \in losses
        PROVE  /\ f.what = "dropped" => resumed \/ f.loop > 1 \/ ~typed[f.line].awaited
               /\ f.what \in {"swallowed", "left"} =>
                     f.worker \notin {"creating", "ready", "running"} \/ Refused
               /\ f.what = "refused" =>
                     /\ f.worker # "creating"
                     /\ f.worker = "running" => \E c \in ToSet(commands) : c < f.line
               /\ f.line \in ToSet(commands) => f.what = "refused"
        BY <2>2 DEF Session, LossesAccounted, Accounted, StoppedLate, Refused
  <2> QED
      BY <2>1, <2>2 DEF CommandsHeard
<1> QED
    BY <1>1, SessionInvariance, PTL
----
(* Stores, for any threads and scripts: the inductive invariant relates what a thread has left  *)
(* to do to who holds which lock, and the row being written to the end of the recorder's log.   *)

EventCall(call) == Writes(call, "trace_events")
AllCalls == (UNION {CallsOf(script) : script \in Script}) \union {RunFailed}

\* A call on a connection, which writes one row or none.
IsCall(call) == call.conn \in Connection /\ \A r \in call.writes : call.writes = {r}

\* One row makes one element of a sequence.
LEMMA OneRow ==
    ASSUME NEW r
    PROVE  SetToSeq({r}) = <<r>>
<1> DEFINE Is(f) == f \in [1 .. 1 -> {r}] /\ IsInjective(f)
           g == [i \in 1 .. 1 |-> r]
           h == CHOOSE f : Is(f)
<1>1. Cardinality({r}) = 1
      BY FS_Singleton
<1>2. Is(g)
      BY DEF IsInjective
<1>3. Is(h)
  <2> HIDE DEF Is, g
  <2> QED
      BY <1>2
<1>4. h = <<r>>
  <2> HIDE DEF h
  <2> QED
      BY <1>3
<1>5. SetToSeq({r}) = CHOOSE f \in [1 .. 1 -> {r}] : IsInjective(f)
      BY <1>1 DEF SetToSeq
<1> QED
    BY <1>4, <1>5

\* The calls of a script, and the last one of a run that fails.
LEMMA CallsAre ==
    /\ \A call \in AllCalls : IsCall(call)
    /\ RunFailed \in AllCalls /\ ~EventCall(RunFailed)
<1>1. IsCall(RunFailed) /\ ~EventCall(RunFailed)
      BY DEF RunFailed, IsCall, EventCall, Writes, Row, Connection
<1>2. \A script \in Script : \A call \in CallsOf(script) : IsCall(call)
      BY ScriptAssumption DEF IsCall
<1> QED
    BY <1>1, <1>2 DEF AllCalls

----
(* The invariant *)

StoreTypes ==
    /\ todo \in [Thread -> Seq(AllCalls)]
    /\ at \in [Thread -> {"call", "record", "locked", "inserted"}]
    /\ held \in [Connection -> Thread \union {NoOne}]
    /\ recording \in Thread \union {NoOne}
    /\ owner \in Connection \union {NoOne}
    /\ txn \in [Connection -> {"none", "begun", "reading", "writing"}]
    /\ events \in Seq(ToSet(events)) /\ rows \in Seq(ToSet(rows))
    /\ snapshot \in [Connection -> 0 .. Len(rows)]
    /\ ignored \in BOOLEAN

\* Who has a lock is within the call it is for.
Locks ==
    /\ \A t \in Thread : at[t] # "call" => todo[t] # <<>>
    /\ \A t \in Thread : \A c \in Connection :
           held[c] = t <=> at[t] \in {"locked", "inserted"} /\ Call(t).conn = c
    /\ \A t \in Thread : recording = t <=> at[t] # "call" /\ EventCall(Call(t))
    /\ \A t \in Thread : at[t] = "record" => EventCall(Call(t))
    /\ \A t \in Thread : at[t] = "inserted" => owner = Call(t).conn /\ IsWrite(Call(t))

\* A thread still has to record an event.
ToRecord(t, i) == i \in DOMAIN todo[t] /\ EventCall(todo[t][i]) /\ ~(recording = t /\ i = 1)

\* No event is recorded twice.
Unique ==
    /\ \A t, u \in Thread : \A i \in DOMAIN todo[t], j \in DOMAIN todo[u] :
           EventCall(todo[t][i]) /\ todo[t][i].writes = todo[u][j].writes => t = u /\ i = j
    /\ \A t \in Thread : \A i \in DOMAIN todo[t] :
           ToRecord(t, i) => todo[t][i].writes \intersect (ToSet(events) \union ToSet(rows) \union lost) = {}
    /\ \A t \in Thread : \A i \in DOMAIN todo[t] :
           Writes(todo[t][i], "memory_chunks") => \E j \in DOMAIN todo[t] : i < j /\ EventCall(todo[t][j])

\* The event being recorded is the last of the log, and nowhere else yet.
LastRecorded ==
    recording # NoOne =>
        /\ Len(events) > 0 /\ Call(recording).writes = {events[Len(events)]}
        /\ events[Len(events)] \notin ToSet(rows) \union lost
        /\ \A k \in 1 .. Len(events) - 1 : events[k] # events[Len(events)]

\* TraceKept, part by part.
InLog == \A i \in StoredEvents : \E k \in DOMAIN events : events[k] = rows[i]
LogOrder == \A i, j \in StoredEvents : \A k, l \in DOMAIN events :
                events[k] = rows[i] /\ events[l] = rows[j] /\ i < j => k < l
Complete == ToSet(events) \subseteq ToSet(rows) \union lost \union BeingRecorded
Clean == ~ignored =>
             /\ lost = {}
             /\ owner # NoOne => \E t \in Thread : at[t] = "inserted" /\ Call(t).conn = owner
             /\ \A c \in Connection : txn[c] = "none" \/ c = owner

Tracing == StoreTypes /\ Locks /\ Unique /\ LastRecorded /\ InLog /\ LogOrder /\ Complete /\ Clean

----
(* Sequences of rows, and what is left to do *)

\* What is left to do after a call: nothing, the failure of the run, or the calls from some later on.
Later(rest, calls) ==
    \/ rest \in {<<>>, <<RunFailed>>}
    \/ \E d \in 1 .. Len(calls) : /\ Len(rest) = Len(calls) - d
                                  /\ \A i \in 1 .. Len(rest) : rest[i] = calls[i + d]

\* A row at the end of a sequence of rows.
Lengthened(longer, s, r) ==
    /\ longer \in Seq(ToSet(longer)) /\ Len(longer) = Len(s) + 1 /\ longer[Len(s) + 1] = r
    /\ \A i \in 1 .. Len(s) : longer[i] = s[i]
    /\ ToSet(longer) = ToSet(s) \union {r}

LEMMA OneMore ==
    ASSUME NEW s, s \in Seq(ToSet(s)), NEW r
    PROVE  Lengthened(s \o SetToSeq({r}), s, r)
<1> DEFINE S == ToSet(s) \union {r}
           t == s \o <<r>>
<1>1. ToSet(s) \subseteq S /\ r \in S
      OBVIOUS
<1>2. DOMAIN s = 1 .. Len(s) /\ Len(s) \in Nat /\ ToSet(s) = {s[i] : i \in 1 .. Len(s)}
      BY DEF ToSet
<1>3. s \in Seq(S)
  <2>1. \A i \in 1 .. Len(s) : s[i] \in S
        BY <1>2
  <2> HIDE DEF S
  <2> QED
      BY <1>2, <2>1
<1> HIDE DEF S
<1>4. t \in Seq(S) /\ Len(t) = Len(s) + 1 /\ t[Len(s) + 1] = r /\ \A i \in 1 .. Len(s) : t[i] = s[i]
      BY <1>1, <1>3
<1> HIDE DEF t
<1>5. DOMAIN t = 1 .. Len(s) + 1 /\ ToSet(t) = {t[i] : i \in 1 .. Len(s) + 1}
      BY <1>4 DEF ToSet
<1>6. ToSet(t) = {s[i] : i \in 1 .. Len(s)} \union {r}
      BY <1>2, <1>4, <1>5
<1>7. ToSet(t) = S
      BY <1>2, <1>6 DEF S
<1>8. s \o SetToSeq({r}) = t
      BY OneRow DEF t
<1> QED
    BY <1>4, <1>7, <1>8 DEF Lengthened, S

\* The call a thread is at is the first of those it has left.
LEMMA CallIs ==
    ASSUME StoreTypes, NEW t \in Thread, todo[t] # <<>>
    PROVE  /\ Call(t) = todo[t][1] /\ 1 \in DOMAIN todo[t] /\ Call(t) \in AllCalls /\ IsCall(Call(t))
           /\ todo[t] \in Seq(AllCalls) /\ DOMAIN todo[t] = 1 .. Len(todo[t]) /\ Len(todo[t]) \in Nat \ {0}
<1> DEFINE q == todo[t]
<1>1. q \in Seq(AllCalls) /\ q # <<>>
      BY DEF StoreTypes
<1> HIDE DEF q
<1>2. Head(q) = q[1] /\ 1 \in DOMAIN q /\ Head(q) \in AllCalls /\ DOMAIN q = 1 .. Len(q) /\ Len(q) \in Nat \ {0}
      BY <1>1
<1> QED
    BY <1>1, <1>2, CallsAre DEF q, Call

\* One thread at a time is within a call on a connection.
LEMMA OneHolder ==
    ASSUME Locks, StoreTypes, NEW t \in Thread, NEW u \in Thread, at[t] \in {"locked", "inserted"},
           at[u] \in {"locked", "inserted"}, Call(t).conn = Call(u).conn
    PROVE  t = u
<1>1. todo[t] # <<>>
      BY DEF Locks
<1>2. Call(t).conn \in Connection
      BY <1>1, CallIs DEF IsCall
<1> QED
    BY <1>2 DEF Locks

\* What is left after a call is later.
LEMMA TailLater ==
    ASSUME StoreTypes, NEW t \in Thread, todo[t] # <<>>
    PROVE  Tail(todo[t]) \in Seq(AllCalls) /\ Later(Tail(todo[t]), todo[t])
<1> DEFINE q == todo[t]
<1>1. q \in Seq(AllCalls) /\ q # <<>>
      BY DEF StoreTypes
<1> HIDE DEF q
<1>2. /\ Tail(q) \in Seq(AllCalls) /\ Len(Tail(q)) = Len(q) - 1 /\ 1 \in 1 .. Len(q)
      /\ \A i \in 1 .. Len(Tail(q)) : Tail(q)[i] = q[i + 1]
      BY <1>1
<1> QED
    BY <1>2 DEF Later, q

LEMMA SuffixLater ==
    ASSUME NEW q \in Seq(AllCalls), NEW k \in 2 .. Len(q)
    PROVE  SubSeq(q, k, Len(q)) \in Seq(AllCalls) /\ Later(SubSeq(q, k, Len(q)), q)
<1> DEFINE r == SubSeq(q, k, Len(q))
           d == k - 1
           N == Len(q)
<1>1. r \in Seq(AllCalls) /\ Len(r) = N - k + 1 /\ N \in Nat
      OBVIOUS
<1>2. \A i \in 1 .. N - k + 1 : r[i] = q[k + i - 1]
      OBVIOUS
<1> HIDE DEF r, N
<1>3. d \in 1 .. N /\ Len(r) = N - d /\ \A i \in 1 .. Len(r) : r[i] = q[i + d]
  <2>1. \A i \in 1 .. N - k + 1 : k + i - 1 = i + (k - 1)
        BY <1>1
  <2>2. k \in 2 .. N
        BY DEF N
  <2> QED
      BY <1>1, <1>2, <2>1, <2>2
<1> HIDE DEF d
<1>4. Later(r, q)
      BY <1>3 DEF Later, N
<1> QED
    BY <1>1, <1>4 DEF r, N

\* So it is after a write that failed: a failed chunk goes on with the next event.
LEMMA FailureLater ==
    ASSUME StoreTypes, Unique, NEW t \in Thread, todo[t] # <<>>
    PROVE  AfterFailure(t) \in Seq(AllCalls) /\ Later(AfterFailure(t), todo[t])
<1>1. CASE Writes(Call(t), "artifacts")
      BY <1>1, TailLater DEF AfterFailure
<1>2. CASE ~Writes(Call(t), "artifacts") /\ Writes(Call(t), "memory_chunks")
  <2> DEFINE q == todo[t]
             I == {i \in 1 .. Len(q) : Writes(q[i], "trace_events")}
             k == CHOOSE x \in I : \A y \in I : x =< y
  <2>1. q \in Seq(AllCalls) /\ DOMAIN q = 1 .. Len(q) /\ Call(t) = q[1] /\ 1 \in DOMAIN q
        BY CallIs
  <2>2. \E j \in I : 1 < j
        BY <1>2, <2>1 DEF Unique, EventCall
  <2>3. ~Writes(q[1], "trace_events")
    <3>1. \A r \in Call(t).writes : Call(t).writes = {r}
          BY CallIs DEF IsCall
    <3> QED
        BY <1>2, <2>1, <3>1 DEF Writes
  <2>4. I \subseteq Nat /\ I # {}
        BY <2>2
  <2>5. AfterFailure(t) = SubSeq(q, IF I # {} THEN k ELSE 0, Len(q))
        BY <1>2, Zenon DEF AfterFailure, SelectInSeq, Min
  <2> HIDE DEF q
  <2>6. k \in I
    <3> HIDE DEF I
    <3>1. \E x \in I : \A y \in I : x <= y
          BY <2>4, Least
    <3> QED
        BY <3>1
  <2> HIDE DEF k
  <2>7. k \in 2 .. Len(q)
        BY <2>3, <2>6
  <2>8. AfterFailure(t) = SubSeq(q, k, Len(q))
        BY <2>4, <2>5
  <2>9. AfterFailure(t) \in Seq(AllCalls) /\ Later(AfterFailure(t), q)
        BY <2>1, <2>7, <2>8, SuffixLater
  <2> QED
      BY <2>9 DEF q
<1>3. CASE ~Writes(Call(t), "artifacts") /\ ~Writes(Call(t), "memory_chunks")
  <2>1. AfterFailure(t) \in {<<>>, <<RunFailed>>}
        BY <1>3 DEF AfterFailure
  <2>2. RunFailed \in AllCalls
        BY CallsAre
  <2>3. <<RunFailed>> \in Seq(AllCalls) /\ <<>> \in Seq(AllCalls)
    <3> DEFINE f == RunFailed
    <3> HIDE DEF f
    <3>1. <<f>> \in Seq({f})
          OBVIOUS
    <3>2. f \in AllCalls
          BY <2>2 DEF f
    <3> HIDE DEF AllCalls
    <3>3. <<f>> \in Seq(AllCalls)
          BY <3>2
    <3> QED
        BY <3>3 DEF f
  <2> QED
      BY <2>1, <2>3 DEF Later
<1> QED
    BY <1>1, <1>2, <1>3

\* An event that is left was left before, and not the one recorded.
LEMMA EventsLeft ==
    ASSUME StoreTypes, NEW t \in Thread, NEW rest, rest \in Seq(AllCalls), Later(rest, todo[t]),
           NEW i \in DOMAIN rest, EventCall(rest[i])
    PROVE  \E d \in 1 .. Len(todo[t]) :
              /\ i + d \in DOMAIN todo[t] /\ rest[i] = todo[t][i + d] /\ i + d # 1
              /\ Len(rest) = Len(todo[t]) - d /\ \A j \in 1 .. Len(rest) : rest[j] = todo[t][j + d]
<1> DEFINE q == todo[t]
<1>1. q \in Seq(AllCalls) /\ DOMAIN q = 1 .. Len(q) /\ Len(q) \in Nat
      BY DEF StoreTypes
<1>2. DOMAIN rest = 1 .. Len(rest) /\ Len(rest) \in Nat
      OBVIOUS
<1>3. rest # <<>> /\ rest # <<RunFailed>>
  <2>1. rest = <<RunFailed>> => i = 1 /\ rest[1] = RunFailed
        BY <1>2
  <2>2. rest = <<>> => DOMAIN rest = {}
        OBVIOUS
  <2> QED
      BY <2>1, <2>2, CallsAre
<1>4. PICK d \in 1 .. Len(q) : Len(rest) = Len(q) - d /\ \A j \in 1 .. Len(rest) : rest[j] = q[j + d]
      BY <1>3 DEF Later
<1> HIDE DEF q
<1>5. i + d \in 1 .. Len(q) /\ i + d # 1
      BY <1>1, <1>2, <1>4
<1> QED
    BY <1>1, <1>2, <1>4, <1>5 DEF q

----
(* The end of a call: its locks are released, and other calls go on *)

\* A thread leaves its call, with some calls left to do; it wrote nothing but the row of that call.
Leaves(t, rest) ==
    /\ at[t] # "call" /\ Release(t)
    /\ rest \in Seq(AllCalls) /\ Later(rest, todo[t])
    /\ todo' = [todo EXCEPT ![t] = rest]

Wrote(t) ==
    /\ UNCHANGED events
    /\ ToSet(rows') \union lost' \subseteq ToSet(rows) \union lost \union Call(t).writes

LEMMA LeavesIs ==
    ASSUME StoreTypes, Locks, NEW t \in Thread, NEW rest, Leaves(t, rest)
    PROVE  /\ at'[t] = "call" /\ todo'[t] = rest /\ todo[t] # <<>> /\ recording' # t
           /\ held' = [held EXCEPT ![Call(t).conn] = NoOne]
           /\ todo' \in [Thread -> Seq(AllCalls)]
           /\ at' \in [Thread -> {"call", "record", "locked", "inserted"}]
           /\ held' \in [Connection -> Thread \union {NoOne}]
           /\ recording' \in Thread \union {NoOne}
           /\ recording = t => recording' = NoOne
           /\ recording # t => recording' = recording
           /\ \A u \in Thread \ {t} :
                  /\ at'[u] = at[u] /\ todo'[u] = todo[u] /\ Call(u)' = Call(u)
                  /\ recording' = u <=> recording = u
<1>1. /\ at' = [at EXCEPT ![t] = "call"] /\ held' = [held EXCEPT ![Call(t).conn] = NoOne]
      /\ recording' = IF recording = t THEN NoOne ELSE recording
      /\ rest \in Seq(AllCalls) /\ todo' = [todo EXCEPT ![t] = rest]
      BY DEF Leaves, Release
<1>2. todo[t] # <<>>
      BY DEF Leaves, Locks
<1>3. /\ todo \in [Thread -> Seq(AllCalls)] /\ at \in [Thread -> {"call", "record", "locked", "inserted"}]
      /\ held \in [Connection -> Thread \union {NoOne}] /\ recording \in Thread \union {NoOne}
      BY DEF StoreTypes
<1>4. Call(t).conn \in Connection
      BY <1>2, CallIs DEF IsCall
<1>5. /\ todo'[t] = rest /\ todo' \in [Thread -> Seq(AllCalls)]
      /\ \A u \in Thread \ {t} : todo'[u] = todo[u]
  <2> DEFINE S == Seq(AllCalls)
  <2> HIDE DEF S
  <2> QED
      BY <1>1, <1>3 DEF S
<1>6. /\ at'[t] = "call" /\ at' \in [Thread -> {"call", "record", "locked", "inserted"}]
      /\ \A u \in Thread \ {t} : at'[u] = at[u]
      BY <1>1, <1>3
<1>7. held' \in [Connection -> Thread \union {NoOne}]
      BY <1>1, <1>3, <1>4
<1>8. \A u \in Thread \ {t} : Call(u)' = Call(u)
      BY <1>5 DEF Call
<1> QED
    BY <1>1, <1>2, <1>3, <1>5, <1>6, <1>7, <1>8, NoOneAssumption

LEMMA LeavesLocks ==
    ASSUME StoreTypes, Locks, NEW t \in Thread, NEW rest, Leaves(t, rest), at[t] \in {"locked", "inserted"},
           \A u \in Thread \ {t} : at[u] = "inserted" => owner' = owner
    PROVE  Locks'
<1>1. /\ at'[t] = "call" /\ todo'[t] = rest /\ todo[t] # <<>> /\ recording' # t
      /\ held' = [held EXCEPT ![Call(t).conn] = NoOne]
      /\ \A u \in Thread \ {t} : /\ at'[u] = at[u] /\ todo'[u] = todo[u] /\ Call(u)' = Call(u)
                                 /\ recording' = u <=> recording = u
      BY LeavesIs
<1>2. \A u \in Thread : at'[u] # "call" => todo'[u] # <<>>
      BY <1>1 DEF Locks
<1>3. \A u \in Thread : at'[u] = "record" => EventCall(Call(u)')
      BY <1>1 DEF Locks
<1>4. \A u \in Thread : recording' = u <=> at'[u] # "call" /\ EventCall(Call(u)')
      BY <1>1 DEF Locks
<1>5. \A u \in Thread : at'[u] = "inserted" => owner' = Call(u)'.conn /\ IsWrite(Call(u)')
      BY <1>1 DEF Locks
<1>6. ASSUME NEW u \in Thread, NEW c \in Connection
      PROVE  held'[c] = u <=> at'[u] \in {"locked", "inserted"} /\ Call(u)'.conn = c
  <2>1. Call(t).conn \in Connection
        BY <1>1, CallIs DEF IsCall
  <2>2. held[Call(t).conn] = t
        BY <2>1 DEF Locks
  <2>3. held'[c] = IF c = Call(t).conn THEN NoOne ELSE held[c]
        BY <1>1 DEF StoreTypes
  <2>4. held[c] = u <=> at[u] \in {"locked", "inserted"} /\ Call(u).conn = c
        BY DEF Locks
  <2>5. held[c] = t <=> Call(t).conn = c
        BY DEF Locks
  <2>6. CASE u = t
        BY <1>1, <2>3, <2>5, <2>6, NoOneAssumption
  <2>7. CASE u # t
    <3>1. at'[u] = at[u] /\ Call(u)' = Call(u)
          BY <1>1, <2>7
    <3>2. CASE c = Call(t).conn
          BY <2>2, <2>3, <2>4, <2>7, <3>1, <3>2, NoOneAssumption
    <3>3. CASE c # Call(t).conn
          BY <2>3, <2>4, <3>1, <3>3
    <3> QED
        BY <3>2, <3>3
  <2> QED
      BY <2>6, <2>7
<1> QED
    BY <1>2, <1>3, <1>4, <1>5, <1>6 DEF Locks, EventCall, Writes, IsWrite, Call

LEMMA LeavesUnique ==
    ASSUME StoreTypes, Locks, Unique, NEW t \in Thread, NEW rest, Leaves(t, rest), Wrote(t)
    PROVE  Unique'
<1>1. /\ todo'[t] = rest /\ todo[t] # <<>> /\ recording' # t
      /\ \A u \in Thread \ {t} : todo'[u] = todo[u] /\ (recording' = u <=> recording = u)
      BY LeavesIs
<1>2. rest \in Seq(AllCalls) /\ Later(rest, todo[t])
      BY DEF Leaves
<1>3. \A i \in DOMAIN rest : EventCall(rest[i]) =>
          \E d \in 1 .. Len(todo[t]) : i + d \in DOMAIN todo[t] /\ rest[i] = todo[t][i + d] /\ i + d # 1
      BY <1>2, EventsLeft
<1>4. /\ Call(t) = todo[t][1] /\ 1 \in DOMAIN todo[t]
      /\ \A u \in Thread : \A i \in DOMAIN todo[u] : IsCall(todo[u][i])
  <2>1. ASSUME NEW u \in Thread, NEW i \in DOMAIN todo[u] PROVE IsCall(todo[u][i])
    <3> DEFINE q == todo[u]
    <3>1. q \in Seq(AllCalls)
          BY DEF StoreTypes
    <3> HIDE DEF q
    <3>2. \A k \in DOMAIN q : q[k] \in AllCalls
          BY <3>1
    <3> QED
        BY <3>2, CallsAre DEF q
  <2> QED
      BY <1>1, <2>1, CallIs
\* An event that is left was at a place of its own before.
<1>5. ASSUME NEW u \in Thread, NEW i \in DOMAIN todo'[u], EventCall(todo'[u][i])
      PROVE  \E k \in DOMAIN todo[u] : /\ todo'[u][i] = todo[u][k] /\ (u # t => k = i) /\ (u = t => k # 1)
  <2>1. CASE u = t
        BY <1>1, <1>3, <1>5, <2>1
  <2>2. CASE u # t
        BY <1>1, <2>2
  <2> QED
      BY <2>1, <2>2
<1>6. ASSUME NEW u \in Thread, NEW i \in DOMAIN todo'[u], NEW v \in Thread, NEW j \in DOMAIN todo'[v],
             EventCall(todo'[u][i]), todo'[u][i].writes = todo'[v][j].writes
      PROVE  u = v /\ i = j
  <2>1. EventCall(todo'[v][j])
        BY <1>6 DEF EventCall, Writes
  <2>2. PICK k \in DOMAIN todo[u] : todo'[u][i] = todo[u][k] /\ (u # t => k = i)
        BY <1>5, <1>6
  <2>3. PICK l \in DOMAIN todo[v] : todo'[v][j] = todo[v][l] /\ (v # t => l = j)
        BY <1>5, <2>1
  <2>4. u = v /\ k = l
        BY <1>6, <2>2, <2>3 DEF Unique
  <2>5. CASE u # t
        BY <2>2, <2>3, <2>4, <2>5
  <2>6. CASE u = t
    <3>1. rest[i] = todo[t][k] /\ rest[j] = todo[t][k] /\ i \in DOMAIN rest /\ j \in DOMAIN rest
          BY <1>1, <2>2, <2>3, <2>4, <2>6
    <3>2. EventCall(rest[i]) /\ EventCall(rest[j])
          BY <1>1, <1>6, <2>1, <2>4, <2>6
    <3>3. PICK d \in 1 .. Len(todo[t]) :
              i + d \in DOMAIN todo[t] /\ rest[i] = todo[t][i + d] /\ Len(rest) = Len(todo[t]) - d
          BY <1>2, <3>1, <3>2, EventsLeft
    <3>4. PICK e \in 1 .. Len(todo[t]) :
              j + e \in DOMAIN todo[t] /\ rest[j] = todo[t][j + e] /\ Len(rest) = Len(todo[t]) - e
          BY <1>2, <3>1, <3>2, EventsLeft
    <3>5. i + d = j + e
          BY <3>1, <3>2, <3>3, <3>4 DEF Unique
    <3>6. DOMAIN rest = 1 .. Len(rest) /\ Len(rest) \in Nat /\ Len(todo[t]) \in Nat
      <4>1. todo[t] \in Seq(AllCalls)
            BY DEF StoreTypes
      <4> QED
          BY <1>2, <4>1
    <3> QED
        BY <2>4, <3>1, <3>3, <3>4, <3>5, <3>6
  <2> QED
      BY <2>5, <2>6
<1>7. ASSUME NEW u \in Thread, NEW i \in DOMAIN todo'[u], EventCall(todo'[u][i]), ~(recording' = u /\ i = 1)
      PROVE  todo'[u][i].writes \intersect (ToSet(events') \union ToSet(rows') \union lost') = {}
  <2>1. PICK k \in DOMAIN todo[u] : todo'[u][i] = todo[u][k] /\ (u # t => k = i) /\ (u = t => k # 1)
        BY <1>5, <1>7
  <2> DEFINE w == todo[u][k].writes
  <2>2. ToRecord(u, k)
        BY <1>1, <1>7, <2>1 DEF ToRecord
  <2>3. w \intersect (ToSet(events) \union ToSet(rows) \union lost) = {}
        BY <2>2 DEF Unique
  <2>4. w # Call(t).writes
    <3>1. SUFFICES ASSUME todo[u][k].writes = todo[t][1].writes PROVE FALSE
          BY <1>4
    <3>2. EventCall(todo[u][k])
          BY <1>7, <2>1
    <3>3. u = t /\ k = 1
          BY <1>4, <3>1, <3>2 DEF Unique
    <3> QED
        BY <2>1, <3>3
  <2>5. w \intersect Call(t).writes = {}
    <3>1. \A r \in w : w = {r}
          BY <1>4, <2>1 DEF IsCall
    <3>2. \A r \in Call(t).writes : Call(t).writes = {r}
          BY <1>4 DEF IsCall
    <3> HIDE DEF w
    <3> QED
        BY <2>4, <3>1, <3>2
  <2> QED
      BY <2>1, <2>3, <2>5 DEF Wrote
<1>8. ASSUME NEW u \in Thread, NEW i \in DOMAIN todo'[u], Writes(todo'[u][i], "memory_chunks")
      PROVE  \E j \in DOMAIN todo'[u] : i < j /\ EventCall(todo'[u][j])
  <2>1. CASE u # t
        BY <1>1, <1>8, <2>1 DEF Unique
  <2>2. CASE u = t
    <3>1. DOMAIN rest = 1 .. Len(rest) /\ Len(rest) \in Nat /\ i \in DOMAIN rest
          BY <1>1, <1>2, <2>2
    <3>2. ~Writes(RunFailed, "memory_chunks")
          BY DEF RunFailed, Writes, Row
    <3>3. rest # <<>> /\ rest # <<RunFailed>>
      <4>1. rest = <<RunFailed>> => i = 1 /\ rest[1] = RunFailed
            BY <3>1
      <4>2. rest = <<>> => DOMAIN rest = {}
            OBVIOUS
      <4> QED
          BY <1>1, <1>8, <2>2, <3>1, <3>2, <4>1, <4>2
    <3>4. PICK d \in 1 .. Len(todo[t]) :
              Len(rest) = Len(todo[t]) - d /\ \A j \in 1 .. Len(rest) : rest[j] = todo[t][j + d]
          BY <1>2, <3>3 DEF Later
    <3>5. DOMAIN todo[t] = 1 .. Len(todo[t]) /\ Len(todo[t]) \in Nat
          BY <1>1, CallIs
    <3>6. i + d \in DOMAIN todo[t] /\ Writes(todo[t][i + d], "memory_chunks")
          BY <1>1, <1>8, <2>2, <3>1, <3>4, <3>5
    <3>7. PICK j \in DOMAIN todo[t] : i + d < j /\ EventCall(todo[t][j])
          BY <3>6 DEF Unique
    <3> DEFINE k == j - d
    <3>8. k \in 1 .. Len(rest) /\ i < k /\ k + d = j
          BY <3>1, <3>4, <3>5, <3>7
    <3> HIDE DEF k
    <3>9. rest[k] = todo[t][j]
          BY <3>4, <3>8
    <3> QED
        BY <1>1, <2>2, <3>1, <3>7, <3>8, <3>9
  <2> QED
      BY <2>1, <2>2
<1> QED
    BY <1>6, <1>7, <1>8 DEF Unique, ToRecord, EventCall, Writes

\* The event that another thread records is not the row of this call.
LEMMA LeavesLast ==
    ASSUME StoreTypes, Locks, Unique, LastRecorded, NEW t \in Thread, NEW rest, Leaves(t, rest), Wrote(t)
    PROVE  LastRecorded' /\ (recording # t => BeingRecorded' = BeingRecorded)
<1>1. /\ todo[t] # <<>> /\ (recording = t => recording' = NoOne) /\ (recording # t => recording' = recording)
      /\ \A u \in Thread \ {t} : Call(u)' = Call(u)
      BY LeavesIs
<1>2. CASE recording' = NoOne
      BY <1>1, <1>2 DEF LastRecorded, BeingRecorded
<1>3. CASE recording' # NoOne
  <2>1. recording # t /\ recording' = recording /\ recording \in Thread
        BY <1>1, <1>3 DEF StoreTypes
  <2> DEFINE u == recording
             e == events[Len(events)]
  <2>2. todo[u] # <<>> /\ EventCall(Call(u))
        BY <2>1 DEF Locks
  <2>3. /\ Len(events) > 0 /\ Call(u).writes = {e} /\ e \notin ToSet(rows) \union lost
        /\ \A k \in 1 .. Len(events) - 1 : events[k] # e
        BY <1>3, <2>1 DEF LastRecorded
  <2>4. Call(t).writes # Call(u).writes
    <3>1. Call(t) = todo[t][1] /\ 1 \in DOMAIN todo[t]
          BY <1>1, CallIs
    <3>2. Call(u) = todo[u][1] /\ 1 \in DOMAIN todo[u]
          BY <2>1, <2>2, CallIs
    <3> QED
        BY <2>1, <2>2, <3>1, <3>2 DEF Unique
  <2>5. e \notin Call(t).writes
    <3>1. \A r \in Call(t).writes : Call(t).writes = {r}
          BY <1>1, CallIs DEF IsCall
    <3> QED
        BY <2>3, <2>4, <3>1
  <2>6. events' = events /\ e \notin ToSet(rows') \union lost'
        BY <2>3, <2>5 DEF Wrote
  <2>7. Call(u)' = Call(u)
        BY <1>1, <2>1
  <2> QED
      BY <2>1, <2>3, <2>6, <2>7 DEF LastRecorded, BeingRecorded, Call
<1> QED
    BY <1>2, <1>3

\* What is true of the trace after a thread has left its call, if it is of the rows and transactions.
LEMMA LeavesTracing ==
    ASSUME Tracing, NEW t \in Thread, NEW rest, Leaves(t, rest), Wrote(t), at[t] \in {"locked", "inserted"},
           \A u \in Thread \ {t} : at[u] = "inserted" => owner' = owner,
           recording = t => Call(t).writes \subseteq ToSet(rows') \union lost',
           ToSet(rows) \subseteq ToSet(rows'), lost \subseteq lost', rows' \in Seq(ToSet(rows')),
           owner' \in Connection \union {NoOne}, txn' \in [Connection -> {"none", "begun", "reading", "writing"}],
           snapshot' \in [Connection -> 0 .. Len(rows')], ignored' \in BOOLEAN, InLog', LogOrder', Clean'
    PROVE  Tracing'
<1>1. StoreTypes /\ Locks /\ Unique /\ LastRecorded /\ Complete
      BY DEF Tracing
<1>2. /\ todo' \in [Thread -> Seq(AllCalls)]
      /\ at' \in [Thread -> {"call", "record", "locked", "inserted"}]
      /\ held' \in [Connection -> Thread \union {NoOne}]
      /\ recording' \in Thread \union {NoOne}
      BY <1>1, LeavesIs
<1>3. events' = events
      BY DEF Wrote
<1>4. StoreTypes'
  <2>1. events' \in Seq(ToSet(events'))
        BY <1>1, <1>3 DEF StoreTypes
  <2> QED
      BY <1>2, <2>1 DEF StoreTypes
<1>5. Locks' /\ Unique' /\ LastRecorded' /\ (recording # t => BeingRecorded' = BeingRecorded)
      BY <1>1, LeavesLocks, LeavesUnique, LeavesLast
<1>6. BeingRecorded \subseteq ToSet(rows') \union lost' \union BeingRecorded'
  <2>1. CASE recording = t
        BY <2>1, NoOneAssumption DEF BeingRecorded
  <2>2. CASE recording # t
        BY <2>2, <1>5
  <2> QED
      BY <2>1, <2>2
<1>7. Complete'
      BY <1>1, <1>3, <1>6 DEF Complete
<1> QED
    BY <1>4, <1>5, <1>7 DEF Tracing

----
(* One lemma per action *)

LEMMA RecordTracing ==
    ASSUME Tracing, NEW t \in Thread, Record(t)
    PROVE  Tracing'
<1>1. StoreTypes /\ Locks /\ Unique /\ InLog /\ LogOrder /\ Complete /\ Clean
      BY DEF Tracing
<1>2. /\ at[t] = "call" /\ todo[t] # <<>> /\ EventCall(Call(t)) /\ recording = NoOne /\ recording' = t
      /\ at' = [at EXCEPT ![t] = "record"] /\ events' = events \o SetToSeq(Call(t).writes)
      /\ UNCHANGED <<todo, held, rows, owner, txn, snapshot, ignored, lost>>
      BY DEF Record, EventCall
<1>3. /\ at'[t] = "record" /\ at' \in [Thread -> {"call", "record", "locked", "inserted"}]
      /\ \A u \in Thread \ {t} : at'[u] = at[u]
      BY <1>1, <1>2 DEF StoreTypes
<1>4. \A u \in Thread : Call(u)' = Call(u)
      BY <1>2 DEF Call
<1>5. PICK r : Call(t).writes = {r}
      BY <1>1, <1>2, CallIs DEF EventCall, Writes, IsCall
<1>6. Lengthened(events', events, r)
      BY <1>1, <1>2, <1>5, OneMore DEF StoreTypes
<1>7. /\ events' \in Seq(ToSet(events')) /\ Len(events') = Len(events) + 1 /\ events'[Len(events) + 1] = r
      /\ \A i \in 1 .. Len(events) : events'[i] = events[i]
      /\ ToSet(events') = ToSet(events) \union {r}
      /\ Len(events) \in Nat /\ DOMAIN events = 1 .. Len(events) /\ DOMAIN events' = 1 .. Len(events) + 1
  <2>1. events \in Seq(ToSet(events))
        BY <1>1 DEF StoreTypes
  <2>2. Len(events) \in Nat /\ DOMAIN events = 1 .. Len(events)
        BY <2>1
  <2>3. events' \in Seq(ToSet(events')) /\ Len(events') = Len(events) + 1
        BY <1>6 DEF Lengthened
  <2>4. DOMAIN events' = 1 .. Len(events')
        BY <2>3
  <2> QED
      BY <1>6, <2>2, <2>3, <2>4 DEF Lengthened
<1>8. r \notin ToSet(events) \union ToSet(rows) \union lost
  <2>1. Call(t) = todo[t][1] /\ 1 \in DOMAIN todo[t]
        BY <1>1, <1>2, CallIs
  <2>2. ToRecord(t, 1)
        BY <1>2, <2>1, NoOneAssumption DEF ToRecord
  <2>3. todo[t][1].writes \intersect (ToSet(events) \union ToSet(rows) \union lost) = {}
        BY <1>1, <2>1, <2>2 DEF Unique
  <2> QED
      BY <1>5, <2>1, <2>3
<1>9. StoreTypes'
      BY <1>1, <1>2, <1>3, <1>7 DEF StoreTypes
<1>10. Locks'
  <2>1. \A u \in Thread : at'[u] # "call" => todo'[u] # <<>>
        BY <1>1, <1>2, <1>3 DEF Locks
  <2>2. \A u \in Thread : \A c \in Connection :
            held'[c] = u <=> at'[u] \in {"locked", "inserted"} /\ Call(u)'.conn = c
    <3> TAKE u \in Thread
    <3> TAKE c \in Connection
    <3>1. held[c] = u <=> at[u] \in {"locked", "inserted"} /\ Call(u).conn = c
          BY <1>1 DEF Locks
    <3>2. held' = held /\ Call(u)' = Call(u)
          BY <1>2, <1>4
    <3>3. at'[u] \in {"locked", "inserted"} <=> at[u] \in {"locked", "inserted"}
          BY <1>2, <1>3
    <3> QED
        BY <3>1, <3>2, <3>3
  <2>3. \A u \in Thread : recording' = u <=> at'[u] # "call" /\ EventCall(Call(u)')
    <3> TAKE u \in Thread
    <3>1. CASE u = t
          BY <1>2, <1>3, <1>4, <3>1
    <3>2. CASE u # t
      <4>1. ~(at[u] # "call" /\ EventCall(Call(u)))
            BY <1>1, <1>2, NoOneAssumption DEF Locks
      <4> QED
          BY <1>2, <1>3, <1>4, <3>2, <4>1
    <3> QED
        BY <3>1, <3>2
  <2>4. \A u \in Thread : at'[u] = "record" => EventCall(Call(u)')
        BY <1>1, <1>2, <1>3, <1>4 DEF Locks
  <2>5. \A u \in Thread : at'[u] = "inserted" => owner' = Call(u)'.conn /\ IsWrite(Call(u)')
        BY <1>1, <1>2, <1>3, <1>4 DEF Locks
  <2> QED
      BY <2>1, <2>2, <2>3, <2>4, <2>5 DEF Locks, EventCall, Writes, IsWrite, Call
<1>11. Unique'
  <2>1. \A u, v \in Thread : \A i \in DOMAIN todo'[u], j \in DOMAIN todo'[v] :
            EventCall(todo'[u][i]) /\ todo'[u][i].writes = todo'[v][j].writes => u = v /\ i = j
        BY <1>1, <1>2 DEF Unique
  <2>2. \A u \in Thread : \A i \in DOMAIN todo'[u] :
            Writes(todo'[u][i], "memory_chunks") => \E j \in DOMAIN todo'[u] : i < j /\ EventCall(todo'[u][j])
        BY <1>1, <1>2 DEF Unique
  <2>3. ASSUME NEW u \in Thread, NEW i \in DOMAIN todo'[u], EventCall(todo'[u][i]), ~(recording' = u /\ i = 1)
        PROVE  todo'[u][i].writes \intersect (ToSet(events') \union ToSet(rows') \union lost') = {}
    <3>1. Call(t) = todo[t][1] /\ 1 \in DOMAIN todo[t] /\ todo' = todo
          BY <1>1, <1>2, CallIs
    <3>2. ToRecord(u, i)
          BY <1>2, <2>3, <3>1, NoOneAssumption DEF ToRecord
    <3>3. todo[u][i].writes \intersect (ToSet(events) \union ToSet(rows) \union lost) = {}
          BY <1>1, <2>3, <3>1, <3>2 DEF Unique
    <3>4. todo[u][i].writes # {r}
      <4>1. SUFFICES ASSUME todo[u][i].writes = todo[t][1].writes PROVE FALSE
            BY <1>5, <3>1
      <4>2. u = t /\ i = 1
            BY <1>1, <2>3, <3>1, <4>1 DEF Unique
      <4> QED
          BY <1>2, <2>3, <4>2
    <3>5. IsCall(todo[u][i])
      <4> DEFINE q == todo[u]
      <4>1. q \in Seq(AllCalls) /\ i \in DOMAIN q
            BY <1>1, <2>3, <3>1 DEF StoreTypes
      <4> HIDE DEF q
      <4>2. q[i] \in AllCalls
            BY <4>1
      <4> QED
          BY <4>2, CallsAre DEF q
    <3>6. r \notin todo[u][i].writes
          BY <3>4, <3>5 DEF IsCall
    <3> QED
        BY <1>2, <1>7, <3>1, <3>3, <3>6
  <2> QED
      BY <2>1, <2>2, <2>3 DEF Unique, ToRecord, EventCall, Writes
<1>12. LastRecorded'
  <2>1. Call(recording)' = Call(t)
        BY <1>2 DEF Call
  <2>2. \A k \in 1 .. Len(events) : events[k] \in ToSet(events)
        BY <1>7 DEF ToSet
  <2>3. Len(events') > 0 /\ Call(recording)'.writes = {events'[Len(events')]}
        BY <1>5, <1>7, <2>1
  <2>4. events'[Len(events')] \notin ToSet(rows') \union lost'
        BY <1>2, <1>7, <1>8
  <2>5. \A k \in 1 .. Len(events') - 1 : events'[k] # events'[Len(events')]
        BY <1>7, <1>8, <2>2
  <2> QED
      BY <2>3, <2>4, <2>5 DEF LastRecorded, Call
<1>13. InLog' /\ LogOrder'
  <2>1. StoredEvents' = StoredEvents /\ rows' = rows /\ \A i \in StoredEvents : rows[i] \in ToSet(rows)
        BY <1>2 DEF StoredEvents, ToSet
  <2>2. InLog'
        BY <1>1, <1>7, <2>1 DEF InLog
  <2>3. \A i \in StoredEvents : \A k \in DOMAIN events' : events'[k] = rows[i] =>
            k \in DOMAIN events /\ events[k] = rows[i]
        BY <1>7, <1>8, <2>1
  <2>4. LogOrder'
        BY <1>1, <2>1, <2>3 DEF LogOrder
  <2> QED
      BY <2>2, <2>4
<1>14. Complete'
  <2>1. BeingRecorded = {}
        BY <1>2 DEF BeingRecorded
  <2>2. BeingRecorded' = {r}
        BY <1>2, <1>4, <1>5, NoOneAssumption DEF BeingRecorded, Call
  <2> QED
      BY <1>1, <1>2, <1>7, <2>1, <2>2 DEF Complete
<1>15. Clean'
  <2>1. \A u \in Thread : at[u] = "inserted" => at'[u] = "inserted" /\ Call(u)' = Call(u)
        BY <1>2, <1>3, <1>4
  <2> QED
      BY <1>1, <1>2, <2>1 DEF Clean, Call
<1> QED
    BY <1>9, <1>10, <1>11, <1>12, <1>13, <1>14, <1>15 DEF Tracing

LEMMA LockTracing ==
    ASSUME Tracing, NEW t \in Thread, Lock(t)
    PROVE  Tracing'
<1>1. StoreTypes /\ Locks /\ Unique /\ LastRecorded /\ InLog /\ LogOrder /\ Complete /\ Clean
      BY DEF Tracing
<1>2. /\ todo[t] # <<>> /\ held[Call(t).conn] = NoOne
      /\ at[t] = IF EventCall(Call(t)) THEN "record" ELSE "call"
      /\ held' = [held EXCEPT ![Call(t).conn] = t] /\ at' = [at EXCEPT ![t] = "locked"]
      /\ UNCHANGED <<todo, recording, events, rows, owner, txn, snapshot, ignored, lost>>
      BY DEF Lock, EventCall
<1>3. /\ at'[t] = "locked" /\ at' \in [Thread -> {"call", "record", "locked", "inserted"}]
      /\ \A u \in Thread \ {t} : at'[u] = at[u]
      BY <1>1, <1>2 DEF StoreTypes
<1>4. \A u \in Thread : Call(u)' = Call(u)
      BY <1>2 DEF Call
<1>5. Call(t).conn \in Connection
      BY <1>1, <1>2, CallIs DEF IsCall
<1>6. /\ held' \in [Connection -> Thread \union {NoOne}]
      /\ \A c \in Connection : held'[c] = IF c = Call(t).conn THEN t ELSE held[c]
      BY <1>1, <1>2, <1>5 DEF StoreTypes
<1>7. StoreTypes'
      BY <1>1, <1>2, <1>3, <1>6 DEF StoreTypes
<1>8. Locks'
  <2>1. \A u \in Thread : at'[u] # "call" => todo'[u] # <<>>
        BY <1>1, <1>2, <1>3 DEF Locks
  <2>2. ASSUME NEW u \in Thread, NEW c \in Connection
        PROVE  held'[c] = u <=> at'[u] \in {"locked", "inserted"} /\ Call(u)'.conn = c
    <3>1. held[c] = u <=> at[u] \in {"locked", "inserted"} /\ Call(u).conn = c
          BY <1>1 DEF Locks
    <3>2. CASE u = t
      <4>1. at[t] \notin {"locked", "inserted"}
            BY <1>2
      <4> QED
          BY <1>3, <1>4, <1>6, <3>1, <3>2, <4>1
    <3>3. CASE u # t /\ c # Call(t).conn
          BY <1>3, <1>4, <1>6, <3>1, <3>3
    <3>4. CASE u # t /\ c = Call(t).conn
          BY <1>2, <1>3, <1>4, <1>6, <3>1, <3>4, NoOneAssumption
    <3> QED
        BY <3>2, <3>3, <3>4
  <2>3. \A u \in Thread : recording' = u <=> at'[u] # "call" /\ EventCall(Call(u)')
    <3> TAKE u \in Thread
    <3>1. recording = u <=> at[u] # "call" /\ EventCall(Call(u))
          BY <1>1 DEF Locks
    <3>2. CASE u = t
          BY <1>2, <1>3, <1>4, <3>1, <3>2
    <3>3. CASE u # t
          BY <1>2, <1>3, <1>4, <3>1, <3>3
    <3> QED
        BY <3>2, <3>3
  <2>4. \A u \in Thread : at'[u] = "record" => EventCall(Call(u)')
        BY <1>1, <1>2, <1>3, <1>4 DEF Locks
  <2>5. \A u \in Thread : at'[u] = "inserted" => owner' = Call(u)'.conn /\ IsWrite(Call(u)')
        BY <1>1, <1>2, <1>3, <1>4 DEF Locks
  <2> QED
      BY <2>1, <2>2, <2>3, <2>4, <2>5 DEF Locks, EventCall, Writes, IsWrite, Call
<1>9. Unique' /\ LastRecorded'
  <2>1. Unique'
        BY <1>1, <1>2 DEF Unique, ToRecord, EventCall, Writes
  <2>2. LastRecorded'
        BY <1>1, <1>2 DEF LastRecorded, Call
  <2> QED
      BY <2>1, <2>2
<1>10. InLog' /\ LogOrder' /\ Complete'
  <2>1. StoredEvents' = StoredEvents /\ BeingRecorded' = BeingRecorded
        BY <1>2 DEF StoredEvents, BeingRecorded, Call
  <2>2. InLog'
        BY <1>1, <1>2, <2>1 DEF InLog
  <2>3. LogOrder'
        BY <1>1, <1>2, <2>1 DEF LogOrder
  <2>4. Complete'
        BY <1>1, <1>2, <2>1 DEF Complete
  <2> QED
      BY <2>2, <2>3, <2>4
<1>11. Clean'
  <2>1. \A u \in Thread : at[u] = "inserted" => at'[u] = "inserted" /\ Call(u)' = Call(u)
        BY <1>2, <1>3, <1>4
  <2> QED
      BY <1>1, <1>2, <2>1 DEF Clean, Call
<1> QED
    BY <1>7, <1>8, <1>9, <1>10, <1>11 DEF Tracing

\* The call of a thread that executes it on a connection with no duplicate ignored yet: no other
\* thread is between statement and commit on that connection.
LEMMA FetchTracing ==
    ASSUME Tracing, NEW t \in Thread, Fetch(t)
    PROVE  Tracing'
<1>1. StoreTypes /\ Locks /\ Unique /\ LastRecorded /\ InLog /\ LogOrder /\ Complete /\ Clean
      BY DEF Tracing
<1> DEFINE c == Call(t).conn
           fixes == txn[c] = "begun"
<1>2. /\ at[t] = "locked" /\ ~IsWrite(Call(t)) /\ Done(t)
      /\ txn' = IF fixes THEN [txn EXCEPT ![c] = "reading"] ELSE txn
      /\ snapshot' = IF fixes THEN [snapshot EXCEPT ![c] = Len(rows)] ELSE snapshot
      /\ UNCHANGED <<events, rows, owner, ignored, lost>>
      BY DEF Fetch
<1>3. Leaves(t, Tail(todo[t])) /\ Wrote(t) /\ c \in Connection
  <2>1. todo[t] # <<>>
        BY <1>1, <1>2 DEF Locks
  <2>2. Tail(todo[t]) \in Seq(AllCalls) /\ Later(Tail(todo[t]), todo[t]) /\ c \in Connection
        BY <1>1, <2>1, TailLater, CallIs DEF IsCall
  <2>3. at[t] # "call" /\ Release(t) /\ todo' = [todo EXCEPT ![t] = Tail(@)]
        BY <1>2 DEF Done
  <2> QED
      BY <1>2, <2>2, <2>3 DEF Leaves, Wrote
<1> HIDE DEF c
<1>4. recording # t
      BY <1>1, <1>2 DEF Locks, EventCall, Writes, IsWrite
<1>5. /\ Len(rows) \in Nat /\ rows' \in Seq(ToSet(rows'))
      /\ txn' \in [Connection -> {"none", "begun", "reading", "writing"}]
      /\ snapshot' \in [Connection -> 0 .. Len(rows')]
  <2>1. rows \in Seq(ToSet(rows)) /\ rows' = rows
        BY <1>1, <1>2 DEF StoreTypes
  <2>2. Len(rows) \in Nat
        BY <2>1
  <2> DEFINE n == Len(rows)
  <2>3. snapshot \in [Connection -> 0 .. n] /\ n \in Nat
        BY <1>1, <2>2 DEF StoreTypes
  <2>4. snapshot' = IF fixes THEN [snapshot EXCEPT ![c] = n] ELSE snapshot
        BY <1>2
  <2>5. Len(rows') = n
        BY <2>1
  <2>6. snapshot' \in [Connection -> 0 .. n]
    <3> DEFINE upTo == 0 .. n
    <3>1. n \in upTo /\ snapshot \in [Connection -> upTo]
          BY <2>3
    <3> HIDE DEF n, upTo
    <3>2. snapshot' \in [Connection -> upTo]
          BY <2>4, <3>1
    <3> QED
        BY <3>2 DEF upTo
  <2>7. txn' \in [Connection -> {"none", "begun", "reading", "writing"}]
        BY <1>1, <1>2 DEF StoreTypes
  <2>8. rows' \in Seq(ToSet(rows'))
        BY <2>1
  <2> QED
      BY <2>2, <2>5, <2>6, <2>7, <2>8
<1>6. InLog' /\ LogOrder'
  <2>1. StoredEvents' = StoredEvents
        BY <1>2 DEF StoredEvents
  <2>2. InLog'
        BY <1>1, <1>2, <2>1 DEF InLog
  <2>3. LogOrder'
        BY <1>1, <1>2, <2>1 DEF LogOrder
  <2> QED
      BY <2>2, <2>3
<1>7. Clean'
  <2>1. SUFFICES ASSUME ~ignored PROVE Clean'
        BY <1>2 DEF Clean
  <2>2. \A u \in Thread \ {t} : at'[u] = at[u] /\ Call(u)' = Call(u)
        BY <1>1, <1>3, LeavesIs
  <2>3. ~fixes
    <3>1. SUFFICES ASSUME txn[c] = "begun" PROVE FALSE
          OBVIOUS
    <3>2. c = owner /\ c # NoOne
          BY <1>1, <1>3, <2>1, <3>1, NoOneAssumption DEF Clean
    <3>3. PICK u \in Thread : at[u] = "inserted" /\ Call(u).conn = c
          BY <1>1, <2>1, <3>2 DEF Clean
    <3>4. u = t
          BY <1>1, <1>2, <3>3, OneHolder DEF c
    <3> QED
        BY <1>2, <3>3, <3>4
  <2>4. lost = {} /\ (\A d \in Connection : txn[d] = "none" \/ d = owner)
        BY <1>1, <2>1 DEF Clean
  <2>5. owner # NoOne => \E u \in Thread : at'[u] = "inserted" /\ Call(u)'.conn = owner
    <3>1. HAVE owner # NoOne
    <3>2. PICK u \in Thread : at[u] = "inserted" /\ Call(u).conn = owner
          BY <1>1, <2>1, <3>1 DEF Clean
    <3>3. u # t
          BY <1>2, <3>2
    <3> QED
        BY <2>2, <3>2, <3>3
  <2> QED
      BY <1>2, <2>3, <2>4, <2>5 DEF Clean, Call
<1>8. /\ \A u \in Thread \ {t} : at[u] = "inserted" => owner' = owner
      /\ ToSet(rows) \subseteq ToSet(rows') /\ lost \subseteq lost'
      /\ owner' \in Connection \union {NoOne} /\ ignored' \in BOOLEAN
  <2>1. owner' = owner /\ rows' = rows /\ lost' = lost /\ owner \in Connection \union {NoOne}
        BY <1>1, <1>2 DEF StoreTypes
  <2>2. ignored' \in BOOLEAN
        BY <1>1, <1>2, Zenon DEF StoreTypes
  <2> QED
      BY <2>1, <2>2
<1> HIDE DEF fixes
<1> QED
    BY <1>2, <1>3, <1>4, <1>5, <1>6, <1>7, <1>8, LeavesTracing

\* A statement goes on alone: no other thread is between statement and commit.
LEMMA Alone ==
    ASSUME StoreTypes, Locks, NEW t \in Thread, at[t] = "locked", todo[t] # <<>>, Free(Call(t).conn)
    PROVE  \A u \in Thread : at[u] # "inserted"
<1>1. SUFFICES ASSUME NEW u \in Thread, at[u] = "inserted" PROVE FALSE
      OBVIOUS
<1>2. owner = Call(u).conn /\ todo[u] # <<>>
      BY <1>1 DEF Locks
<1>3. Call(u).conn \in Connection
      BY <1>2, CallIs DEF IsCall
<1>4. Call(u).conn = Call(t).conn
      BY <1>2, <1>3, NoOneAssumption DEF Free
<1> QED
    BY <1>1, <1>4, OneHolder

LEMMA ExecuteTracing ==
    ASSUME Tracing, NEW t \in Thread, Execute(t)
    PROVE  Tracing'
<1>1. StoreTypes /\ Locks /\ Unique /\ LastRecorded /\ InLog /\ LogOrder /\ Complete /\ Clean
      BY DEF Tracing
<1> DEFINE c == Call(t).conn
<1>2. /\ at[t] = "locked" /\ IsWrite(Call(t)) /\ Free(c) /\ owner' = c
      /\ txn' = [txn EXCEPT ![c] = "writing"]
      /\ UNCHANGED <<events, rows, snapshot, lost>>
      BY DEF Execute
<1>3. todo[t] # <<>>
      BY <1>1, <1>2 DEF Locks
<1>4. c \in Connection /\ \A u \in Thread : at[u] # "inserted"
      BY <1>1, <1>2, <1>3, CallIs, Alone DEF IsCall
<1>5. /\ owner' \in Connection \union {NoOne} /\ txn' \in [Connection -> {"none", "begun", "reading", "writing"}]
      /\ snapshot' \in [Connection -> 0 .. Len(rows')] /\ rows' \in Seq(ToSet(rows')) /\ events' \in Seq(ToSet(events'))
  <2>1. snapshot \in [Connection -> 0 .. Len(rows)] /\ rows \in Seq(ToSet(rows)) /\ events \in Seq(ToSet(events))
        BY <1>1 DEF StoreTypes
  <2>2. snapshot' = snapshot /\ rows' = rows /\ events' = events
        BY <1>2
  <2>3. owner' \in Connection \union {NoOne} /\ txn' \in [Connection -> {"none", "begun", "reading", "writing"}]
        BY <1>1, <1>2, <1>4 DEF StoreTypes
  <2> QED
      BY <2>1, <2>2, <2>3
<1>6. InLog' /\ LogOrder'
  <2>1. StoredEvents' = StoredEvents
        BY <1>2 DEF StoredEvents
  <2>2. InLog'
        BY <1>1, <1>2, <2>1 DEF InLog
  <2>3. LogOrder'
        BY <1>1, <1>2, <2>1 DEF LogOrder
  <2> QED
      BY <2>2, <2>3
<1>7. CASE Duplicate(Call(t))
  <2>1. ignored' = TRUE /\ Done(t)
        BY <1>7 DEF Execute
  <2>2. Leaves(t, Tail(todo[t])) /\ Wrote(t)
    <3>1. Tail(todo[t]) \in Seq(AllCalls) /\ Later(Tail(todo[t]), todo[t])
          BY <1>1, <1>3, TailLater
    <3>2. at[t] # "call" /\ Release(t) /\ todo' = [todo EXCEPT ![t] = Tail(@)]
          BY <1>2, <2>1 DEF Done
    <3> QED
        BY <1>2, <3>1, <3>2 DEF Leaves, Wrote
  <2>3. recording # t
    <3>1. \A r \in Call(t).writes : Call(t).writes = {r}
          BY <1>1, <1>3, CallIs DEF IsCall
    <3>2. ~EventCall(Call(t))
          BY <1>7, <3>1 DEF Duplicate, EventCall, Writes
    <3> QED
        BY <1>1, <3>2 DEF Locks
  <2>4. Clean' /\ ignored' \in BOOLEAN
        BY <2>1 DEF Clean
  <2>5. ToSet(rows) \subseteq ToSet(rows') /\ lost \subseteq lost'
        BY <1>2
  <2> HIDE DEF c
  <2> QED
      BY <1>2, <1>4, <1>5, <1>6, <2>2, <2>3, <2>4, <2>5, LeavesTracing
<1>8. CASE ~Duplicate(Call(t))
  <2>1. at' = [at EXCEPT ![t] = "inserted"] /\ UNCHANGED <<ignored, todo, held, recording>>
        BY <1>8 DEF Execute
  <2>2. /\ at'[t] = "inserted" /\ at' \in [Thread -> {"call", "record", "locked", "inserted"}]
        /\ \A u \in Thread \ {t} : at'[u] = at[u]
        BY <1>1, <2>1 DEF StoreTypes
  <2>3. \A u \in Thread : Call(u)' = Call(u)
        BY <2>1 DEF Call
  <2>4. StoreTypes'
    <3>1. ignored' \in BOOLEAN
          BY <1>1, <2>1, Zenon DEF StoreTypes
    <3>2. /\ todo' \in [Thread -> Seq(AllCalls)] /\ held' \in [Connection -> Thread \union {NoOne}]
          /\ recording' \in Thread \union {NoOne}
          BY <1>1, <2>1 DEF StoreTypes
    <3> QED
        BY <1>5, <2>2, <3>1, <3>2 DEF StoreTypes
  <2>5. Locks'
    <3>1. \A u \in Thread : at'[u] # "call" => todo'[u] # <<>>
          BY <1>1, <1>3, <2>1, <2>2 DEF Locks
    <3>2. ASSUME NEW u \in Thread, NEW d \in Connection
          PROVE  held'[d] = u <=> at'[u] \in {"locked", "inserted"} /\ Call(u)'.conn = d
      <4>1. held[d] = u <=> at[u] \in {"locked", "inserted"} /\ Call(u).conn = d
            BY <1>1 DEF Locks
      <4>2. at'[u] \in {"locked", "inserted"} <=> at[u] \in {"locked", "inserted"}
            BY <1>2, <2>2
      <4> QED
          BY <2>1, <2>3, <4>1, <4>2
    <3>3. \A u \in Thread : recording' = u <=> at'[u] # "call" /\ EventCall(Call(u)')
      <4> TAKE u \in Thread
      <4>1. recording = u <=> at[u] # "call" /\ EventCall(Call(u))
            BY <1>1 DEF Locks
      <4>2. at'[u] # "call" <=> at[u] # "call"
            BY <1>2, <2>2
      <4> QED
          BY <2>1, <2>3, <4>1, <4>2
    <3>4. \A u \in Thread : at'[u] = "record" => EventCall(Call(u)')
          BY <1>1, <2>2, <2>3 DEF Locks
    <3>5. \A u \in Thread : at'[u] = "inserted" => owner' = Call(u)'.conn /\ IsWrite(Call(u)')
          BY <1>2, <1>4, <2>2, <2>3
    <3> QED
        BY <3>1, <3>2, <3>3, <3>4, <3>5 DEF Locks, EventCall, Writes, IsWrite, Call
  <2>6. Unique'
        BY <1>1, <1>2, <2>1 DEF Unique, ToRecord, EventCall, Writes
  <2>7. LastRecorded'
        BY <1>1, <1>2, <2>1 DEF LastRecorded, Call
  <2>8. Complete'
    <3>1. BeingRecorded' = BeingRecorded
          BY <2>1 DEF BeingRecorded, Call
    <3> QED
        BY <1>1, <1>2, <3>1 DEF Complete
  <2>9. Clean'
    <3>1. SUFFICES ASSUME ~ignored PROVE Clean'
          BY <2>1 DEF Clean
    <3>2. lost' = {} /\ at'[t] = "inserted" /\ Call(t)'.conn = owner'
          BY <1>1, <1>2, <2>2, <2>3, <3>1 DEF Clean
    <3>3. \A d \in Connection : txn'[d] = "none" \/ d = owner'
      <4>1. \A d \in Connection : txn[d] = "none" \/ d = owner
            BY <1>1, <3>1 DEF Clean
      <4>2. \A d \in Connection \ {c} : txn'[d] = txn[d] /\ d # owner
            BY <1>1, <1>2, NoOneAssumption DEF Free, StoreTypes
      <4> QED
          BY <1>2, <4>1, <4>2
    <3> QED
        BY <3>2, <3>3 DEF Clean, Call
  <2> QED
      BY <1>6, <2>4, <2>5, <2>6, <2>7, <2>8, <2>9 DEF Tracing
<1> QED
    BY <1>7, <1>8

LEMMA CommitTracing ==
    ASSUME Tracing, NEW t \in Thread, Commit(t)
    PROVE  Tracing'
<1>1. StoreTypes /\ Locks /\ Unique /\ LastRecorded /\ InLog /\ LogOrder /\ Complete /\ Clean
      BY DEF Tracing
<1> DEFINE c == Call(t).conn
           n == Len(rows)
<1>2. /\ at[t] = "inserted" /\ rows' = rows \o SetToSeq(Call(t).writes) /\ owner' = NoOne
      /\ txn' = [txn EXCEPT ![c] = "none"] /\ Done(t)
      /\ UNCHANGED <<events, snapshot, ignored, lost>>
      BY DEF Commit
<1>3. todo[t] # <<>> /\ IsWrite(Call(t)) /\ owner = c
      BY <1>1, <1>2 DEF Locks
<1>4. c \in Connection /\ IsCall(Call(t))
      BY <1>1, <1>3, CallIs DEF IsCall
<1>5. PICK r : Call(t).writes = {r}
      BY <1>3, <1>4 DEF IsWrite, IsCall
<1>6. /\ rows' \in Seq(ToSet(rows')) /\ Len(rows') = n + 1 /\ rows'[n + 1] = r
      /\ \A i \in 1 .. n : rows'[i] = rows[i]
      /\ ToSet(rows') = ToSet(rows) \union {r}
      /\ n \in Nat /\ DOMAIN rows = 1 .. n /\ DOMAIN rows' = 1 .. n + 1
  <2>1. rows \in Seq(ToSet(rows))
        BY <1>1 DEF StoreTypes
  <2>2. n \in Nat /\ DOMAIN rows = 1 .. n
        BY <2>1
  <2>3. Lengthened(rows', rows, r)
        BY <1>2, <1>5, <2>1, OneMore
  <2>4. rows' \in Seq(ToSet(rows')) /\ Len(rows') = n + 1
        BY <2>3 DEF Lengthened
  <2>5. DOMAIN rows' = 1 .. n + 1
        BY <2>4
  <2> QED
      BY <2>2, <2>3, <2>4, <2>5 DEF Lengthened
<1>7. Leaves(t, Tail(todo[t])) /\ Wrote(t)
  <2>1. Tail(todo[t]) \in Seq(AllCalls) /\ Later(Tail(todo[t]), todo[t])
        BY <1>1, <1>3, TailLater
  <2>2. at[t] # "call" /\ Release(t) /\ todo' = [todo EXCEPT ![t] = Tail(@)]
        BY <1>2 DEF Done
  <2>3. Wrote(t)
        BY <1>2, <1>5, <1>6 DEF Wrote
  <2> QED
      BY <2>1, <2>2, <2>3 DEF Leaves
\* No other thread is between statement and commit: there is one write lock.
<1>8. \A u \in Thread \ {t} : at[u] # "inserted"
  <2>1. SUFFICES ASSUME NEW u \in Thread \ {t}, at[u] = "inserted" PROVE FALSE
        OBVIOUS
  <2>2. Call(u).conn = Call(t).conn
        BY <1>1, <1>3, <2>1 DEF Locks
  <2> QED
      BY <1>1, <1>2, <2>1, <2>2, OneHolder
<1>9. snapshot' \in [Connection -> 0 .. Len(rows')]
  <2>1. snapshot' \in [Connection -> 0 .. n]
        BY <1>1, <1>2 DEF StoreTypes
  <2>2. 0 .. n \subseteq 0 .. n + 1 /\ Len(rows') = n + 1
        BY <1>6
  <2> QED
      BY <2>1, <2>2
<1>10. owner' \in Connection \union {NoOne} /\ txn' \in [Connection -> {"none", "begun", "reading", "writing"}]
      BY <1>1, <1>2, <1>4 DEF StoreTypes
<1>11. ignored' \in BOOLEAN
      BY <1>1, <1>2, Zenon DEF StoreTypes
\* The row that is new is in the log if it is an event, and then it is the last one there.
<1>12. StoredEvents \subseteq StoredEvents' /\ StoredEvents' \subseteq StoredEvents \union {n + 1}
      BY <1>6 DEF StoredEvents
<1>13. n + 1 \in StoredEvents' => /\ Len(events) \in DOMAIN events /\ events[Len(events)] = r
                                  /\ DOMAIN events = 1 .. Len(events) /\ Len(events) \in Nat
                                  /\ \A k \in DOMAIN events : events[k] = r => k = Len(events)
                                  /\ r \notin ToSet(rows)
  <2>1. HAVE n + 1 \in StoredEvents'
  <2>2. EventCall(Call(t))
        BY <1>5, <1>6, <2>1 DEF StoredEvents, EventCall, Writes
  <2>3. recording = t
        BY <1>1, <1>2, <2>2 DEF Locks
  <2>4. Call(t).writes = {events[Len(events)]} /\ Len(events) > 0 /\ r \notin ToSet(rows)
        BY <1>1, <1>5, <2>3, NoOneAssumption DEF LastRecorded
  <2>5. events[Len(events)] = r
        BY <1>5, <2>4
  <2>6. DOMAIN events = 1 .. Len(events) /\ Len(events) \in Nat
    <3>1. events \in Seq(ToSet(events))
          BY <1>1 DEF StoreTypes
    <3> QED
        BY <3>1
  <2>7. \A k \in 1 .. Len(events) - 1 : events[k] # r
        BY <1>1, <2>3, <2>5, NoOneAssumption DEF LastRecorded
  <2> QED
      BY <2>4, <2>5, <2>6, <2>7
<1> HIDE DEF n
<1>14. InLog'
  <2>1. SUFFICES ASSUME NEW i \in StoredEvents' PROVE \E k \in DOMAIN events' : events'[k] = rows'[i]
        BY DEF InLog
  <2>2. CASE i = n + 1
        BY <1>2, <1>6, <1>13, <2>1, <2>2
  <2>3. CASE i # n + 1
    <3>1. i \in StoredEvents /\ i \in 1 .. n
          BY <1>6, <1>12, <2>1, <2>3 DEF StoredEvents
    <3> QED
        BY <1>1, <1>2, <1>6, <3>1 DEF InLog
  <2> QED
      BY <2>2, <2>3
<1>15. LogOrder'
  <2>1. SUFFICES ASSUME NEW i \in StoredEvents', NEW j \in StoredEvents', NEW k \in DOMAIN events,
                        NEW l \in DOMAIN events, events[k] = rows'[i], events[l] = rows'[j], i < j
                 PROVE  k < l
        BY <1>2 DEF LogOrder
  <2>2. i \in 1 .. n + 1 /\ j \in 1 .. n + 1
        BY <1>6, <2>1 DEF StoredEvents
  <2>3. i \in StoredEvents /\ rows'[i] = rows[i] /\ i \in DOMAIN rows
        BY <1>6, <1>12, <2>1, <2>2
  <2>4. CASE j = n + 1
    <3>1. /\ l = Len(events) /\ r \notin ToSet(rows) /\ events[l] = r
          /\ DOMAIN events = 1 .. Len(events) /\ Len(events) \in Nat
          BY <1>6, <1>13, <2>1, <2>4
    <3>2. rows[i] \in ToSet(rows)
          BY <2>3 DEF ToSet
    <3>3. k # l
          BY <2>1, <2>3, <3>1, <3>2
    <3> QED
        BY <3>1, <3>3
  <2>5. CASE j # n + 1
    <3>1. j \in StoredEvents /\ rows'[j] = rows[j]
          BY <1>6, <1>12, <2>1, <2>2, <2>5
    <3> QED
        BY <1>1, <2>1, <2>3, <3>1 DEF LogOrder
  <2> QED
      BY <2>4, <2>5
<1>16. Clean'
  <2>1. SUFFICES ASSUME ~ignored PROVE Clean'
        BY <1>2 DEF Clean
  <2>2. lost = {} /\ (\A d \in Connection : txn[d] = "none" \/ d = c)
        BY <1>1, <1>3, <2>1 DEF Clean
  <2>3. \A d \in Connection : txn'[d] = "none"
        BY <1>1, <1>2, <1>4, <2>2 DEF StoreTypes
  <2> QED
      BY <1>2, <2>2, <2>3 DEF Clean
<1>17. /\ ToSet(rows) \subseteq ToSet(rows') /\ lost \subseteq lost'
       /\ recording = t => Call(t).writes \subseteq ToSet(rows') \union lost'
      BY <1>2, <1>5, <1>6
<1>18. rows' \in Seq(ToSet(rows')) /\ at[t] \in {"locked", "inserted"}
      BY <1>2, <1>6
<1> HIDE DEF c
<1> QED
    BY <1>7, <1>8, <1>9, <1>10, <1>11, <1>14, <1>15, <1>16, <1>17, <1>18, LeavesTracing

\* A write is refused: only after a duplicate row has been ignored.
LEMMA FailTracing ==
    ASSUME Tracing, NEW t \in Thread, at[t] = "locked", IsWrite(Call(t)), Fail(t), ignored,
           txn' \in [Connection -> {"none", "begun", "reading", "writing"}]
    PROVE  Tracing'
<1>1. StoreTypes /\ Locks /\ Unique /\ LastRecorded /\ InLog /\ LogOrder /\ Complete /\ Clean
      BY DEF Tracing
<1>2. /\ Release(t) /\ todo' = [todo EXCEPT ![t] = AfterFailure(t)] /\ lost' = lost \union Call(t).writes
      /\ UNCHANGED <<events, rows, owner, snapshot, ignored>>
      BY DEF Fail
<1>3. Leaves(t, AfterFailure(t)) /\ Wrote(t)
  <2>1. todo[t] # <<>>
        BY <1>1 DEF Locks
  <2>2. AfterFailure(t) \in Seq(AllCalls) /\ Later(AfterFailure(t), todo[t])
        BY <1>1, <2>1, FailureLater
  <2> QED
      BY <1>2, <2>2 DEF Leaves, Wrote
<1>4. InLog' /\ LogOrder'
  <2>1. StoredEvents' = StoredEvents
        BY <1>2 DEF StoredEvents
  <2>2. InLog'
        BY <1>1, <1>2, <2>1 DEF InLog
  <2>3. LogOrder'
        BY <1>1, <1>2, <2>1 DEF LogOrder
  <2> QED
      BY <2>2, <2>3
<1>5. Clean'
      BY <1>2 DEF Clean
<1>6. ignored' \in BOOLEAN
      BY <1>1, <1>2, Zenon DEF StoreTypes
<1>7. /\ owner' = owner /\ owner' \in Connection \union {NoOne} /\ snapshot' \in [Connection -> 0 .. Len(rows')]
      /\ rows' \in Seq(ToSet(rows'))
  <2>1. /\ owner \in Connection \union {NoOne} /\ snapshot \in [Connection -> 0 .. Len(rows)]
        /\ rows \in Seq(ToSet(rows))
        BY <1>1 DEF StoreTypes
  <2>2. owner' = owner /\ snapshot' = snapshot /\ rows' = rows
        BY <1>2
  <2> QED
      BY <2>1, <2>2
<1>8. /\ ToSet(rows) \subseteq ToSet(rows') /\ lost \subseteq lost'
      /\ recording = t => Call(t).writes \subseteq ToSet(rows') \union lost'
      BY <1>2
<1> QED
    BY <1>3, <1>4, <1>5, <1>6, <1>7, <1>8, LeavesTracing

LEMMA RefusedTracing ==
    ASSUME Tracing, NEW t \in Thread, TimeOut(t) \/ Refuse(t)
    PROVE  Tracing'
<1>1. StoreTypes /\ Locks /\ Clean
      BY DEF Tracing
<1> DEFINE c == Call(t).conn
<1>2. at[t] = "locked" /\ IsWrite(Call(t)) /\ Fail(t)
      BY DEF TimeOut, Refuse
<1>3. c \in Connection
  <2>1. todo[t] # <<>>
        BY <1>1, <1>2 DEF Locks
  <2> QED
      BY <1>1, <2>1, CallIs DEF IsCall
<1>4. txn' \in [Connection -> {"none", "begun", "reading", "writing"}]
      BY <1>1, <1>3 DEF TimeOut, Refuse, StoreTypes
<1>5. ignored
  <2>1. SUFFICES ASSUME ~ignored PROVE FALSE
        OBVIOUS
  <2>2. \/ owner \notin {NoOne, c} /\ (\A u \in Thread : at[u] # "inserted")
        \/ txn[c] = "reading"
        BY DEF TimeOut, Refuse, Free, LeftBehind
  <2>3. owner # NoOne => \E u \in Thread : at[u] = "inserted" /\ Call(u).conn = owner
        BY <1>1, <2>1 DEF Clean
  <2>4. CASE txn[c] = "reading"
    <3>1. c = owner /\ c # NoOne
          BY <1>1, <1>3, <2>1, <2>4, NoOneAssumption DEF Clean
    <3>2. PICK u \in Thread : at[u] = "inserted" /\ Call(u).conn = c
          BY <2>3, <3>1
    <3>3. u = t
          BY <1>1, <1>2, <3>2, OneHolder
    <3> QED
        BY <1>2, <3>2, <3>3
  <2> QED
      BY <2>2, <2>3, <2>4
<1> QED
    BY <1>2, <1>4, <1>5, FailTracing

----
(* The theorems *)

LEMMA InitTracing == StoreInit => Tracing
<1>1. SUFFICES ASSUME StoreInit PROVE Tracing
      OBVIOUS
<1>2. /\ todo \in Script /\ at = [t \in Thread |-> "call"] /\ held = [c \in Connection |-> NoOne]
      /\ recording = NoOne /\ events = <<>> /\ rows = <<>> /\ owner = NoOne
      /\ txn = [c \in Connection |-> "none"] /\ snapshot = [c \in Connection |-> 0] /\ ignored = FALSE /\ lost = {}
      BY <1>1 DEF StoreInit
<1>3. todo \in [Thread -> Seq(AllCalls)]
  <2> DEFINE S == CallsOf(todo)
  <2>1. todo \in [Thread -> Seq(S)] /\ S \subseteq AllCalls
        BY <1>2, ScriptAssumption DEF AllCalls
  <2> HIDE DEF S
  <2>2. Seq(S) \subseteq Seq(AllCalls)
    <3>1. SUFFICES ASSUME NEW q \in Seq(S) PROVE q \in Seq(AllCalls)
          OBVIOUS
    <3> HIDE DEF AllCalls
    <3> QED
        BY <2>1, <3>1
  <2> DEFINE A == Seq(AllCalls)
  <2> HIDE DEF A
  <2> QED
      BY <2>1, <2>2 DEF A
<1>4. ToSet(<<>>) = {} /\ Len(<<>>) = 0 /\ DOMAIN <<>> = {}
      BY DEF ToSet
<1>5. StoreTypes
  <2>1. events \in Seq(ToSet(events)) /\ rows \in Seq(ToSet(rows))
    <3>1. <<>> \in Seq(ToSet(<<>>))
          OBVIOUS
    <3> QED
        BY <1>2, <3>1
  <2>2. snapshot \in [Connection -> 0 .. Len(rows)]
        BY <1>2, <1>4
  <2> QED
      BY <1>2, <1>3, <2>1, <2>2 DEF StoreTypes
<1>6. Locks
      BY <1>2, NoOneAssumption DEF Locks
<1>7. Unique
  <2>1. \A t, u \in Thread : \A i \in DOMAIN todo[t], j \in DOMAIN todo[u] :
            EventCall(todo[t][i]) /\ todo[t][i].writes = todo[u][j].writes => t = u /\ i = j
        BY <1>2, ScriptAssumption DEF EventCall
  <2>2. \A t \in Thread : \A i \in DOMAIN todo[t] :
            Writes(todo[t][i], "memory_chunks") => \E j \in DOMAIN todo[t] : i < j /\ EventCall(todo[t][j])
        BY <1>2, ScriptAssumption DEF EventCall
  <2>3. ToSet(events) \union ToSet(rows) \union lost = {}
        BY <1>2, <1>4
  <2> QED
      BY <2>1, <2>2, <2>3 DEF Unique
<1>8. LastRecorded /\ Clean
      BY <1>2 DEF LastRecorded, Clean
<1>9. InLog /\ LogOrder /\ Complete
  <2>1. StoredEvents = {}
        BY <1>2, <1>4 DEF StoredEvents
  <2> QED
      BY <1>2, <1>4, <2>1 DEF InLog, LogOrder, Complete
<1> QED
    BY <1>5, <1>6, <1>7, <1>8, <1>9 DEF Tracing

LEMMA NextTracing == Tracing /\ [StoreNext]_storeVars => Tracing'
<1>1. SUFFICES ASSUME Tracing, [StoreNext]_storeVars PROVE Tracing'
      OBVIOUS
<1>2. CASE StoreNext
  <2>1. PICK t \in Thread : ThreadStep(t)
        BY <1>2 DEF StoreNext
  <2>2. \/ Record(t) \/ Lock(t) \/ Fetch(t) \/ Execute(t) \/ Commit(t)
        \/ (TimeOut(t) \/ Refuse(t))
        BY <2>1 DEF ThreadStep
  <2> QED
      BY <1>1, <2>2, RecordTracing, LockTracing, FetchTracing, ExecuteTracing, CommitTracing, RefusedTracing
<1>3. CASE UNCHANGED storeVars
  <2>1. UNCHANGED <<todo, at, held, recording, events, rows, owner, txn, snapshot, ignored, lost>>
        BY <1>3 DEF storeVars
  <2>2. StoreTypes => StoreTypes'
    <3>1. ignored \in BOOLEAN => ignored' \in BOOLEAN
          BY <2>1, Zenon
    <3> QED
        BY <2>1, <3>1 DEF StoreTypes
  <2>3. Locks => Locks'
        BY <2>1 DEF Locks, Call, EventCall, Writes, IsWrite
  <2>4. Unique => Unique'
        BY <2>1 DEF Unique, ToRecord, EventCall, Writes
  <2>5. LastRecorded => LastRecorded'
        BY <2>1 DEF LastRecorded, Call
  <2>6. StoredEvents' = StoredEvents /\ BeingRecorded' = BeingRecorded
        BY <2>1 DEF StoredEvents, BeingRecorded, Call
  <2>7. (InLog => InLog') /\ (LogOrder => LogOrder') /\ (Complete => Complete')
        BY <2>1, <2>6 DEF InLog, LogOrder, Complete
  <2>8. Clean => Clean'
        BY <2>1 DEF Clean, Call
  <2> QED
      BY <1>1, <2>2, <2>3, <2>4, <2>5, <2>7, <2>8 DEF Tracing
<1> QED
    BY <1>1, <1>2, <1>3

\* What all states of the stores have in common.
THEOREM StoreInvariance == StoreSpec => []Tracing
<1> QED
    BY InitTracing, NextTracing, PTL DEF StoreSpec

\* Locks, transactions and snapshots are of the kinds they are declared with.
THEOREM StoreTypesKept == StoreSpec => []StoreTypeOK
<1>1. Tracing => StoreTypeOK
      BY DEF Tracing, StoreTypes, StoreTypeOK
<1> QED
    BY <1>1, StoreInvariance, PTL

\* The trace in the store is the recorder's log in its order, less the event being written and the
\* events whose write failed; none fails, and no lock outlives its call, before a duplicate row of
\* artifacts or chunks has been ignored.
THEOREM KeepsTrace == StoreSpec => []TraceKept
<1>1. Tracing => TraceKept
      BY DEF Tracing, InLog, LogOrder, Complete, Clean, TraceKept
<1> QED
    BY <1>1, StoreInvariance, PTL

----
(* Replay, for any graphs and numbers of attempts: the responses of a node in a trace *)

Joined(s, t) == s \o t

\* f flattens the first m sequences of s.
Flattens(f, s, m) == f[0] = <<>> /\ \A k \in 1 .. m : f[k] = Joined(f[k - 1], s[k])

LEMMA FlattenIs ==
    ASSUME NEW A, NEW m \in Nat, NEW s \in [1 .. m -> Seq(A)]
    PROVE  \E f \in [0 .. m -> Seq(A)] : Flattens(f, s, m) /\ FlattenSeq(s) = f[m]
<1> DEFINE X == Seq(A)
           more == [kv \in Nat \X X |-> IF kv[1] \in 1 .. m THEN Joined(kv[2], s[kv[1]]) ELSE <<>>]
<1>1. <<>> \in X /\ \A k \in 1 .. m, v \in X : Joined(v, s[k]) \in X
      BY DEF Joined
<1>2. more \in [Nat \X X -> X]
  <2> HIDE DEF X
  <2> QED
      BY <1>1
<1>3. PICK f \in [0 .. m -> X] : Iterates(f, <<>>, more, m)
  <2> HIDE DEF X, more
  <2> QED
      BY <1>1, <1>2, RecursionExists
<1>4. Flattens(f, s, m)
  <2>1. ASSUME NEW k \in 1 .. m PROVE f[k] = Joined(f[k - 1], s[k])
    <3> HIDE DEF X
    <3>1. f[k - 1] \in X /\ k \in Nat
          BY <1>3
    <3>3. f[k] = more[<<k, f[k - 1]>>]
      <4> HIDE DEF more
      <4> QED
          BY <1>3 DEF Iterates
    <3>2. <<k, f[k - 1]>> \in Nat \X X
          BY <3>1
    <3> QED
        BY <3>1, <3>2, <3>3
  <2>2. f[0] = <<>>
        BY <1>3 DEF Iterates
  <2> HIDE DEF X, more
  <2> QED
      BY <2>1, <2>2 DEF Flattens
<1>5. Len(s) = m /\ (m = 0 => s = <<>>)
      OBVIOUS
<1>6. CASE m = 0
      BY <1>4, <1>5, <1>6 DEF Flattens, FlattenSeq
<1>7. CASE m # 0
  <2> DEFINE Is(g) == g = [i \in 1 .. m |-> IF i = 1 THEN s[i] ELSE Joined(g[i - 1], s[i])]
             h == [i \in 1 .. m |-> f[i]]
             c == CHOOSE g : Is(g)
  <2>1. f[1] = s[1]
    <3>1. 1 \in 1 .. m /\ 1 - 1 = 0
          BY <1>7
    <3>2. f[1] = Joined(f[0], s[1]) /\ f[0] = <<>>
          BY <1>4, <3>1 DEF Flattens
    <3> DEFINE w == s[1]
    <3>3. w \in Seq(A)
          BY <3>1
    <3> HIDE DEF w
    <3>4. <<>> \o w = w
          BY <3>3
    <3> QED
        BY <3>2, <3>4 DEF Joined, w
  <2>2. Is(h)
    <3>1. ASSUME NEW i \in 1 .. m PROVE h[i] = IF i = 1 THEN s[i] ELSE Joined(h[i - 1], s[i])
      <4>1. CASE i = 1
            BY <2>1, <4>1
      <4>2. CASE i # 1
        <5>1. i - 1 \in 1 .. m /\ f[i] = Joined(f[i - 1], s[i])
              BY <1>4, <4>2 DEF Flattens
        <5> QED
            BY <4>2, <5>1
      <4> QED
          BY <4>1, <4>2
    <3> QED
        BY <3>1
  <2>3. Is(c)
    <3> HIDE DEF Is, h
    <3> QED
        BY <2>2
  <2> HIDE DEF c
  <2>4. \A i \in 1 .. m : c[i] = IF i = 1 THEN s[i] ELSE Joined(c[i - 1], s[i])
        BY <2>3
  <2>5. FlattenSeq(s) = c[m]
        BY <1>5, <1>7 DEF FlattenSeq, c, Joined
  <2> DEFINE T == {k \in 0 .. m : k = 0 \/ c[k] = f[k]}
  <2>6. 0 \in T
        OBVIOUS
  <2>7. \A k \in 0 .. m - 1 : k \in T => k + 1 \in T
    <3> SUFFICES ASSUME NEW k \in 0 .. m - 1, k \in T PROVE k + 1 \in T
        OBVIOUS
    <3>1. k + 1 \in 1 .. m /\ (k + 1) - 1 = k
          OBVIOUS
    <3>2. c[k + 1] = IF k + 1 = 1 THEN s[k + 1] ELSE Joined(c[k], s[k + 1])
          BY <2>4, <3>1
    <3>3. f[k + 1] = Joined(f[k], s[k + 1])
          BY <1>4, <3>1 DEF Flattens
    <3>4. CASE k = 0
          BY <2>1, <3>1, <3>2, <3>4
    <3>5. CASE k # 0
          BY <3>1, <3>2, <3>3, <3>5
    <3> QED
        BY <3>4, <3>5
  <2>8. 0 .. m \subseteq T
    <3> HIDE DEF T
    <3> QED
        BY <2>6, <2>7, Induction
  <2>9. c[m] = f[m]
        BY <1>7, <2>8
  <2> QED
      BY <1>4, <2>5, <2>9
<1> QED
    BY <1>6, <1>7

\* Of the sequences that follow those of s, one at most is not empty: v, at place p.
Follows(t, s, m, l, v, p) ==
    /\ \A k \in 1 .. m : t[k] = s[k]
    /\ \A k \in m + 1 .. m + l : t[k] = IF k = p THEN v ELSE <<>>

Lists(n, A) == [1 .. n -> Seq(A)]

LEMMA FlattenOneMore ==
    ASSUME NEW A, NEW m \in Nat, NEW l \in Nat, NEW s \in Lists(m, A), NEW t \in Lists(m + l, A),
           NEW v \in Seq(A), NEW p \in Nat, Follows(t, s, m, l, v, p)
    PROVE  FlattenSeq(t) = IF p \in m + 1 .. m + l THEN Joined(FlattenSeq(s), v) ELSE FlattenSeq(s)
<1>0. /\ \A k \in 1 .. m : t[k] = s[k]
      /\ \A k \in m + 1 .. m + l : t[k] = IF k = p THEN v ELSE <<>>
      BY DEF Follows
<1>1. PICK f \in [0 .. m -> Seq(A)] : Flattens(f, s, m) /\ FlattenSeq(s) = f[m]
      BY FlattenIs DEF Lists
<1>2. PICK g \in [0 .. m + l -> Seq(A)] : Flattens(g, t, m + l) /\ FlattenSeq(t) = g[m + l]
  <2> DEFINE n == m + l
  <2>1. n \in Nat /\ t \in [1 .. n -> Seq(A)]
        BY DEF Lists
  <2> HIDE DEF n
  <2>2. \E g \in [0 .. n -> Seq(A)] : Flattens(g, t, n) /\ FlattenSeq(t) = g[n]
        BY <2>1, FlattenIs
  <2> QED
      BY <2>2 DEF n
<1> DEFINE T == {k \in 0 .. m : g[k] = f[k]}
           base == f[m]
           U == {k \in 0 .. l : g[m + k] = IF p \in m + 1 .. m + k THEN Joined(base, v) ELSE base}
<1>3. 0 \in T /\ \A k \in 0 .. m - 1 : k \in T => k + 1 \in T
  <2>1. 0 \in T
        BY <1>1, <1>2 DEF Flattens
  <2>2. SUFFICES ASSUME NEW k \in 0 .. m - 1, k \in T PROVE k + 1 \in T
        BY <2>1
  <2>3. k + 1 \in 1 .. m /\ k + 1 \in 1 .. m + l /\ (k + 1) - 1 = k
        OBVIOUS
  <2>4. g[k + 1] = Joined(g[k], t[k + 1]) /\ f[k + 1] = Joined(f[k], s[k + 1])
        BY <1>1, <1>2, <2>3 DEF Flattens
  <2> QED
      BY <1>0, <2>2, <2>3, <2>4
<1>4. g[m] = f[m]
  <2>1. 0 .. m \subseteq T
    <3> HIDE DEF T
    <3> QED
        BY <1>3, Induction
  <2> QED
      BY <2>1
<1>5. base \in Seq(A)
      BY <1>1
<1> HIDE DEF base
<1>6. 0 \in U
      BY <1>4 DEF base
<1>7. \A k \in 0 .. l - 1 : k \in U => k + 1 \in U
  <2>1. SUFFICES ASSUME NEW k \in 0 .. l - 1, k \in U PROVE k + 1 \in U
        OBVIOUS
  <2>2. m + k + 1 \in 1 .. m + l /\ m + k + 1 \in m + 1 .. m + l /\ (m + k + 1) - 1 = m + k
        OBVIOUS
  <2>3. g[m + k + 1] = Joined(g[m + k], t[m + k + 1])
        BY <1>2, <2>2 DEF Flattens
  <2>4. t[m + k + 1] = IF m + k + 1 = p THEN v ELSE <<>>
        BY <1>0, <2>2
  <2>5. g[m + k] = IF p \in m + 1 .. m + k THEN Joined(base, v) ELSE base
        BY <2>1
  <2>6. Joined(Joined(base, v), <<>>) = Joined(base, v) /\ Joined(base, <<>>) = base
    <3>1. \A w \in Seq(A) : w \o <<>> = w
          OBVIOUS
    <3>2. base \o v \in Seq(A)
          BY <1>5
    <3> QED
        BY <1>5, <3>1, <3>2 DEF Joined
  <2>7. g[m + k + 1] = IF p \in m + 1 .. m + k + 1 THEN Joined(base, v) ELSE base
    <3>1. CASE p = m + k + 1
          BY <2>3, <2>4, <2>5, <3>1
    <3>2. CASE p # m + k + 1
      <4>1. p \in m + 1 .. m + k + 1 <=> p \in m + 1 .. m + k
            BY <3>2
      <4> QED
          BY <2>3, <2>4, <2>5, <2>6, <3>2, <4>1
    <3> QED
        BY <3>1, <3>2
  <2> QED
      BY <2>7
<1>8. l \in U
  <2>1. 0 .. l \subseteq U
    <3> HIDE DEF U
    <3> QED
        BY <1>6, <1>7, Induction
  <2> QED
      BY <2>1
<1> QED
    BY <1>1, <1>2, <1>8 DEF base

\* A finite set as a sequence: each element once.
LEMMA EachOnce ==
    ASSUME NEW S, IsFiniteSet(S)
    PROVE  \E m \in Nat : /\ SetToSeq(S) \in [1 .. m -> S]
                          /\ \A i, j \in 1 .. m : SetToSeq(S)[i] = SetToSeq(S)[j] => i = j
                          /\ \A x \in S : \E i \in 1 .. m : SetToSeq(S)[i] = x
<1> DEFINE m == Cardinality(S)
           Is(f) == f \in [1 .. m -> S] /\ IsInjective(f)
           h == CHOOSE f : Is(f)
<1>1. m \in Nat /\ ExistsBijection(1 .. m, S)
      BY FS_CardinalityType
<1>2. PICK b : Is(b)
      BY <1>1 DEF ExistsBijection, Bijection, Injection
<1>3. Is(h)
  <2> HIDE DEF Is
  <2> QED
      BY <1>2
<1>4. SetToSeq(S) = h
      BY DEF SetToSeq
<1> HIDE DEF h
<1>5. h \in Injection(1 .. m, S)
      BY <1>3 DEF Injection
<1>6. IsFiniteSet(1 .. m) /\ Cardinality(1 .. m) = m
      BY <1>1, FS_Interval
<1>7. h \in Surjection(1 .. m, S)
      BY <1>5, <1>6, FS_Injection
<1> HIDE DEF m
<1>8. \A i, j \in 1 .. m : h[i] = h[j] => i = j
      BY <1>3 DEF IsInjective
<1>9. \A x \in S : \E i \in 1 .. m : h[i] = x
      BY <1>7 DEF Surjection
<1> QED
    BY <1>1, <1>3, <1>4, <1>8, <1>9

\* The entries of a trace that are about nodes of N, with answers from A.
Entries(A, N) == Seq([node : N, responses : Seq(A)])
Of(tr, n) == [i \in DOMAIN tr |-> IF tr[i].node = n THEN tr[i].responses ELSE <<>>]
Recorders(un, N) == {n \in N : un[n] # <<>>}
AnswersOf(A, N) == [N -> Seq(A)]
Saved(q, un) == [i \in DOMAIN q |-> [node |-> q[i], responses |-> un[q[i]]]]

\* Saving what each node has recorded adds it to what the node is provided with.
LEMMA SavedIsProvided ==
    ASSUME NEW A, NEW N, NEW tr \in Entries(A, N), NEW un \in AnswersOf(A, N),
           IsFiniteSet(Recorders(un, N)), NEW n \in N
    PROVE  LET d == Saved(SetToSeq(Recorders(un, N)), un)
           IN  /\ tr \o d \in Entries(A, N)
               /\ FlattenSeq(Of(tr \o d, n)) = FlattenSeq(Of(tr, n)) \o un[n]
<1> USE DEF AnswersOf, Recorders
<1> DEFINE S == Recorders(un, N)
           q == SetToSeq(S)
           d == Saved(q, un)
           E == [node : N, responses : Seq(A)]
           m == Len(tr)
           both == tr \o d
<1>1. PICK l \in Nat : /\ q \in [1 .. l -> S]
                       /\ \A i, j \in 1 .. l : q[i] = q[j] => i = j
                       /\ \A x \in S : \E i \in 1 .. l : q[i] = x
  <2>1. IsFiniteSet(S)
        OBVIOUS
  <2> HIDE DEF S
  <2> QED
      BY <2>1, EachOnce
<1> HIDE DEF q
<1>2. DOMAIN d = 1 .. l /\ \A i \in 1 .. l : d[i].node = q[i] /\ d[i].responses = un[q[i]] /\ q[i] \in S /\ d[i] \in E
      BY <1>1 DEF Saved
<1>3. d = [i \in 1 .. l |-> d[i]]
      BY <1>1 DEF Saved
<1> HIDE DEF d
<1>4. tr \in Seq(E) /\ m \in Nat /\ DOMAIN tr = 1 .. m
      BY DEF Entries
<1> HIDE DEF E
<1>5. d \in Seq(E) /\ Len(d) = l
      BY <1>2, <1>3
<1>6. /\ both \in Seq(E) /\ DOMAIN both = 1 .. m + l
      /\ \A i \in 1 .. m : both[i] = tr[i]
      /\ \A i \in m + 1 .. m + l : both[i] = d[i - m]
      /\ \A i \in 1 .. m + l : both[i] \in E
  <2>1. both \in Seq(E) /\ Len(both) = m + l
    <3>1. \A x, y \in Seq(E) : x \o y \in Seq(E) /\ Len(x \o y) = Len(x) + Len(y)
          OBVIOUS
    <3> QED
        BY <1>4, <1>5, <3>1
  <2>4. \A i \in 1 .. Len(both) : both[i] \in E
        BY <2>1
  <2>2. \A i \in 1 .. m + l : both[i] = IF i <= m THEN tr[i] ELSE d[i - m]
        BY <1>4, <1>5
  <2>3. DOMAIN both = 1 .. m + l
        BY <1>1, <1>4, <2>1
  <2> HIDE DEF both, m
  <2> QED
      BY <1>1, <1>4, <2>1, <2>2, <2>3, <2>4
<1> HIDE DEF m, both
<1> DEFINE s == Of(tr, n)
           t == Of(both, n)
           R == Seq(A)
<1>7. s \in [1 .. m -> R]
  <2>1. \A i \in 1 .. m : tr[i].responses \in R
    <3>1. \A i \in 1 .. m : tr[i] \in E
          BY <1>4
    <3> HIDE DEF R
    <3> QED
        BY <3>1 DEF E, R
  <2>2. <<>> \in R
        OBVIOUS
  <2> HIDE DEF R
  <2> QED
      BY <1>4, <2>1, <2>2 DEF Of
<1>8. t \in [1 .. m + l -> R]
  <2>1. \A i \in 1 .. m + l : both[i].responses \in R
    <3>1. \A i \in 1 .. m + l : both[i] \in E
          BY <1>6
    <3> HIDE DEF R
    <3> QED
        BY <3>1 DEF E, R
  <2>2. <<>> \in R
        OBVIOUS
  <2> HIDE DEF R
  <2> QED
      BY <1>6, <2>1, <2>2 DEF Of
<1>9. \A k \in 1 .. m : t[k] = s[k]
      BY <1>1, <1>4, <1>6 DEF Of
<1>10. \A k \in m + 1 .. m + l : t[k] = IF q[k - m] = n THEN un[n] ELSE <<>>
  <2>1. SUFFICES ASSUME NEW k \in m + 1 .. m + l PROVE t[k] = IF q[k - m] = n THEN un[n] ELSE <<>>
        OBVIOUS
  <2>2. k \in 1 .. m + l /\ k - m \in 1 .. l
        BY <1>1, <1>4
  <2>3. both[k] = d[k - m]
        BY <1>6, <2>1
  <2>4. d[k - m].node = q[k - m] /\ d[k - m].responses = un[q[k - m]]
        BY <1>2, <2>2
  <2>5. t[k] = IF both[k].node = n THEN both[k].responses ELSE <<>>
        BY <1>6, <2>2 DEF Of
  <2> QED
      BY <2>3, <2>4, <2>5
<1> HIDE DEF s, t
<1> DEFINE v == un[n]
<1>11. v \in Seq(A)
       OBVIOUS
<1>12. s \in Lists(m, A) /\ t \in Lists(m + l, A)
       BY <1>7, <1>8 DEF Lists
<1>13. CASE n \in S
  <2>1. PICK i \in 1 .. l : q[i] = n
        BY <1>1, <1>13
  <2> DEFINE p == m + i
  <2>2. p \in Nat /\ p \in m + 1 .. m + l /\ \A k \in m + 1 .. m + l : k - m \in 1 .. l /\ (k = p <=> k - m = i)
        BY <1>1, <1>4
  <2>3. \A k \in m + 1 .. m + l : q[k - m] = n <=> k = p
        BY <1>1, <2>1, <2>2
  <2> HIDE DEF p
  <2>4. \A k \in m + 1 .. m + l : t[k] = IF k = p THEN v ELSE <<>>
        BY <1>10, <2>3
  <2> HIDE DEF v
  <2>5. FlattenSeq(t) = IF p \in m + 1 .. m + l THEN Joined(FlattenSeq(s), v) ELSE FlattenSeq(s)
    <3>1. Follows(t, s, m, l, v, p)
          BY <1>9, <2>4 DEF Follows
    <3> QED
        BY <1>1, <1>4, <1>12, <1>11, <2>2, <3>1, FlattenOneMore
  <2> QED
      BY <1>4, <1>6, <2>2, <2>5 DEF Joined, s, t, both, Entries, d, q, E, v
<1>14. CASE n \notin S
  <2>1. \A k \in m + 1 .. m + l : k - m \in 1 .. l
        BY <1>1, <1>4
  <2>2. \A k \in m + 1 .. m + l : t[k] = <<>>
        BY <1>1, <1>10, <1>14, <2>1
  <2>3. 0 \in Nat /\ (0 \notin m + 1 .. m + l) /\ \A k \in m + 1 .. m + l : t[k] = IF k = 0 THEN v ELSE <<>>
        BY <1>1, <1>4, <2>2
  <2> HIDE DEF v
  <2>4. FlattenSeq(t) = FlattenSeq(s)
    <3> DEFINE p == 0
    <3>1. p \in Nat /\ (p \notin m + 1 .. m + l) /\ \A k \in m + 1 .. m + l : t[k] = IF k = p THEN v ELSE <<>>
          BY <2>3
    <3> HIDE DEF p
    <3>3. Follows(t, s, m, l, v, p)
          BY <1>9, <3>1 DEF Follows
    <3>2. FlattenSeq(t) = IF p \in m + 1 .. m + l THEN Joined(FlattenSeq(s), v) ELSE FlattenSeq(s)
          BY <1>1, <1>4, <1>12, <1>11, <3>1, <3>3, FlattenOneMore
    <3> QED
        BY <3>1, <3>2
  <2>5. un[n] = <<>>
        BY <1>14
  <2>6. FlattenSeq(s) \in Seq(A)
    <3>1. PICK f \in [0 .. m -> Seq(A)] : FlattenSeq(s) = f[m]
          BY <1>4, <1>7, FlattenIs
    <3> QED
        BY <1>4, <3>1
  <2>7. FlattenSeq(s) \o un[n] = FlattenSeq(s)
    <3>1. \A w \in Seq(A) : w \o <<>> = w
          OBVIOUS
    <3> QED
        BY <2>5, <2>6, <3>1
  <2> QED
      BY <1>4, <1>6, <2>4, <2>7 DEF s, t, both, Entries, d, q, E
<1> QED
    BY <1>13, <1>14

----
(* The invariant *)

Response == [turn : Nat, node : ReplayNode, attempt : Nat, outcome : Outcome]
Responses == [ReplayNode -> Seq(Response)]

ReplayTypes ==
    /\ graphs \in Graph
    /\ phase \in {"live", "replay", "refused", "ended"}
    /\ turn \in DOMAIN graphs
    /\ heard \in [DOMAIN graphs -> Responses]
    /\ given \in [DOMAIN graphs -> Responses]
    /\ unsaved \in Responses
    /\ cursor \in Responses
    /\ trace \in Entries(Response, ReplayNode)
    /\ broken \in BOOLEAN

\* What has been recorded of a node, in the trace or not yet.
Recall(n) == Joined(Provided(n), unsaved[n])

Room(i) == i * MaxAttempts
Lengths ==
    /\ \A i \in DOMAIN graphs : \A n \in ReplayNode : Len(heard[i][n]) <= MaxAttempts /\ Len(given[i][n]) <= 1
    /\ \A n \in ReplayNode :
           /\ Len(Recall(n)) <= IF phase = "live" THEN Room(turn - 1) + Len(heard[turn][n])
                                                  ELSE Room(Len(graphs))
           /\ Len(cursor[n]) <= Room(Len(graphs))

\* Nothing is given back before the run has ended or to an execution that has not begun.
Blank ==
    \A n \in ReplayNode :
        /\ phase = "live" => cursor[n] = <<>>
        /\ phase # "live" => unsaved[n] = <<>>
        /\ \A i \in DOMAIN graphs : phase = "live" \/ i > turn => given[i][n] = <<>>

HeardOf(n) == UNION {ToSet(heard[j][n]) : j \in DOMAIN graphs}
FromRun ==
    \A n \in ReplayNode :
        /\ ToSet(Recall(n)) \union ToSet(cursor[n]) \subseteq HeardOf(n)
        /\ \A i \in DOMAIN graphs : ToSet(given[i][n]) \subseteq HeardOf(n)

\* Without a break nothing heard is missing, and of a node of one execution only it is all in order.
Disjoint == \A i, j \in DOMAIN graphs : i # j => graphs[i] \intersect graphs[j] = {}
Unbroken ==
    ~broken =>
        /\ \A i \in DOMAIN graphs : \A n \in ReplayNode : heard[i][n] # <<>> => Recall(n) # <<>>
        /\ Disjoint => \A i \in DOMAIN graphs : \A n \in graphs[i] : Recall(n) = heard[i][n]

RefusedOnly ==
    phase = "refused" => broken \/ \E i \in DOMAIN graphs : \E n \in graphs[i] : heard[i][n] = <<>>

\* A node that has not answered again in an execution has all that is known of it ahead, and there
\* is something.
Ahead ==
    phase = "replay" =>
        Idle \/ \A n \in graphs[turn] :
                    given[turn][n] = <<>> => cursor[n] = Provided(n) /\ cursor[n] # <<>>

\* In a replay a node gives its first answer, and an execution that the replay has left behind has
\* come out again, if the run can be followed.
Followed ==
    phase # "live" =>
        /\ Unmixed => \A i \in DOMAIN graphs : \A n \in graphs[i] :
                          given[i][n] = <<>> \/ given[i][n] = <<heard[i][n][1]>>
        /\ Replayable => \A i \in DOMAIN graphs : i < turn \/ phase = "ended" => Reproduced(i)

Replaying == ReplayTypes /\ Lengths /\ Blank /\ FromRun /\ Unbroken /\ RefusedOnly /\ Ahead /\ Followed

----
(* Sequences of responses *)

LEMMA JoinedIs ==
    ASSUME NEW A, NEW s \in Seq(A), NEW t \in Seq(A)
    PROVE  /\ Joined(s, t) \in Seq(A) /\ Len(Joined(s, t)) = Len(s) + Len(t)
           /\ ToSet(Joined(s, t)) = ToSet(s) \union ToSet(t)
           /\ Joined(s, <<>>) = s /\ Joined(<<>>, s) = s
           /\ Joined(s, t) = <<>> <=> s = <<>> /\ t = <<>>
<1> DEFINE u == s \o t
<1>1. u \in Seq(A) /\ Len(u) = Len(s) + Len(t) /\ Len(s) \in Nat /\ Len(t) \in Nat
      OBVIOUS
<1>2. /\ \A i \in 1 .. Len(s) : u[i] = s[i]
      /\ \A i \in 1 .. Len(t) : u[Len(s) + i] = t[i]
      /\ \A i \in 1 .. Len(s) + Len(t) : i > Len(s) => u[i] = t[i - Len(s)]
  <2>1. \A i \in 1 .. Len(s) + Len(t) : u[i] = IF i <= Len(s) THEN s[i] ELSE t[i - Len(s)]
        OBVIOUS
  <2> HIDE DEF u
  <2>2. \A i \in 1 .. Len(t) : Len(s) + i \in 1 .. Len(s) + Len(t) /\ Len(s) + i > Len(s) /\ (Len(s) + i) - Len(s) = i
        BY <1>1
  <2>3. \A i \in 1 .. Len(s) : i \in 1 .. Len(s) + Len(t) /\ i <= Len(s)
        BY <1>1
  <2>4. \A i \in 1 .. Len(s) : u[i] = s[i]
        BY <2>1, <2>3
  <2>5. ASSUME NEW i \in 1 .. Len(t) PROVE u[Len(s) + i] = t[i]
    <3>1. ~(Len(s) + i <= Len(s))
          BY <1>1
    <3> QED
        BY <2>1, <2>2, <3>1
  <2>6. ASSUME NEW i \in 1 .. Len(s) + Len(t), i > Len(s) PROVE u[i] = t[i - Len(s)]
    <3>1. ~(i <= Len(s))
          BY <1>1, <2>6
    <3> QED
        BY <2>1, <3>1
  <2> QED
      BY <2>4, <2>5, <2>6
<1>3. s \o <<>> = s /\ <<>> \o s = s
      OBVIOUS
<1>4. DOMAIN u = 1 .. Len(s) + Len(t) /\ DOMAIN s = 1 .. Len(s) /\ DOMAIN t = 1 .. Len(t)
      BY <1>1
<1>5. u = <<>> <=> s = <<>> /\ t = <<>>
  <2>1. u = <<>> => Len(u) = 0
        OBVIOUS
  <2>2. s = <<>> /\ t = <<>> => u = <<>>
        OBVIOUS
  <2>3. \A w \in Seq(A) : Len(w) = 0 => w = <<>>
        OBVIOUS
  <2> HIDE DEF u
  <2> QED
      BY <1>1, <2>1, <2>2, <2>3
<1> HIDE DEF u
<1>6. ToSet(u) = ToSet(s) \union ToSet(t)
  <2>1. ASSUME NEW x \in ToSet(u) PROVE x \in ToSet(s) \union ToSet(t)
    <3>1. PICK i \in 1 .. Len(s) + Len(t) : x = u[i]
          BY <1>4 DEF ToSet
    <3>2. CASE i <= Len(s)
          BY <1>1, <1>2, <1>4, <3>1, <3>2 DEF ToSet
    <3>3. CASE i > Len(s)
      <4>1. i - Len(s) \in 1 .. Len(t) /\ u[i] = t[i - Len(s)]
            BY <1>1, <1>2, <3>3
      <4> QED
          BY <1>4, <3>1, <4>1 DEF ToSet
    <3> QED
        BY <1>1, <3>2, <3>3
  <2>2. ASSUME NEW x \in ToSet(s) PROVE x \in ToSet(u)
    <3>1. PICK i \in 1 .. Len(s) : x = s[i]
          BY <1>4 DEF ToSet
    <3>2. i \in 1 .. Len(s) + Len(t) /\ u[i] = x
          BY <1>1, <1>2, <3>1
    <3> QED
        BY <1>4, <3>2 DEF ToSet
  <2>3. ASSUME NEW x \in ToSet(t) PROVE x \in ToSet(u)
    <3>1. PICK i \in 1 .. Len(t) : x = t[i]
          BY <1>4 DEF ToSet
    <3>2. Len(s) + i \in 1 .. Len(s) + Len(t) /\ u[Len(s) + i] = x
          BY <1>1, <1>2, <3>1
    <3> QED
        BY <1>4, <3>2 DEF ToSet
  <2> QED
      BY <2>1, <2>2, <2>3
<1> QED
    BY <1>1, <1>3, <1>5, <1>6 DEF u, Joined

LEMMA AppendIs ==
    ASSUME NEW A, NEW s \in Seq(A), NEW t \in Seq(A), NEW a \in A
    PROVE  /\ Append(t, a) \in Seq(A) /\ Len(Append(t, a)) = Len(t) + 1 /\ Append(t, a) # <<>>
           /\ ToSet(Append(t, a)) = ToSet(t) \union {a}
           /\ Joined(s, Append(t, a)) = Append(Joined(s, t), a)
<1> DEFINE u == Append(t, a)
<1>1. u \in Seq(A) /\ Len(u) = Len(t) + 1 /\ Len(t) \in Nat /\ u # <<>>
      OBVIOUS
<1>2. (\A i \in 1 .. Len(t) : u[i] = t[i]) /\ u[Len(t) + 1] = a
      OBVIOUS
<1>3. s \o Append(t, a) = Append(s \o t, a)
      OBVIOUS
<1>4. DOMAIN u = 1 .. Len(t) + 1 /\ DOMAIN t = 1 .. Len(t)
      BY <1>1
<1> HIDE DEF u
<1>5. ToSet(u) = ToSet(t) \union {a}
  <2>1. \A i \in 1 .. Len(t) + 1 : i \in 1 .. Len(t) \/ i = Len(t) + 1
        BY <1>1
  <2>2. ToSet(u) \subseteq ToSet(t) \union {a}
        BY <1>2, <1>4, <2>1 DEF ToSet
  <2>3. ToSet(t) \subseteq ToSet(u) /\ a \in ToSet(u)
        BY <1>1, <1>2, <1>4 DEF ToSet
  <2> QED
      BY <2>2, <2>3
<1> QED
    BY <1>1, <1>3, <1>5 DEF u, Joined

LEMMA HeadMoves ==
    ASSUME NEW A, NEW t \in Seq(A), t # <<>>
    PROVE  /\ Head(t) \in A /\ Head(t) \in ToSet(t) /\ Tail(t) \in Seq(A) /\ Len(Tail(t)) <= Len(t)
           /\ ToSet(Tail(t)) \subseteq ToSet(t) /\ Head(t) = t[1]
<1> DEFINE u == Tail(t)
<1>1. /\ Len(t) \in Nat \ {0} /\ DOMAIN t = 1 .. Len(t) /\ Head(t) = t[1] /\ t[1] \in A
      /\ u \in Seq(A) /\ Len(u) = Len(t) - 1 /\ DOMAIN u = 1 .. Len(t) - 1
      /\ \A i \in 1 .. Len(t) - 1 : u[i] = t[i + 1]
      OBVIOUS
<1> HIDE DEF u
<1>2. ToSet(u) \subseteq ToSet(t)
  <2>1. ASSUME NEW i \in 1 .. Len(t) - 1 PROVE u[i] \in ToSet(t)
    <3>1. i + 1 \in DOMAIN t /\ u[i] = t[i + 1]
          BY <1>1
    <3> QED
        BY <3>1 DEF ToSet
  <2>2. \A x \in ToSet(u) : \E i \in 1 .. Len(t) - 1 : x = u[i]
        BY <1>1 DEF ToSet
  <2> QED
      BY <2>1, <2>2
<1>3. Head(t) \in ToSet(t)
      BY <1>1 DEF ToSet
<1> QED
    BY <1>1, <1>2, <1>3 DEF u

LEMMA RoomIs ==
    ASSUME NEW i \in Nat
    PROVE  /\ Room(i) \in Nat /\ Room(0) = 0 /\ (i > 0 => Room(i - 1) + MaxAttempts = Room(i))
           /\ (i > 0 => MaxAttempts <= Room(i))
<1>1. MaxAttempts \in Nat
      BY AttemptsAssumption
<1>2. i * MaxAttempts \in Nat /\ 0 * MaxAttempts = 0
      BY <1>1
<1>3. (i - 1) * MaxAttempts + MaxAttempts = i * MaxAttempts
      BY <1>1
<1>4. i > 0 => (i - 1) * MaxAttempts \in Nat
  <2>1. HAVE i > 0
  <2>2. i - 1 \in Nat
        BY <2>1
  <2> QED
      BY <1>1, <2>2
<1> QED
    BY <1>1, <1>2, <1>3, <1>4 DEF Room

----
(* What the steps have in common *)

LEMMA GraphsAre ==
    ASSUME graphs \in Graph
    PROVE  /\ Len(graphs) \in Nat \ {0} /\ DOMAIN graphs = 1 .. Len(graphs)
           /\ \A i \in DOMAIN graphs : graphs[i] \subseteq ReplayNode
           /\ IsFiniteSet(ReplayNode)
<1> DEFINE m == Len(graphs)
           T == {graphs[i] : i \in DOMAIN graphs}
           X == SUBSET UNION T
           f == [i \in 1 .. m |-> graphs[i]]
<1>1. graphs # <<>> /\ graphs \in Seq(X) /\ \A i \in DOMAIN graphs : IsFiniteSet(graphs[i])
      BY GraphAssumption
<1> HIDE DEF X
<1>2. m \in Nat \ {0} /\ DOMAIN graphs = 1 .. m
      BY <1>1
<1> HIDE DEF m
<1>3. f \in Surjection(1 .. m, T)
      BY <1>2 DEF Surjection
<1>4. IsFiniteSet(1 .. m)
      BY <1>2, FS_Interval
<1>5. IsFiniteSet(T)
  <2> HIDE DEF f, T
  <2> QED
      BY <1>3, <1>4, FS_Surjection
<1>6. \A S \in T : IsFiniteSet(S)
      BY <1>1
<1>7. IsFiniteSet(UNION T)
  <2> HIDE DEF T
  <2> QED
      BY <1>5, <1>6, FS_UNION
<1>8. \A i \in DOMAIN graphs : graphs[i] \subseteq ReplayNode
      BY DEF ReplayNode
<1> QED
    BY <1>2, <1>7, <1>8 DEF ReplayNode, m

LEMMA SameGraphs ==
    ASSUME graphs' = graphs
    PROVE  /\ ReplayNode' = ReplayNode /\ Response' = Response /\ Responses' = Responses
           /\ NoAnswers' = NoAnswers /\ Disjoint' = Disjoint
<1>1. ReplayNode' = ReplayNode
      BY DEF ReplayNode
<1>2. Response' = Response
      BY <1>1 DEF Response
<1>3. Responses' = Responses
      BY <1>1, <1>2 DEF Responses
<1>4. NoAnswers' = NoAnswers
      BY <1>1 DEF NoAnswers
<1>5. Disjoint' = Disjoint
      BY DEF Disjoint
<1> QED
    BY <1>1, <1>2, <1>3, <1>4, <1>5

LEMMA ResponsesOf ==
    ASSUME NEW answers \in Responses, NEW n \in ReplayNode
    PROVE  answers[n] \in Seq(Response) /\ Len(answers[n]) \in Nat
<1> DEFINE A == Response
<1>1. answers \in [ReplayNode -> Seq(A)]
      BY DEF Responses
<1> HIDE DEF A
<1>2. answers[n] \in Seq(A)
      BY <1>1
<1>3. \A s \in Seq(A) : Len(s) \in Nat
      OBVIOUS
<1> QED
    BY <1>2, <1>3 DEF A

LEMMA NoAnswersIs ==
    NoAnswers \in Responses /\ \A n \in ReplayNode : NoAnswers[n] = <<>>
<1> DEFINE R == Seq(Response)
<1>1. <<>> \in R
      OBVIOUS
<1> HIDE DEF R
<1> QED
    BY <1>1 DEF NoAnswers, Responses, R

LEMMA ProvidedIs ==
    ASSUME ReplayTypes, NEW n \in ReplayNode
    PROVE  Provided(n) \in Seq(Response) /\ Recall(n) \in Seq(Response)
<1> DEFINE A == Response
           E == [node : ReplayNode, responses : Seq(A)]
           m == Len(trace)
           s == Of(trace, n)
           R == Seq(A)
<1>1. trace \in Seq(E)
      BY DEF ReplayTypes, Entries
<1> HIDE DEF E
<1>2. m \in Nat /\ DOMAIN trace = 1 .. m /\ \A i \in 1 .. m : trace[i] \in E
      BY <1>1
<1> HIDE DEF m
<1>3. s \in [1 .. m -> R]
  <2>1. <<>> \in R
        OBVIOUS
  <2> HIDE DEF R
  <2>2. \A i \in 1 .. m : trace[i].responses \in R
        BY <1>2 DEF E, R
  <2> QED
      BY <1>2, <2>1, <2>2 DEF Of
<1> HIDE DEF s, A
<1>4. PICK f \in [0 .. m -> Seq(A)] : FlattenSeq(s) = f[m]
      BY <1>2, <1>3, FlattenIs
<1>5. FlattenSeq(s) \in Seq(A)
      BY <1>2, <1>4
<1>6. Provided(n) \in Seq(A)
      BY <1>5 DEF Provided, Of, s
<1>7. unsaved[n] \in Seq(A)
      BY ResponsesOf DEF ReplayTypes, A
<1>8. Recall(n) \in Seq(A)
      BY <1>6, <1>7, JoinedIs DEF Recall
<1> QED
    BY <1>6, <1>8 DEF A

\* Writing to the trace what was recorded changes nothing of what is known.
LEMMA SavesRecall ==
    ASSUME ReplayTypes, graphs' = graphs, trace' = trace \o ReplayData, unsaved' = NoAnswers
    PROVE  /\ trace' \in Entries(Response, ReplayNode)
           /\ \A n \in ReplayNode : Recall(n)' = Recall(n)
<1> DEFINE A == Response
           N == ReplayNode
           d == Saved(SetToSeq(Recorders(unsaved, N)), unsaved)
<1>1. trace \in Entries(A, N) /\ unsaved \in AnswersOf(A, N)
      BY DEF ReplayTypes, Responses, AnswersOf
<1>2. IsFiniteSet(Recorders(unsaved, N))
  <2>1. IsFiniteSet(N)
        BY GraphsAre DEF ReplayTypes
  <2> QED
      BY <2>1, FS_Subset DEF Recorders
<1>3. ReplayData = d
      BY DEF ReplayData, Saved, Recorders
<1>4. ASSUME NEW n \in N
      PROVE  trace \o d \in Entries(A, N) /\ FlattenSeq(Of(trace \o d, n)) = FlattenSeq(Of(trace, n)) \o unsaved[n]
  <2> HIDE DEF A, N
  <2> QED
      BY <1>1, <1>2, SavedIsProvided
<1>5. ASSUME NEW n \in N PROVE Recall(n)' = Recall(n)
  <2>1. Provided(n) = FlattenSeq(Of(trace, n)) /\ Provided(n)' = FlattenSeq(Of(trace', n))
        BY DEF Provided, Of
  <2>2. Provided(n)' = Provided(n) \o unsaved[n]
        BY <1>3, <1>4, <2>1
  <2>3. unsaved'[n] = <<>>
        BY NoAnswersIs
  <2>4. Recall(n) \in Seq(Response)
        BY ProvidedIs
  <2>5. Recall(n)' = Joined(Recall(n), <<>>)
        BY <2>2, <2>3 DEF Recall, Joined
  <2> QED
      BY <2>4, <2>5, JoinedIs
<1>6. \E n : n \in N
  <2>1. 1 \in DOMAIN graphs /\ graphs \in Graph
        BY GraphsAre DEF ReplayTypes
  <2>2. graphs[1] # {} /\ graphs[1] \subseteq N
        BY <2>1, GraphAssumption, GraphsAre
  <2> QED
      BY <2>2
<1> QED
    BY <1>3, <1>4, <1>5, <1>6

LEMMA StillRecalls ==
    ASSUME trace' = trace, NEW n, unsaved'[n] = unsaved[n]
    PROVE  Recall(n)' = Recall(n) /\ Provided(n)' = Provided(n)
BY DEF Recall, Provided

----
(* One lemma per action *)

LEMMA AnswerReplaying ==
    ASSUME Replaying, NEW x \in ReplayNode, NEW result \in Outcome, Answer(x, result)
    PROVE  Replaying'
<1> DEFINE a == Answered(x, result)
<1>1. ReplayTypes /\ Lengths /\ Blank /\ FromRun /\ Unbroken
      BY DEF Replaying
<1>2. /\ phase = "live" /\ x \in graphs[turn] /\ MayBeCalled(heard[turn][x])
      /\ heard' = [heard EXCEPT ![turn][x] = Append(@, a)]
      /\ unsaved' = [unsaved EXCEPT ![x] = Append(@, a)]
      /\ UNCHANGED <<graphs, phase, turn, trace, broken, cursor, given>>
      BY DEF Answer
<1>3. /\ ReplayNode' = ReplayNode /\ Response' = Response /\ Responses' = Responses /\ Disjoint' = Disjoint
      /\ DOMAIN graphs' = DOMAIN graphs
      BY <1>2, SameGraphs
<1>4. DOMAIN graphs = 1 .. Len(graphs) /\ turn \in DOMAIN graphs /\ turn \in Nat \ {0} /\ Len(graphs) \in Nat
      BY <1>1, GraphsAre DEF ReplayTypes
<1>5. heard[turn] \in Responses /\ heard[turn][x] \in Seq(Response) /\ Len(heard[turn][x]) \in Nat
      BY <1>1, <1>4, ResponsesOf DEF ReplayTypes
<1>6. a \in Response
      BY <1>4, <1>5 DEF Response, Answered
<1> HIDE DEF a
<1>7. Append(heard[turn][x], a) \in Seq(Response) /\ Append(unsaved[x], a) \in Seq(Response)
      BY <1>1, <1>5, <1>6, AppendIs, ResponsesOf DEF ReplayTypes
<1>8. /\ heard' \in [DOMAIN graphs -> Responses] /\ unsaved' \in Responses
      /\ heard'[turn][x] = Append(heard[turn][x], a) /\ unsaved'[x] = Append(unsaved[x], a)
      /\ \A i \in DOMAIN graphs, n \in ReplayNode : i # turn \/ n # x => heard'[i][n] = heard[i][n]
      /\ \A n \in ReplayNode : n # x => unsaved'[n] = unsaved[n]
  <2> DEFINE R == Seq(Response)
             h == Append(heard[turn][x], a)
             u == Append(unsaved[x], a)
  <2>1. heard \in [DOMAIN graphs -> [ReplayNode -> R]] /\ unsaved \in [ReplayNode -> R]
        BY <1>1 DEF ReplayTypes, Responses
  <2>2. h \in R /\ u \in R
        BY <1>7
  <2>3. heard' = [heard EXCEPT ![turn] = [heard[turn] EXCEPT ![x] = h]] /\ unsaved' = [unsaved EXCEPT ![x] = u]
        BY <1>2
  <2> HIDE DEF R, h, u
  <2>4. /\ heard' \in [DOMAIN graphs -> [ReplayNode -> R]] /\ unsaved' \in [ReplayNode -> R]
        /\ heard'[turn][x] = h /\ unsaved'[x] = u
        /\ \A i \in DOMAIN graphs, n \in ReplayNode : i # turn \/ n # x => heard'[i][n] = heard[i][n]
        /\ \A n \in ReplayNode : n # x => unsaved'[n] = unsaved[n]
        BY <1>4, <2>1, <2>2, <2>3
  <2> QED
      BY <2>4 DEF Responses, R, h, u
<1>9. /\ Recall(x)' = Append(Recall(x), a) /\ Recall(x) \in Seq(Response)
      /\ \A n \in ReplayNode : n # x => Recall(n)' = Recall(n)
  <2>1. \A n \in ReplayNode : Provided(n)' = Provided(n)
        BY <1>2 DEF Provided
  <2>2. Provided(x) \in Seq(Response) /\ Recall(x) \in Seq(Response) /\ unsaved[x] \in Seq(Response)
        BY <1>1, ProvidedIs, ResponsesOf DEF ReplayTypes
  <2>3. Joined(Provided(x), Append(unsaved[x], a)) = Append(Joined(Provided(x), unsaved[x]), a)
        BY <1>6, <2>2, AppendIs
  <2> QED
      BY <1>8, <2>1, <2>2, <2>3 DEF Recall
<1>10. /\ Len(Recall(x)') = Len(Recall(x)) + 1 /\ Len(heard'[turn][x]) = Len(heard[turn][x]) + 1
       /\ ToSet(Recall(x)') = ToSet(Recall(x)) \union {a} /\ ToSet(heard'[turn][x]) = ToSet(heard[turn][x]) \union {a}
       /\ Recall(x)' # <<>>
  <2>1. ASSUME NEW t \in Seq(Response)
        PROVE  Len(Append(t, a)) = Len(t) + 1 /\ Append(t, a) # <<>> /\ ToSet(Append(t, a)) = ToSet(t) \union {a}
    <3> DEFINE A == Response
    <3>1. t \in Seq(A) /\ a \in A
          BY <1>6
    <3> HIDE DEF A
    <3>2. /\ Append(t, a) \in Seq(A) /\ Len(Append(t, a)) = Len(t) + 1 /\ Append(t, a) # <<>>
          /\ ToSet(Append(t, a)) = ToSet(t) \union {a}
          /\ Joined(t, Append(t, a)) = Append(Joined(t, t), a)
          BY <3>1, AppendIs
    <3> QED
        BY <3>2
  <2> QED
      BY <1>5, <1>8, <1>9, <2>1
<1>11. ReplayTypes'
  <2>1. broken' \in BOOLEAN
        BY <1>1, <1>2, Zenon DEF ReplayTypes
  <2>2. trace' \in Entries(Response, ReplayNode)
        BY <1>1, <1>2 DEF ReplayTypes
  <2> QED
      BY <1>1, <1>2, <1>3, <1>8, <2>1, <2>2 DEF ReplayTypes
<1>12. Lengths'
  <2>1. ASSUME NEW i \in DOMAIN graphs, NEW n \in ReplayNode
        PROVE  Len(heard'[i][n]) <= MaxAttempts /\ Len(given'[i][n]) <= 1
    <3>1. Len(heard[i][n]) <= MaxAttempts /\ Len(given'[i][n]) <= 1
          BY <1>1, <1>2 DEF Lengths
    <3>2. CASE i = turn /\ n = x
      <4>1. Len(heard[turn][x]) < MaxAttempts
            BY <1>2 DEF MayBeCalled
      <4> QED
          BY <1>5, <1>10, <3>1, <3>2, <4>1, AttemptsAssumption
    <3>3. CASE ~(i = turn /\ n = x)
          BY <1>8, <3>1, <3>3
    <3> QED
        BY <3>1, <3>2, <3>3
  <2>2. ASSUME NEW n \in ReplayNode
        PROVE  Len(Recall(n)') <= Room(turn' - 1) + Len(heard'[turn'][n]) /\ Len(cursor'[n]) <= Room(Len(graphs'))
    <3>1. /\ Len(Recall(n)) <= Room(turn - 1) + Len(heard[turn][n]) /\ Len(cursor'[n]) <= Room(Len(graphs'))
          /\ turn' = turn
          BY <1>1, <1>2 DEF Lengths
    <3>2. Room(turn - 1) \in Nat
      <4>1. turn - 1 \in Nat
            BY <1>4
      <4> QED
          BY <4>1, RoomIs
    <3>3. CASE n = x
      <4>1. Len(Recall(x)) \in Nat
            BY <1>9
      <4> QED
          BY <1>5, <1>10, <3>1, <3>2, <3>3, <4>1
    <3>4. CASE n # x
          BY <1>4, <1>8, <1>9, <3>1, <3>4
    <3> QED
        BY <3>3, <3>4
  <2>3. phase' = "live"
        BY <1>2
  <2> QED
      BY <1>3, <2>1, <2>2, <2>3 DEF Lengths, Room
<1>13. Blank'
       BY <1>1, <1>2, <1>3 DEF Blank
<1>14. FromRun'
  <2>1. ASSUME NEW n \in ReplayNode PROVE HeardOf(n) \subseteq HeardOf(n)'
    <3>1. \A i \in DOMAIN graphs : ToSet(heard[i][n]) \subseteq ToSet(heard'[i][n])
          BY <1>8, <1>10
    <3> QED
        BY <1>3, <3>1 DEF HeardOf
  <2>2. a \in HeardOf(x)'
        BY <1>3, <1>4, <1>10 DEF HeardOf
  <2>3. ASSUME NEW n \in ReplayNode
        PROVE  /\ ToSet(Recall(n)') \union ToSet(cursor'[n]) \subseteq HeardOf(n)'
               /\ \A i \in DOMAIN graphs : ToSet(given'[i][n]) \subseteq HeardOf(n)'
    <3>1. /\ ToSet(Recall(n)) \union ToSet(cursor[n]) \subseteq HeardOf(n)
          /\ \A i \in DOMAIN graphs : ToSet(given[i][n]) \subseteq HeardOf(n)
          BY <1>1 DEF FromRun
    <3>2. ToSet(Recall(n)') \subseteq ToSet(Recall(n)) \union HeardOf(n)'
          BY <1>9, <1>10, <2>2
    <3> QED
        BY <1>2, <2>1, <3>1, <3>2
  <2> QED
      BY <1>3, <2>3 DEF FromRun
<1>15. Unbroken'
  <2>1. SUFFICES ASSUME ~broken PROVE Unbroken'
        BY <1>2 DEF Unbroken
  <2>2. ASSUME NEW i \in DOMAIN graphs, NEW n \in ReplayNode, heard'[i][n] # <<>> PROVE Recall(n)' # <<>>
    <3>1. CASE n = x
          BY <1>10, <3>1
    <3>2. CASE n # x
          BY <1>1, <1>8, <1>9, <2>1, <2>2, <3>2 DEF Unbroken
    <3> QED
        BY <3>1, <3>2
  <2>3. ASSUME Disjoint, NEW i \in DOMAIN graphs, NEW n \in graphs[i] PROVE Recall(n)' = heard'[i][n]
    <3>1. n \in ReplayNode /\ Recall(n) = heard[i][n]
          BY <1>1, <2>1, <2>3, GraphsAre DEF Unbroken, ReplayTypes
    <3>2. CASE n = x
      <4>1. i = turn
            BY <1>2, <1>4, <2>3, <3>2 DEF Disjoint
      <4> QED
          BY <1>8, <1>9, <3>1, <3>2, <4>1
    <3>3. CASE n # x
          BY <1>8, <1>9, <3>1, <3>3
    <3> QED
        BY <3>2, <3>3
  <2> QED
      BY <1>2, <1>3, <2>2, <2>3 DEF Unbroken
<1>16. RefusedOnly' /\ Ahead' /\ Followed'
       BY <1>2 DEF RefusedOnly, Ahead, Followed
<1> QED
    BY <1>11, <1>12, <1>13, <1>14, <1>15, <1>16 DEF Replaying

\* The next execution, or the replay from the first one on.
LEMMA TurnReplaying ==
    ASSUME Replaying, phase = "live", NextTurn, UNCHANGED <<graphs, heard, cursor, given>>,
           trace' \in Entries(Response, ReplayNode), unsaved' = NoAnswers, broken' \in BOOLEAN,
           \A n \in ReplayNode : /\ Len(Recall(n)') \in Nat /\ Len(Recall(n)') <= Len(Recall(n))
                                 /\ ToSet(Recall(n)') \subseteq ToSet(Recall(n)),
           Unbroken'
    PROVE  Replaying'
<1>1. ReplayTypes /\ Lengths /\ Blank /\ FromRun /\ Unbroken
      BY DEF Replaying
<1>2. /\ ReplayNode' = ReplayNode /\ Response' = Response /\ Responses' = Responses
      /\ DOMAIN graphs' = DOMAIN graphs /\ NoAnswers' = NoAnswers
      BY SameGraphs
<1>3. /\ DOMAIN graphs = 1 .. Len(graphs) /\ turn \in DOMAIN graphs /\ turn \in Nat \ {0} /\ Len(graphs) \in Nat \ {0}
      /\ \A i \in DOMAIN graphs : graphs[i] \subseteq ReplayNode
      BY <1>1, GraphsAre DEF ReplayTypes
<1>4. \/ turn < Len(graphs) /\ turn' = turn + 1 /\ phase' = "live"
      \/ turn = Len(graphs) /\ turn' = 1 /\ phase' = "replay"
      BY <1>3 DEF NextTurn
<1>5. turn' \in DOMAIN graphs /\ phase' \in {"live", "replay"}
      BY <1>3, <1>4
<1>6. \A n \in ReplayNode : unsaved'[n] = <<>>
      BY NoAnswersIs
<1>7. ReplayTypes'
      BY <1>1, <1>2, <1>5, NoAnswersIs DEF ReplayTypes
<1>8. Lengths'
  <2>1. \A i \in DOMAIN graphs : \A n \in ReplayNode : Len(heard'[i][n]) <= MaxAttempts /\ Len(given'[i][n]) <= 1
        BY <1>1 DEF Lengths
  <2>2. ASSUME NEW n \in ReplayNode
        PROVE  /\ Len(Recall(n)') <= IF phase' = "live" THEN Room(turn' - 1) + Len(heard'[turn'][n])
                                                        ELSE Room(Len(graphs'))
               /\ Len(cursor'[n]) <= Room(Len(graphs'))
    <3>1. /\ Len(Recall(n)) <= Room(turn - 1) + Len(heard[turn][n]) /\ Len(heard[turn][n]) <= MaxAttempts
          /\ Len(cursor'[n]) <= Room(Len(graphs'))
          BY <1>1, <1>3 DEF Lengths
    <3>2. Room(turn) \in Nat /\ Room(turn - 1) + MaxAttempts = Room(turn)
          BY <1>3, RoomIs
    <3>3. Room(turn - 1) \in Nat
      <4>1. turn - 1 \in Nat
            BY <1>3
      <4> QED
          BY <4>1, RoomIs
    <3>4. Len(heard[turn][n]) \in Nat /\ Len(Recall(n)) \in Nat
      <4>1. heard[turn] \in Responses
            BY <1>1 DEF ReplayTypes
      <4>2. Recall(n) \in Seq(Response)
            BY <1>1, ProvidedIs
      <4> DEFINE A == Response
                 r == Recall(n)
      <4>3. r \in Seq(A)
            BY <4>2
      <4> HIDE DEF A, r
      <4>4. Len(r) \in Nat
            BY <4>3
      <4> QED
          BY <4>1, <4>4, ResponsesOf DEF r
    <3>5. Len(Recall(n)') <= Room(turn)
          BY <3>1, <3>2, <3>3, <3>4, AttemptsAssumption
    <3>6. CASE phase' = "live"
      <4>1. turn' \in DOMAIN graphs /\ turn' - 1 = turn
            BY <1>3, <1>4, <3>6
      <4>2. Len(heard[turn'][n]) \in Nat
        <5>1. heard[turn'] \in Responses
              BY <1>1, <4>1 DEF ReplayTypes
        <5> QED
            BY <5>1, ResponsesOf
      <4> QED
          BY <3>1, <3>2, <3>5, <3>6, <4>1, <4>2
    <3>7. CASE phase' # "live"
          BY <1>4, <3>1, <3>5, <3>7
    <3> QED
        BY <3>6, <3>7
  <2> QED
      BY <1>2, <2>1, <2>2 DEF Lengths, Room
<1>9. Blank'
      BY <1>1, <1>2, <1>6 DEF Blank
<1>10. FromRun'
  <2>1. \A n \in ReplayNode : HeardOf(n)' = HeardOf(n)
        BY <1>2 DEF HeardOf
  <2> QED
      BY <1>1, <1>2, <2>1 DEF FromRun
<1>11. RefusedOnly'
       BY <1>5 DEF RefusedOnly
<1>12. Ahead' /\ Followed'
  <2>1. SUFFICES ASSUME phase' # "live" PROVE Ahead' /\ Followed'
        BY DEF Ahead, Followed
  <2>2. turn' = 1 /\ phase' = "replay"
        BY <1>4, <2>1
  <2>3. \A i \in DOMAIN graphs : \A n \in ReplayNode : given'[i][n] = <<>> /\ cursor'[n] = <<>>
        BY <1>1 DEF Blank
  <2>4. Idle'
        BY <1>2, <1>3, <1>5, <2>3 DEF Idle
  <2>5. \A i \in DOMAIN graphs : ~(i < turn' \/ phase' = "ended")
        BY <1>3, <2>2
  <2>6. \A i \in DOMAIN graphs : \A n \in graphs[i] : given'[i][n] = <<>>
        BY <1>3, <2>3
  <2> QED
      BY <1>2, <2>4, <2>5, <2>6 DEF Ahead, Followed
<1> QED
    BY <1>7, <1>8, <1>9, <1>10, <1>11, <1>12 DEF Replaying

LEMMA RecallLength ==
    ASSUME ReplayTypes, NEW n \in ReplayNode
    PROVE  Len(Recall(n)) \in Nat /\ Len(Provided(n)) \in Nat /\ Len(Provided(n)) <= Len(Recall(n))
<1> DEFINE A == Response
           r == Provided(n)
           u == unsaved[n]
<1>1. r \in Seq(A) /\ u \in Seq(A)
  <2>1. unsaved \in Responses
        BY DEF ReplayTypes
  <2>2. u \in Seq(Response)
        BY <2>1, ResponsesOf
  <2>3. r \in Seq(Response)
        BY ProvidedIs
  <2> HIDE DEF r, u
  <2> QED
      BY <2>2, <2>3
<1> HIDE DEF A, r, u
<1>2. \A s \in Seq(A) : Len(s) \in Nat
      OBVIOUS
<1>3. Len(r) \in Nat /\ Len(u) \in Nat
      BY <1>1, <1>2
<1>4. Len(Joined(r, u)) = Len(r) + Len(u)
      BY <1>1, JoinedIs, Zenon
<1> QED
    BY <1>3, <1>4 DEF Recall, r, u

LEMMA EndReplaying ==
    ASSUME Replaying, EndExecute
    PROVE  Replaying'
<1>1. ReplayTypes /\ Unbroken
      BY DEF Replaying
<1>2. /\ phase = "live" /\ MayEnd /\ trace' = trace \o ReplayData /\ unsaved' = NoAnswers /\ NextTurn
      /\ UNCHANGED <<graphs, heard, broken, cursor, given>>
      BY DEF EndExecute
<1>3. trace' \in Entries(Response, ReplayNode) /\ \A n \in ReplayNode : Recall(n)' = Recall(n)
      BY <1>1, <1>2, SavesRecall
<1>4. /\ DOMAIN graphs = 1 .. Len(graphs) /\ turn \in DOMAIN graphs /\ Len(graphs) \in Nat
      /\ \A i \in DOMAIN graphs : graphs[i] \subseteq ReplayNode
      BY <1>1, GraphsAre DEF ReplayTypes
<1>5. Unbroken'
  <2>1. SUFFICES ASSUME ~broken PROVE Unbroken'
        BY <1>2 DEF Unbroken
  <2>2. ReplayNode' = ReplayNode /\ Disjoint' = Disjoint
        BY <1>2, SameGraphs
  <2>4. \A i \in DOMAIN graphs : \A n \in ReplayNode : heard[i][n] # <<>> => Recall(n)' # <<>>
        BY <1>1, <1>3, <2>1 DEF Unbroken
  <2>5. Disjoint => \A i \in DOMAIN graphs : \A n \in graphs[i] : Recall(n)' = heard[i][n]
        BY <1>1, <1>3, <1>4, <2>1 DEF Unbroken
  <2> QED
      BY <1>2, <2>2, <2>4, <2>5 DEF Unbroken
<1>6. broken' \in BOOLEAN
      BY <1>1, <1>2, Zenon DEF ReplayTypes
<1>7. \A n \in ReplayNode : /\ Len(Recall(n)') \in Nat /\ Len(Recall(n)') <= Len(Recall(n))
                            /\ ToSet(Recall(n)') \subseteq ToSet(Recall(n))
  <2> TAKE n \in ReplayNode
  <2>1. Len(Recall(n)) \in Nat
        BY <1>1, RecallLength
  <2> QED
      BY <1>3, <2>1
<1> QED
    BY <1>2, <1>3, <1>5, <1>6, <1>7, TurnReplaying

LEMMA BreakReplaying ==
    ASSUME Replaying, BreakExecute
    PROVE  Replaying'
<1>1. ReplayTypes
      BY DEF Replaying
<1>2. /\ phase = "live" /\ unsaved' = NoAnswers /\ broken' = TRUE /\ NextTurn
      /\ UNCHANGED <<graphs, heard, trace, cursor, given>>
      BY DEF BreakExecute
<1>3. trace' \in Entries(Response, ReplayNode)
      BY <1>1, <1>2 DEF ReplayTypes
<1>4. ASSUME NEW n \in ReplayNode
      PROVE  /\ Len(Recall(n)') \in Nat /\ Len(Recall(n)') <= Len(Recall(n))
             /\ ToSet(Recall(n)') \subseteq ToSet(Recall(n))
  <2> DEFINE r == Provided(n)
             u == unsaved[n]
  <2>1. r \in Seq(Response) /\ u \in Seq(Response) /\ Len(r) \in Nat /\ Len(r) <= Len(Recall(n))
        BY <1>1, ProvidedIs, ResponsesOf, RecallLength DEF ReplayTypes
  <2>2. Recall(n)' = Joined(r, <<>>)
        BY <1>2, NoAnswersIs DEF Recall, Provided
  <2> HIDE DEF r, u
  <2>3. Joined(r, <<>>) = r /\ ToSet(Joined(r, u)) = ToSet(r) \union ToSet(u)
        BY <2>1, JoinedIs
  <2> QED
      BY <2>1, <2>2, <2>3 DEF Recall, r, u
<1>5. Unbroken' /\ broken' \in BOOLEAN
      BY <1>2 DEF Unbroken
<1> QED
    BY <1>2, <1>3, <1>4, <1>5, TurnReplaying

LEMMA PauseReplaying ==
    ASSUME Replaying, PauseExecute
    PROVE  Replaying'
<1>1. ReplayTypes /\ Lengths /\ Blank /\ FromRun /\ Unbroken
      BY DEF Replaying
<1>2. /\ phase = "live" /\ trace' = trace \o ReplayData /\ unsaved' = NoAnswers
      /\ UNCHANGED <<graphs, phase, turn, heard, broken, cursor, given>>
      BY DEF PauseExecute
<1>3. trace' \in Entries(Response, ReplayNode) /\ \A n \in ReplayNode : Recall(n)' = Recall(n)
      BY <1>1, <1>2, SavesRecall
<1>4. /\ ReplayNode' = ReplayNode /\ Response' = Response /\ Responses' = Responses /\ Disjoint' = Disjoint
      /\ DOMAIN graphs' = DOMAIN graphs
      BY <1>2, SameGraphs
<1>5. /\ turn \in DOMAIN graphs /\ \A i \in DOMAIN graphs : graphs[i] \subseteq ReplayNode
      BY <1>1, GraphsAre DEF ReplayTypes
<1>6. ReplayTypes'
  <2>1. broken' \in BOOLEAN
        BY <1>1, <1>2, Zenon DEF ReplayTypes
  <2> QED
      BY <1>1, <1>2, <1>3, <1>4, <2>1, NoAnswersIs DEF ReplayTypes
<1>7. Lengths'
  <2>1. \A i \in DOMAIN graphs : \A n \in ReplayNode : Len(heard'[i][n]) <= MaxAttempts /\ Len(given'[i][n]) <= 1
        BY <1>1, <1>2 DEF Lengths
  <2>2. \A n \in ReplayNode :
           /\ Len(Recall(n)') <= IF phase' = "live" THEN Room(turn' - 1) + Len(heard'[turn'][n])
                                                    ELSE Room(Len(graphs'))
           /\ Len(cursor'[n]) <= Room(Len(graphs'))
        BY <1>1, <1>2, <1>3 DEF Lengths
  <2> QED
      BY <1>4, <2>1, <2>2 DEF Lengths, Room
<1>8. Blank'
      BY <1>1, <1>2, <1>4 DEF Blank
<1>9. FromRun'
  <2>1. \A n \in ReplayNode : HeardOf(n)' = HeardOf(n)
        BY <1>2, <1>4 DEF HeardOf
  <2> QED
      BY <1>1, <1>2, <1>3, <1>4, <2>1 DEF FromRun
<1>10. Unbroken'
  <2>1. SUFFICES ASSUME ~broken PROVE Unbroken'
        BY <1>2 DEF Unbroken
  <2>2. \A i \in DOMAIN graphs : \A n \in ReplayNode : heard'[i][n] # <<>> => Recall(n)' # <<>>
        BY <1>1, <1>2, <1>3, <2>1 DEF Unbroken
  <2>3. Disjoint => \A i \in DOMAIN graphs : \A n \in graphs[i] : Recall(n)' = heard'[i][n]
        BY <1>1, <1>2, <1>3, <1>5, <2>1 DEF Unbroken
  <2> QED
      BY <1>2, <1>4, <2>2, <2>3 DEF Unbroken
<1>11. RefusedOnly' /\ Ahead' /\ Followed'
       BY <1>2 DEF RefusedOnly, Ahead, Followed
<1> QED
    BY <1>6, <1>7, <1>8, <1>9, <1>10, <1>11 DEF Replaying

\* A step of the replay leaves the run alone.
LEMMA StepReplaying ==
    ASSUME Replaying, phase = "replay", UNCHANGED <<graphs, heard, unsaved, trace, broken>>,
           phase' \in {"replay", "refused", "ended"}, turn' \in DOMAIN graphs, turn' >= turn,
           cursor' \in Responses, given' \in [DOMAIN graphs -> Responses],
           \A n \in ReplayNode : ToSet(cursor'[n]) \subseteq HeardOf(n) /\ Len(cursor'[n]) <= Room(Len(graphs)),
           \A i \in DOMAIN graphs : \A n \in ReplayNode :
               /\ ToSet(given'[i][n]) \subseteq HeardOf(n) /\ Len(given'[i][n]) <= 1
               /\ i > turn' => given'[i][n] = <<>>,
           RefusedOnly', Ahead', Followed'
    PROVE  Replaying'
<1>1. ReplayTypes /\ Lengths /\ Blank /\ FromRun /\ Unbroken
      BY DEF Replaying
<1>2. /\ ReplayNode' = ReplayNode /\ Response' = Response /\ Responses' = Responses /\ Disjoint' = Disjoint
      /\ DOMAIN graphs' = DOMAIN graphs
      BY SameGraphs
<1>3. \A n \in ReplayNode : Recall(n)' = Recall(n) /\ HeardOf(n)' = HeardOf(n)
      BY DEF Recall, Provided, HeardOf
<1>4. ReplayTypes'
  <2>1. broken' \in BOOLEAN
        BY <1>1, Zenon DEF ReplayTypes
  <2>2. trace' \in Entries(Response, ReplayNode) /\ unsaved' \in Responses /\ heard' \in [DOMAIN graphs -> Responses]
        BY <1>1 DEF ReplayTypes
  <2> QED
      BY <1>1, <1>2, <2>1, <2>2 DEF ReplayTypes
<1>5. Lengths'
  <2>1. \A i \in DOMAIN graphs : \A n \in ReplayNode : Len(heard'[i][n]) <= MaxAttempts /\ Len(given'[i][n]) <= 1
        BY <1>1 DEF Lengths
  <2>2. \A n \in ReplayNode : Len(Recall(n)') <= Room(Len(graphs')) /\ Len(cursor'[n]) <= Room(Len(graphs'))
        BY <1>1, <1>3 DEF Lengths
  <2>3. phase' # "live"
        OBVIOUS
  <2> QED
      BY <1>2, <2>1, <2>2, <2>3 DEF Lengths, Room
<1>6. Blank'
      BY <1>1, <1>2 DEF Blank
<1>7. FromRun'
      BY <1>1, <1>2, <1>3 DEF FromRun
<1>8. Unbroken'
  <2>1. SUFFICES ASSUME ~broken PROVE Unbroken'
        BY DEF Unbroken
  <2>2. \A i \in DOMAIN graphs : \A n \in ReplayNode : heard'[i][n] # <<>> => Recall(n)' # <<>>
        BY <1>1, <1>3, <2>1 DEF Unbroken
  <2>3. Disjoint => \A i \in DOMAIN graphs : \A n \in graphs[i] : Recall(n)' = heard'[i][n]
    <3>1. \A i \in DOMAIN graphs : graphs[i] \subseteq ReplayNode
          BY <1>1, GraphsAre DEF ReplayTypes
    <3> QED
        BY <1>1, <1>3, <2>1, <3>1 DEF Unbroken
  <2> QED
      BY <1>2, <2>2, <2>3 DEF Unbroken
<1> QED
    BY <1>4, <1>5, <1>6, <1>7, <1>8 DEF Replaying

\* In a replay the list of responses is all that is known of a node.
LEMMA AllProvided ==
    ASSUME ReplayTypes, Blank, phase # "live", NEW n \in ReplayNode
    PROVE  Provided(n) = Recall(n)
<1>1. unsaved[n] = <<>>
      BY DEF Blank
<1>2. Provided(n) \in Seq(Response)
      BY ProvidedIs
<1> QED
    BY <1>1, <1>2, JoinedIs DEF Recall

LEMMA InjectReplaying ==
    ASSUME Replaying, Inject
    PROVE  Replaying'
<1>1. ReplayTypes /\ Lengths /\ Blank /\ FromRun /\ Unbroken /\ Followed
      BY DEF Replaying
<1>2. phase = "replay" /\ Idle /\ UNCHANGED <<graphs, turn, heard, unsaved, trace, broken, given>>
      BY DEF Inject
<1>3. /\ turn \in DOMAIN graphs /\ turn \in Nat /\ \A i \in DOMAIN graphs : graphs[i] \subseteq ReplayNode
      BY <1>1, GraphsAre DEF ReplayTypes
<1>4. ReplayNode' = ReplayNode /\ Disjoint' = Disjoint
      BY <1>2, SameGraphs
<1>5. \A n \in ReplayNode : Provided(n) = Recall(n)
      BY <1>1, <1>2, AllProvided
<1>6. \A i \in DOMAIN graphs : \A n \in ReplayNode :
          /\ ToSet(given'[i][n]) \subseteq HeardOf(n) /\ Len(given'[i][n]) <= 1
          /\ i > turn' => given'[i][n] = <<>>
      BY <1>1, <1>2 DEF FromRun, Lengths, Blank
<1>7. given' \in [DOMAIN graphs -> Responses] /\ turn' \in DOMAIN graphs /\ turn' >= turn
      BY <1>1, <1>2, <1>3 DEF ReplayTypes
<1>8. CASE \E n \in graphs[turn] : Provided(n) = <<>>
  <2>1. phase' = "refused" /\ cursor' = cursor
        BY <1>8 DEF Inject
  <2>2. broken \/ \E i \in DOMAIN graphs : \E n \in graphs[i] : heard[i][n] = <<>>
    <3>1. SUFFICES ASSUME ~broken PROVE \E i \in DOMAIN graphs : \E n \in graphs[i] : heard[i][n] = <<>>
          OBVIOUS
    <3>2. PICK n \in graphs[turn] : Recall(n) = <<>> /\ n \in ReplayNode
          BY <1>3, <1>5, <1>8
    <3>3. heard[turn][n] = <<>>
          BY <1>1, <1>3, <3>1, <3>2 DEF Unbroken
    <3> QED
        BY <1>3, <3>3
  <2>3. RefusedOnly'
        BY <1>2, <2>2 DEF RefusedOnly
  <2>4. Ahead' /\ Followed'
    <3>1. (Unmixed' <=> Unmixed) /\ (Replayable' <=> Replayable)
          BY <1>2 DEF Unmixed, Replayable
    <3>2. \A i : Reproduced(i)' <=> Reproduced(i)
          BY <1>2 DEF Reproduced
    <3> QED
        BY <1>1, <1>2, <2>1, <3>1, <3>2 DEF Ahead, Followed
  <2>5. \A n \in ReplayNode : ToSet(cursor'[n]) \subseteq HeardOf(n) /\ Len(cursor'[n]) <= Room(Len(graphs))
        BY <1>1, <2>1 DEF FromRun, Lengths
  <2>6. cursor' \in Responses /\ phase' \in {"replay", "refused", "ended"}
        BY <1>1, <2>1 DEF ReplayTypes
  <2> QED
      BY <1>2, <1>6, <1>7, <2>3, <2>4, <2>5, <2>6, StepReplaying
<1>9. CASE ~\E n \in graphs[turn] : Provided(n) = <<>>
  <2>1. phase' = "replay" /\ cursor' = [n \in ReplayNode |-> IF n \in graphs[turn] THEN Provided(n) ELSE <<>>]
        BY <1>2, <1>9 DEF Inject
  <2>2. cursor' \in Responses
    <3> DEFINE R == Seq(Response)
    <3>1. <<>> \in R /\ \A n \in ReplayNode : Provided(n) \in R
          BY <1>1, ProvidedIs
    <3> HIDE DEF R
    <3> QED
        BY <2>1, <3>1 DEF Responses, R
  <2>3. \A n \in ReplayNode : ToSet(cursor'[n]) \subseteq HeardOf(n) /\ Len(cursor'[n]) <= Room(Len(graphs))
    <3>1. SUFFICES ASSUME NEW n \in ReplayNode
                   PROVE  ToSet(cursor'[n]) \subseteq HeardOf(n) /\ Len(cursor'[n]) <= Room(Len(graphs))
          OBVIOUS
    <3>2. CASE n \in graphs[turn]
      <4>1. cursor'[n] = Recall(n)
            BY <1>5, <2>1, <3>2
      <4> QED
          BY <1>1, <1>2, <4>1 DEF FromRun, Lengths
    <3>3. CASE n \notin graphs[turn]
      <4>1. cursor'[n] = <<>>
            BY <2>1, <3>3
      <4>2. ToSet(<<>>) = {} /\ Len(<<>>) = 0
            BY DEF ToSet
      <4>3. Room(Len(graphs)) \in Nat
            BY <1>1, GraphsAre, RoomIs DEF ReplayTypes
      <4> QED
          BY <4>1, <4>2, <4>3
    <3> QED
        BY <3>2, <3>3
  <2>4. RefusedOnly'
        BY <2>1 DEF RefusedOnly
  <2>5. Ahead' /\ Followed'
    <3>1. (Unmixed' <=> Unmixed) /\ (Replayable' <=> Replayable)
          BY <1>2 DEF Unmixed, Replayable
    <3>2. \A i : Reproduced(i)' <=> Reproduced(i)
          BY <1>2 DEF Reproduced
    <3>3. Followed'
          BY <1>1, <1>2, <2>1, <3>1, <3>2 DEF Followed
    <3>4. \A n \in ReplayNode : Provided(n)' = Provided(n)
          BY <1>2 DEF Provided
    <3>5. \A n \in graphs[turn] : cursor'[n] = Provided(n)' /\ cursor'[n] # <<>>
          BY <1>3, <1>9, <2>1, <3>4
    <3> QED
        BY <1>2, <3>3, <3>5 DEF Ahead
  <2>6. phase' \in {"replay", "refused", "ended"}
        BY <2>1
  <2> QED
      BY <1>2, <1>6, <1>7, <2>2, <2>3, <2>4, <2>5, <2>6, StepReplaying
<1> QED
    BY <1>8, <1>9

LEMMA RepeatReplaying ==
    ASSUME Replaying, NEW x \in ReplayNode, Repeat(x)
    PROVE  Replaying'
<1> DEFINE c == cursor[x]
           r == Head(c)
<1>1. ReplayTypes /\ Lengths /\ Blank /\ FromRun /\ Unbroken /\ Ahead /\ Followed
      BY DEF Replaying
<1>2. /\ phase = "replay" /\ ~Idle /\ x \in graphs[turn] /\ given[turn][x] = <<>>
      /\ given' = [given EXCEPT ![turn][x] = <<IF cursor[x] = <<>> THEN Exhausted(x) ELSE Head(cursor[x])>>]
      /\ cursor' = IF cursor[x] = <<>> THEN cursor ELSE [cursor EXCEPT ![x] = Tail(@)]
      /\ UNCHANGED <<graphs, phase, turn, heard, unsaved, trace, broken>>
      BY DEF Repeat
<1>3. /\ turn \in DOMAIN graphs /\ turn \in Nat /\ \A i \in DOMAIN graphs : graphs[i] \subseteq ReplayNode
      BY <1>1, GraphsAre DEF ReplayTypes
\* The responses do not run out.
<1>4. c = Provided(x) /\ c # <<>> /\ c \in Seq(Response)
      BY <1>1, <1>2, ProvidedIs DEF Ahead
<1>5. /\ r \in Response /\ r \in HeardOf(x) /\ r = c[1] /\ Tail(c) \in Seq(Response)
      /\ Len(Tail(c)) <= Len(c) /\ Len(Tail(c)) \in Nat /\ Len(c) \in Nat /\ ToSet(Tail(c)) \subseteq HeardOf(x)
  <2> DEFINE A == Response
  <2>1. c \in Seq(A) /\ ToSet(c) \subseteq HeardOf(x)
        BY <1>1, <1>4 DEF FromRun
  <2> HIDE DEF A, c
  <2>2. /\ Head(c) \in A /\ Head(c) \in ToSet(c) /\ Tail(c) \in Seq(A) /\ Len(Tail(c)) <= Len(c)
        /\ ToSet(Tail(c)) \subseteq ToSet(c) /\ Head(c) = c[1]
        BY <1>4, <2>1, HeadMoves
  <2>3. \A s \in Seq(A) : Len(s) \in Nat
        OBVIOUS
  <2> QED
      BY <2>1, <2>2, <2>3 DEF A
<1>6. given' = [given EXCEPT ![turn][x] = <<r>>] /\ cursor' = [cursor EXCEPT ![x] = Tail(c)]
      BY <1>2, <1>4
<1>7. <<r>> \in Seq(Response) /\ Len(<<r>>) = 1 /\ ToSet(<<r>>) = {r} /\ <<r>> # <<>>
  <2> DEFINE A == Response
             g == <<r>>
  <2> HIDE DEF A, r
  <2>1. r \in A
        BY <1>5 DEF A
  <2>2. g \in Seq(A) /\ Len(g) = 1 /\ g # <<>> /\ DOMAIN g = {1} /\ g[1] = r
        BY <2>1
  <2> HIDE DEF g
  <2>3. ToSet(g) = {r}
        BY <2>2 DEF ToSet
  <2> QED
      BY <2>2, <2>3 DEF A, g
<1> HIDE DEF c, r
<1>8. /\ given' \in [DOMAIN graphs -> Responses] /\ cursor' \in Responses
      /\ given'[turn][x] = <<r>> /\ cursor'[x] = Tail(c)
      /\ \A i \in DOMAIN graphs, n \in ReplayNode : i # turn \/ n # x => given'[i][n] = given[i][n]
      /\ \A n \in ReplayNode : n # x => cursor'[n] = cursor[n]
  <2> DEFINE R == Seq(Response)
             h == <<r>>
             u == Tail(c)
  <2>1. given \in [DOMAIN graphs -> [ReplayNode -> R]] /\ cursor \in [ReplayNode -> R]
        BY <1>1 DEF ReplayTypes, Responses
  <2>2. h \in R /\ u \in R
        BY <1>5, <1>7
  <2>3. given' = [given EXCEPT ![turn] = [given[turn] EXCEPT ![x] = h]] /\ cursor' = [cursor EXCEPT ![x] = u]
        BY <1>6
  <2> HIDE DEF R, h, u
  <2>4. /\ given' \in [DOMAIN graphs -> [ReplayNode -> R]] /\ cursor' \in [ReplayNode -> R]
        /\ given'[turn][x] = h /\ cursor'[x] = u
        /\ \A i \in DOMAIN graphs, n \in ReplayNode : i # turn \/ n # x => given'[i][n] = given[i][n]
        /\ \A n \in ReplayNode : n # x => cursor'[n] = cursor[n]
        BY <1>3, <2>1, <2>2, <2>3
  <2> QED
      BY <2>4 DEF Responses, R, h, u
<1>9. \A n \in ReplayNode : ToSet(cursor'[n]) \subseteq HeardOf(n) /\ Len(cursor'[n]) <= Room(Len(graphs))
  <2>1. SUFFICES ASSUME NEW n \in ReplayNode
                 PROVE  ToSet(cursor'[n]) \subseteq HeardOf(n) /\ Len(cursor'[n]) <= Room(Len(graphs))
        OBVIOUS
  <2>2. ToSet(cursor[n]) \subseteq HeardOf(n) /\ Len(cursor[n]) <= Room(Len(graphs))
        BY <1>1 DEF FromRun, Lengths
  <2>3. Room(Len(graphs)) \in Nat
        BY <1>1, GraphsAre, RoomIs DEF ReplayTypes
  <2>4. CASE n # x
        BY <1>8, <2>2, <2>4
  <2>5. CASE n = x
    <3>1. Len(c) <= Room(Len(graphs))
          BY <2>2, <2>5 DEF c
    <3>2. cursor'[n] = Tail(c) /\ ToSet(Tail(c)) \subseteq HeardOf(n)
          BY <1>5, <1>8, <2>5
    <3> DEFINE b == Room(Len(graphs))
               k == Len(Tail(c))
    <3>3. k \in Nat /\ Len(c) \in Nat /\ b \in Nat /\ k <= Len(c) /\ Len(c) <= b
          BY <1>5, <2>3, <3>1
    <3> HIDE DEF b, k
    <3>4. k <= b
          BY <3>3
    <3> QED
        BY <3>2, <3>4 DEF b, k
  <2> QED
      BY <2>4, <2>5
<1>10. \A i \in DOMAIN graphs : \A n \in ReplayNode :
          /\ ToSet(given'[i][n]) \subseteq HeardOf(n) /\ Len(given'[i][n]) <= 1
          /\ i > turn' => given'[i][n] = <<>>
  <2>1. SUFFICES ASSUME NEW i \in DOMAIN graphs, NEW n \in ReplayNode
                 PROVE  /\ ToSet(given'[i][n]) \subseteq HeardOf(n) /\ Len(given'[i][n]) <= 1
                        /\ i > turn => given'[i][n] = <<>>
        BY <1>2
  <2>2. /\ ToSet(given[i][n]) \subseteq HeardOf(n) /\ Len(given[i][n]) <= 1
        /\ i > turn => given[i][n] = <<>>
        BY <1>1 DEF FromRun, Lengths, Blank
  <2>3. CASE i = turn /\ n = x
    <3>1. given'[i][n] = <<r>> /\ ~(i > turn)
          BY <1>3, <1>8, <2>3
    <3>2. r \in HeardOf(n)
          BY <1>5, <2>3
    <3> QED
        BY <1>7, <3>1, <3>2
  <2>4. CASE i # turn \/ n # x
        BY <1>8, <2>2, <2>4
  <2> QED
      BY <2>3, <2>4
<1>11. RefusedOnly'
       BY <1>2 DEF RefusedOnly
<1>12. Ahead'
  <2>1. \A n : Provided(n)' = Provided(n)
        BY <1>2 DEF Provided
  <2>2. ASSUME NEW n \in graphs[turn], given'[turn][n] = <<>>
        PROVE  cursor'[n] = Provided(n) /\ cursor'[n] # <<>>
    <3>1. n # x /\ n \in ReplayNode
          BY <1>3, <1>7, <1>8, <2>2
    <3>2. given[turn][n] = <<>> /\ cursor'[n] = cursor[n]
          BY <1>3, <1>8, <2>2, <3>1
    <3> QED
        BY <1>1, <1>2, <3>2 DEF Ahead
  <2> QED
      BY <1>2, <2>1, <2>2 DEF Ahead
<1>13. Followed'
  <2>1. (Unmixed' <=> Unmixed) /\ (Replayable' <=> Replayable)
        BY <1>2 DEF Unmixed, Replayable
  <2>2. ASSUME Unmixed, NEW i \in DOMAIN graphs, NEW n \in graphs[i]
        PROVE  given'[i][n] = <<>> \/ given'[i][n] = <<heard[i][n][1]>>
    <3>1. n \in ReplayNode
          BY <1>3
    <3>2. CASE i = turn /\ n = x
      <4>1. c = heard[turn][x]
            BY <1>1, <1>2, <1>3, <1>4, <2>2, AllProvided DEF Unbroken, Unmixed, Disjoint
      <4> QED
          BY <1>5, <1>8, <3>2, <4>1
    <3>3. CASE i # turn \/ n # x
          BY <1>1, <1>2, <1>8, <2>2, <3>1, <3>3 DEF Followed
    <3> QED
        BY <3>2, <3>3
  <2>3. ASSUME Replayable, NEW i \in DOMAIN graphs, i < turn PROVE Reproduced(i)'
    <3>1. Reproduced(i) /\ i # turn
          BY <1>1, <1>2, <1>3, <2>3 DEF Followed
    <3> QED
        BY <1>2, <1>3, <1>8, <3>1 DEF Reproduced
  <2> QED
      BY <1>2, <2>1, <2>2, <2>3 DEF Followed
<1>14. phase' \in {"replay", "refused", "ended"} /\ turn' \in DOMAIN graphs /\ turn' >= turn
       BY <1>2, <1>3
<1> QED
    BY <1>2, <1>8, <1>9, <1>10, <1>11, <1>12, <1>13, <1>14, StepReplaying

LEMMA EndRepeatReplaying ==
    ASSUME Replaying, EndRepeat
    PROVE  Replaying'
<1>1. ReplayTypes /\ Lengths /\ Blank /\ FromRun /\ Unbroken /\ Followed
      BY DEF Replaying
<1>2. /\ phase = "replay" /\ ~Idle /\ cursor' = NoAnswers
      /\ \A n \in graphs[turn] : given[turn][n] # <<>> \/ ~CalledThen(n) \/ Differs
      /\ UNCHANGED <<graphs, heard, unsaved, trace, broken, given>>
      /\ IF turn < Len(graphs) /\ Reproduced(turn)
         THEN turn' = turn + 1 /\ phase' = phase
         ELSE phase' = "ended" /\ turn' = turn
      BY DEF EndRepeat
<1>3. /\ turn \in DOMAIN graphs /\ turn \in Nat /\ \A i \in DOMAIN graphs : graphs[i] \subseteq ReplayNode
      /\ DOMAIN graphs = 1 .. Len(graphs) /\ Len(graphs) \in Nat
      BY <1>1, GraphsAre DEF ReplayTypes
<1>4. /\ phase' \in {"replay", "refused", "ended"} /\ turn' \in DOMAIN graphs /\ turn' >= turn
      /\ phase' = "replay" => turn' = turn + 1 /\ Reproduced(turn)
      /\ phase' = "ended" => turn' = turn /\ ~(turn < Len(graphs) /\ Reproduced(turn))
      BY <1>2, <1>3
<1>5. RefusedOnly'
      BY <1>2 DEF RefusedOnly
<1>6. \A n \in ReplayNode : cursor'[n] = <<>>
      BY <1>2, NoAnswersIs
<1>7. \A n \in ReplayNode : ToSet(cursor'[n]) \subseteq HeardOf(n) /\ Len(cursor'[n]) <= Room(Len(graphs))
  <2>1. ToSet(<<>>) = {} /\ Len(<<>>) = 0
        BY DEF ToSet
  <2>2. Room(Len(graphs)) \in Nat
        BY <1>3, RoomIs
  <2> QED
      BY <1>6, <2>1, <2>2
<1>8. \A i \in DOMAIN graphs : \A n \in ReplayNode :
          /\ ToSet(given'[i][n]) \subseteq HeardOf(n) /\ Len(given'[i][n]) <= 1
          /\ i > turn' => given'[i][n] = <<>>
  <2>1. \A i \in DOMAIN graphs : i > turn' => i > turn
        BY <1>3, <1>4
  <2> QED
      BY <1>1, <1>2, <2>1 DEF FromRun, Lengths, Blank
<1>9. given' \in [DOMAIN graphs -> Responses] /\ cursor' \in Responses
      BY <1>1, <1>2, NoAnswersIs DEF ReplayTypes
<1>10. Ahead'
  <2>1. SUFFICES ASSUME phase' = "replay" PROVE Idle'
        BY DEF Ahead
  <2>2. turn' = turn + 1 /\ turn' \in DOMAIN graphs /\ turn' > turn
        BY <1>3, <1>4, <2>1
  <2>3. ReplayNode' = ReplayNode
        BY <1>2, SameGraphs
  <2>4. \A n \in ReplayNode : given'[turn'][n] = <<>>
        BY <1>1, <1>2, <2>2 DEF Blank
  <2> QED
      BY <1>6, <2>3, <2>4 DEF Idle
<1>11. Followed'
  <2>1. (Unmixed' <=> Unmixed) /\ (Replayable' <=> Replayable)
        BY <1>2 DEF Unmixed, Replayable
  <2>2. \A i : Reproduced(i)' <=> Reproduced(i)
        BY <1>2 DEF Reproduced
\* A first answer that is the only one is what the run heard, so nobody differs and all have been
\* called.
  <2>3. ASSUME Replayable PROVE Reproduced(turn)
    <3>1. Unmixed /\ ~broken
          BY <2>3 DEF Replayable, Unmixed
    <3>2. ASSUME NEW n \in graphs[turn]
          PROVE  /\ heard[turn][n] # <<>> /\ Plain(heard[turn][n])
                 /\ given[turn][n] # <<>> => given[turn][n] = heard[turn][n]
      <4> DEFINE h == heard[turn][n]
                 A == Response
      <4>1. h # <<>> /\ Plain(h)
            BY <1>3, <2>3 DEF Replayable
      <4>2. h \in Seq(A)
            BY <1>1, <1>3, ResponsesOf DEF ReplayTypes
      <4>3. Len(h) = 1
            BY <4>1 DEF Plain
      <4>4. given[turn][n] # <<>> => given[turn][n] = <<h[1]>>
            BY <1>1, <1>2, <1>3, <3>1 DEF Followed
      <4> HIDE DEF h, A
      <4>5. <<h[1]>> = h
            BY <4>2, <4>3
      <4> QED
          BY <4>1, <4>4, <4>5 DEF h
    <3>3. ~Differs
          BY <3>1, <3>2 DEF Differs
    <3> QED
        BY <1>2, <3>2, <3>3 DEF Reproduced, CalledThen
  <2>4. ASSUME Replayable, NEW i \in DOMAIN graphs, i < turn' \/ phase' = "ended" PROVE Reproduced(i)
    <3>1. i < turn \/ i = turn
      <4>1. CASE phase' = "replay"
            BY <1>3, <1>4, <2>4, <4>1
      <4>2. CASE phase' = "ended"
            BY <1>3, <1>4, <2>3, <2>4, <4>2
      <4> QED
          BY <1>2, <4>1, <4>2
    <3> QED
        BY <1>1, <1>2, <2>3, <2>4, <3>1 DEF Followed
  <2> QED
      BY <1>1, <1>2, <2>1, <2>2, <2>4 DEF Followed
<1> QED
    BY <1>2, <1>4, <1>5, <1>7, <1>8, <1>9, <1>10, <1>11, StepReplaying

LEMMA InitReplaying ==
    ASSUME ReplayInit
    PROVE  Replaying
<1>1. /\ graphs \in Graph /\ phase = "live" /\ turn = 1 /\ unsaved = NoAnswers /\ trace = <<>> /\ broken = FALSE
      /\ cursor = NoAnswers
      /\ heard = [i \in DOMAIN graphs |-> NoAnswers] /\ given = [i \in DOMAIN graphs |-> NoAnswers]
      BY DEF ReplayInit
<1>2. /\ DOMAIN graphs = 1 .. Len(graphs) /\ Len(graphs) \in Nat \ {0} /\ turn \in DOMAIN graphs
      /\ \A i \in DOMAIN graphs : graphs[i] \subseteq ReplayNode
      BY <1>1, GraphsAre
<1>3. NoAnswers \in Responses /\ \A n \in ReplayNode : NoAnswers[n] = <<>>
      BY NoAnswersIs
<1>4. ReplayTypes
  <2>1. trace \in Entries(Response, ReplayNode)
    <3> DEFINE E == [node : ReplayNode, responses : Seq(Response)]
    <3> HIDE DEF E
    <3>1. <<>> \in Seq(E)
          OBVIOUS
    <3> QED
        BY <1>1, <3>1 DEF E, Entries
  <2>2. heard \in [DOMAIN graphs -> Responses] /\ given \in [DOMAIN graphs -> Responses]
        BY <1>1, <1>3
  <2> QED
      BY <1>1, <1>2, <1>3, <2>1, <2>2 DEF ReplayTypes
<1>5. ToSet(<<>>) = {} /\ Len(<<>>) = 0
      BY DEF ToSet
<1>6. /\ \A n \in ReplayNode : cursor[n] = <<>> /\ unsaved[n] = <<>>
      /\ \A i \in DOMAIN graphs : \A n \in ReplayNode : heard[i][n] = <<>> /\ given[i][n] = <<>>
      BY <1>1, <1>3
<1>7. \A n \in ReplayNode : Recall(n) = <<>>
  <2>1. SUFFICES ASSUME NEW n \in ReplayNode PROVE Recall(n) = <<>>
        OBVIOUS
  <2> DEFINE s == [i \in DOMAIN trace |-> IF trace[i].node = n THEN trace[i].responses ELSE <<>>]
  <2>2. DOMAIN trace = {} /\ s = <<>>
        BY <1>1
  <2> HIDE DEF s
  <2>3. FlattenSeq(s) = <<>>
        BY <2>2 DEF FlattenSeq
  <2>4. Provided(n) = <<>>
        BY <2>3 DEF Provided, s
  <2>5. <<>> \in Seq(Response)
        OBVIOUS
  <2>6. Joined(<<>>, <<>>) = <<>>
        BY <2>5, JoinedIs
  <2> QED
      BY <1>6, <2>4, <2>6 DEF Recall
<1>8. Lengths
  <2>1. MaxAttempts \in Nat /\ Room(0) = 0 /\ Room(Len(graphs)) \in Nat /\ turn - 1 = 0
        BY <1>1, <1>2, AttemptsAssumption, RoomIs
  <2> QED
      BY <1>1, <1>2, <1>5, <1>6, <1>7, <2>1 DEF Lengths
<1>9. Blank /\ RefusedOnly /\ Ahead /\ Followed
      BY <1>1, <1>6 DEF Blank, RefusedOnly, Ahead, Followed
<1>10. FromRun
       BY <1>5, <1>6, <1>7 DEF FromRun
<1>11. Unbroken
       BY <1>1, <1>2, <1>6, <1>7 DEF Unbroken
<1> QED
    BY <1>4, <1>8, <1>9, <1>10, <1>11 DEF Replaying

LEMMA NextReplaying ==
    ASSUME Replaying, [ReplayNext]_replayVars
    PROVE  Replaying'
<1>1. ASSUME NEW n \in ReplayNode, Repeat(n) PROVE Replaying'
      BY <1>1, RepeatReplaying
<1>2. ASSUME NEW n \in ReplayNode, NEW result \in Outcome, Answer(n, result) PROVE Replaying'
      BY <1>2, AnswerReplaying
<1>3. CASE EndExecute
      BY <1>3, EndReplaying
<1>4. CASE PauseExecute
      BY <1>4, PauseReplaying
<1>5. CASE BreakExecute
      BY <1>5, BreakReplaying
<1>6. CASE Inject
      BY <1>6, InjectReplaying
<1>7. CASE EndRepeat
      BY <1>7, EndRepeatReplaying
<1>8. CASE UNCHANGED replayVars
  <2>1. UNCHANGED <<graphs, phase, turn, heard, unsaved, trace, broken, cursor, given>>
        BY <1>8 DEF replayVars
  <2>2. /\ ReplayNode' = ReplayNode /\ Response' = Response /\ Responses' = Responses /\ Disjoint' = Disjoint
        /\ DOMAIN graphs' = DOMAIN graphs
        BY <2>1, SameGraphs
  <2>3. ReplayTypes /\ Lengths /\ Blank /\ FromRun /\ Unbroken /\ RefusedOnly /\ Ahead /\ Followed
        BY DEF Replaying
  <2>4. ReplayTypes'
    <3>1. broken' \in BOOLEAN
          BY <2>1, <2>3, Zenon DEF ReplayTypes
    <3> QED
        BY <2>1, <2>2, <2>3, <3>1 DEF ReplayTypes
  <2>5. \A n \in ReplayNode : Recall(n)' = Recall(n) /\ HeardOf(n)' = HeardOf(n)
        BY <2>1 DEF Recall, Provided, HeardOf
  <2>6. Lengths'
        BY <2>1, <2>2, <2>3, <2>5 DEF Lengths, Room
  <2>7. Blank'
        BY <2>1, <2>2, <2>3 DEF Blank
  <2>8. FromRun'
        BY <2>1, <2>2, <2>3, <2>5 DEF FromRun
  <2>9. Unbroken'
    <3>1. \A i \in DOMAIN graphs : graphs[i] \subseteq ReplayNode
          BY <2>3, GraphsAre DEF ReplayTypes
    <3>2. SUFFICES ASSUME ~broken PROVE Unbroken'
          BY <2>1 DEF Unbroken
    <3>3. \A i \in DOMAIN graphs : \A n \in ReplayNode : heard'[i][n] # <<>> => Recall(n)' # <<>>
          BY <2>1, <2>3, <2>5, <3>2 DEF Unbroken
    <3>4. Disjoint => \A i \in DOMAIN graphs : \A n \in graphs[i] : Recall(n)' = heard'[i][n]
          BY <2>1, <2>3, <2>5, <3>1, <3>2 DEF Unbroken
    <3> QED
        BY <2>1, <2>2, <3>3, <3>4 DEF Unbroken
  <2>10. RefusedOnly'
         BY <2>1, <2>3 DEF RefusedOnly
  <2>11. Ahead' /\ Followed'
    <3>1. (Unmixed' <=> Unmixed) /\ (Replayable' <=> Replayable) /\ (Idle' <=> Idle)
          BY <2>1, <2>2 DEF Unmixed, Replayable, Idle
    <3>2. \A i : Reproduced(i)' <=> Reproduced(i)
          BY <2>1 DEF Reproduced
    <3>3. \A n : Provided(n)' = Provided(n)
          BY <2>1 DEF Provided
    <3>4. Ahead'
          BY <2>1, <2>3, <3>1, <3>3 DEF Ahead
    <3>5. Followed'
          BY <2>1, <2>3, <3>1, <3>2 DEF Followed
    <3> QED
        BY <3>4, <3>5
  <2> QED
      BY <2>4, <2>6, <2>7, <2>8, <2>9, <2>10, <2>11 DEF Replaying
<1> QED
    BY <1>1, <1>2, <1>3, <1>4, <1>5, <1>6, <1>7, <1>8 DEF ReplayNext

\* The recorded answers and the replay are always as described (_execute, trace/replay.py).
THEOREM ReplayInvariance == ReplaySpec => []Replaying
<1>1. ReplayInit => Replaying
      BY InitReplaying
<1>2. Replaying /\ [ReplayNext]_replayVars => Replaying'
      BY NextReplaying
<1> QED
    BY <1>1, <1>2, PTL DEF ReplaySpec

LEMMA ReplayHasTypes ==
    ASSUME Replaying PROVE ReplayTypeOK
<1>1. ReplayTypes /\ Lengths
      BY DEF Replaying
<1>2. broken \in BOOLEAN
      BY <1>1, Zenon DEF ReplayTypes
<1>3. phase \in {"live", "replay", "refused", "ended"} /\ turn \in DOMAIN graphs
      BY <1>1 DEF ReplayTypes
<1>4. \A n \in ReplayNode : Len(cursor[n]) <= Len(graphs) * MaxAttempts
      BY <1>1 DEF Lengths, Room
<1>5. \A i \in DOMAIN graphs : \A n \in ReplayNode :
          Len(heard[i][n]) <= MaxAttempts /\ Len(given[i][n]) <= 1
      BY <1>1 DEF Lengths
<1> QED
    BY <1>2, <1>3, <1>4, <1>5 DEF ReplayTypeOK

\* The variables of the recording and of the replay keep their types and bounds.
THEOREM ReplayTypesKept == ReplaySpec => []ReplayTypeOK
<1>1. Replaying => ReplayTypeOK
      BY ReplayHasTypes
<1> QED
    BY <1>1, ReplayInvariance, PTL

\* A replay gives a node only what the same node answered in the run, its first answer of the same
\* execution if no execution was cut off or shares a node with another, and repeats a run with one
\* answer of each node; it refuses only a run with a node not called or a break (inject).
THEOREM SameReplay == ReplaySpec => []ReplaySame
<1>1. ASSUME Replaying PROVE ReplaySame
  <2>1. ReplayTypes /\ FromRun /\ RefusedOnly /\ Blank /\ Followed
        BY <1>1 DEF Replaying
  <2>2. \A i \in DOMAIN graphs : \A n \in ReplayNode :
          ToSet(given[i][n]) \subseteq UNION {ToSet(heard[j][n]) : j \in DOMAIN graphs}
        BY <2>1 DEF FromRun, HeardOf
  <2>3. phase = "refused" => broken \/ \E i \in DOMAIN graphs : \E n \in graphs[i] : heard[i][n] = <<>>
        BY <2>1 DEF RefusedOnly
  <2>4. Unmixed => \A i \in DOMAIN graphs : \A n \in graphs[i] :
                       given[i][n] = <<>> \/ given[i][n] = <<heard[i][n][1]>>
    <3>1. CASE phase = "live"
          BY <2>1, <3>1, GraphsAre DEF Blank, ReplayTypes
    <3>2. CASE phase # "live"
          BY <2>1, <3>2 DEF Followed
    <3> QED
        BY <3>1, <3>2
  <2>5. Replayable /\ phase = "ended" => \A i \in DOMAIN graphs : Reproduced(i)
        BY <2>1 DEF Followed
  <2> QED
      BY <2>2, <2>3, <2>4, <2>5 DEF ReplaySame
<1> QED
    BY <1>1, ReplayInvariance, PTL

----
(* All five, as MCServices runs them *)

\* The types of each service hold in all states in which any of the five is at work.
THEOREM ServiceTypes == Spec => []TypeOK
<1> DEFINE Inv == Tracing /\ DurableInv /\ Replaying /\ LineTypes /\ Session /\ AttemptInv
<1>1. ServiceInit => Inv
  <2>1. ServiceInit => StoreInit /\ DurableInit /\ ReplayInit /\ LineInit /\ AttemptInit
        BY DEF ServiceInit
  <2> QED
      BY <2>1, InitTracing, InitDurable, InitReplaying, InitSession, InitAttempts
<1>2. Inv /\ [ServiceNext]_serviceVars => Inv'
  <2>1. SUFFICES ASSUME Inv, [ServiceNext]_serviceVars PROVE Inv'
        OBVIOUS
  <2>2. ASSUME NEW t \in Thread, StoresMove(t)
        PROVE  /\ StoreNext /\ UNCHANGED durableVars /\ UNCHANGED replayVars
               /\ UNCHANGED lineVars /\ UNCHANGED attemptVars
    <3>1. ThreadStep(t)
          BY <2>2 DEF StoresMove
    <3> QED
        BY <2>2, <3>1, Zenon DEF StoresMove, StoreNext
  <2>3. ASSUME DurableMoves
        PROVE  /\ DurableNext /\ UNCHANGED storeVars /\ UNCHANGED replayVars
               /\ UNCHANGED lineVars /\ UNCHANGED attemptVars
        BY <2>3, Zenon DEF DurableMoves
  <2>4. ASSUME ReplayMoves
        PROVE  /\ ReplayNext /\ UNCHANGED storeVars /\ UNCHANGED durableVars
               /\ UNCHANGED lineVars /\ UNCHANGED attemptVars
        BY <2>4, Zenon DEF ReplayMoves
  <2>5. ASSUME LineMoves(LineNext)
        PROVE  /\ LineNext /\ UNCHANGED storeVars /\ UNCHANGED durableVars
               /\ UNCHANGED replayVars /\ UNCHANGED attemptVars
        BY <2>5, Zenon DEF LineMoves
  <2>6. ASSUME NodeMoves
        PROVE  /\ AttemptNext /\ UNCHANGED storeVars /\ UNCHANGED durableVars
               /\ UNCHANGED replayVars /\ UNCHANGED lineVars
        BY <2>6, Zenon DEF NodeMoves
  <2>7. ASSUME UNCHANGED serviceVars
        PROVE  /\ UNCHANGED storeVars /\ UNCHANGED durableVars /\ UNCHANGED replayVars
               /\ UNCHANGED lineVars /\ UNCHANGED attemptVars
        BY <2>7, Zenon DEF serviceVars
  <2>8. /\ [StoreNext]_storeVars /\ [DurableNext]_durableVars
        /\ [ReplayNext]_replayVars /\ [LineNext]_lineVars /\ [AttemptNext]_attemptVars
        BY <2>1, <2>2, <2>3, <2>4, <2>5, <2>6, <2>7, Zenon DEF ServiceNext
  <2> QED
      BY <2>1, <2>8, NextTracing, NextDurable, NextReplaying, SessionStep, NextAttempts
<1>3. Inv => TypeOK
  <2>1. SUFFICES ASSUME Inv PROVE TypeOK
        OBVIOUS
  <2>2. StoreTypeOK
        BY <2>1 DEF Tracing, StoreTypes, StoreTypeOK
  <2>3. DurableTypeOK
    <3>1. recorded \subseteq Migration
          BY <2>1, MigrationsAssumption DEF DurableInv, Schema, Migration
    <3> QED
        BY <2>1, <3>1 DEF DurableInv, DurableTypes, DurableTypeOK
  <2> QED
      BY <2>1, <2>2, <2>3, ReplayHasTypes, SessionHasTypes DEF TypeOK, AttemptInv
<1> HIDE DEF Inv
<1> QED
    BY <1>1, <1>2, <1>3, PTL DEF Spec
====
