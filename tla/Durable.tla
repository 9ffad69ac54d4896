---- MODULE Durable ----
(* What processes leave on disk when they die, fail to write or overlap: the migrations of the *)
(* database (storage/migrator.py) and the two files of an artifact in the blob store, .blob    *)
(* and .meta.json (storage/fs_cas.py). Each process opens the stores, as create_runner does,   *)
(* and puts the same artifact.                                                                 *)
EXTENDS Integers

CONSTANTS
    Process,
    Migrations,     \* number of migrations
    Repeatable,     \* those of CREATE IF NOT EXISTS statements only; the others fail when repeated
    MaxFaults       \* bound of the crashes and failed writes

ASSUME MigrationsAssumption ==
    Migrations \in Nat /\ Repeatable \subseteq 1..Migrations /\ MaxFaults \in Nat

VARIABLES step, seen, applied, recorded, blob, meta, faults, faultAt, overlapped

durableVars == <<step, seen, applied, recorded, blob, meta, faults, faultAt, overlapped>>

Migration == 1..Migrations
Migrating == {"opening", "applied"}
Writing == {"writing", "written", "describing"}
Putting == {"absent"} \union Writing
Over == {"put", "failed", "dead"}

DurableInit ==
    /\ step = [p \in Process |-> "new"]
    /\ seen = [p \in Process |-> 0]     \* current, in apply_migrations
    /\ applied = {}                     \* migrations whose statements were executed
    /\ recorded = {}                    \* rows of schema_version
    /\ blob = "absent"                  \* the .blob file: absent, partial, whole
    /\ meta = "absent"                  \* likewise the .meta.json file
    /\ faults = 0
    /\ faultAt = {}                     \* where processes died or a write failed
    /\ overlapped = {}                  \* "open", "put": two processes were at it at once

Goes(p, to) == step' = [step EXCEPT ![p] = to]
Others(p, steps) == \E q \in Process \ {p} : step[q] \in steps
Highest == IF recorded = {} THEN 0 ELSE CHOOSE v \in recorded : \A w \in recorded : w <= v

\* _ensure_version_table and _current_version: the version is read once.
Open(p) ==
    /\ step[p] = "new"
    /\ seen' = [seen EXCEPT ![p] = Highest]
    /\ overlapped' = IF Others(p, Migrating) THEN overlapped \union {"open"} ELSE overlapped
    /\ Goes(p, "opening")
    /\ UNCHANGED <<applied, recorded, blob, meta, faults, faultAt>>

\* executescript, each statement committed on its own.
ApplyScript(p) ==
    /\ step[p] = "opening" /\ seen[p] < Migrations
    /\ LET v == seen[p] + 1
       IN  IF v \in applied \ Repeatable
           THEN Goes(p, "failed") /\ UNCHANGED applied
           ELSE Goes(p, "applied") /\ applied' = applied \union {v}
    /\ UNCHANGED <<seen, recorded, blob, meta, faults, faultAt, overlapped>>

\* INSERT INTO schema_version, whose primary key refuses a version recorded by another process.
RecordVersion(p) ==
    /\ step[p] = "applied"
    /\ LET v == seen[p] + 1
       IN  IF v \in recorded
           THEN Goes(p, "failed") /\ UNCHANGED <<recorded, seen>>
           ELSE /\ Goes(p, "opening")
                /\ recorded' = recorded \union {v}
                /\ seen' = [seen EXCEPT ![p] = v]
    /\ UNCHANGED <<applied, blob, meta, faults, faultAt, overlapped>>

Opened(p) ==
    /\ step[p] = "opening" /\ seen[p] = Migrations
    /\ Goes(p, "open")
    /\ UNCHANGED <<seen, applied, recorded, blob, meta, faults, faultAt, overlapped>>

\* Mutant: the artifact is written again.
PutAlways(p) ==
    /\ step[p] = "open"
    /\ overlapped' = IF Others(p, Putting) THEN overlapped \union {"put"} ELSE overlapped
    /\ Goes(p, "absent")
    /\ UNCHANGED <<seen, applied, recorded, blob, meta, faults, faultAt>>

\* put: any .blob file of that name counts as the artifact, and it returns at once.
PutCheck(p) ==
    /\ step[p] = "open"
    /\ overlapped' = IF Others(p, Putting) THEN overlapped \union {"put"} ELSE overlapped
    /\ Goes(p, IF blob = "absent" THEN "absent" ELSE "put")
    /\ UNCHANGED <<seen, applied, recorded, blob, meta, faults, faultAt>>

\* write_bytes opens the file, truncating it ...
OpenFile(p) ==
    /\ step[p] = "absent"
    /\ blob' = "partial"
    /\ Goes(p, "writing")
    /\ UNCHANGED <<seen, applied, recorded, meta, faults, faultAt, overlapped>>

\* ... and writes all of it.
WriteBytes(p) ==
    /\ step[p] = "writing"
    /\ blob' = "whole"
    /\ Goes(p, "written")
    /\ UNCHANGED <<seen, applied, recorded, meta, faults, faultAt, overlapped>>

\* write_text, likewise for the description of the artifact; then put returns.
OpenMeta(p) ==
    /\ step[p] = "written"
    /\ meta' = "partial"
    /\ Goes(p, "describing")
    /\ UNCHANGED <<seen, applied, recorded, blob, faults, faultAt, overlapped>>

WriteMeta(p) ==
    /\ step[p] = "describing"
    /\ meta' = "whole"
    /\ Goes(p, "put")
    /\ UNCHANGED <<seen, applied, recorded, blob, faults, faultAt, overlapped>>

Fault(p) ==
    /\ faults < MaxFaults
    /\ faults' = faults + 1
    /\ faultAt' = faultAt \union {step[p]}
    /\ UNCHANGED <<seen, applied, recorded, blob, meta, overlapped>>

\* An OSError of opening or writing a file (a full disk) leaves put, and what was written so far
\* stays; the process may put the artifact again.
PutFails(p) ==
    /\ step[p] \in Putting
    /\ Fault(p)
    /\ Goes(p, "open")

\* The process dies; a later one starts afresh.
Crash(p) ==
    /\ step[p] \notin Over
    /\ Fault(p)
    /\ Goes(p, "dead")

Restart(p) ==
    /\ step[p] = "dead"
    /\ Goes(p, "new")
    /\ UNCHANGED <<seen, applied, recorded, blob, meta, faults, faultAt, overlapped>>

DurableStep(p) ==
    \/ Open(p) \/ ApplyScript(p) \/ RecordVersion(p) \/ Opened(p)
    \/ PutCheck(p) \/ OpenFile(p) \/ WriteBytes(p) \/ OpenMeta(p) \/ WriteMeta(p)

DurableNext == \E p \in Process : DurableStep(p) \/ PutFails(p) \/ Crash(p) \/ Restart(p)
DurableSpec == DurableInit /\ [][DurableNext]_durableVars

-----------------------------------------------------------------------------
DurableTypeOK ==
    /\ step \in [Process -> {"new", "open"} \union Migrating \union Putting \union Over]
    /\ seen \in [Process -> 0..Migrations]
    /\ applied \subseteq Migration
    /\ recorded \subseteq Migration
    /\ {blob, meta} \subseteq {"absent", "partial", "whole"}
    /\ faults \in 0..MaxFaults
    /\ faultAt \subseteq {"new", "open"} \union Migrating \union Putting
    /\ overlapped \subseteq {"open", "put"}

\* An open database has the whole schema, every migration executed and recorded, whatever died or
\* overlapped before.
SchemaWhole ==
    \A p \in Process :
        step[p] \in {"open", "put"} \union Putting => applied = Migration /\ recorded = Migration

\* A process fails to open it only after one died between statements and version, or while or
\* after two were opening it at once (apply_migrations).
OpenFailsOnlyIf ==
    (\E p \in Process : step[p] = "failed") => "applied" \in faultAt \/ "open" \in overlapped

\* put returns with the artifact whole in the store, unless a process died or failed while writing
\* it or two were putting it at once: the file exists before its contents do (FsCasStore.put).
PutWhole ==
    (\E p \in Process : step[p] = "put") =>
        blob = "whole" \/ "writing" \in faultAt \/ "put" \in overlapped

\* It returns with the artifact described, unless a process died or failed after it had begun to
\* write, or two overlapped: what is missing then no later put makes up for.
PutDescribed ==
    (\E p \in Process : step[p] = "put") =>
        meta = "whole" \/ Writing \intersect faultAt # {} \/ "put" \in overlapped

\* Only an interrupted writer leaves the file short; what is described is whole, whatever died or
\* failed, unless two overlapped.
ShortOnlyIf ==
    /\ blob = "partial" => "writing" \in faultAt \/ \E p \in Process : step[p] = "writing"
    /\ meta # "absent" => blob = "whole" \/ "put" \in overlapped

WholeOrCrashed == SchemaWhole /\ OpenFailsOnlyIf /\ PutWhole /\ PutDescribed /\ ShortOnlyIf
====
