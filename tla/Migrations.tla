----------------------------- MODULE Migrations -----------------------------
(***************************************************************************)
(* The migration runner: Up and Down calls of several host processes, each *)
(* on a connection of its own, against one schema.                         *)
(*                                                                         *)
(* A call reads the recorded versions once and then walks over the files,  *)
(* one transaction per file.  A transaction has two statements that other  *)
(* calls can come between: the file and its record for Up, the removal of  *)
(* the record and the file for Down; what the first did is seen by others, *)
(* and its table locks are dropped, when the second has committed.  A call *)
(* may be canceled, or its process die, between any two statements.        *)
(***************************************************************************)
EXTENDS Integers, FiniteSets

CONSTANTS
    Runners,    \* calls of Up and Down in progress at the same time, at most one each
    Overlaps,   \* bound: may a Down run at the same time as another call
    NoTable,    \* schema_migrations does not exist
    Absent      \* no answer yet

ASSUME OverlapsAssumption == Overlaps \in BOOLEAN
ASSUME NoTableAssumption == \A S \in SUBSET (1..3) : NoTable # S

(* The migration files in version order: 000001_init creates every table,
   000002_device_flow_user_code and 000003_session_subject_id add a column and
   its index to one of them *)
Tables    == 1
UserCode  == 2
SubjectId == 3
Files     == 1..3

VARIABLES
    schema,   \* the files whose tables, columns and indexes exist
    booked,   \* the versions recorded in schema_migrations, or NoTable
    data,     \* what the stores keep that the files tell apart
    run,      \* runner -> the call it has in progress
    reply     \* the latest answer of the runner package

vars == <<schema, booked, data, run, reply>>

-----------------------------------------------------------------------------
Idle == [op |-> "none"]

(* step: the statement that comes next.  todo: the files left to walk over.
   own: whether the open transaction of a Down deleted the record of its file, that
   of an Up created schema_migrations together with the other tables *)
Running(op, step, todo, own) == [op |-> op, step |-> step, todo |-> todo, own |-> own]

Open(p) == run[p] # Idle
Recorded == IF booked = NoTable THEN {} ELSE booked
At(p, op, step) == run[p].op = op /\ run[p].step = step

(* Files are walked over in version order, by Down in reverse *)
NextFile(p) ==
    CHOOSE v \in run[p].todo :
        \A w \in run[p].todo : IF run[p].op = "up" THEN v <= w ELSE w <= v

Goto(p, step, todo, own) ==
    run' = [run EXCEPT ![p] = Running(@.op, step, todo, own)]

Return(p, op, err) ==
    /\ reply' = [runner |-> p, op |-> op, err |-> err]
    /\ run' = [run EXCEPT ![p] = Idle]

(* The database refuses the statement: the transaction is rolled back *)
Fault_RejectContinues(p) ==
    /\ Goto(p, "file", run[p].todo \ {NextFile(p)}, FALSE)
    /\ UNCHANGED <<schema, booked, data, reply>>

Reject(p) == Return(p, run[p].op, "rejected") /\ UNCHANGED <<schema, booked, data>>

(* The files a call walks over, decided once from the recorded versions *)
Fault_FirstFileKept(op) == IF op = "up" THEN Files \ booked ELSE booked \ {Tables}

Fault_FilesFromZero(op) == IF op = "up" THEN 0..2 \ booked ELSE booked

Todo(op) == IF op = "up" THEN Files \ booked ELSE booked

(* The open transaction of q has run the file, or has deleted the record *)
Applying(q, v)    == At(q, "up", "record") /\ NextFile(q) = v
Unrecording(q, v) == At(q, "down", "revert") /\ NextFile(q) = v

(* The next statement of p needs a table, a name or a record that the open
   transaction of q holds *)
WaitsFor(p, q) ==
    /\ p # q
    /\ \/ At(p, "up", "file") /\ run[p].todo # {} /\ Applying(q, NextFile(p))
       \/ At(p, "up", "record") /\ Unrecording(q, NextFile(p)) /\ run[q].own
       \/ /\ At(p, "down", "file") /\ run[p].todo # {}
          /\ Unrecording(q, NextFile(p)) /\ run[q].own
       \/ /\ At(p, "down", "revert")
          /\ \/ NextFile(p) # Tables /\ Applying(q, NextFile(p))
             \/ /\ NextFile(p) = Tables
                /\ \/ \E v \in Files \ {Tables} : Applying(q, v)
                   \/ \E v \in Files : Unrecording(q, v)

Blocked(p) == \E q \in Runners : WaitsFor(p, q)

-----------------------------------------------------------------------------
MayBegin(op) ==
    Overlaps \/ \A q \in Runners : ~Open(q) \/ (op = "up" /\ run[q].op = "up")

(* CREATE TABLE IF NOT EXISTS schema_migrations; it waits for a transaction that is
   creating the table, and fails if that one commits *)
Up(p) ==
    /\ ~Open(p)
    /\ MayBegin("up")
    /\ \/ /\ \A q \in Runners : ~(At(q, "up", "record") /\ run[q].own)
          /\ booked' = Recorded
          /\ run' = [run EXCEPT ![p] = Running("up", "list", {}, FALSE)]
          /\ UNCHANGED reply
       \/ Return(p, "up", "failed") /\ UNCHANGED booked
    /\ UNCHANGED <<schema, data>>

(* A database that has no schema_migrations is left alone *)
Down(p) ==
    /\ ~Open(p)
    /\ MayBegin("down")
    /\ \/ booked = NoTable /\ Return(p, "down", "ok")
       \/ Return(p, "down", "failed")
       \/ /\ booked # NoTable
          /\ run' = [run EXCEPT ![p] = Running("down", "list", {}, FALSE)]
          /\ UNCHANGED reply
    /\ UNCHANGED <<schema, booked, data>>

AppliedVersions(p) ==
    /\ Open(p)
    /\ run[p].step = "list"
    /\ \/ /\ booked # NoTable
          /\ Goto(p, "file", Todo(run[p].op), FALSE)
          /\ UNCHANGED <<schema, booked, data, reply>>
       \/ booked = NoTable /\ Reject(p)

(* Each file needs the tables it changes and refuses to create what exists; the
   user_code column is NOT NULL without a default, so a row is in its way *)
Applicable(v) ==
    /\ v \notin schema
    /\ v # Tables => Tables \in schema
    /\ v = UserCode => "deviceCode" \notin data

(* applyFile, first statement: the file itself *)
Fault_RecordedBeforeApplied(p) ==
    /\ At(p, "up", "file")
    /\ run[p].todo # {}
    /\ ~Blocked(p)
    /\ LET v == NextFile(p) IN
       \/ /\ Applicable(v)
          /\ booked # NoTable
          /\ booked' = booked \cup {v}
          /\ Goto(p, "record", run[p].todo, FALSE)
          /\ UNCHANGED <<schema, data, reply>>
       \/ ~Applicable(v) /\ Reject(p)

ApplyFile(p) ==
    /\ At(p, "up", "file")
    /\ run[p].todo # {}
    /\ ~Blocked(p)
    /\ \/ /\ Applicable(NextFile(p))
          /\ Goto(p, "record", run[p].todo, NextFile(p) = Tables /\ booked = NoTable)
          /\ UNCHANGED <<schema, booked, data, reply>>
       \/ ~Applicable(NextFile(p)) /\ Reject(p)

(* The commit of a file is followed by the next file, or its answer is lost *)
Committed(p) ==
    \/ Goto(p, "file", run[p].todo \ {NextFile(p)}, FALSE) /\ UNCHANGED reply
    \/ Return(p, run[p].op, "failed")

(* applyFile, second statement: the record, and the commit of both *)
RecordAndCommit(p) ==
    /\ At(p, "up", "record")
    /\ ~Blocked(p)
    /\ LET v == NextFile(p) IN
       \/ /\ booked # NoTable \/ run[p].own
          /\ v \notin Recorded
          /\ booked' = Recorded \cup {v}
          /\ schema' = schema \cup {v}
          /\ Committed(p)
          /\ UNCHANGED data
       \/ /\ v \in Recorded \/ (booked = NoTable /\ ~run[p].own)
          /\ Reject(p)

(* revertFile, first statement: the record, if it is still there *)
Fault_UnrecordedAtOnce(p) ==
    /\ At(p, "down", "file")
    /\ run[p].todo # {}
    /\ booked # NoTable
    /\ booked' = booked \ {NextFile(p)}
    /\ Goto(p, "revert", run[p].todo, TRUE)
    /\ UNCHANGED <<schema, data, reply>>

Unrecord(p) ==
    /\ At(p, "down", "file")
    /\ run[p].todo # {}
    /\ ~Blocked(p)
    /\ \/ /\ booked # NoTable
          /\ Goto(p, "revert", run[p].todo, NextFile(p) \in Recorded)
          /\ UNCHANGED <<schema, booked, data, reply>>
       \/ booked = NoTable /\ Reject(p)

(* What dropping a column leaves of the rows *)
Reverted(v) ==
    IF v = SubjectId /\ "session" \in data
    THEN (data \ {"session"}) \cup {"unindexedSession"} ELSE data

(* revertFile, second statement: the down file, and the commit of both.  The first
   file takes every table with it, schema_migrations last *)
Fault_RevertedAgain(p) ==
    /\ At(p, "down", "revert")
    /\ ~Blocked(p)
    /\ schema' = schema \ {NextFile(p)}
    /\ booked' = booked \ {NextFile(p)}
    /\ Goto(p, "file", run[p].todo, FALSE)
    /\ UNCHANGED <<data, reply>>

RevertAndCommit(p) ==
    /\ At(p, "down", "revert")
    /\ ~Blocked(p)
    /\ LET v == NextFile(p) IN
       \/ /\ v = Tables
          /\ schema' = {}
          /\ booked' = NoTable
          /\ data' = {}
          /\ Committed(p)
       \/ /\ v # Tables
          /\ Tables \in schema
          /\ schema' = schema \ {v}
          /\ booked' = IF run[p].own THEN booked \ {v} ELSE booked
          /\ data' = Reverted(v)
          /\ Committed(p)
       \/ v # Tables /\ Tables \notin schema /\ Reject(p)

Finish(p) ==
    /\ Open(p)
    /\ run[p].step = "file"
    /\ run[p].todo = {}
    /\ Return(p, run[p].op, "ok")
    /\ UNCHANGED <<schema, booked, data>>

(* The context is canceled, the connection lost, the process killed, or the
   transaction chosen to break a deadlock: what was not committed is undone *)
Cancel(p) ==
    /\ Open(p)
    /\ Return(p, run[p].op, "failed")
    /\ UNCHANGED <<schema, booked, data>>

-----------------------------------------------------------------------------
(* The stores at work; their statements name the columns of all three files *)
StoreDeviceAuthorization ==
    /\ {Tables, UserCode} \subseteq schema
    /\ data' = data \cup {"deviceCode"}
    /\ UNCHANGED <<schema, booked, run, reply>>

CreateSession ==
    /\ {Tables, SubjectId} \subseteq schema
    /\ data' = data \cup {"session"}
    /\ UNCHANGED <<schema, booked, run, reply>>

-----------------------------------------------------------------------------
Init ==
    /\ schema = {}
    /\ booked = NoTable
    /\ data = {}
    /\ run = [p \in Runners |-> Idle]
    /\ reply = Absent

(* A statement of a call in progress *)
Step(p) ==
    \/ AppliedVersions(p)
    \/ ApplyFile(p)
    \/ RecordAndCommit(p)
    \/ Unrecord(p)
    \/ RevertAndCommit(p)
    \/ Finish(p)

Next ==
    \/ \E p \in Runners : Up(p) \/ Down(p) \/ Step(p) \/ Cancel(p)
    \/ StoreDeviceAuthorization
    \/ CreateSession

Spec == Init /\ [][Next]_vars

Deadlocked(p) ==
    \E ring \in SUBSET Runners :
        p \in ring /\ \A r \in ring : \E q \in ring : WaitsFor(r, q)

(* A call that has begun sends its next statement; lock queues are served in
   order; the database breaks deadlocks.  Nobody is assumed to begin a call. *)
Fairness ==
    /\ \A p \in Runners : SF_vars(Step(p))
    /\ WF_vars(\E p \in Runners : Deadlocked(p) /\ Cancel(p))

FairSpec == Spec /\ Fairness

-----------------------------------------------------------------------------
(* A call whose transaction is open has a file to work on *)
Call == {c \in [op : {"up", "down"}, step : {"list", "file", "record", "revert"},
                todo : SUBSET Files, own : BOOLEAN] :
            /\ c.step = "record" => c.op = "up" /\ c.todo # {}
            /\ c.step = "revert" => c.op = "down" /\ c.todo # {}}

(* Every variable holds a value of its type. *)
TypeOK ==
    /\ schema \in SUBSET Files
    /\ booked = NoTable \/ booked \in SUBSET Files
    /\ data \in SUBSET {"deviceCode", "session", "unindexedSession"}
    /\ run \in [Runners -> Call \cup {Idle}]

(* Nothing exists that is not recorded, however many calls of Up and Down overlap
   and wherever they are interrupted: the next Up never meets a leftover of a
   file it believes pending, and the tables of the first file are recorded
   exactly as long as they exist. *)
AppliedIsRecorded ==
    /\ schema \subseteq Recorded
    /\ Tables \in Recorded => Tables \in schema

(* As long as a Down has the database to itself, the record says what is there:
   applyFile and revertFile change both in one transaction, and of several Ups
   that start together one applies each file while the others fail. *)
RecordedIsApplied == Recorded = schema

(* ...and the files applied are the first ones in version order, so that an Up
   that follows an interrupted call continues where that call stopped. *)
PrefixApplied == \A v \in schema : 1..v \subseteq schema

(* An Up that returns without an error leaves no file pending, although it read
   the recorded versions before other Ups applied some of them; a Down that
   returns without an error leaves no table and no row. *)
ReturnsWhatItPromises ==
    [][\A p \in Runners :
          (Open(p) /\ ~Open(p)' /\ reply'.err = "ok")
          => schema' = IF run[p].op = "up" THEN Files ELSE {}]_vars

(* Every call comes back: calls that hold tables and records the others wait for
   do not wait for ever. *)
RunsReturn == \A p \in Runners : Open(p) ~> ~Open(p)

-----------------------------------------------------------------------------
(* The comment of Down: a down file runs and the bookkeeping row of its version is
   removed in the same transaction.  So a step that removes the objects of a file
   leaves no record of it. *)
RevertUnrecords ==
    [][\A v \in Files : v \in schema /\ v \notin schema' => v \notin Recorded']_vars

(* The comment of DeleteSessionsBySubjectID: it removes every session of the
   subject.  It finds them by subject_id, so no session may lack it while the
   column exists. *)
SessionsAreIndexed == SubjectId \in schema => "unindexedSession" \notin data
=============================================================================
