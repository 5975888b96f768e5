-------------------------- MODULE MigrationsProofs --------------------------
(***************************************************************************)
(* What the migration runner guarantees whatever the number of runners:    *)
(* first when calls of Up and Down overlap in any way, then when a Down    *)
(* has the database to itself.                                             *)
(***************************************************************************)
EXTENDS Migrations, TLAPS

(* A call in one of its four steps is a value of type Call, and none is idle *)
LEMMA RunningTyped ==
    ASSUME NEW op \in {"up", "down"}, NEW todo \in SUBSET Files, NEW own \in BOOLEAN
    PROVE  /\ Running(op, "list", todo, own) \in Call
           /\ Running(op, "file", todo, own) \in Call
           /\ op = "up" /\ todo # {} => Running(op, "record", todo, own) \in Call
           /\ op = "down" /\ todo # {} => Running(op, "revert", todo, own) \in Call
BY DEF Running, Call

(* What the type of a call in progress says of its parts *)
LEMMA CallParts ==
    ASSUME TypeOK, NEW p \in Runners, Open(p)
    PROVE  /\ run[p].op \in {"up", "down"}
           /\ run[p].todo \in SUBSET Files
           /\ run[p].own \in BOOLEAN
           /\ run[p].step \in {"list", "file", "record", "revert"}
           /\ run[p].step = "record" => run[p].op = "up" /\ run[p].todo # {}
           /\ run[p].step = "revert" => run[p].op = "down" /\ run[p].todo # {}
BY DEF TypeOK, Open, Call

(* A call that is at some step is a call in progress *)
LEMMA AtIsOpen ==
    ASSUME NEW p \in Runners, NEW op, NEW step, At(p, op, step), op # "none"
    PROVE  Open(p)
BY DEF At, Open, Idle

(* The next file is the first, or for Down the last, of those left to walk over *)
LEMMA NextFileIsExtreme ==
    ASSUME NEW p \in Runners, run[p].todo \in SUBSET Files, run[p].todo # {}
    PROVE  /\ NextFile(p) \in run[p].todo
           /\ run[p].op = "up" => \A w \in run[p].todo : NextFile(p) <= w
           /\ run[p].op # "up" => \A w \in run[p].todo : w <= NextFile(p)
<1> DEFINE Extreme(v) == \A w \in run[p].todo : IF run[p].op = "up" THEN v <= w ELSE w <= v
<1>1. \E v \in run[p].todo : Extreme(v)
  <2>1. run[p].todo \subseteq {1, 2, 3} /\ \E v \in {1, 2, 3} : v \in run[p].todo
    BY DEF Files
  <2>2. CASE run[p].op = "up"
    BY <2>1, <2>2
  <2>3. CASE run[p].op # "up"
    BY <2>1, <2>3
  <2> QED BY <2>2, <2>3
<1>2. NextFile(p) \in run[p].todo /\ Extreme(NextFile(p))
  BY <1>1 DEF NextFile
<1> QED BY <1>2

-----------------------------------------------------------------------------
(* The variables a step of a runner leaves to the other runners *)
Moves(p) ==
    \/ run' = [run EXCEPT ![p] = Idle]
    \/ \E c \in Call : run' = [run EXCEPT ![p] = c]

(* Every step of a call leaves the other calls alone and its own well typed *)
LEMMA StepMoves ==
    ASSUME TypeOK, NEW p \in Runners,
           Up(p) \/ Down(p) \/ Step(p) \/ Cancel(p)
    PROVE  Moves(p)
<1>1. CASE Up(p)
  BY <1>1, RunningTyped DEF Up, Moves, Return
<1>2. CASE Down(p)
  BY <1>2, RunningTyped DEF Down, Moves, Return
<1>3. CASE AppliedVersions(p)
  <2>1. booked # NoTable => Todo(run[p].op) \in SUBSET Files
    BY DEF TypeOK, Todo
  <2> QED
    BY <1>3, <2>1, CallParts, RunningTyped DEF AppliedVersions, Moves, Goto, Reject, Return
<1>4. CASE ApplyFile(p)
  <2>1. Open(p)
    BY <1>4, AtIsOpen DEF ApplyFile
  <2>2. (NextFile(p) = Tables /\ booked = NoTable) \in BOOLEAN
    OBVIOUS
  <2>3. CASE Goto(p, "record", run[p].todo, NextFile(p) = Tables /\ booked = NoTable)
    <3>1. Running(run[p].op, "record", run[p].todo, NextFile(p) = Tables /\ booked = NoTable) \in Call
      BY <1>4, <2>1, <2>2, CallParts, RunningTyped DEF ApplyFile, At
    <3> QED BY <2>3, <3>1 DEF Goto, Moves
  <2>4. CASE Reject(p)
    BY <2>4 DEF Reject, Return, Moves
  <2> QED BY <1>4, <2>3, <2>4 DEF ApplyFile
<1>5. CASE Unrecord(p)
  <2>1. Open(p)
    BY <1>5, AtIsOpen DEF Unrecord
  <2>2. (NextFile(p) \in Recorded) \in BOOLEAN
    OBVIOUS
  <2>3. CASE Goto(p, "revert", run[p].todo, NextFile(p) \in Recorded)
    <3>1. Running(run[p].op, "revert", run[p].todo, NextFile(p) \in Recorded) \in Call
      BY <1>5, <2>1, <2>2, CallParts, RunningTyped DEF Unrecord, At
    <3> QED BY <2>3, <3>1 DEF Goto, Moves
  <2>4. CASE Reject(p)
    BY <2>4 DEF Reject, Return, Moves
  <2> QED BY <1>5, <2>3, <2>4 DEF Unrecord
<1>6. ASSUME Open(p), Committed(p) PROVE Moves(p)
  <2>1. run[p].todo \ {NextFile(p)} \in SUBSET Files
    BY <1>6, CallParts
  <2> QED
    BY <1>6, <2>1, CallParts, RunningTyped DEF Committed, Moves, Goto, Return
<1>7. CASE RecordAndCommit(p)
  <2>1. Open(p)
    BY <1>7, AtIsOpen DEF RecordAndCommit
  <2>2. Committed(p) \/ Reject(p)
    BY <1>7 DEF RecordAndCommit
  <2> QED BY <1>6, <2>1, <2>2 DEF Reject, Return, Moves
<1>8. CASE RevertAndCommit(p)
  <2>1. Open(p)
    BY <1>8, AtIsOpen DEF RevertAndCommit
  <2>2. Committed(p) \/ Reject(p)
    BY <1>8 DEF RevertAndCommit
  <2> QED BY <1>6, <2>1, <2>2 DEF Reject, Return, Moves
<1>9. CASE Finish(p)
  BY <1>9 DEF Finish, Return, Moves
<1>10. CASE Cancel(p)
  BY <1>10 DEF Cancel, Return, Moves
<1> QED BY <1>1, <1>2, <1>3, <1>4, <1>5, <1>7, <1>8, <1>9, <1>10 DEF Step

(* What a step may do to the schema and its record *)
Kept    == UNCHANGED <<schema, booked, data>>
Made    == schema' = schema /\ booked' = Recorded /\ data' = data
Applied(p) ==
    /\ At(p, "up", "record")
    /\ NextFile(p) \notin Recorded
    /\ booked' = Recorded \cup {NextFile(p)}
    /\ schema' = schema \cup {NextFile(p)}
    /\ data' = data
Emptied(p) ==
    /\ At(p, "down", "revert") /\ NextFile(p) = Tables
    /\ schema' = {} /\ booked' = NoTable /\ data' = {}
Reverting(p) ==
    /\ At(p, "down", "revert") /\ NextFile(p) # Tables
    /\ Tables \in schema
    /\ schema' = schema \ {NextFile(p)}
    /\ booked' = IF run[p].own THEN booked \ {NextFile(p)} ELSE booked
    /\ data' = Reverted(NextFile(p))

(* ...one of five things *)
LEMMA StepKinds ==
    ASSUME NEW p \in Runners, Up(p) \/ Down(p) \/ Step(p) \/ Cancel(p)
    PROVE  Kept \/ Made \/ Applied(p) \/ Emptied(p) \/ Reverting(p)
<1>1. CASE Up(p)
  BY <1>1 DEF Up, Kept, Made
<1>2. CASE Down(p) \/ AppliedVersions(p) \/ ApplyFile(p) \/ Unrecord(p) \/ Finish(p) \/ Cancel(p)
  BY <1>2 DEF Down, AppliedVersions, ApplyFile, Unrecord, Finish, Cancel, Reject, Kept
<1>3. CASE RecordAndCommit(p)
  BY <1>3 DEF RecordAndCommit, Applied, Reject, Kept
<1>4. CASE RevertAndCommit(p)
  BY <1>4 DEF RevertAndCommit, Emptied, Reverting, Reject, Kept
<1> QED BY <1>1, <1>2, <1>3, <1>4 DEF Step

-----------------------------------------------------------------------------
(* The two actions of the stores change rows and nothing else *)
LEMMA StoresKeepTheSchema ==
    ASSUME StoreDeviceAuthorization \/ CreateSession
    PROVE  /\ UNCHANGED <<schema, booked, run, reply>>
           /\ data' \in {data \cup {"deviceCode"}, data \cup {"session"}}
BY DEF StoreDeviceAuthorization, CreateSession

(* Types and the first half of the bookkeeping need each other: a column is only
   dropped from tables that exist, and those are recorded, so there is a record to
   remove *)
Inv == TypeOK /\ AppliedIsRecorded

(* An empty database satisfies it *)
LEMMA InvInit == Init => Inv
BY DEF Init, Inv, TypeOK, AppliedIsRecorded, Recorded

(* No step breaks the invariant *)
LEMMA InvStep == Inv /\ [Next]_vars => Inv'
<1> SUFFICES ASSUME Inv, [Next]_vars PROVE Inv'
  OBVIOUS
<1>0. TypeOK /\ AppliedIsRecorded
  BY DEF Inv
<1>1. CASE UNCHANGED vars
  BY <1>0, <1>1 DEF vars, Inv, TypeOK, AppliedIsRecorded, Recorded
<1>2. CASE StoreDeviceAuthorization \/ CreateSession
  BY <1>0, <1>2, StoresKeepTheSchema DEF Inv, TypeOK, AppliedIsRecorded, Recorded
<1>3. ASSUME NEW p \in Runners, Up(p) \/ Down(p) \/ Step(p) \/ Cancel(p)
      PROVE  Inv'
  <2>1. run' \in [Runners -> Call \cup {Idle}]
    BY <1>0, <1>3, StepMoves DEF Moves, TypeOK
  <2>2. /\ schema \in SUBSET Files
        /\ booked = NoTable \/ booked \in SUBSET Files
        /\ data \in SUBSET {"deviceCode", "session", "unindexedSession"}
        /\ Recorded \in SUBSET Files
        /\ schema \subseteq Recorded
        /\ Tables \in Recorded => Tables \in schema
    BY <1>0 DEF Recorded, TypeOK, AppliedIsRecorded
  <2>3. At(p, "up", "record") \/ At(p, "down", "revert") => NextFile(p) \in Files
    <3> SUFFICES ASSUME At(p, "up", "record") \/ At(p, "down", "revert")
                 PROVE  NextFile(p) \in Files
      OBVIOUS
    <3>1. run[p].todo \in SUBSET Files /\ run[p].todo # {}
      BY <1>0, AtIsOpen, CallParts DEF At
    <3> QED BY <3>1, NextFileIsExtreme
  <2>4. \A S \in SUBSET Files : S # NoTable
    BY NoTableAssumption DEF Files
  <2>5. CASE Kept
    BY <2>1, <2>2, <2>5 DEF Kept, Inv, TypeOK, AppliedIsRecorded, Recorded
  <2>6. CASE Made
    <3>1. Recorded' = Recorded
      BY <2>2, <2>4, <2>6 DEF Made, Recorded
    <3> QED BY <2>1, <2>2, <2>6, <3>1 DEF Made, Inv, TypeOK, AppliedIsRecorded
  <2>7. CASE Applied(p)
    <3>1. booked' \in SUBSET Files /\ schema' \in SUBSET Files
      BY <2>2, <2>3, <2>7 DEF Applied
    <3>2. Recorded' = Recorded \cup {NextFile(p)}
      BY <2>4, <2>7, <3>1 DEF Applied, Recorded
    <3> QED BY <2>1, <2>2, <2>7, <3>1, <3>2 DEF Applied, Inv, TypeOK, AppliedIsRecorded
  <2>8. CASE Emptied(p)
    <3>1. Recorded' = {}
      BY <2>8 DEF Emptied, Recorded
    <3> QED BY <2>1, <2>8, <3>1 DEF Emptied, Inv, TypeOK, AppliedIsRecorded
  <2>9. CASE Reverting(p)
    <3>1. data' \in SUBSET {"deviceCode", "session", "unindexedSession"}
      BY <2>2, <2>9 DEF Reverting, Reverted
    <3>2. booked # NoTable /\ Recorded = booked
      BY <2>2, <2>9 DEF Reverting, Recorded
    <3>3. booked' \in {booked, booked \ {NextFile(p)}}
      BY <2>9 DEF Reverting
    <3>4. booked' \in SUBSET Files /\ Recorded' = booked'
      BY <2>2, <2>4, <3>2, <3>3 DEF Recorded
    <3>5. AppliedIsRecorded'
      BY <2>2, <2>9, <3>2, <3>3, <3>4 DEF Reverting, AppliedIsRecorded
    <3>6. schema' \in SUBSET Files
      BY <2>2, <2>9 DEF Reverting
    <3> QED BY <2>1, <3>1, <3>4, <3>5, <3>6 DEF Inv, TypeOK
  <2> QED BY <1>3, <2>5, <2>6, <2>7, <2>8, <2>9, StepKinds
<1> QED BY <1>1, <1>2, <1>3 DEF Next

(* The invariant holds in every reachable state *)
LEMMA Invariance == Spec => []Inv
BY InvInit, InvStep, PTL DEF Spec

(* Calls that overlap, are refused or are interrupted keep every variable in its
   type (Up, Down, applyFile, revertFile). *)
THEOREM TypeCorrect == Spec => []TypeOK
<1>1. Inv => TypeOK
  BY DEF Inv
<1> QED BY Invariance, <1>1, PTL

(* Whatever number of calls of Up and Down overlap, nothing exists in the schema
   that schema_migrations does not record, and the tables are recorded exactly as
   long as they exist: applyFile and revertFile change both in one commit. *)
THEOREM AppliedRecorded == Spec => []AppliedIsRecorded
<1>1. Inv => AppliedIsRecorded
  BY DEF Inv
<1> QED BY Invariance, <1>1, PTL

-----------------------------------------------------------------------------
(* The invariant of runs in which a Down has the database to itself.  The list a
   call walks over was read once; it is still right, because nothing but Ups runs
   beside an Up, and nothing beside a Down *)
DownIsAlone ==
    \A p, q \in Runners : p # q /\ run[p].op = "down" => ~Open(q)
DownKnows ==
    \A p \in Runners : run[p].op = "down" =>
        /\ run[p].step \in {"file", "revert"} => run[p].todo = Recorded
        /\ run[p].step = "revert" => run[p].own
UpKnows ==
    \A p \in Runners : run[p].op = "up" /\ run[p].step \in {"file", "record"}
        => Files \ schema \subseteq run[p].todo
Alone ==
    /\ Inv
    /\ DownIsAlone
    /\ DownKnows
    /\ UpKnows
    /\ RecordedIsApplied
    /\ PrefixApplied

(* An empty database satisfies it *)
LEMMA AloneInit == Init => Alone
BY InvInit DEF Init, Alone, DownIsAlone, DownKnows, UpKnows, RecordedIsApplied,
               PrefixApplied, Recorded, Idle

(* A step of p keeps its kind of call, ends it, or begins one *)
LEMMA StepKeepsOp ==
    ASSUME NEW p \in Runners, Inv, Step(p) \/ Cancel(p)
    PROVE  /\ Open(p)
           /\ run'[p] = Idle \/ run'[p].op = run[p].op
<1>0. run \in [Runners -> Call \cup {Idle}]
  BY DEF Inv, TypeOK
<1>1. Open(p)
  BY AtIsOpen DEF Step, AppliedVersions, ApplyFile, RecordAndCommit, Unrecord,
                  RevertAndCommit, Finish, Cancel
<1>2. ASSUME NEW step, NEW todo, NEW own, Goto(p, step, todo, own)
      PROVE  run'[p].op = run[p].op
  BY <1>0, <1>2 DEF Goto, Running
<1>3. ASSUME NEW err, Return(p, run[p].op, err) PROVE run'[p] = Idle
  BY <1>0, <1>3 DEF Return
<1>4. Committed(p) => run'[p] = Idle \/ run'[p].op = run[p].op
  BY <1>2, <1>3 DEF Committed
<1>5. Reject(p) => run'[p] = Idle
  BY <1>3 DEF Reject
<1>6. CASE AppliedVersions(p) \/ ApplyFile(p) \/ Unrecord(p)
  BY <1>1, <1>2, <1>5, <1>6 DEF AppliedVersions, ApplyFile, Unrecord
<1>7. CASE RecordAndCommit(p) \/ RevertAndCommit(p)
  BY <1>1, <1>4, <1>5, <1>7 DEF RecordAndCommit, RevertAndCommit
<1>8. CASE Finish(p) \/ Cancel(p)
  BY <1>1, <1>3, <1>8 DEF Finish, Cancel
<1> QED BY <1>6, <1>7, <1>8 DEF Step

(* The other calls stay as they are, and all of them are Ups that only see the
   schema grow *)
LEMMA OthersSeeGrowth ==
    ASSUME ~Overlaps, Alone, NEW p \in Runners,
           Up(p) \/ Down(p) \/ Step(p) \/ Cancel(p),
           NEW q \in Runners, q # p
    PROVE  /\ run'[q] = run[q]
           /\ Open(q) => run[q].op = "up" /\ run'[p].op # "down" /\ schema \subseteq schema'
<1>0. Inv /\ TypeOK /\ run \in [Runners -> Call \cup {Idle}]
  BY DEF Alone, Inv, TypeOK
<1>1. run'[q] = run[q]
  BY <1>0, StepMoves DEF Moves
<1>2. ASSUME Open(q)
      PROVE  run[q].op = "up" /\ run'[p].op # "down" /\ schema \subseteq schema'
  <2>1. CASE Up(p)
    <3>1. run[q].op = "up"
      BY <1>2, <2>1 DEF Up, MayBegin
    <3>2. run'[p].op # "down"
      BY <1>0, <2>1 DEF Up, Return, Running, Idle
    <3> QED BY <2>1, <3>1, <3>2 DEF Up
  <2>2. CASE Down(p)
    BY <1>2, <2>2 DEF Down, MayBegin
  <2>3. CASE Step(p) \/ Cancel(p)
    <3>1. Open(p) /\ (run'[p] = Idle \/ run'[p].op = run[p].op)
      BY <1>0, <2>3, StepKeepsOp
    <3>2. run[p].op # "down"
      BY <1>2 DEF Alone, DownIsAlone
    <3>3. run[q].op = "up"
      BY <1>0, <1>2, <3>1, CallParts DEF Alone, DownIsAlone
    <3>4. schema \subseteq schema'
      BY <2>3, <3>2, StepKinds DEF Kept, Made, Applied, Emptied, Reverting, At
    <3> QED BY <3>1, <3>2, <3>3, <3>4 DEF Idle
  <2> QED BY <2>1, <2>2, <2>3
<1> QED BY <1>1, <1>2
(* What the invariant says of the call of one runner, and so what is left to show
   of the runner that takes a step *)
Knows(p) ==
    /\ run[p].op = "down" =>
         /\ run[p].step \in {"file", "revert"} => run[p].todo = Recorded
         /\ run[p].step = "revert" => run[p].own
    /\ run[p].op = "up" /\ run[p].step \in {"file", "record"} => Files \ schema \subseteq run[p].todo

(* A call that is over knows nothing *)
LEMMA IdleKnows ==
    ASSUME NEW p \in Runners, run'[p] = Idle
    PROVE  Knows(p)'
BY DEF Knows, Idle

(* The record and the schema still agree after a step, and its runner still knows
   what is left to do *)
LEMMA OwnStep ==
    ASSUME Alone, NEW p \in Runners, Inv',
           Up(p) \/ Down(p) \/ Step(p) \/ Cancel(p)
    PROVE  Knows(p)' /\ RecordedIsApplied' /\ PrefixApplied'
<1>0. /\ Inv /\ TypeOK /\ run \in [Runners -> Call \cup {Idle}]
      /\ schema \in SUBSET Files /\ Recorded = schema
      /\ \A v \in schema : 1..v \subseteq schema
      /\ Knows(p)
  BY DEF Alone, Inv, TypeOK, RecordedIsApplied, PrefixApplied, DownKnows, UpKnows, Knows
<1>1. \A S \in SUBSET Files : S # NoTable
  BY NoTableAssumption DEF Files
<1>2. ASSUME NEW step, NEW todo, NEW own, Goto(p, step, todo, own)
      PROVE  run'[p] = Running(run[p].op, step, todo, own)
  BY <1>0, <1>2 DEF Goto
<1>3. ASSUME NEW op, NEW err, Return(p, op, err) PROVE Knows(p)'
  BY <1>0, <1>3, IdleKnows DEF Return
<1>4. ASSUME schema' = schema, Recorded' = Recorded
      PROVE  RecordedIsApplied' /\ PrefixApplied'
  BY <1>0, <1>4 DEF RecordedIsApplied, PrefixApplied
<1>5. ASSUME UNCHANGED <<schema, booked>> PROVE RecordedIsApplied' /\ PrefixApplied'
  BY <1>4, <1>5 DEF Recorded
<1>6. CASE Up(p)
  <2>1. Recorded' = Recorded /\ schema' = schema
    BY <1>0, <1>1, <1>6 DEF Up, Recorded
  <2>2. ASSUME run' = [run EXCEPT ![p] = Running("up", "list", {}, FALSE)] PROVE Knows(p)'
    <3>1. run'[p] = Running("up", "list", {}, FALSE)
      BY <1>0, <2>2
    <3> QED BY <3>1 DEF Knows, Running
  <2> QED BY <1>3, <1>4, <1>6, <2>1, <2>2 DEF Up
<1>7. CASE Down(p)
  <2>1. ASSUME run' = [run EXCEPT ![p] = Running("down", "list", {}, FALSE)] PROVE Knows(p)'
    <3>1. run'[p] = Running("down", "list", {}, FALSE)
      BY <1>0, <2>1
    <3> QED BY <3>1 DEF Knows, Running
  <2> QED BY <1>3, <1>5, <1>7, <2>1 DEF Down
<1>8. CASE AppliedVersions(p)
  <2>1. UNCHANGED <<schema, booked>>
    BY <1>8 DEF AppliedVersions, Reject
  <2>2. CASE booked # NoTable /\ Goto(p, "file", Todo(run[p].op), FALSE)
    <3>1. run'[p] = Running(run[p].op, "file", Todo(run[p].op), FALSE)
      BY <1>2, <2>2
    <3>2. Recorded = booked /\ Recorded' = booked
      BY <2>1, <2>2 DEF Recorded
    <3> QED BY <1>0, <1>5, <2>1, <3>1, <3>2 DEF Knows, Running, Todo
  <2>3. CASE Reject(p)
    BY <1>3, <1>5, <2>1, <2>3 DEF Reject
  <2> QED BY <1>8, <2>2, <2>3 DEF AppliedVersions
<1>9. CASE ApplyFile(p)
  <2>1. UNCHANGED <<schema, booked>> /\ At(p, "up", "file")
    BY <1>9 DEF ApplyFile, Reject
  <2>2. CASE Goto(p, "record", run[p].todo, NextFile(p) = Tables /\ booked = NoTable)
    <3>1. run'[p] = Running(run[p].op, "record", run[p].todo, NextFile(p) = Tables /\ booked = NoTable)
      BY <1>2, <2>2
    <3> QED BY <1>0, <1>5, <2>1, <3>1 DEF Knows, Running, At
  <2>3. CASE Reject(p)
    BY <1>3, <1>5, <2>1, <2>3 DEF Reject
  <2> QED BY <1>9, <2>2, <2>3 DEF ApplyFile
<1>10. CASE RecordAndCommit(p)
  <2>1. At(p, "up", "record") /\ Open(p)
    BY <1>10, AtIsOpen DEF RecordAndCommit
  <2>2. CASE Reject(p)
    BY <1>3, <1>5, <2>2 DEF Reject
  <2>3. CASE Committed(p) /\ schema' = schema \cup {NextFile(p)} /\ booked' = Recorded \cup {NextFile(p)}
    <3>1. /\ run[p].todo \in SUBSET Files
          /\ NextFile(p) \in run[p].todo
          /\ \A w \in run[p].todo : NextFile(p) <= w
          /\ Files \ schema \subseteq run[p].todo
      BY <1>0, <2>1, CallParts, NextFileIsExtreme DEF At, Knows
    <3>2. Recorded' = schema'
      BY <1>0, <1>1, <2>3, <3>1 DEF Recorded
    <3>3. 1..NextFile(p) \subseteq schema'
      <4> SUFFICES ASSUME NEW w \in 1..NextFile(p), w # NextFile(p) PROVE w \in schema
        BY <2>3
      <4>1. w \in Files /\ ~(NextFile(p) <= w)
        BY <3>1 DEF Files
      <4> QED BY <3>1, <4>1
    <3>4. \A v \in schema' : 1..v \subseteq schema'
      BY <1>0, <2>3, <3>3
    <3>5. Knows(p)'
      <4>1. CASE Goto(p, "file", run[p].todo \ {NextFile(p)}, FALSE)
        <5>1. run'[p] = Running("up", "file", run[p].todo \ {NextFile(p)}, FALSE)
          BY <1>2, <2>1, <4>1 DEF At
        <5> QED BY <2>3, <3>1, <5>1 DEF Knows, Running
      <4> QED BY <1>3, <2>3, <4>1 DEF Committed
    <3> QED BY <3>2, <3>4, <3>5 DEF RecordedIsApplied, PrefixApplied
  <2> QED BY <1>10, <2>2, <2>3 DEF RecordAndCommit
<1>11. CASE Unrecord(p)
  <2>1. UNCHANGED <<schema, booked>> /\ At(p, "down", "file") /\ run[p].todo # {}
    BY <1>11 DEF Unrecord, Reject
  <2>2. CASE Goto(p, "revert", run[p].todo, NextFile(p) \in Recorded)
    <3>1. run'[p] = Running("down", "revert", run[p].todo, NextFile(p) \in Recorded)
      BY <1>2, <2>1, <2>2 DEF At
    <3>2. run[p].todo = Recorded /\ Recorded' = Recorded
      BY <1>0, <2>1 DEF At, Knows, Recorded
    <3>3. NextFile(p) \in run[p].todo
      BY <1>0, <2>1, <3>2, NextFileIsExtreme
    <3>4. Knows(p)'
      <4>1. (NextFile(p) \in Recorded) = TRUE
        BY <3>2, <3>3
      <4>2. run'[p] = Running("down", "revert", run[p].todo, TRUE)
        BY <3>1, <4>1
      <4> QED BY <3>2, <4>2 DEF Knows, Running
    <3> QED BY <1>5, <2>1, <3>4
  <2>3. CASE Reject(p)
    BY <1>3, <1>5, <2>1, <2>3 DEF Reject
  <2> QED BY <1>11, <2>2, <2>3 DEF Unrecord
<1>12. CASE RevertAndCommit(p)
  <2>1. At(p, "down", "revert") /\ Open(p)
    BY <1>12, AtIsOpen DEF RevertAndCommit
  <2>2. /\ run[p].todo = schema /\ run[p].own
        /\ NextFile(p) \in schema
        /\ \A w \in schema : w <= NextFile(p)
    BY <1>0, <2>1, CallParts, NextFileIsExtreme DEF At, Knows
  <2>3. CASE Reject(p)
    BY <1>3, <1>5, <2>3 DEF Reject
  <2>4. CASE ~Reject(p)
    <3>1. schema' = schema \ {NextFile(p)} /\ Recorded' = schema' /\ Committed(p)
      <4>1. CASE NextFile(p) = Tables
        <5>1. schema \subseteq {Tables}
          BY <1>0, <2>2, <4>1 DEF Tables, Files
        <5>2. schema' = {} /\ booked' = NoTable /\ Committed(p)
          BY <1>12, <2>4, <4>1 DEF RevertAndCommit
        <5> QED BY <4>1, <5>1, <5>2 DEF Recorded
      <4>2. CASE NextFile(p) # Tables
        <5>1. /\ schema' = schema \ {NextFile(p)} /\ Committed(p)
              /\ booked' = booked \ {NextFile(p)}
          BY <1>12, <2>2, <2>4, <4>2 DEF RevertAndCommit
        <5>2. booked = schema
          BY <1>0, <2>2 DEF Recorded
        <5> QED BY <1>0, <1>1, <5>1, <5>2 DEF Recorded
      <4> QED BY <4>1, <4>2
    <3>2. \A v \in schema' : 1..v \subseteq schema'
      <4> SUFFICES ASSUME NEW v \in schema', NEW w \in 1..v PROVE w \in schema'
        OBVIOUS
      <4>1. v \in Files /\ NextFile(p) \in Files /\ v < NextFile(p)
        BY <1>0, <2>2, <3>1 DEF Files
      <4>2. w < NextFile(p)
        BY <4>1 DEF Files
      <4> QED BY <1>0, <3>1, <4>1, <4>2 DEF Files
    <3>3. Knows(p)'
      <4>1. CASE Goto(p, "file", run[p].todo \ {NextFile(p)}, FALSE)
        <5>1. run'[p] = Running("down", "file", run[p].todo \ {NextFile(p)}, FALSE)
          BY <1>2, <2>1, <4>1 DEF At
        <5> QED BY <2>2, <3>1, <5>1 DEF Knows, Running
      <4> QED BY <1>3, <3>1, <4>1 DEF Committed
    <3> QED BY <3>1, <3>2, <3>3 DEF RecordedIsApplied, PrefixApplied
  <2> QED BY <2>3, <2>4
<1>13. CASE Finish(p) \/ Cancel(p)
  BY <1>3, <1>5, <1>13 DEF Finish, Cancel
<1> QED BY <1>6, <1>7, <1>8, <1>9, <1>10, <1>11, <1>12, <1>13 DEF Step
(* No step breaks the invariant, if no Down begins beside another call *)
LEMMA AloneStep ==
    ASSUME ~Overlaps
    PROVE  Alone /\ [Next]_vars => Alone'
<1> SUFFICES ASSUME Alone, [Next]_vars PROVE Alone'
  OBVIOUS
<1>1. Inv'
  BY InvStep DEF Alone
<1>2. CASE UNCHANGED <<schema, booked, run>>
  <2>1. Recorded' = Recorded
    BY <1>2 DEF Recorded
  <2> QED BY <1>1, <1>2, <2>1 DEF Alone, DownIsAlone, DownKnows, UpKnows, RecordedIsApplied,
                               PrefixApplied, Open
<1>3. ASSUME NEW p \in Runners, Up(p) \/ Down(p) \/ Step(p) \/ Cancel(p)
      PROVE  Alone'
  <2>1. Knows(p)' /\ RecordedIsApplied' /\ PrefixApplied'
    BY <1>1, <1>3, OwnStep
  <2>2. ASSUME NEW q \in Runners, q # p
        PROVE  /\ run'[q] = run[q]
               /\ Open(q) => run[q].op = "up" /\ run'[p].op # "down" /\ schema \subseteq schema'
    BY <1>3, <2>2, OthersSeeGrowth
  <2>3. ASSUME NEW q \in Runners PROVE Knows(q)'
    <3>1. CASE q = p
      BY <2>1, <3>1
    <3>2. CASE q # p
      <4>1. CASE Open(q)
        <5>1. run[q].op = "up" /\ schema \subseteq schema' /\ run'[q] = run[q]
          BY <2>2, <3>2, <4>1
        <5> QED BY <5>1 DEF Alone, UpKnows, Knows
      <4>2. CASE ~Open(q)
        BY <2>2, <3>2, <4>2, IdleKnows DEF Open
      <4> QED BY <4>1, <4>2
    <3> QED BY <3>1, <3>2
  <2>4. DownKnows' /\ UpKnows'
    BY <2>3 DEF DownKnows, UpKnows, Knows
  <2>5. DownIsAlone'
    <3> SUFFICES ASSUME NEW r \in Runners, NEW q \in Runners, r # q, (run[r].op = "down")'
                 PROVE  ~Open(q)'
      BY DEF DownIsAlone
    <3>1. CASE r = p
      BY <2>2, <3>1 DEF Open
    <3>2. CASE r # p
      (* r was a Down before the step, which no step of p allows *)
      <4>1. Open(r) /\ run[r].op = "down"
        BY <2>2, <3>2 DEF Open, Idle
      <4> QED BY <2>2, <3>2, <4>1
    <3> QED BY <3>1, <3>2
  <2> QED BY <1>1, <2>1, <2>4, <2>5 DEF Alone
<1>4. CASE StoreDeviceAuthorization \/ CreateSession
  BY <1>2, <1>4, StoresKeepTheSchema
<1>5. CASE UNCHANGED vars
  BY <1>2, <1>5 DEF vars
<1> QED BY <1>3, <1>4, <1>5 DEF Next

(* As long as a Down has the database to itself, schema_migrations records exactly
   what exists, however many Ups start together and wherever a call stops. *)
THEOREM RecordIsRight ==
    ASSUME ~Overlaps
    PROVE  Spec => []RecordedIsApplied
<1>1. Alone => RecordedIsApplied
  BY DEF Alone
<1> QED BY AloneInit, AloneStep, <1>1, PTL DEF Spec

(* Under the same condition the applied files are the first ones in version order:
   an Up continues where an interrupted call stopped. *)
THEOREM OrderIsRight ==
    ASSUME ~Overlaps
    PROVE  Spec => []PrefixApplied
<1>1. Alone => PrefixApplied
  BY DEF Alone
<1> QED BY AloneInit, AloneStep, <1>1, PTL DEF Spec

(* A call that ends without an error has walked over its whole list *)
LEMMA PromiseStep ==
    ASSUME Alone, [Next]_vars, NEW p \in Runners,
           Open(p), ~Open(p)', (reply.err = "ok")'
    PROVE  schema' = IF run[p].op = "up" THEN Files ELSE {}
<1>0. /\ Inv /\ TypeOK /\ run \in [Runners -> Call \cup {Idle}]
      /\ schema \in SUBSET Files /\ Recorded = schema
  BY DEF Alone, Inv, TypeOK, RecordedIsApplied
<1>1. run'[p] # run[p]
  BY DEF Open
<1>2. Up(p) \/ Down(p) \/ Step(p) \/ Cancel(p)
  <2>1. ASSUME NEW q \in Runners, q # p, Up(q) \/ Down(q) \/ Step(q) \/ Cancel(q)
        PROVE  run'[p] = run[p]
    BY <1>0, <2>1, StepMoves DEF Moves
  <2> QED BY <1>1, <2>1, StoresKeepTheSchema DEF Next, vars
<1>3. ASSUME NEW step, NEW todo, NEW own, Goto(p, step, todo, own) PROVE FALSE
  <2>1. run'[p] = Running(run[p].op, step, todo, own)
    BY <1>0, <1>3 DEF Goto
  <2>2. run[p].op # "none"
    BY <1>0, CallParts
  <2> QED BY <2>1, <2>2 DEF Open, Running, Idle
<1>4. ASSUME NEW op, NEW err, Return(p, op, err) PROVE err = "ok"
  BY <1>4 DEF Return
<1>5. ~Return(p, run[p].op, "failed") /\ ~Return(p, run[p].op, "rejected")
  BY <1>4
<1>6. ~Committed(p) /\ ~Reject(p)
  BY <1>3, <1>5 DEF Committed, Reject
<1>7. Finish(p)
  <2>1. ~Up(p) /\ ~Down(p)
    BY DEF Up, Down
  <2>2. ~AppliedVersions(p) /\ ~ApplyFile(p) /\ ~Unrecord(p)
    BY <1>3, <1>6 DEF AppliedVersions, ApplyFile, Unrecord
  <2>3. ~RecordAndCommit(p) /\ ~RevertAndCommit(p)
    BY <1>6 DEF RecordAndCommit, RevertAndCommit
  <2>4. ~Cancel(p)
    BY <1>5 DEF Cancel
  <2> QED BY <1>2, <2>1, <2>2, <2>3, <2>4 DEF Step
<1>8. run[p].todo = {} /\ run[p].step = "file" /\ schema' = schema
  BY <1>7 DEF Finish
<1>9. run[p].op \in {"up", "down"}
  BY <1>0, CallParts
<1> QED BY <1>0, <1>8, <1>9 DEF Alone, DownKnows, UpKnows

(* An Up that returns without an error leaves nothing pending, a Down that returns
   without an error leaves nothing at all (the lists Up and Down read once). *)
THEOREM PromisesKept ==
    ASSUME ~Overlaps
    PROVE  Spec => ReturnsWhatItPromises
<1>1. ASSUME Alone, [Next]_vars
      PROVE  [\A p \in Runners :
                (Open(p) /\ ~Open(p)' /\ reply'.err = "ok")
                => schema' = IF run[p].op = "up" THEN Files ELSE {}]_vars
  BY <1>1, PromiseStep
<1> QED BY AloneInit, AloneStep, <1>1, PTL DEF Spec, ReturnsWhatItPromises
=============================================================================
