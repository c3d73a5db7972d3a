------------------------- MODULE SnapshotStoreProofs -------------------------
(***************************************************************************)
(* A saved idempotency record never comes without its job and event, for   *)
(* every number of threads, processes, saves and restarts, with SQLite and *)
(* Postgres.                                                               *)
(*                                                                         *)
(* The argument follows a record from the thread that makes it to the      *)
(* snapshot: the job and the event are in the thread's memory before the   *)
(* record is, memory loses neither (the Postgres getters put the row in    *)
(* place of the object, so what a record needs must be in the row too),    *)
(* and a save copies the records before it reads the rest.                 *)
(*                                                                         *)
(* What was answered is seen: the same way, for every operation and        *)
(* object, where the property does not excuse a loss.                      *)
(***************************************************************************)
EXTENDS SnapshotStore, SequenceTheorems, TLAPS

Create == "create_evaluation_job"

-----------------------------------------------------------------------------
(* The programs                                                              *)

Step == [do : {"change", "touch"}, of : Objects] \union {Save}

LEMMA Steps ==
  ASSUME NEW o \in Objects
  PROVE  Change(o) \in Step /\ Touch(o) \in Step /\ Save \in Step
BY DEF Step, Change, Touch, Save

LEMMA Concat ==
  ASSUME NEW s \in Seq(Step), NEW r \in Seq(Step)
  PROVE  /\ s \o r \in Seq(Step) /\ Len(s \o r) = Len(s) + Len(r)
         /\ \A i \in 1 .. Len(s) : (s \o r)[i] = s[i]
         /\ \A i \in 1 .. Len(r) : (s \o r)[Len(s) + i] = r[i]
<1>1. /\ s \o r \in Seq(Step) /\ Len(s \o r) = Len(s) + Len(r)
      /\ \A i \in 1 .. Len(s) + Len(r) : (s \o r)[i] = IF i <= Len(s) THEN s[i] ELSE r[i - Len(s)]
  BY ConcatProperties
<1>2. Len(s) \in Nat /\ Len(r) \in Nat
  OBVIOUS
<1> QED
  BY <1>1, <1>2

\* The same by places, and for one or two more elements.
LEMMA ConcatAt ==
  ASSUME NEW s \in Seq(Step), NEW r \in Seq(Step), NEW i \in 1 .. Len(r), NEW k, k = Len(s) + i
  PROVE  (s \o r)[k] = r[i]
<1>1. Len(s) \in Nat /\ Len(r) \in Nat
  OBVIOUS
<1>2. k \in 1 .. Len(s) + Len(r) /\ ~(k <= Len(s)) /\ k - Len(s) = i
  BY <1>1
<1>3. \A h \in 1 .. Len(s) + Len(r) : (s \o r)[h] = IF h <= Len(s) THEN s[h] ELSE r[h - Len(s)]
  BY ConcatProperties
<1> QED
  BY <1>2, <1>3

LEMMA ConcatOne ==
  ASSUME NEW s \in Seq(Step), NEW r \in Seq(Step), Len(r) = 1
  PROVE  /\ s \o r \in Seq(Step) /\ Len(s \o r) = Len(s) + 1
         /\ (s \o r)[Len(s) + 1] = r[1]
         /\ \A i \in 1 .. Len(s) : (s \o r)[i] = s[i]
<1>1. Len(s) \in Nat /\ 1 \in 1 .. Len(r)
  OBVIOUS
<1>2. (s \o r)[Len(s) + 1] = r[1]
  <2>1. \A i \in 1 .. Len(r) : (s \o r)[Len(s) + i] = r[i]
    BY Concat
  <2> QED
    BY <1>1, <2>1
<1>3. /\ s \o r \in Seq(Step) /\ Len(s \o r) = Len(s) + Len(r)
      /\ \A i \in 1 .. Len(s) : (s \o r)[i] = s[i]
  BY Concat
<1> QED
  BY <1>2, <1>3

LEMMA ConcatTwo ==
  ASSUME NEW s \in Seq(Step), NEW r \in Seq(Step), Len(r) = 2
  PROVE  /\ s \o r \in Seq(Step) /\ Len(s \o r) = Len(s) + 2
         /\ (s \o r)[Len(s) + 1] = r[1] /\ (s \o r)[Len(s) + 2] = r[2]
         /\ \A i \in 1 .. Len(s) : (s \o r)[i] = s[i]
<1>1. Len(s) \in Nat /\ 1 \in 1 .. Len(r) /\ 2 \in 1 .. Len(r)
  OBVIOUS
<1>2. (s \o r)[Len(s) + 1] = r[1] /\ (s \o r)[Len(s) + 2] = r[2]
  <2>1. \A i \in 1 .. Len(r) : (s \o r)[Len(s) + i] = r[i]
    BY Concat
  <2> QED
    BY <1>1, <2>1
<1>3. /\ s \o r \in Seq(Step) /\ Len(s \o r) = Len(s) + Len(r)
      /\ \A i \in 1 .. Len(s) : (s \o r)[i] = s[i]
  BY Concat
<1> QED
  BY <1>2, <1>3

LEMMA One ==
  ASSUME NEW x \in Step
  PROVE  <<x>> \in Seq(Step) /\ Len(<<x>>) = 1 /\ <<x>>[1] = x
OBVIOUS

\* An operation with an override that saves is its change and a save.
LEMMA Saved ==
  ASSUME NEW o \in Objects, NEW name \in Overrides
  PROVE  LET s == ChangeAndSave(o, name) IN
         s \in Seq(Step) /\ Len(s) = 2 /\ s[1] = Change(o) /\ s[2] = Save
<1>1. /\ <<Change(o)>> \in Seq(Step) /\ Len(<<Change(o)>>) = 1 /\ <<Change(o)>>[1] = Change(o)
      /\ <<Save>> \in Seq(Step) /\ Len(<<Save>>) = 1 /\ <<Save>>[1] = Save
  BY Steps, One
<1>2. ChangeAndSave(o, name) = <<Change(o)>> \o <<Save>>
  BY DEF ChangeAndSave, SaveAfter
<1> QED
  BY <1>1, <1>2, Concat

LEMMA Unsaved1 ==
  ASSUME NEW o \in Objects, NEW name, name \notin Overrides
  PROVE  LET s == ChangeAndSave(o, name) IN
         s \in Seq(Step) /\ Len(s) = 1 /\ s[1] = Change(o)
<1>1. <<Change(o)>> \in Seq(Step) /\ Len(<<Change(o)>>) = 1 /\ <<Change(o)>>[1] = Change(o)
  BY Steps, One
<1>2. ChangeAndSave(o, name) = <<Change(o)>> \o <<>>
  BY DEF ChangeAndSave, SaveAfter
<1> QED
  BY <1>1, <1>2

LEMMA CreateSteps ==
  ASSUME backend \in {"sqlite", "postgres"}
  PROVE  /\ CreateProgram \in Seq(Step) /\ Len(CreateProgram) = 8
         /\ CreateProgram[1] = Change("token") /\ CreateProgram[2] = Save
         /\ CreateProgram[3] = Change("job") /\ CreateProgram[4] = Change("event")
         /\ CreateProgram[5] = Save /\ CreateProgram[6] = Save
         /\ CreateProgram[7] = Change("record") /\ CreateProgram[8] = Save
<1>1. {"register_resume_token", "append_outbox_event", "create_evaluation_job", "run_idempotent"}
          \subseteq Overrides
  BY DEF Overrides, SqliteRecords, SqliteJobs, SqliteOutbox,
         PostgresRecords, PostgresJobs, PostgresOutbox
<1> DEFINE a == ChangeAndSave("token", "register_resume_token")
           b == <<Change("job")>>
           c == ChangeAndSave("event", "append_outbox_event")
           d == SaveAfter("create_evaluation_job")
           e == ChangeAndSave("record", "run_idempotent")
<1>2. {"token", "job", "event", "record"} \subseteq Objects
  BY DEF Objects
<1>3. a \in Seq(Step) /\ Len(a) = 2 /\ a[1] = Change("token") /\ a[2] = Save
  BY <1>1, <1>2, Saved
<1>4. b \in Seq(Step) /\ Len(b) = 1 /\ b[1] = Change("job")
  BY <1>2, Steps, One
<1>5. c \in Seq(Step) /\ Len(c) = 2 /\ c[1] = Change("event") /\ c[2] = Save
  BY <1>1, <1>2, Saved
<1>6. d \in Seq(Step) /\ Len(d) = 1 /\ d[1] = Save
  BY <1>1, <1>2, Steps, One DEF SaveAfter
<1>7. e \in Seq(Step) /\ Len(e) = 2 /\ e[1] = Change("record") /\ e[2] = Save
  BY <1>1, <1>2, Saved
<1>8. CreateProgram = (((a \o b) \o c) \o d) \o e
  BY DEF CreateProgram
<1> HIDE DEF a, b, c, d, e
<1> DEFINE ab == a \o b
<1>9. /\ ab \in Seq(Step) /\ Len(ab) = 3
      /\ ab[1] = Change("token") /\ ab[2] = Save /\ ab[3] = Change("job")
  <2>1. /\ ab \in Seq(Step) /\ Len(ab) = Len(a) + 1 /\ ab[Len(a) + 1] = b[1]
        /\ \A i \in 1 .. Len(a) : ab[i] = a[i]
    BY <1>3, <1>4, ConcatOne
  <2> QED
    BY <2>1, <1>3, <1>4
<1> HIDE DEF ab
<1> DEFINE abc == ab \o c
<1>10. /\ abc \in Seq(Step) /\ Len(abc) = 5
       /\ abc[1] = Change("token") /\ abc[2] = Save /\ abc[3] = Change("job")
       /\ abc[4] = Change("event") /\ abc[5] = Save
  <2>1. /\ abc \in Seq(Step) /\ Len(abc) = Len(ab) + 2
        /\ abc[Len(ab) + 1] = c[1] /\ abc[Len(ab) + 2] = c[2]
        /\ \A i \in 1 .. Len(ab) : abc[i] = ab[i]
    BY <1>5, <1>9, ConcatTwo
  <2> QED
    BY <2>1, <1>5, <1>9
<1> HIDE DEF abc
<1> DEFINE abcd == abc \o d
<1>11. /\ abcd \in Seq(Step) /\ Len(abcd) = 6
       /\ abcd[1] = Change("token") /\ abcd[2] = Save /\ abcd[3] = Change("job")
       /\ abcd[4] = Change("event") /\ abcd[5] = Save /\ abcd[6] = Save
  <2>1. /\ abcd \in Seq(Step) /\ Len(abcd) = Len(abc) + 1 /\ abcd[Len(abc) + 1] = d[1]
        /\ \A i \in 1 .. Len(abc) : abcd[i] = abc[i]
    BY <1>6, <1>10, ConcatOne
  <2> QED
    BY <2>1, <1>6, <1>10
<1> HIDE DEF abcd
<1> DEFINE all == abcd \o e
<1>12. CreateProgram = all
  BY <1>8 DEF ab, abc, abcd
<1>13. /\ all \in Seq(Step) /\ Len(all) = 8
       /\ all[7] = Change("record") /\ all[8] = Save
       /\ \A i \in 1 .. 6 : all[i] = abcd[i]
  <2>1. /\ all \in Seq(Step) /\ Len(all) = Len(abcd) + 2
        /\ all[Len(abcd) + 1] = e[1] /\ all[Len(abcd) + 2] = e[2]
        /\ \A i \in 1 .. Len(abcd) : all[i] = abcd[i]
    BY <1>7, <1>11, ConcatTwo
  <2> QED
    BY <2>1, <1>7, <1>11
<1> HIDE DEF all
<1> QED
  BY <1>11, <1>12, <1>13

LEMMA ProgramSeq ==
  ASSUME backend \in {"sqlite", "postgres"}, NEW o \in Ops
  PROVE  Program(o) \in Seq(Step)
<1>1. \A x \in Objects : \A name : ChangeAndSave(x, name) \in Seq(Step)
  BY Saved, Unsaved1
<1>2. {"token", "job", "project", "release"} \subseteq Objects
  BY DEF Objects
<1>3. CASE o = "create_evaluation_job"
  BY <1>3, CreateSteps DEF Program
<1>4. CASE o = "execute_release_pipeline"
  BY <1>1, <1>2, <1>4, Concat DEF Program, PipelineProgram
<1>5. CASE o = "cancel_job"
  <2>1. "cancel_job" \in Overrides
    BY DEF Overrides, SqliteReview, PostgresReview
  <2>2. Program(o) = <<Touch("job")>> \o <<Save>>
    BY <1>5, <2>1 DEF Program, CancelProgram, SaveAfter
  <2> QED
    BY <1>2, <2>2, Steps, One, Concat
<1> QED
  BY <1>1, <1>2, <1>3, <1>4, <1>5 DEF Program, Ops

\* Only the creation of an evaluation makes a record, in its seventh step.
LEMMA Programs ==
  ASSUME backend \in {"sqlite", "postgres"}, NEW o \in Ops,
         NEW i \in 1 .. Len(Program(o)), Program(o)[i].do # "save"
  PROVE  /\ Program(o)[i].of \in Objects
         /\ Program(o)[i].of = "record" => o = Create /\ i = 7
<1>1. CASE o = Create
  <2>1. Program(o) = CreateProgram
    BY <1>1 DEF Program, Create
  <2>2. i \in {1, 2, 3, 4, 5, 6, 7, 8}
    BY <2>1, CreateSteps
  <2> QED
    BY <1>1, <2>1, <2>2, CreateSteps DEF Change, Save, Objects
<1>2. ASSUME NEW x \in Objects, NEW name, x # "record", Program(o) = ChangeAndSave(x, name)
      PROVE  Program(o)[i].of \in Objects \ {"record"}
  <2>1. CASE name \in Overrides
    <3>1. Len(Program(o)) = 2 /\ Program(o)[1] = Change(x) /\ Program(o)[2] = Save
      BY <1>2, <2>1, Saved
    <3> QED
      BY <1>2, <3>1 DEF Change, Save
  <2>2. CASE name \notin Overrides
    <3>1. Len(Program(o)) = 1 /\ Program(o)[1] = Change(x)
      BY <1>2, <2>2, Unsaved1
    <3> QED
      BY <1>2, <3>1 DEF Change
  <2> QED
    BY <2>1, <2>2
<1>3. CASE o = "transition_job_status" \/ o = "register_resume_token" \/ o = "update_project"
  BY <1>2, <1>3 DEF Program, Objects
<1>4. CASE o = "cancel_job"
  <2>1. "cancel_job" \in Overrides
    BY DEF Overrides, SqliteReview, PostgresReview
  <2>2. Program(o) = <<Touch("job")>> \o <<Save>>
    BY <1>4, <2>1 DEF Program, CancelProgram, SaveAfter
  <2>3. "job" \in Objects
    BY DEF Objects
  <2>4. Len(Program(o)) = 2 /\ Program(o)[1] = Touch("job") /\ Program(o)[2] = Save
    BY <2>2, <2>3, Steps, One, Concat
  <2> QED
    BY <2>3, <2>4 DEF Touch, Save
<1>5. CASE o = "execute_release_pipeline"
  <2> DEFINE a == ChangeAndSave("release", "evaluate_release_readiness")
             b == ChangeAndSave("release", "execute_release_pipeline")
  <2>1. Program(o) = a \o b
    BY <1>5 DEF Program, PipelineProgram
  <2>2. "release" \in Objects
    BY DEF Objects
  <2>3. a \in Seq(Step) /\ Len(a) \in 1 .. 2 /\ \A k \in 1 .. Len(a) : a[k] \in {Change("release"), Save}
    BY <2>2, Saved, Unsaved1
  <2>4. b \in Seq(Step) /\ Len(b) \in 1 .. 2 /\ \A k \in 1 .. Len(b) : b[k] \in {Change("release"), Save}
    BY <2>2, Saved, Unsaved1
  <2> HIDE DEF a, b
  <2>5. i \in 1 .. Len(a) \/ i - Len(a) \in 1 .. Len(b)
    BY <2>1, <2>3, <2>4, Concat
  <2>6. Program(o)[i] \in {Change("release"), Save}
    <3>1. CASE i \in 1 .. Len(a)
      BY <2>1, <2>3, <2>4, <3>1, Concat
    <3>2. CASE i - Len(a) \in 1 .. Len(b)
      <4>1. (a \o b)[Len(a) + (i - Len(a))] = b[i - Len(a)]
        BY <2>3, <2>4, <3>2, Concat
      <4>2. Len(a) + (i - Len(a)) = i
        BY <2>3
      <4> QED
        BY <2>1, <2>4, <3>2, <4>1, <4>2
    <3> QED
      BY <2>5, <3>1, <3>2
  <2> QED
    BY <2>2, <2>6 DEF Change, Save
<1> QED
  BY <1>1, <1>3, <1>4, <1>5 DEF Ops, Create

-----------------------------------------------------------------------------
(* The invariant                                                             *)

Content == [Objects -> SUBSET Threads]

Typed ==
    /\ backend \in {"sqlite", "postgres"} /\ home \in [Threads -> Processes]
    /\ memory \in [Processes -> Content] /\ disk \in Content /\ row \in Content
    /\ DOMAIN op = Threads /\ DOMAIN at = Threads /\ DOMAIN blob = Threads
    /\ step \in [Threads -> Nat \ {0}]
    /\ \A t \in Threads : /\ at[t] \in {"working", "saving"} => op[t] \in Ops
                          /\ at[t] = "idle" => step[t] = 1
    /\ \A t \in Threads : Saving(t) => blob[t] \in [CopiedFirst -> SUBSET Threads] \union Content

InRow(S) == backend = "postgres" => S \subseteq row["job"]

\* What stands for a store or a snapshot: its records have their job and event.
Backed(x) ==
    /\ x["record"] \subseteq x["job"] /\ x["record"] \subseteq x["event"]
    /\ InRow(x["record"])

\* In a snapshot half read, the records will find theirs when the rest is read.
BlobBacked(t) ==
    IF DOMAIN blob[t] = Objects THEN Backed(blob[t])
    ELSE /\ blob[t]["record"] \subseteq memory[home[t]]["job"]
         /\ blob[t]["record"] \subseteq memory[home[t]]["event"]
         /\ InRow(blob[t]["record"])

\* How far a creation has come, and that the steps 3 and 4 are no saves.
CreationAt(t) ==
    /\ step[t] >= 4 => t \in memory[home[t]]["job"] /\ InRow({t})
    /\ step[t] >= 5 => t \in memory[home[t]]["event"]
    /\ Saving(t) => step[t] \notin {3, 4}

SavedInv ==
    /\ Typed
    /\ \A p \in Processes : Backed(memory[p])
    /\ Backed(disk)
    /\ \A t \in Threads : Saving(t) => BlobBacked(t)
    /\ \A t \in Threads : (op[t] = Create /\ at[t] \in {"working", "saving"}) => CreationAt(t)

LEMMA InitSaved == Init => SavedInv
<1> SUFFICES ASSUME Init PROVE SavedInv
  OBVIOUS
<1>1. Empty \in Content
  BY DEF Empty, Content
<1>2. Typed
  BY <1>1, SnapshotStoreAssumption DEF Init, Typed, Saving
<1>3. Backed(Empty)
  BY DEF Backed, InRow, Empty, Objects
<1> QED
  BY <1>2, <1>3 DEF Init, SavedInv, Saving

-----------------------------------------------------------------------------
(* Steps that change an object                                               *)

\* What a change leaves in memory and in the row.
LEMMA ChangeEffect ==
  ASSUME SavedInv, NEW t \in Threads, ChangeObject(t)
  PROVE  LET o == Current(t).of
             p == home[t]
         IN  /\ o \in Objects /\ p \in Processes /\ op[t] \in Ops /\ step[t] \in Nat
             /\ o = "record" => op[t] = Create /\ step[t] = 7
             /\ memory' \in [Processes -> Content] /\ row' \in Content
             /\ memory'[p][o] = Found(t, o) \union {t}
             /\ \A q \in Processes : \A x \in Objects :
                    q # p \/ x # o => memory'[q][x] = memory[q][x]
             /\ row' = row \/ (o = "job" /\ row'["job"] = Found(t, o) \union {t})
             /\ (backend = "postgres" /\ o = "job" /\ Current(t).do = "change")
                    => row'["job"] = Found(t, o) \union {t}
<1> DEFINE o == Current(t).of
           p == home[t]
           new == Found(t, o) \union {t}
<1>1. /\ op[t] \in Ops /\ p \in Processes /\ step[t] \in Nat
      /\ memory \in [Processes -> Content] /\ row \in Content
  BY DEF SavedInv, Typed, ChangeObject
<1>2. /\ step[t] \in 1 .. Len(Program(op[t])) /\ Current(t).do # "save"
      /\ backend \in {"sqlite", "postgres"}
  <2>1. Len(Program(op[t])) \in Nat
    BY <1>1, ProgramSeq DEF SavedInv, Typed
  <2> QED
    BY <1>1, <2>1 DEF ChangeObject, SavedInv, Typed
<1>3. o \in Objects /\ (o = "record" => op[t] = Create /\ step[t] = 7)
  BY <1>1, <1>2, Programs DEF Current
<1>4. Found(t, o) \subseteq Threads
  BY <1>1, <1>3 DEF Found, Content
<1>5. /\ memory' = [memory EXCEPT ![p][o] = new]
      /\ row' = IF o \in Rows /\ Current(t).do = "change" THEN [row EXCEPT ![o] = new] ELSE row
  BY DEF ChangeObject
<1>6. new \in SUBSET Threads
  BY <1>4
<1> HIDE DEF o, new
<1>7. memory' \in [Processes -> Content] /\ row' \in Content
  BY <1>1, <1>3, <1>5, <1>6 DEF Content
<1>8. memory'[p][o] = new /\ \A q \in Processes : \A x \in Objects :
          q # p \/ x # o => memory'[q][x] = memory[q][x]
  BY <1>1, <1>3, <1>5 DEF Content
<1>9. row' = row \/ (o = "job" /\ row'["job"] = new)
  BY <1>1, <1>3, <1>5 DEF Content, Rows
<1>10. (backend = "postgres" /\ o = "job" /\ Current(t).do = "change") => row'["job"] = new
  BY <1>1, <1>3, <1>5 DEF Content, Rows
<1> QED
  BY <1>1, <1>3, <1>7, <1>8, <1>9, <1>10 DEF o, new

\* Memory and row lose nothing that a record needs.
LEMMA ChangeKeeps ==
  ASSUME SavedInv, NEW t \in Threads, ChangeObject(t), NEW q \in Processes, NEW S
  PROVE  /\ S \subseteq memory[q]["event"] => S \subseteq memory'[q]["event"]
         /\ InRow(S) => InRow(S)'
         /\ (S \subseteq memory[q]["job"] /\ InRow(S)) => S \subseteq memory'[q]["job"]
<1> DEFINE o == Current(t).of
           p == home[t]
<1>1. /\ o \in Objects /\ p \in Processes
      /\ memory'[p][o] = Found(t, o) \union {t}
      /\ \A r \in Processes : \A x \in Objects : r # p \/ x # o => memory'[r][x] = memory[r][x]
      /\ row' = row \/ (o = "job" /\ row'["job"] = Found(t, o) \union {t})
  BY ChangeEffect
<1> HIDE DEF o
<1>2. "event" \in Objects /\ "job" \in Objects
  BY DEF Objects
<1>3. UNCHANGED backend
  BY DEF ChangeObject
<1>4. o = "event" => Found(t, o) = memory[p][o]
  BY DEF Found, Rows
<1>5. (o = "job" /\ InRow(S)) => S \subseteq row["job"] \/ backend # "postgres"
  BY DEF InRow
<1>6. (o = "job" /\ backend = "postgres") => row["job"] \subseteq Found(t, o)
  BY DEF Found, Rows
<1>7. (o = "job" /\ backend # "postgres") => Found(t, o) = memory[p][o]
  BY DEF Found, Rows
<1> QED
  BY <1>1, <1>2, <1>3, <1>4, <1>5, <1>6, <1>7 DEF InRow

LEMMA ChangeObjectSaved ==
  ASSUME SavedInv, NEW t \in Threads, ChangeObject(t)
  PROVE  SavedInv'
<1> DEFINE o == Current(t).of
           p == home[t]
<1>1. /\ o \in Objects /\ p \in Processes /\ op[t] \in Ops /\ step[t] \in Nat
      /\ o = "record" => op[t] = Create /\ step[t] = 7
      /\ memory' \in [Processes -> Content] /\ row' \in Content
      /\ memory'[p][o] = Found(t, o) \union {t}
      /\ \A q \in Processes : \A x \in Objects : q # p \/ x # o => memory'[q][x] = memory[q][x]
      /\ (backend = "postgres" /\ o = "job" /\ Current(t).do = "change")
             => row'["job"] = Found(t, o) \union {t}
  BY ChangeEffect
<1>2. /\ at[t] = "working" /\ UNCHANGED <<backend, home, disk, op, at, blob>>
      /\ step' = [step EXCEPT ![t] = @ + 1]
  BY DEF ChangeObject
<1>3. step'[t] = step[t] + 1 /\ \A u \in Threads : u # t => step'[u] = step[u]
  BY <1>2 DEF SavedInv, Typed
<1>4. Typed'
  BY <1>1, <1>2 DEF SavedInv, Typed, Saving
<1>5. op[t] = Create =>
         /\ step[t] = 3 => o = "job" /\ Current(t).do = "change"
         /\ step[t] = 4 => o = "event"
  BY CreateSteps DEF SavedInv, Typed, Current, Program, Create, Change
<1>6. \A u \in Threads : home[u] \in Processes
  BY DEF SavedInv, Typed
<1>7. \A u \in Threads : (op[u] = Create /\ at[u] \in {"working", "saving"}) => CreationAt(u)'
  <2> SUFFICES ASSUME NEW u \in Threads, op[u] = Create, at[u] \in {"working", "saving"}
               PROVE  CreationAt(u)'
    OBVIOUS
  <2>0. CreationAt(u)
    BY DEF SavedInv
  <2>1. /\ t = u \/ step'[u] = step[u]
        /\ step[u] >= 4 => u \in memory'[home[u]]["job"] /\ InRow({u})'
        /\ step[u] >= 5 => u \in memory'[home[u]]["event"]
    <3>1. /\ {u} \subseteq memory[home[u]]["event"] => {u} \subseteq memory'[home[u]]["event"]
          /\ InRow({u}) => InRow({u})'
          /\ ({u} \subseteq memory[home[u]]["job"] /\ InRow({u}))
                 => {u} \subseteq memory'[home[u]]["job"]
      BY <1>6, ChangeKeeps
    <3> QED
      BY <1>3, <2>0, <3>1 DEF CreationAt
  <2>2. CASE u # t
    BY <1>2, <1>3, <2>0, <2>1, <2>2 DEF CreationAt, Saving
  <2>3. CASE u = t
    <3>1. step[t] = 3 => t \in memory'[p]["job"] /\ InRow({t})'
      <4>1. ASSUME step[t] = 3 PROVE t \in memory'[p]["job"]
        BY <1>1, <1>5, <2>3, <4>1
      <4>2. ASSUME step[t] = 3, backend = "postgres" PROVE t \in row'["job"]
        BY <1>1, <1>5, <2>3, <4>2
      <4> QED
        BY <1>2, <4>1, <4>2 DEF InRow
    <3>2. step[t] = 4 => t \in memory'[p]["event"]
      BY <1>1, <1>5, <2>3
    <3>3. step'[t] >= 4 => step[t] = 3 \/ step[t] >= 4
      BY <1>1, <1>3
    <3>4. step'[t] >= 5 => step[t] = 4 \/ step[t] >= 5
      BY <1>1, <1>3
    <3> QED
      BY <1>2, <2>1, <2>3, <3>1, <3>2, <3>3, <3>4 DEF CreationAt, Saving
  <2> QED
    BY <2>2, <2>3
<1>8. \A q \in Processes : Backed(memory[q])'
  <2> SUFFICES ASSUME NEW q \in Processes PROVE Backed(memory[q])'
    OBVIOUS
  <2>0. PICK R : R = memory[q]["record"]
    OBVIOUS
  <2>1. R \subseteq memory'[q]["job"] /\ R \subseteq memory'[q]["event"] /\ InRow(R)'
    <3>1. R \subseteq memory[q]["job"] /\ R \subseteq memory[q]["event"] /\ InRow(R)
      BY <2>0 DEF SavedInv, Backed
    <3> QED
      BY <3>1, ChangeKeeps
  <2>2. CASE q # p \/ o # "record"
    <3>1. memory'[q]["record"] = R
      BY <1>1, <2>0, <2>2 DEF Objects
    <3> QED
      BY <2>1, <3>1 DEF Backed, InRow
  <2>3. CASE q = p /\ o = "record"
    <3>1. memory'[q]["record"] = R \union {t}
      BY <1>1, <2>0, <2>3 DEF Found, Rows
    <3>2. t \in memory'[p]["job"] /\ InRow({t})' /\ t \in memory'[p]["event"]
      <4>1. step'[t] = 8 /\ home'[t] = p
        BY <1>1, <1>2, <1>3, <2>3
      <4>2. CreationAt(t)'
        BY <1>1, <1>2, <1>7, <2>3
      <4> QED
        BY <4>1, <4>2 DEF CreationAt
    <3> QED
      BY <2>1, <2>3, <3>1, <3>2 DEF Backed, InRow
  <2> QED
    BY <2>2, <2>3
<1>9. Backed(disk)'
  <2>1. InRow(disk["record"])'
    <3>0. PICK R : R = disk["record"]
      OBVIOUS
    <3>1. InRow(R)
      BY <3>0 DEF SavedInv, Backed
    <3>2. InRow(R)'
      BY <1>1, <3>1, ChangeKeeps
    <3> QED
      BY <1>2, <3>0, <3>2 DEF InRow
  <2> QED
    BY <1>2, <2>1 DEF SavedInv, Backed
<1>10. ASSUME NEW u \in Threads, Saving(u) PROVE BlobBacked(u)'
  <2>0. PICK R : R = blob[u]["record"]
    OBVIOUS
  <2>1. BlobBacked(u)
    BY <1>10 DEF SavedInv
  <2>2. InRow(R) => InRow(R)'
    BY <1>6, ChangeKeeps
  <2>3. CASE DOMAIN blob[u] = Objects
    BY <1>2, <2>0, <2>1, <2>2, <2>3 DEF BlobBacked, Backed, InRow
  <2>4. CASE DOMAIN blob[u] # Objects
    <3>1. R \subseteq memory[home[u]]["job"] /\ R \subseteq memory[home[u]]["event"] /\ InRow(R)
      BY <2>0, <2>1, <2>4 DEF BlobBacked
    <3>2. R \subseteq memory'[home[u]]["job"] /\ R \subseteq memory'[home[u]]["event"]
      BY <1>6, <3>1, ChangeKeeps
    <3> QED
      BY <1>2, <2>0, <2>2, <2>4, <3>1, <3>2 DEF BlobBacked, InRow
  <2> QED
    BY <2>3, <2>4
<1> QED
  BY <1>2, <1>4, <1>7, <1>8, <1>9, <1>10 DEF SavedInv, Saving

-----------------------------------------------------------------------------
(* Saves, answers and restarts                                               *)

\* Steps of t that leave memory and rows: its place, its snapshot, the disk.
LEMMA QuietSaved ==
  ASSUME SavedInv, NEW t \in Threads, UNCHANGED <<backend, home, memory, row>>, Typed',
         \A u \in Threads : u # t =>
             /\ op'[u] = op[u] /\ at'[u] = at[u] /\ step'[u] = step[u] /\ blob'[u] = blob[u],
         Backed(disk)',
         Saving(t)' => BlobBacked(t)',
         (op'[t] = Create /\ at'[t] \in {"working", "saving"}) => CreationAt(t)'
  PROVE  SavedInv'
<1>1. \A p \in Processes : Backed(memory[p])'
  BY DEF SavedInv, Backed, InRow
<1>2. \A u \in Threads : Saving(u)' => BlobBacked(u)'
  BY DEF SavedInv, Saving, BlobBacked, Backed, InRow
<1>3. \A u \in Threads : (op'[u] = Create /\ at'[u] \in {"working", "saving"}) => CreationAt(u)'
  BY DEF SavedInv, CreationAt, Saving, InRow
<1> QED
  BY <1>1, <1>2, <1>3 DEF SavedInv

LEMMA BeginSaved ==
  ASSUME SavedInv, NEW t \in Threads, NEW o \in Ops, Begin(t, o)
  PROVE  SavedInv'
<1>1. /\ at[t] = "idle" /\ UNCHANGED <<backend, home, memory, disk, row, step, blob>>
      /\ op' = [op EXCEPT ![t] = o] /\ at' = [at EXCEPT ![t] = "working"]
  BY DEF Begin
<1>2. /\ op'[t] = o /\ at'[t] = "working" /\ DOMAIN op' = Threads /\ DOMAIN at' = Threads
      /\ \A u \in Threads : u # t => op'[u] = op[u] /\ at'[u] = at[u]
  BY <1>1 DEF SavedInv, Typed
<1>3. Typed'
  BY <1>1, <1>2 DEF SavedInv, Typed, Saving
<1>4. Backed(disk)'
  BY <1>1 DEF SavedInv, Backed, InRow
<1>5. CreationAt(t)' /\ ~Saving(t)'
  <2>1. step'[t] = 1
    BY <1>1 DEF SavedInv, Typed
  <2> QED
    BY <1>2, <2>1 DEF CreationAt, Saving
<1> QED
  BY <1>1, <1>2, <1>3, <1>4, <1>5, QuietSaved

LEMMA StartSaveSaved ==
  ASSUME SavedInv, NEW t \in Threads, StartSave(t)
  PROVE  SavedInv'
<1> DEFINE b == [o \in CopiedFirst |-> memory[home[t]][o]]
<1>1. /\ at[t] = "working" /\ UNCHANGED <<backend, home, memory, disk, row, op, step>>
      /\ at' = [at EXCEPT ![t] = "saving"] /\ blob' = [blob EXCEPT ![t] = b]
      /\ Current(t).do = "save"
  BY DEF StartSave
<1>2. /\ at'[t] = "saving" /\ blob'[t] = b /\ DOMAIN blob' = Threads /\ DOMAIN at' = Threads
      /\ \A u \in Threads : u # t => blob'[u] = blob[u] /\ at'[u] = at[u]
  BY <1>1 DEF SavedInv, Typed
<1>3. b["record"] = memory[home[t]]["record"] /\ DOMAIN b # Objects /\ home[t] \in Processes
      /\ b \in [CopiedFirst -> SUBSET Threads]
  <2>1. home[t] \in Processes /\ memory[home[t]] \in Content
    BY DEF SavedInv, Typed
  <2>2. \A o \in CopiedFirst : memory[home[t]][o] \in SUBSET Threads
    BY <2>1 DEF Content, CopiedFirst, Objects
  <2>3. DOMAIN b = {"record"} /\ "record" \in CopiedFirst
    BY DEF CopiedFirst
  <2>4. "job" \in Objects /\ "job" \notin {"record"}
    BY DEF Objects
  <2> QED
    BY <2>1, <2>2, <2>3, <2>4
<1> HIDE DEF b
<1>4. Typed'
  BY <1>1, <1>2, <1>3 DEF SavedInv, Typed, Saving
<1>5. Backed(disk)' /\ BlobBacked(t)'
  BY <1>1, <1>2, <1>3 DEF SavedInv, Backed, BlobBacked, InRow
<1>6. op[t] = Create => CreationAt(t)'
  <2>1. op[t] = Create => step[t] \notin {3, 4}
    BY <1>1, CreateSteps DEF SavedInv, Typed, Current, Program, Create, Change
  <2> QED
    BY <1>1, <2>1 DEF SavedInv, CreationAt, InRow
<1> QED
  BY <1>1, <1>2, <1>4, <1>5, <1>6, QuietSaved

LEMMA EncodeSaved ==
  ASSUME SavedInv, NEW t \in Threads, Encode(t)
  PROVE  SavedInv'
<1> DEFINE b == [o \in Objects |-> IF o \in DOMAIN blob[t] THEN blob[t][o] ELSE memory[home[t]][o]]
<1>1. /\ Saving(t) /\ DOMAIN blob[t] # Objects
      /\ UNCHANGED <<backend, home, memory, disk, row, op, at, step>>
      /\ blob' = [blob EXCEPT ![t] = b]
  BY DEF Encode
<1>2. /\ blob'[t] = b /\ DOMAIN blob' = Threads
      /\ \A u \in Threads : u # t => blob'[u] = blob[u]
  BY <1>1 DEF SavedInv, Typed
<1>3. blob[t] \in [CopiedFirst -> SUBSET Threads] /\ home[t] \in Processes
      /\ memory[home[t]] \in Content
  BY <1>1 DEF SavedInv, Typed, Content
<1>4. /\ b \in Content /\ DOMAIN b = Objects /\ b["record"] = blob[t]["record"]
      /\ b["job"] = memory[home[t]]["job"] /\ b["event"] = memory[home[t]]["event"]
  BY <1>3 DEF CopiedFirst, Objects, Content
<1> HIDE DEF b
<1>5. Typed'
  BY <1>1, <1>2, <1>4 DEF SavedInv, Typed, Saving
<1>6. Backed(disk)' /\ BlobBacked(t)'
  BY <1>1, <1>2, <1>4 DEF SavedInv, Backed, BlobBacked, InRow
<1>7. (op[t] = Create /\ at[t] \in {"working", "saving"}) => CreationAt(t)'
  BY <1>1 DEF SavedInv, CreationAt, InRow, Saving
<1> QED
  BY <1>1, <1>2, <1>5, <1>6, <1>7, QuietSaved

LEMMA WriteSaved ==
  ASSUME SavedInv, NEW t \in Threads, WriteSnapshot(t)
  PROVE  SavedInv'
<1>1. /\ Saving(t) /\ DOMAIN blob[t] = Objects /\ disk' = blob[t]
      /\ UNCHANGED <<backend, home, memory, row, op>>
      /\ blob' = [blob EXCEPT ![t] = <<>>] /\ at' = [at EXCEPT ![t] = "working"]
      /\ step' = [step EXCEPT ![t] = @ + 1]
  BY DEF WriteSnapshot
<1>2. /\ at'[t] = "working" /\ step'[t] = step[t] + 1 /\ step[t] \in Nat \ {0}
      /\ DOMAIN blob' = Threads /\ DOMAIN at' = Threads /\ step' \in [Threads -> Nat \ {0}]
      /\ \A u \in Threads : u # t => blob'[u] = blob[u] /\ at'[u] = at[u] /\ step'[u] = step[u]
  BY <1>1 DEF SavedInv, Typed
<1>3. "event" \notin CopiedFirst /\ "event" \in Objects
  BY DEF CopiedFirst, Objects
<1>4. disk' \in Content /\ Backed(disk)'
  <2>1. blob[t] \in [CopiedFirst -> SUBSET Threads] \union Content /\ BlobBacked(t)
    BY <1>1 DEF SavedInv, Typed
  <2>2. blob[t] \in Content
    BY <1>1, <1>3, <2>1 DEF Content
  <2> QED
    BY <1>1, <2>1, <2>2 DEF BlobBacked, Backed, InRow
<1>5. Typed'
  BY <1>1, <1>2, <1>4 DEF SavedInv, Typed, Saving
<1>6. op[t] = Create => CreationAt(t)'
  <2> SUFFICES ASSUME op[t] = Create PROVE CreationAt(t)'
    OBVIOUS
  <2>1. CreationAt(t) /\ step[t] \notin {3, 4}
    BY <1>1 DEF SavedInv, CreationAt, Saving
  <2>2. (step'[t] >= 4 => step[t] >= 4) /\ (step'[t] >= 5 => step[t] >= 5)
    BY <1>2, <2>1
  <2> QED
    BY <1>1, <1>2, <2>1, <2>2 DEF CreationAt, InRow, Saving
<1> QED
  BY <1>1, <1>2, <1>4, <1>5, <1>6, QuietSaved DEF Saving

LEMMA AnswerSaved ==
  ASSUME SavedInv, NEW t \in Threads, Answer(t)
  PROVE  SavedInv'
<1>1. /\ UNCHANGED <<backend, home, memory, disk, row, op, blob>>
      /\ at' = [at EXCEPT ![t] = "answered"] /\ step' = [step EXCEPT ![t] = 1]
  BY DEF Answer
<1>2. /\ at'[t] = "answered" /\ DOMAIN at' = Threads /\ step' \in [Threads -> Nat \ {0}]
      /\ \A u \in Threads : u # t => at'[u] = at[u] /\ step'[u] = step[u]
  BY <1>1 DEF SavedInv, Typed
<1>3. Typed' /\ Backed(disk)'
  BY <1>1, <1>2 DEF SavedInv, Typed, Saving, Backed, InRow
<1> QED
  BY <1>1, <1>2, <1>3, QuietSaved DEF Saving

LEMMA RestartSaved ==
  ASSUME SavedInv, NEW p \in Processes, Restart(p)
  PROVE  SavedInv'
<1> DEFINE lost == {t \in Threads : home[t] = p /\ at[t] \in {"working", "saving"}}
<1>1. /\ UNCHANGED <<backend, home, disk, row, op>> /\ memory' = [memory EXCEPT ![p] = disk]
      /\ at' = [t \in Threads |-> IF t \in lost THEN "lost" ELSE at[t]]
      /\ step' = [t \in Threads |-> IF t \in lost THEN 1 ELSE step[t]]
      /\ blob' = [t \in Threads |-> IF t \in lost THEN <<>> ELSE blob[t]]
  BY DEF Restart, Loaded
<1>2. /\ memory' \in [Processes -> Content] /\ memory'[p] = disk
      /\ \A q \in Processes : q # p => memory'[q] = memory[q]
  BY <1>1 DEF SavedInv, Typed
<1>3. \A t \in Threads : at'[t] \in {"working", "saving"} =>
          home[t] # p /\ at'[t] = at[t] /\ step'[t] = step[t] /\ blob'[t] = blob[t]
  BY <1>1
<1>4. Typed'
  BY <1>1, <1>2 DEF SavedInv, Typed, Saving
<1>5. (\A q \in Processes : Backed(memory[q])') /\ Backed(disk)'
  BY <1>1, <1>2 DEF SavedInv, Backed, InRow
<1>6. \A t \in Threads : at'[t] \in {"working", "saving"} => memory'[home[t]] = memory[home[t]]
  BY <1>2, <1>3 DEF SavedInv, Typed
<1>7. ASSUME NEW t \in Threads, Saving(t)' PROVE BlobBacked(t)'
  <2>1. Saving(t) /\ blob'[t] = blob[t] /\ memory'[home[t]] = memory[home[t]]
    BY <1>3, <1>6, <1>7 DEF Saving
  <2> QED
    BY <1>1, <2>1 DEF SavedInv, BlobBacked, Backed, InRow
<1>8. ASSUME NEW t \in Threads, op[t] = Create, at'[t] \in {"working", "saving"}
      PROVE  CreationAt(t)'
  <2>1. CreationAt(t) /\ step'[t] = step[t] /\ at'[t] = at[t] /\ memory'[home[t]] = memory[home[t]]
    BY <1>3, <1>6, <1>8 DEF SavedInv
  <2> QED
    BY <1>1, <2>1 DEF CreationAt, InRow, Saving
<1> QED
  BY <1>1, <1>4, <1>5, <1>7, <1>8 DEF SavedInv

LEMMA StepSaved == SavedInv /\ [Next]_vars => SavedInv'
<1> SUFFICES ASSUME SavedInv, [Next]_vars PROVE SavedInv'
  OBVIOUS
<1>1. CASE UNCHANGED vars
  BY <1>1 DEF vars, task, history, SavedInv, Typed, Backed, BlobBacked, CreationAt, Saving, InRow
<1> QED
  BY <1>1, BeginSaved, ChangeObjectSaved, StartSaveSaved, EncodeSaved, WriteSaved, AnswerSaved,
     RestartSaved DEF Next

\* _state_snapshot copies the records before json.dumps reads the rest: whatever
\* is saved or restarted in between, a saved record has its job and its event.
THEOREM RecordsHaveEffect == Spec => []RecordHasEffect
<1>1. SavedInv => RecordHasEffect
  BY DEF SavedInv, Backed, RecordHasEffect
<1> QED
  BY <1>1, InitSaved, StepSaved, PTL DEF Spec
-----------------------------------------------------------------------------
(* What was answered is seen.  What an operation did so far is in the row or *)
(* in the memory of its process; unless it is excused, it is also in what a  *)
(* save of that process has read of the object, and from its own save on in  *)
(* the snapshot, which is what a restarted process finds.                    *)

DoneAt(t, i) == (i < step[t] \/ Answered(t)) /\ Program(op[t])[i].do # "save"
Done(t) == {o \in Objects :
               \E i \in 1 .. Len(Program(op[t])) : DoneAt(t, i) /\ Program(op[t])[i].of = o}

Alive(t) == at[t] \in {"working", "saving", "answered"}
Alone(t) == \A u \in Threads : home[u] # home[t] => op[u] = None
Lasting(t) == t \notin raced /\ op[t] \notin Unsaved /\ Alone(t)

JustSaved(t) ==
    \/ Answered(t)
    \/ \E i \in 1 .. Len(Program(op[t])) : step[t] = i + 1 /\ Program(op[t])[i].do = "save"

PlaceOf(t) ==
    /\ at[t] = "idle" => op[t] = None
    /\ Alive(t) => op[t] \in Ops /\ step[t] <= Len(Program(op[t])) + 1
    /\ Saving(t) => step[t] <= Len(Program(op[t])) /\ Current(t).do = "save"

Places ==
    /\ DOMAIN before = Threads
    /\ \A t \in Threads :
        /\ PlaceOf(t)
        /\ before[t] \subseteq {u \in Threads : Answered(u)}
    /\ restarts \in Nat

InRowOf(t) ==
    (backend = "postgres" /\ op[t] # "cancel_job" /\ "job" \in Done(t)) => t \in row["job"]

InMemoryOf(t, o) == (restarts = 0 \/ Lasting(t)) => t \in memory[home[t]][o]
InBlobsOf(t, o) ==
    \A u \in Threads : (Lasting(t) /\ Saving(u) /\ home[u] = home[t] /\ o \in DOMAIN blob[u]) =>
        t \in blob[u][o]
OnDiskOf(t, o) == (Lasting(t) /\ JustSaved(t)) => t \in disk[o]

KeptOf(t) ==
    /\ InRowOf(t)
    /\ \A o \in Done(t) \ Rows : InMemoryOf(t, o) /\ InBlobsOf(t, o) /\ OnDiskOf(t, o)

SeenInv == Places /\ \A t \in Threads : Alive(t) => KeptOf(t)

LEMMA ChangesOrSaves ==
  ASSUME NEW o \in Objects, NEW name
  PROVE  LET s == ChangeAndSave(o, name) IN
         /\ s \in Seq(Step) /\ Len(s) \in {1, 2}
         /\ \A k \in 1 .. Len(s) : s[k].do \in {"change", "save"}
         /\ name \in Overrides => s[Len(s)].do = "save"
<1> PICK s : s = ChangeAndSave(o, name)
  OBVIOUS
<1>1. CASE name \in Overrides
  <2>1. s \in Seq(Step) /\ Len(s) = 2 /\ s[1] = Change(o) /\ s[2] = Save
    BY <1>1, Saved
  <2>2. s[1].do = "change" /\ s[2].do = "save"
    BY <2>1 DEF Change, Save
  <2>3. \A k \in 1 .. Len(s) : k = 1 \/ k = 2
    BY <2>1
  <2> QED
    BY <2>1, <2>2, <2>3
<1>2. CASE name \notin Overrides
  <2>1. s \in Seq(Step) /\ Len(s) = 1 /\ s[1] = Change(o)
    BY <1>2, Unsaved1
  <2>2. s[1].do = "change"
    BY <2>1 DEF Change
  <2>3. \A k \in 1 .. Len(s) : k = 1
    BY <2>1
  <2> QED
    BY <1>2, <2>1, <2>2, <2>3
<1> QED
  BY <1>1, <1>2

LEMMA ProgramShape ==
  ASSUME backend \in {"sqlite", "postgres"}, NEW o \in Ops
  PROVE  /\ Program(o) \in Seq(Step) /\ Len(Program(o)) \in Nat \ {0}
         /\ \A i \in 1 .. Len(Program(o)) : Program(o)[i].do # "save" =>
                /\ Program(o)[i].of \in Objects
                /\ Program(o)[i].do = "change" \/ o = "cancel_job"
         /\ o \notin Unsaved => Program(o)[Len(Program(o))].do = "save"
<1>1. Program(o) \in Seq(Step)
  BY ProgramSeq
<1>2. \A i \in 1 .. Len(Program(o)) : Program(o)[i].do # "save" => Program(o)[i].of \in Objects
  BY Programs
<1>3. ASSUME NEW x \in Objects, NEW name, Program(o) = ChangeAndSave(x, name),
             o \notin Unsaved => name \in Overrides
      PROVE  /\ Len(Program(o)) \in Nat \ {0}
             /\ \A i \in 1 .. Len(Program(o)) : Program(o)[i].do \in {"save", "change"}
             /\ o \notin Unsaved => Program(o)[Len(Program(o))].do = "save"
  <2> PICK s : s = Program(o)
    OBVIOUS
  <2>1. /\ s \in Seq(Step) /\ Len(s) \in {1, 2}
        /\ \A k \in 1 .. Len(s) : s[k].do \in {"change", "save"}
        /\ name \in Overrides => s[Len(s)].do = "save"
    BY <1>3, ChangesOrSaves
  <2> QED
    BY <1>3, <2>1
<1>4. {"job", "token", "project", "release"} \subseteq Objects
  BY DEF Objects
<1>5. CASE o = "create_evaluation_job"
  <2>1. Program(o) = CreateProgram
    BY <1>5 DEF Program
  <2>2. \A i \in 1 .. 8 : CreateProgram[i].do \in {"save", "change"}
    <3>1. \A i \in 1 .. 8 : i \in {1, 2, 3, 4, 5, 6, 7, 8}
      OBVIOUS
    <3> QED
      BY <3>1, CreateSteps DEF Change, Save
  <2>3. Len(Program(o)) = 8 /\ Program(o)[8].do = "save"
    BY <2>1, CreateSteps DEF Save
  <2> QED
    BY <1>1, <1>2, <2>1, <2>2, <2>3
<1>6. CASE o = "transition_job_status"
  <2>1. o \in Overrides
    BY <1>6 DEF Overrides, SqliteJobs, PostgresJobs
  <2> QED
    BY <1>1, <1>2, <1>3, <1>4, <1>6, <2>1 DEF Program
<1>7. CASE o = "register_resume_token"
  <2>1. o \in Overrides
    BY <1>7 DEF Overrides, SqliteJobs, PostgresJobs
  <2> QED
    BY <1>1, <1>2, <1>3, <1>4, <1>7, <2>1 DEF Program
<1>8. CASE o = "update_project"
  BY <1>1, <1>2, <1>3, <1>4, <1>8 DEF Program, Unsaved
<1>9. CASE o = "cancel_job"
  <2>1. "cancel_job" \in Overrides
    BY DEF Overrides, SqliteReview, PostgresReview
  <2>2. Program(o) = <<Touch("job")>> \o <<Save>>
    BY <1>9, <2>1 DEF Program, CancelProgram, SaveAfter
  <2>3. Len(Program(o)) = 2 /\ Program(o)[2] = Save
    BY <1>4, <2>2, Steps, One, Concat
  <2> QED
    BY <1>1, <1>2, <1>9, <2>3 DEF Save
<1>10. CASE o = "execute_release_pipeline"
  <2> PICK a : a = ChangeAndSave("release", "evaluate_release_readiness")
    OBVIOUS
  <2> PICK b : b = ChangeAndSave("release", "execute_release_pipeline")
    OBVIOUS
  <2> PICK P : P = Program(o)
    OBVIOUS
  <2>1. P = a \o b
    BY <1>10 DEF Program, PipelineProgram
  <2>2. a \in Seq(Step) /\ Len(a) \in {1, 2} /\ \A k \in 1 .. Len(a) : a[k].do \in {"change", "save"}
    BY <1>4, ChangesOrSaves
  <2>3. b \in Seq(Step) /\ Len(b) \in {1, 2} /\ \A k \in 1 .. Len(b) : b[k].do \in {"change", "save"}
    BY <1>4, ChangesOrSaves
  <2>4. o \notin Unsaved => b[Len(b)].do = "save"
    <3>1. o \notin Unsaved => o \in Overrides
      BY <1>10 DEF Unsaved, Overrides, SqliteRelease
    <3> QED
      BY <1>4, <1>10, <3>1, ChangesOrSaves
  <2>5. Len(P) = Len(a) + Len(b)
    BY <2>1, <2>2, <2>3, Concat
  <2>6. ASSUME NEW i \in 1 .. Len(P) PROVE P[i].do \in {"change", "save"}
    <3>1. CASE i \in 1 .. Len(a)
      BY <2>1, <2>2, <2>3, <3>1, Concat
    <3>2. CASE i \notin 1 .. Len(a)
      <4>1. i - Len(a) \in 1 .. Len(b) /\ i = Len(a) + (i - Len(a))
        BY <2>2, <2>3, <2>5, <2>6, <3>2
      <4> QED
        BY <2>1, <2>2, <2>3, <4>1, ConcatAt
    <3> QED
      BY <3>1, <3>2
  <2>7. P[Len(P)] = b[Len(b)]
    <3>1. Len(b) \in 1 .. Len(b)
      BY <2>3
    <3> QED
      BY <2>1, <2>2, <2>3, <2>5, <3>1, ConcatAt
  <2>8. Len(P) \in Nat \ {0}
    BY <2>2, <2>3, <2>5
  <2> QED
    BY <1>1, <1>2, <2>4, <2>6, <2>7, <2>8
<1> QED
  BY <1>5, <1>6, <1>7, <1>8, <1>9, <1>10 DEF Ops

\* The backend is chosen once, and so is what an operation does.
LEMMA ProgramSame ==
  ASSUME UNCHANGED backend, NEW o
  PROVE  Program(o)' = Program(o)
<1>1. Overrides' = Overrides
  BY DEF Overrides
<1>2. \A name : SaveAfter(name)' = SaveAfter(name)
  BY <1>1 DEF SaveAfter
<1>3. \A p, name : ChangeAndSave(p, name)' = ChangeAndSave(p, name)
  BY <1>2 DEF ChangeAndSave
<1>4. CreateProgram' = CreateProgram /\ CancelProgram' = CancelProgram
      /\ PipelineProgram' = PipelineProgram
  BY <1>2, <1>3 DEF CreateProgram, CancelProgram, PipelineProgram
<1> QED
  BY <1>3, <1>4 DEF Program

LEMMA ProgramStays ==
  ASSUME UNCHANGED backend, NEW t, op'[t] = op[t]
  PROVE  Program(op[t])' = Program(op[t])
<1> PICK o : o = op[t]
  OBVIOUS
<1>1. Program(o)' = Program(o)
  BY ProgramSame
<1> QED
  BY <1>1

\* What a thread that does not move has done, and what may no longer excuse it.
LEMMA DoneStays ==
  ASSUME UNCHANGED backend, NEW t, op'[t] = op[t], step'[t] = step[t],
         Answered(t)' <=> Answered(t)
  PROVE  Done(t)' = Done(t) /\ (JustSaved(t)' <=> JustSaved(t)) /\ Rows' = Rows
<1>1. Program(op[t])' = Program(op[t])
  BY ProgramStays
<1> PICK P : P = Program(op[t])
  OBVIOUS
<1>2. Done(t) = {o \in Objects : \E i \in 1 .. Len(P) :
                    ((i < step[t] \/ Answered(t)) /\ P[i].do # "save") /\ P[i].of = o}
  BY DEF Done, DoneAt
<1>3. Done(t)' = {o \in Objects : \E i \in 1 .. Len(P) :
                    ((i < step'[t] \/ Answered(t)') /\ P[i].do # "save") /\ P[i].of = o}
  BY <1>1 DEF Done, DoneAt
<1>4. JustSaved(t) <=> (Answered(t) \/ \E i \in 1 .. Len(P) : step[t] = i + 1 /\ P[i].do = "save")
  BY DEF JustSaved
<1>5. JustSaved(t)' <=> (Answered(t)' \/ \E i \in 1 .. Len(P) : step'[t] = i + 1 /\ P[i].do = "save")
  BY <1>1 DEF JustSaved
<1>6. Rows' = Rows
  BY DEF Rows
<1> QED
  BY <1>2, <1>3, <1>4, <1>5, <1>6

LEMMA LastingWas ==
  ASSUME UNCHANGED <<backend, home>>, NEW t \in Threads, op'[t] = op[t], raced \subseteq raced',
         \A u \in Threads : op'[u] = None => op[u] = None
  PROVE  Lasting(t)' => Lasting(t)
<1>1. Unsaved' = Unsaved
  BY DEF Unsaved
<1> QED
  BY <1>1 DEF Lasting, Alone

\* A thread that rests keeps what it has done, if what holds that does.
LEMMA KeptStays ==
  ASSUME UNCHANGED <<backend, home>>, NEW t \in Threads, op'[t] = op[t], step'[t] = step[t],
         Answered(t)' <=> Answered(t), raced \subseteq raced',
         \A u \in Threads : op'[u] = None => op[u] = None,
         KeptOf(t), row["job"] \subseteq row'["job"],
         \A o \in Done(t) \ Rows : Lasting(t)' =>
             InBlobsOf(t, o)' /\ (OnDiskOf(t, o) => OnDiskOf(t, o)'),
         \A o \in Done(t) \ Rows : InMemoryOf(t, o) => InMemoryOf(t, o)'
  PROVE  KeptOf(t)'
<1>1. Done(t)' = Done(t) /\ (JustSaved(t)' <=> JustSaved(t)) /\ Rows' = Rows
  BY DoneStays
<1>2. Lasting(t)' => Lasting(t)
  BY LastingWas
<1>3. InRowOf(t)'
  BY <1>1 DEF KeptOf, InRowOf
<1>4. ASSUME NEW o \in Done(t) \ Rows
      PROVE  InMemoryOf(t, o)' /\ InBlobsOf(t, o)' /\ OnDiskOf(t, o)'
  <2>1. InMemoryOf(t, o)'
    BY DEF KeptOf
  <2>2. CASE Lasting(t)'
    BY <2>1, <2>2 DEF KeptOf
  <2>3. CASE ~Lasting(t)'
    BY <2>1, <2>3 DEF InBlobsOf, OnDiskOf
  <2> QED
    BY <2>2, <2>3
<1> QED
  BY <1>1, <1>3, <1>4 DEF KeptOf

\* The place of a thread that rests.
LEMMA PlaceStays ==
  ASSUME UNCHANGED backend, NEW t, op'[t] = op[t], step'[t] = step[t], at'[t] = at[t], PlaceOf(t)
  PROVE  PlaceOf(t)'
<1>1. Program(op[t])' = Program(op[t])
  BY ProgramStays
<1>2. Current(t)' = Current(t)
  BY <1>1 DEF Current
<1> QED
  BY <1>1, <1>2 DEF PlaceOf, Alive, Saving

LEMMA BeginSeen ==
  ASSUME SavedInv, SeenInv, NEW t \in Threads, NEW o \in Ops, Begin(t, o)
  PROVE  SeenInv'
<1>1. /\ at[t] = "idle" /\ UNCHANGED <<backend, home, memory, disk, row, step, blob, raced, restarts>>
      /\ op' = [op EXCEPT ![t] = o] /\ at' = [at EXCEPT ![t] = "working"]
      /\ before' = [before EXCEPT ![t] = {u \in Threads : Answered(u)}]
  BY DEF Begin
<1>2. /\ op'[t] = o /\ at'[t] = "working" /\ step'[t] = 1 /\ op[t] = None
      /\ \A u \in Threads : u # t => op'[u] = op[u] /\ at'[u] = at[u] /\ before'[u] = before[u]
  BY <1>1 DEF SavedInv, Typed, SeenInv, Places, PlaceOf
<1>3. \A u \in Threads : /\ Answered(u)' <=> Answered(u)
                         /\ Saving(u)' <=> Saving(u)
  BY <1>1, <1>2 DEF Answered, Saving
<1>4. Places'
  <2>1. Len(Program(o)) \in Nat \ {0}
    BY ProgramShape DEF SavedInv, Typed
  <2>2. Len(Program(op[t]))' \in Nat \ {0}
    BY <1>1, <1>2, <2>1, ProgramSame
  <2>3. PlaceOf(t)'
    BY <1>2, <2>2 DEF PlaceOf, Alive, Saving
  <2>4. \A u \in Threads : u # t => PlaceOf(u)'
    BY <1>1, <1>2, PlaceStays DEF SeenInv, Places
  <2>5. \A u \in Threads : before'[u] \subseteq {w \in Threads : Answered(w)'}
    BY <1>1, <1>2, <1>3 DEF SeenInv, Places
  <2> QED
    BY <1>1, <2>3, <2>4, <2>5 DEF SeenInv, Places
<1>5. ASSUME NEW u \in Threads, Alive(u)' PROVE KeptOf(u)'
  <2>1. CASE u = t
    <3>1. \A i \in 1 .. Len(Program(op[t]))' : ~(i < step'[t]) /\ ~Answered(t)'
      BY <1>1, <1>2, <1>3 DEF Answered
    <3>2. Done(t)' = {}
      BY <3>1 DEF Done, DoneAt
    <3> QED
      BY <2>1, <3>2 DEF KeptOf, InRowOf
  <2>2. CASE u # t
    <3>1. KeptOf(u)
      BY <1>2, <1>5, <2>2 DEF SeenInv, Alive
    <3>2. /\ op'[u] = op[u] /\ step'[u] = step[u] /\ raced \subseteq raced'
          /\ \A w \in Threads : op'[w] = None => op[w] = None
      BY <1>1, <1>2, <2>2
    <3>3. /\ Done(u)' = Done(u) /\ (JustSaved(u)' <=> JustSaved(u)) /\ Rows' = Rows
          /\ Lasting(u)' => Lasting(u)
      BY <1>1, <1>3, <3>2, DoneStays, LastingWas
    <3>4. \A x \in Done(u) \ Rows : /\ InMemoryOf(u, x) => InMemoryOf(u, x)'
                                    /\ OnDiskOf(u, x) => OnDiskOf(u, x)'
                                    /\ InBlobsOf(u, x) => InBlobsOf(u, x)'
      BY <1>1, <1>3, <3>3 DEF InMemoryOf, OnDiskOf, InBlobsOf
    <3> QED
      BY <1>1, <1>3, <3>1, <3>2, <3>4, KeptStays DEF KeptOf
  <2> QED
    BY <2>1, <2>2
<1> QED
  BY <1>4, <1>5 DEF SeenInv

\* What happens where operations, places and answers stay.
LEMMA QuietSeen ==
  ASSUME SavedInv, SeenInv, UNCHANGED <<backend, home, op, before, restarts>>, raced \subseteq raced',
         NEW t \in Threads, PlaceOf(t)',
         \A u \in Threads : u # t => at'[u] = at[u] /\ step'[u] = step[u],
         at[t] \in {"working", "saving"}, at'[t] \in {"working", "saving"},
         row["job"] \subseteq row'["job"],
         KeptOf(t)',
         \A u \in Threads \ {t} : \A o \in Done(u) \ Rows : (KeptOf(u) /\ Alive(u)) =>
             /\ Lasting(u)' => InBlobsOf(u, o)' /\ (OnDiskOf(u, o) => OnDiskOf(u, o)')
             /\ InMemoryOf(u, o) => InMemoryOf(u, o)'
  PROVE  SeenInv'
<1>1. \A u \in Threads : Answered(u)' <=> Answered(u)
  BY DEF Answered
<1>2. Places'
  <2>1. \A u \in Threads : u # t => PlaceOf(u)'
    BY PlaceStays DEF SeenInv, Places
  <2> QED
    BY <1>1, <2>1 DEF SeenInv, Places
<1>3. ASSUME NEW u \in Threads, u # t, Alive(u)' PROVE KeptOf(u)'
  <2>1. KeptOf(u) /\ Alive(u)
    BY <1>3 DEF SeenInv, Alive
  <2> QED
    BY <1>1, <1>3, <2>1, KeptStays
<1> QED
  BY <1>2, <1>3 DEF SeenInv

\* A step of t's program is done.
LEMMA DoneMoves ==
  ASSUME SavedInv, SeenInv, NEW t \in Threads, at[t] \in {"working", "saving"}, op[t] \in Ops,
         UNCHANGED <<backend, op>>, step'[t] = step[t] + 1, at'[t] = "working",
         step[t] <= Len(Program(op[t]))
  PROVE  /\ Rows' = Rows /\ ~Answered(t) /\ ~Answered(t)'
         /\ step[t] \in 1 .. Len(Program(op[t]))
         /\ Done(t)' = Done(t) \union
                (IF Current(t).do = "save" THEN {} ELSE {Current(t).of} \intersect Objects)
         /\ JustSaved(t)' <=> Current(t).do = "save"
         /\ PlaceOf(t)'
<1> PICK P : P = Program(op[t])
  OBVIOUS
<1> PICK n : n = step[t]
  OBVIOUS
<1>1. /\ Program(op[t])' = P /\ Len(P) \in Nat \ {0} /\ n \in Nat \ {0} /\ n <= Len(P)
      /\ Current(t) = P[n] /\ Rows' = Rows /\ ~Answered(t) /\ ~Answered(t)'
  BY ProgramStays, ProgramShape DEF SavedInv, Typed, Current, Rows, Answered
<1>2. Done(t) = {o \in Objects : \E i \in 1 .. Len(P) :
                    (i < n /\ P[i].do # "save") /\ P[i].of = o}
  BY <1>1 DEF Done, DoneAt
<1>3. Done(t)' = {o \in Objects : \E i \in 1 .. Len(P) :
                    (i < n + 1 /\ P[i].do # "save") /\ P[i].of = o}
  BY <1>1 DEF Done, DoneAt
<1>4. \A i \in 1 .. Len(P) : i < n + 1 <=> (i < n \/ i = n)
  BY <1>1
<1>5. n \in 1 .. Len(P)
  BY <1>1
<1>6. Done(t)' = Done(t) \union (IF P[n].do = "save" THEN {} ELSE {P[n].of} \intersect Objects)
  BY <1>2, <1>3, <1>4, <1>5
<1>7. JustSaved(t)' <=> P[n].do = "save"
  <2>1. JustSaved(t)' <=> \E i \in 1 .. Len(P) : n + 1 = i + 1 /\ P[i].do = "save"
    BY <1>1 DEF JustSaved
  <2> QED
    BY <1>1, <1>5, <2>1
<1>8. PlaceOf(t)'
  BY <1>1 DEF PlaceOf, Alive, Saving
<1> QED
  BY <1>1, <1>5, <1>6, <1>7, <1>8

LEMMA ChangeObjectSeen ==
  ASSUME SavedInv, SeenInv, NEW t \in Threads, ChangeObject(t)
  PROVE  SeenInv'
<1> PICK o : o = Current(t).of
  OBVIOUS
<1>1. /\ at[t] = "working" /\ step[t] <= Len(Program(op[t])) /\ Current(t).do # "save"
      /\ UNCHANGED <<backend, home, disk, op, at, blob, before, restarts>>
      /\ step' = [step EXCEPT ![t] = @ + 1] /\ Race(t)
  BY DEF ChangeObject
<1>2. /\ o \in Objects /\ home[t] \in Processes /\ op[t] \in Ops
      /\ memory'[home[t]][o] = Found(t, o) \union {t}
      /\ \A q \in Processes : \A x \in Objects : q # home[t] \/ x # o => memory'[q][x] = memory[q][x]
      /\ row' = row \/ (o = "job" /\ row'["job"] = Found(t, o) \union {t})
      /\ (backend = "postgres" /\ o = "job" /\ Current(t).do = "change")
             => row'["job"] = Found(t, o) \union {t}
  BY ChangeEffect
<1>3. /\ step'[t] = step[t] + 1 /\ \A u \in Threads : u # t => step'[u] = step[u]
      /\ \A u \in Threads : home[u] \in Processes
  BY <1>1 DEF SavedInv, Typed
<1>4. /\ Rows' = Rows /\ ~Answered(t) /\ ~Answered(t)' /\ step[t] \in 1 .. Len(Program(op[t]))
      /\ Done(t)' = Done(t) \union {o} /\ ~JustSaved(t)' /\ PlaceOf(t)'
  <2>1. Done(t)' = Done(t) \union ({o} \intersect Objects)
    BY <1>1, <1>2, <1>3, DoneMoves
  <2> QED
    BY <1>1, <1>2, <1>3, <2>1, DoneMoves
<1>5. \A u \in Threads : Saving(u)' <=> Saving(u)
  BY <1>1 DEF Saving
<1>6. raced \subseteq raced' /\ (Meets(t) => t \in raced')
  BY <1>1 DEF Race
<1>7. row["job"] \subseteq row'["job"] \/ backend # "postgres"
  BY <1>2 DEF Found, Rows
<1>8. \A x \in Objects \ Rows : \A q \in Processes : memory[q][x] \subseteq memory'[q][x]
  BY <1>2 DEF Found
<1>9. row["job"] \subseteq row'["job"]
  <2>1. backend # "postgres" => row' = row
    BY DEF ChangeObject, Rows
  <2> QED
    BY <1>7, <2>1
<1>10. KeptOf(t)'
  <2>1. KeptOf(t)
    BY <1>1 DEF SeenInv, Alive
  <2>2. InRowOf(t)'
    <3>1. (op[t] # "cancel_job" /\ o = "job") => Current(t).do = "change"
      BY <1>1, <1>2, <1>4, ProgramShape DEF Current, SavedInv, Typed
    <3> QED
      BY <1>1, <1>2, <1>4, <1>9, <2>1, <3>1 DEF KeptOf, InRowOf
  <2>3. ASSUME NEW x \in Done(t)' \ Rows
        PROVE  InMemoryOf(t, x)' /\ InBlobsOf(t, x)' /\ OnDiskOf(t, x)'
    <3>1. Lasting(t)' => Lasting(t)
      BY <1>1, <1>6, LastingWas
    <3>2. OnDiskOf(t, x)'
      BY <1>4 DEF OnDiskOf
    <3>3. x \in Objects
      BY <1>2, <1>4, <2>3 DEF Done
    <3>4. InMemoryOf(t, x)'
      <4>1. CASE x = o
        BY <1>1, <1>2, <4>1 DEF InMemoryOf
      <4>2. CASE x # o
        <5>1. InMemoryOf(t, x)
          BY <1>4, <2>1, <2>3, <4>2 DEF KeptOf
        <5> QED
          BY <1>1, <1>2, <1>3, <1>8, <2>3, <3>1, <3>3, <5>1 DEF InMemoryOf
      <4> QED
        BY <4>1, <4>2
    <3>5. InBlobsOf(t, x)'
      <4>1. Lasting(t)' => ~Meets(t)
        BY <1>6 DEF Lasting
      <4>2. Lasting(t)' => \A u \in Threads : home[u] = home[t] => ~Saving(u)
        BY <1>1, <4>1 DEF Meets, Saving
      <4> QED
        BY <1>1, <1>5, <4>2 DEF InBlobsOf
    <3> QED
      BY <3>2, <3>4, <3>5
  <2> QED
    BY <1>4, <2>2, <2>3 DEF KeptOf
<1>11. ASSUME NEW u \in Threads \ {t}, NEW x \in Done(u) \ Rows, KeptOf(u)
       PROVE  /\ Lasting(u)' => InBlobsOf(u, x)' /\ (OnDiskOf(u, x) => OnDiskOf(u, x)')
              /\ InMemoryOf(u, x) => InMemoryOf(u, x)'
  <2>1. /\ Done(u)' = Done(u) /\ (JustSaved(u)' <=> JustSaved(u)) /\ (Lasting(u)' => Lasting(u))
    BY <1>1, <1>3, <1>6, <1>11, DoneStays, LastingWas DEF Answered
  <2>2. x \in Objects
    BY <1>11 DEF Done
  <2> QED
    BY <1>1, <1>3, <1>5, <1>8, <1>11, <2>1, <2>2 DEF KeptOf, InBlobsOf, OnDiskOf, InMemoryOf
<1> QED
  BY <1>1, <1>3, <1>4, <1>6, <1>9, <1>10, <1>11, QuietSeen

LEMMA StartSaveSeen ==
  ASSUME SavedInv, SeenInv, NEW t \in Threads, StartSave(t)
  PROVE  SeenInv'
<1>1. /\ at[t] = "working" /\ step[t] <= Len(Program(op[t])) /\ Current(t).do = "save"
      /\ UNCHANGED <<backend, home, memory, disk, row, op, step, before, raced, restarts>>
      /\ at' = [at EXCEPT ![t] = "saving"]
      /\ blob' = [blob EXCEPT ![t] = [o \in CopiedFirst |-> memory[home[t]][o]]]
  BY DEF StartSave, history
<1>2. /\ at'[t] = "saving" /\ blob'[t] = [o \in CopiedFirst |-> memory[home[t]][o]]
      /\ \A u \in Threads : u # t => at'[u] = at[u] /\ blob'[u] = blob[u]
  BY <1>1 DEF SavedInv, Typed
<1>3. Program(op[t])' = Program(op[t])
  BY <1>1, ProgramStays
<1>4. Current(t)' = Current(t)
  BY <1>1, <1>3 DEF Current
<1>5. PlaceOf(t)'
  <2>1. PlaceOf(t)
    BY DEF SeenInv, Places
  <2> QED
    BY <1>1, <1>2, <1>3, <1>4, <2>1 DEF PlaceOf, Alive, Saving
<1>6. ASSUME NEW u \in Threads, KeptOf(u)
      PROVE  /\ Done(u)' = Done(u) /\ Rows' = Rows
             /\ \A x \in Done(u) \ Rows : /\ InBlobsOf(u, x)' /\ (OnDiskOf(u, x) => OnDiskOf(u, x)')
                                          /\ InMemoryOf(u, x) => InMemoryOf(u, x)'
  <2>1. /\ Done(u)' = Done(u) /\ (JustSaved(u)' <=> JustSaved(u)) /\ Rows' = Rows
        /\ Lasting(u)' => Lasting(u)
    BY <1>1, <1>2, DoneStays, LastingWas DEF Answered
  <2>2. ASSUME NEW x \in Done(u) \ Rows PROVE InBlobsOf(u, x)'
    <3>1. InMemoryOf(u, x) /\ InBlobsOf(u, x)
      BY <1>6, <2>2 DEF KeptOf
    <3> QED
      BY <1>1, <1>2, <2>1, <3>1 DEF InMemoryOf, InBlobsOf, Saving
  <2>3. ASSUME NEW x \in Done(u) \ Rows
        PROVE  /\ OnDiskOf(u, x) => OnDiskOf(u, x)'
               /\ InMemoryOf(u, x) => InMemoryOf(u, x)'
    BY <1>1, <2>1 DEF InMemoryOf, OnDiskOf
  <2> QED
    BY <2>1, <2>2, <2>3
<1>7. KeptOf(t)'
  <2>1. KeptOf(t)
    BY <1>1 DEF SeenInv, Alive
  <2> QED
    BY <1>1, <1>6, <2>1 DEF KeptOf, InRowOf
<1> QED
  BY <1>1, <1>2, <1>5, <1>6, <1>7, QuietSeen

LEMMA EncodeSeen ==
  ASSUME SavedInv, SeenInv, NEW t \in Threads, Encode(t)
  PROVE  SeenInv'
<1> DEFINE b == [o \in Objects |-> IF o \in DOMAIN blob[t] THEN blob[t][o] ELSE memory[home[t]][o]]
<1>1. /\ Saving(t) /\ UNCHANGED <<backend, home, memory, disk, row, op, at, step, before, raced, restarts>>
      /\ blob' = [blob EXCEPT ![t] = b]
  BY DEF Encode, history
<1>2. /\ blob'[t] = b
      /\ \A u \in Threads : u # t => blob'[u] = blob[u]
  BY <1>1 DEF SavedInv, Typed
<1>3. DOMAIN b = Objects
      /\ \A o \in Objects : b[o] = IF o \in DOMAIN blob[t] THEN blob[t][o] ELSE memory[home[t]][o]
  OBVIOUS
<1> HIDE DEF b
<1>4. PlaceOf(t)'
  <2>1. PlaceOf(t)
    BY DEF SeenInv, Places
  <2> QED
    BY <1>1, <2>1, PlaceStays
<1>5. ASSUME NEW u \in Threads, KeptOf(u)
      PROVE  /\ Done(u)' = Done(u) /\ Rows' = Rows
             /\ \A x \in Done(u) \ Rows : /\ InBlobsOf(u, x)' /\ (OnDiskOf(u, x) => OnDiskOf(u, x)')
                                          /\ InMemoryOf(u, x) => InMemoryOf(u, x)'
  <2>1. /\ Done(u)' = Done(u) /\ (JustSaved(u)' <=> JustSaved(u)) /\ Rows' = Rows
        /\ Lasting(u)' => Lasting(u)
    BY <1>1, DoneStays, LastingWas DEF Answered
  <2>2. ASSUME NEW x \in Done(u) \ Rows PROVE InBlobsOf(u, x)'
    <3>1. InMemoryOf(u, x) /\ InBlobsOf(u, x) /\ x \in Objects
      BY <1>5, <2>2 DEF KeptOf, Done
    <3> QED
      BY <1>1, <1>2, <1>3, <2>1, <3>1 DEF InMemoryOf, InBlobsOf, Saving
  <2>3. ASSUME NEW x \in Done(u) \ Rows
        PROVE  /\ OnDiskOf(u, x) => OnDiskOf(u, x)'
               /\ InMemoryOf(u, x) => InMemoryOf(u, x)'
    BY <1>1, <2>1 DEF InMemoryOf, OnDiskOf
  <2> QED
    BY <2>1, <2>2, <2>3
<1>6. KeptOf(t)'
  <2>1. KeptOf(t)
    BY <1>1 DEF SeenInv, Alive, Saving
  <2> QED
    BY <1>1, <1>5, <2>1 DEF KeptOf, InRowOf
<1> QED
  BY <1>1, <1>4, <1>5, <1>6, QuietSeen DEF Saving

LEMMA WriteSeen ==
  ASSUME SavedInv, SeenInv, NEW t \in Threads, WriteSnapshot(t)
  PROVE  SeenInv'
<1>1. /\ Saving(t) /\ DOMAIN blob[t] = Objects /\ disk' = blob[t]
      /\ UNCHANGED <<backend, home, memory, row, op, before, raced, restarts>>
      /\ blob' = [blob EXCEPT ![t] = <<>>] /\ at' = [at EXCEPT ![t] = "working"]
      /\ step' = [step EXCEPT ![t] = @ + 1]
  BY DEF WriteSnapshot, history
<1>2. /\ at'[t] = "working" /\ step'[t] = step[t] + 1 /\ at[t] = "saving" /\ op[t] \in Ops
      /\ step[t] <= Len(Program(op[t])) /\ Current(t).do = "save"
      /\ \A u \in Threads : u # t => at'[u] = at[u] /\ step'[u] = step[u] /\ blob'[u] = blob[u]
  BY <1>1 DEF SavedInv, Typed, SeenInv, Places, PlaceOf, Alive, Saving
<1>3. Done(t)' = Done(t) /\ Rows' = Rows /\ PlaceOf(t)'
  BY <1>1, <1>2, DoneMoves
<1>4. \A u \in Threads : Saving(u)' => Saving(u) /\ u # t /\ blob'[u] = blob[u]
  BY <1>1, <1>2 DEF Saving
\* Whoever lasts is of t's process: t has an operation.
<1>5. ASSUME NEW u \in Threads, KeptOf(u), NEW x \in Done(u) \ Rows, Lasting(u)
      PROVE  x \in Objects /\ u \in blob[t][x]
  <2>1. home[t] = home[u]
    BY <1>2, <1>5, NoneAssumption DEF Lasting, Alone
  <2> QED
    BY <1>1, <1>5, <2>1 DEF KeptOf, InBlobsOf, Done
<1>6. ASSUME NEW u \in Threads, KeptOf(u), NEW x \in Done(u) \ Rows
      PROVE  /\ InBlobsOf(u, x)' /\ OnDiskOf(u, x)'
             /\ InMemoryOf(u, x) => InMemoryOf(u, x)'
  <2>1. Lasting(u)' => Lasting(u)
    BY <1>1, LastingWas
  <2>2. InBlobsOf(u, x) /\ (Lasting(u) => u \in blob[t][x])
    BY <1>5, <1>6 DEF KeptOf
  <2> QED
    BY <1>1, <1>4, <2>1, <2>2 DEF InBlobsOf, OnDiskOf, InMemoryOf
<1>7. KeptOf(t)'
  <2>1. KeptOf(t)
    BY <1>1 DEF SeenInv, Alive, Saving
  <2> QED
    BY <1>1, <1>3, <1>6, <2>1 DEF KeptOf, InRowOf
<1> QED
  BY <1>1, <1>2, <1>3, <1>6, <1>7, QuietSeen

\* After its last step, which saves, an operation is answered.
LEMMA AnswerSeen ==
  ASSUME SavedInv, SeenInv, NEW t \in Threads, Answer(t)
  PROVE  SeenInv'
<1>1. /\ at[t] = "working" /\ step[t] > Len(Program(op[t]))
      /\ UNCHANGED <<backend, home, memory, disk, row, op, blob, raced, restarts>>
      /\ at' = [at EXCEPT ![t] = "answered"] /\ step' = [step EXCEPT ![t] = 1]
      /\ before' = [before EXCEPT ![t] = {}]
  BY DEF Answer
<1>2. /\ at'[t] = "answered" /\ step'[t] = 1 /\ before'[t] = {} /\ op[t] \in Ops
      /\ \A u \in Threads : u # t => at'[u] = at[u] /\ step'[u] = step[u] /\ before'[u] = before[u]
  BY <1>1 DEF SavedInv, Typed, SeenInv, Places
<1>3. \A u \in Threads : Saving(u)' <=> Saving(u)
  BY <1>1, <1>2 DEF Saving
<1> PICK P : P = Program(op[t])
  OBVIOUS
<1> PICK n : n = step[t]
  OBVIOUS
<1>4. /\ Program(op[t])' = P /\ Len(P) \in Nat \ {0} /\ n = Len(P) + 1
      /\ op[t] \notin Unsaved => P[Len(P)].do = "save"
  <2>1. n \in Nat \ {0} /\ n > Len(P) /\ n <= Len(P) + 1
    BY <1>1 DEF SavedInv, Typed, SeenInv, Places, PlaceOf, Alive
  <2>2. Len(P) \in Nat \ {0} /\ (op[t] \notin Unsaved => P[Len(P)].do = "save")
    BY <1>2, ProgramShape DEF SavedInv, Typed
  <2> QED
    BY <1>1, <2>1, <2>2, ProgramStays
<1>5. Done(t)' = Done(t) /\ Rows' = Rows
  <2>1. Done(t) = {o \in Objects : \E i \in 1 .. Len(P) : (i < n /\ P[i].do # "save") /\ P[i].of = o}
    BY <1>1 DEF Done, DoneAt, Answered
  <2>2. Done(t)' = {o \in Objects : \E i \in 1 .. Len(P) : P[i].do # "save" /\ P[i].of = o}
    BY <1>2, <1>4 DEF Done, DoneAt, Answered
  <2>3. \A i \in 1 .. Len(P) : i < n
    BY <1>4
  <2> QED
    BY <1>1, <2>1, <2>2, <2>3 DEF Rows
<1>6. op[t] \notin Unsaved => JustSaved(t)
  BY <1>4 DEF JustSaved
<1>7. KeptOf(t)'
  <2>1. KeptOf(t)
    BY <1>1 DEF SeenInv, Alive
  <2>2. Lasting(t)' => Lasting(t) /\ JustSaved(t)
    BY <1>1, <1>6, LastingWas DEF Lasting
  <2>3. ASSUME NEW x \in Done(t) \ Rows
        PROVE  InMemoryOf(t, x)' /\ InBlobsOf(t, x)' /\ OnDiskOf(t, x)'
    BY <1>1, <1>3, <2>1, <2>2, <2>3 DEF KeptOf, InMemoryOf, InBlobsOf, OnDiskOf
  <2> QED
    BY <1>1, <1>5, <2>1, <2>3 DEF KeptOf, InRowOf
<1>8. ASSUME NEW u \in Threads, u # t, Alive(u)' PROVE KeptOf(u)'
  <2>1. KeptOf(u)
    BY <1>2, <1>8 DEF SeenInv, Alive
  <2>2. Answered(u)' <=> Answered(u)
    BY <1>2, <1>8 DEF Answered
  <2>3. /\ Done(u)' = Done(u) /\ (JustSaved(u)' <=> JustSaved(u)) /\ Rows' = Rows
        /\ Lasting(u)' => Lasting(u)
    BY <1>1, <1>2, <1>8, <2>2, DoneStays, LastingWas
  <2>4. \A x \in Done(u) \ Rows : /\ InMemoryOf(u, x) => InMemoryOf(u, x)'
                                  /\ OnDiskOf(u, x) => OnDiskOf(u, x)'
                                  /\ InBlobsOf(u, x) => InBlobsOf(u, x)'
    BY <1>1, <1>3, <2>3 DEF InMemoryOf, OnDiskOf, InBlobsOf
  <2>5. InRowOf(u)'
    BY <1>1, <2>1, <2>3 DEF KeptOf, InRowOf
  <2>6. \A x \in Done(u)' \ Rows' : InMemoryOf(u, x)' /\ InBlobsOf(u, x)' /\ OnDiskOf(u, x)'
    BY <2>1, <2>3, <2>4 DEF KeptOf
  <2> QED
    BY <2>5, <2>6 DEF KeptOf
<1>9. Places'
  <2>1. PlaceOf(t)'
    BY <1>1, <1>2, <1>4 DEF PlaceOf, Alive, Saving
  <2>2. \A u \in Threads : u # t => PlaceOf(u)'
    BY <1>1, <1>2, PlaceStays DEF SeenInv, Places
  <2>3. \A u \in Threads : Answered(u) => Answered(u)'
    BY <1>2 DEF Answered
  <2> QED
    BY <1>1, <1>2, <2>1, <2>2, <2>3 DEF SeenInv, Places
<1> QED
  BY <1>7, <1>8, <1>9 DEF SeenInv

\* A restart gives a process what the snapshot has; who had not been answered is
\* lost with it.
LEMMA RestartSeen ==
  ASSUME SavedInv, SeenInv, NEW p \in Processes, Restart(p)
  PROVE  SeenInv'
<1> DEFINE lost == {t \in Threads : home[t] = p /\ at[t] \in {"working", "saving"}}
<1>1. /\ UNCHANGED <<backend, home, disk, row, op, raced>> /\ restarts' = restarts + 1
      /\ memory' = [memory EXCEPT ![p] = disk]
      /\ at' = [t \in Threads |-> IF t \in lost THEN "lost" ELSE at[t]]
      /\ step' = [t \in Threads |-> IF t \in lost THEN 1 ELSE step[t]]
      /\ blob' = [t \in Threads |-> IF t \in lost THEN <<>> ELSE blob[t]]
      /\ before' = [t \in Threads |-> IF t \in lost THEN {} ELSE before[t]]
  BY DEF Restart, Loaded
<1>2. /\ memory'[p] = disk /\ \A q \in Processes : q # p => memory'[q] = memory[q]
      /\ \A t \in Threads : home[t] \in Processes
  BY <1>1 DEF SavedInv, Typed
<1>3. \A t \in Threads :
          IF t \in lost THEN at'[t] = "lost" /\ before'[t] = {}
          ELSE at'[t] = at[t] /\ step'[t] = step[t] /\ blob'[t] = blob[t] /\ before'[t] = before[t]
  BY <1>1
<1>4. \A t \in lost : home[t] = p /\ at[t] \in {"working", "saving"}
  OBVIOUS
<1>5. \A t \in Threads : (home[t] = p /\ at[t] \in {"working", "saving"}) => t \in lost
  OBVIOUS
<1> HIDE DEF lost
<1>6. \A t \in Threads : Answered(t)' <=> Answered(t)
  BY <1>3, <1>4 DEF Answered
<1>7. restarts' # 0 /\ restarts' \in Nat
  BY <1>1 DEF SeenInv, Places
<1>8. ASSUME NEW t \in Threads, Alive(t)' PROVE KeptOf(t)'
  <2>1. t \notin lost /\ at'[t] = at[t] /\ step'[t] = step[t] /\ Alive(t)
    BY <1>3, <1>8 DEF Alive
  <2>2. KeptOf(t)
    BY <2>1 DEF SeenInv
  <2>3. /\ Done(t)' = Done(t) /\ (JustSaved(t)' <=> JustSaved(t)) /\ Rows' = Rows
        /\ Lasting(t)' => Lasting(t)
    BY <1>1, <1>6, <2>1, DoneStays, LastingWas
  <2>4. InRowOf(t)'
    BY <1>1, <2>2, <2>3 DEF KeptOf, InRowOf
  <2>5. ASSUME NEW x \in Done(t) \ Rows
        PROVE  InMemoryOf(t, x)' /\ InBlobsOf(t, x)' /\ OnDiskOf(t, x)'
    <3>1. InMemoryOf(t, x) /\ InBlobsOf(t, x) /\ OnDiskOf(t, x)
      BY <2>2, <2>5 DEF KeptOf
    <3>2. OnDiskOf(t, x)'
      BY <1>1, <2>3, <3>1 DEF OnDiskOf
    <3>3. InBlobsOf(t, x)'
      <4>1. \A u \in Threads : Saving(u)' => Saving(u) /\ blob'[u] = blob[u]
        BY <1>3 DEF Saving
      <4> QED
        BY <1>1, <2>3, <3>1, <4>1 DEF InBlobsOf
    <3>4. InMemoryOf(t, x)'
      <4>1. CASE home[t] = p
        <5>1. Answered(t)
          BY <1>5, <2>1, <4>1 DEF Alive, Answered
        <5>2. Lasting(t) => t \in disk[x]
          BY <3>1, <5>1 DEF OnDiskOf, JustSaved
        <5> QED
          BY <1>1, <1>2, <1>7, <2>3, <4>1, <5>2 DEF InMemoryOf
      <4>2. CASE home[t] # p
        BY <1>1, <1>2, <1>7, <2>3, <3>1, <4>2 DEF InMemoryOf
      <4> QED
        BY <4>1, <4>2
    <3> QED
      BY <3>2, <3>3, <3>4
  <2>6. \A x \in Done(t)' \ Rows' : InMemoryOf(t, x)' /\ InBlobsOf(t, x)' /\ OnDiskOf(t, x)'
    BY <2>3, <2>5
  <2> QED
    BY <2>4, <2>6 DEF KeptOf
<1>9. Places'
  <2>1. ASSUME NEW t \in Threads PROVE PlaceOf(t)'
    <3>1. PlaceOf(t)
      BY DEF SeenInv, Places
    <3>2. CASE t \in lost
      BY <1>3, <3>2 DEF PlaceOf, Alive, Saving
    <3>3. CASE t \notin lost
      BY <1>1, <1>3, <3>1, <3>3, PlaceStays
    <3> QED
      BY <3>2, <3>3
  <2>2. DOMAIN before' = Threads /\ \A t \in Threads : before'[t] \subseteq before[t]
    BY <1>1, <1>3
  <2> QED
    BY <1>6, <1>7, <2>1, <2>2 DEF SeenInv, Places
<1> QED
  BY <1>8, <1>9 DEF SeenInv

LEMMA InitSeen == Init => SeenInv
<1> SUFFICES ASSUME Init PROVE SeenInv
  OBVIOUS
<1>1. \A t \in Threads : at[t] = "idle" /\ op[t] = None /\ before[t] = {}
  BY DEF Init
<1> QED
  BY <1>1 DEF Init, SeenInv, Places, PlaceOf, Alive, Saving, Answered

LEMMA StepSeen == SavedInv /\ SeenInv /\ [Next]_vars => SeenInv'
<1> SUFFICES ASSUME SavedInv, SeenInv, [Next]_vars PROVE SeenInv'
  OBVIOUS
<1>1. CASE UNCHANGED vars
  <2>1. /\ UNCHANGED <<backend, home, memory, disk, row, op, at, step, blob, before, raced, restarts>>
        /\ \A t \in Threads : (Answered(t)' <=> Answered(t)) /\ (Saving(t)' <=> Saving(t))
    BY <1>1 DEF vars, task, history, Answered, Saving
  <2>2. ASSUME NEW t \in Threads, Alive(t)' PROVE KeptOf(t)'
    <3>1. KeptOf(t)
      BY <2>1, <2>2 DEF SeenInv, Alive
    <3>2. /\ Done(t)' = Done(t) /\ (JustSaved(t)' <=> JustSaved(t)) /\ Rows' = Rows
          /\ Lasting(t)' => Lasting(t)
      BY <2>1, DoneStays, LastingWas
    <3>3. \A x : /\ InMemoryOf(t, x) => InMemoryOf(t, x)'
                 /\ OnDiskOf(t, x) => OnDiskOf(t, x)'
                 /\ InBlobsOf(t, x) => InBlobsOf(t, x)'
      BY <2>1, <3>2 DEF InMemoryOf, OnDiskOf, InBlobsOf
    <3>4. InRowOf(t)'
      BY <2>1, <3>1, <3>2 DEF KeptOf, InRowOf
    <3> QED
      BY <3>1, <3>2, <3>3, <3>4 DEF KeptOf
  <2>3. \A t \in Threads : PlaceOf(t)'
    BY <2>1, PlaceStays DEF SeenInv, Places
  <2> QED
    BY <2>1, <2>2, <2>3 DEF SeenInv, Places
<1> QED
  BY <1>1, BeginSeen, ChangeObjectSeen, StartSaveSeen, EncodeSeen, WriteSeen, AnswerSeen,
     RestartSeen DEF Next

\* SqliteBackedStore and PostgresBackedStore: whatever was answered before an
\* operation began is in the object the operation reads, for every interleaving
\* of changes and saves and any number of restarts; lost is only what the
\* property names.
THEOREM AnswersAreSeen == Spec => []AnsweredIsSeen
<1>1. SavedInv /\ SeenInv => AnsweredIsSeen
  <2> SUFFICES ASSUME SavedInv, SeenInv, NEW t \in Threads, Reading(t),
                      NEW u \in before[t], Current(t).of \in Changes(u),
                      ~Excused(u, t, Current(t).of)
               PROVE  u \in Found(t, Current(t).of)
    BY DEF AnsweredIsSeen
  <2> PICK o : o = Current(t).of
    OBVIOUS
  <2>1. u \in Threads /\ Answered(u)
    BY DEF SeenInv, Places
  <2>2. KeptOf(u) /\ op[u] \in Ops /\ restarts \in Nat
    BY <2>1 DEF SeenInv, Places, PlaceOf, Alive, Answered
  <2>3. o \in Done(u)
    <3>1. Program(op[u]) \in Seq(Step)
      BY <2>2, ProgramSeq DEF SavedInv, Typed
    <3>2. PICK i \in 1 .. Len(Program(op[u])) : Program(op[u])[i].of = o /\ o # None
      BY <3>1 DEF Changes
    <3>3. Program(op[u])[i].do # "save"
      <4>1. Program(op[u])[i] \in Step /\ Program(op[u])[i] # Save
        BY <3>1, <3>2 DEF Save
      <4> QED
        BY <4>1 DEF Step
    <3>4. o \in Objects
      BY <2>2, <3>2, <3>3, ProgramShape DEF SavedInv, Typed
    <3> QED
      BY <2>1, <3>2, <3>3, <3>4 DEF Done, DoneAt
  <2>4. CASE o \in Rows
    <3>1. backend = "postgres" /\ o = "job" /\ op[u] # "cancel_job"
      BY <2>4 DEF Rows, Excused
    <3>2. u \in row["job"]
      BY <2>2, <2>3, <3>1 DEF KeptOf, InRowOf
    <3> QED
      BY <2>4, <3>1, <3>2 DEF Found
  <2>5. CASE o \notin Rows
    <3>1. home[u] = home[t] /\ (restarts = 0 \/ Lasting(u))
      BY <2>2, <2>5 DEF Excused, Lasting, Alone
    <3>2. u \in memory[home[u]][o]
      BY <2>2, <2>3, <2>5, <3>1 DEF KeptOf, InMemoryOf
    <3> QED
      BY <2>5, <3>1, <3>2 DEF Found
  <2> QED
    BY <2>4, <2>5
<1> QED
  BY <1>1, InitSaved, StepSaved, InitSeen, StepSeen, PTL DEF Spec

=============================================================================
