--------------------------- MODULE RecordProofs ----------------------------
(***************************************************************************)
(* The record of a job is what its owner takes it for, for all values of   *)
(* the constants, when the complete calls of a job neither overlap nor     *)
(* come after the session is stale.                                        *)
(*                                                                         *)
(* Agreement is the inductive form.  Each conjunct ties the record to one  *)
(* goroutine, so a step is shown to keep it in two parts: the jobs and     *)
(* goroutines it leaves alone still agree, and the owner of the job that   *)
(* it writes is the only one (Ownership), so only this one is left to      *)
(* check.  RecordMoves says what a step may do to a record, and all the    *)
(* action properties and the refinement follow from it.                    *)
(***************************************************************************)
EXTENDS OwnershipProofs

Prompt == "overlap" \notin Strays /\ "late" \notin Strays

\* The inductive invariant.
RecordInv == TypeInv /\ Ownership /\ Agreement

\* What recovery and the workers write back has the outputs of its status.
LEMMA RowFacts ==
  /\ RowAs("none") = Absent
  /\ \A status : RowAs(status).status = status
  /\ \A status \in Statuses \cup {"none"} : RowAs(status) \in Row
  /\ \A from, to \in Statuses : from # "completed" /\ to # "completed"
       => [RowAs(from) EXCEPT !.status = to] = RowAs(to)
  /\ \A row \in Row : row.status \in Statuses \cup {"none"}
<1>1. RowAs("none") = Absent /\ \A status : RowAs(status).status = status
  BY DEF RowAs, Absent
<1>2. \A status \in Statuses \cup {"none"} : RowAs(status) \in Row
  BY DEF RowAs, Row
<1>3. \A from, to \in Statuses : from # "completed" /\ to # "completed"
        => [RowAs(from) EXCEPT !.status = to] = RowAs(to)
  BY DEF RowAs
<1>4. \A row \in Row : row.status \in Statuses \cup {"none"}
  BY DEF Row
<1> QED
  BY <1>1, <1>2, <1>3, <1>4

\* An age is a number; the arithmetic below needs no more.
LEMMA AgeIsNat ==
  ASSUME TypeInv, NEW k \in Jobs
  PROVE  age[k] \in Nat /\ age[k] <= 4
<1>1. age \in [Jobs -> Unborn .. Old]
  BY DEF TypeInv, TypeOK
<1>2. age[k] \in Unborn .. Old
  BY <1>1
<1> QED
  BY <1>2 DEF Unborn, Old

\* What a reaper lists.
LEMMA EligibleMeans ==
  ASSUME NEW k
  PROVE  /\ Eligible("stale", k) <=> db[k].status = "uploading" /\ age[k] >= Stale
         /\ Eligible("expired", k) <=> db[k].status \in Terminal /\ age[k] >= Old
  BY DEF Eligible

-----------------------------------------------------------------------------
(* What a step leaves alone still agrees.                                  *)

\* The record is the same, and so is the goroutine, or it has let go.
LEMMA SameAgrees ==
  ASSUME NEW k \in Jobs, Agrees(k), db'[k] = db[k]
  PROVE  /\ age'[k] = age[k] /\ session'[k] = session[k]
              => /\ SessionAgrees(k)'
                 /\ \A r \in Requests : handler'[k][r] = handler[k][r] => HandlerAgrees(k, r)'
         /\ \A o \in Starters : validator'[k][o] = validator[k][o] => ValidatorAgrees(k, o)'
         /\ (AnyQueued(k)' => AnyQueued(k)) => QueueAgrees(k)'
         /\ \A w \in Workers : worker'[w] = worker[w] => WorkerAgrees(k, w)'
         /\ redrive'[k] = redrive[k] => RecoveryAgrees(k)'
         /\ age'[k] = age[k]
              => \A s \in Sweeps : sweep'[s][k] = sweep[s][k] /\ sweeping'[s] = sweeping[s]
                                   => ReaperAgrees(k, s)'
<1>1. age'[k] = age[k] /\ session'[k] = session[k]
         => /\ SessionAgrees(k)'
            /\ \A r \in Requests : handler'[k][r] = handler[k][r] => HandlerAgrees(k, r)'
  BY DEF Agrees, SessionAgrees, HandlerAgrees
<1>2. \A o \in Starters : validator'[k][o] = validator[k][o] => ValidatorAgrees(k, o)'
  BY DEF Agrees, ValidatorAgrees
<1>3. (AnyQueued(k)' => AnyQueued(k)) => QueueAgrees(k)'
  BY DEF Agrees, QueueAgrees
<1>4. \A w \in Workers : worker'[w] = worker[w] => WorkerAgrees(k, w)'
  BY DEF Agrees, WorkerAgrees, Working
<1>5. redrive'[k] = redrive[k] => RecoveryAgrees(k)'
  BY DEF Agrees, RecoveryAgrees, Awaiting
<1>6. ASSUME age'[k] = age[k], NEW s \in Sweeps, sweep'[s][k] = sweep[s][k],
             sweeping'[s] = sweeping[s]
      PROVE  ReaperAgrees(k, s)'
  <2>1. Eligible(s, k)' <=> Eligible(s, k)
    BY <1>6 DEF Eligible
  <2> QED
    BY <1>6, <2>1 DEF Agrees, ReaperAgrees, Listed, Busy
<1> QED
  BY <1>1, <1>2, <1>3, <1>4, <1>5, <1>6

\* A goroutine that does nothing for k agrees with any record.
LEMMA IdleAgrees ==
  ASSUME NEW k \in Jobs
  PROVE  /\ \A r \in Requests : handler'[k][r] = "idle" => HandlerAgrees(k, r)'
         /\ \A o \in Starters : ~Validating(k, o)' => ValidatorAgrees(k, o)'
         /\ ~AnyQueued(k)' => QueueAgrees(k)'
         /\ \A w \in Workers : ~Working(k, w)' => WorkerAgrees(k, w)'
         /\ ~Awaiting(k)' => RecoveryAgrees(k)'
         /\ \A s \in Sweeps : sweep'[s][k] = Absent /\ ~(Busy(s)' /\ sweeping'[s].job = k)
              => ReaperAgrees(k, s)'
  BY DEF HandlerAgrees, ValidatorAgrees, Validating, QueueAgrees, WorkerAgrees, RecoveryAgrees,
         ReaperAgrees

\* Nothing that k has to do with changes.
LEMMA Undisturbed ==
  ASSUME NEW k \in Jobs, Agrees(k), db'[k] = db[k], age'[k] = age[k], session'[k] = session[k],
         handler'[k] = handler[k], validator'[k] = validator[k],
         AnyQueued(k)' => AnyQueued(k), redrive'[k] = redrive[k],
         \A w \in Workers : worker'[w] = worker[w] \/ ~Working(k, w)',
         \A s \in Sweeps : sweep'[s][k] = sweep[s][k]
           /\ (sweeping'[s] = sweeping[s] \/ ~(Busy(s)' /\ sweeping'[s].job = k))
  PROVE  Agrees(k)'
<1>1. \A w \in Workers : WorkerAgrees(k, w)'
  BY SameAgrees, IdleAgrees
<1>2. ASSUME NEW s \in Sweeps PROVE ReaperAgrees(k, s)'
  <2>1. CASE sweeping'[s] = sweeping[s]
    BY <2>1, SameAgrees
  <2>2. CASE ~(Busy(s)' /\ sweeping'[s].job = k)
    BY <2>2 DEF Agrees, ReaperAgrees, Listed, Eligible
  <2> QED
    BY <2>1, <2>2
<1>3. /\ SessionAgrees(k)' /\ QueueAgrees(k)' /\ RecoveryAgrees(k)'
      /\ \A r \in Requests : HandlerAgrees(k, r)'
      /\ \A o \in Starters : ValidatorAgrees(k, o)'
  BY SameAgrees
<1> QED
  BY <1>1, <1>2, <1>3 DEF Agrees

-----------------------------------------------------------------------------
(* The owner of a job is the only one, and no reaper is after the job.      *)

NoHandler(k) == \A r \in Requests : handler[k][r] = "idle"
NoValidator(k) == \A o \in Starters : ~Validating(k, o)
NoWorker(k) == \A w \in Workers : ~Working(k, w)
Unlisted(k) == \A s \in Sweeps : sweep[s][k] = Absent /\ ~(Busy(s) /\ sweeping[s].job = k)

LEMMA OnlyOwner ==
  ASSUME Ownership, NEW k \in Jobs
  PROVE  /\ Owned(k) => \A r \in Requests : handler[k][r] \notin {"stat", "mark"}
         /\ \A o \in Starters : Validating(k, o) =>
              /\ Owned(k) /\ ~AnyQueued(k) /\ NoWorker(k) /\ ~Awaiting(k) /\ ~AnySpawning(k)
              /\ \A x \in Starters : x # o => ~Validating(k, x)
         /\ \A w \in Workers : Working(k, w) =>
              /\ Owned(k) /\ ~AnyQueued(k) /\ NoValidator(k) /\ ~Awaiting(k) /\ ~AnySpawning(k)
              /\ \A x \in Workers : x # w => ~Working(k, x)
         /\ Awaiting(k) => Owned(k) /\ ~AnyQueued(k) /\ NoValidator(k) /\ NoWorker(k) /\ ~AnySpawning(k)
         /\ AnyQueued(k) => Owned(k) /\ NoValidator(k) /\ NoWorker(k) /\ ~Awaiting(k) /\ ~AnySpawning(k)
         /\ ~Owned(k) => ~AnyQueued(k) /\ NoValidator(k) /\ NoWorker(k) /\ ~Awaiting(k) /\ ~AnySpawning(k)
<1>1. OneOwner(k) /\ Handover(k)
  BY DEF Ownership
<1>2. Owned(k) => \A r \in Requests : handler[k][r] \notin {"stat", "mark"}
  BY <1>1 DEF Handover
<1>3. AnyValidating(k) \/ AnyWorking(k) \/ Awaiting(k) \/ AnyQueued(k) => Owned(k)
  BY DEF Owned
<1>4. \A o \in Starters : Validating(k, o) =>
         /\ ~AnyQueued(k) /\ ~AnyWorking(k) /\ ~Awaiting(k) /\ ~AnySpawning(k) /\ AnyValidating(k)
         /\ \A x \in Starters : x # o => ~Validating(k, x)
  BY <1>1 DEF OneOwner, AnyValidating
<1>5. \A w \in Workers : Working(k, w) =>
         /\ ~AnyQueued(k) /\ ~AnyValidating(k) /\ ~Awaiting(k) /\ ~AnySpawning(k) /\ AnyWorking(k)
         /\ \A x \in Workers : x # w => ~Working(k, x)
  BY <1>1 DEF OneOwner, AnyWorking
<1>6. Awaiting(k) => ~AnyQueued(k) /\ ~AnyValidating(k) /\ ~AnyWorking(k) /\ ~AnySpawning(k)
  BY <1>1 DEF OneOwner
<1>7. AnyQueued(k) => ~Awaiting(k) /\ ~AnyValidating(k) /\ ~AnyWorking(k) /\ ~AnySpawning(k)
  BY <1>1 DEF OneOwner
<1>8. ~Owned(k) => ~AnyQueued(k) /\ ~AnyValidating(k) /\ ~AnyWorking(k) /\ ~Awaiting(k) /\ ~AnySpawning(k)
  BY DEF Owned
<1>9. (~AnyValidating(k) => NoValidator(k)) /\ (~AnyWorking(k) => NoWorker(k))
  BY DEF AnyValidating, AnyWorking, NoValidator, NoWorker
<1> QED
  BY <1>2, <1>3, <1>4, <1>5, <1>6, <1>7, <1>8, <1>9

\* No complete call is under way for a job that another goroutine owns.
LEMMA OwnedNoHandler ==
  ASSUME TypeInv, Ownership, NEW k \in Jobs, Owned(k), ~AnySpawning(k)
  PROVE  NoHandler(k)
<1>1. \A r \in Requests : handler[k][r] \notin {"stat", "mark", "spawn"}
  BY DEF Ownership, Handover, AnySpawning, Spawning
<1>2. \A r \in Requests : handler[k][r] \in HandlerSteps
  BY DEF TypeInv, TypeOK
<1> QED
  BY <1>1, <1>2 DEF NoHandler, HandlerSteps

\* Reapers list sessions that were never completed, and jobs that ended.
LEMMA ActiveUnlisted ==
  ASSUME Agreement, NEW k \in Jobs, db[k].status \in Active
  PROVE  Unlisted(k)
<1>1. ASSUME NEW s \in Sweeps PROVE sweep[s][k] = Absent
  <2>1. ~Eligible(s, k) /\ db[k] # Absent
    BY EligibleMeans DEF Active, Terminal, Sweeps, Absent
  <2> QED
    BY <2>1 DEF Agreement, Agrees, ReaperAgrees, Listed
<1> QED
  BY <1>1 DEF Agreement, Agrees, ReaperAgrees, Unlisted

-----------------------------------------------------------------------------
(* What a step may do to the records.                                      *)

\* The statuses a record goes through once it was created.
Arrow(from, to) ==
  \/ from = "uploading" /\ to = "none"
  \/ from = "uploading" /\ to = "validating" /\ phase = "serving"
  \/ from = "validating" /\ to \in {"pending", "failed"}
  \/ from = "pending" /\ to = "processing"
  \/ from = "processing" /\ to \in Terminal
  \/ from = "processing" /\ to = "pending" /\ phase = "recovering"
  \/ from \in Terminal /\ to = "none"

Moves(j, to) ==
  Arrow(db[j].status, to) /\ Write(j, RowAs(to)) /\ UNCHANGED <<age, phase>>

Opens(j) ==
  /\ phase = "serving" /\ age[j] = Unborn
  /\ Write(j, RowAs("uploading"))
  /\ age' = [age EXCEPT ![j] = Fresh]
  /\ UNCHANGED phase

Rests ==
  /\ UNCHANGED db
  /\ \A k \in Jobs : (age'[k] = Unborn) <=> (age[k] = Unborn)
  /\ \/ phase' \in {phase, "down"}
     \/ phase = "down" /\ phase' = "recovering"
     \/ phase = "recovering" /\ phase' = "serving"

RecordMoves ==
  \/ Rests
  \/ \E j \in Jobs : Opens(j) \/ \E to \in Statuses \cup {"none"} : Moves(j, to)

-----------------------------------------------------------------------------
(* Validations.                                                            *)

\* A step of one validation keeps the agreement when its own does.
LEMMA ValidatorKeeps ==
  ASSUME RecordInv, NEW j \in Jobs, NEW o \in Starters, Validating(j, o),
         UNCHANGED <<queue, worker, handler, redrive, age, session, sweep, sweeping, phase>>,
         \A k \in Jobs : \A x \in Starters : k # j \/ x # o => validator'[k][x] = validator[k][x],
         \/ db' = db
         \/ db[j].status = "validating" /\ \E to \in {"pending", "failed"} : Write(j, RowAs(to)),
         ValidatorAgrees(j, o)'
  PROVE  Agreement' /\ RecordMoves
<1>1. \A k \in Jobs : Agrees(k)
  BY DEF RecordInv, Agreement
<1>2. ASSUME NEW k \in Jobs, db'[k] = db[k] PROVE Agrees(k)'
  <2>1. \A x \in Starters : ValidatorAgrees(k, x)'
    BY <1>1, <1>2, SameAgrees
  <2>2. AnyQueued(k)' => AnyQueued(k)
    BY Untouched
  <2>3. /\ SessionAgrees(k)' /\ QueueAgrees(k)' /\ RecoveryAgrees(k)'
        /\ \A r \in Requests : HandlerAgrees(k, r)'
        /\ \A w \in Workers : WorkerAgrees(k, w)'
        /\ \A s \in Sweeps : ReaperAgrees(k, s)'
    BY <1>1, <1>2, <2>2, SameAgrees
  <2> QED
    BY <2>1, <2>3 DEF Agrees
<1>3. CASE db' = db
  BY <1>2, <1>3 DEF Agreement, RecordMoves, Rests
<1>4. ASSUME NEW to \in {"pending", "failed"}, Write(j, RowAs(to)), db[j].status = "validating"
      PROVE  Agreement' /\ RecordMoves
  <2>1. db'[j] = RowAs(to) /\ \A k \in Jobs \ {j} : db'[k] = db[k]
    BY <1>4 DEF Write, RecordInv, TypeInv, TypeOK
  <2>2. SessionAgrees(j)'
    BY <1>1, <1>4, <2>1, RowFacts DEF Agrees, SessionAgrees
  <2>3. /\ ~AnyQueued(j) /\ NoWorker(j) /\ ~Awaiting(j) /\ NoHandler(j)
        /\ \A x \in Starters : x # o => ~Validating(j, x)
    BY OnlyOwner, OwnedNoHandler DEF RecordInv
  <2>4. Unlisted(j)
    BY <1>4, ActiveUnlisted DEF RecordInv, Active
  <2>5. /\ ~AnyQueued(j)' /\ ~Awaiting(j)'
        /\ \A w \in Workers : ~Working(j, w)'
        /\ \A x \in Starters : x # o => ~Validating(j, x)'
        /\ \A r \in Requests : handler'[j][r] = "idle"
        /\ \A s \in Sweeps : sweep'[s][j] = Absent /\ ~(Busy(s)' /\ sweeping'[s].job = j)
    BY <2>3, <2>4 DEF AnyQueued, Awaiting, Working, NoWorker, Validating, NoHandler, Unlisted, Busy
  <2>6. Agrees(j)'
    BY <2>2, <2>5, IdleAgrees DEF Agrees
  <2>7. Moves(j, to)
    BY <1>4 DEF Moves, Arrow
  <2> QED
    BY <1>2, <2>1, <2>6, <2>7 DEF Agreement, RecordMoves, Statuses
<1> QED
  BY <1>3, <1>4

\* Where a validation is after a step of it, and what it holds.
LEMMA ValidatorGoes ==
  ASSUME validator \in [Jobs -> [Starters -> Validator]], NEW j \in Jobs, NEW o \in Starters
  PROVE  /\ \A step : Step(j, o, step) =>
              validator'[j][o].pc = step /\ validator'[j][o].row = validator[j][o].row
         /\ \A step : Read(j, o, step) =>
              validator'[j][o].pc = step /\ validator'[j][o].row = db[j]
         /\ Return(j, o) => validator'[j][o].pc = "idle"
         /\ Deadline(j, o) => /\ validator'[j][o].pc = validator[j][o].pc
                              /\ validator'[j][o].row = validator[j][o].row
<1>1. \A v : validator' = [validator EXCEPT ![j][o] = v] => validator'[j][o] = v
  OBVIOUS
<1>2. validator[j][o] \in Validator
  OBVIOUS
<1>3. ASSUME NEW step, Step(j, o, step)
      PROVE  validator'[j][o].pc = step /\ validator'[j][o].row = validator[j][o].row
  <2>1. validator'[j][o] = [validator[j][o] EXCEPT !.pc = step]
    BY <1>1, <1>3 DEF Step
  <2> QED
    BY <1>2, <2>1 DEF Validator
<1>4. ASSUME NEW step, Read(j, o, step)
      PROVE  validator'[j][o].pc = step /\ validator'[j][o].row = db[j]
  <2>1. validator'[j][o] = [validator[j][o] EXCEPT !.pc = step, !.row = db[j]]
    BY <1>1, <1>4 DEF Read
  <2> QED
    BY <1>2, <2>1 DEF Validator
<1>5. Return(j, o) => validator'[j][o].pc = "idle"
  BY <1>1 DEF Return, IdleValidator
<1>6. ASSUME Deadline(j, o)
      PROVE  validator'[j][o].pc = validator[j][o].pc /\ validator'[j][o].row = validator[j][o].row
  <2>1. validator'[j][o] = [validator[j][o] EXCEPT !.late = TRUE]
    BY <1>1, <1>6 DEF Deadline
  <2> QED
    BY <1>2, <2>1 DEF Validator
<1> QED
  BY <1>3, <1>4, <1>5, <1>6

\* What a validation writes is its own copy of the record, with a new status.
LEMMA ValidatorRow ==
  ASSUME RecordInv, NEW j \in Jobs, NEW o \in Starters,
         validator[j][o].pc \in {"pend", "failmark"}
  PROVE  /\ db[j].status = "validating"
         /\ \A to \in {"pending", "failed"} : [validator[j][o].row EXCEPT !.status = to] = RowAs(to)
<1>1. db[j].status = "validating" /\ validator[j][o].row = db[j] /\ db[j] = RowAs(db[j].status)
  BY DEF RecordInv, Agreement, Agrees, ValidatorAgrees, SessionAgrees
<1> QED
  BY <1>1, RowFacts DEF Statuses

\* Every step of a validation but the one that hands its job over.
LEMMA ValidatorMoves ==
  ASSUME RecordInv, NEW j \in Jobs, NEW o \in Starters,
         \/ Deadline(j, o) \/ Probe(j, o) \/ Load(j, o) \/ MarkPending(j, o) \/ GiveUp(j, o)
         \/ Discard(j, o) \/ Reload(j, o) \/ MarkRejected(j, o) \/ TellRejected(j, o)
  PROVE  Agreement' /\ RecordMoves
<1> USE DEF main, clients, records, reapers
<1>1. /\ Validating(j, o)
      /\ UNCHANGED <<queue, worker, handler, redrive, age, session, sweep, sweeping, phase>>
  BY DEF Deadline, Probe, Load, MarkPending, GiveUp, Discard, Reload, MarkRejected,
         TellRejected, At, Validating
<1>2. \A k \in Jobs : \A x \in Starters : k # j \/ x # o => validator'[k][x] = validator[k][x]
  <2>1. \E v : validator' = [validator EXCEPT ![j][o] = v]
    BY DEF Deadline, Probe, Load, MarkPending, GiveUp, Discard, Reload, MarkRejected,
           TellRejected, Step, Read, Return
  <2> QED
    BY <2>1 DEF RecordInv, TypeInv, TypeOK
<1>3. ValidatorAgrees(j, o) /\ validator[j][o] \in Validator
  BY DEF RecordInv, Agreement, Agrees, TypeInv, TypeOK
<1>4. /\ \A step : Step(j, o, step) =>
           validator'[j][o].pc = step /\ validator'[j][o].row = validator[j][o].row
      /\ \A step : Read(j, o, step) =>
           validator'[j][o].pc = step /\ validator'[j][o].row = db[j]
      /\ Return(j, o) => validator'[j][o].pc = "idle"
      /\ Deadline(j, o) => /\ validator'[j][o].pc = validator[j][o].pc
                           /\ validator'[j][o].row = validator[j][o].row
  BY ValidatorGoes DEF RecordInv, TypeInv, TypeOK
<1>5. CASE Deadline(j, o) \/ Probe(j, o) \/ Load(j, o) \/ GiveUp(j, o) \/ Discard(j, o)
           \/ Reload(j, o) \/ TellRejected(j, o)
  <2>1. db' = db
    BY <1>5 DEF Deadline, Probe, Load, GiveUp, Discard, Reload, TellRejected
  <2>2. ValidatorAgrees(j, o)'
    <3>1. CASE Return(j, o)
      BY <1>4, <3>1 DEF ValidatorAgrees
    <3>2. CASE Deadline(j, o)
      BY <1>3, <1>4, <2>1, <3>2 DEF ValidatorAgrees
    <3>3. CASE Probe(j, o) \/ Discard(j, o)
      BY <1>3, <1>4, <2>1, <3>3 DEF Probe, Discard, At, ValidatorAgrees
    <3>4. CASE Load(j, o) \/ Reload(j, o)
      BY <1>3, <1>4, <2>1, <3>4, <3>1 DEF Load, Reload, At, ValidatorAgrees
    <3> QED
      BY <1>5, <3>1, <3>2, <3>3, <3>4 DEF GiveUp, TellRejected
  <2> QED
    BY <1>1, <1>2, <2>1, <2>2, ValidatorKeeps
<1>6. CASE MarkPending(j, o)
  <2>1. db[j].status = "validating" /\ [validator[j][o].row EXCEPT !.status = "pending"] = RowAs("pending")
    BY <1>6, ValidatorRow DEF MarkPending, At
  <2>2. \/ Write(j, RowAs("pending")) /\ Step(j, o, "enqueue")
        \/ (db' = db \/ Write(j, RowAs("pending"))) /\ Return(j, o)
    BY <1>6, <2>1 DEF MarkPending, WriteErr
  <2>3. Write(j, RowAs("pending")) => db'[j].status = "pending"
    BY RowFacts DEF Write, RecordInv, TypeInv, TypeOK
  <2>4. ValidatorAgrees(j, o)'
    BY <1>4, <2>2, <2>3 DEF ValidatorAgrees
  <2> QED
    BY <1>1, <1>2, <2>1, <2>2, <2>4, ValidatorKeeps
<1>7. CASE MarkRejected(j, o)
  <2>1. db[j].status = "validating" /\ [validator[j][o].row EXCEPT !.status = "failed"] = RowAs("failed")
    BY <1>7, ValidatorRow DEF MarkRejected, At
  <2>2. \/ Write(j, RowAs("failed")) /\ Step(j, o, "failtell")
        \/ (db' = db \/ Write(j, RowAs("failed"))) /\ Return(j, o)
    BY <1>7, <2>1 DEF MarkRejected, WriteErr
  <2>3. Write(j, RowAs("failed")) => db'[j].status = "failed"
    BY RowFacts DEF Write, RecordInv, TypeInv, TypeOK
  <2>4. ValidatorAgrees(j, o)'
    BY <1>4, <2>2, <2>3 DEF ValidatorAgrees
  <2> QED
    BY <1>1, <1>2, <2>1, <2>2, <2>4, ValidatorKeeps
<1> QED
  BY <1>5, <1>6, <1>7


\* From a validation to the channel: the record is "pending".
LEMMA EnqueueMoves ==
  ASSUME RecordInv, NEW j \in Jobs, NEW o \in Starters, Enqueue(j, o)
  PROVE  Agreement' /\ RecordMoves
<1> USE DEF main, clients, records, reapers
<1>1. /\ validator[j][o].pc = "enqueue" /\ validator' = [validator EXCEPT ![j][o] = IdleValidator]
      /\ queue' = Append(queue, j)
      /\ UNCHANGED <<db, worker, handler, redrive, age, session, sweep, sweeping, phase>>
  BY DEF Enqueue, At, Send, Return
<1>2. \A k \in Jobs : \A x \in Starters :
        validator'[k][x] = validator[k][x] \/ ~Validating(k, x)'
  <2>1. \A k \in Jobs : \A x \in Starters :
          validator'[k][x] = IF k = j /\ x = o THEN IdleValidator ELSE validator[k][x]
    BY <1>1 DEF RecordInv, TypeInv, TypeOK
  <2> QED
    BY <2>1 DEF Validating, IdleValidator
<1>3. \A k \in Jobs : Agrees(k)
  BY DEF RecordInv, Agreement
<1>4. ASSUME NEW k \in Jobs PROVE QueueAgrees(k)'
  <2>1. CASE k = j
    BY <1>1, <1>3, <2>1 DEF Agrees, ValidatorAgrees, QueueAgrees
  <2>2. CASE k # j
    BY <1>1, <1>3, <2>2, SameAgrees, AppendOnce DEF RecordInv, TypeInv, TypeOK
  <2> QED
    BY <2>1, <2>2
<1>5. ASSUME NEW k \in Jobs PROVE Agrees(k)'
  <2>1. \A x \in Starters : ValidatorAgrees(k, x)'
    BY <1>1, <1>2, <1>3, SameAgrees, IdleAgrees
  <2>2. /\ SessionAgrees(k)' /\ RecoveryAgrees(k)'
        /\ \A r \in Requests : HandlerAgrees(k, r)'
        /\ \A w \in Workers : WorkerAgrees(k, w)'
        /\ \A s \in Sweeps : ReaperAgrees(k, s)'
    BY <1>1, <1>3, SameAgrees
  <2> QED
    BY <1>4, <2>1, <2>2 DEF Agrees
<1> QED
  BY <1>1, <1>5 DEF Agreement, RecordMoves, Rests

-----------------------------------------------------------------------------
(* Workers.                                                                *)

\* A step of one worker on its job keeps the agreement when its own does.
LEMMA WorkerKeeps ==
  ASSUME RecordInv, NEW w \in Workers, NEW j \in Jobs, Working(j, w),
         UNCHANGED <<queue, validator, handler, redrive, age, session, sweep, sweeping, phase>>,
         \A x \in Workers : x # w => worker'[x] = worker[x],
         \A k \in Jobs : k # j => ~Working(k, w)',
         \/ db' = db
         \/ \E to \in {"processing", "completed", "failed"} : Arrow(db[j].status, to) /\ Write(j, RowAs(to)),
         WorkerAgrees(j, w)'
  PROVE  Agreement' /\ RecordMoves
<1>1. \A k \in Jobs : Agrees(k)
  BY DEF RecordInv, Agreement
<1>2. ASSUME NEW k \in Jobs, db'[k] = db[k] PROVE Agrees(k)'
  <2>1. \A x \in Workers : WorkerAgrees(k, x)'
    BY <1>1, <1>2, SameAgrees, IdleAgrees
  <2>2. AnyQueued(k)' => AnyQueued(k)
    BY Untouched
  <2>3. /\ SessionAgrees(k)' /\ QueueAgrees(k)' /\ RecoveryAgrees(k)'
        /\ \A r \in Requests : HandlerAgrees(k, r)'
        /\ \A x \in Starters : ValidatorAgrees(k, x)'
        /\ \A s \in Sweeps : ReaperAgrees(k, s)'
    BY <1>1, <1>2, <2>2, SameAgrees
  <2> QED
    BY <2>1, <2>3 DEF Agrees
<1>3. CASE db' = db
  BY <1>2, <1>3 DEF Agreement, RecordMoves, Rests
<1>4. ASSUME NEW to \in {"processing", "completed", "failed"}, Write(j, RowAs(to)),
             Arrow(db[j].status, to)
      PROVE  Agreement' /\ RecordMoves
  <2>1. db'[j] = RowAs(to) /\ \A k \in Jobs \ {j} : db'[k] = db[k]
    BY <1>4 DEF Write, RecordInv, TypeInv, TypeOK
  <2>a. db[j].status \in Active
    BY <1>4 DEF Arrow, Active, Terminal
  <2>2. SessionAgrees(j)'
    BY <1>1, <2>a, <2>1, RowFacts DEF Agrees, SessionAgrees, Active
  <2>3. /\ ~AnyQueued(j) /\ NoValidator(j) /\ ~Awaiting(j) /\ NoHandler(j)
        /\ \A x \in Workers : x # w => ~Working(j, x)
    BY OnlyOwner, OwnedNoHandler DEF RecordInv
  <2>4. Unlisted(j)
    BY <2>a, ActiveUnlisted DEF RecordInv
  <2>5. /\ ~AnyQueued(j)' /\ ~Awaiting(j)'
        /\ \A x \in Workers : x # w => ~Working(j, x)'
        /\ \A x \in Starters : ~Validating(j, x)'
        /\ \A r \in Requests : handler'[j][r] = "idle"
        /\ \A s \in Sweeps : sweep'[s][j] = Absent /\ ~(Busy(s)' /\ sweeping'[s].job = j)
    BY <2>3, <2>4 DEF AnyQueued, Awaiting, Working, NoValidator, Validating, NoHandler, Unlisted, Busy
  <2>6. Agrees(j)'
    BY <2>2, <2>5, IdleAgrees DEF Agrees
  <2>7. Moves(j, to)
    BY <1>4 DEF Moves
  <2> QED
    BY <1>2, <2>1, <2>6, <2>7 DEF Agreement, RecordMoves, Statuses
<1> QED
  BY <1>3, <1>4

\* What a worker holds agrees with the record at each of its steps.
LEMMA WorkerHolds ==
  ASSUME RecordInv, NEW w \in Workers, worker[w].pc \notin {"idle", "quit"}
  PROVE  /\ worker[w].job \in Jobs /\ Working(worker[w].job, w)
         /\ LET j == worker[w].job IN
            /\ db[j] = RowAs(db[j].status)
            /\ worker[w].pc \in {"load", "mark"} => db[j].status = "pending"
            /\ worker[w].pc \notin {"load", "tell"} => worker[w].row = db[j]
            /\ worker[w].pc \in {"fetch", "encode", "upload", "fail"} => db[j].status = "processing"
            /\ worker[w].pc = "tell" => db[j] \in {worker[w].row, Absent}
<1>1. worker[w].job \in Jobs /\ Sound(worker[w])
  BY WorkerTyped DEF RecordInv, TypeInv, TypeOK, Sound
<1>2. Working(worker[w].job, w)
  BY DEF Working
<1> QED
  BY <1>1, <1>2 DEF RecordInv, Agreement, Agrees, WorkerAgrees, SessionAgrees, Sound

\* A worker goes on with a new copy of the record.
Takes(w, step, row) == worker' = [worker EXCEPT ![w].pc = step, ![w].row = row]

\* Where a worker is after a step of it.
LEMMA WorkerGoes ==
  ASSUME worker \in [Workers -> Worker], NEW w \in Workers
  PROVE  /\ \A v : worker' = [worker EXCEPT ![w] = v] =>
              worker'[w] = v /\ \A x \in Workers : x # w => worker'[x] = worker[x]
         /\ \A step : To(w, step) =>
              /\ worker'[w].pc = step /\ worker'[w].job = worker[w].job
              /\ worker'[w].row = worker[w].row /\ worker'[w].sent = worker[w].sent
              /\ \A x \in Workers : x # w => worker'[x] = worker[x]
         /\ Rest(w) => /\ worker'[w] = IdleWorker /\ worker'[w].pc = "idle"
                       /\ \A x \in Workers : x # w => worker'[x] = worker[x]
         /\ \A step, row : Takes(w, step, row) =>
              /\ worker'[w].pc = step /\ worker'[w].job = worker[w].job
              /\ worker'[w].row = row /\ worker'[w].sent = worker[w].sent
              /\ \A x \in Workers : x # w => worker'[x] = worker[x]
<1>1. \A v : worker' = [worker EXCEPT ![w] = v] =>
        worker'[w] = v /\ \A x \in Workers : x # w => worker'[x] = worker[x]
  OBVIOUS
<1>2. worker[w] \in Worker
  OBVIOUS
<1>3. ASSUME NEW step, To(w, step)
      PROVE  /\ worker'[w].pc = step /\ worker'[w].job = worker[w].job
             /\ worker'[w].row = worker[w].row /\ worker'[w].sent = worker[w].sent
             /\ \A x \in Workers : x # w => worker'[x] = worker[x]
  <2>1. worker'[w] = [worker[w] EXCEPT !.pc = step] /\ \A x \in Workers : x # w => worker'[x] = worker[x]
    BY <1>1, <1>3 DEF To
  <2> QED
    BY <1>2, <2>1 DEF Worker
<1>4. ASSUME NEW step, NEW row, Takes(w, step, row)
      PROVE  /\ worker'[w].pc = step /\ worker'[w].job = worker[w].job
             /\ worker'[w].row = row /\ worker'[w].sent = worker[w].sent
             /\ \A x \in Workers : x # w => worker'[x] = worker[x]
  <2>1. /\ worker'[w] = [worker[w] EXCEPT !.pc = step, !.row = row]
        /\ \A x \in Workers : x # w => worker'[x] = worker[x]
    BY <1>1, <1>4 DEF Takes
  <2> QED
    BY <1>2, <2>1 DEF Worker
<1>5. Rest(w) => /\ worker'[w] = IdleWorker /\ worker'[w].pc = "idle"
                 /\ \A x \in Workers : x # w => worker'[x] = worker[x]
  BY <1>1 DEF Rest, IdleWorker
<1> QED
  BY <1>1, <1>3, <1>4, <1>5


\* Every step of a worker on a job.
LEMMA WorkerMoves ==
  ASSUME RecordInv, NEW w \in Workers,
         \/ WLoad(w) \/ WMark(w) \/ WFetch(w) \/ WProgress(w) \/ WEncode(w)
         \/ (\E f \in Renditions : WPut(w, f)) \/ WFinish(w) \/ WFail(w) \/ WTell(w)
  PROVE  Agreement' /\ RecordMoves
<1> USE DEF main, clients, records, uploading, reapers
<1>1. /\ worker[w].pc \notin {"idle", "quit"}
      /\ UNCHANGED <<queue, validator, handler, redrive, age, session, sweep, sweeping, phase>>
  BY DEF WLoad, WMark, WFetch, WProgress, WEncode, WPut, WFinish, WFail, WTell, On
<1>2. PICK j \in Jobs : j = worker[w].job
  BY <1>1, WorkerHolds
<1>3. /\ Working(j, w)
      /\ db[j] = RowAs(db[j].status)
      /\ worker[w].pc \in {"load", "mark"} => db[j].status = "pending"
      /\ worker[w].pc \notin {"load", "tell"} => worker[w].row = db[j]
      /\ worker[w].pc \in {"fetch", "encode", "upload", "fail"} => db[j].status = "processing"
      /\ worker[w].pc = "tell" => db[j] \in {worker[w].row, Absent}
  BY <1>1, <1>2, WorkerHolds
<1>w. worker \in [Workers -> Worker] /\ worker[w].row \in Row
  BY WorkerTyped DEF RecordInv, TypeInv, TypeOK
<1>4. \A v : worker' = [worker EXCEPT ![w] = v] => worker'[w] = v /\ \A x \in Workers : x # w => worker'[x] = worker[x]
  BY <1>w, WorkerGoes
\* A step that keeps the worker on j, or lets go of it.
<1>5. ASSUME worker'[w].job = j \/ worker'[w].pc = "idle",
             \A x \in Workers : x # w => worker'[x] = worker[x],
             \/ db' = db
             \/ \E to \in {"processing", "completed", "failed"} : Arrow(db[j].status, to) /\ Write(j, RowAs(to)),
             WorkerAgrees(j, w)'
      PROVE  Agreement' /\ RecordMoves
  <2>1. \A k \in Jobs : k # j => ~Working(k, w)'
    BY <1>5 DEF Working
  <2> QED
    BY <1>1, <1>3, <1>5, <2>1, WorkerKeeps
\* One that lets go.
<1>6. ASSUME Rest(w),
             \/ db' = db
             \/ \E to \in {"processing", "completed", "failed"} : Arrow(db[j].status, to) /\ Write(j, RowAs(to))
      PROVE  Agreement' /\ RecordMoves
  <2>1. worker'[w].pc = "idle" /\ \A x \in Workers : x # w => worker'[x] = worker[x]
    BY <1>w, <1>6, WorkerGoes
  <2>2. WorkerAgrees(j, w)'
    BY <2>1 DEF WorkerAgrees, Working
  <2> QED
    BY <1>5, <1>6, <2>1, <2>2
\* One that goes on, and writes nothing.
<1>7. ASSUME NEW step \in {"fetch", "encode", "upload", "fail"}, To(w, step), db' = db,
             worker[w].pc \in {"fetch", "encode", "upload", "fail"}
      PROVE  Agreement' /\ RecordMoves
  <2>1. /\ worker'[w].pc = step /\ worker'[w].job = j /\ worker'[w].row = worker[w].row
        /\ \A x \in Workers : x # w => worker'[x] = worker[x]
    BY <1>w, <1>2, <1>7, WorkerGoes
  <2>2. WorkerAgrees(j, w)'
    BY <1>3, <1>7, <2>1 DEF WorkerAgrees, Working
  <2> QED
    BY <1>5, <1>7, <2>1, <2>2
\* One that writes the record of j, and holds what it wrote.
<1>8. ASSUME NEW step \in {"fetch", "tell"}, NEW to \in {"processing", "completed", "failed"},
             Takes(w, step, RowAs(to)), Arrow(db[j].status, to), Write(j, RowAs(to))
      PROVE  Agreement' /\ RecordMoves
  <2>1. /\ worker'[w].pc = step /\ worker'[w].job = j /\ worker'[w].row = RowAs(to)
        /\ \A x \in Workers : x # w => worker'[x] = worker[x]
    BY <1>w, <1>2, <1>8, WorkerGoes
  <2>2. db'[j] = RowAs(to)
    BY <1>8 DEF Write, RecordInv, TypeInv, TypeOK
  <2>3. WorkerAgrees(j, w)'
    BY <2>1, <2>2 DEF WorkerAgrees, Working
  <2> QED
    BY <1>5, <1>8, <2>1, <2>3
<1>9. CASE WLoad(w)
  <2>1. worker[w].pc = "load" /\ db' = db
    BY <1>9 DEF WLoad, On
  <2>2. CASE Rest(w)
    BY <1>6, <2>1, <2>2
  <2>3. CASE Takes(w, "mark", db[j])
    <3>1. /\ worker'[w].pc = "mark" /\ worker'[w].job = j /\ worker'[w].row = db[j]
          /\ \A x \in Workers : x # w => worker'[x] = worker[x]
      BY <1>w, <1>2, <2>3, WorkerGoes
    <3>2. WorkerAgrees(j, w)'
      BY <1>3, <2>1, <3>1 DEF WorkerAgrees, Working
    <3> QED
      BY <1>5, <2>1, <3>1, <3>2
  <2> QED
    BY <1>2, <1>9, <2>2, <2>3 DEF WLoad, Takes
<1>10. CASE WMark(w)
  <2>1. worker[w].pc = "mark" /\ db[j].status = "pending" /\ Held(w, "processing") = RowAs("processing")
    <3>1. worker[w].pc = "mark"
      BY <1>10 DEF WMark, On
    <3>2. db[j].status = "pending" /\ worker[w].row = RowAs("pending")
      BY <1>3, <3>1
    <3> QED
      BY <3>1, <3>2, RowFacts DEF Held, Statuses
  <2>2. Arrow(db[j].status, "processing")
    BY <2>1 DEF Arrow
  <2>3. \/ Rest(w) /\ (db' = db \/ Write(j, RowAs("processing")))
        \/ Write(j, RowAs("processing")) /\ Takes(w, "fetch", RowAs("processing"))
    BY <1>2, <1>10, <2>1 DEF WMark, WriteErr, Takes
  <2> QED
    BY <1>6, <1>8, <2>2, <2>3
<1>11. CASE WFetch(w)
  BY <1>7, <1>11 DEF WFetch, On
<1>12. CASE WEncode(w)
  BY <1>7, <1>12 DEF WEncode, On
<1>13. CASE WProgress(w)
  <2>1. worker[w].pc = "encode" /\ Write(j, worker[w].row) /\ worker' = worker
    BY <1>2, <1>13 DEF WProgress, On
  <2>2. db' = db
    BY <1>3, <2>1 DEF Write, RecordInv, TypeInv, TypeOK
  <2>3. WorkerAgrees(j, w)'
    BY <1>3, <2>1, <2>2 DEF WorkerAgrees, Working
  <2> QED
    BY <1>2, <1>5, <2>1, <2>2, <2>3
<1>14. CASE \E f \in Renditions : WPut(w, f)
  <2>1. worker[w].pc = "upload" /\ db' = db
    BY <1>14 DEF WPut, On
  <2>2. CASE To(w, "fail")
    BY <1>7, <2>1, <2>2
  <2>3. ASSUME NEW f \in Renditions, worker' = [worker EXCEPT ![w].sent = @ \cup {f}]
        PROVE  Agreement' /\ RecordMoves
    <3>1. worker[w] \in Worker
      BY <1>w
    <3>2. /\ worker'[w] = [worker[w] EXCEPT !.sent = @ \cup {f}]
          /\ \A x \in Workers : x # w => worker'[x] = worker[x]
      BY <1>4, <2>3
    <3>3. worker'[w].pc = "upload" /\ worker'[w].job = j /\ worker'[w].row = worker[w].row
      BY <1>2, <2>1, <3>1, <3>2 DEF Worker
    <3>4. WorkerAgrees(j, w)'
      BY <1>3, <2>1, <3>3 DEF WorkerAgrees, Working
    <3> QED
      BY <1>5, <2>1, <3>2, <3>3, <3>4
  <2> QED
    BY <1>14, <2>2, <2>3 DEF WPut
<1>15. CASE WFinish(w)
  <2>1. worker[w].pc = "upload" /\ db[j].status = "processing"
    BY <1>3, <1>15 DEF WFinish, On
  <2>2. [status |-> "completed", outs |-> Renditions] = RowAs("completed")
    BY DEF RowAs
  <2>3. Arrow(db[j].status, "completed")
    BY <2>1 DEF Arrow, Terminal
  <2>4. \/ Rest(w) /\ (db' = db \/ Write(j, RowAs("completed")))
        \/ Write(j, RowAs("completed")) /\ Takes(w, "tell", RowAs("completed"))
    BY <1>2, <1>15, <2>2 DEF WFinish, WriteErr, Takes
  <2> QED
    BY <1>6, <1>8, <2>3, <2>4
<1>16. CASE WFail(w)
  <2>1. db[j].status = "processing" /\ Held(w, "failed") = RowAs("failed")
    <3>1. worker[w].pc = "fail"
      BY <1>16 DEF WFail, On
    <3>2. db[j].status = "processing" /\ worker[w].row = RowAs("processing")
      BY <1>3, <3>1
    <3> QED
      BY <3>2, RowFacts DEF Held, Statuses
  <2>2. Arrow(db[j].status, "failed")
    BY <2>1 DEF Arrow, Terminal
  <2>3. \/ Rest(w) /\ (db' = db \/ Write(j, RowAs("failed")))
        \/ Write(j, RowAs("failed")) /\ Takes(w, "tell", RowAs("failed"))
    BY <1>2, <1>16, <2>1 DEF WFail, WriteErr, Takes
  <2> QED
    BY <1>6, <1>8, <2>2, <2>3
<1>17. CASE WTell(w)
  BY <1>6, <1>17 DEF WTell
<1> QED
  BY <1>9, <1>10, <1>11, <1>12, <1>13, <1>14, <1>15, <1>16, <1>17

\* A worker that takes a job from the channel finds it "pending"; one that
\* quits has none.
LEMMA WorkerTakes ==
  ASSUME RecordInv, NEW w \in Workers, WDequeue(w) \/ WQuit(w)
  PROVE  Agreement' /\ RecordMoves
<1> USE DEF main, clients, records, uploading, reapers
<1>1. UNCHANGED <<db, validator, handler, redrive, age, session, sweep, sweeping, phase>>
  BY DEF WDequeue, WQuit
<1>2. \A k \in Jobs : Agrees(k)
  BY DEF RecordInv, Agreement
<1>w. worker \in [Workers -> Worker]
  BY DEF RecordInv, TypeInv, TypeOK
<1>3. ASSUME NEW k \in Jobs, QueueAgrees(k)', \A x \in Workers : WorkerAgrees(k, x)' PROVE Agrees(k)'
  <2>1. /\ SessionAgrees(k)' /\ RecoveryAgrees(k)'
        /\ \A r \in Requests : HandlerAgrees(k, r)'
        /\ \A o \in Starters : ValidatorAgrees(k, o)'
        /\ \A s \in Sweeps : ReaperAgrees(k, s)'
    BY <1>1, <1>2, SameAgrees
  <2> QED
    BY <1>3, <2>1 DEF Agrees
<1>4. CASE WQuit(w)
  <2>1. worker'[w].pc = "quit" /\ queue' = queue /\ \A x \in Workers : x # w => worker'[x] = worker[x]
    BY <1>w, <1>4, WorkerGoes DEF WQuit
  <2>2. ASSUME NEW k \in Jobs PROVE QueueAgrees(k)' /\ \A x \in Workers : WorkerAgrees(k, x)'
    BY <1>1, <1>2, <2>1, SameAgrees, Untouched, IdleAgrees DEF Working
  <2> QED
    BY <1>1, <1>3, <2>2 DEF Agreement, RecordMoves, Rests
<1>5. CASE WDequeue(w)
  <2>1. PICK i \in Jobs : i = Head(queue)
    BY <1>5 DEF WDequeue, RecordInv, TypeInv, TypeOK
  <2>2. /\ queue # <<>> /\ queue' = Tail(queue)
        /\ worker' = [worker EXCEPT ![w].pc = "load", ![w].job = i]
    BY <1>5, <2>1 DEF WDequeue
  <2>3. /\ worker'[w].pc = "load" /\ worker'[w].job = i
        /\ \A x \in Workers : x # w => worker'[x] = worker[x]
    <3>1. /\ worker[w] \in Worker /\ worker'[w] = [worker[w] EXCEPT !.pc = "load", !.job = i]
          /\ \A x \in Workers : x # w => worker'[x] = worker[x]
      BY <1>w, <2>2
    <3> QED
      BY <3>1 DEF Worker
  <2>4. AnyQueued(i) /\ \A k \in Jobs : AnyQueued(k)' => AnyQueued(k)
    BY <2>1, <2>2, TailOnce DEF RecordInv, TypeInv, TypeOK
  <2>5. db[i].status = "pending"
    BY <1>2, <2>4 DEF Agrees, QueueAgrees
  <2>6. ASSUME NEW k \in Jobs PROVE QueueAgrees(k)'
    BY <1>1, <1>2, <2>4, SameAgrees
  <2>7. ASSUME NEW k \in Jobs PROVE \A x \in Workers : WorkerAgrees(k, x)'
    <3>1. WorkerAgrees(k, w)'
      BY <1>1, <2>3, <2>5 DEF WorkerAgrees, Working
    <3>2. \A x \in Workers : x # w => WorkerAgrees(k, x)'
      BY <1>1, <1>2, <2>3, SameAgrees
    <3> QED
      BY <3>1, <3>2
  <2> QED
    BY <1>1, <1>3, <2>6, <2>7 DEF Agreement, RecordMoves, Rests
<1> QED
  BY <1>4, <1>5


-----------------------------------------------------------------------------
(* Recovery.                                                               *)

\* What recovery listed is the record as it is.
LEMMA RecoveryHolds ==
  ASSUME RecordInv, NEW j \in Jobs, NEW statuses, statuses \subseteq Interrupted,
         Redriving(j, statuses)
  PROVE  /\ Awaiting(j) /\ phase = "recovering"
         /\ redrive[j] = db[j] /\ db[j] = RowAs(db[j].status) /\ db[j].status \in statuses
<1>1. redrive[j].status \in statuses /\ phase = "recovering"
  BY DEF Redriving
<1>2. Awaiting(j)
  BY <1>1 DEF Awaiting, Absent, Interrupted
<1> QED
  BY <1>1, <1>2 DEF RecordInv, Agreement, Agrees, RecoveryAgrees, SessionAgrees

\* A step of recovery on one job keeps the agreement when its own does.
LEMMA RecoveryKeeps ==
  ASSUME RecordInv, NEW j \in Jobs, Awaiting(j), phase = "recovering",
         UNCHANGED <<queue, validator, worker, handler, age, session, sweep, sweeping, phase>>,
         \A k \in Jobs : k # j => redrive'[k] = redrive[k],
         \/ db' = db
         \/ \E to \in {"pending", "failed"} :
              db[j].status \in Interrupted /\ Arrow(db[j].status, to) /\ Write(j, RowAs(to)),
         RecoveryAgrees(j)'
  PROVE  Agreement' /\ RecordMoves
<1>1. \A k \in Jobs : Agrees(k)
  BY DEF RecordInv, Agreement
<1>2. ASSUME NEW k \in Jobs, db'[k] = db[k] PROVE Agrees(k)'
  <2>1. RecoveryAgrees(k)'
    BY <1>1, <1>2, SameAgrees
  <2>2. AnyQueued(k)' => AnyQueued(k)
    BY Untouched
  <2>3. /\ SessionAgrees(k)' /\ QueueAgrees(k)'
        /\ \A r \in Requests : HandlerAgrees(k, r)'
        /\ \A o \in Starters : ValidatorAgrees(k, o)'
        /\ \A w \in Workers : WorkerAgrees(k, w)'
        /\ \A s \in Sweeps : ReaperAgrees(k, s)'
    BY <1>1, <1>2, <2>2, SameAgrees
  <2> QED
    BY <2>1, <2>3 DEF Agrees
<1>3. CASE db' = db
  BY <1>2, <1>3 DEF Agreement, RecordMoves, Rests
<1>4. ASSUME NEW to \in {"pending", "failed"}, db[j].status \in Interrupted,
             Arrow(db[j].status, to), Write(j, RowAs(to))
      PROVE  Agreement' /\ RecordMoves
  <2>1. db'[j] = RowAs(to) /\ \A k \in Jobs \ {j} : db'[k] = db[k]
    BY <1>4 DEF Write, RecordInv, TypeInv, TypeOK
  <2>2. SessionAgrees(j)'
    BY <1>1, <1>4, <2>1, RowFacts DEF Agrees, SessionAgrees, Interrupted
  <2>3. ~AnyQueued(j) /\ NoValidator(j) /\ NoWorker(j) /\ NoHandler(j)
    BY OnlyOwner, OwnedNoHandler DEF RecordInv
  <2>4. Unlisted(j)
    BY <1>4, ActiveUnlisted DEF RecordInv, Active, Interrupted
  <2>5. /\ ~AnyQueued(j)'
        /\ \A x \in Workers : ~Working(j, x)'
        /\ \A x \in Starters : ~Validating(j, x)'
        /\ \A r \in Requests : handler'[j][r] = "idle"
        /\ \A s \in Sweeps : sweep'[s][j] = Absent /\ ~(Busy(s)' /\ sweeping'[s].job = j)
    BY <2>3, <2>4 DEF AnyQueued, Working, NoWorker, NoValidator, Validating, NoHandler, Unlisted, Busy
  <2>6. Agrees(j)'
    BY <2>2, <2>5, IdleAgrees DEF Agrees
  <2>7. Moves(j, to)
    BY <1>4 DEF Moves
  <2> QED
    BY <1>2, <2>1, <2>6, <2>7 DEF Agreement, RecordMoves, Statuses
<1> QED
  BY <1>3, <1>4

\* Recovery lets go of a job.
LEMMA RedrivenLetsGo ==
  ASSUME redrive \in [Jobs -> Row], NEW j \in Jobs, Redriven(j)
  PROVE  RecoveryAgrees(j)' /\ \A k \in Jobs : k # j => redrive'[k] = redrive[k]
<1>1. redrive'[j] = Absent /\ \A k \in Jobs : k # j => redrive'[k] = redrive[k]
  BY DEF Redriven
<1> QED
  BY <1>1 DEF RecoveryAgrees, Awaiting

\* The steps of recovery but for those that hand a job over.
LEMMA RecoveryWrites ==
  ASSUME RecordInv, NEW j \in Jobs, BootSkip(j) \/ BootReset(j) \/ BootFail(j)
  PROVE  Agreement' /\ RecordMoves
<1> USE DEF main, clients, records, uploading, reapers
<1>1. UNCHANGED <<queue, validator, worker, handler, age, session, sweep, sweeping, phase>>
  BY DEF BootSkip, BootReset, BootFail
<1>r. redrive \in [Jobs -> Row] /\ db \in [Jobs -> Row]
  BY DEF RecordInv, TypeInv, TypeOK
<1>2. CASE BootSkip(j)
  <2>1. Awaiting(j) /\ phase = "recovering"
    BY <1>2, RecoveryHolds DEF BootSkip, Interrupted
  <2> QED
    BY <1>1, <1>2, <1>r, <2>1, RedrivenLetsGo, RecoveryKeeps DEF BootSkip
<1>3. CASE BootReset(j)
  <2>1. /\ Awaiting(j) /\ phase = "recovering"
        /\ redrive[j] = RowAs("processing") /\ db[j].status = "processing"
    BY <1>3, RecoveryHolds DEF BootReset, Interrupted
  <2>2. [redrive[j] EXCEPT !.status = "pending"] = RowAs("pending")
    BY <2>1, RowFacts DEF Statuses
  <2>3. Arrow(db[j].status, "pending") /\ db[j].status \in Interrupted
    BY <2>1 DEF Arrow, Interrupted
  <2>4. CASE Redriven(j) /\ (db' = db \/ Write(j, RowAs("pending")))
    BY <1>1, <1>r, <2>1, <2>3, <2>4, RedrivenLetsGo, RecoveryKeeps
  <2>5. CASE Write(j, RowAs("pending")) /\ redrive' = [redrive EXCEPT ![j] = RowAs("pending")]
    <3>1. redrive'[j] = RowAs("pending") /\ \A k \in Jobs : k # j => redrive'[k] = redrive[k]
      BY <1>r, <2>5
    <3>2. db'[j] = RowAs("pending")
      BY <1>r, <2>5 DEF Write
    <3>3. RecoveryAgrees(j)'
      BY <3>1, <3>2, RowFacts DEF RecoveryAgrees, Interrupted
    <3> QED
      BY <1>1, <2>1, <2>3, <2>5, <3>1, <3>3, RecoveryKeeps
  <2> QED
    BY <1>3, <2>2, <2>4, <2>5 DEF BootReset, WriteErr
<1>4. CASE BootFail(j)
  <2>1. /\ Awaiting(j) /\ phase = "recovering"
        /\ redrive[j] = RowAs("validating") /\ db[j].status = "validating"
    BY <1>4, RecoveryHolds DEF BootFail, Interrupted
  <2>2. [redrive[j] EXCEPT !.status = "failed"] = RowAs("failed")
    BY <2>1, RowFacts DEF Statuses
  <2>3. Arrow(db[j].status, "failed") /\ db[j].status \in Interrupted
    BY <2>1 DEF Arrow, Interrupted
  <2>4. Redriven(j) /\ (db' = db \/ Write(j, RowAs("failed")))
    BY <1>4, <2>2 DEF BootFail, WriteErr
  <2> QED
    BY <1>1, <1>r, <2>1, <2>3, <2>4, RedrivenLetsGo, RecoveryKeeps
<1> QED
  BY <1>2, <1>3, <1>4

\* From recovery to the channel, or to a validation: the record is as its new
\* owner takes it.
LEMMA RecoveryHands ==
  ASSUME RecordInv, NEW j \in Jobs, BootRequeue(j) \/ BootStat(j)
  PROVE  Agreement' /\ RecordMoves
<1> USE DEF main, clients, records, uploading, reapers
<1>1. UNCHANGED <<db, worker, handler, age, session, sweep, sweeping, phase>>
  BY DEF BootRequeue, BootStat
<1>2. \A k \in Jobs : Agrees(k)
  BY DEF RecordInv, Agreement
<1>r. redrive \in [Jobs -> Row] /\ db \in [Jobs -> Row] /\ queue \in Seq(Jobs)
      /\ validator \in [Jobs -> [Starters -> Validator]]
  BY DEF RecordInv, TypeInv, TypeOK
<1>3. ASSUME NEW k \in Jobs, QueueAgrees(k)', RecoveryAgrees(k)', \A o \in Starters : ValidatorAgrees(k, o)'
      PROVE  Agrees(k)'
  <2>1. /\ SessionAgrees(k)'
        /\ \A r \in Requests : HandlerAgrees(k, r)'
        /\ \A w \in Workers : WorkerAgrees(k, w)'
        /\ \A s \in Sweeps : ReaperAgrees(k, s)'
    BY <1>1, <1>2, SameAgrees
  <2> QED
    BY <1>3, <2>1 DEF Agrees
<1>4. CASE BootRequeue(j)
  <2>1. db[j].status = "pending"
    BY <1>4, RecoveryHolds DEF BootRequeue, Interrupted
  <2>2. queue' = Append(queue, j) /\ Redriven(j) /\ validator' = validator
    BY <1>4 DEF BootRequeue, Send
  <2>3. ASSUME NEW k \in Jobs PROVE QueueAgrees(k)'
    <3>1. CASE k = j
      BY <1>1, <2>1, <3>1 DEF QueueAgrees
    <3>2. CASE k # j
      BY <1>1, <1>2, <1>r, <2>2, <3>2, SameAgrees, AppendOnce
    <3> QED
      BY <3>1, <3>2
  <2>4. ASSUME NEW k \in Jobs PROVE RecoveryAgrees(k)' /\ \A o \in Starters : ValidatorAgrees(k, o)'
    BY <1>1, <1>2, <1>r, <2>2, SameAgrees, RedrivenLetsGo
  <2> QED
    BY <1>1, <1>3, <2>3, <2>4 DEF Agreement, RecordMoves, Rests
<1>5. CASE BootStat(j)
  <2>1. db[j].status = "validating"
    BY <1>5, RecoveryHolds DEF BootStat, Interrupted
  <2>2. queue' = queue /\ (redrive' = redrive \/ Redriven(j))
    BY <1>5 DEF BootStat
  <2>3. ASSUME NEW k \in Jobs PROVE QueueAgrees(k)'
    BY <1>1, <1>2, <2>2, SameAgrees, Untouched
  <2>4. ASSUME NEW k \in Jobs PROVE RecoveryAgrees(k)'
    BY <1>1, <1>2, <1>r, <2>2, SameAgrees, RedrivenLetsGo
  <2>5. ASSUME NEW k \in Jobs, NEW o \in Starters PROVE ValidatorAgrees(k, o)'
    <3>1. CASE validator'[k][o] = validator[k][o]
      BY <1>1, <1>2, <3>1, SameAgrees
    <3>2. CASE validator'[k][o] # validator[k][o]
      <4>1. validator' = [validator EXCEPT ![j][Boot] = [IdleValidator EXCEPT !.pc = "probe"]]
        BY <1>5, <3>2 DEF BootStat
      <4>2. k = j /\ validator'[k][o] = [IdleValidator EXCEPT !.pc = "probe"]
        BY <1>r, <3>2, <4>1
      <4>3. validator'[k][o].pc = "probe"
        BY <4>2 DEF IdleValidator
      <4> QED
        BY <1>1, <2>1, <4>2, <4>3 DEF ValidatorAgrees
    <3> QED
      BY <3>1, <3>2
  <2> QED
    BY <1>1, <1>3, <2>3, <2>4, <2>5 DEF Agreement, RecordMoves, Rests
<1> QED
  BY <1>4, <1>5

\* The start and the end of the process, and its serving.
LEMMA ProcessMoves ==
  ASSUME RecordInv, BootList \/ BootServe \/ Stop \/ Exit \/ Crash
  PROVE  Agreement' /\ RecordMoves
<1> USE DEF main, clients, records, uploading, reapers
<1>1. \A k \in Jobs : Agrees(k)
  BY DEF RecordInv, Agreement
<1>2. CASE BootList
  <2>1. /\ UNCHANGED <<db, queue, validator, worker, handler, age, session, sweep, sweeping>>
        /\ phase = "down" /\ phase' = "recovering"
    BY <1>2 DEF BootList
  <2>2. ASSUME NEW k \in Jobs PROVE RecoveryAgrees(k)'
    BY <1>2, <2>1 DEF BootList, RecoveryAgrees, Awaiting
  <2>3. ASSUME NEW k \in Jobs PROVE Agrees(k)'
    <3>1. /\ SessionAgrees(k)' /\ QueueAgrees(k)'
          /\ \A r \in Requests : HandlerAgrees(k, r)'
          /\ \A o \in Starters : ValidatorAgrees(k, o)'
          /\ \A w \in Workers : WorkerAgrees(k, w)'
          /\ \A s \in Sweeps : ReaperAgrees(k, s)'
      BY <1>1, <2>1, SameAgrees, Untouched
    <3> QED
      BY <2>2, <3>1 DEF Agrees
  <2> QED
    BY <2>1, <2>3 DEF Agreement, RecordMoves, Rests
<1>3. CASE BootServe \/ Stop
  <2>1. /\ UNCHANGED <<db, queue, validator, worker, handler, age, session, redrive, sweep, sweeping>>
        /\ phase' = phase \/ (phase = "recovering" /\ phase' = "serving")
    BY <1>3 DEF BootServe, Stop
  <2>2. ASSUME NEW k \in Jobs PROVE Agrees(k)'
    BY <1>1, <2>1, Undisturbed, Untouched
  <2> QED
    BY <2>1, <2>2 DEF Agreement, RecordMoves, Rests
<1>4. CASE Wipe
  <2>1. /\ UNCHANGED <<db, age>> /\ phase' = "down" /\ NoProcess'
        /\ \A k \in Jobs : session'[k] = IF session[k] = "presign" THEN "lost" ELSE session[k]
        /\ \A k \in Jobs : \A s \in Sweeps : sweep'[s][k] = Absent /\ sweeping'[s].pc = "idle"
    BY <1>4 DEF Wipe, NoProcess, NoGoroutines, IdleSweeper
  <2>2. ASSUME NEW k \in Jobs PROVE Agrees(k)'
    <3>1. SessionAgrees(k)'
      BY <1>1, <2>1 DEF Agrees, SessionAgrees
    <3>2. /\ \A r \in Requests : handler'[k][r] = "idle"
          /\ \A o \in Starters : ~Validating(k, o)'
          /\ \A w \in Workers : ~Working(k, w)'
          /\ ~AnyQueued(k)' /\ ~Awaiting(k)'
      BY <2>1 DEF NoProcess, NoGoroutines, IdleValidator, IdleWorker, Validating, Working,
                  AnyQueued, Awaiting
    <3>3. \A s \in Sweeps : sweep'[s][k] = Absent /\ ~(Busy(s)' /\ sweeping'[s].job = k)
      BY <2>1 DEF Busy
    <3> QED
      BY <3>1, <3>2, <3>3, IdleAgrees DEF Agrees
  <2> QED
    BY <2>1, <2>2 DEF Agreement, RecordMoves, Rests
<1> QED
  BY <1>2, <1>3, <1>4 DEF Exit, Crash


-----------------------------------------------------------------------------
(* The reapers.                                                            *)

\* What a reaper holds: the record is as listed or gone, and the session old.
LEMMA ReaperHolds ==
  ASSUME RecordInv, NEW j \in Jobs, NEW s \in Sweeps, sweep[s][j] # Absent
  PROVE  /\ age[j] \in Nat /\ age[j] >= Stale
         /\ s = "expired" => age[j] >= Old
         /\ db[j] = Absent \/ (s = "stale" /\ db[j].status = "uploading")
                           \/ (s = "expired" /\ db[j].status \in Terminal)
         /\ db[j] \in {sweep[s][j], Absent}
         /\ NoHandler(j)
<1>1. Listed(s, j)
  BY DEF RecordInv, Agreement, Agrees, ReaperAgrees
<1>2. age[j] \in Nat /\ age[j] >= Stale /\ (s = "expired" => age[j] >= Old)
  <2>1. age \in [Jobs -> 0 .. 4]
    BY DEF RecordInv, TypeInv, TypeOK, Unborn, Old
  <2>2. age[j] \in Nat
    BY <2>1
  <2>3. age[j] >= IF s = "stale" THEN 3 ELSE 4
    BY <1>1 DEF Listed, Stale, Old
  <2> QED
    BY <2>2, <2>3 DEF Sweeps, Stale, Old
<1>3. db[j] = Absent \/ (s = "stale" /\ db[j].status = "uploading")
                     \/ (s = "expired" /\ db[j].status \in Terminal)
  BY <1>1, EligibleMeans DEF Listed, Sweeps
<1>4. NoHandler(j)
  BY <1>2 DEF NoHandler, RecordInv, Agreement, Agrees, HandlerAgrees, Stale
<1> QED
  BY <1>1, <1>2, <1>3, <1>4 DEF Listed

\* Where a reaper is after a step of it.
LEMMA ReaperGoes ==
  ASSUME TypeInv, NEW j \in Jobs, NEW s \in Sweeps
  PROVE  /\ Done(s, j) => /\ \A k \in Jobs : \A x \in Sweeps :
                               sweep'[x][k] = IF x = s /\ k = j THEN Absent ELSE sweep[x][k]
                          /\ \A x \in Sweeps : x # s => sweeping'[x] = sweeping[x]
                          /\ ~Busy(s)'
         /\ \A step : Onto(s, j, step) => /\ \A x \in Sweeps : x # s => sweeping'[x] = sweeping[x]
                                          /\ sweeping'[s] = [pc |-> step, job |-> j]
                                          /\ sweeping'[s].job = j
<1>1. sweep \in [Sweeps -> [Jobs -> Row]] /\ sweeping \in [Sweeps -> Sweeper]
  BY DEF TypeInv, TypeOK
<1>2. ASSUME Done(s, j)
      PROVE  /\ \A k \in Jobs : \A x \in Sweeps :
                  sweep'[x][k] = IF x = s /\ k = j THEN Absent ELSE sweep[x][k]
             /\ \A x \in Sweeps : x # s => sweeping'[x] = sweeping[x]
             /\ ~Busy(s)'
  BY <1>1, <1>2 DEF Done, Busy, IdleSweeper
<1>3. ASSUME NEW step, Onto(s, j, step)
      PROVE  /\ \A x \in Sweeps : x # s => sweeping'[x] = sweeping[x]
             /\ sweeping'[s] = [pc |-> step, job |-> j]
             /\ sweeping'[s].job = j
  BY <1>1, <1>3 DEF Onto
<1> QED
  BY <1>2, <1>3

\* A step of a reaper that changes no record.
LEMMA ReaperKeeps ==
  ASSUME RecordInv, NEW s \in Sweeps,
         UNCHANGED <<db, queue, validator, worker, handler, age, session, redrive, phase>>,
         \A k \in Jobs : ReaperAgrees(k, s)',
         \A x \in Sweeps : x # s => sweep'[x] = sweep[x] /\ sweeping'[x] = sweeping[x]
  PROVE  Agreement' /\ RecordMoves
<1>1. \A k \in Jobs : Agrees(k)
  BY DEF RecordInv, Agreement
<1>2. ASSUME NEW k \in Jobs PROVE Agrees(k)'
  <2>1. \A x \in Sweeps : ReaperAgrees(k, x)'
    BY <1>1, SameAgrees
  <2>2. /\ SessionAgrees(k)' /\ QueueAgrees(k)' /\ RecoveryAgrees(k)'
        /\ \A r \in Requests : HandlerAgrees(k, r)'
        /\ \A o \in Starters : ValidatorAgrees(k, o)'
        /\ \A w \in Workers : WorkerAgrees(k, w)'
    BY <1>1, SameAgrees, Untouched
  <2> QED
    BY <2>1, <2>2 DEF Agrees
<1> QED
  BY <1>2 DEF Agreement, RecordMoves, Rests

\* What it lists, and what it deletes of the objects.
LEMMA ReaperMoves ==
  ASSUME RecordInv, NEW s \in Sweeps,
         SweepList(s) \/ \E j \in Jobs : SweepRaw(s, j) \/ SweepOuts(s, j)
  PROVE  Agreement' /\ RecordMoves
<1> USE DEF main, clients, records, uploading
<1>1. UNCHANGED <<db, queue, validator, worker, handler, age, session, redrive, phase>>
  BY DEF SweepList, SweepRaw, SweepOuts
<1>2. \A k \in Jobs : Agrees(k)
  BY DEF RecordInv, Agreement
<1>t. sweep \in [Sweeps -> [Jobs -> Row]] /\ sweeping \in [Sweeps -> Sweeper]
  BY DEF RecordInv, TypeInv, TypeOK
<1>3. \A k \in Jobs : Eligible(s, k)' <=> Eligible(s, k)
  BY <1>1 DEF Eligible
<1>4. CASE SweepList(s)
  <2>1. /\ ~Busy(s) /\ sweeping' = sweeping
        /\ \A k \in Jobs : sweep'[s][k] = IF Eligible(s, k) THEN db[k] ELSE Absent
        /\ \A x \in Sweeps : x # s => sweep'[x] = sweep[x]
    BY <1>4, <1>t DEF SweepList
  <2>2. ASSUME NEW k \in Jobs PROVE ReaperAgrees(k, s)'
    <3>1. Eligible(s, k) => age[k] >= IF s = "stale" THEN Stale ELSE Old
      BY EligibleMeans DEF Sweeps
    <3> QED
      BY <1>1, <1>3, <2>1, <3>1 DEF ReaperAgrees, Listed, Busy
  <2> QED
    BY <1>1, <2>1, <2>2, ReaperKeeps
<1>5. ASSUME NEW j \in Jobs, SweepRaw(s, j) \/ SweepOuts(s, j)
      PROVE  Agreement' /\ RecordMoves
  <2>1. sweep[s][j] # Absent
    <3>1. CASE SweepRaw(s, j)
      BY <3>1 DEF SweepRaw
    <3>2. CASE SweepOuts(s, j)
      <4>1. Busy(s) /\ sweeping[s].job = j
        BY <3>2 DEF SweepOuts, Busy
      <4> QED
        BY <1>2, <4>1 DEF Agrees, ReaperAgrees
    <3> QED
      BY <1>5, <3>1, <3>2
  <2>2. CASE Done(s, j)
    <3>1. /\ \A k \in Jobs : \A x \in Sweeps :
               sweep'[x][k] = IF x = s /\ k = j THEN Absent ELSE sweep[x][k]
          /\ \A x \in Sweeps : x # s => sweeping'[x] = sweeping[x]
          /\ ~Busy(s)'
      BY <2>2, ReaperGoes DEF RecordInv
    <3>2. \A x \in Sweeps : x # s => sweep'[x] = sweep[x]
      BY <1>t, <2>2 DEF Done
    <3>3. ASSUME NEW k \in Jobs PROVE ReaperAgrees(k, s)'
      <4>1. sweep'[s][k] # Absent => sweep'[s][k] = sweep[s][k] /\ sweep[s][k] # Absent
        BY <3>1
      <4>2. sweep[s][k] # Absent => Listed(s, k)
        BY <1>2 DEF Agrees, ReaperAgrees
      <4>3. sweep'[s][k] # Absent => Listed(s, k)'
        BY <1>1, <1>3, <4>1, <4>2 DEF Listed
      <4> QED
        BY <3>1, <4>3 DEF ReaperAgrees
    <3> QED
      BY <1>1, <3>1, <3>2, <3>3, ReaperKeeps
  <2>3. ASSUME NEW step, Onto(s, j, step), sweep' = sweep
        PROVE  Agreement' /\ RecordMoves
    <3>1. /\ \A x \in Sweeps : x # s => sweeping'[x] = sweeping[x]
          /\ sweeping'[s].job = j
      <4>1. sweeping' = [sweeping EXCEPT ![s] = [pc |-> step, job |-> j]]
        BY <2>3 DEF Onto
      <4> QED
        BY <1>t, <4>1
    <3>2. ASSUME NEW k \in Jobs PROVE ReaperAgrees(k, s)'
      <4>1. sweep[s][k] # Absent => Listed(s, k)
        BY <1>2 DEF Agrees, ReaperAgrees
      <4>2. sweep'[s][k] # Absent => Listed(s, k)'
        BY <1>1, <1>3, <2>3, <4>1 DEF Listed
      <4> QED
        BY <2>1, <2>3, <3>1, <4>2 DEF ReaperAgrees
    <3> QED
      BY <1>1, <2>3, <3>1, <3>2, ReaperKeeps
  <2> QED
    BY <1>5, <2>2, <2>3 DEF SweepRaw, SweepOuts
<1> QED
  BY <1>4, <1>5

\* The record it removes is one that nobody will write again.
LEMMA ReaperRemoves ==
  ASSUME RecordInv, NEW s \in Sweeps, NEW j \in Jobs, SweepRecord(s, j)
  PROVE  Agreement' /\ RecordMoves
<1> USE DEF main, clients, records, uploading
<1>1. UNCHANGED <<queue, validator, worker, handler, age, session, redrive, phase>> /\ Done(s, j)
  BY DEF SweepRecord
<1>2. \A k \in Jobs : Agrees(k)
  BY DEF RecordInv, Agreement
<1>3. sweep[s][j] # Absent
  <2>1. Busy(s) /\ sweeping[s].job = j
    BY DEF SweepRecord, Busy
  <2> QED
    BY <1>2, <2>1 DEF Agrees, ReaperAgrees
<1>4. /\ \A k \in Jobs : \A x \in Sweeps :
           sweep'[x][k] = IF x = s /\ k = j THEN Absent ELSE sweep[x][k]
      /\ \A x \in Sweeps : x # s => sweeping'[x] = sweeping[x]
      /\ ~Busy(s)'
  BY <1>1, ReaperGoes DEF RecordInv
<1>5. db' = db \/ (db[j].status # "none" /\ Write(j, Absent))
  BY DEF SweepRecord, StoreOK, WriteErr
<1>6. ASSUME NEW k \in Jobs, db'[k] = db[k] PROVE Agrees(k)'
  <2>1. ASSUME NEW x \in Sweeps PROVE ReaperAgrees(k, x)'
    <3>1. CASE x = s
      BY <1>1, <1>2, <1>4, <1>6, <3>1 DEF Agrees, ReaperAgrees, Listed, Eligible
    <3>2. CASE x # s
      BY <1>1, <1>2, <1>4, <1>6, <3>2, SameAgrees
    <3> QED
      BY <3>1, <3>2
  <2>2. /\ SessionAgrees(k)' /\ QueueAgrees(k)' /\ RecoveryAgrees(k)'
        /\ \A r \in Requests : HandlerAgrees(k, r)'
        /\ \A o \in Starters : ValidatorAgrees(k, o)'
        /\ \A w \in Workers : WorkerAgrees(k, w)'
    BY <1>1, <1>2, <1>6, SameAgrees, Untouched
  <2> QED
    BY <2>1, <2>2 DEF Agrees
<1>7. CASE db' = db
  BY <1>1, <1>6, <1>7 DEF Agreement, RecordMoves, Rests
<1>8. CASE db[j].status # "none" /\ Write(j, Absent)
  <2>1. db'[j] = Absent /\ db'[j].status = "none" /\ \A k \in Jobs \ {j} : db'[k] = db[k]
    BY <1>8 DEF Write, Absent, RecordInv, TypeInv, TypeOK
  <2>2. /\ db[j].status \in Terminal \cup {"uploading"} /\ NoHandler(j)
        /\ age[j] \in Nat /\ age[j] >= Stale
    BY <1>3, <1>8, ReaperHolds DEF Absent
  <2>3. SessionAgrees(j)'
    BY <1>1, <1>2, <2>1, <2>2, RowFacts DEF Agrees, SessionAgrees, Stale, Fresh, Unborn
  <2>4. ~AnyQueued(j)' /\ ~Awaiting(j)'
    BY <1>1, <1>2, <2>2 DEF Agrees, QueueAgrees, RecoveryAgrees, AnyQueued, Awaiting, Terminal,
       Interrupted
  <2>5. \A r \in Requests : handler'[j][r] = "idle"
    BY <1>1, <2>2 DEF NoHandler
  <2>6. ASSUME NEW o \in Starters PROVE ValidatorAgrees(j, o)'
    <3>1. validator[j][o].pc \in {"idle", "failtell"}
      BY <1>2, <2>2 DEF Agrees, ValidatorAgrees, Terminal
    <3> QED
      BY <1>1, <2>1, <3>1 DEF ValidatorAgrees
  <2>7. ASSUME NEW w \in Workers PROVE WorkerAgrees(j, w)'
    <3>1. Working(j, w) => worker[w].pc = "tell"
      <4>1. ASSUME Working(j, w), worker[w].pc # "tell" PROVE FALSE
        <5>1. worker[w].pc \notin {"idle", "quit"} /\ worker[w].job = j
          BY <4>1 DEF Working
        <5>2. /\ worker[w].pc \in {"load", "mark"} => db[j].status = "pending"
              /\ worker[w].pc \in {"fetch", "encode", "upload", "fail"} => db[j].status = "processing"
          BY <5>1, WorkerHolds
        <5>3. worker[w].pc \in WorkerSteps
          BY WorkerTyped DEF RecordInv, TypeInv, TypeOK, Worker
        <5> QED
          BY <2>2, <4>1, <5>1, <5>2, <5>3 DEF WorkerSteps, Terminal
      <4> QED
        BY <4>1
    <3> QED
      BY <1>1, <2>1, <3>1 DEF WorkerAgrees, Working
  <2>8. ASSUME NEW x \in Sweeps PROVE ReaperAgrees(j, x)'
    <3>1. CASE x = s
      BY <1>4, <3>1 DEF ReaperAgrees
    <3>2. CASE x # s
      BY <1>1, <1>2, <1>4, <2>1, <3>2 DEF Agrees, ReaperAgrees, Listed, Busy
    <3> QED
      BY <3>1, <3>2
  <2>9. Agrees(j)'
    BY <2>3, <2>4, <2>5, <2>6, <2>7, <2>8, IdleAgrees DEF Agrees
  <2>10. Moves(j, "none")
    BY <1>1, <1>8, <2>2, RowFacts DEF Moves, Arrow
  <2> QED
    BY <1>6, <2>1, <2>9, <2>10 DEF Agreement, RecordMoves
<1> QED
  BY <1>5, <1>7, <1>8


-----------------------------------------------------------------------------
(* Sessions and complete calls.                                            *)

\* A job that was never created, or whose client waits for its URL, has
\* nobody at it.
LEMMA EarlyAlone ==
  ASSUME RecordInv, NEW j \in Jobs, age[j] = Unborn \/ session[j] = "presign"
  PROVE  /\ ~AnyQueued(j) /\ NoValidator(j) /\ NoWorker(j) /\ ~Awaiting(j) /\ NoHandler(j)
         /\ Unlisted(j)
<1>1. Agrees(j)
  BY DEF RecordInv, Agreement
<1>2. NoHandler(j)
  BY <1>1 DEF NoHandler, Agrees, SessionAgrees, HandlerAgrees
<1>3. ~Owned(j)
  BY <1>1 DEF RecordInv, Ownership, Handover, Agrees, SessionAgrees
<1>4. \A s \in Sweeps : sweep[s][j] = Absent
  BY <1>1, ReaperHolds DEF Agrees, SessionAgrees, Unborn, Fresh, Stale
<1>5. Unlisted(j)
  BY <1>1, <1>4 DEF Unlisted, Agrees, ReaperAgrees
<1> QED
  BY <1>2, <1>3, <1>5, OnlyOwner DEF RecordInv

\* A step at a job that nobody is at.
LEMMA AloneAgrees ==
  ASSUME RecordInv, NEW j \in Jobs,
         ~AnyQueued(j) /\ NoValidator(j) /\ NoWorker(j) /\ ~Awaiting(j) /\ NoHandler(j) /\ Unlisted(j),
         UNCHANGED <<queue, validator, worker, handler, redrive, sweep, sweeping>>,
         SessionAgrees(j)',
         \A k \in Jobs : k # j => db'[k] = db[k] /\ age'[k] = age[k] /\ session'[k] = session[k]
  PROVE  Agreement'
<1>1. Agrees(j)'
  <2>1. /\ \A r \in Requests : handler'[j][r] = "idle"
        /\ \A o \in Starters : ~Validating(j, o)'
        /\ \A w \in Workers : ~Working(j, w)'
        /\ ~AnyQueued(j)' /\ ~Awaiting(j)'
        /\ \A s \in Sweeps : sweep'[s][j] = Absent /\ ~(Busy(s)' /\ sweeping'[s].job = j)
    BY DEF NoHandler, NoValidator, NoWorker, Unlisted, Validating, Working, AnyQueued, Awaiting, Busy
  <2> QED
    BY <2>1, IdleAgrees DEF Agrees
<1>2. ASSUME NEW k \in Jobs, k # j PROVE Agrees(k)'
  BY <1>2, Undisturbed, Untouched DEF RecordInv, Agreement
<1> QED
  BY <1>1, <1>2 DEF Agreement

LEMMA SessionMoves ==
  ASSUME RecordInv, Prompt, NEW j \in Jobs
  PROVE  /\ \A kd \in Kinds : CreateUpload(j, kd) => Agreement' /\ RecordMoves
         /\ PresignPut(j) \/ PresignError(j) \/ Grow(j) => Agreement' /\ RecordMoves
         /\ \A bytes \in Uploads : ClientPut(j, bytes) => Agreement' /\ RecordMoves
<1> USE DEF main, clients, records, uploading, reapers
<1>t. /\ db \in [Jobs -> Row] /\ age \in [Jobs -> 0 .. 4]
      /\ session \in [Jobs -> {"none", "presign", "open", "lost"}]
  BY DEF RecordInv, TypeInv, TypeOK, Unborn, Old
<1>a. \A k \in Jobs : Agrees(k)
  BY DEF RecordInv, Agreement
<1>1. ASSUME NEW kd \in Kinds, CreateUpload(j, kd) PROVE Agreement' /\ RecordMoves
  <2>1. RowAs("uploading") = [status |-> "uploading", outs |-> {}]
    BY DEF RowAs
  <2>2. /\ age[j] = Unborn /\ phase = "serving" /\ Write(j, RowAs("uploading"))
        /\ age' = [age EXCEPT ![j] = Fresh]
        /\ session' = [session EXCEPT ![j] = "presign"]
        /\ UNCHANGED <<queue, validator, worker, handler, redrive, phase, sweep, sweeping>>
    BY <1>1, <2>1 DEF CreateUpload, Accepting
  <2>3. /\ db'[j] = RowAs("uploading") /\ age'[j] = Fresh /\ session'[j] = "presign"
        /\ \A k \in Jobs : k # j => db'[k] = db[k] /\ age'[k] = age[k] /\ session'[k] = session[k]
    BY <1>t, <2>2 DEF Write
  <2>4. SessionAgrees(j)'
    BY <2>3, RowFacts DEF SessionAgrees, Fresh, Unborn
  <2>5. Agreement'
    BY <2>2, <2>3, <2>4, EarlyAlone, AloneAgrees
  <2> QED
    BY <2>2, <2>5 DEF RecordMoves, Opens
<1>2. ASSUME PresignPut(j) PROVE Agreement' /\ RecordMoves
  <2>1. /\ session[j] = "presign" /\ session' = [session EXCEPT ![j] = "open"]
        /\ UNCHANGED <<db, age, queue, validator, worker, handler, redrive, phase, sweep, sweeping>>
    BY <1>2 DEF PresignPut
  <2>2. SessionAgrees(j)'
    BY <1>a, <1>t, <2>1 DEF Agrees, SessionAgrees, Fresh, Unborn
  <2>3. Agreement'
    BY <1>t, <2>1, <2>2, EarlyAlone, AloneAgrees
  <2> QED
    BY <2>1, <2>3 DEF RecordMoves, Rests
<1>3. ASSUME PresignError(j) PROVE Agreement' /\ RecordMoves
  <2>1. /\ session[j] = "presign" /\ session' = [session EXCEPT ![j] = "lost"]
        /\ Write(j, RowAs("none")) \/ db' = db
        /\ UNCHANGED <<age, queue, validator, worker, handler, redrive, phase, sweep, sweeping>>
    BY <1>3, RowFacts DEF PresignError
  <2>2. db[j].status = "uploading" /\ age[j] = Fresh /\ db[j] = RowAs("uploading")
    BY <1>a, <2>1 DEF Agrees, SessionAgrees
  <2>3. /\ db'[j] \in {RowAs("none"), RowAs("uploading")} /\ session'[j] = "lost"
        /\ \A k \in Jobs : k # j => db'[k] = db[k] /\ session'[k] = session[k]
    BY <1>t, <2>1, <2>2 DEF Write
  <2>4. SessionAgrees(j)'
    BY <2>1, <2>2, <2>3, RowFacts DEF SessionAgrees, Fresh, Unborn
  <2>5. Agreement'
    BY <2>1, <2>3, <2>4, EarlyAlone, AloneAgrees
  <2>6. Arrow(db[j].status, "none")
    BY <2>2 DEF Arrow
  <2> QED
    BY <2>1, <2>5, <2>6 DEF RecordMoves, Rests, Moves
<1>4. ASSUME Grow(j) PROVE Agreement' /\ RecordMoves
  <2>1. /\ age[j] \in Fresh .. (Oldest - 1) /\ session[j] # "presign"
        /\ age[j] + 1 # Stale \/ NoHandler(j)
        /\ age' = [age EXCEPT ![j] = age[j] + 1]
        /\ UNCHANGED <<db, session, queue, validator, worker, handler, redrive, phase, sweep, sweeping>>
    BY <1>4 DEF Grow, Prompt, NoHandler
  <2>2. /\ age[j] \in Nat /\ age[j] >= 1 /\ age'[j] = age[j] + 1
        /\ \A k \in Jobs : k # j => age'[k] = age[k]
    BY <1>t, <2>1, ConstantsAssumption DEF Fresh, Old
  <2>3. SessionAgrees(j)'
    BY <1>a, <2>1, <2>2 DEF Agrees, SessionAgrees, Fresh, Unborn
  <2>4. ASSUME NEW r \in Requests PROVE HandlerAgrees(j, r)'
    <3>1. HandlerAgrees(j, r)
      BY <1>a DEF Agrees
    <3>2. CASE handler[j][r] = "idle"
      BY <2>1, <3>2, IdleAgrees
    <3>3. CASE handler[j][r] # "idle"
      <4>1. age[j] < Stale /\ age[j] + 1 # Stale
        BY <2>1, <3>1, <3>3 DEF HandlerAgrees, NoHandler
      <4>2. age'[j] < Stale
        BY <2>2, <4>1 DEF Stale
      <4> QED
        BY <2>1, <3>1, <4>2 DEF HandlerAgrees
    <3> QED
      BY <3>2, <3>3
  <2>5. ASSUME NEW s \in Sweeps PROVE ReaperAgrees(j, s)'
    <3>1. ReaperAgrees(j, s)
      BY <1>a DEF Agrees
    <3>2. Eligible(s, j) => Eligible(s, j)'
      <4>1. db'[j] = db[j] /\ (age[j] >= 3 => age'[j] >= 3) /\ (age[j] >= 4 => age'[j] >= 4)
        BY <2>1, <2>2
      <4>2. CASE s = "stale"
        BY <4>1, <4>2 DEF Eligible, Stale
      <4>3. CASE s = "expired"
        BY <4>1, <4>3 DEF Eligible, Old
      <4> QED
        BY <4>2, <4>3 DEF Sweeps
    <3>3. Listed(s, j) => Listed(s, j)'
      BY <2>1, <2>2, <3>2 DEF Listed, Stale, Old
    <3> QED
      BY <2>1, <3>1, <3>3 DEF ReaperAgrees, Busy
  <2>6. Agrees(j)'
    <3>1. /\ QueueAgrees(j)' /\ RecoveryAgrees(j)'
          /\ \A o \in Starters : ValidatorAgrees(j, o)'
          /\ \A w \in Workers : WorkerAgrees(j, w)'
      BY <1>a, <2>1, SameAgrees, Untouched
    <3> QED
      BY <2>3, <2>4, <2>5, <3>1 DEF Agrees
  <2>7. ASSUME NEW k \in Jobs, k # j PROVE Agrees(k)'
    BY <1>a, <2>1, <2>2, <2>7, Undisturbed, Untouched
  <2>8. \A k \in Jobs : (age'[k] = Unborn) <=> (age[k] = Unborn)
    BY <2>2 DEF Unborn
  <2> QED
    BY <2>1, <2>6, <2>7, <2>8 DEF Agreement, RecordMoves, Rests
<1>5. ASSUME NEW bytes \in Uploads, ClientPut(j, bytes) PROVE Agreement' /\ RecordMoves
  <2>1. UNCHANGED <<db, age, session, queue, validator, worker, handler, redrive, phase, sweep, sweeping>>
    BY <1>5 DEF ClientPut
  <2>2. ASSUME NEW k \in Jobs PROVE Agrees(k)'
    BY <1>a, <2>1, Undisturbed, Untouched
  <2> QED
    BY <2>1, <2>2 DEF Agreement, RecordMoves, Rests
<1> QED
  BY <1>1, <1>2, <1>3, <1>4, <1>5

\* A step of a complete call that writes nothing.
LEMMA HandlerKeeps ==
  ASSUME RecordInv, NEW j \in Jobs, NEW r \in Requests, NEW step, GoTo(j, r, step),
         UNCHANGED <<db, queue, worker, redrive, age, session, sweep, sweeping, phase>>,
         HandlerAgrees(j, r)',
         \A k \in Jobs : \A o \in Starters : ValidatorAgrees(k, o)'
  PROVE  Agreement' /\ RecordMoves
<1>1. ASSUME NEW k \in Jobs PROVE Agrees(k)'
  <2>1. Agrees(k)
    BY DEF RecordInv, Agreement
  <2>2. \A x \in Requests : HandlerAgrees(k, x)'
    BY <2>1, SameAgrees, GoneTo DEF RecordInv
  <2>3. /\ SessionAgrees(k)' /\ QueueAgrees(k)' /\ RecoveryAgrees(k)'
        /\ \A w \in Workers : WorkerAgrees(k, w)'
        /\ \A s \in Sweeps : ReaperAgrees(k, s)'
    BY <2>1, SameAgrees, Untouched
  <2> QED
    BY <2>2, <2>3 DEF Agrees
<1> QED
  BY <1>1 DEF Agreement, RecordMoves, Rests

\* The steps of a complete call: the record it marks is the one it read.
LEMMA HandlerMoves ==
  ASSUME RecordInv, Prompt, NEW j \in Jobs, NEW r \in Requests,
         \/ CompleteLoad(j, r) \/ CompleteStat(j, r) \/ CompleteMark(j, r)
         \/ CompleteSpawn(j, r) \/ CompletePanic(j, r)
  PROVE  Agreement' /\ RecordMoves
<1> USE DEF main, clients, records, reapers
<1>1. UNCHANGED <<queue, worker, redrive, age, session, sweep, sweeping, phase>>
  BY DEF CompleteLoad, CompleteStat, CompleteMark, CompleteSpawn, CompletePanic
<1>2. \A k \in Jobs : Agrees(k)
  BY DEF RecordInv, Agreement
<1>3. \A step : GoTo(j, r, step) => handler'[j][r] = step
  BY GoneTo DEF RecordInv
<1>4. CASE CompleteLoad(j, r)
  <2>1. /\ GoTo(j, r, "stat") /\ db' = db /\ validator' = validator
        /\ db[j].status = "uploading" /\ session[j] = "open" /\ age[j] < Stale
    BY <1>4 DEF CompleteLoad, MayComplete, Promised, Prompt
  <2>2. HandlerAgrees(j, r)'
    BY <1>1, <1>3, <2>1 DEF HandlerAgrees
  <2>3. \A k \in Jobs : \A o \in Starters : ValidatorAgrees(k, o)'
    BY <1>2, <2>1, SameAgrees
  <2> QED
    BY <1>1, <2>1, <2>2, <2>3, HandlerKeeps
<1>5. CASE CompleteStat(j, r) \/ CompletePanic(j, r)
  <2>1. PICK step \in {"mark", "idle"} :
          GoTo(j, r, step) /\ (step = "mark" => handler[j][r] = "stat")
    BY <1>5 DEF CompleteStat, CompletePanic
  <2>2. handler[j][r] # "idle" /\ db' = db /\ validator' = validator
    BY <1>5 DEF CompleteStat, CompletePanic
  <2>3. HandlerAgrees(j, r)'
    BY <1>1, <1>2, <1>3, <2>1, <2>2 DEF HandlerAgrees, Agrees
  <2>4. \A k \in Jobs : \A o \in Starters : ValidatorAgrees(k, o)'
    BY <1>2, <2>2, SameAgrees
  <2> QED
    BY <1>1, <2>1, <2>2, <2>3, <2>4, HandlerKeeps
<1>6. CASE CompleteSpawn(j, r)
  <2>1. /\ handler[j][r] = "spawn" /\ GoTo(j, r, "idle") /\ db' = db
        /\ validator' = [validator EXCEPT ![j][r] = [IdleValidator EXCEPT !.pc = "probe"]]
    BY <1>6 DEF CompleteSpawn
  <2>2. HandlerAgrees(j, r)'
    BY <1>3, <2>1, IdleAgrees
  <2>3. db[j].status = "validating"
    BY <1>2, <2>1 DEF Agrees, HandlerAgrees
  <2>4. ASSUME NEW k \in Jobs, NEW o \in Starters PROVE ValidatorAgrees(k, o)'
    <3>1. validator'[k][o] = IF k = j /\ o = r THEN [IdleValidator EXCEPT !.pc = "probe"] ELSE validator[k][o]
      BY <2>1 DEF RecordInv, TypeInv, TypeOK
    <3>2. CASE k = j /\ o = r
      <4>1. validator'[k][o].pc = "probe"
        BY <3>1, <3>2 DEF IdleValidator
      <4> QED
        BY <2>1, <2>3, <3>2, <4>1 DEF ValidatorAgrees
    <3>3. CASE ~(k = j /\ o = r)
      BY <1>2, <2>1, <3>1, <3>3, SameAgrees
    <3> QED
      BY <3>2, <3>3
  <2> QED
    BY <1>1, <2>1, <2>2, <2>4, HandlerKeeps
<1>7. CASE CompleteMark(j, r)
  <2>1. /\ handler[j][r] = "mark" /\ validator' = validator
        /\ \/ (db' = db \/ Write(j, RowAs("validating"))) /\ GoTo(j, r, "idle")
           \/ Write(j, RowAs("validating")) /\ GoTo(j, r, "spawn")
    <3>1. RowAs("validating") = [status |-> "validating", outs |-> {}]
      BY DEF RowAs
    <3> QED
      BY <1>7, <3>1 DEF CompleteMark, WriteErr
  <2>2. db[j].status = "uploading" /\ session[j] = "open" /\ age[j] < Stale
    BY <1>2, <2>1 DEF Agrees, HandlerAgrees
  <2>3. CASE db' = db
    <3>1. PICK step \in {"idle", "spawn"} : GoTo(j, r, step)
      BY <2>1
    <3>2. step = "idle"
      <4>1. Write(j, RowAs("validating")) => db'[j].status = "validating"
        BY RowFacts DEF Write, RecordInv, TypeInv, TypeOK
      <4> QED
        BY <1>3, <2>1, <2>2, <2>3, <3>1, <4>1
    <3>3. HandlerAgrees(j, r)'
      BY <1>3, <3>1, <3>2, IdleAgrees
    <3>4. \A k \in Jobs : \A o \in Starters : ValidatorAgrees(k, o)'
      BY <1>2, <2>1, <2>3, SameAgrees
    <3> QED
      BY <1>1, <2>3, <3>1, <3>3, <3>4, HandlerKeeps
  <2>4. CASE Write(j, RowAs("validating"))
    <3>1. PICK step \in {"idle", "spawn"} : GoTo(j, r, step)
      BY <2>1
    <3>2. db'[j] = RowAs("validating") /\ \A k \in Jobs : k # j => db'[k] = db[k]
      BY <2>4 DEF Write, RecordInv, TypeInv, TypeOK
    <3>3. ~Owned(j) /\ \A x \in Requests : x # r => handler[j][x] = "idle"
      BY <2>1 DEF RecordInv, Ownership, Handover
    <3>4. \A k \in Jobs : \A x \in Requests :
            handler'[k][x] = IF k = j /\ x = r THEN step ELSE handler[k][x]
      BY <3>1, GoneTo DEF RecordInv
    <3>5. SessionAgrees(j)'
      BY <1>1, <1>2, <2>2, <3>2, RowFacts DEF Agrees, SessionAgrees
    <3>6. \A x \in Requests : HandlerAgrees(j, x)'
      <4>1. HandlerAgrees(j, r)'
        BY <1>1, <2>2, <3>2, <3>4, RowFacts DEF HandlerAgrees
      <4> QED
        BY <3>3, <3>4, <4>1, IdleAgrees
    <3>7. \A s \in Sweeps : sweep[s][j] = Absent
      <4>1. age[j] \in Nat
        BY AgeIsNat DEF RecordInv
      <4>2. ~(age[j] >= Stale)
        BY <2>2, <4>1 DEF Stale
      <4> QED
        BY <4>2, ReaperHolds
    <3>8. \A s \in Sweeps : sweep'[s][j] = Absent /\ ~(Busy(s)' /\ sweeping'[s].job = j)
      BY <1>1, <1>2, <3>7 DEF Agrees, ReaperAgrees, Busy
    <3>9. /\ ~AnyQueued(j)' /\ ~Awaiting(j)'
          /\ \A w \in Workers : ~Working(j, w)'
          /\ \A o \in Starters : ~Validating(j, o)'
      BY <1>1, <2>1, <3>3, OnlyOwner DEF RecordInv, AnyQueued, Awaiting, NoWorker, Working,
         NoValidator, Validating
    <3>10. Agrees(j)'
      BY <3>5, <3>6, <3>8, <3>9, IdleAgrees DEF Agrees
    <3>11. ASSUME NEW k \in Jobs, k # j PROVE Agrees(k)'
      <4>1. handler'[k] = handler[k]
        BY <3>1, <3>11 DEF GoTo, RecordInv, TypeInv, TypeOK
      <4> QED
        BY <1>1, <1>2, <2>1, <3>2, <3>11, <4>1, Undisturbed, Untouched
    <3>12. Moves(j, "validating")
      <4>1. phase = "serving"
        BY <2>1, Running DEF RecordInv
      <4> QED
        BY <1>1, <2>2, <2>4, <4>1 DEF Moves, Arrow
    <3> QED
      BY <3>10, <3>11, <3>12 DEF Agreement, RecordMoves, Statuses
  <2> QED
    BY <2>1, <2>3, <2>4
<1> QED
  BY <1>4, <1>5, <1>6, <1>7

-----------------------------------------------------------------------------

\* Every step keeps the agreement, and does to the records what it may.
LEMMA NextMoves ==
  ASSUME RecordInv, Prompt, [Next]_vars
  PROVE  Agreement' /\ RecordMoves
<1>1. CASE UploadNext
  <2>1. PICK j \in Jobs :
          \/ \E k \in Kinds : CreateUpload(j, k)
          \/ PresignPut(j) \/ PresignError(j)
          \/ \E bytes \in Uploads : ClientPut(j, bytes)
          \/ Grow(j)
          \/ \E r \in Requests : CompleteLoad(j, r) \/ HandlerStep(j, r)
          \/ \E o \in Starters : Deadline(j, o) \/ ValidatorStep(j, o)
    BY <1>1 DEF UploadNext
  <2>2. CASE \E r \in Requests : CompleteLoad(j, r) \/ HandlerStep(j, r)
    BY <2>2, HandlerMoves DEF HandlerStep
  <2>3. CASE \E o \in Starters : Deadline(j, o) \/ ValidatorStep(j, o)
    BY <2>3, ValidatorMoves, EnqueueMoves DEF ValidatorStep
  <2> QED
    BY <2>1, <2>2, <2>3, SessionMoves
<1>2. CASE WorkerPoolNext
  BY <1>2, WorkerMoves, WorkerTakes DEF WorkerPoolNext, WorkerStep
<1>3. CASE RecoveryNext
  BY <1>3, ProcessMoves, RecoveryWrites, RecoveryHands DEF RecoveryNext, MainStep, RecoverJob
<1>4. CASE RetentionNext
  BY <1>4, ReaperMoves, ReaperRemoves DEF RetentionNext, SweepStep
<1>5. CASE UNCHANGED vars
  <2>1. UNCHANGED <<db, age, session, queue, validator, worker, handler, redrive, phase, sweep, sweeping>>
    BY <1>5 DEF vars, records, clients, uploading, main, reapers
  <2>2. ASSUME NEW k \in Jobs PROVE Agrees(k)'
    BY <2>1, Undisturbed, Untouched DEF RecordInv, Agreement
  <2> QED
    BY <2>1, <2>2 DEF Agreement, RecordMoves, Rests
<1> QED
  BY <1>1, <1>2, <1>3, <1>4, <1>5 DEF Next

\* At first there is no record, and nobody to disagree with it.
LEMMA InitRecords ==
  ASSUME Init
  PROVE  Agreement
<1>1. NoProcess
  BY DEF Init, NoProcess
<1>2. ASSUME NEW k \in Jobs PROVE Agrees(k)
  <2>1. /\ db[k] = Absent /\ age[k] = Unborn /\ session[k] = "none"
        /\ \A s \in Sweeps : sweep[s][k] = Absent /\ ~Busy(s)
    BY DEF Init, NoGoroutines, Busy, IdleSweeper
  <2>2. SessionAgrees(k)
    BY <2>1, RowFacts DEF SessionAgrees, Unborn, Fresh
  <2>3. ~Owned(k) /\ \A r \in Requests : handler[k][r] = "idle"
    BY <1>1, NothingOwned
  <2> QED
    BY <2>1, <2>2, <2>3 DEF Agrees, Owned, AnyValidating, AnyWorking, QueueAgrees, RecoveryAgrees,
       HandlerAgrees, ValidatorAgrees, Validating, WorkerAgrees, ReaperAgrees
<1> QED
  BY <1>2 DEF Agreement

LEMMA InitInv ==
  ASSUME Init
  PROVE  RecordInv
  BY InitTypes, InitOwners, InitRecords DEF RecordInv

LEMMA NextInv ==
  ASSUME RecordInv, Prompt, [Next]_vars
  PROVE  RecordInv' /\ RecordMoves
  BY NextTypes, NextOwners, NextMoves DEF RecordInv, Prompt

-----------------------------------------------------------------------------
(* What the agreement says of the copies.                                  *)

\* For any number of jobs, requests, workers and renditions, and through
\* every fault, deadline, slow PUT, stop and crash: the record is what its
\* owner takes it for, and no reaper is after a job that has an owner.
THEOREM AgreementCorrect ==
  ASSUME Prompt
  PROVE  Spec => []Agreement
<1>1. Init => RecordInv
  BY InitInv
<1>2. RecordInv /\ [Next]_vars => RecordInv'
  BY NextInv
<1>3. RecordInv => Agreement
  BY DEF RecordInv
<1> QED
  BY <1>1, <1>2, <1>3, PTL DEF Spec

\* Whatever a validation, a worker, recovery or a reaper read of a record,
\* nobody else wrote before it writes its copy back: the unconditional UPDATE
\* of the store loses nothing.
THEOREM CopiesAreCurrentCorrect ==
  ASSUME Prompt
  PROVE  Spec => []CopiesAreCurrent
<1>1. Agreement => CopiesAreCurrent
  BY DEF Agreement, Agrees, ValidatorAgrees, WorkerAgrees, RecoveryAgrees, ReaperAgrees,
     Listed, CopiesAreCurrent
<1> QED
  BY <1>1, AgreementCorrect, PTL

-----------------------------------------------------------------------------
(* What a step does to one record.                                         *)

\* It stays, or it is created, or it goes to the next status.
LEMMA RecordStep ==
  ASSUME RecordInv, RecordMoves, NEW j \in Jobs
  PROVE  \/ db'[j] = db[j]
         \/ age[j] = Unborn /\ db[j].status = "none" /\ db'[j] = RowAs("uploading")
         \/ \E to \in Statuses \cup {"none"} : Arrow(db[j].status, to) /\ db'[j] = RowAs(to)
<1>1. \A k \in Jobs : \A row : Write(k, row) => db'[j] = IF j = k THEN row ELSE db[j]
  BY DEF Write, RecordInv, TypeInv, TypeOK
<1>2. age[j] = Unborn => db[j].status = "none"
  BY DEF RecordInv, Ownership, Handover
<1> QED
  BY <1>1, <1>2 DEF RecordMoves, Rests, Opens, Moves

\* A finished job stays as it is until retention removes it: no late writer
\* revives it, and neither does recovery.
THEOREM TerminalFinalCorrect ==
  ASSUME Prompt
  PROVE  Spec => TerminalFinal
<1>1. RecordInv /\ [Next]_vars
        => [\A j \in Jobs : db[j].status \in Terminal => db'[j] \in {db[j], Absent}]_vars
  <2> SUFFICES ASSUME RecordInv, [Next]_vars, NEW j \in Jobs, db[j].status \in Terminal
               PROVE  db'[j] \in {db[j], Absent}
    OBVIOUS
  <2>1. \A to : Arrow(db[j].status, to) => to = "none"
    BY DEF Arrow, Terminal
  <2> QED
    BY <2>1, NextInv, RecordStep, RowFacts DEF Terminal
<1> QED
  BY <1>1, InitInv, NextInv, PTL DEF Spec, TerminalFinal

\* Nobody removes the record of a job that is being validated, waits for a
\* worker or has one: the reapers take only sessions without an upload, and
\* jobs that ended.
THEOREM ActiveRecordKeptCorrect ==
  ASSUME Prompt
  PROVE  Spec => ActiveRecordKept
<1>1. RecordInv /\ [Next]_vars
        => [\A j \in Jobs : db[j].status \in Active => db'[j].status # "none"]_vars
  <2> SUFFICES ASSUME RecordInv, [Next]_vars, NEW j \in Jobs, db[j].status \in Active
               PROVE  db'[j].status # "none"
    OBVIOUS
  <2>1. \A to : Arrow(db[j].status, to) => to # "none"
    BY DEF Arrow, Active, Terminal
  <2> QED
    BY <2>1, NextInv, RecordStep, RowFacts DEF Active
<1> QED
  BY <1>1, InitInv, NextInv, PTL DEF Spec, ActiveRecordKept

\* A complete call is safe to retry, one call after the other: none takes a
\* job that is past its validation back to it.  (With calls that overlap it is
\* not: the run that lets them shows how.)
THEOREM SafeToRetryCorrect ==
  ASSUME Prompt
  PROVE  Spec => SafeToRetry
<1>1. RecordInv /\ [Next]_vars
        => [\A j \in Jobs : db[j].status \in (Active \cup Terminal) \ {"validating"}
                              => db'[j].status # "validating"]_vars
  <2> SUFFICES ASSUME RecordInv, [Next]_vars, NEW j \in Jobs,
                      db[j].status \in (Active \cup Terminal) \ {"validating"}
               PROVE  db'[j].status # "validating"
    OBVIOUS
  <2>1. \A to : Arrow(db[j].status, to) => to # "validating"
    BY DEF Arrow, Active, Terminal
  <2> QED
    BY <2>1, NextInv, RecordStep, RowFacts DEF Active, Terminal
<1> QED
  BY <1>1, InitInv, NextInv, PTL DEF Spec, SafeToRetry

-----------------------------------------------------------------------------
(* The lifecycle.                                                          *)

\* A record that moves is a status that goes on.
LEMMA PublicMove ==
  ASSUME RecordInv, NEW j \in Jobs, NEW to \in Statuses \cup {"none"}, Moves(j, to)
  PROVE  /\ PublicStatus(j) = db[j].status
         /\ \A k \in Jobs :
              PublicStatus(k)' = IF k = j THEN IF to = "none" THEN "gone" ELSE to
                                 ELSE PublicStatus(k)
<1>1. db[j].status # "none" /\ age[j] # Unborn
  BY DEF Moves, Arrow, Terminal, RecordInv, Ownership, Handover
<1>2. PublicStatus(j) = db[j].status
  BY <1>1 DEF PublicStatus, Absent
<1>3. age' = age /\ \A k \in Jobs : db'[k] = IF k = j THEN RowAs(to) ELSE db[k]
  BY DEF Moves, Write, RecordInv, TypeInv, TypeOK
<1>4. RowAs(to) = Absent <=> to = "none"
  BY RowFacts DEF Absent
<1> QED
  BY <1>1, <1>2, <1>3, <1>4, RowFacts DEF PublicStatus

\* Every step of the pipeline is one of the lifecycle, or none.
LEMMA PublicStep ==
  ASSUME RecordInv, RecordMoves
  PROVE  [Lifecycle!Next]_(Lifecycle!vars)
<1> DEFINE public == [k \in Jobs |-> PublicStatus(k)]
<1>1. CASE Rests
  <2>1. \A k \in Jobs : PublicStatus(k)' = PublicStatus(k)
    BY <1>1 DEF Rests, PublicStatus
  <2>2. public' = public
    BY <2>1
  <2>3. phase \in {"down", "recovering", "serving"}
    BY DEF RecordInv, TypeInv, TypeOK
  <2> QED
    BY <1>1, <2>2, <2>3 DEF Rests, Lifecycle!Next, Lifecycle!Enter, Lifecycle!vars
<1>2. ASSUME NEW j \in Jobs, Opens(j) PROVE Lifecycle!Next
  <2>1. PublicStatus(j) = "unborn" /\ phase = "serving" /\ phase' = phase
    BY <1>2 DEF Opens, PublicStatus
  <2>2. /\ \A k \in Jobs : db'[k] = IF k = j THEN RowAs("uploading") ELSE db[k]
        /\ \A k \in Jobs : age'[k] = IF k = j THEN Fresh ELSE age[k]
    BY <1>2 DEF Opens, Write, RecordInv, TypeInv, TypeOK
  <2>3. RowAs("uploading").status = "uploading" /\ RowAs("uploading") # Absent
    BY RowFacts DEF Absent
  <2>4. \A k \in Jobs : PublicStatus(k)' = IF k = j THEN "uploading" ELSE PublicStatus(k)
    BY <2>2, <2>3 DEF PublicStatus, Fresh, Unborn
  <2>5. public' = [public EXCEPT ![j] = "uploading"]
    BY <2>4
  <2>6. Lifecycle!Create(j)
    BY <2>1, <2>5 DEF Lifecycle!Create, Lifecycle!Goes
  <2> QED
    BY <2>6 DEF Lifecycle!Next
<1>3. ASSUME NEW j \in Jobs, NEW to \in Statuses \cup {"none"}, Moves(j, to)
      PROVE  Lifecycle!Next
  <2>1. public[j] = db[j].status
    BY <1>3, PublicMove
  <2>2. public' = [public EXCEPT ![j] = IF to = "none" THEN "gone" ELSE to]
    BY <1>3, PublicMove
  <2>3. Arrow(db[j].status, to) /\ phase' = phase
    BY <1>3 DEF Moves
  <2>4. Lifecycle!Goes(j, db[j].status, IF to = "none" THEN "gone" ELSE to)
    BY <2>1, <2>2, <2>3 DEF Lifecycle!Goes
  <2> HIDE DEF public
  <2>5. \/ Lifecycle!Abandon(j) \/ Lifecycle!Accept(j) \/ Lifecycle!Admit(j)
        \/ Lifecycle!Reject(j) \/ Lifecycle!Start(j) \/ Lifecycle!Complete(j)
        \/ Lifecycle!Fail(j) \/ Lifecycle!Expire(j) \/ Lifecycle!Redo(j)
    BY <2>3, <2>4 DEF Arrow, Terminal, Lifecycle!Abandon, Lifecycle!Accept, Lifecycle!Admit,
       Lifecycle!Reject, Lifecycle!Start, Lifecycle!Complete, Lifecycle!Fail, Lifecycle!Expire,
       Lifecycle!Redo
  <2> QED
    BY <2>5 DEF Lifecycle!Next
<1> QED
  BY <1>1, <1>2, <1>3 DEF RecordMoves

\* The pipeline implements the lifecycle, for all values of the constants:
\* through every interleaving of the handlers, validations, workers, recovery
\* and reapers, and through every fault and crash, a record makes only its
\* steps, and only recovery takes a job back.
THEOREM ImplementsLifecycleCorrect ==
  ASSUME Prompt
  PROVE  Spec => ImplementsLifecycle
<1>1. Init => Lifecycle!Init
  BY DEF Init, Lifecycle!Init, PublicStatus
<1>2. RecordInv /\ [Next]_vars => RecordInv' /\ [Lifecycle!Next]_(Lifecycle!vars)
  BY NextInv, PublicStep
<1> QED
  BY <1>1, <1>2, InitInv, PTL DEF Spec, ImplementsLifecycle, Lifecycle!Spec

-----------------------------------------------------------------------------
(* Who writes a record.                                                    *)

\* The steps that may change the record of j.
LEMMA Writers ==
  ASSUME TypeInv, [Next]_vars, NEW j \in Jobs, db'[j] # db[j]
  PROVE  \/ \E k \in Kinds : CreateUpload(j, k)
         \/ PresignError(j)
         \/ \E r \in Requests : CompleteMark(j, r)
         \/ \E o \in Starters : MarkPending(j, o) \/ MarkRejected(j, o)
         \/ \E w \in Workers : worker[w].job = j /\ (WMark(w) \/ WProgress(w) \/ WFinish(w) \/ WFail(w))
         \/ BootReset(j) \/ BootFail(j)
         \/ \E s \in Sweeps : SweepRecord(s, j)
<1>1. db \in [Jobs -> Row]
  BY DEF TypeInv, TypeOK
<1>2. ASSUME NEW k, NEW row, db' = db \/ Write(k, row) PROVE k = j
  BY <1>1, <1>2 DEF Write
<1>3. CASE UploadNext
  <2>1. PICK k \in Jobs :
          \/ \E kd \in Kinds : CreateUpload(k, kd)
          \/ PresignPut(k) \/ PresignError(k)
          \/ \E bytes \in Uploads : ClientPut(k, bytes)
          \/ Grow(k)
          \/ \E r \in Requests : CompleteLoad(k, r) \/ HandlerStep(k, r)
          \/ \E o \in Starters : Deadline(k, o) \/ ValidatorStep(k, o)
    BY <1>3 DEF UploadNext
  <2>2. CASE \/ \E kd \in Kinds : CreateUpload(k, kd)
             \/ PresignPut(k) \/ PresignError(k)
             \/ \E bytes \in Uploads : ClientPut(k, bytes)
             \/ Grow(k)
    BY <1>2, <2>2 DEF CreateUpload, PresignPut, PresignError, ClientPut, Grow, records
  <2>3. CASE \E r \in Requests : CompleteLoad(k, r) \/ HandlerStep(k, r)
    BY <1>2, <2>3 DEF HandlerStep, CompleteLoad, CompleteStat, CompleteMark, CompleteSpawn,
       CompletePanic, WriteErr, records
  <2>4. ASSUME NEW o \in Starters, Deadline(k, o) \/ ValidatorStep(k, o)
        PROVE  k = j /\ (MarkPending(k, o) \/ MarkRejected(k, o))
    <3>1. CASE MarkPending(k, o) \/ MarkRejected(k, o)
      BY <1>2, <3>1 DEF MarkPending, MarkRejected, WriteErr
    <3>2. CASE ~(MarkPending(k, o) \/ MarkRejected(k, o))
      BY <2>4, <3>2 DEF ValidatorStep, Deadline, Probe, Load, Enqueue, GiveUp, Discard, Reload,
         TellRejected, records
    <3> QED
      BY <3>1, <3>2
  <2> QED
    BY <2>1, <2>2, <2>3, <2>4
<1>4. ASSUME NEW w \in Workers, WorkerStep(w) \/ WProgress(w)
      PROVE  worker[w].job = j /\ (WMark(w) \/ WProgress(w) \/ WFinish(w) \/ WFail(w))
  <2>1. CASE WMark(w) \/ WProgress(w) \/ WFinish(w) \/ WFail(w)
    BY <1>2, <2>1 DEF WMark, WProgress, WFinish, WFail, WriteErr
  <2>2. CASE WDequeue(w) \/ WQuit(w) \/ WLoad(w) \/ WFetch(w) \/ WEncode(w)
             \/ (\E f \in Renditions : WPut(w, f)) \/ WTell(w)
    BY <2>2 DEF WDequeue, WQuit, WLoad, WFetch, WEncode, WPut, WTell, records
  <2> QED
    BY <1>4, <2>1, <2>2 DEF WorkerStep
<1>5. CASE RecoveryNext
  <2>1. CASE \E k \in Jobs : BootReset(k) \/ BootFail(k)
    BY <1>2, <2>1 DEF BootReset, BootFail, WriteErr
  <2>2. CASE \E k \in Jobs : BootRequeue(k) \/ BootSkip(k) \/ BootStat(k)
    BY <2>2 DEF BootRequeue, BootSkip, BootStat, records
  <2>3. CASE BootList \/ BootServe \/ Stop \/ Exit \/ Crash
    BY <2>3 DEF BootList, BootServe, Stop, Exit, Crash, Wipe, records
  <2> QED
    BY <1>5, <2>1, <2>2, <2>3 DEF RecoveryNext, MainStep, RecoverJob
<1>6. CASE RetentionNext
  BY <1>2, <1>6 DEF RetentionNext, SweepStep, SweepList, SweepRaw, SweepOuts, SweepRecord,
     WriteErr, records
<1>7. CASE UNCHANGED vars
  BY <1>7 DEF vars, records
<1> QED
  BY <1>3, <1>4, <1>5, <1>6, <1>7 DEF Next, WorkerPoolNext

\* "It owns the job from validating onward": while one goroutine validates a
\* job, no step of another writes its record.
THEOREM NoOtherWriterCorrect ==
  ASSUME Prompt
  PROVE  Spec => NoOtherWriter
<1>1. RecordInv /\ [Next]_vars
        => [\A j \in Jobs : \A o \in Starters :
              /\ db[j].status = "validating" /\ Validating(j, o)
              /\ validator'[j][o] = validator[j][o]
              => db'[j] = db[j]]_vars
  <2> SUFFICES ASSUME RecordInv, [Next]_vars, NEW j \in Jobs, NEW o \in Starters,
                      db[j].status = "validating", Validating(j, o),
                      validator'[j][o] = validator[j][o], db'[j] # db[j]
               PROVE  FALSE
    OBVIOUS
  <2>1. /\ NoWorker(j) /\ ~Awaiting(j)
        /\ \A x \in Starters : x # o => ~Validating(j, x)
    BY OnlyOwner DEF RecordInv
  <2>2. Unlisted(j) /\ Agrees(j) /\ age[j] # Unborn
    BY ActiveUnlisted DEF Active, RecordInv, Agreement, Ownership, Handover
  <2>3. ~(\E k \in Kinds : CreateUpload(j, k)) /\ ~PresignError(j)
    BY <2>2 DEF CreateUpload, PresignError, Agrees, SessionAgrees
  <2>4. ASSUME NEW r \in Requests PROVE ~CompleteMark(j, r)
    BY <2>2 DEF CompleteMark, Agrees, HandlerAgrees
  <2>5. ASSUME NEW x \in Starters, MarkPending(j, x) \/ MarkRejected(j, x) PROVE FALSE
    <3>1. validator[j][x].pc \in {"pend", "failmark"}
      BY <2>5 DEF MarkPending, MarkRejected, At
    <3>2. x = o
      BY <2>1, <3>1 DEF Validating
    <3>3. \/ \E step \in {"enqueue", "failtell"} : Step(j, o, step)
          \/ Return(j, o)
      BY <2>5, <3>2 DEF MarkPending, MarkRejected
    <3>4. validator'[j][o].pc \in {"idle", "enqueue", "failtell"}
      BY <3>3, ValidatorGoes DEF RecordInv, TypeInv, TypeOK
    <3> QED
      BY <3>1, <3>2, <3>4
  <2>6. ASSUME NEW w \in Workers, worker[w].job = j,
               WMark(w) \/ WProgress(w) \/ WFinish(w) \/ WFail(w)
        PROVE  FALSE
    BY <2>1, <2>6 DEF WMark, WProgress, WFinish, WFail, On, NoWorker, Working
  <2>7. ~BootReset(j) /\ ~BootFail(j)
    BY <2>1, RecoveryHolds DEF BootReset, BootFail, Interrupted
  <2>8. ASSUME NEW s \in Sweeps, SweepRecord(s, j) PROVE FALSE
    BY <2>2, <2>8 DEF SweepRecord, Unlisted, Busy
  <2> QED
    BY <2>3, <2>4, <2>5, <2>6, <2>7, <2>8, Writers DEF RecordInv
<1> QED
  BY <1>1, InitInv, NextInv, PTL DEF Spec, NoOtherWriter

=============================================================================
