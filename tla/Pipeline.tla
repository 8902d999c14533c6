------------------------------ MODULE Pipeline ------------------------------
(***************************************************************************)
(* The whole pipeline: uploads, workers, recovery and retention over the   *)
(* shared records, objects and channel, and what must hold of them         *)
(* together.                                                               *)
(***************************************************************************)
EXTENDS Upload, WorkerPool, Recovery, Retention

Next == UploadNext \/ WorkerPoolNext \/ RecoveryNext \/ RetentionNext

Spec == Init /\ [][Next]_vars

(***************************************************************************)
(* The Go scheduler runs every goroutine that can run, so each of them     *)
(* makes progress; calls return.  Nothing is assumed of clients, faults,   *)
(* signals, the clock or the reapers' tickers.                             *)
(***************************************************************************)
Fairness ==
  /\ WF_vars(MainStep)
  /\ \A w \in Workers : WF_vars(WorkerStep(w))
  /\ \A j \in Jobs : \A o \in Starters : WF_vars(ValidatorStep(j, o))
  /\ \A j \in Jobs : \A r \in Requests : WF_vars(HandlerStep(j, r))

FairSpec == Spec /\ Fairness

-----------------------------------------------------------------------------
(* Types.                                                                  *)

Validator == [pc : ValidatorSteps, row : Row, late : BOOLEAN]
Worker    == [pc : WorkerSteps, job : Jobs \cup {NoJob}, row : Row,
              sent : SUBSET Renditions]
Sweeper   == [pc : SweepSteps, job : Jobs \cup {NoJob}]

\* The types the code declares, and no more: rows, ids and steps.
TypeOK ==
  /\ db \in [Jobs -> Row]
  /\ kind \in [Jobs -> {"none", "mp4", "hls"}]
  /\ raw \in [Jobs -> UploadedBytes \cup {"none"}]
  /\ out \in [Jobs -> SUBSET Renditions]
  /\ age \in [Jobs -> Unborn .. Old]
  /\ session \in [Jobs -> {"none", "presign", "open", "lost"}]
  /\ told \in [Jobs -> SUBSET Terminal]
  /\ phase \in {"down", "recovering", "serving"}
  /\ stopping \in BOOLEAN
  /\ queue \in Seq(Jobs)
  /\ handler \in [Jobs -> [Requests -> HandlerSteps]]
  /\ validator \in [Jobs -> [Starters -> Validator]]
  /\ worker \in [Workers -> Worker]
  /\ redrive \in [Jobs -> Row]
  /\ redriving \in Jobs \cup {NoJob}
  /\ sweep \in [Sweeps -> [Jobs -> Row]]
  /\ sweeping \in [Sweeps -> Sweeper]
  /\ faults \in Nat
  /\ restarts \in Nat

\* What a worker holds at each of its steps; with TypeOK it is inductive.
Sound(v) ==
  /\ v.pc \notin {"idle", "quit"} => v.job \in Jobs
  /\ v.pc \in {"fetch", "encode", "upload", "fail"} => v.row.status = "processing"
  /\ v.pc = "tell" => v.row.status \in Terminal

WorkersSound == \A w \in Workers : Sound(worker[w])

Active == {"validating", "pending", "processing"}

-----------------------------------------------------------------------------
(* Who may write the record of a job: at any moment there is at most one.  *)

Queued(j, i)     == i \in DOMAIN queue /\ queue[i] = j
Validating(j, o) == validator[j][o].pc # "idle"
Working(j, w)    == worker[w].job = j /\ worker[w].pc \notin {"idle", "quit"}
Spawning(j, r)   == handler[j][r] = "spawn"
Awaiting(j)      == redrive[j] # Absent

AnyQueued(j)     == \E i \in DOMAIN queue : queue[i] = j
OnceQueued(j)    == \A i1, i2 \in DOMAIN queue : Queued(j, i1) /\ Queued(j, i2) => i1 = i2
AnyValidating(j) == \E o \in Starters : Validating(j, o)
AnyWorking(j)    == \E w \in Workers : Working(j, w)
AnySpawning(j)   == \E r \in Requests : Spawning(j, r)

\* An accepted job is in one place only: once in the channel, or with one
\* validation, one worker, or recovery.  It is what lets every one of them
\* read a record, work for minutes and write its copy back
\* (handlerUpload.go:233-235, recover.go:14-27).
OneOwner(j) ==
  /\ OnceQueued(j)
  /\ \A o1, o2 \in Starters : Validating(j, o1) /\ Validating(j, o2) => o1 = o2
  /\ \A w1, w2 \in Workers : Working(j, w1) /\ Working(j, w2) => w1 = w2
  /\ \A r1, r2 \in Requests : Spawning(j, r1) /\ Spawning(j, r2) => r1 = r2
  /\ AnyQueued(j) => ~AnyValidating(j) /\ ~AnyWorking(j) /\ ~AnySpawning(j) /\ ~Awaiting(j)
  /\ AnyValidating(j) => ~AnyWorking(j) /\ ~AnySpawning(j) /\ ~Awaiting(j)
  /\ AnyWorking(j) => ~AnySpawning(j) /\ ~Awaiting(j)
  /\ AnySpawning(j) => ~Awaiting(j)

SingleOwner == \A j \in Jobs : OneOwner(j)

Owned(j) ==
  AnyQueued(j) \/ AnyValidating(j) \/ AnyWorking(j) \/ AnySpawning(j) \/ Awaiting(j)

\* Why there is one owner: a job gets its first from the one complete call it
\* has, which found the record still "uploading", and no owned job is; every
\* later owner takes over from the one before; and all of them die together.
Handover(j) ==
  /\ \A r1, r2 \in Requests :
       handler[j][r1] # "idle" /\ handler[j][r2] # "idle" => r1 = r2
  /\ \A r \in Requests : handler[j][r] \in {"stat", "mark"} => ~Owned(j)
  /\ Owned(j) => db[j].status # "uploading" /\ age[j] # Unborn
  /\ age[j] = Unborn => db[j].status = "none"

NoProcess ==
  /\ handler = NoGoroutines.handler
  /\ validator = NoGoroutines.validator
  /\ worker = NoGoroutines.worker
  /\ redrive = NoGoroutines.snapshot
  /\ queue = <<>>

\* The inductive form of SingleOwner.
Ownership ==
  /\ \A j \in Jobs : OneOwner(j) /\ Handover(j)
  /\ phase = "down" => NoProcess
  /\ phase = "recovering" => handler = NoGoroutines.handler

\* The copy a goroutine holds is the record as it is: between its read and
\* its write nobody else wrote.  Update replaces the whole record, so a stale
\* copy would undo what was written in between (store.go:73-81,
\* sqlite.go:155-181).
CopiesAreCurrent ==
  \A j \in Jobs :
    /\ \A o \in Starters : validator[j][o].pc \in {"pend", "failmark"} => validator[j][o].row = db[j]
    /\ \A w \in Workers : Working(j, w) /\ worker[w].pc \notin {"load", "tell"}
                            => worker[w].row = db[j]
    /\ Awaiting(j) => redrive[j] = db[j]
    /\ \A s \in Sweeps :
         sweep[s][j] # Absent => db[j] \in {sweep[s][j], Absent}

\* What a record holds at each status: its outputs only once completed.
RowAs(status) ==
  [status |-> status, outs |-> IF status = "completed" THEN Renditions ELSE {}]

SessionAgrees(j) ==
  /\ db[j] = RowAs(db[j].status)
  /\ age[j] = Unborn => session[j] = "none"
  /\ session[j] = "presign" => db[j].status = "uploading" /\ age[j] = Fresh
  /\ db[j].status \notin {"none", "uploading"} => session[j] = "open"

HandlerAgrees(j, r) ==
  /\ handler[j][r] # "idle" => session[j] = "open" /\ age[j] < Stale
  /\ handler[j][r] \in {"stat", "mark"} => db[j].status = "uploading"
  /\ handler[j][r] = "spawn" => db[j].status = "validating"

ValidatorAgrees(j, o) ==
  /\ validator[j][o].pc \notin {"idle", "enqueue", "failtell"} => db[j].status = "validating"
  /\ validator[j][o].pc \in {"pend", "failmark"} => validator[j][o].row = db[j]
  /\ validator[j][o].pc = "enqueue" => db[j].status = "pending"
  /\ validator[j][o].pc = "failtell" => db[j].status \in {"failed", "none"}

QueueAgrees(j) == AnyQueued(j) => db[j].status = "pending"

WorkerAgrees(j, w) ==
  Working(j, w) =>
    /\ worker[w].pc \in {"load", "mark"} => db[j].status = "pending"
    /\ worker[w].pc \notin {"load", "tell"} => worker[w].row = db[j]
    /\ worker[w].pc = "tell" => db[j] \in {worker[w].row, Absent}

RecoveryAgrees(j) ==
  Awaiting(j) => redrive[j] = db[j] /\ db[j].status \in Interrupted

\* What a reaper listed is still so, or gone, until it lets go of it.
Listed(s, j) ==
  /\ Eligible(s, j) \/ db[j] = Absent
  /\ db[j] \in {sweep[s][j], Absent}
  /\ age[j] >= IF s = "stale" THEN Stale ELSE Old

ReaperAgrees(j, s) ==
  /\ sweep[s][j] # Absent => Listed(s, j)
  /\ Busy(s) /\ sweeping[s].job = j => sweep[s][j] # Absent

Agrees(j) ==
  /\ SessionAgrees(j) /\ QueueAgrees(j) /\ RecoveryAgrees(j)
  /\ \A r \in Requests : HandlerAgrees(j, r)
  /\ \A o \in Starters : ValidatorAgrees(j, o)
  /\ \A w \in Workers : WorkerAgrees(j, w)
  /\ \A s \in Sweeps : ReaperAgrees(j, s)

\* The inductive form of CopiesAreCurrent and of the action properties: the
\* record is what its owner takes it for, and no reaper is after it.
Agreement == \A j \in Jobs : Agrees(j)

\* The upload of a job that waits for a worker, or has one, is in storage:
\* recovery relies on it to start again (recover.go:17-21).
RawSurvives ==
  \A j \in Jobs : db[j].status \in {"pending", "processing"} => raw[j] # "none"

\* A completed job has all its renditions in storage until retention may
\* take it, and its record names them all (pool.go:171-173).
CompletedIsWhole ==
  \A j \in Jobs : db[j].status = "completed" /\ age[j] < Old =>
                    out[j] = Renditions /\ db[j].outs = Renditions

\* When a record is gone, so are its objects: nothing else remembers them
\* (retention.go:48-50 and 92-96).
Gone(j) == age[j] # Unborn /\ db[j] = Absent
NoOrphans == \A j \in Jobs : Gone(j) => raw[j] = "none" /\ out[j] = {}

\* Of that, what holds through every failure: the upload is deleted, and the
\* tree of an HLS job (retention.go:110-126).
UploadsAndTreesGone ==
  \A j \in Jobs : Gone(j) => raw[j] = "none" /\ (kind[j] = "hls" => out[j] = {})

\* The inductive form of RawSurvives: a validation that found a video still
\* has it when it queues the job.
UploadKept(j) ==
  /\ db[j].status \in {"pending", "processing"} => raw[j] # "none"
  /\ \A o \in Starters : validator[j][o].pc \in {"load", "pend"} => raw[j] # "none"

\* The inductive form of CompletedIsWhole: what a worker sent is there until
\* it tells, and then until retention may take it.
OutputsKept(j) ==
  /\ \A w \in Workers : Working(j, w) /\ worker[w].pc # "tell" => worker[w].sent \subseteq out[j]
  /\ db[j].status = "completed" /\ age[j] < Old => out[j] = Renditions

ObjectsKept ==
  /\ \A j \in Jobs : UploadKept(j) /\ OutputsKept(j)
  /\ \A w \in Workers : worker[w].pc \in {"idle", "quit"} => worker[w].sent = {}
  /\ \A s \in Sweeps : sweeping[s].pc = "outs" => s = "expired"

\* The inductive form of UploadsAndTreesGone: nothing is stored before the
\* client has its URL, nothing but the upload before the job is accepted, and
\* nothing comes back behind a reaper.
LeavesNothing(j) ==
  /\ session[j] # "open" => raw[j] = "none" /\ out[j] = {}
  /\ db[j].status = "uploading" => out[j] = {}
  /\ session[j] = "open" /\ age[j] = Fresh => db[j].status # "none"
  /\ \A s \in Sweeps : Busy(s) /\ sweeping[s].job = j => raw[j] = "none"
  /\ sweeping["expired"] = [pc |-> "record", job |-> j] /\ kind[j] = "hls" => out[j] = {}
  /\ Gone(j) => raw[j] = "none" /\ (kind[j] = "hls" => out[j] = {})

NothingLeft == \A j \in Jobs : LeavesNothing(j)

\* The record is "the single source of truth" of a job's status
\* (job.go:33-35), and an end is published after it was written.  A job that was
\* announced complete is, until retention removes it, and one that was announced
\* failed was marked so, or was queued by a validation that gave up in front of
\* the channel and could not write what it published (handlerUpload.go:290-301).
\* No other failed write is announced (handlerUpload.go:252-264, pool.go:153-195).
AnnouncedEnds ==
  \A j \in Jobs :
    /\ "completed" \in told[j] => db[j].status \in {"completed", "none"}
    /\ "failed" \in told[j] => db[j].status \notin {"uploading", "validating"}

\* The record of a job that is being validated, queued or processed is never
\* removed: the stale-upload reaper takes only sessions that never called
\* complete (retention.go:15-19, store.go:32-35).
ActiveRecordKept ==
  [][\A j \in Jobs : db[j].status \in Active => db'[j].status # "none"]_vars

\* "It owns the job from validating onward; no other writer touches the
\* record in that window" (handlerUpload.go:233-235).
NoOtherWriter ==
  [][\A j \in Jobs : \A o \in Starters :
       /\ db[j].status = "validating" /\ Validating(j, o)
       /\ validator'[j][o] = validator[j][o]
       => db'[j] = db[j]]_vars

\* "Safe to retry: sessions already past uploading return the current job
\* unchanged" (handlerUpload.go:165-166): no complete call takes a job back
\* to its validation.
SafeToRetry ==
  [][\A j \in Jobs : db[j].status \in (Active \cup Terminal) \ {"validating"}
                       => db'[j].status # "validating"]_vars

\* validateAndEnqueue deletes the object "when the bytes aren't a real video"
\* (handlerUpload.go:230-233), and takes a failed download for that too (266).  A
\* download that its deadline cuts off is another matter: the deletion takes the
\* context that is done.  Of clients that upload videos, only a failed call loses
\* one while it is validated, and recovery validates it again.
RealVideoKept ==
  [][\A j \in Jobs : db[j].status = "validating" /\ raw[j] = "video" /\ faults' = 0
                       => raw'[j] # "none"]_vars

\* A finished job stays as it is until retention removes it: neither a late
\* writer nor recovery revives it (recover.go:27).
TerminalFinal ==
  [][\A j \in Jobs : db[j].status \in Terminal => db'[j] \in {db[j], Absent}]_vars

-----------------------------------------------------------------------------
(* The lifecycle of a job, as its record shows it.                         *)

PublicStatus(j) ==
  IF age[j] = Unborn THEN "unborn"
  ELSE IF db[j] = Absent THEN "gone" ELSE db[j].status

Lifecycle == INSTANCE JobLifecycle
               WITH status <- [j \in Jobs |-> PublicStatus(j)]

\* The pipeline implements the lifecycle: through every interleaving, crash
\* and failure a record makes only its steps.
ImplementsLifecycle == Lifecycle!Spec

Ended(j) == PublicStatus(j) \in Lifecycle!Ended

\* Somebody has the job whom no panic of a publish takes from it; a request
\* that has still to spawn its validation may be.
Driven(j) == AnyQueued(j) \/ AnyValidating(j) \/ AnyWorking(j) \/ Awaiting(j)

OutOfTime(j) == \E o \in Starters : validator[j][o].late

\* A failed call, a validation out of time and a publish that panics may leave
\* an accepted job with nobody to drive it, in any of its active statuses.  But
\* after the last failure every job that is driven ends, through any restart,
\* unless its validation runs out of its 15 minutes; and so does every job that
\* a start of the process can find, whoever had left it (recover.go:14-27).
EveryAcceptedJobEnds ==
  \A j \in Jobs :
    db[j].status \in Active /\ faults = MaxFaults /\ (Driven(j) \/ phase = "down")
      ~> Ended(j) \/ OutOfTime(j)

\* A validation marks its job pending and queues it, or marks it failed and
\* says so (handlerUpload.go:230-233): one that returns, and no call of which
\* failed, has settled its job, and what it published is so.
Settled(j) ==
  \/ db[j].status = "failed" /\ "failed" \in told[j]
  \/ AnyQueued(j) /\ told[j] = {}

ValidationSettles ==
  [][\A j \in Jobs : \A o \in Starters :
       Validating(j, o) /\ validator'[j][o] = IdleValidator => Settled(j)']_vars

=============================================================================
