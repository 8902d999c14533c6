--------------------------- MODULE PipelineState ---------------------------
(***************************************************************************)
(* The state shared by the components of the video pipeline, and the       *)
(* operations of the two stores they share: the job records (SQLite,       *)
(* internal/job) and the objects (B2, internal/storage).                   *)
(*                                                                         *)
(* Two parts of the state survive a restart, the records db and the        *)
(* objects raw and out.  Everything else dies with the process: the        *)
(* channel, the goroutines and what they have read so far.                 *)
(*                                                                         *)
(* Data left out: a record's progress, error text and timestamps; the age  *)
(* of a session stands for its created_at.  A rendition stands for its     *)
(* .mp4 object, or for its directory of the HLS tree.                      *)
(***************************************************************************)
EXTENDS Naturals, Sequences

CONSTANTS
  Jobs,         \* the ids newID will hand out
  NoJob,        \* "no job", not an id
  Requests,     \* concurrent POST /videos/{id}/complete handlers of one job
  Boot,         \* the starter of a validation that recovery resumes
  Workers,      \* the goroutines of the pool
  Renditions,   \* the renditions the transcoder produces
  Kinds,        \* the kinds clients ask for, a part of {"mp4", "hls"}
  Uploads,      \* what clients PUT, a part of UploadedBytes
  Capacity,     \* size of the channel buffer (100)
  MaxDepth,     \* maxQueueDepth (20)
  Strays,       \* how clients stray from one prompt complete call per job
  Deadlines,    \* may the 15 minutes of a validation run out?
  Oldest,       \* bound: the last age a session reaches
  MaxFaults,    \* bound: failed calls to a store, to B2 or to ffmpeg
  MaxRestarts   \* bound: times the process stops or crashes

Statuses == {"uploading", "validating", "pending", "processing",
             "completed", "failed"}
Terminal == {"completed", "failed"}
UploadedBytes == {"video", "junk", "missized"}

\* A record as a goroutine holds it, and the value of a missing record.
Row    == [status : Statuses \cup {"none"}, outs : SUBSET Renditions]
Absent == [status |-> "none", outs |-> {}]

\* Ages of a session, by the limits the code compares created_at with:
\* the presigned URL (15 minutes), the stale-upload reaper (1 hour) and
\* the retention sweep (48 hours).
Unborn == 0
Fresh  == 1
Stale  == 3
Old    == 4

Starters == Requests \cup {Boot}
Sweeps   == {"stale", "expired"}

HandlerSteps   == {"idle", "stat", "mark", "spawn"}
ValidatorSteps == {"idle", "probe", "load", "pend", "enqueue",
                   "discard", "reload", "failmark", "failtell"}
WorkerSteps    == {"idle", "load", "mark", "fetch", "encode", "upload",
                   "fail", "tell", "quit"}
SweepSteps     == {"idle", "outs", "record"}

ASSUME ConstantsAssumption ==
  /\ NoJob \notin Jobs
  /\ Boot \notin Requests
  /\ Kinds \subseteq {"mp4", "hls"}
  /\ Uploads \subseteq UploadedBytes
  /\ Strays \subseteq {"overlap", "late", "slow"}
  /\ Capacity \in Nat \ {0} /\ MaxDepth \in Nat \ {0}
  /\ Deadlines \in BOOLEAN
  /\ Oldest \in Fresh .. Old
  /\ MaxFaults \in Nat /\ MaxRestarts \in Nat

VARIABLES
  \* what survives a restart
  db,         \* job records
  kind,       \* the kind in each record, fixed by its creation
  raw,        \* the uploaded object of each job
  out,        \* the rendition objects of each job
  \* the clients' side, and time
  age,        \* age of each session
  session,    \* progress of the create call: does the client hold a URL?
  told,       \* terminal statuses published for each job
  \* the process
  phase,      \* main: "down", "recovering", "serving"
  stopping,   \* has SIGTERM cancelled main's context?
  queue,      \* the channel of job ids
  handler,    \* step of each complete handler
  validator,  \* step, record read and deadline of each validateAndEnqueue
  worker,     \* step, job, record and uploads of each worker
  redrive,    \* recovery's snapshot of the jobs it has still to re-drive
  redriving,  \* the job recovery is in the middle of
  sweep,      \* each reaper's snapshot of the jobs it has still to delete
  sweeping,   \* the job each reaper is in the middle of, and its step
  \* bounds
  faults,     \* failures injected so far
  restarts    \* stops and crashes so far

records   == <<db, kind>>
objects   == <<raw, out>>
clients   == <<age, session>>
uploading == <<handler, validator>>
main      == <<phase, stopping, redrive, redriving>>
reapers   == <<sweep, sweeping>>
vars == <<records, objects, clients, told, uploading, main, reapers,
          queue, worker, faults, restarts>>

IdleValidator == [pc |-> "idle", row |-> Absent, late |-> FALSE]
IdleWorker    == [pc |-> "idle", job |-> NoJob, row |-> Absent, sent |-> {}]
IdleSweeper   == [pc |-> "idle", job |-> NoJob]

\* The goroutines of a process that is not running.
NoGoroutines ==
  [handler   |-> [j \in Jobs |-> [r \in Requests |-> "idle"]],
   validator |-> [j \in Jobs |-> [o \in Starters |-> IdleValidator]],
   worker    |-> [w \in Workers |-> IdleWorker],
   snapshot  |-> [j \in Jobs |-> Absent]]

Init ==
  /\ db = [j \in Jobs |-> Absent]
  /\ kind = [j \in Jobs |-> "none"]
  /\ raw = [j \in Jobs |-> "none"]
  /\ out = [j \in Jobs |-> {}]
  /\ age = [j \in Jobs |-> Unborn]
  /\ session = [j \in Jobs |-> "none"]
  /\ told = [j \in Jobs |-> {}]
  /\ phase = "down"
  /\ stopping = FALSE
  /\ queue = <<>>
  /\ handler = NoGoroutines.handler
  /\ validator = NoGoroutines.validator
  /\ worker = NoGoroutines.worker
  /\ redrive = NoGoroutines.snapshot
  /\ redriving = NoJob
  /\ sweep = [s \in Sweeps |-> NoGoroutines.snapshot]
  /\ sweeping = [s \in Sweeps |-> IdleSweeper]
  /\ faults = 0
  /\ restarts = 0

-----------------------------------------------------------------------------
(* Every call to a store, to B2 or to ffmpeg takes a context.  It fails    *)
(* when that context is done, and otherwise when a fault strikes.          *)

Succeeds(done) == ~done /\ UNCHANGED faults

Fails(done) ==
  \/ done /\ UNCHANGED faults
  \/ ~done /\ faults < MaxFaults /\ faults' = faults + 1

\* A call of the job store that finds the record of j, and one that returns
\* ErrNotFound or another error.
StoreOK(j, done) == db[j].status # "none" /\ Succeeds(done)

StoreErr(j, done) ==
  \/ db[j].status = "none" /\ UNCHANGED faults
  \/ db[j].status # "none" /\ Fails(done)

\* Store.Update writes the whole record, whatever was written since it was
\* read.
Write(j, row) == db' = [db EXCEPT ![j] = row]

\* A write that returns an error may have been committed all the same: the
\* answer was lost.
WriteErr(j, row, done) ==
  /\ StoreErr(j, done)
  /\ \/ UNCHANGED db
     \/ ~done /\ db[j].status # "none" /\ Write(j, row)

\* The channel.  An id is sent when there is room, else the sender waits.
Send(j) == Len(queue) < Capacity /\ queue' = Append(queue, j)

\* Broker.Publish of a terminal status.
Tell(j, status) == told' = [told EXCEPT ![j] = @ \cup {status}]

=============================================================================
