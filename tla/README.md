# A TLA+ model of the video pipeline

The program under `src/` takes videos by direct upload to object storage,
validates them, transcodes them to a ladder of renditions with ffmpeg, reports
progress, and deletes everything after two days. It is one Go process with a
SQLite file and a bucket. What makes it hard is that a job is driven by a relay
of goroutines (request, validation, worker, recovery) that share a record they
read once and write back whole, minutes later, while two reapers delete records
and objects beside them, any call may fail, and the process may stop at any step.

This directory models that relay, the transcode of one job step by step, the
delivery and deletion of its files, the progress streams, the end of the process,
the listings by time and the limit on uploads. TLC checks all of it on small
instances. TLAPS proves every invariant, every action property and every
refinement that a passing run checks, for instances of any size, and under named
conditions where the property needs them: that the relay has one runner at a
time and its record is written by nobody else, that it is a job lifecycle, that
no object is lost while a job counts on it and none is left when its record
goes, that streams tell the truth, that a clean exit leaves nobody behind, that
plans can be encoded and players find what they are sent to, that the listings
are right to the second, and that no client exceeds its budget or misses its
burst. Liveness is model-checked.

## 1. Inventory

| component | source | state | operations | meets |
|---|---|---|---|---|
| Upload API | `internal/httpserver/handlerUpload.go` | none of its own | create: record + URL; complete: read, HEAD, write "validating", spawn | store, storage, queue (depth), broker |
| Validation | same, `validateAndEnqueue` | its 15-minute context, the record it read | download + ffprobe; mark pending + enqueue; or delete, mark failed, publish | store, storage, queue, broker |
| Queue | `internal/queue` | a channel of 100 ids, in memory | Enqueue, Dequeue (both select with a context), Len | validation, recovery, workers |
| Workers | `internal/worker/pool.go` | per goroutine: the job, its copy of the record | load, mark processing, download, ffmpeg + progress, upload, mark completed or failed, publish | queue, store, storage, transcoder, broker |
| Job store | `internal/job` | the records, in SQLite or in memory | Create, Get, Update (whole record), Delete, three listings | everyone |
| Object storage | `internal/storage` | raw object and renditions of each job | Put, Get, Stat, Delete, DeletePrefix, PresignPut | everyone, and the client's PUT |
| Recovery | `internal/httpserver/recover.go` | one listing | requeue pending, reset processing, resume validating | store, storage, queue, validation |
| Retention | `internal/retention/retention.go` | one listing per sweep, two tickers | delete objects, then record | store, storage |
| Process | `cmd/server/main.go`, `server.go` | the signal's context | start, recover, serve, shut down | all |
| Broker | `internal/events/event.go` | one channel of 4 updates per followed job | Subscribe, unsubscribe, Publish | everyone who publishes, streams |
| Progress stream | `handleJobEvents.go` | its place in the loop | subscribe, read state, forward, self-heal, heartbeat | broker, store |
| Transcoder | `internal/transcoder` | an ffmpeg process, its pipe | probe, plan the ladder, run ffmpeg, parse progress, name and describe the outputs | workers, validation |
| Delivery | `handleHLS.go`, `handleDownload.go` | none | look up the record, then the key | store, storage |
| Status and listing | `handerStatus.go` | none | the shelf of recent videos | store |
| Rate limiter | `rateLimit.go`, `routes.go` | a bucket of tokens per address | allow | create and complete calls |
| Routing, CORS, config, logger, health | `internal/httpserver`, `internal/config`, `internal/logger` | none | - | - |

What each must do, and what is hard about it:

* **Upload and validation.** An accepted job has one validation, which ends
  by marking it pending or failed. Hard: retried and overlapping complete
  calls, the deadline, an error that is not the video's fault, a full channel.
* **Workers.** A completed job is whole; a job's record is written by one
  worker only. Hard: the copy held for an hour, errors of the last write,
  shutdown in the middle.
* **Recovery.** Every accepted job ends across any restart, and finished
  ones are left alone. Hard: every crash point, a listing that ages while
  workers run.
* **Retention.** It never removes an active job, and never a record before its
  objects. Hard: the gap between listing and deletion, partial failures, PUTs
  that land late.
* **Transcoder.** The plan renders something for every source, in its shape and
  never larger; what is recorded of an output is so; ffmpeg never blocks for
  ever. Hard: roundings, odd and portrait sources, a full pipe, the job's
  timeout, progress that passes the end.
* **Delivery.** Players are not sent to files that are not there. Hard: the tree
  is served while it is uploaded, and after a crash in the middle of that.
* **Process.** A signal ends it in bounded time, and main returns only when
  its crew has. Hard: streams that never end are requests.
* **Broker and stream.** One listener per job, the truth at the end, and
  no stream that hangs. Hard: dropped updates, unsubscribing while publishing.

`PROJECT.json` lists every hazard with its line and the properties that
watch it.

## 2. Modules

```
PipelineState      variables, Init, store and channel operations, assumptions
  Upload           create, client, complete, validateAndEnqueue
  WorkerPool       runWorker, processJob, runTranscode(HLS)
  Recovery         start, recovery, stop, crash
  Retention        both reapers
    Pipeline       Next, fairness, properties; INSTANCE JobLifecycle
      MCPipeline   symmetry for TLC
      TypeProofs
        OwnershipProofs
          RecordProofs
            ObjectProofs
JobLifecycle       the abstract specification: a status machine per job

Ladder             the plan: rungs, shapes, names, order of files (operators)
  Transcoding      one job in the hands of a worker; the ffmpeg process
    Delivery       with players, and retention through pages and batches
      MCDelivery   the sources TLC tries
      DeliveryProofs

EventStream        broker + SSE handler of one job
  Shutdown         with Server.Run and main's exit
    StreamProofs

Listing            the listings by time, their users, and times as text
  ListingProofs
RateLimit          the limit on uploads
  RateLimitProofs
```

`Pipeline` and `Delivery` are two views of a transcode. `Pipeline` has all jobs,
requests, workers, validations and recovery, and a transcode in three steps:
"fetch", "encode" (with `WProgress`) and "upload". `Delivery` takes one worker
and one job, which `SingleOwner` justifies, and has every step of them:
download, ffmpeg and its pipe, each milestone, the measuring, each file, each
page and batch of the deletion.

### How the state corresponds

| variable | in the program |
|---|---|
| `db[j]` | row of the `jobs` table: status and output names; `Absent` when there is none |
| `kind[j]` | its `kind` column, written once |
| `raw[j]` | the object `raw/<id>/<name>`: none, a video, junk, or one whose size the HEAD refuses |
| `out[j]` | the objects under `processed/<id>/`, one element per rendition |
| `age[j]` | time since `created_at`, by the limits the code compares it with: 15 min, 1 h, 48 h |
| `session[j]`, `told[j]` | what the client holds of the create call; terminal statuses published |
| `phase`, `stopping` | where `main` is; whether its context is done |
| `queue` | the channel |
| `handler[j][r]` | where request `r` is in `handleCompleteUpload` |
| `validator[j][o]` | a `validateAndEnqueue`, by who started it: its place, the record read, its context |
| `worker[w]` | a worker: place, job, its `job.Job`, renditions uploaded |
| `redrive`, `redriving` | the listing in `RecoverInterruptedJobs`, and the job its loop is at |
| `sweep[s]`, `sweeping[s]` | the listing of a reaper, and the job its loop is at |

In `Transcoding` and `Delivery`, for one job:

| variable | in the program |
|---|---|
| `source`, `kind` | what ffprobe says of the upload (width, height, audio, seconds); the kind asked for |
| `record` | the row: status, progress, outputs with their sizes, is there a master key |
| `worker` | `pc`: place in `processJob`; `copy`: its `job.Job`; `last`: `lastStored` of `onProgress`; `late`: is the job's context done; `outs`: the outputs measured; `sent`: files uploaded |
| `ffmpeg` | running, ended well or badly; the time it reached; the lines in its pipe |
| `bucket` | the keys under `processed/<id>/`, each a name at the top of the job's folder and a place in that directory |
| `player` | what a client has been given: nothing, the master, a dead link |
| `sweeper` | `pc`; `todo`: the page being read; `batch`; `token`: the place of the last key listed, for the continuation token; `more`: `IsTruncated` |
| `expired`, `refused` | has retention come; keys B2 said it did not delete |

Files that are walked, listed or deleted in an order are sets here: `Place` is
where a key comes in the order of its kind (by name for a tree, down the ladder
for MP4), and `FirstOf` takes the next ones.

In `EventStream` and `Shutdown`:

| variable | in the program |
|---|---|
| `record` | the job, as a stream can read it: "uploading", "active", "ended"; "stuck" (its validation gave up) and "lost" (its validation was never started), which stay active; "expired" and "reaped" (removed by retention before it was accepted, or after its end) |
| `publisher` | the goroutine inside `Publish`: what it publishes, the channel it looked up, and `by`, whether it is a worker or validation or a request handler |
| `slot`, `buffer`, `closed` | `subscribers[jobID]`; each stream's channel |
| `stream`, `sent` | place in `handleJobEvents`; the last event written |
| `panicked` | a send on a closed channel in a goroutine where nothing recovers it |
| `process`, `crew`, `exit` | `Server.Run` and main; the WaitGroup of workers and reapers; how main ended |

In `Listing`: `clock`, `row` (status and `created_at`, in hundredths of a second),
`doomed` (what a reaper was given and has not deleted), `shelf` (the last answer
of `handleListVideos`). A time is compared by the text `Format` makes of it
(`Suffix`, `TextBefore`), while the properties compare the times.

In `RateLimit`: `limiters` (the map), `level` (what each bucket holds, in ticks,
`Every` of them to a token), `upload` (the call a client is at, and the bucket
between `allow`'s lookup and its `Allow`), `refused`, and `window`, a stretch of
time in which passed requests are counted.

One action is the code between two calls that touch shared state: each call of
the store, of storage, of the channel, of ffmpeg and of the broker is a step, in
the order of the source, and each may fail. A call fails when its context is
done, without effect (this is how a worker's last write is lost at shutdown and
a validation's at its deadline), and otherwise when one of the `MaxFaults`
faults strikes it. A write of the record that a fault strikes may have been
committed or not (`WriteErr`, `StoreFails`, `SweepRecord`), a Put that fails may
have stored its object (`WPut`, `Put`), and a failed deletion of a tree or of a
batch may have deleted some of it (`SweepOuts`, `Flush`). In `Pipeline` a run in
which ffmpeg exceeds the job timeout is one of those faults: it ends in the same
place. `Transcoding` has the timeout at any step (`JobTimeout`).

A publish is a step of its own where it can matter. In `EventStream` it may
panic, when its listener leaves in the middle of it. That ends the process when
a worker or a validation publishes (`Panic`); in the complete call `net/http`
recovers it (`RecoveredPanic`), and what is lost is the statement after it, the
start of the validation: `CompletePanic` of `Pipeline`.

Left out of `Pipeline`'s data: progress numbers, error texts, names, sizes but
for the bound, timestamps but for the three limits. Progress writes are there
(`WProgress`): they write the whole record; their numbers are in `Transcoding`.
"validating" and "processing" events are left out of `Pipeline`, and are ticks
in `EventStream`.

### What is assumed of clients

`Strays` names how clients may depart from one prompt call of complete per
job. With none, a client waits for the answer before it calls again
(retries after an error included), calls within the hour, and its PUT ends while
the URL is valid. `"overlap"`, `"late"` and `"slow"` lift these one by one.
Ownership is proved with late and slow clients admitted, and what follows from
`Agreement` with slow ones (section 4); the runs of `Pipeline`
that must pass have none, and `retry_race` and `reaper_race` show what goes
wrong with them. Players, and the clients of streams, come and go as they like.

## 3. What the runs check

Passing:

| run | instance | checks |
|---|---|---|
| `one_job` | 1 job, 2 requests, 2 workers, 2 renditions, both kinds, deadlines, 2 faults, 2 restarts, all ages | types; the inductive invariants of the proofs (`Ownership`, `Agreement`); the raw object outlives the work; completed jobs are whole; nothing but MP4 renditions outlives its record; an end that was announced is in the record, or a validation gave up; active records are kept; one writer while validating; finished jobs are final; a complete call that does not overlap another is safe to retry |
| `two_jobs` | 2 jobs, 2 workers, a channel of 1, deadlines, a fault, 2 restarts | one owner per job; copies are current; no video is lost in its validation before a call fails; **refines `JobLifecycle`**; every accepted job that has an owner after the fault, or that a start of the process finds, ends, unless its validation runs out of time |
| `streams` | 2 streams, a buffer of 2, 2 failed reads, validations that give up, publishes that panic, sessions and finished records that are reaped, a signal | one listener; a stream ends with the truth; no end falls between the subscription and the first read; every stream of a finished job ends while there is a record to read; main returns only when its crew and its requests have; a signal ends the process |
| `tree` | 8 sources, both kinds, 2 faults, a timeout, a crash | a completed job is in storage as its plan says; players find what the master links to; retention leaves only what B2 refused; a band of progress is the most that is lost; shapes are kept and sizes told; jobs fail for a reason; every worker returns |
| `listings` | 3 jobs, 6 times around a second's edges, a shelf of 1 over 2 rows | reapers are given no job a second too young, and each one a second past its time; the shelf leaves out no video for an older one, to the second, unless it is crowded out |
| `limit` | 2 addresses, 3 uploads, a burst of 2 | no address gets more than its burst and the refill, over any stretch of time, nor is it refused before it had its burst |

Failing, each a disagreement between a comment of the source and its code (the
quotes are in `PROJECT.json`):

| run | shows |
|---|---|
| `retry_race` | two overlapping complete calls take a queued or processing job back to validation, and so start a second one that writes the record beside the first (`handlerUpload.go:165`) |
| `reaper_race` | a complete call after an hour, between the reaper's listing and its deletion, loses record and object of an active job (`retention.go:17`) |
| `mp4_orphans` | renditions uploaded before an MP4 job failed are in no record and survive retention (`retention.go:94`) |
| `validation_deadline` | a validation out of time cannot mark its job failed, since it uses the context that is done, and leaves it in validation until a restart (`handlerUpload.go:230-233`) |
| `send_on_closed` | a listener that leaves during a publish makes it panic (`event.go:69`): in a worker or a validation, where nothing recovers it, the process ends with it; in the complete call `net/http` recovers it, and the validation that line 221 would start is lost |
| `size_rounding` | the width recorded for an HLS variant that could not be measured is not ffmpeg's: 1919x1080 at 480 is told as 854 wide and is 852, though `hls.go:338-339` promises "the same even rounding" |

These passing properties are promises with a condition, and say where it ends:

* `NoOrphans` fails for the renditions of MP4 jobs; what is left of it,
  `UploadsAndTreesGone`, holds in `one_job` through every failure. It is a
  promise to clients whose PUT ends while the URL is valid: a slower one may
  land after the reaper, and nothing remembers its object. It also takes B2 at
  its word when it answers without an error; `OnlyRefusedLeft` of `tree` is the
  same promise when B2 refuses single keys.
* `AnnouncedEnds` has one exception: a validation that waits in front of a full
  channel until its 15 minutes are over publishes "failed" and leaves "pending",
  since the Update before the publish (`handlerUpload.go:290`) takes the context
  that is done. Such a job may even complete after the next start. For a moment
  the record is then not "the single source of truth" of `job.go:34-35`.
* `RealVideoKept` holds until a call fails. `validateAndEnqueue` takes a download
  that failed for an upload that is no video (`handlerUpload.go:266-268`), deletes
  it (244) and fails the job, against its comment ("when the bytes aren't a real
  video", 230-233). Neither a deadline nor a crash does that: the deletion takes
  the context that is done, and recovery validates the upload again.
* `EveryAcceptedJobEnds` is about jobs that are driven after the last fault, or
  that a start finds. A failed call, a validation out of time and a publish that
  panics in the complete call may each leave an accepted job with nobody to drive
  it, until the next start.
* `FinishedStreamsEnd` needs a record to read. The end of a job may be dropped at
  a full buffer, and when retention removes the record (`retention.go:84-107`, by
  the time since it was created) before the stream reads it again, all its reads
  fail and do nothing: it waits until its client leaves or the process ends, and
  `handleJobEvents.go:92-94` ("so a finished job never leaves the client hanging")
  has an exception. The same holds of a session that goes before it is accepted.
* `SizesTold` is exact of what was measured, and of MP4 outputs always. Of an HLS
  variant that was not, the free edge may be the even number next to the right
  one; `size_rounding` shows that it is not always the right one.
* `ActiveRecordKept` holds of clients that call within the hour, and one that
  is late breaks it (`reaper_race`).
* `FailsForAReason`: a source below the ladder whose short edge is odd gets a plan
  that the encoder refuses, so that "always renders at least one output"
  (`transcoder.go:102`) has an exception, and it has no other.
* `BurstKept` counts requests. An upload is two of them, so a burst is not the
  three uploads that `routes.go:21` may be read to promise.
* `ReapsOnTime` and `ShelfFair` leave a second: times sort as text without the
  zeros at their end, and within one second the order may be wrong.

`NoDeadLinks` holds because the uploads go by name, and "audio" and the rungs
come before "master.m3u8". "native", the directory of a source below the ladder,
comes after it: of such a source the promise is made once it is completed.

### Bounds

* Jobs share nothing but the channel, the workers and recovery's loop; no
  action reads two jobs' records. Two jobs and one place are what it takes for
  one to wait for the other; one job, with more of everything else, is enough
  for the rest.
* Two requests are what it takes for calls to overlap, two workers for a
  job to have two, two renditions to fail between uploads.
* Capacity 1 (of 100) makes the channel full; depth 1 (of 20) lets two
  sessions that were created early meet there.
* `MaxFaults` and `MaxRestarts` bound the search, not the code. Two faults are
  what it takes to fail and then fail to report it; two restarts to crash during
  recovery, one to crash during an upload. A SIGTERM and the exit after it are
  one restart.
* `Oldest` ends time after the last limit the code knows (or at once, in runs
  where retention is not the question).
* Two streams are what it takes to contend for a slot, a buffer of 2 (of 4) to
  hold an update and drop another.
* `EdgeSources` has every number of rungs, both orientations, a square, sources
  below the ladder with an even and an odd short edge, one that the two roundings
  take apart, and one of no duration. Reports at 5 and 9 seconds of 8 fall in
  different bands, the last past the end. A pipe of one line is full at once. Pages of
  5 keys and batches of 2 (of 1000 each in B2) make trees of 4 to 16 keys come
  to one and several of each, with and without a rest, and a batch run on over the
  end of a page.
* `Listing` has two times in one second, one on a second, and others a limit
  later; the limits are of one and two seconds. Three rows crowd a shelf of one
  that asks for two.
* `RateLimit` has bursts of 2 (of 3) and 2 ticks to a token, so that levels
  between tokens occur, and windows of up to 5 ticks.
* Deadlock is checked in all `Pipeline` runs: a process that serves can
  always at least tick its reapers, be stopped or be started. In the others the
  job or the process ends, and nothing is left to do: there it is not.

### Fairness

Weak fairness of each goroutine's next step: of main (recovery's loop
and the exit after a signal included), of each worker, validation and handler,
of each stream and of the publisher. The Go scheduler gives it, and every call
takes a context or returns. A started process that went down is started again
(`BootList` belongs to main). A worker's milestone (`WProgress`) is not a
step it is guaranteed to take. In `Shutdown` the 15-second timer of a waiting
stream fires, and so do the ten seconds of `Server.Run`. In `Delivery` ffmpeg
goes on while it can write, and its reports are finite as the times it reaches
are; `WorkerReturns` needs no timeout. Nothing is assumed of clients, players,
deadlines, timeouts, faults, signals, the clock, retention or the reapers.

## 4. What is proved

Everything below is for every set of jobs, requests, workers and renditions,
every size of the channel, and any number of faults, stops and crashes. Two
conditions on clients appear: `Prompt` (no overlapping and no late complete call
of a job) and `"slow" \notin Strays` (PUTs land while their URL is valid). The
failing runs show that the first is needed, and section 3 says why the second is.
Both are what the passing runs have, so no theorem has a hypothesis that no
instance satisfies.

### The relay (`Pipeline`)

* `TypeCorrect`: `Spec => []TypeOK`. What a worker publishes is its copy's status;
  that it is a terminal one needs the invariant `WorkersSound`, of what a worker
  holds at each step, so `TypeInv`, which is proved, is both together. One lemma
  per component.
* `SingleOwnerCorrect`: if complete calls of a job do not overlap
  (`"overlap" \notin Strays`; late calls and slow PUTs are admitted), a job is
  at most once in the channel, or with one validation, one worker or recovery.
  `SingleOwner` is not inductive: nothing in it says why `CompleteMark` meets
  no other owner. `Ownership` adds that (`Handover`): a request on its way to
  the mark is the only one and the job has no owner yet; an owned job is never
  "uploading"; and a process that is down, or recovering, has no goroutine that
  could. The argument then has three kinds of steps: those after which nobody
  owns what he did not before (`GentleStep`), those that hand a job to the next
  owner (`TakeOver`: spawn, enqueue, dequeue, requeue, resume) and the two that
  make a first owner (`MarkOwners`, and `BootList`, which finds the process
  empty). It is the claim of `handlerUpload.go:233-235`, with the condition
  it needs; `retry_race` shows the condition is needed.
* `AgreementCorrect` (`Prompt`): the record of a job is what its one owner takes
  it for: the copy a validation read, the copy a worker has held for an hour, the
  row recovery listed; and no reaper has an active job in its hands. Each
  conjunct ties the record to one goroutine, so a step keeps it in two parts: the
  goroutines it leaves alone still agree (`SameAgrees`, `Undisturbed`), and the
  one that writes is the only owner (`OnlyOwner`, from `Ownership`). It is why
  writing the whole record loses nothing: `CopiesAreCurrentCorrect`.
* From it, `RecordMoves` says what one step may do to a record, and the action
  properties follow: `TerminalFinalCorrect`, `ActiveRecordKeptCorrect`,
  `NoOtherWriterCorrect`, `SafeToRetryCorrect`; and so does the refinement,
  `ImplementsLifecycleCorrect`: every step of the pipeline is a step of
  `JobLifecycle` or a stutter. Without `Prompt`, `retry_race` breaks
  `SafeToRetry` and `reaper_race` breaks `ActiveRecordKept`.
* `RawSurvivesCorrect` and `CompletedIsWholeCorrect` (`Prompt`): the upload is in
  storage while a job waits for a worker or has one, and the renditions from the
  mark "completed" until retention. Their inductive form, `ObjectsKept`, is about
  the steps before those: what a worker has sent is in storage, and a validation
  that goes on has found a video. Slow PUTs are admitted: one that lands again
  changes no object a job counts on.
* `UploadsAndTreesGoneCorrect` (`Prompt`, no slow PUT). Its inductive form,
  `NothingLeft`: nothing is stored for a session that is not open, and nothing
  comes back behind a reaper between its deletions and that of the record.
* `AnnouncedEndsCorrect` (`Prompt`), with deadlines. The lemma `TellsTruth` says of
  each publish what the record is at that moment (`MayTell`: the end that is
  told, or "pending" under a validation that gives up), and `KeepsTruth` that it
  never becomes less than that. `Truthful` adds that nothing is told of a job that
  is not born.
* `RealVideoKeptCorrect` (`Prompt`, and clients that upload videos). Its invariant
  `VideosKept` is what is known before a call fails: the upload of a job that is
  being validated, or about to be marked so, is in storage (`SeenVideo`), and a
  validation that discards it is out of time, so that its deletion fails.

### One job in detail (`Delivery`)

* `ShapesKeptCorrect`: for a source of any width and height, each rung of its
  plan has the short edge it names, not above the source's, and a long edge
  within a pixel of the shape. The lemmas are about the two roundings:
  `NearestEven` is at most 1 from its quotient (`NearestEvenIsNear`), so is
  `roundEven` within 3/2 (`RoundEvenIsNear`), and the two are the same or
  neighbours (`RoundingsAgree`).
* `SizesToldCorrect`: the sizes in a record are those of the videos, and only of an
  HLS variant that was not measured may one edge be the even number next to the
  right one, for all sources, and through all faults, timeouts and crashes.
  `Honest` is its invariant: what the record, the worker's copy and the outputs in
  its hand say of sizes was measured or believed of this source.
* `TypesCorrect`, with two invariants that all the others use: `Typed`, and
  `Turns`, which says whose turn it is (a record and the worker's copy of it are
  "processing" while the worker is busy, retention comes when it has ended, an MP4
  job has no tree). `Moves` says which action changes which variable; a theorem
  looks only at those.
* `OnlyRefusedLeftCorrect`, for pages and batches of any size. The invariant `Swept`
  splits the bucket: a key is in retention's hands, or was refused, or comes after
  the continuation token with pages left. It needs that `FirstOf` takes the first
  (`FirstAreFirst`, by counting what comes before a key) and that the token is the
  last of them (`LastIsGreatest`, by well-founded induction on the naturals).
* `CompletedAsPlannedCorrect` and `NoDeadLinksCorrect`. The invariant `Stored`: until
  retention comes, what was sent is in the bucket, and with each file all that
  come before it by name, through crashes and second attempts. The master
  playlist comes after each directory it links to but "native"
  (`MasterComesLast`), so a player that has it has them.
* `OneBandLostCorrect` and `FailsForAReasonCorrect`, of jobs without faults: `Smooth`
  says that a milestone counts as stored when it is, and that a job fails by
  the encoder alone. `EncoderRefuses` shows for every width and height that it
  refuses only an odd short edge below the ladder: ffmpeg's "-2" is even
  and never 0 (`NearestEvenIsEven`).

### Streams and process

* `StreamTypesCorrect`, `OneListenerCorrect`, `TruthCorrect` and
  `NoEndMissedCorrect`, for any number of streams and any buffer, through publishes
  that panic and records that are removed. The second is inductive with the
  types; the third needs `EndWasWritten`, that an "end" in the publisher's hand or in
  a channel was in the record, or given up, before it was published. The fourth
  is why the handler subscribes before it reads (`handleJobEvents.go:30-33`); its
  invariant `Waiting` follows the end from the record to the channel: a stream that
  waits meanwhile has something to receive, or is whom the publisher will send to.
* `StreamsCorrect`: `Shutdown` with its exit implements `EventStream`, a step of
  main being a stutter. So the theorems above hold of a process that is
  shutting down too, with no second proof.
* `CleanExitCorrect`: when main returns, the crew has quit, no stream is open and
  the slot is free. The invariant `Quiet` adds that no request is left from
  the moment main joins its crew, and the lemmas say why none comes back; the
  slot is free by `OneListener`. A process that was forced out promises nothing,
  and that is the case of an open stream.

### Listings and limits

* `ReapsOnTimeCorrect`: comparing text is never wrong by a second, for any times:
  the part up to the second sorts as time does, whatever follows it
  (`TextIsNear`).
* `ShelfFairCorrect`, for any number of rows, any limit and oversampling: a video
  that is not on a shelf that is short was not listed, so all rows that were are
  as new as it, and there are as many as were asked for.
* `WithinBudgetCorrect`: the invariant `Budget` is the account of an address,
  passed requests and what is left in its bucket against a full bucket and the
  ticks, with the reason why there is one bucket only: the map's entry is set
  once, and a request holds the one of its address.
* `BurstKeptCorrect`: the other side of the account (`Spent`): a bucket that is not
  full has let requests through for what it lacks, refills or not. The count of
  requests needs a finite set of uploads.

The proofs use `ConstantsAssumption`, `StreamsAssumption`, `ListingAssumption`,
`LimitAssumption`, `TranscodingAssumption` and `DeliveryAssumption`, which TLC
evaluates in the passing runs, and nothing else.

Model-checked only: liveness (`EveryAcceptedJobEnds`, `FinishedStreamsEnd`,
`SignalEndsProcess`, `WorkerReturns`), since fairness is about ENABLED, which is
beyond the prover; and what `Suffix` makes of single fractions within a second,
which no theorem needs. That the failing runs fail is TLC's finding alone.

## 5. Not modelled

* Of the transcoder: frame rates, bitrates, bandwidth, codecs and the text of
  playlists. A variant has one segment, since the number of them changes no
  order. An MP4 of a source that is not 4:2:0 keeps its pixel format; `Encodable`
  is the rule of 4:2:0.
* A source whose metadata asks for a rotation. ffmpeg turns its frames before the
  filter, while the plan is made of the width and height that ffprobe tells of the
  stream; `ShapesKept` and `SizesTold` are about sources without one.
* The store in memory, which is for throwaway local runs. It keeps the pointers
  of its callers, so that a worker's assignments reach the stored record without
  its mutex: a hazard `PROJECT.json` lists.
* Local storage and temporary directories. What a process leaves on its disk is
  not read by the next one.
* The answer of a single status, routing, CORS, configuration, logging, health:
  reads of one record, or plumbing. The limiter of status calls is the code of
  the upload limiter with other numbers.

## 6. Plan

1. *(done)* `PipelineState`, `Upload`, `WorkerPool`, `Recovery`, `Retention`,
   `Pipeline`, `JobLifecycle`; types and ownership proved.
2. *(done)* `EventStream`, with its four theorems.
3. *(done)* `Shutdown`, with its two theorems.
4. *(done)* `Ladder`, `Transcoding`, `Delivery`: the plan, progress, the files,
   delivery and `DeletePrefix`; shapes and sizes proved.
5. *(done)* `Listing`, `RateLimit`; writes that fail after they
   took effect.
6. *(done)* Proofs of all invariants, action properties and refinements of the
   passing runs: `RecordProofs`, `ObjectProofs`, `StreamProofs`, `DeliveryProofs`,
   `ListingProofs`, `RateLimitProofs`.
7. `Delivery` as an implementation of what `Pipeline` takes a worker for: its
   steps mapped to "fetch", "encode" and "upload" of one job, as a run and a
   theorem.
