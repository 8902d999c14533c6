------------------------------ MODULE Delivery ------------------------------
(***************************************************************************)
(* What becomes of the outputs of a job: players and downloads that ask    *)
(* for them while they are being uploaded (handleHLS.go,                   *)
(* handleDownload.go), and retention that deletes them, with the pages and *)
(* batches of B2's DeletePrefix (internal/storage/b2.go).                  *)
(***************************************************************************)
EXTENDS Transcoding, FiniteSetsExt

CONSTANTS
  PageSize,   \* keys in a page of the bucket's listing
  BatchSize   \* keys in one call of DeleteObjects (1000)

ASSUME DeliveryAssumption == PageSize \in Nat \ {0} /\ BatchSize \in Nat \ {0}

VARIABLES
  player,    \* what a client has seen: nothing, a master playlist, a dead link
  sweeper,   \* retention's step; the keys it has listed and not yet batched;
             \* its batch; the last key listed; are there more pages?
  expired,   \* has retention ever come for the job?
  refused    \* keys that B2 answered it did not delete, and that are still there

transcoding == <<source, kind, record, worker, ffmpeg, bucket, faults, restarts>>
delivery    == <<player, sweeper, expired, refused>>
vars        == <<transcoding, delivery>>

IdleSweeper == [pc |-> "idle", todo |-> {}, batch |-> {}, token |-> 0, more |-> TRUE]

Init ==
  /\ TranscodingInit
  /\ player = "new"
  /\ sweeper = IdleSweeper
  /\ expired = FALSE
  /\ refused = {}

-----------------------------------------------------------------------------
(* Clients.  The record is looked up, and then the key, whatever the       *)
(* status of the job: the tree is served while it grows.                   *)

Found == record.status # "none"

Watch == UNCHANGED <<transcoding, sweeper, expired, refused>>

\* handleHLSFile, for the master playlist.
GetMaster ==
  /\ Found /\ kind = "hls"
  /\ player = "new" /\ Master \in bucket
  /\ player' = "master"
  /\ Watch

\* handleHLSFile, for a file that the player found by its links.
GetLinked ==
  /\ Found /\ player = "master"
  /\ \E d \in Links(source) : ~(InDir(d) \subseteq bucket)
  /\ player' = "dead"
  /\ Watch

\* handleDownload: only the outputs the record names.
GetRendition ==
  /\ Found /\ kind = "mp4"
  /\ \E o \in record.outs : Mp4(o.name) \notin bucket
  /\ player' = "dead"
  /\ Watch

-----------------------------------------------------------------------------
(* Retention of a job that is old and finished: deleteJobFiles and the     *)
(* record.  A call that fails leaves the rest to the next sweep.           *)

At(step)  == sweeper.pc = step
GiveUp    == sweeper' = IdleSweeper
Retention == UNCHANGED <<source, kind, worker, ffmpeg, restarts, player>>

SweepBegin ==
  /\ At("idle")
  /\ record.status \in {"completed", "failed"}
  /\ expired' = TRUE
  /\ sweeper' =
       IF kind = "hls" \/ record.master
         THEN [IdleSweeper EXCEPT !.pc = "list"]
         ELSE [IdleSweeper EXCEPT !.pc = "files",
                 !.todo = {Mp4(o.name) : o \in record.outs}]
  /\ UNCHANGED <<transcoding, player, refused>>

\* MP4: one Delete for each output.
DeleteRendition ==
  /\ At("files") /\ sweeper.todo # {}
  /\ LET next == FirstOf(kind, sweeper.todo, 1) IN
     \/ /\ Succeeds(FALSE)
        /\ bucket' = bucket \ next
        /\ sweeper' = [sweeper EXCEPT !.todo = @ \ next]
     \/ Fails(FALSE) /\ bucket' \in {bucket, bucket \ next} /\ GiveUp
  /\ Retention /\ UNCHANGED <<record, expired, refused>>

\* HLS: DeletePrefix.  A page is the next keys by name after the last one.
After(token) == {k \in bucket : Place(kind, k) > token}
Last(keys)   == Max({Place(kind, k) : k \in keys})

Full == Cardinality(sweeper.batch) = BatchSize

NextPage ==
  /\ At("list") /\ sweeper.more /\ sweeper.todo = {} /\ ~Full
  /\ \/ /\ Succeeds(FALSE)
        /\ LET keys == After(sweeper.token)
               page == FirstOf(kind, keys, PageSize) IN
           sweeper' = [sweeper EXCEPT
             !.todo  = page,
             !.more  = page # keys,
             !.token = IF page = {} THEN @ ELSE Last(page)]
     \/ Fails(FALSE) /\ GiveUp
  /\ Retention /\ UNCHANGED <<record, bucket, expired, refused>>

\* Mutant: the length of the batch is looked at after each page, not each key.
CollectPage ==
  /\ At("list") /\ sweeper.todo # {} /\ ~Full
  /\ sweeper' = [sweeper EXCEPT !.todo = {}, !.batch = @ \cup sweeper.todo]
  /\ Retention /\ UNCHANGED <<record, bucket, faults, expired, refused>>

\* The loop over a page, as far as a batch goes.
Collect ==
  /\ At("list") /\ sweeper.todo # {} /\ ~Full
  /\ LET some == FirstOf(kind, sweeper.todo, BatchSize - Cardinality(sweeper.batch)) IN
     sweeper' = [sweeper EXCEPT !.todo = @ \ some, !.batch = @ \cup some]
  /\ Retention /\ UNCHANGED <<record, bucket, faults, expired, refused>>

Listed == ~sweeper.more /\ sweeper.todo = {}

\* Mutant: the last keys, short of a batch, are not flushed.
FlushFull == Full

FlushNow == Full \/ (Listed /\ sweeper.batch # {})

\* DeleteObjects answers without an error even when it refused some keys:
\* their errors are in its output, and nobody looks there.  A call that fails
\* may have deleted any of them.
Flush ==
  /\ At("list") /\ FlushNow
  /\ \/ /\ Succeeds(FALSE)
        /\ bucket' = bucket \ sweeper.batch
        /\ sweeper' = [sweeper EXCEPT !.batch = {}]
        /\ refused' = refused \ sweeper.batch
     \/ /\ Fault
        /\ \E kept \in (SUBSET sweeper.batch) \ {{}} :
             /\ bucket' = bucket \ (sweeper.batch \ kept)
             /\ refused' = (refused \ sweeper.batch) \cup kept
        /\ sweeper' = [sweeper EXCEPT !.batch = {}]
     \/ /\ Fails(FALSE)
        /\ \E some \in SUBSET sweeper.batch :
             bucket' = bucket \ some /\ refused' = refused \ some
        /\ GiveUp
  /\ Retention /\ UNCHANGED <<record, expired>>

SweepRecord ==
  /\ \/ At("files") /\ sweeper.todo = {}
     \/ At("list") /\ Listed /\ ~FlushNow
  /\ LET none == [NewRecord EXCEPT !.status = "none"] IN
     (Succeeds(FALSE) /\ record' = none) \/ StoreFails(none, FALSE)
  /\ GiveUp
  /\ Retention /\ UNCHANGED <<bucket, expired, refused>>

-----------------------------------------------------------------------------
Crash ==
  /\ CrashAndRecover
  /\ GiveUp
  /\ UNCHANGED <<player, expired, refused>>

Players == GetMaster \/ GetLinked \/ GetRendition
Sweep   == SweepBegin \/ DeleteRendition \/ NextPage \/ Collect \/ Flush \/ SweepRecord

Next ==
  \/ TranscodingNext /\ UNCHANGED delivery
  \/ Players
  \/ Sweep
  \/ Crash

Spec == Init /\ [][Next]_vars

\* The worker runs, and ffmpeg does while it can write.  Nothing is assumed
\* of players, retention or the job's timeout.
FairSpec ==
  /\ Spec
  /\ WF_vars(WorkerStep /\ UNCHANGED delivery)
  /\ WF_vars(FFmpegStep /\ UNCHANGED delivery)

-----------------------------------------------------------------------------
Described == [name : {"1080p", "720p", "480p", "360p", "source", "native"},
              width : Nat, height : Nat]

IsRecord(r) ==
  /\ r.status \in {"none", "pending", "processing", "completed", "failed"}
  /\ r.progress \in 0..100
  /\ \A o \in r.outs : o \in Described
  /\ r.master \in BOOLEAN

TypeOK ==
  /\ IsRecord(record) /\ IsRecord(worker.copy)
  /\ \A o \in worker.outs : o \in Described
  /\ worker.sent \subseteq Files
  /\ ffmpeg.pc \in {"off", "run", "ok", "bad"}
  /\ Len(ffmpeg.pipe) <= PipeSize
  /\ bucket \subseteq Files /\ refused \subseteq bucket
  /\ Cardinality(sweeper.batch) <= BatchSize
  /\ sweeper.todo \cup sweeper.batch \subseteq Files

\* A completed job is in storage as a whole, and its record names exactly
\* what the plan asked for, until retention comes (pool.go:171-172).
CompletedAsPlanned ==
  record.status = "completed" /\ ~expired =>
    /\ Files \subseteq bucket
    /\ {o.name : o \in record.outs} = IF kind = "hls" THEN VariantDirs(source) ELSE Names(source)
    /\ record.master = (kind = "hls")

\* A player that was given the master playlist finds everything it links to,
\* and a download every rendition of its record, while the job runs, after it
\* failed or crashed, and until retention comes.  It is so because "master"
\* comes after "audio" and the rungs by name (pool.go:362, handleHLS.go:32-33);
\* "native" comes after it, so a source below the ladder must be complete.
NoDeadLinks ==
  [][player # "dead" /\ player' = "dead" =>
       expired \/ ("native" \in Dirs(source) /\ record.status # "completed")]_vars

\* When the record of an HLS job is gone, so is its tree, through pages,
\* batches and failures (retention.go:92-96, storage.go:42-44); all that can
\* be left is what B2 refused in an answer nobody reads (b2.go:99).
OnlyRefusedLeft ==
  kind = "hls" /\ ~Found => bucket \subseteq refused

\* "A crash loses at most one band of progress" (pool.go:270-274): what is
\* stored and what was shown are in one band, unless the write failed.
OneBandLost ==
  Busy /\ faults = 0
    => record.progress \div 10 = worker.copy.progress \div 10

\* The ladder "works correctly for both orientations without ever distorting
\* the image" and "never upscales" (transcoder.go:16-19, 102), to the pixel
\* that rounding costs.
ShapesKept ==
  \A r \in planRenditions(source, DefaultLadder) : ShapeKept(source, r)

\* The size of a variant that cannot be measured comes of "the same even rounding
\* ffmpeg's "-2" scale does" (hls.go:336-339): it is that of the video.
SameRounding ==
  \A o \in record.outs : \E r \in planRenditions(source, DefaultLadder) :
    /\ o.name \in {r.name, hlsDir(r.name)}
    /\ SameSize(o, scaleFilter(source, r.short))

\* It is not, but how far off can it be?  An MP4 rendition has the size that was
\* recorded.  Of an HLS variant the pinned edge is right, and the other one is
\* right or the next even number.
SizesTold ==
  \A o \in record.outs : \E r \in planRenditions(source, DefaultLadder) :
    /\ o.name \in {r.name, hlsDir(r.name)}
    /\ Near(o, scaleFilter(source, r.short))
    /\ kind = "mp4" => SameSize(o, scaleFilter(source, r.short))

\* planRenditions "always renders at least one output" (transcoder.go:102): a
\* job whose calls all succeed does not fail, unless its source is below the
\* ladder and its short edge odd, which the encoder refuses.
FailsForAReason ==
  record.status = "failed" /\ faults = 0 =>
    ShortEdge(source) < 360 /\ ShortEdge(source) % 2 = 1

\* A worker comes back to the pool from every job, whatever fails, and
\* without the help of the job's timeout (pool.go:63-67, transcoder.go:189-192).
WorkerReturns == Busy ~> ~Busy

=============================================================================
