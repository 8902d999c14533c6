---------------------------- MODULE Transcoding ----------------------------
(***************************************************************************)
(* One job in the hands of a worker, in detail: runTranscode and           *)
(* runTranscodeHLS (internal/worker/pool.go) and the ffmpeg they run       *)
(* (internal/transcoder).  Pipeline has this as "fetch", "encode" and      *)
(* "upload", and has the jobs, workers and writers that are not here.      *)
(*                                                                         *)
(* ffmpeg is a process of its own.  It writes the time it has reached into *)
(* a pipe, and blocks while that is full.                                  *)
(***************************************************************************)
EXTENDS Ladder

CONSTANTS
  Sources,      \* the shapes of uploads: [width, height, audio, duration]
  JobKinds,     \* a part of {"mp4", "hls"}
  ReportTimes,  \* the times ffmpeg reports to have reached, in seconds
  PipeSize,     \* lines that fit in the pipe
  MaxFaults,    \* bound: calls that fail, and jobs that run out of time
  MaxRestarts   \* bound: crashes

ASSUME TranscodingAssumption ==
  /\ \A src \in Sources :
       /\ src.width \in Nat \ {0} /\ src.height \in Nat \ {0}
       /\ src.audio \in BOOLEAN /\ src.duration \in Nat
  /\ JobKinds \subseteq {"mp4", "hls"}
  /\ ReportTimes \subseteq Nat
  /\ PipeSize \in Nat \ {0}
  /\ MaxFaults \in Nat /\ MaxRestarts \in Nat

VARIABLES
  source,   \* the upload
  kind,     \* what its client asked for
  record,   \* the record: status, progress, outputs, is there a master key?
  worker,   \* its step; its copy of the record; the last progress stored; is
            \* the job out of time? the outputs found; the files uploaded
  ffmpeg,   \* the process: how it is, the time it reached, the pipe
  bucket,   \* the keys under processed/<id>/
  faults, restarts

NewRecord == [status |-> "pending", progress |-> 0, outs |-> {}, master |-> FALSE]
Queued  == [pc |-> "queued", copy |-> NewRecord, last |-> 0, late |-> FALSE,
            outs |-> {}, sent |-> {}]
NoFFmpeg == [pc |-> "off", at |-> 0, pipe |-> <<>>]

TranscodingInit ==
  /\ source \in Sources
  /\ kind \in JobKinds
  /\ record = NewRecord
  /\ worker = Queued
  /\ ffmpeg = NoFFmpeg
  /\ bucket = {}
  /\ faults = 0
  /\ restarts = 0

upload == <<source, kind>>

Busy == worker.pc \notin {"queued", "idle"}
On(step) == worker.pc = step
To(step) == worker' = [worker EXCEPT !.pc = step]
Rest     == worker' = [Queued EXCEPT !.pc = "idle"]

Succeeds(done) == ~done /\ UNCHANGED faults
Fault          == faults < MaxFaults /\ faults' = faults + 1
Fails(done)    == (done /\ UNCHANGED faults) \/ (~done /\ Fault)

\* A write of the record that returns an error may have been stored, unless
\* its context was done before it.
StoreFails(row, done) ==
  Fails(done) /\ record' \in IF done THEN {record} ELSE {record, row}

-----------------------------------------------------------------------------
(* processJob until the transcode.  An id whose record cannot be read or   *)
(* marked is dropped.                                                      *)

Begin ==
  /\ On("queued")
  /\ LET marked == [record EXCEPT !.status = "processing", !.progress = 0] IN
     \/ /\ Succeeds(FALSE) /\ record' = marked
        /\ worker' = [worker EXCEPT !.pc = "fetch", !.copy = marked]
     \/ StoreFails(marked, FALSE) /\ Rest
  /\ UNCHANGED <<upload, ffmpeg, bucket, restarts>>

\* The context of the job is done: every call from here on but the last
\* Update fails, and ffmpeg is killed.
JobTimeout ==
  /\ Busy /\ ~worker.late
  /\ Fault
  /\ worker' = [worker EXCEPT !.late = TRUE]
  /\ UNCHANGED <<upload, record, ffmpeg, bucket, restarts>>

\* The raw object is downloaded and probed, and ffmpeg started.
Fetch ==
  /\ On("fetch")
  /\ \/ /\ Succeeds(worker.late)
        /\ ffmpeg' = [NoFFmpeg EXCEPT !.pc = "run"]
        /\ To("read")
     \/ Fails(worker.late) /\ UNCHANGED ffmpeg /\ To("fail")
  /\ UNCHANGED <<upload, record, bucket, restarts>>

-----------------------------------------------------------------------------
(* ffmpeg.                                                                 *)

Room == Len(ffmpeg.pipe) < PipeSize

Report ==
  /\ ffmpeg.pc = "run" /\ Room
  /\ \E t \in ReportTimes :
       /\ t > ffmpeg.at
       /\ ffmpeg' = [ffmpeg EXCEPT !.at = t, !.pipe = Append(@, t)]
  /\ UNCHANGED <<upload, record, worker, bucket, faults, restarts>>

\* It exits when all renditions are written, after a last line; and with an
\* error when the encoder refuses a size, or when it is killed.
Exit ==
  /\ ffmpeg.pc = "run"
  /\ \/ Renders(source) /\ Room /\ ffmpeg' = [ffmpeg EXCEPT !.pc = "ok"] /\ UNCHANGED faults
     \/ ~Renders(source) /\ ffmpeg' = [ffmpeg EXCEPT !.pc = "bad"] /\ UNCHANGED faults
     \/ Fails(worker.late) /\ ffmpeg' = [ffmpeg EXCEPT !.pc = "bad"]
  /\ UNCHANGED <<upload, record, worker, bucket, restarts>>

-----------------------------------------------------------------------------
(* onProgress: what the worker makes of a line.                            *)

\* ffmpeg may report a time beyond the duration that ffprobe gave.  Both the
\* transcoder and the worker cut what comes of it.
Clamped(percent) == IF percent > 100 THEN 100 ELSE percent
Percent(t) == Clamped((100 * t) \div source.duration)

\* Mutant: a milestone is a round number.
RoundPercent(percent) == percent % 10 = 0

Milestone(percent) == percent = 100 \/ percent \div 10 # worker.last \div 10

\* The milestone counts as stored before it is, and whether it is or not.
onProgress(reported, step) ==
  LET percent == Clamped(reported)
      copy    == [worker.copy EXCEPT !.progress = percent] IN
  IF Milestone(percent)
    THEN /\ worker' = [worker EXCEPT !.pc = step, !.copy = copy, !.last = percent]
         /\ \/ Succeeds(worker.late) /\ record' = copy
            \/ StoreFails(copy, worker.late)
    ELSE /\ worker' = [worker EXCEPT !.pc = step, !.copy = copy]
         /\ UNCHANGED <<record, faults>>

\* One line of the loop over the scanner.
ReadLine ==
  /\ On("read")
  /\ ffmpeg.pipe # <<>>
  /\ ffmpeg' = [ffmpeg EXCEPT !.pipe = Tail(@)]
  /\ \/ source.duration > 0 /\ onProgress(Percent(Head(ffmpeg.pipe)), "read")
     \/ source.duration = 0 /\ UNCHANGED <<record, worker, faults>>
  /\ UNCHANGED <<upload, bucket, restarts>>

\* Mutant: the worker waits for ffmpeg first.
WaitUndrained == TRUE

\* The pipe is at its end when ffmpeg has gone and all of it was read.
Drained == ffmpeg.pipe = <<>> /\ ffmpeg.pc # "run"

EndOfOutput ==
  /\ On("read")
  /\ Drained
  /\ To("wait")
  /\ UNCHANGED <<upload, record, ffmpeg, bucket, faults, restarts>>

Wait ==
  /\ On("wait")
  /\ \/ ffmpeg.pc = "ok" /\ onProgress(100, "measure")
     \/ ffmpeg.pc = "bad" /\ To("fail") /\ UNCHANGED <<record, faults>>
  /\ UNCHANGED <<upload, ffmpeg, bucket, restarts>>

-----------------------------------------------------------------------------
(* The outputs.                                                            *)

Output(name, size) == [name |-> name, width |-> size.width, height |-> size.height]

\* What is recorded of the renditions: what ffprobe says of each, and what is
\* believed of a variant whose init.mp4 it could not read.
Outputs(unread) ==
  { Output(IF kind = "hls" THEN hlsDir(r.name) ELSE r.name,
           IF r \in unread THEN actualDimensions(source, r.short)
                           ELSE scaleFilter(source, r.short)) :
      r \in planRenditions(source, DefaultLadder) }

\* An error of ffprobe fails an MP4 job, and an HLS job never; what fails that
\* is the local files, which may not be read or written.
Measure ==
  /\ On("measure")
  /\ \/ /\ Succeeds(worker.late)
        /\ worker' = [worker EXCEPT !.pc = "put", !.outs = Outputs({})]
     \/ /\ kind = "hls" /\ UNCHANGED faults
        /\ \E unread \in SUBSET planRenditions(source, DefaultLadder) :
             worker' = [worker EXCEPT !.pc = "put", !.outs = Outputs(unread)]
     \/ (Fault \/ (kind = "mp4" /\ Fails(worker.late))) /\ To("fail")
  /\ UNCHANGED <<upload, record, ffmpeg, bucket, restarts>>

Files == FilesOf(kind, source)

\* Mutant: done with one file to go.
AlmostSent == Cardinality(Files \ worker.sent) <= 1

AllSent == worker.sent = Files

\* The next file; a Put that fails may have stored its object.
Put ==
  /\ On("put")
  /\ \E key \in FirstOf(kind, Files \ worker.sent, 1) :
     \/ /\ Succeeds(worker.late)
        /\ bucket' = bucket \cup {key}
        /\ worker' = [worker EXCEPT !.sent = @ \cup {key}]
     \/ Fails(worker.late) /\ bucket' \in {bucket, bucket \cup {key}} /\ To("fail")
  /\ UNCHANGED <<upload, record, ffmpeg, restarts>>

\* The two ends of processJob, under the context of the process.  When the
\* record is not written it stays "processing".
End(copy) ==
  /\ (Succeeds(FALSE) /\ record' = copy) \/ StoreFails(copy, FALSE)
  /\ Rest
  /\ UNCHANGED <<upload, ffmpeg, bucket, restarts>>

Finish ==
  /\ On("put") /\ AllSent
  /\ End([status |-> "completed", progress |-> 100, outs |-> worker.outs,
          master |-> kind = "hls"])

Fail == On("fail") /\ End([worker.copy EXCEPT !.status = "failed"])

-----------------------------------------------------------------------------
\* The process dies, the next one finds the job and queues it again
\* (recover.go); files outside the bucket are lost.
CrashAndRecover ==
  /\ restarts < MaxRestarts
  /\ restarts' = restarts + 1
  /\ ffmpeg' = NoFFmpeg
  /\ IF record.status \in {"pending", "processing"}
       THEN record' = [record EXCEPT !.status = "pending"] /\ worker' = Queued
       ELSE Rest /\ UNCHANGED record
  /\ UNCHANGED <<upload, bucket, faults>>

\* What a worker does of itself.
WorkerStep ==
  Begin \/ Fetch \/ ReadLine \/ EndOfOutput \/ Wait \/ Measure \/ Put \/ Finish \/ Fail

FFmpegStep == Report \/ Exit

TranscodingNext == WorkerStep \/ FFmpegStep \/ JobTimeout

=============================================================================
