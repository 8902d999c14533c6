---------------------------- MODULE WorkerPool ----------------------------
(***************************************************************************)
(* The pool of workers (internal/worker/pool.go).  A worker takes an id    *)
(* from the channel, reads the record once, and from then on writes the    *)
(* copy it holds.  Its calls take main's context, so all of them fail once *)
(* the process is stopping.                                                *)
(***************************************************************************)
EXTENDS PipelineState

On(w, step) == worker[w].pc = step
To(w, step) == worker' = [worker EXCEPT ![w].pc = step]
Rest(w)     == worker' = [worker EXCEPT ![w] = IdleWorker]
Held(w, status) == [worker[w].row EXCEPT !.status = status]

-----------------------------------------------------------------------------
(* The channel's receive and the context's end are cases of one select:    *)
(* with both ready either may be taken.                                    *)

WDequeue(w) ==
  /\ On(w, "idle")
  /\ phase # "down"
  /\ queue # <<>>
  /\ worker' = [worker EXCEPT ![w].pc = "load", ![w].job = Head(queue)]
  /\ queue' = Tail(queue)
  /\ UNCHANGED <<records, objects, clients, told, uploading, main, reapers,
                 faults, restarts>>

WQuit(w) ==
  /\ On(w, "idle")
  /\ phase # "down" /\ stopping
  /\ To(w, "quit")
  /\ UNCHANGED <<records, objects, clients, told, uploading, main, reapers,
                 queue, faults, restarts>>

-----------------------------------------------------------------------------
(* processJob.  When the record cannot be read or written the id is        *)
(* dropped: nothing puts it back in the channel.                           *)

WLoad(w) ==
  /\ On(w, "load")
  /\ LET j == worker[w].job IN
     \/ StoreOK(j, stopping) /\ worker' = [worker EXCEPT ![w].pc = "mark", ![w].row = db[j]]
     \/ StoreErr(j, stopping) /\ Rest(w)
  /\ UNCHANGED <<records, objects, clients, told, uploading, main, reapers,
                 queue, restarts>>

\* Mutant: the mark is never saved.
WMarkUnsaved(w) ==
  /\ On(w, "mark")
  /\ worker' = [worker EXCEPT ![w].pc = "fetch", ![w].row = Held(w, "processing")]
  /\ UNCHANGED <<records, objects, clients, told, uploading, main, reapers,
                 queue, faults, restarts>>

WMark(w) ==
  /\ On(w, "mark")
  /\ LET j   == worker[w].job
         row == Held(w, "processing") IN
     \/ /\ StoreOK(j, stopping)
        /\ Write(j, row)
        /\ worker' = [worker EXCEPT ![w].pc = "fetch", ![w].row = row]
     \/ WriteErr(j, row, stopping) /\ Rest(w)
  /\ UNCHANGED <<kind, objects, clients, told, uploading, main, reapers,
                 queue, restarts>>

-----------------------------------------------------------------------------
(* runTranscode and runTranscodeHLS: download, ffmpeg, upload.  The job's  *)
(* own timeout, like any other error, ends in the one place that marks it  *)
(* failed; it is a fault here.                                             *)

\* Download and ffprobe: bytes that are no video end here.
WFetch(w) ==
  /\ On(w, "fetch")
  /\ LET j == worker[w].job IN
     \/ raw[j] \in {"video", "missized"} /\ Succeeds(stopping) /\ To(w, "encode")
     \/ raw[j] # "video" /\ Succeeds(stopping) /\ To(w, "fail")
     \/ Fails(stopping) /\ To(w, "fail")
  /\ UNCHANGED <<records, objects, clients, told, uploading, main, reapers,
                 queue, restarts>>

\* onProgress: a milestone writes the whole record again; an error is only
\* logged.
WProgress(w) ==
  /\ On(w, "encode")
  /\ StoreOK(worker[w].job, stopping)
  /\ Write(worker[w].job, worker[w].row)
  /\ UNCHANGED <<kind, objects, clients, told, uploading, main, reapers,
                 queue, worker, restarts>>

WEncode(w) ==
  /\ On(w, "encode")
  /\ \/ Succeeds(stopping) /\ To(w, "upload")
     \/ Fails(stopping) /\ To(w, "fail")
  /\ UNCHANGED <<records, objects, clients, told, uploading, main, reapers,
                 queue, restarts>>

\* The outputs reach the copy of the record only when all are uploaded.  A Put
\* that fails may have stored its object.
WPut(w, f) ==
  /\ On(w, "upload")
  /\ f \notin worker[w].sent
  /\ LET more == [out EXCEPT ![worker[w].job] = @ \cup {f}] IN
     \/ Succeeds(stopping) /\ out' = more /\ worker' = [worker EXCEPT ![w].sent = @ \cup {f}]
     \/ Fails(stopping) /\ out' \in {out, more} /\ To(w, "fail")
  /\ UNCHANGED <<records, raw, clients, told, uploading, main, reapers,
                 queue, restarts>>

-----------------------------------------------------------------------------
(* The two ends of processJob.  When the record cannot be written it stays *)
(* "processing" and nothing is published.                                  *)

\* Mutant: done at the first rendition.
AnySent(w) == worker[w].sent # {}

AllSent(w) == worker[w].sent = Renditions

WFinish(w) ==
  /\ On(w, "upload")
  /\ AllSent(w)
  /\ LET j   == worker[w].job
         row == [status |-> "completed", outs |-> Renditions] IN
     \/ /\ StoreOK(j, stopping)
        /\ Write(j, row)
        /\ worker' = [worker EXCEPT ![w].pc = "tell", ![w].row = row]
     \/ WriteErr(j, row, stopping) /\ Rest(w)
  /\ UNCHANGED <<kind, objects, clients, told, uploading, main, reapers,
                 queue, restarts>>

\* Mutant: what is published is the copy from before the failure.
WFailStale(w) ==
  /\ On(w, "fail")
  /\ StoreOK(worker[w].job, stopping)
  /\ Write(worker[w].job, Held(w, "failed"))
  /\ To(w, "tell")
  /\ UNCHANGED <<kind, objects, clients, told, uploading, main, reapers,
                 queue, restarts>>

WFail(w) ==
  /\ On(w, "fail")
  /\ LET j   == worker[w].job
         row == Held(w, "failed") IN
     \/ /\ StoreOK(j, stopping)
        /\ Write(j, row)
        /\ worker' = [worker EXCEPT ![w].pc = "tell", ![w].row = row]
     \/ WriteErr(j, row, stopping) /\ Rest(w)
  /\ UNCHANGED <<kind, objects, clients, told, uploading, main, reapers,
                 queue, restarts>>

WTell(w) ==
  /\ On(w, "tell")
  /\ Tell(worker[w].job, worker[w].row.status)
  /\ Rest(w)
  /\ UNCHANGED <<records, objects, clients, uploading, main, reapers, queue,
                 faults, restarts>>

-----------------------------------------------------------------------------
\* The steps a running worker gets to; a milestone is only a step on the way.
WorkerStep(w) ==
  \/ WDequeue(w) \/ WQuit(w) \/ WLoad(w) \/ WMark(w) \/ WFetch(w) \/ WEncode(w)
  \/ \E f \in Renditions : WPut(w, f)
  \/ WFinish(w) \/ WFail(w) \/ WTell(w)

WorkerPoolNext == \E w \in Workers : WorkerStep(w) \/ WProgress(w)

=============================================================================
