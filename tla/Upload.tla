------------------------------ MODULE Upload ------------------------------
(***************************************************************************)
(* Direct uploads (internal/httpserver/handlerUpload.go): the create call, *)
(* the client's PUT, the complete call and validateAndEnqueue, the         *)
(* goroutine that a complete call leaves behind.                           *)
(***************************************************************************)
EXTENDS PipelineState

\* Run returns from Shutdown's listener as soon as ctx is done: no request
\* starts after that, those in flight go on.
Accepting == phase = "serving" /\ ~stopping

-----------------------------------------------------------------------------
(* POST /videos.  A request that is refused, or whose Create fails, leaves *)
(* nothing behind and is no action.                                        *)

CreateUpload(j, k) ==
  /\ Accepting
  /\ age[j] = Unborn
  /\ Len(queue) < MaxDepth
  /\ Write(j, [status |-> "uploading", outs |-> {}])
  /\ kind' = [kind EXCEPT ![j] = k]
  /\ age' = [age EXCEPT ![j] = Fresh]
  /\ session' = [session EXCEPT ![j] = "presign"]
  /\ UNCHANGED <<objects, told, uploading, main, reapers, queue, worker,
                 faults, restarts>>

PresignPut(j) ==
  /\ session[j] = "presign"
  /\ session' = [session EXCEPT ![j] = "open"]
  /\ UNCHANGED <<records, objects, age, told, uploading, main, reapers, queue,
                 worker, faults, restarts>>

\* Without a URL the record is rolled back; when the client has gone the
\* Delete fails with the PresignPut and the record is left to the reaper.
PresignError(j) ==
  /\ session[j] = "presign"
  /\ Fails(FALSE)
  /\ session' = [session EXCEPT ![j] = "lost"]
  /\ Write(j, Absent) \/ UNCHANGED db
  /\ UNCHANGED <<kind, objects, age, told, uploading, main, reapers, queue,
                 worker, restarts>>

-----------------------------------------------------------------------------
(* The client and the clock.                                               *)

\* The URL admits PUTs while it is fresh.  A slow one that began in time
\* may land at any later moment, whether the server is up or not.
ClientPut(j, bytes) ==
  /\ session[j] = "open"
  /\ age[j] = Fresh \/ "slow" \in Strays
  /\ raw' = [raw EXCEPT ![j] = bytes]
  /\ UNCHANGED <<records, out, clients, told, uploading, main, reapers, queue,
                 worker, faults, restarts>>

\* A client is prompt when it calls complete before the session is stale; a
\* request lasts far less than the 45 minutes that are then left to it.
Grow(j) ==
  /\ age[j] \in Fresh .. (Oldest - 1)
  /\ session[j] # "presign"
  /\ \/ age[j] + 1 # Stale
     \/ "late" \in Strays
     \/ \A r \in Requests : handler[j][r] = "idle"
  /\ age' = [age EXCEPT ![j] = @ + 1]
  /\ UNCHANGED <<records, objects, session, told, uploading, main, reapers,
                 queue, worker, faults, restarts>>

-----------------------------------------------------------------------------
(* POST /videos/{id}/complete.  The record is read, the object is HEADed   *)
(* and the record is written in three steps; the answers that change       *)
(* nothing (404, the current job, 500) are no actions.                     *)

GoTo(j, r, step) == handler' = [handler EXCEPT ![j][r] = step]

\* Mutant: without the early return, a retry goes through again.
MayCompleteAgain(j, r) ==
  /\ Accepting
  /\ session[j] = "open"
  /\ handler[j][r] = "idle"
  /\ db[j].status # "none"

\* The status found must be "uploading": past it the call is a retry.
MayComplete(j, r) ==
  /\ Accepting
  /\ session[j] = "open"
  /\ handler[j][r] = "idle"
  /\ db[j].status = "uploading"

\* What the client promises: one call at a time, and before the URL is stale.
Promised(j) ==
  /\ "overlap" \in Strays \/ \A r \in Requests : handler[j][r] = "idle"
  /\ "late" \in Strays \/ age[j] < Stale

CompleteLoad(j, r) ==
  /\ MayComplete(j, r)
  /\ Promised(j)
  /\ GoTo(j, r, "stat")
  /\ UNCHANGED <<records, objects, clients, told, validator, main, reapers,
                 queue, worker, faults, restarts>>

CompleteStat(j, r) ==
  /\ handler[j][r] = "stat"
  /\ \/ raw[j] \in {"junk", "video"} /\ Succeeds(FALSE) /\ GoTo(j, r, "mark")
     \/ raw[j] \in {"none", "missized"} /\ Succeeds(FALSE) /\ GoTo(j, r, "idle")
     \/ Fails(FALSE) /\ GoTo(j, r, "idle")
  /\ UNCHANGED <<records, objects, clients, told, validator, main, reapers,
                 queue, worker, restarts>>

\* The record written is the one read, which had no outputs yet.
CompleteMark(j, r) ==
  /\ handler[j][r] = "mark"
  /\ LET row == [status |-> "validating", outs |-> {}] IN
     \/ StoreOK(j, FALSE) /\ Write(j, row) /\ GoTo(j, r, "spawn")
     \/ WriteErr(j, row, FALSE) /\ GoTo(j, r, "idle")
  /\ UNCHANGED <<kind, objects, clients, told, validator, main, reapers,
                 queue, worker, restarts>>

\* The publish of "validating", and the goroutine that validates.
CompleteSpawn(j, r) ==
  /\ handler[j][r] = "spawn"
  /\ GoTo(j, r, "idle")
  /\ validator' = [validator EXCEPT ![j][r] = [IdleValidator EXCEPT !.pc = "probe"]]
  /\ UNCHANGED <<records, objects, clients, told, main, reapers, queue, worker,
                 faults, restarts>>

\* That publish panics when the listener of the job leaves in the middle of it
\* (EventStream).  net/http recovers the panic of a handler: the process goes
\* on, and the validation is never started.
CompletePanic(j, r) ==
  /\ handler[j][r] = "spawn"
  /\ GoTo(j, r, "idle")
  /\ UNCHANGED <<records, objects, clients, told, validator, main, reapers,
                 queue, worker, faults, restarts>>

-----------------------------------------------------------------------------
(* validateAndEnqueue(j), started by a request or by recovery.  Its        *)
(* context is its own: it outlives the request and main's, but is done     *)
(* after 15 minutes.                                                       *)

Late(j, o) == validator[j][o].late
At(j, o, step) == validator[j][o].pc = step
Step(j, o, step) == validator' = [validator EXCEPT ![j][o].pc = step]
Read(j, o, step) ==
  validator' = [validator EXCEPT ![j][o].pc = step, ![j][o].row = db[j]]
Return(j, o) == validator' = [validator EXCEPT ![j][o] = IdleValidator]

Deadline(j, o) ==
  /\ Deadlines
  /\ ~At(j, o, "idle") /\ ~Late(j, o)
  /\ validator' = [validator EXCEPT ![j][o].late = TRUE]
  /\ UNCHANGED <<records, objects, clients, told, handler, main, reapers,
                 queue, worker, faults, restarts>>

\* validateVideo: download and ffprobe.  Whatever goes wrong in it is taken
\* for an upload that is no video.
Probe(j, o) ==
  /\ At(j, o, "probe")
  /\ \/ raw[j] \in {"video", "missized"} /\ Succeeds(Late(j, o)) /\ Step(j, o, "load")
     \/ raw[j] \in {"none", "junk", "missized"} /\ Succeeds(Late(j, o)) /\ Step(j, o, "discard")
     \/ Fails(Late(j, o)) /\ Step(j, o, "discard")
  /\ UNCHANGED <<records, objects, clients, told, handler, main, reapers,
                 queue, worker, restarts>>

Load(j, o) ==
  /\ At(j, o, "load")
  /\ \/ StoreOK(j, Late(j, o)) /\ Read(j, o, "pend")
     \/ StoreErr(j, Late(j, o)) /\ Return(j, o)
  /\ UNCHANGED <<records, objects, clients, told, handler, main, reapers,
                 queue, worker, restarts>>

MarkPending(j, o) ==
  /\ At(j, o, "pend")
  /\ LET row == [validator[j][o].row EXCEPT !.status = "pending"] IN
     \/ StoreOK(j, Late(j, o)) /\ Write(j, row) /\ Step(j, o, "enqueue")
     \/ WriteErr(j, row, Late(j, o)) /\ Return(j, o)
  /\ UNCHANGED <<kind, objects, clients, told, handler, main, reapers, queue,
                 worker, restarts>>

Enqueue(j, o) ==
  /\ At(j, o, "enqueue")
  /\ Send(j)
  /\ Return(j, o)
  /\ UNCHANGED <<records, objects, clients, told, handler, main, reapers,
                 worker, faults, restarts>>

\* Enqueue returns an error only when the context is done.  The Update to
\* "failed" and the Delete of the object that follow take that same context,
\* so both return its error at once and only the publish takes effect.
GiveUp(j, o) ==
  /\ At(j, o, "enqueue")
  /\ Late(j, o)
  /\ Tell(j, "failed")
  /\ Return(j, o)
  /\ UNCHANGED <<records, objects, clients, handler, main, reapers, queue,
                 worker, faults, restarts>>

\* Mutant: the deletion does not take the context of the validation.
DiscardDetached(j, o) ==
  /\ At(j, o, "discard")
  /\ raw' = [raw EXCEPT ![j] = "none"]
  /\ Step(j, o, "reload")
  /\ UNCHANGED <<records, out, clients, told, handler, main, reapers, queue,
                 worker, faults, restarts>>

\* fail(): delete the object (an error is only logged), read the record,
\* mark it failed, publish.
Discard(j, o) ==
  /\ At(j, o, "discard")
  /\ \/ Succeeds(Late(j, o)) /\ raw' = [raw EXCEPT ![j] = "none"]
     \/ Fails(Late(j, o)) /\ UNCHANGED raw
  /\ Step(j, o, "reload")
  /\ UNCHANGED <<records, out, clients, told, handler, main, reapers, queue,
                 worker, restarts>>

Reload(j, o) ==
  /\ At(j, o, "reload")
  /\ \/ StoreOK(j, Late(j, o)) /\ Read(j, o, "failmark")
     \/ StoreErr(j, Late(j, o)) /\ Return(j, o)
  /\ UNCHANGED <<records, objects, clients, told, handler, main, reapers,
                 queue, worker, restarts>>

\* Mutant: the error of the Update is logged, and no more.
MarkRejectedOrNot(j, o) ==
  /\ At(j, o, "failmark")
  /\ LET row == [validator[j][o].row EXCEPT !.status = "failed"] IN
     \/ StoreOK(j, Late(j, o)) /\ Write(j, row)
     \/ WriteErr(j, row, Late(j, o))
  /\ Step(j, o, "failtell")
  /\ UNCHANGED <<kind, objects, clients, told, handler, main, reapers, queue,
                 worker, restarts>>

MarkRejected(j, o) ==
  /\ At(j, o, "failmark")
  /\ LET row == [validator[j][o].row EXCEPT !.status = "failed"] IN
     \/ StoreOK(j, Late(j, o)) /\ Write(j, row) /\ Step(j, o, "failtell")
     \/ WriteErr(j, row, Late(j, o)) /\ Return(j, o)
  /\ UNCHANGED <<kind, objects, clients, told, handler, main, reapers, queue,
                 worker, restarts>>

TellRejected(j, o) ==
  /\ At(j, o, "failtell")
  /\ Tell(j, "failed")
  /\ Return(j, o)
  /\ UNCHANGED <<records, objects, clients, handler, main, reapers, queue,
                 worker, faults, restarts>>

-----------------------------------------------------------------------------
HandlerStep(j, r) ==
  \/ CompleteStat(j, r) \/ CompleteMark(j, r)
  \/ CompleteSpawn(j, r) \/ CompletePanic(j, r)

ValidatorStep(j, o) ==
  \/ Probe(j, o) \/ Load(j, o) \/ MarkPending(j, o)
  \/ Enqueue(j, o) \/ GiveUp(j, o)
  \/ Discard(j, o) \/ Reload(j, o) \/ MarkRejected(j, o) \/ TellRejected(j, o)

UploadNext ==
  \E j \in Jobs :
    \/ \E k \in Kinds : CreateUpload(j, k)
    \/ PresignPut(j) \/ PresignError(j)
    \/ \E bytes \in Uploads : ClientPut(j, bytes)
    \/ Grow(j)
    \/ \E r \in Requests : CompleteLoad(j, r) \/ HandlerStep(j, r)
    \/ \E o \in Starters : Deadline(j, o) \/ ValidatorStep(j, o)

=============================================================================
