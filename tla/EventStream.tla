---------------------------- MODULE EventStream ----------------------------
(***************************************************************************)
(* Live progress of one job: the broker (internal/events/event.go) and the *)
(* streams of the clients that follow the job                              *)
(* (internal/httpserver/handleJobEvents.go).  The broker has one slot for  *)
(* each job, so jobs do not meet.  The job itself is reduced to what a     *)
(* stream tells apart; its one owner (SingleOwner of Pipeline) publishes.  *)
(*                                                                         *)
(* A stream is one connection, and so one channel: its id stands for both. *)
(***************************************************************************)
EXTENDS Naturals, Sequences

CONSTANTS
  Streams,    \* the connections to GET /videos/{id}/events
  NoStream,   \* an empty slot
  Buffer,     \* size of a stream's channel (4)
  MaxFaults   \* bound: reads of the record that fail

ASSUME StreamsAssumption ==
  /\ NoStream \notin Streams
  /\ Buffer \in Nat \ {0}
  /\ MaxFaults \in Nat

Updates == {"tick", "end"}

VARIABLES
  record,     \* status of the job: "uploading", "active" or "ended"; "expired"
              \* or "reaped" when retention removed it before or after its end;
              \* "stuck" or "lost", active for ever: its validation gave up, or
              \* was never started
  publisher,  \* who publishes of the job: what, to whom, and by which goroutine
  slot,       \* subscribers[jobID]
  buffer,     \* what waits in the channel of each stream
  closed,     \* is that channel closed?
  stream,     \* step of each stream
  sent,       \* what each stream last sent to its client
  panicked,   \* did a send on a closed channel end the process?
  faults

vars == <<record, publisher, slot, buffer, closed, stream, sent, panicked, faults>>
broker  == <<slot, closed>>
clients == <<stream, sent, faults>>

Init ==
  /\ record = "uploading"
  /\ publisher = [pc |-> "idle", update |-> "tick", to |-> NoStream, by |-> "request"]
  /\ slot = NoStream
  /\ buffer = [s \in Streams |-> <<>>]
  /\ closed = [s \in Streams |-> FALSE]
  /\ stream = [s \in Streams |-> "idle"]
  /\ sent = [s \in Streams |-> "none"]
  /\ panicked = FALSE
  /\ faults = 0

-----------------------------------------------------------------------------
(* The job.  Its record is written before the update is published: by the  *)
(* complete call that accepts it, then by its validation or its worker.    *)

Announces(update, by) ==
  /\ publisher.pc = "idle"
  /\ publisher' = [pc |-> "look", update |-> update, to |-> NoStream, by |-> by]
  /\ UNCHANGED <<broker, buffer, clients, panicked>>

Accept == record = "uploading" /\ record' = "active" /\ Announces("tick", "request")

Tick == record = "active" /\ UNCHANGED record /\ Announces("tick", "goroutine")

\* Mutant: the end is published before it is written.
FinishUnwritten == record = "active" /\ UNCHANGED record /\ Announces("end", "goroutine")

Finish == record = "active" /\ record' = "ended" /\ Announces("end", "goroutine")

\* A validation out of time publishes the failure it could not record.
GiveUp == record = "active" /\ record' = "stuck" /\ Announces("end", "goroutine")

\* Retention removes a session that was never completed, and a job that ended.
Expire ==
  /\ \/ record = "uploading" /\ record' = "expired"
     \/ record = "ended" /\ record' = "reaped"
  /\ UNCHANGED <<publisher, broker, buffer, clients, panicked>>

-----------------------------------------------------------------------------
(* Publish.  The mutex guards the lookup only: the send comes after it.    *)

Published == publisher' = [publisher EXCEPT !.pc = "idle"]

\* Mutant: the update is sent without a look at whether there is a listener.
LookupUnchecked ==
  /\ publisher.pc = "look"
  /\ publisher' = [publisher EXCEPT !.pc = "send", !.to = slot]
  /\ UNCHANGED <<record, broker, buffer, clients, panicked>>

Lookup ==
  /\ publisher.pc = "look"
  /\ \/ slot = NoStream /\ Published
     \/ slot # NoStream /\ publisher' = [publisher EXCEPT !.pc = "send", !.to = slot]
  /\ UNCHANGED <<record, broker, buffer, clients, panicked>>

\* A full buffer drops the update.
Send ==
  /\ publisher.pc = "send"
  /\ ~closed[publisher.to]
  /\ IF Len(buffer[publisher.to]) < Buffer
       THEN buffer' = [buffer EXCEPT ![publisher.to] = Append(@, publisher.update)]
       ELSE UNCHANGED buffer
  /\ Published
  /\ UNCHANGED <<record, broker, clients, panicked>>

\* In Go a send on a closed channel panics, with a default case or without.
Panics(by) == publisher.pc = "send" /\ closed[publisher.to] /\ publisher.by = by

\* Nothing recovers it in a worker or a validation, and the process ends.
Panic ==
  /\ Panics("goroutine")
  /\ panicked' = TRUE
  /\ UNCHANGED <<record, publisher, broker, buffer, clients>>

\* net/http recovers it in the handler of a request.  The complete call ends
\* there, and never starts the validation of the job it accepted.
RecoveredPanic ==
  /\ Panics("request")
  /\ Published
  /\ record' = "lost"
  /\ UNCHANGED <<broker, buffer, clients, panicked>>

-----------------------------------------------------------------------------
(* handleJobEvents.                                                        *)

Goes(s, from, to) == stream[s] = from /\ stream' = [stream EXCEPT ![s] = to]
Sends(s, update)  == sent' = [sent EXCEPT ![s] = update]

\* Mutant: the state is read, and sent, before the stream subscribes.
SubscribeAfter(s) ==
  /\ stream[s] = "idle"
  /\ \/ record # "ended" /\ Sends(s, "tick") /\ UNCHANGED <<stream, slot>>
     \/ /\ sent[s] = "tick" /\ slot = NoStream
        /\ slot' = s /\ Goes(s, "idle", "wait") /\ UNCHANGED sent
  /\ UNCHANGED <<record, publisher, buffer, closed, panicked, faults>>

\* Subscribe.  With the slot taken the answer is 409, and nothing changes.
Subscribe(s) ==
  /\ slot = NoStream
  /\ slot' = s
  /\ Goes(s, "idle", "load")
  /\ UNCHANGED <<record, publisher, buffer, closed, sent, panicked, faults>>

Removed == record \in {"expired", "reaped"}

Gets == ~Removed /\ UNCHANGED faults
GetFails ==
  \/ Removed /\ UNCHANGED faults
  \/ ~Removed /\ faults < MaxFaults /\ faults' = faults + 1

\* Mutant: an early return that forgets to unsubscribe.
LoadLeak(s) ==
  /\ \/ Gets /\ record = "ended" /\ Sends(s, "end") /\ Goes(s, "load", "leave")
     \/ Gets /\ record # "ended" /\ Sends(s, "tick") /\ Goes(s, "load", "wait")
     \/ GetFails /\ UNCHANGED sent /\ Goes(s, "load", "done")
  /\ UNCHANGED <<record, publisher, broker, buffer, panicked>>

\* The current state, sent to every stream; a failed read ends it with 404.
Load(s) ==
  /\ \/ Gets /\ record = "ended" /\ Sends(s, "end") /\ Goes(s, "load", "leave")
     \/ Gets /\ record # "ended" /\ Sends(s, "tick") /\ Goes(s, "load", "wait")
     \/ GetFails /\ UNCHANGED sent /\ Goes(s, "load", "leave")
  /\ UNCHANGED <<record, publisher, broker, buffer, panicked>>

Receive(s) ==
  /\ buffer[s] # <<>>
  /\ buffer' = [buffer EXCEPT ![s] = Tail(@)]
  /\ Sends(s, Head(buffer[s]))
  /\ Goes(s, "wait", IF Head(buffer[s]) = "end" THEN "leave" ELSE "check")
  /\ UNCHANGED <<record, publisher, broker, panicked, faults>>

\* The record is read again: after each update, and after 15 quiet seconds.
Reread(s, from) ==
  /\ \/ Gets /\ record = "ended" /\ Sends(s, "end") /\ Goes(s, from, "leave")
     \/ Gets /\ record # "ended" /\ UNCHANGED sent /\ Goes(s, from, "wait")
     \/ GetFails /\ UNCHANGED sent /\ Goes(s, from, "wait")
  /\ UNCHANGED <<record, publisher, broker, buffer, panicked>>

SelfHeal(s) == Reread(s, "check")

\* Mutant: a heartbeat that only keeps the connection open.
HeartbeatOnly(s) == Goes(s, "wait", "wait") /\ UNCHANGED vars

Heartbeat(s) == Reread(s, "wait")

\* The client hangs up.
Disconnect(s) ==
  /\ Goes(s, "wait", "leave")
  /\ UNCHANGED <<record, publisher, broker, buffer, sent, panicked, faults>>

\* unsubscribe, deferred: the slot is freed under the mutex, and the channel
\* closed after it.
Leave(s) ==
  /\ Goes(s, "leave", "close")
  /\ slot' = IF slot = s THEN NoStream ELSE slot
  /\ UNCHANGED <<record, publisher, buffer, closed, sent, panicked, faults>>

Close(s) ==
  /\ Goes(s, "close", "done")
  /\ closed' = [closed EXCEPT ![s] = TRUE]
  /\ UNCHANGED <<record, publisher, slot, buffer, sent, panicked, faults>>

-----------------------------------------------------------------------------
PublisherStep == Lookup \/ Send \/ Panic \/ RecoveredPanic

StreamStep(s) ==
  Load(s) \/ Receive(s) \/ SelfHeal(s) \/ Heartbeat(s) \/ Leave(s) \/ Close(s)

Next ==
  /\ ~panicked
  /\ \/ Accept \/ Tick \/ Finish \/ GiveUp \/ Expire
     \/ PublisherStep
     \/ \E s \in Streams : Subscribe(s) \/ Disconnect(s) \/ StreamStep(s)

Spec == Init /\ [][Next]_vars

-----------------------------------------------------------------------------
TypeOK ==
  /\ record \in {"uploading", "active", "stuck", "lost", "ended", "expired", "reaped"}
  /\ publisher \in [pc : {"idle", "look", "send"}, update : Updates,
                    to : Streams \cup {NoStream}, by : {"request", "goroutine"}]
  /\ publisher.pc = "send" => publisher.to \in Streams
  /\ slot \in Streams \cup {NoStream}
  /\ buffer \in [Streams -> Seq(Updates)]
  /\ closed \in [Streams -> BOOLEAN]
  /\ stream \in [Streams -> {"idle", "load", "wait", "check", "leave", "close", "done"}]
  /\ sent \in [Streams -> Updates \cup {"none"}]
  /\ panicked \in BOOLEAN
  /\ faults \in Nat

Subscribed(s) == stream[s] \in {"load", "wait", "check", "leave"}

\* "Progress is only ever streamed to a single client", and the slot is not
\* "locked forever" (event.go:17-19 and 31-33): the stream in the slot is
\* the one that runs, on every path through the handler.
OneListener == \A s \in Streams : Subscribed(s) <=> slot = s

\* A client that was told of the end is told nothing after it, and the job had
\* ended: its record says so until retention removes it, unless a validation
\* gave up.
EndsWithTheTruth ==
  \A s \in Streams : sent[s] = "end" =>
    record \in {"ended", "reaped", "stuck"} /\ stream[s] \in {"leave", "close", "done"}

\* "A publish landing in that gap is lost forever" if the state were checked
\* before the subscription (handleJobEvents.go:30-33).  It is not: once the end
\* was published, a stream of the job that waits has something to receive, the
\* end or what made the broker drop it, with no help of the heartbeat, as long
\* as its reads of the record succeed.
NoEndMissed ==
  \A s \in Streams :
    stream[s] = "wait" /\ record = "ended" /\ publisher.pc = "idle" /\ faults = 0
      => buffer[s] # <<>>

\* Publish delivers an update, or drops it when the "listener is slow and its
\* buffer is full" (event.go:71-72); it never brings the process down.
DeliversOrDrops == ~panicked

=============================================================================
