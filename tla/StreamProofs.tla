---------------------------- MODULE StreamProofs ---------------------------
(***************************************************************************)
(* The streams, by themselves and while the process ends, for any number   *)
(* of them and any size of their channels.  One listener for each job, and *)
(* no stream that ends with a lie; a step of the process is a step of the  *)
(* streams, or none to them, so that carries over to it; and a clean exit  *)
(* leaves nobody behind.                                                   *)
(***************************************************************************)
EXTENDS Shutdown, TLAPS

\* What is on its way to a client is true by the time it was published: an
\* "end" in the publisher's hand or in a channel was in the record, or given up.
Over == record \in {"ended", "reaped", "stuck"}

EndWasWritten ==
  /\ publisher.update = "end" => Over
  /\ \A s \in Streams : \A i \in DOMAIN buffer[s] : buffer[s][i] = "end" => Over

\* While a complete call publishes, its job is only accepted: the goroutine that
\* goes on with it is not started yet.
AcceptingCall ==
  publisher.by = "request" /\ publisher.pc # "idle" => record = "active"

\* The inductive invariant of EndsWithTheTruth.
Truth == TypeOK /\ AcceptingCall /\ EndWasWritten /\ EndsWithTheTruth

\* A function stays one when one of its values is replaced.
LEMMA Replaced ==
  ASSUME NEW D, NEW S, NEW g \in [D -> S], NEW x, NEW v \in S
  PROVE  [g EXCEPT ![x] = v] \in [D -> S]
  OBVIOUS

\* The types hold at first,
LEMMA InitTypes ==
  ASSUME Init
  PROVE  TypeOK
<1>1. buffer \in [Streams -> Seq(Updates)]
  BY DEF Init
<1>2. /\ closed \in [Streams -> BOOLEAN]
      /\ stream \in [Streams -> {"idle", "load", "wait", "check", "leave", "close", "done"}]
      /\ sent \in [Streams -> Updates \cup {"none"}]
  BY DEF Init
<1>3. publisher \in [pc : {"idle", "look", "send"}, update : Updates,
                    to : Streams \cup {NoStream}, by : {"request", "goroutine"}]
  BY DEF Init, Updates
<1> QED
  BY <1>1, <1>2, <1>3 DEF Init, TypeOK

\* every step keeps them,
LEMMA NextTypes ==
  ASSUME TypeOK, [Next]_vars
  PROVE  TypeOK'
<1> USE DEF TypeOK, Updates, broker, clients
<1>1. CASE UNCHANGED vars
  BY <1>1 DEF vars
<1>2. CASE Accept \/ Tick \/ Finish \/ GiveUp \/ Expire
  BY <1>2 DEF Accept, Tick, Finish, GiveUp, Expire, Announces
<1>3. CASE PublisherStep
  <2>1. CASE Lookup
    BY <2>1 DEF Lookup, Published
  <2>2. CASE Send
    <3>1. buffer' \in [Streams -> Seq(Updates)]
      <4>1. Append(buffer[publisher.to], publisher.update) \in Seq(Updates)
        BY <2>2 DEF Send
      <4>2. \/ buffer' = buffer
            \/ buffer' = [buffer EXCEPT ![publisher.to] = Append(buffer[publisher.to], publisher.update)]
        BY <2>2 DEF Send
      <4> QED
        BY <4>1, <4>2, Replaced
    <3> QED
      BY <2>2, <3>1 DEF Send, Published
  <2>3. CASE Panic \/ RecoveredPanic
    BY <2>3 DEF Panic, RecoveredPanic, Published
  <2> QED
    BY <1>3, <2>1, <2>2, <2>3 DEF PublisherStep
<1>4. ASSUME NEW s \in Streams, Subscribe(s) \/ Disconnect(s) \/ StreamStep(s)
      PROVE  TypeOK'
  <2>1. CASE Subscribe(s)
    BY <2>1 DEF Subscribe, Goes
  <2>2. CASE Disconnect(s)
    BY <2>2 DEF Disconnect, Goes
  <2>3. CASE Load(s)
    <3>1. /\ sent' \in [Streams -> Updates \cup {"none"}]
          /\ stream' \in [Streams -> {"idle", "load", "wait", "check", "leave", "close", "done"}]
      BY <2>3, Replaced DEF Load, Goes, Sends
    <3> QED
      BY <2>3, <3>1 DEF Load, Gets, GetFails
  <2>4. CASE Receive(s)
    <3>1. buffer[s] \in Seq(Updates) /\ Head(buffer[s]) \in Updates /\ Tail(buffer[s]) \in Seq(Updates)
      BY <2>4 DEF Receive
    <3>2. buffer' \in [Streams -> Seq(Updates)]
      BY <2>4, <3>1, Replaced DEF Receive
    <3>3. sent' \in [Streams -> Updates \cup {"none"}]
      BY <2>4, <3>1 DEF Receive, Sends
    <3> QED
      BY <2>4, <3>2, <3>3 DEF Receive, Goes
  <2>5. CASE SelfHeal(s) \/ Heartbeat(s)
    <3>1. /\ sent' \in [Streams -> Updates \cup {"none"}]
          /\ stream' \in [Streams -> {"idle", "load", "wait", "check", "leave", "close", "done"}]
      BY <2>5, Replaced DEF SelfHeal, Heartbeat, Reread, Goes, Sends
    <3> QED
      BY <2>5, <3>1 DEF SelfHeal, Heartbeat, Reread, Gets, GetFails
  <2>6. CASE Leave(s) \/ Close(s)
    BY <2>6 DEF Leave, Close, Goes
  <2> HIDE DEF TypeOK
  <2> QED
    BY <1>4, <2>1, <2>2, <2>3, <2>4, <2>5, <2>6 DEF StreamStep
<1> HIDE DEF TypeOK
<1> QED
  BY <1>1, <1>2, <1>3, <1>4 DEF Next

\* and so does OneListener: a stream enters the slot when it is empty, and
\* leaves its handler only through unsubscribe.
LEMMA NextListener ==
  ASSUME TypeOK, OneListener, [Next]_vars
  PROVE  OneListener'
<1> USE DEF OneListener, Subscribed, broker, clients
<1>1. CASE UNCHANGED <<slot, stream>>
  BY <1>1
<1>2. ASSUME NEW s \in Streams, Subscribe(s) PROVE OneListener'
  BY <1>2, StreamsAssumption DEF Subscribe, Goes, TypeOK
<1>3. ASSUME NEW s \in Streams, Leave(s) PROVE OneListener'
  BY <1>3, StreamsAssumption DEF Leave, Goes, TypeOK
<1>4. ASSUME NEW s \in Streams,
             Load(s) \/ Receive(s) \/ SelfHeal(s) \/ Heartbeat(s) \/ Disconnect(s) \/ Close(s)
      PROVE  OneListener'
  <2>1. PICK to \in {"wait", "check", "leave", "done"} :
          /\ stream' = [stream EXCEPT ![s] = to]
          /\ to = "done" <=> stream[s] \notin {"load", "wait", "check", "leave"}
          /\ slot' = slot
    BY <1>4 DEF Load, Receive, SelfHeal, Heartbeat, Reread, Disconnect, Close, Goes
  <2> QED
    BY <2>1 DEF TypeOK
<1>5. CASE PublisherStep \/ Accept \/ Tick \/ Finish \/ GiveUp \/ Expire
  BY <1>1, <1>5 DEF PublisherStep, Lookup, Send, Panic, RecoveredPanic, Accept, Tick, Finish, GiveUp, Expire, Announces
<1> HIDE DEF OneListener
<1> QED
  BY <1>1, <1>2, <1>3, <1>4, <1>5 DEF Next, StreamStep, vars

\* Only the complete call moves its job while it publishes.
LEMMA NextAccepting ==
  ASSUME TypeOK, AcceptingCall, [Next]_vars
  PROVE  AcceptingCall'
<1> USE DEF AcceptingCall, broker, clients
<1>1. CASE UNCHANGED <<record, publisher>>
  BY <1>1
<1>2. CASE Accept \/ Tick \/ Finish \/ GiveUp
  BY <1>2 DEF Accept, Tick, Finish, GiveUp, Announces
<1>3. CASE Expire
  BY <1>3 DEF Expire
<1>4. CASE Lookup \/ Send \/ RecoveredPanic
  BY <1>4 DEF Lookup, Send, RecoveredPanic, Published, TypeOK
<1>5. CASE Panic
  BY <1>1, <1>5 DEF Panic
<1>6. ASSUME NEW s \in Streams, Subscribe(s) \/ Disconnect(s) \/ StreamStep(s)
      PROVE  UNCHANGED <<record, publisher>>
  BY <1>6 DEF Subscribe, Disconnect, StreamStep, Load, Receive, SelfHeal, Heartbeat, Reread,
     Leave, Close
<1> HIDE DEF AcceptingCall
<1> QED
  BY <1>1, <1>2, <1>3, <1>4, <1>5, <1>6 DEF Next, PublisherStep, vars

\* What was published stays true, and what is sent was published or read.
LEMMA NextTruth ==
  ASSUME Truth, [Next]_vars
  PROVE  EndWasWritten' /\ EndsWithTheTruth'
<1> USE DEF Truth, broker, clients, Over
<1>1. CASE RecoveredPanic
  <2>1. /\ publisher'.update = publisher.update /\ UNCHANGED <<buffer, sent, stream>>
        /\ publisher.pc # "idle" /\ publisher.by = "request"
    BY <1>1 DEF RecoveredPanic, Panics, Published, TypeOK
  <2>2. record = "active"
    BY <2>1 DEF AcceptingCall
  <2>3. /\ publisher.update # "end"
        /\ \A s \in Streams : sent[s] # "end" /\ \A i \in DOMAIN buffer[s] : buffer[s][i] # "end"
    BY <2>2 DEF EndWasWritten, EndsWithTheTruth
  <2> QED
    BY <2>1, <2>3 DEF EndWasWritten, EndsWithTheTruth
<1>2. CASE UNCHANGED vars
  BY <1>2 DEF vars, EndWasWritten, EndsWithTheTruth
<1>3. CASE Accept \/ Tick \/ Finish \/ GiveUp \/ Expire
  BY <1>3 DEF Accept, Tick, Finish, GiveUp, Expire, Announces, EndWasWritten, EndsWithTheTruth
<1>4. CASE Lookup \/ Panic
  <2>1. publisher'.update = publisher.update /\ UNCHANGED <<record, buffer, sent, stream>>
    BY <1>4 DEF Lookup, Panic, Published, TypeOK
  <2> QED
    BY <2>1 DEF EndWasWritten, EndsWithTheTruth
<1>5. CASE Send
  <2>1. publisher'.update = publisher.update /\ UNCHANGED <<record, sent, stream>>
    BY <1>5 DEF Send, Published, TypeOK
  <2>2. ASSUME NEW s \in Streams, NEW i \in DOMAIN buffer'[s]
        PROVE  buffer'[s][i] = publisher.update \/ (i \in DOMAIN buffer[s] /\ buffer'[s][i] = buffer[s][i])
    <3>1. \/ buffer'[s] = buffer[s]
          \/ buffer'[s] = Append(buffer[s], publisher.update)
      BY <1>5 DEF Send, TypeOK
    <3>2. buffer[s] \in Seq(Updates)
      BY DEF TypeOK
    <3> QED
      BY <2>2, <3>1, <3>2
  <2> QED
    BY <2>1, <2>2 DEF EndWasWritten, EndsWithTheTruth
<1>6. ASSUME NEW s \in Streams, Receive(s) PROVE EndWasWritten' /\ EndsWithTheTruth'
  <2>1. UNCHANGED <<record, publisher>>
    BY <1>6 DEF Receive
  <2>2. buffer[s] \in Seq(Updates) /\ buffer[s] # <<>>
    BY <1>6 DEF Receive, TypeOK
  <2>3. /\ Head(buffer[s]) = buffer[s][1] /\ 1 \in DOMAIN buffer[s]
        /\ \A i \in DOMAIN Tail(buffer[s]) : i + 1 \in DOMAIN buffer[s] /\ Tail(buffer[s])[i] = buffer[s][i + 1]
    BY <2>2
  <2>4. EndWasWritten'
    BY <1>6, <2>1, <2>3 DEF Receive, EndWasWritten, TypeOK
  <2>5. EndsWithTheTruth'
    BY <1>6, <2>1, <2>3 DEF Receive, Goes, Sends, EndWasWritten, EndsWithTheTruth, TypeOK
  <2> QED
    BY <2>4, <2>5
<1>7. ASSUME NEW s \in Streams, Load(s) \/ SelfHeal(s) \/ Heartbeat(s) PROVE EndWasWritten' /\ EndsWithTheTruth'
  BY <1>7 DEF Load, SelfHeal, Heartbeat, Reread, Goes, Sends, EndWasWritten, EndsWithTheTruth, TypeOK
<1>8. ASSUME NEW s \in Streams, Subscribe(s) \/ Disconnect(s) \/ Leave(s) \/ Close(s)
      PROVE  EndWasWritten' /\ EndsWithTheTruth'
  BY <1>8 DEF Subscribe, Disconnect, Leave, Close, Goes, EndWasWritten, EndsWithTheTruth, TypeOK
<1> HIDE DEF Truth
<1> QED
  BY <1>1, <1>2, <1>3, <1>4, <1>5, <1>6, <1>7, <1>8 DEF Next, PublisherStep, StreamStep

\* Whatever the interleaving, no channel, stream or publisher leaves its type;
\* with StreamsCorrect, none does while the process ends either.
THEOREM StreamTypesCorrect == Spec => []TypeOK
  BY InitTypes, NextTypes, PTL DEF Spec

\* Whatever the streams, the slot of a job holds the one stream that runs, and
\* none is left in it by a stream that ended: the job is never locked.
THEOREM OneListenerCorrect == Spec => []OneListener
<1>1. Init => TypeOK /\ OneListener
  <2>1. Init => OneListener
    BY StreamsAssumption DEF Init, OneListener, Subscribed
  <2> QED
    BY <2>1, InitTypes
<1>2. TypeOK /\ OneListener /\ [Next]_vars => (TypeOK /\ OneListener)'
  BY NextTypes, NextListener
<1> QED
  BY <1>1, <1>2, PTL DEF Spec

\* A stream that tells its client of the end tells it last, and of a job that
\* had ended, whatever retention removes afterwards; only a validation that gave
\* up makes it a lie.
THEOREM TruthCorrect == Spec => []EndsWithTheTruth
<1>1. Init => Truth
  <2>1. Init => AcceptingCall /\ EndWasWritten /\ EndsWithTheTruth
    BY DEF Init, AcceptingCall, EndWasWritten, EndsWithTheTruth
  <2> QED
    BY <2>1, InitTypes DEF Truth
<1>2. Truth /\ [Next]_vars => Truth'
  BY NextTypes, NextAccepting, NextTruth DEF Truth
<1>3. Truth => EndsWithTheTruth
  BY DEF Truth
<1> QED
  BY <1>1, <1>2, <1>3, PTL DEF Spec

-----------------------------------------------------------------------------
(* No end is lost between a subscription and the first state.              *)

\* The inductive form of NoEndMissed: the end of the job is in the record before
\* it is published, so a stream that still waits will be looked up or is being
\* sent to, or has something to receive.
Waiting(s) ==
  stream[s] = "wait" /\ record = "ended" /\ faults = 0 =>
    \/ buffer[s] # <<>>
    \/ publisher.pc = "look"
    \/ publisher.pc = "send" /\ publisher.to = s

\* A read that succeeds after the job ended lets no stream wait.
LEMMA ReadsEnd ==
  ASSUME TypeOK, NEW s \in Streams, Load(s) \/ SelfHeal(s) \/ Heartbeat(s),
         record' = "ended", faults' = 0
  PROVE  stream'[s] # "wait"
<1>1. faults + 1 # 0 /\ ~Removed
  <2>1. record = "ended"
    BY DEF Load, SelfHeal, Heartbeat, Reread
  <2> QED
    BY <2>1 DEF TypeOK, Removed
<1>2. ~GetFails
  BY <1>1 DEF GetFails
<1> QED
  BY <1>2 DEF Load, SelfHeal, Heartbeat, Reread, Goes, TypeOK

\* Every step keeps it.
LEMMA NextWaiting ==
  ASSUME TypeOK, OneListener, AcceptingCall, NEW s \in Streams, Waiting(s), [Next]_vars
  PROVE  Waiting(s)'
<1> SUFFICES ASSUME stream'[s] = "wait", record' = "ended", faults' = 0
             PROVE  \/ buffer'[s] # <<>>
                    \/ publisher'.pc = "look"
                    \/ publisher'.pc = "send" /\ publisher'.to = s
  BY DEF Waiting
<1> USE DEF broker, clients
<1>1. CASE UNCHANGED <<record, publisher, buffer, faults>> /\ stream[s] = "wait"
  BY <1>1 DEF Waiting
<1>2. CASE Accept \/ Tick \/ Finish \/ GiveUp \/ Expire
  <2>1. CASE Accept \/ Tick \/ Finish \/ GiveUp
    BY <2>1 DEF Accept, Tick, Finish, GiveUp, Announces
  <2>2. ~Expire
    BY DEF Expire
  <2> QED
    BY <1>2, <2>1, <2>2
<1>3. CASE Lookup
  <2>1. stream[s] = "wait" /\ slot = s
    BY <1>3 DEF Lookup, OneListener, Subscribed
  <2> QED
    BY <1>3, <2>1, StreamsAssumption DEF Lookup, TypeOK
<1>4. CASE Send
  <2>1. stream[s] = "wait" /\ record = "ended" /\ faults = 0 /\ publisher.pc = "send"
    BY <1>4 DEF Send
  <2>2. buffer[s] # <<>> \/ publisher.to = s
    BY <2>1 DEF Waiting
  <2>3. buffer \in [Streams -> Seq(Updates)] /\ publisher.to \in Streams
    BY <2>1 DEF TypeOK
  <2>4. \A seq \in Seq(Updates) : \A u : Len(Append(seq, u)) = Len(seq) + 1 /\ Len(seq) + 1 # 0
    OBVIOUS
  <2>5. CASE buffer' = [buffer EXCEPT ![publisher.to] = Append(@, publisher.update)]
    <3>1. buffer'[s] = buffer[s] \/ (publisher.to = s /\ buffer'[s] = Append(buffer[s], publisher.update))
      BY <2>3, <2>5
    <3>2. buffer'[s] # <<>> \/ buffer'[s] = buffer[s]
      BY <2>3, <2>4, <3>1
    <3>3. publisher.to = s => buffer'[s] = Append(buffer[s], publisher.update)
      BY <2>3, <2>5
    <3> QED
      BY <2>2, <2>3, <2>4, <3>2, <3>3
  <2>6. CASE ~(Len(buffer[publisher.to]) < Buffer) /\ buffer' = buffer
    BY <2>2, <2>3, <2>6, StreamsAssumption
  <2> QED
    BY <1>4, <2>5, <2>6 DEF Send
<1>5. CASE Panic
  BY <1>1, <1>5 DEF Panic
<1>6. ~RecoveredPanic
  BY DEF RecoveredPanic
<1>7. ASSUME NEW x \in Streams, Subscribe(x) \/ Disconnect(x) \/ StreamStep(x)
      PROVE  stream[s] = "wait" /\ UNCHANGED <<record, publisher, faults>> /\ buffer'[s] = buffer[s]
  <2>1. CASE x = s
    <3>1. ~Load(s) /\ ~SelfHeal(s) /\ ~Heartbeat(s)
      BY ReadsEnd
    <3>2. ~Subscribe(s) /\ ~Disconnect(s) /\ ~Receive(s) /\ ~Leave(s) /\ ~Close(s)
      BY DEF Subscribe, Disconnect, Receive, Leave, Close, Goes, TypeOK
    <3> QED
      BY <1>7, <2>1, <3>1, <3>2 DEF StreamStep
  <2>2. CASE x # s
    <3>1. stream'[s] = stream[s] /\ buffer'[s] = buffer[s] /\ UNCHANGED <<record, publisher>>
      BY <1>7, <2>2 DEF Subscribe, Disconnect, StreamStep, Load, Receive, SelfHeal, Heartbeat,
         Reread, Leave, Close, Goes, TypeOK
    <3>2. faults' = faults
      <4>1. faults' = faults \/ faults' = faults + 1
        BY <1>7 DEF Subscribe, Disconnect, StreamStep, Load, Receive, SelfHeal, Heartbeat,
           Reread, Leave, Close, Gets, GetFails
      <4> QED
        BY <4>1 DEF TypeOK
    <3> QED
      BY <3>1, <3>2
  <2> QED
    BY <2>1, <2>2
<1>8. CASE UNCHANGED vars
  BY <1>1, <1>8 DEF vars
<1>9. ASSUME NEW x \in Streams, Subscribe(x) \/ Disconnect(x) \/ StreamStep(x)
      PROVE  \/ buffer'[s] # <<>>
             \/ publisher'.pc = "look"
             \/ publisher'.pc = "send" /\ publisher'.to = s
  BY <1>7, <1>9 DEF Waiting
<1> QED
  BY <1>2, <1>3, <1>4, <1>5, <1>6, <1>8, <1>9 DEF Next, PublisherStep

\* For any number of streams and any buffer, no stream waits with an empty
\* channel for a job whose end was published: it subscribed before it read the
\* state, and the end was written before it was published.
THEOREM NoEndMissedCorrect == Spec => []NoEndMissed
<1> DEFINE Inv == TypeOK /\ OneListener /\ AcceptingCall /\ \A s \in Streams : Waiting(s)
<1>1. Init => Inv
  <2>1. Init => OneListener
    BY StreamsAssumption DEF Init, OneListener, Subscribed
  <2>2. Init => AcceptingCall
    BY DEF Init, AcceptingCall
  <2>3. Init => \A s \in Streams : Waiting(s)
    BY DEF Init, Waiting
  <2> QED
    BY <2>1, <2>2, <2>3, InitTypes
<1>2. Inv /\ [Next]_vars => Inv'
  <2> SUFFICES ASSUME TypeOK, OneListener, AcceptingCall, \A s \in Streams : Waiting(s), [Next]_vars
               PROVE  Inv'
    OBVIOUS
  <2>1. TypeOK' /\ OneListener' /\ AcceptingCall'
    BY NextTypes, NextListener, NextAccepting
  <2>2. \A s \in Streams : Waiting(s)'
    BY NextWaiting
  <2> QED
    BY <2>1, <2>2
<1>3. Inv => NoEndMissed
  BY DEF NoEndMissed, Waiting
<1> QED
  BY <1>1, <1>2, <1>3, PTL DEF Spec

-----------------------------------------------------------------------------
(* The streams while the process ends.                                      *)

\* Every step of the process is one of the streams, or leaves them alone.
LEMMA StepsOfStreams ==
  ASSUME [NextAll]_allVars
  PROVE  [Next]_vars
<1>1. CASE UNCHANGED allVars
  BY <1>1 DEF allVars
<1>2. CASE Alive /\ (JobStep \/ Goroutines \/ Requested)
  BY <1>2 DEF Alive, JobStep, Goroutines, Requested, Next
<1>3. CASE Signal \/ ListenerDies \/ MainStep
  BY <1>3 DEF Signal, ListenerDies, MainStep, CrewQuits, Drained, TimeUp, Joined
<1> QED
  BY <1>1, <1>2, <1>3 DEF NextAll

\* The system with its end implements the streams by themselves.
THEOREM StreamsCorrect == SpecAll => Spec
<1>1. InitAll => Init
  BY DEF InitAll
<1>2. [NextAll]_allVars => [Next]_vars
  BY StepsOfStreams
<1> QED
  BY <1>1, <1>2, PTL DEF SpecAll, Spec

\* The inductive invariant of CleanExit: once the requests are gone they stay
\* gone, main returns only from there, and the crew that quit does not return.
Quiet ==
  /\ process \in {"serving", "draining", "joining", "down"}
  /\ process = "joining" => NoRequests
  /\ exit = "clean" => process = "down" /\ crew = "quit" /\ NoRequests

\* Once no request is left, no step of a stream or a publisher makes one.
LEMMA QuietStreams ==
  ASSUME TypeOK, NoRequests, Goroutines
  PROVE  NoRequests'
<1>1. CASE PublisherStep
  <2>1. UNCHANGED stream /\ publisher'.by = publisher.by
    BY <1>1 DEF PublisherStep, Lookup, Send, Panic, RecoveredPanic, Published, TypeOK, clients
  <2>2. publisher.pc # "idle"
    BY <1>1 DEF PublisherStep, Lookup, Send, Panic, RecoveredPanic, Panics
  <2> QED
    BY <2>1, <2>2 DEF NoRequests
<1>2. ASSUME NEW s \in Streams PROVE ~Disconnect(s) /\ ~StreamStep(s)
  BY DEF NoRequests, Disconnect, StreamStep, Load, Receive, SelfHeal, Heartbeat, Reread,
         Leave, Close, Goes
<1> QED
  BY <1>1, <1>2 DEF Goroutines

\* Every step keeps it.
LEMMA NextQuiet ==
  ASSUME TypeOK, Quiet, [NextAll]_allVars
  PROVE  Quiet'
<1> USE DEF Quiet, main
<1>1. CASE UNCHANGED allVars
  BY <1>1 DEF allVars, vars, NoRequests
<1>2. CASE Alive /\ JobStep /\ UNCHANGED main
  <2>1. UNCHANGED stream
    BY <1>2 DEF JobStep, Accept, Tick, Finish, GiveUp, Expire, Announces, clients
  <2>2. process = "joining" => ~Accept
    BY <1>2 DEF JobStep, Accept, Tick, Finish, GiveUp, Expire
  <2>3. Tick \/ Finish \/ GiveUp => publisher'.by = "goroutine"
    BY DEF Tick, Finish, GiveUp, Announces
  <2>4. Expire => publisher' = publisher
    BY DEF Expire
  <2>5. process = "joining" => NoRequests'
    BY <1>2, <2>1, <2>2, <2>3, <2>4 DEF JobStep, NoRequests
  <2>6. exit # "clean"
    BY <1>2 DEF Alive
  <2> QED
    BY <1>2, <2>5, <2>6
<1>3. CASE Alive /\ Goroutines /\ UNCHANGED main
  <2>1. NoRequests => NoRequests'
    BY <1>3, QuietStreams
  <2> QED
    BY <1>3, <2>1
<1>4. CASE Alive /\ Requested /\ UNCHANGED main
  BY <1>4 DEF Requested
<1>5. CASE Signal \/ ListenerDies \/ MainStep
  <2>1. NoRequests' <=> NoRequests
    BY <1>5 DEF Signal, ListenerDies, MainStep, CrewQuits, Drained, TimeUp, Joined, vars, NoRequests
  <2>2. CASE Signal
    BY <2>1, <2>2 DEF Signal
  <2>3. CASE ListenerDies \/ TimeUp
    BY <2>1, <2>3 DEF ListenerDies, TimeUp, Down
  <2>4. CASE CrewQuits
    BY <2>1, <2>4 DEF CrewQuits
  <2>5. CASE Drained
    BY <2>1, <2>5 DEF Drained
  <2>6. CASE Joined
    BY <2>1, <2>6 DEF Joined, Down, CrewGone
  <2> QED
    BY <1>5, <2>2, <2>3, <2>4, <2>5, <2>6 DEF MainStep
<1> HIDE DEF Quiet
<1> QED
  BY <1>1, <1>2, <1>3, <1>4, <1>5 DEF NextAll

\* When main returns, and closes the store, its crew has quit, no stream is
\* open, and the slot of the job is free.
THEOREM CleanExitCorrect == SpecAll => []CleanExit
<1>1. InitAll => Quiet
  BY DEF InitAll, Quiet
<1>2. TypeOK /\ Quiet /\ [NextAll]_allVars => Quiet'
  BY NextQuiet
<1>3. Init => TypeOK /\ OneListener
  <2>1. Init => OneListener
    BY StreamsAssumption DEF Init, OneListener, Subscribed
  <2> QED
    BY <2>1, InitTypes
<1>4. TypeOK /\ OneListener /\ [Next]_vars => (TypeOK /\ OneListener)'
  BY NextTypes, NextListener
<1>5. Quiet /\ TypeOK /\ OneListener => CleanExit
  BY DEF Quiet, CleanExit, NoRequests, OneListener, Subscribed, TypeOK
<1> QED
  BY <1>1, <1>2, <1>3, <1>4, <1>5, StreamsCorrect, PTL DEF SpecAll, Spec

=============================================================================
