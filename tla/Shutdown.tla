------------------------------ MODULE Shutdown ------------------------------
(***************************************************************************)
(* The end of the process (cmd/server/main.go, Server.Run in               *)
(* internal/httpserver/server.go) with the streams that are open at it.    *)
(* The signal cancels main's context and closes the listener; requests get *)
(* ten seconds to end; then main waits for its crew, the pool and the two  *)
(* reapers, and closes the store.  An open stream is a request.            *)
(***************************************************************************)
EXTENDS EventStream

VARIABLES
  process,  \* "serving", "draining", "joining", "down"
  crew,     \* of the WaitGroup: "working", "quit"
  exit      \* "none", "clean" (main returned), "forced" (os.Exit(1))

main    == <<process, crew, exit>>
allVars == <<vars, main>>

InitAll ==
  /\ Init
  /\ process = "serving"
  /\ crew = "working"
  /\ exit = "none"

-----------------------------------------------------------------------------
Down(how) == process' = "down" /\ exit' = how

\* The listener dies of itself: Run returns its error, and nobody waits.
ListenerDies ==
  /\ process = "serving"
  /\ Down("forced")
  /\ UNCHANGED <<vars, crew>>

Signal ==
  /\ process = "serving"
  /\ process' = "draining"
  /\ UNCHANGED <<vars, crew, exit>>

\* Workers and reapers see the context done, between two jobs or because the
\* calls of the one in hand fail.
CrewQuits ==
  /\ process # "serving" /\ crew = "working"
  /\ crew' = "quit"
  /\ UNCHANGED <<vars, process, exit>>

\* httpSrv.Shutdown returns when no request is left: no stream, and no complete
\* call.
NoRequests ==
  /\ \A s \in Streams : stream[s] \in {"idle", "done"}
  /\ publisher.by = "request" => publisher.pc = "idle"

Drained ==
  /\ process = "draining"
  /\ NoRequests
  /\ process' = "joining"
  /\ UNCHANGED <<vars, crew, exit>>

\* Mutant: Shutdown is given a context that is never done.
Patience == NoRequests

TenSeconds == TRUE

\* And it returns an error after ten seconds, which main exits with.
TimeUp ==
  /\ process = "draining"
  /\ TenSeconds
  /\ Down("forced")
  /\ UNCHANGED <<vars, crew>>

\* Mutant: main does not wait.
NoWait == TRUE

CrewGone == crew = "quit"

\* wg.Wait, and the deferred closeStore.
Joined ==
  /\ process = "joining"
  /\ CrewGone
  /\ Down("clean")
  /\ UNCHANGED <<vars, crew>>

-----------------------------------------------------------------------------
(* What goes on meanwhile.  No request begins after the signal, and none   *)
(* is left when main joins its crew; validations run on to the very end,   *)
(* since nobody waits for them.                                            *)

Alive == process # "down" /\ ~panicked

JobStep ==
  \/ process # "joining" /\ Accept
  \/ Finish \/ GiveUp
  \/ crew = "working" /\ (Tick \/ Expire)

Goroutines == PublisherStep \/ \E s \in Streams : Disconnect(s) \/ StreamStep(s)

Requested == process = "serving" /\ \E s \in Streams : Subscribe(s)

MainStep == CrewQuits \/ Drained \/ TimeUp \/ Joined

NextAll ==
  \/ Alive /\ (JobStep \/ Goroutines \/ Requested) /\ UNCHANGED main
  \/ ~panicked /\ (Signal \/ ListenerDies \/ MainStep)

SpecAll == InitAll /\ [][NextAll]_allVars

\* Goroutines run, the timer of a waiting stream fires, and so do the ten
\* seconds.  Nothing is assumed of clients, of the job or of signals.
FairSpecAll ==
  /\ SpecAll
  /\ WF_allVars(Alive /\ PublisherStep /\ UNCHANGED main)
  /\ \A s \in Streams : WF_allVars(Alive /\ StreamStep(s) /\ UNCHANGED main)
  /\ WF_allVars(~panicked /\ MainStep)

-----------------------------------------------------------------------------
\* "Re-check the store so a finished job never leaves the client hanging"
\* (handleJobEvents.go:92-94): a stream of a finished job ends, whatever update
\* was dropped and whatever read failed, or the process does.  It is so as long as
\* there is a record to read: when retention removes it first, nothing tells a
\* stream whose end was dropped.
FinishedStreamsEnd ==
  \A s \in Streams :
    record = "ended" /\ stream[s] # "idle"
      ~> stream[s] = "done" \/ record = "reaped" \/ panicked \/ process = "down"

\* "Up to a timeout, then return" (server.go:56-57): a signal ends the process,
\* also while the stream of a job that will never finish is open.
SignalEndsProcess == process = "draining" ~> process = "down" \/ panicked

\* When main returns, and so closes the store, nobody it waits for still uses
\* it, nor any request: each stream has heard the end, or its client left.
CleanExit ==
  exit = "clean" => crew = "quit" /\ NoRequests /\ slot = NoStream

=============================================================================
