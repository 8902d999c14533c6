----------------------------- MODULE Recovery -----------------------------
(***************************************************************************)
(* The life of the process (cmd/server/main.go): it starts by re-driving   *)
(* the jobs the previous one left behind (internal/httpserver/recover.go), *)
(* then serves, and ends by a signal or a crash.  The workers run from the *)
(* start, but have nothing to take before recovery sends it.               *)
(***************************************************************************)
EXTENDS PipelineState

\* Mutant: a validation that died is not resumed.
InterruptedQueued == {"pending", "processing"}

Interrupted == {"pending", "processing", "validating"}

\* Recovery is at j: in the middle of it, or between two jobs.
Redriving(j, statuses) ==
  /\ phase = "recovering"
  /\ redriving \in {NoJob, j}
  /\ redrive[j].status \in statuses

Redriven(j) ==
  redrive' = [redrive EXCEPT ![j] = Absent] /\ redriving' = NoJob

-----------------------------------------------------------------------------
(* RecoverInterruptedJobs.  When the listing fails the process exits.      *)

BootList ==
  /\ phase = "down"
  /\ phase' = "recovering"
  /\ redrive' = [j \in Jobs |-> IF db[j].status \in Interrupted THEN db[j] ELSE Absent]
  /\ UNCHANGED <<records, objects, clients, told, uploading, stopping, redriving,
                 reapers, queue, worker, faults, restarts>>

\* Enqueue of a pending job, or of a processing one that was just reset.
BootRequeue(j) ==
  /\ Redriving(j, {"pending"})
  /\ Send(j)
  /\ Redriven(j)
  /\ UNCHANGED <<records, objects, clients, told, uploading, phase, stopping,
                 reapers, worker, faults, restarts>>

BootSkip(j) ==
  /\ Redriving(j, {"pending"})
  /\ stopping
  /\ Redriven(j)
  /\ UNCHANGED <<records, objects, clients, told, uploading, phase, stopping,
                 reapers, queue, worker, faults, restarts>>

BootReset(j) ==
  /\ Redriving(j, {"processing"})
  /\ LET row == [redrive[j] EXCEPT !.status = "pending"] IN
     \/ /\ StoreOK(j, stopping)
        /\ Write(j, row)
        /\ redrive' = [redrive EXCEPT ![j] = row]
        /\ redriving' = j
     \/ WriteErr(j, row, stopping) /\ Redriven(j)
  /\ UNCHANGED <<kind, objects, clients, told, uploading, phase, stopping,
                 reapers, queue, worker, restarts>>

\* A job is left to a validation of its own when its object is there.
BootStat(j) ==
  /\ redriving = NoJob
  /\ Redriving(j, {"validating"})
  /\ \/ /\ raw[j] # "none" /\ Succeeds(stopping)
        /\ validator' = [validator EXCEPT ![j][Boot] = [IdleValidator EXCEPT !.pc = "probe"]]
        /\ Redriven(j)
     \/ /\ raw[j] = "none" /\ Succeeds(stopping)
        /\ redriving' = j
        /\ UNCHANGED <<redrive, validator>>
     \/ Fails(stopping) /\ Redriven(j) /\ UNCHANGED validator
  /\ UNCHANGED <<records, objects, clients, told, handler, phase, stopping,
                 reapers, queue, worker, restarts>>

\* No object: the job fails, without an event.
BootFail(j) ==
  /\ redriving = j
  /\ Redriving(j, {"validating"})
  /\ LET row == [redrive[j] EXCEPT !.status = "failed"] IN
     \/ StoreOK(j, stopping) /\ Write(j, row)
     \/ WriteErr(j, row, stopping)
  /\ Redriven(j)
  /\ UNCHANGED <<kind, objects, clients, told, uploading, phase, stopping,
                 reapers, queue, worker, restarts>>

BootServe ==
  /\ phase = "recovering"
  /\ redrive = NoGoroutines.snapshot
  /\ phase' = "serving"
  /\ UNCHANGED <<records, objects, clients, told, uploading, stopping, redrive,
                 redriving, reapers, queue, worker, faults, restarts>>

-----------------------------------------------------------------------------
(* The end of the process.                                                 *)

\* SIGTERM: main's context is cancelled.
Stop ==
  /\ phase # "down" /\ ~stopping
  /\ restarts < MaxRestarts
  /\ stopping' = TRUE
  /\ restarts' = restarts + 1
  /\ UNCHANGED <<records, objects, clients, told, uploading, phase, redrive,
                 redriving, reapers, queue, worker, faults>>

\* What dies with the process.  A create call that had no URL yet dies too.
Wipe ==
  /\ phase' = "down"
  /\ stopping' = FALSE
  /\ handler' = NoGoroutines.handler
  /\ validator' = NoGoroutines.validator
  /\ worker' = NoGoroutines.worker
  /\ queue' = <<>>
  /\ redrive' = NoGoroutines.snapshot
  /\ redriving' = NoJob
  /\ sweep' = [s \in Sweeps |-> NoGoroutines.snapshot]
  /\ sweeping' = [s \in Sweeps |-> IdleSweeper]
  /\ session' = [j \in Jobs |-> IF session[j] = "presign" THEN "lost" ELSE session[j]]
  /\ UNCHANGED <<records, objects, age, told, faults>>

\* main returns, or exits when the listener has not drained after 10
\* seconds.  It waits for no validation, and in the second case for nothing.
Exit ==
  /\ stopping
  /\ Wipe
  /\ UNCHANGED restarts

Crash ==
  /\ phase # "down" /\ ~stopping
  /\ restarts < MaxRestarts
  /\ restarts' = restarts + 1
  /\ Wipe

-----------------------------------------------------------------------------
RecoverJob(j) ==
  \/ BootRequeue(j) \/ BootSkip(j) \/ BootReset(j) \/ BootStat(j) \/ BootFail(j)

MainStep == BootList \/ (\E j \in Jobs : RecoverJob(j)) \/ BootServe \/ Exit

RecoveryNext == MainStep \/ Stop \/ Crash

=============================================================================
