--------------------------- MODULE JobLifecycle ---------------------------
(***************************************************************************)
(* What the pipeline promises for each job: the statuses a record goes     *)
(* through (internal/job/job.go), one writer at a time, and what may       *)
(* change on a restart.  No store, channel or goroutine is visible.        *)
(***************************************************************************)
EXTENDS Naturals

CONSTANT Jobs

VARIABLES
  status,  \* of each job: as its record has it, or "unborn", or "gone"
  phase    \* of the process: "down", "recovering", "serving"

vars == <<status, phase>>

Ended == {"completed", "failed", "gone"}

Init ==
  /\ status = [j \in Jobs |-> "unborn"]
  /\ phase = "down"

Goes(j, from, to) ==
  /\ status[j] = from
  /\ status' = [status EXCEPT ![j] = to]
  /\ UNCHANGED phase

Create(j)   == phase = "serving" /\ Goes(j, "unborn", "uploading")
\* A session may end without an upload; an accepted one never does.
Abandon(j)  == Goes(j, "uploading", "gone")
Accept(j)   == phase = "serving" /\ Goes(j, "uploading", "validating")
Admit(j)    == Goes(j, "validating", "pending")
Reject(j)   == Goes(j, "validating", "failed")
Start(j)    == Goes(j, "pending", "processing")
Complete(j) == Goes(j, "processing", "completed")
Fail(j)     == Goes(j, "processing", "failed")
Expire(j)   == Goes(j, "completed", "gone") \/ Goes(j, "failed", "gone")
\* Only recovery takes a job back, never a running server.
Redo(j)     == phase = "recovering" /\ Goes(j, "processing", "pending")

Enter(from, to) == phase \in from /\ phase' = to /\ UNCHANGED status

Next ==
  \/ \E j \in Jobs :
       \/ Create(j) \/ Abandon(j) \/ Accept(j) \/ Admit(j) \/ Reject(j)
       \/ Start(j) \/ Complete(j) \/ Fail(j) \/ Expire(j) \/ Redo(j)
  \/ Enter({"down"}, "recovering")
  \/ Enter({"recovering"}, "serving")
  \/ Enter({"recovering", "serving"}, "down")

Spec == Init /\ [][Next]_vars

=============================================================================
