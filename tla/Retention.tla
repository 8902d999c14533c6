----------------------------- MODULE Retention ----------------------------
(***************************************************************************)
(* The two reapers (internal/retention/retention.go): one for uploads that *)
(* were never completed, one for finished jobs past their keep.  Each tick *)
(* lists once, then deletes from that list: the objects of a job first,    *)
(* its record last.  A job whose deletion fails is left to the next tick.  *)
(***************************************************************************)
EXTENDS PipelineState

\* Mutant: the age alone decides.
EligibleByAge(s, j) ==
  db[j].status # "none" /\ age[j] >= IF s = "stale" THEN Stale ELSE Old

Eligible(s, j) ==
  CASE s = "stale"   -> db[j].status = "uploading" /\ age[j] >= Stale
    [] s = "expired" -> db[j].status \in Terminal /\ age[j] >= Old

Busy(s) == sweeping[s].pc # "idle"
Onto(s, j, step) == sweeping' = [sweeping EXCEPT ![s] = [pc |-> step, job |-> j]]
Done(s, j) ==
  /\ sweep' = [sweep EXCEPT ![s][j] = Absent]
  /\ sweeping' = [sweeping EXCEPT ![s] = IdleSweeper]

\* A tick.  One that finds nothing to delete changes nothing.
SweepList(s) ==
  /\ phase # "down" /\ ~stopping
  /\ ~Busy(s) /\ sweep[s] = NoGoroutines.snapshot
  /\ sweep' = [sweep EXCEPT ![s] = [j \in Jobs |-> IF Eligible(s, j) THEN db[j] ELSE Absent]]
  /\ UNCHANGED <<records, objects, clients, told, uploading, main, sweeping,
                 queue, worker, faults, restarts>>

SweepRaw(s, j) ==
  /\ ~Busy(s) /\ sweep[s][j] # Absent
  /\ \/ /\ Succeeds(stopping)
        /\ raw' = [raw EXCEPT ![j] = "none"]
        /\ Onto(s, j, IF s = "stale" THEN "record" ELSE "outs")
        /\ UNCHANGED sweep
     \/ Fails(stopping) /\ UNCHANGED raw /\ Done(s, j)
  /\ UNCHANGED <<records, out, clients, told, uploading, main, queue, worker,
                 restarts>>

\* Mutant: the loop over .mp4 keys for every kind.
DoomedNamed(s, j) == sweep[s][j].outs

\* deleteJobFiles: the whole tree of an HLS job, but of an MP4 job only the
\* renditions its record names.  One that fails has deleted some of them.
Doomed(s, j) == IF kind[j] = "hls" THEN Renditions ELSE sweep[s][j].outs

SweepOuts(s, j) ==
  /\ sweeping[s] = [pc |-> "outs", job |-> j]
  /\ \/ /\ Succeeds(stopping)
        /\ out' = [out EXCEPT ![j] = @ \ Doomed(s, j)]
        /\ Onto(s, j, "record")
        /\ UNCHANGED sweep
     \/ /\ Fails(stopping)
        /\ \E some \in SUBSET Doomed(s, j) : out' = [out EXCEPT ![j] = @ \ some]
        /\ Done(s, j)
  /\ UNCHANGED <<records, raw, clients, told, uploading, main, queue, worker,
                 restarts>>

SweepRecord(s, j) ==
  /\ sweeping[s] = [pc |-> "record", job |-> j]
  /\ \/ StoreOK(j, stopping) /\ Write(j, Absent)
     \/ WriteErr(j, Absent, stopping)
  /\ Done(s, j)
  /\ UNCHANGED <<kind, objects, clients, told, uploading, main, queue, worker,
                 restarts>>

-----------------------------------------------------------------------------
SweepStep(s) ==
  \E j \in Jobs : SweepRaw(s, j) \/ SweepOuts(s, j) \/ SweepRecord(s, j)

RetentionNext == \E s \in Sweeps : SweepList(s) \/ SweepStep(s)

=============================================================================
