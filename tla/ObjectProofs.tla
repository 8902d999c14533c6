---------------------------- MODULE ObjectProofs ----------------------------
(***************************************************************************)
(* The objects in storage, and what was published, agree with the records, *)
(* for all values of the constants, when the complete calls of a job       *)
(* neither overlap nor come after the session is stale.                    *)
(*                                                                         *)
(* Each invariant is shown from RecordInv and from who may write what: one *)
(* lemma names the steps that change an object, a copy or a session, and   *)
(* for each of them Agreement says what the record then is.                *)
(***************************************************************************)
EXTENDS RecordProofs

-----------------------------------------------------------------------------
(* Who writes what.                                                        *)

\* Uploads write the object and the session of their job, and its validations.
LEMMA UploadFrame ==
  ASSUME TypeInv, UploadNext, NEW j \in Jobs
  PROVE  /\ UNCHANGED <<out, worker, sweep, sweeping>>
         /\ kind'[j] # kind[j] => \E k \in Kinds : CreateUpload(j, k)
         /\ age'[j] # age[j] => (\E k \in Kinds : CreateUpload(j, k)) \/ Grow(j)
         /\ session'[j] # session[j]
              => (\E k \in Kinds : CreateUpload(j, k)) \/ PresignPut(j) \/ PresignError(j)
         /\ raw'[j] # raw[j]
              => (\E bytes \in Uploads : ClientPut(j, bytes)) \/ \E o \in Starters : Discard(j, o)
         /\ told'[j] # told[j] => \E o \in Starters : GiveUp(j, o) \/ TellRejected(j, o)
         /\ \A o \in Starters : validator'[j][o] # validator[j][o]
              => CompleteSpawn(j, o) \/ Deadline(j, o) \/ ValidatorStep(j, o)
<1>1. /\ kind \in [Jobs -> {"none", "mp4", "hls"}]
      /\ raw \in [Jobs -> UploadedBytes \cup {"none"}]
      /\ age \in [Jobs -> Unborn .. Old]
      /\ session \in [Jobs -> {"none", "presign", "open", "lost"}]
      /\ told \in [Jobs -> SUBSET Terminal]
      /\ validator \in [Jobs -> [Starters -> Validator]]
  BY DEF TypeInv, TypeOK
<1>2. PICK k \in Jobs :
        \/ \E kd \in Kinds : CreateUpload(k, kd)
        \/ PresignPut(k) \/ PresignError(k)
        \/ \E bytes \in Uploads : ClientPut(k, bytes)
        \/ Grow(k)
        \/ \E r \in Requests : CompleteLoad(k, r) \/ HandlerStep(k, r)
        \/ \E o \in Starters : Deadline(k, o) \/ ValidatorStep(k, o)
  BY DEF UploadNext
<1> USE DEF clients, objects, records, uploading, reapers
<1>3. CASE \/ \E kd \in Kinds : CreateUpload(k, kd)
           \/ PresignPut(k) \/ PresignError(k)
           \/ Grow(k)
  <2>1. UNCHANGED <<out, worker, sweep, sweeping, raw, told, validator>>
    BY <1>3 DEF CreateUpload, PresignPut, PresignError, Grow
  <2>2. k # j => kind'[j] = kind[j] /\ age'[j] = age[j] /\ session'[j] = session[j]
    BY <1>1, <1>3 DEF CreateUpload, PresignPut, PresignError, Grow
  <2>3. PresignPut(k) \/ PresignError(k) => kind' = kind /\ age' = age
    BY DEF PresignPut, PresignError
  <2>4. Grow(k) => kind' = kind /\ session' = session
    BY DEF Grow
  <2> QED
    BY <1>3, <2>1, <2>2, <2>3, <2>4
<1>4. ASSUME NEW bytes \in Uploads, ClientPut(k, bytes)
      PROVE  /\ UNCHANGED <<kind, age, session, told, validator, out, worker, sweep, sweeping>>
             /\ raw'[j] # raw[j] => k = j
  BY <1>1, <1>4 DEF ClientPut
<1>5. ASSUME NEW r \in Requests, CompleteLoad(k, r) \/ HandlerStep(k, r)
      PROVE  /\ UNCHANGED <<kind, age, session, raw, told, out, worker, sweep, sweeping>>
             /\ \A o \in Starters : validator'[j][o] # validator[j][o]
                  => k = j /\ o = r /\ CompleteSpawn(k, r)
  <2>1. CASE CompleteSpawn(k, r)
    BY <1>1, <2>1 DEF CompleteSpawn
  <2>2. CASE CompleteLoad(k, r) \/ CompleteStat(k, r) \/ CompleteMark(k, r) \/ CompletePanic(k, r)
    BY <2>2 DEF CompleteLoad, CompleteStat, CompleteMark, CompletePanic
  <2> QED
    BY <1>5, <2>1, <2>2 DEF HandlerStep
<1>6. ASSUME NEW o \in Starters, Deadline(k, o) \/ ValidatorStep(k, o)
      PROVE  /\ UNCHANGED <<kind, age, session, out, worker, sweep, sweeping>>
             /\ raw'[j] # raw[j] => k = j /\ Discard(k, o)
             /\ told'[j] # told[j] => k = j /\ (GiveUp(k, o) \/ TellRejected(k, o))
             /\ \A x \in Starters : validator'[j][x] # validator[j][x] => k = j /\ x = o
  <2>1. CASE Discard(k, o)
    BY <1>1, <2>1 DEF Discard, Step
  <2>2. CASE GiveUp(k, o) \/ TellRejected(k, o)
    BY <1>1, <2>2 DEF GiveUp, TellRejected, Tell, Return
  <2>3. CASE Deadline(k, o) \/ Probe(k, o) \/ Load(k, o) \/ Enqueue(k, o) \/ Reload(k, o)
             \/ MarkPending(k, o) \/ MarkRejected(k, o)
    <3>1. UNCHANGED <<kind, age, session, raw, told, out, worker, sweep, sweeping>>
      BY <2>3 DEF Deadline, Probe, Load, Enqueue, Reload, MarkPending, MarkRejected
    <3>2. \A x \in Starters : validator'[j][x] # validator[j][x] => k = j /\ x = o
      BY <1>1, <2>3 DEF Deadline, Probe, Load, Enqueue, Reload, MarkPending, MarkRejected,
         Step, Read, Return
    <3> QED
      BY <3>1, <3>2
  <2> QED
    BY <1>6, <2>1, <2>2, <2>3 DEF ValidatorStep
<1> QED
  BY <1>2, <1>3, <1>4, <1>5, <1>6

\* A worker leaves the others alone,
LEMMA OtherWorkers ==
  ASSUME TypeInv, NEW w \in Workers, WorkerStep(w) \/ WProgress(w)
  PROVE  \A x \in Workers : x # w => worker'[x] = worker[x]
<1>1. worker \in [Workers -> Worker]
  BY DEF TypeInv, TypeOK
<1>2. ASSUME NEW f \in Renditions, WPut(w, f) PROVE \A x \in Workers : x # w => worker'[x] = worker[x]
  BY <1>1, <1>2 DEF WPut, To
<1>3. CASE \/ WDequeue(w) \/ WQuit(w) \/ WLoad(w) \/ WMark(w) \/ WFetch(w) \/ WProgress(w)
           \/ WEncode(w) \/ WFinish(w) \/ WFail(w) \/ WTell(w)
  BY <1>1, <1>3 DEF WDequeue, WQuit, WLoad, WMark, WFetch, WProgress, WEncode, WFinish, WFail,
     WTell, To, Rest
<1> QED
  BY <1>2, <1>3 DEF WorkerStep

\* writes the outputs of its job, and publishes its end.
LEMMA WorkerFrame ==
  ASSUME TypeInv, NEW w \in Workers, WorkerStep(w) \/ WProgress(w), NEW j \in Jobs
  PROVE  /\ UNCHANGED <<kind, raw, age, session, validator, sweep, sweeping>>
         /\ out'[j] # out[j] => worker[w].job = j /\ \E f \in Renditions : WPut(w, f)
         /\ told'[j] # told[j] => worker[w].job = j /\ WTell(w)
<1>1. /\ out \in [Jobs -> SUBSET Renditions] /\ told \in [Jobs -> SUBSET Terminal]
      /\ worker \in [Workers -> Worker]
  BY DEF TypeInv, TypeOK
<1> USE DEF clients, objects, records, uploading, reapers
<1>2. ASSUME NEW f \in Renditions, WPut(w, f)
      PROVE  /\ UNCHANGED <<kind, raw, age, session, validator, sweep, sweeping, told>>
             /\ out'[j] # out[j] => worker[w].job = j
  BY <1>1, <1>2 DEF WPut, To
<1>3. CASE WTell(w)
  BY <1>1, <1>3 DEF WTell, Tell, Rest
<1>4. CASE \/ WDequeue(w) \/ WQuit(w) \/ WLoad(w) \/ WMark(w) \/ WFetch(w) \/ WProgress(w)
           \/ WEncode(w) \/ WFinish(w) \/ WFail(w)
  BY <1>4 DEF WDequeue, WQuit, WLoad, WMark, WFetch, WProgress, WEncode, WFinish, WFail
<1> QED
  BY <1>2, <1>3, <1>4 DEF WorkerStep

\* Recovery starts validations; a process that ends takes its goroutines along.
LEMMA RecoveryFrame ==
  ASSUME TypeInv, RecoveryNext, NEW j \in Jobs
  PROVE  /\ UNCHANGED <<kind, raw, out, age, told>>
         /\ \/ Wipe
            \/ /\ UNCHANGED <<session, worker, sweep, sweeping>>
               /\ \A o \in Starters : validator'[j][o] # validator[j][o]
                    => validator'[j][o] = [IdleValidator EXCEPT !.pc = "probe"]
<1>1. validator \in [Jobs -> [Starters -> Validator]]
  BY DEF TypeInv, TypeOK
<1> USE DEF clients, objects, records, uploading, reapers
<1>2. CASE Exit \/ Crash
  BY <1>2 DEF Exit, Crash, Wipe
<1>3. ASSUME NEW k \in Jobs, BootStat(k)
      PROVE  /\ UNCHANGED <<kind, raw, out, age, told, session, worker, sweep, sweeping>>
             /\ \A o \in Starters : validator'[j][o] # validator[j][o]
                  => validator'[j][o] = [IdleValidator EXCEPT !.pc = "probe"]
  <2>1. UNCHANGED <<kind, raw, out, age, told, session, worker, sweep, sweeping>>
    BY <1>3 DEF BootStat
  <2>2. \/ validator' = validator
        \/ validator' = [validator EXCEPT ![k][Boot] = [IdleValidator EXCEPT !.pc = "probe"]]
    BY <1>3 DEF BootStat
  <2> QED
    BY <1>1, <2>1, <2>2
<1>4. ASSUME \/ BootList \/ BootServe \/ Stop
             \/ \E k \in Jobs : BootRequeue(k) \/ BootSkip(k) \/ BootReset(k) \/ BootFail(k)
      PROVE  UNCHANGED <<kind, raw, out, age, told, session, worker, sweep, sweeping, validator>>
  BY <1>4 DEF BootList, BootServe, Stop, BootRequeue, BootSkip, BootReset, BootFail
<1> QED
  BY <1>2, <1>3, <1>4 DEF RecoveryNext, MainStep, RecoverJob

\* A reaper deletes objects of the jobs it is at.
LEMMA RetentionFrame ==
  ASSUME TypeInv, NEW s \in Sweeps, SweepList(s) \/ SweepStep(s), NEW j \in Jobs
  PROVE  /\ UNCHANGED <<kind, age, session, validator, worker, told>>
         /\ raw'[j] # raw[j] => SweepRaw(s, j)
         /\ out'[j] # out[j] => SweepOuts(s, j)
         /\ \A x \in Sweeps : x # s => sweep'[x] = sweep[x] /\ sweeping'[x] = sweeping[x]
<1>1. /\ raw \in [Jobs -> UploadedBytes \cup {"none"}] /\ out \in [Jobs -> SUBSET Renditions]
      /\ sweep \in [Sweeps -> [Jobs -> Row]] /\ sweeping \in [Sweeps -> Sweeper]
  BY DEF TypeInv, TypeOK
<1> USE DEF clients, objects, records, uploading, main
<1>2. CASE SweepList(s)
  BY <1>1, <1>2 DEF SweepList
<1>3. ASSUME NEW k \in Jobs, SweepRaw(s, k) \/ SweepOuts(s, k) \/ SweepRecord(s, k)
      PROVE  /\ UNCHANGED <<kind, age, session, validator, worker, told>>
             /\ raw'[j] # raw[j] => k = j /\ SweepRaw(s, k)
             /\ out'[j] # out[j] => k = j /\ SweepOuts(s, k)
             /\ \A x \in Sweeps : x # s => sweep'[x] = sweep[x] /\ sweeping'[x] = sweeping[x]
  <2>1. \A x \in Sweeps : x # s => sweep'[x] = sweep[x] /\ sweeping'[x] = sweeping[x]
    <3>1. (\E step : Onto(s, k, step) /\ sweep' = sweep) \/ Done(s, k)
      BY <1>3 DEF SweepRaw, SweepOuts, SweepRecord
    <3> QED
      BY <1>1, <3>1 DEF Onto, Done
  <2>2. CASE SweepRaw(s, k)
    BY <1>1, <2>1, <2>2 DEF SweepRaw
  <2>3. CASE SweepOuts(s, k)
    BY <1>1, <2>1, <2>3 DEF SweepOuts
  <2>4. CASE SweepRecord(s, k)
    BY <2>1, <2>4 DEF SweepRecord
  <2> QED
    BY <1>3, <2>2, <2>3, <2>4
<1> QED
  BY <1>2, <1>3 DEF SweepStep

-----------------------------------------------------------------------------
(* The upload of an admitted job.                                          *)

\* A job is queued by a validation that found a video.
LEMMA TurnsPending ==
  ASSUME RecordInv, Prompt, [Next]_vars, NEW j \in Jobs,
         db'[j].status \in {"pending", "processing"}
  PROVE  \/ db[j].status \in {"pending", "processing"}
         \/ \E o \in Starters : validator[j][o].pc = "pend"
<1> SUFFICES ASSUME db[j].status \notin {"pending", "processing"} PROVE \E o \in Starters : validator[j][o].pc = "pend"
  OBVIOUS
<1>1. db[j].status = "validating" /\ db'[j] # db[j]
  <2>1. \A to : Arrow(db[j].status, to) /\ to \in {"pending", "processing"} => db[j].status = "validating"
    BY DEF Arrow, Terminal
  <2> QED
    BY <2>1, NextInv, RecordStep, RowFacts
<1>2. Agrees(j) /\ age[j] # Unborn /\ db \in [Jobs -> Row]
  BY <1>1 DEF RecordInv, Agreement, Ownership, Handover, TypeInv, TypeOK
<1>3. ~(\E k \in Kinds : CreateUpload(j, k)) /\ ~PresignError(j)
  BY <1>1, <1>2 DEF CreateUpload, PresignError, Agrees, SessionAgrees
<1>4. ASSUME NEW r \in Requests PROVE ~CompleteMark(j, r)
  BY <1>1, <1>2 DEF CompleteMark, Agrees, HandlerAgrees
<1>5. ASSUME NEW o \in Starters, MarkRejected(j, o) PROVE FALSE
  <2>1. [validator[j][o].row EXCEPT !.status = "failed"] = RowAs("failed")
    BY <1>5, ValidatorRow DEF MarkRejected, At
  <2>2. db' = db \/ Write(j, RowAs("failed"))
    BY <1>5, <2>1 DEF MarkRejected, WriteErr
  <2> QED
    BY <1>1, <1>2, <2>2, RowFacts DEF Write
<1>6. ASSUME NEW w \in Workers, worker[w].job = j, WMark(w) \/ WProgress(w) \/ WFinish(w) \/ WFail(w)
      PROVE  FALSE
  <2>1. worker[w].pc \in {"mark", "encode", "upload", "fail"}
    BY <1>6 DEF WMark, WProgress, WFinish, WFail, On
  <2> QED
    BY <1>1, <1>6, <2>1, WorkerHolds
<1>7. ~BootReset(j)
  BY <1>1, RecoveryHolds DEF BootReset, Interrupted
<1>8. ASSUME BootFail(j) PROVE FALSE
  <2>1. redrive[j] = RowAs("validating")
    BY <1>1, <1>8, RecoveryHolds DEF BootFail, Interrupted
  <2>2. db' = db \/ Write(j, RowAs("failed"))
    <3>1. [redrive[j] EXCEPT !.status = "failed"] = RowAs("failed")
      BY <2>1, RowFacts DEF Statuses
    <3> QED
      BY <1>8, <3>1 DEF BootFail, WriteErr
  <2> QED
    BY <1>1, <1>2, <2>2, RowFacts DEF Write
<1>9. ASSUME NEW s \in Sweeps PROVE ~SweepRecord(s, j)
  <2>1. ASSUME SweepRecord(s, j) PROVE db' = db \/ Write(j, Absent)
    BY <2>1 DEF SweepRecord, WriteErr
  <2> QED
    BY <1>1, <1>2, <2>1 DEF Write, Absent
<1>10. \E o \in Starters : MarkPending(j, o)
  BY <1>1, <1>3, <1>4, <1>5, <1>6, <1>7, <1>8, <1>9, Writers DEF RecordInv
<1> QED
  BY <1>10 DEF MarkPending, At

\* What a validation does at each step: it goes on, or it returns.
LEMMA ValidatorAdvances ==
  ASSUME TypeInv, NEW j \in Jobs, NEW o \in Starters, ValidatorStep(j, o)
  PROVE  \/ validator'[j][o].pc \in {"idle", "enqueue", "discard", "reload", "failmark", "failtell"}
         \/ validator[j][o].pc = "probe" /\ raw[j] # "none" /\ raw' = raw
         \/ validator[j][o].pc = "load" /\ raw' = raw
<1>1. validator \in [Jobs -> [Starters -> Validator]]
  BY DEF TypeInv, TypeOK
<1>2. CASE Probe(j, o)
  <2>1. raw' = raw /\ validator[j][o].pc = "probe"
    BY <1>2 DEF Probe, objects, At
  <2>2. raw[j] = "none" => Step(j, o, "discard")
    BY <1>2 DEF Probe
  <2> QED
    BY <1>1, <2>1, <2>2, ValidatorGoes
<1>3. CASE Load(j, o)
  BY <1>3 DEF Load, objects, At
<1>4. CASE ~Probe(j, o) /\ ~Load(j, o)
  <2>1. \/ \E step \in {"enqueue", "reload", "failtell"} : Step(j, o, step)
        \/ Read(j, o, "failmark") \/ Return(j, o)
    BY <1>4 DEF ValidatorStep, MarkPending, Enqueue, GiveUp, Discard, Reload, MarkRejected, TellRejected
  <2> QED
    BY <1>1, <2>1, ValidatorGoes
<1> QED
  BY <1>2, <1>3, <1>4

\* A validation that has a video found it in storage.
LEMMA FindsVideo ==
  ASSUME TypeInv, [Next]_vars, NEW j \in Jobs, NEW o \in Starters,
         validator'[j][o].pc \in {"load", "pend"}
  PROVE  \/ validator[j][o].pc \in {"load", "pend"}
         \/ raw[j] # "none" /\ raw' = raw
<1>1. validator \in [Jobs -> [Starters -> Validator]]
  BY DEF TypeInv, TypeOK
<1>2. CASE UploadNext
  <2>1. CASE validator'[j][o] = validator[j][o]
    BY <2>1
  <2>2. CASE CompleteSpawn(j, o)
    <3>1. validator' = [validator EXCEPT ![j][o] = [IdleValidator EXCEPT !.pc = "probe"]]
      BY <2>2 DEF CompleteSpawn
    <3>2. validator'[j][o].pc = "probe"
      BY <1>1, <3>1 DEF IdleValidator
    <3> QED
      BY <3>2
  <2>3. CASE Deadline(j, o)
    BY <1>1, <2>3, ValidatorGoes
  <2>4. CASE ValidatorStep(j, o)
    BY <2>4, ValidatorAdvances
  <2> QED
    BY <1>2, <2>1, <2>2, <2>3, <2>4, UploadFrame
<1>3. CASE WorkerPoolNext
  BY <1>3, WorkerFrame DEF WorkerPoolNext
<1>4. CASE RecoveryNext
  <2>1. CASE Wipe
    BY <2>1 DEF Wipe, NoGoroutines, IdleValidator
  <2>2. CASE validator'[j][o] = [IdleValidator EXCEPT !.pc = "probe"]
    BY <2>2 DEF IdleValidator
  <2> QED
    BY <1>4, <2>1, <2>2, RecoveryFrame
<1>5. CASE RetentionNext
  BY <1>5, RetentionFrame DEF RetentionNext
<1>6. CASE UNCHANGED vars
  BY <1>6 DEF vars, uploading
<1> QED
  BY <1>2, <1>3, <1>4, <1>5, <1>6 DEF Next

\* An upload is deleted by a validation that rejects it, or by a reaper.
LEMMA UploadDeleted ==
  ASSUME TypeInv, [Next]_vars, NEW j \in Jobs, raw[j] # "none", raw'[j] = "none"
  PROVE  \/ \E o \in Starters : Discard(j, o)
         \/ \E s \in Sweeps : SweepRaw(s, j)
<1>1. ASSUME NEW bytes \in Uploads PROVE ~ClientPut(j, bytes)
  <2>1. bytes # "none"
    BY ConstantsAssumption DEF UploadedBytes
  <2> QED
    BY <2>1 DEF ClientPut, TypeInv, TypeOK
<1>2. CASE UploadNext
  BY <1>1, <1>2, UploadFrame
<1>3. CASE WorkerPoolNext
  BY <1>3, WorkerFrame DEF WorkerPoolNext
<1>4. CASE RecoveryNext
  BY <1>4, RecoveryFrame
<1>5. CASE RetentionNext
  BY <1>5, RetentionFrame DEF RetentionNext
<1>6. CASE UNCHANGED vars
  BY <1>6 DEF vars, objects
<1> QED
  BY <1>2, <1>3, <1>4, <1>5, <1>6 DEF Next

\* Every step keeps the upload of an admitted job.
LEMMA KeepsUpload ==
  ASSUME RecordInv, Prompt, NEW j \in Jobs, UploadKept(j), [Next]_vars
  PROVE  UploadKept(j)'
<1> SUFFICES ASSUME raw'[j] = "none"
             PROVE  /\ db'[j].status \notin {"pending", "processing"}
                    /\ \A o \in Starters : validator'[j][o].pc \notin {"load", "pend"}
  BY DEF UploadKept
<1>1. CASE raw[j] = "none"
  BY <1>1, TurnsPending, FindsVideo DEF UploadKept, RecordInv
<1>2. ASSUME NEW o \in Starters, Discard(j, o)
      PROVE  /\ db'[j].status \notin {"pending", "processing"}
             /\ \A x \in Starters : validator'[j][x].pc \notin {"load", "pend"}
  <2>1. db' = db /\ validator[j][o].pc = "discard" /\ Step(j, o, "reload")
    BY <1>2 DEF Discard, At, records
  <2>2. db[j].status = "validating"
    BY <2>1 DEF RecordInv, Agreement, Agrees, ValidatorAgrees
  <2>3. \A x \in Starters : x # o => validator[j][x].pc = "idle"
    BY <2>1, OnlyOwner DEF RecordInv, Validating
  <2>4. \A x \in Starters : x # o => validator'[j][x] = validator[j][x]
    BY <2>1 DEF Step, RecordInv, TypeInv, TypeOK
  <2>5. validator'[j][o].pc = "reload"
    BY <2>1, ValidatorGoes DEF RecordInv, TypeInv, TypeOK
  <2> QED
    BY <2>1, <2>2, <2>3, <2>4, <2>5
<1>3. ASSUME NEW s \in Sweeps, SweepRaw(s, j)
      PROVE  /\ db'[j].status \notin {"pending", "processing"}
             /\ \A x \in Starters : validator'[j][x].pc \notin {"load", "pend"}
  <2>1. db' = db /\ validator' = validator /\ sweep[s][j] # Absent
    BY <1>3 DEF SweepRaw, records, uploading
  <2>2. db[j].status \notin {"validating", "pending", "processing"}
    BY <2>1, ReaperHolds DEF Terminal, Absent
  <2>3. \A x \in Starters : validator[j][x].pc \notin {"load", "pend"}
    BY <2>2 DEF RecordInv, Agreement, Agrees, ValidatorAgrees
  <2> QED
    BY <2>1, <2>2, <2>3
<1> QED
  BY <1>1, <1>2, <1>3, UploadDeleted DEF RecordInv

-----------------------------------------------------------------------------
(* The outputs of a job.                                                   *)

\* Time does not run back.
LEMMA AgeGrows ==
  ASSUME TypeInv, [Next]_vars, NEW j \in Jobs
  PROVE  age[j] \in Nat /\ age'[j] \in Nat /\ age[j] <= age'[j]
<1>1. age[j] \in Nat
  BY AgeIsNat
<1>2. CASE age'[j] = age[j]
  BY <1>1, <1>2
<1>3. ASSUME NEW k \in Kinds, CreateUpload(j, k) PROVE age[j] = 0 /\ age'[j] = 1
  BY <1>3 DEF CreateUpload, Unborn, Fresh, TypeInv, TypeOK
<1>4. CASE Grow(j)
  <2>1. age'[j] = age[j] + 1
    BY <1>4 DEF Grow, TypeInv, TypeOK
  <2> QED
    BY <1>1, <2>1
<1>5. age'[j] = age[j] \/ (\E k \in Kinds : CreateUpload(j, k)) \/ Grow(j)
  <2>1. CASE UploadNext
    BY <2>1, UploadFrame
  <2>2. CASE WorkerPoolNext
    BY <2>2, WorkerFrame DEF WorkerPoolNext
  <2>3. CASE RecoveryNext
    BY <2>3, RecoveryFrame
  <2>4. CASE RetentionNext
    BY <2>4, RetentionFrame DEF RetentionNext
  <2>5. CASE UNCHANGED vars
    BY <2>5 DEF vars, clients
  <2> QED
    BY <2>1, <2>2, <2>3, <2>4, <2>5 DEF Next
<1> QED
  BY <1>1, <1>2, <1>3, <1>4, <1>5

\* Outputs are deleted by a reaper only.
LEMMA OutputsDeleted ==
  ASSUME TypeInv, [Next]_vars, NEW j \in Jobs
  PROVE  out[j] \subseteq out'[j] \/ \E s \in Sweeps : SweepOuts(s, j)
<1>1. CASE UploadNext
  BY <1>1, UploadFrame
<1>2. ASSUME NEW w \in Workers, WorkerStep(w) \/ WProgress(w) PROVE out[j] \subseteq out'[j]
  <2>1. CASE out'[j] = out[j]
    BY <2>1
  <2>2. ASSUME NEW f \in Renditions, WPut(w, f) PROVE out[j] \subseteq out'[j]
    <3>1. out \in [Jobs -> SUBSET Renditions]
      BY DEF TypeInv, TypeOK
    <3>2. out' = out \/ out' = [out EXCEPT ![worker[w].job] = @ \cup {f}]
      BY <2>2 DEF WPut
    <3> QED
      BY <3>1, <3>2
  <2> QED
    BY <1>2, <2>1, <2>2, WorkerFrame
<1>3. CASE RecoveryNext
  BY <1>3, RecoveryFrame
<1>4. CASE RetentionNext
  BY <1>4, RetentionFrame DEF RetentionNext
<1>5. CASE UNCHANGED vars
  BY <1>5 DEF vars, objects
<1> QED
  BY <1>1, <1>2, <1>3, <1>4, <1>5 DEF Next, WorkerPoolNext

\* What a step of a worker does to what it sent.
Sends(w) ==
  \/ worker'[w].sent = {}
  \/ worker[w].pc = "idle" /\ worker'[w].sent = worker[w].sent
  \/ worker'[w].pc = "tell"
  \/ /\ worker[w].pc \notin {"idle", "quit", "tell"} /\ worker'[w].pc \notin {"idle", "quit"}
     /\ worker'[w].job = worker[w].job
     /\ \/ worker'[w].sent = worker[w].sent
        \/ \E f \in Renditions : /\ worker'[w].sent = worker[w].sent \cup {f}
                                 /\ out' = [out EXCEPT ![worker[w].job] = @ \cup {f}]

LEMMA WorkerSends ==
  ASSUME TypeInv, NEW w \in Workers, WorkerStep(w) \/ WProgress(w)
  PROVE  Sends(w)
<1>1. worker \in [Workers -> Worker]
  BY DEF TypeInv, TypeOK
<1>2. CASE Rest(w)
  BY <1>1, <1>2, WorkerGoes DEF Sends, IdleWorker
<1>3. CASE WDequeue(w)
  <2>1. worker[w].pc = "idle" /\ worker'[w].sent = worker[w].sent
    BY <1>1, <1>3 DEF WDequeue, On, Worker
  <2> QED
    BY <2>1 DEF Sends
<1>4. CASE WQuit(w)
  <2>1. worker[w].pc = "idle" /\ To(w, "quit")
    BY <1>4 DEF WQuit, On
  <2> QED
    BY <1>1, <2>1, WorkerGoes DEF Sends
<1>5. ASSUME worker[w].pc \in {"load", "mark", "fetch", "encode", "upload", "fail"},
             \/ worker' = worker
             \/ \E step \in WorkerSteps \ {"idle", "quit"} : To(w, step)
             \/ \E step \in WorkerSteps \ {"idle", "quit"}, row \in Row : Takes(w, step, row)
      PROVE  Sends(w)
  <2>1. CASE worker' = worker
    BY <1>5, <2>1 DEF Sends
  <2>2. ASSUME NEW step \in WorkerSteps \ {"idle", "quit"},
               To(w, step) \/ \E row \in Row : Takes(w, step, row)
        PROVE  Sends(w)
    <3>1. /\ worker'[w].pc = step /\ worker'[w].job = worker[w].job
          /\ worker'[w].sent = worker[w].sent
      BY <1>1, <2>2, WorkerGoes
    <3> QED
      BY <1>5, <3>1 DEF Sends
  <2> QED
    BY <1>5, <2>1, <2>2
<1>6. worker[w].row \in Row /\ db \in [Jobs -> Row] /\ \A status \in Statuses : Held(w, status) \in Row
  <2>1. worker[w].row \in Row
    BY <1>1 DEF Worker
  <2>2. \A status \in Statuses : Held(w, status) \in Row
    BY <2>1 DEF Held, Row
  <2>3. db \in [Jobs -> Row]
    BY DEF TypeInv, TypeOK
  <2> QED
    BY <2>1, <2>2, <2>3
<1>7. CASE WLoad(w) \/ WFetch(w) \/ WProgress(w) \/ WEncode(w)
  <2>1. worker[w].pc \notin {"idle", "quit"} => worker[w].job \in Jobs
    BY DEF TypeInv, WorkersSound, Sound
  <2>2. CASE WLoad(w)
    <3>1. worker[w].pc = "load" /\ (Takes(w, "mark", db[worker[w].job]) \/ Rest(w))
      BY <2>2 DEF WLoad, On, Takes
    <3> QED
      BY <1>2, <1>5, <1>6, <2>1, <3>1 DEF WorkerSteps
  <2>3. CASE WFetch(w) \/ WProgress(w) \/ WEncode(w)
    <3>1. /\ worker[w].pc \in {"fetch", "encode"}
          /\ worker' = worker \/ \E step \in {"encode", "upload", "fail"} : To(w, step)
      BY <2>3 DEF WFetch, WProgress, WEncode, On
    <3> QED
      BY <1>5, <3>1 DEF WorkerSteps
  <2> QED
    BY <1>7, <2>2, <2>3
<1>8. CASE WMark(w)
  <2>1. worker[w].pc = "mark" /\ (Takes(w, "fetch", Held(w, "processing")) \/ Rest(w))
    BY <1>8 DEF WMark, On, Takes
  <2> QED
    BY <1>2, <1>5, <1>6, <2>1 DEF WorkerSteps, Statuses
<1>9. ASSUME NEW f \in Renditions, WPut(w, f) PROVE Sends(w)
  <2>1. worker[w].pc = "upload"
    BY <1>9 DEF WPut, On
  <2>2. CASE To(w, "fail")
    BY <1>5, <2>1, <2>2 DEF WorkerSteps
  <2>3. ASSUME out' = [out EXCEPT ![worker[w].job] = @ \cup {f}],
               worker' = [worker EXCEPT ![w].sent = @ \cup {f}]
        PROVE  Sends(w)
    <3>1. /\ worker'[w].pc = worker[w].pc /\ worker'[w].job = worker[w].job
          /\ worker'[w].sent = worker[w].sent \cup {f}
      BY <1>1, <2>3 DEF Worker
    <3> QED
      BY <2>1, <2>3, <3>1 DEF Sends
  <2> QED
    BY <1>9, <2>2, <2>3 DEF WPut
<1>10. CASE WFinish(w) \/ WFail(w)
  <2>1. Rest(w) \/ \E row : Takes(w, "tell", row)
    BY <1>10 DEF WFinish, WFail, Takes
  <2> QED
    BY <1>1, <1>2, <2>1, WorkerGoes DEF Sends
<1>11. CASE WTell(w)
  BY <1>2, <1>11 DEF WTell
<1> QED
  BY <1>3, <1>4, <1>7, <1>8, <1>9, <1>10, <1>11 DEF WorkerStep

\* A worker changes by its own steps, or ends with the process.
LEMMA WorkerChanges ==
  ASSUME TypeInv, [Next]_vars, NEW w \in Workers
  PROVE  \/ worker'[w] = worker[w]
         \/ worker'[w] = IdleWorker
         \/ WorkerStep(w) \/ WProgress(w)
<1>1. CASE UploadNext
  <2>1. Jobs # {}
    BY <1>1 DEF UploadNext
  <2> QED
    BY <1>1, <2>1, UploadFrame
<1>2. CASE WorkerPoolNext
  <2>1. PICK x \in Workers : WorkerStep(x) \/ WProgress(x)
    BY <1>2 DEF WorkerPoolNext
  <2>2. x # w => worker'[w] = worker[w]
    BY <2>1, OtherWorkers
  <2> QED
    BY <2>1, <2>2
<1>3. CASE RecoveryNext
  <2>1. CASE Exit \/ Crash
    BY <2>1 DEF Exit, Crash, Wipe, NoGoroutines
  <2>2. CASE ~(Exit \/ Crash)
    BY <1>3, <2>2 DEF RecoveryNext, MainStep, RecoverJob, BootList, BootServe, Stop, BootRequeue,
       BootSkip, BootReset, BootStat, BootFail
  <2> QED
    BY <2>1, <2>2
<1>4. CASE RetentionNext
  BY <1>4 DEF RetentionNext, SweepStep, SweepList, SweepRaw, SweepOuts, SweepRecord
<1>5. CASE UNCHANGED vars
  BY <1>5 DEF vars
<1> QED
  BY <1>1, <1>2, <1>3, <1>4, <1>5 DEF Next

\* A job is completed by a worker that sent everything.
LEMMA TurnsCompleted ==
  ASSUME RecordInv, Prompt, [Next]_vars, NEW j \in Jobs,
         db'[j].status = "completed", db'[j] # db[j]
  PROVE  \E w \in Workers : worker[w].job = j /\ WFinish(w)
<1>1. db[j].status = "processing"
  <2>1. \A to : Arrow(db[j].status, to) /\ to = "completed" => db[j].status = "processing"
    BY DEF Arrow, Terminal
  <2> QED
    BY <2>1, NextInv, RecordStep, RowFacts
<1>2. Agrees(j) /\ age[j] # Unborn
  BY <1>1 DEF RecordInv, Agreement, Ownership, Handover
<1>3. \A row : Write(j, row) => db'[j] = row
  BY DEF Write, RecordInv, TypeInv, TypeOK
<1>4. ~(\E k \in Kinds : CreateUpload(j, k)) /\ ~PresignError(j)
  BY <1>1, <1>2 DEF CreateUpload, PresignError, Agrees, SessionAgrees
<1>5. ASSUME NEW r \in Requests PROVE ~CompleteMark(j, r)
  BY <1>1, <1>2 DEF CompleteMark, Agrees, HandlerAgrees
<1>6. ASSUME NEW o \in Starters PROVE ~MarkPending(j, o) /\ ~MarkRejected(j, o)
  BY <1>1, ValidatorRow DEF MarkPending, MarkRejected, At
<1>7. ASSUME NEW w \in Workers, worker[w].job = j, WMark(w) \/ WProgress(w) \/ WFail(w)
      PROVE  FALSE
  <2>1. CASE WMark(w)
    BY <1>1, <1>7, <2>1, WorkerHolds DEF WMark, On
  <2>2. CASE WProgress(w) \/ WFail(w)
    <3>1. worker[w].pc \in {"encode", "fail"}
      BY <2>2 DEF WProgress, WFail, On
    <3>2. worker[w].row = db[j] /\ db[j] = RowAs("processing")
      BY <1>1, <1>7, <3>1, WorkerHolds
    <3>3. Held(w, "failed") = RowAs("failed")
      BY <3>2, RowFacts DEF Held, Statuses
    <3>4. db' = db \/ Write(j, RowAs("processing")) \/ Write(j, RowAs("failed"))
      BY <1>7, <2>2, <3>2, <3>3 DEF WProgress, WFail, WriteErr
    <3> QED
      BY <1>3, <3>4, RowFacts
  <2> QED
    BY <1>7, <2>1, <2>2
<1>8. ASSUME BootReset(j) PROVE FALSE
  <2>1. redrive[j] = RowAs("processing")
    BY <1>1, <1>8, RecoveryHolds DEF BootReset, Interrupted
  <2>2. [redrive[j] EXCEPT !.status = "pending"] = RowAs("pending")
    BY <2>1, RowFacts DEF Statuses
  <2>3. db' = db \/ Write(j, RowAs("pending"))
    BY <1>8, <2>2 DEF BootReset, WriteErr
  <2> QED
    BY <1>3, <2>3, RowFacts
<1>9. ~BootFail(j)
  BY <1>1, RecoveryHolds DEF BootFail, Interrupted
<1>10. ASSUME NEW s \in Sweeps PROVE ~SweepRecord(s, j)
  <2>1. SweepRecord(s, j) => db' = db \/ Write(j, Absent)
    BY DEF SweepRecord, WriteErr
  <2> QED
    BY <1>3, <2>1 DEF Absent
<1> QED
  BY <1>4, <1>5, <1>6, <1>7, <1>8, <1>9, <1>10, Writers DEF RecordInv

\* A reaper that deletes outputs is at a job that ended long ago.
LEMMA OutsOfEnded ==
  ASSUME RecordInv, ObjectsKept, NEW s \in Sweeps, NEW j \in Jobs, SweepOuts(s, j)
  PROVE  /\ s = "expired" /\ sweep[s][j] # Absent
         /\ db[j] = Absent \/ db[j].status \in Terminal
         /\ age[j] \in Nat /\ age[j] >= 4
         /\ UNCHANGED <<db, age, worker>>
<1>1. sweeping[s] = [pc |-> "outs", job |-> j]
  BY DEF SweepOuts
<1>2. s = "expired"
  BY <1>1 DEF ObjectsKept
<1>3. sweep[s][j] # Absent
  BY <1>1 DEF RecordInv, Agreement, Agrees, ReaperAgrees, Busy
<1>4. db[j] = Absent \/ db[j].status \in Terminal
  BY <1>2, <1>3, ReaperHolds
<1>5. age[j] \in Nat /\ age[j] >= 4
  BY <1>2, <1>3, ReaperHolds DEF Old
<1>6. UNCHANGED <<db, age, worker>>
  BY DEF SweepOuts, records, clients
<1> QED
  BY <1>2, <1>3, <1>4, <1>5, <1>6

\* Whoever works on a job, before telling its end, works on an active one.
LEMMA WorksOnActive ==
  ASSUME RecordInv, NEW j \in Jobs, NEW w \in Workers, Working(j, w), worker[w].pc # "tell"
  PROVE  db[j].status \in {"pending", "processing"}
<1>1. worker[w].pc \in {"load", "mark", "fetch", "encode", "upload", "fail"} /\ worker[w].job = j
  <2>1. worker[w].pc \in WorkerSteps
    BY DEF RecordInv, TypeInv, TypeOK, Worker
  <2> QED
    BY <2>1 DEF Working, WorkerSteps
<1> QED
  BY <1>1, WorkerHolds

\* Every step keeps the outputs of a job.
LEMMA KeepsOutputs ==
  ASSUME RecordInv, Prompt, ObjectsKept, [Next]_vars, NEW j \in Jobs
  PROVE  OutputsKept(j)'
<1>t. TypeInv /\ out \in [Jobs -> SUBSET Renditions] /\ out' \in [Jobs -> SUBSET Renditions]
  BY NextInv DEF RecordInv, TypeInv, TypeOK
<1>k. OutputsKept(j)
  BY DEF ObjectsKept
<1>1. ASSUME NEW s \in Sweeps, SweepOuts(s, j) PROVE OutputsKept(j)'
  <2>1. \A w \in Workers : ~(Working(j, w) /\ worker[w].pc # "tell")
    BY <1>1, OutsOfEnded, WorksOnActive DEF Absent, Terminal
  <2>2. \A w \in Workers : ~(Working(j, w)' /\ worker'[w].pc # "tell")
    BY <1>1, <2>1, OutsOfEnded DEF Working
  <2>3. ~(age'[j] < Old)
    <3>1. age'[j] \in Nat /\ age'[j] >= 4
      BY <1>1, OutsOfEnded
    <3> QED
      BY <3>1 DEF Old
  <2> QED
    BY <2>2, <2>3 DEF OutputsKept
<1>2. CASE out[j] \subseteq out'[j]
  <2>1. ASSUME NEW w \in Workers, Working(j, w)', worker'[w].pc # "tell"
        PROVE  worker'[w].sent \subseteq out'[j]
    <3>1. CASE worker'[w] = worker[w]
      BY <1>k, <1>2, <2>1, <3>1 DEF OutputsKept, Working
    <3>2. CASE worker'[w] = IdleWorker
      BY <2>1, <3>2 DEF Working, IdleWorker
    <3>3. CASE Sends(w)
      <4>1. CASE worker[w].pc = "idle" /\ worker'[w].sent = worker[w].sent
        BY <4>1 DEF ObjectsKept
      <4>2. ASSUME worker[w].pc \notin {"idle", "quit", "tell"}, worker'[w].job = worker[w].job
            PROVE  worker[w].job = j /\ worker[w].sent \subseteq out[j]
        BY <1>k, <2>1, <4>2 DEF OutputsKept, Working
      <4>3. ASSUME NEW f \in Renditions, out' = [out EXCEPT ![j] = @ \cup {f}]
            PROVE  f \in out'[j]
        BY <1>t, <4>3
      <4> QED
        BY <1>2, <2>1, <3>3, <4>1, <4>2, <4>3 DEF Sends
    <3> QED
      BY <1>t, <3>1, <3>2, <3>3, WorkerChanges, WorkerSends
  <2>2. ASSUME db'[j].status = "completed", age'[j] < Old PROVE out'[j] = Renditions
    <3>1. CASE db'[j] = db[j]
      <4>1. age[j] < Old
        <5>1. age[j] \in Nat /\ age'[j] \in Nat /\ age[j] <= age'[j] /\ age'[j] < 4
          BY <1>t, <2>2, AgeGrows DEF Old
        <5> QED
          BY <5>1 DEF Old
      <4>2. out[j] = Renditions
        BY <1>k, <2>2, <3>1, <4>1 DEF OutputsKept
      <4>3. out'[j] \subseteq Renditions
        BY <1>t
      <4> QED
        BY <1>2, <4>2, <4>3
    <3>2. CASE db'[j] # db[j]
      <4>1. PICK w \in Workers : worker[w].job = j /\ WFinish(w)
        BY <2>2, <3>2, TurnsCompleted
      <4>2. worker[w].pc = "upload" /\ worker[w].sent = Renditions
        BY <4>1 DEF WFinish, On, AllSent
      <4>3. Renditions \subseteq out[j]
        BY <1>k, <4>1, <4>2 DEF OutputsKept, Working
      <4> QED
        BY <1>t, <1>2, <4>3
    <3> QED
      BY <3>1, <3>2
  <2> QED
    BY <2>1, <2>2 DEF OutputsKept
<1> QED
  BY <1>t, <1>1, <1>2, OutputsDeleted

\* Only the reaper of finished jobs deletes outputs.
LEMMA KeepsReapers ==
  ASSUME TypeInv, [Next]_vars, \A s \in Sweeps : sweeping[s].pc = "outs" => s = "expired"
  PROVE  \A s \in Sweeps : sweeping'[s].pc = "outs" => s = "expired"
<1>1. sweeping \in [Sweeps -> Sweeper]
  BY DEF TypeInv, TypeOK
<1>2. CASE UploadNext
  <2>1. Jobs # {}
    BY <1>2 DEF UploadNext
  <2> QED
    BY <1>2, <2>1, UploadFrame
<1>3. CASE RecoveryNext
  <2>1. CASE Exit \/ Crash
    BY <2>1 DEF Exit, Crash, Wipe, IdleSweeper
  <2>2. CASE ~(Exit \/ Crash)
    BY <1>3, <2>2 DEF RecoveryNext, MainStep, RecoverJob, BootList, BootServe, Stop, BootRequeue,
       BootSkip, BootReset, BootStat, BootFail, reapers
  <2> QED
    BY <2>1, <2>2
<1>4. ASSUME NEW s \in Sweeps, SweepList(s) \/ SweepStep(s)
      PROVE  \A x \in Sweeps : sweeping'[x].pc = "outs" => x = "expired"
  <2>1. CASE SweepList(s)
    BY <2>1 DEF SweepList
  <2>2. ASSUME NEW j \in Jobs, SweepRaw(s, j) \/ SweepOuts(s, j) \/ SweepRecord(s, j)
        PROVE  \A x \in Sweeps : sweeping'[x].pc = "outs" => x = "expired"
    <3>1. \/ Onto(s, j, "record") \/ Done(s, j)
          \/ s # "stale" /\ Onto(s, j, "outs")
      BY <2>2 DEF SweepRaw, SweepOuts, SweepRecord
    <3> QED
      BY <1>1, <3>1 DEF Onto, Done, IdleSweeper, Sweeps
  <2> QED
    BY <1>4, <2>1, <2>2 DEF SweepStep
<1>5. CASE WorkerPoolNext
  BY <1>5 DEF WorkerPoolNext, WorkerStep, WDequeue, WQuit, WLoad, WMark, WFetch, WProgress, WEncode,
     WPut, WFinish, WFail, WTell, reapers
<1>6. CASE UNCHANGED vars
  BY <1>6 DEF vars, reapers
<1> QED
  BY <1>2, <1>3, <1>4, <1>5, <1>6 DEF Next, RetentionNext

\* Every step keeps the objects.
LEMMA KeepsObjects ==
  ASSUME RecordInv, Prompt, ObjectsKept, [Next]_vars
  PROVE  ObjectsKept'
<1>1. \A j \in Jobs : UploadKept(j)' /\ OutputsKept(j)'
  BY KeepsUpload, KeepsOutputs DEF ObjectsKept
<1>2. ASSUME NEW w \in Workers, worker'[w].pc \in {"idle", "quit"} PROVE worker'[w].sent = {}
  <2>1. CASE worker'[w] = worker[w]
    BY <1>2, <2>1 DEF ObjectsKept
  <2>2. CASE worker'[w] = IdleWorker
    BY <2>2 DEF IdleWorker
  <2>3. CASE Sends(w)
    BY <1>2, <2>3 DEF Sends, ObjectsKept
  <2> QED
    BY <2>1, <2>2, <2>3, WorkerChanges, WorkerSends DEF RecordInv
<1>3. \A s \in Sweeps : sweeping'[s].pc = "outs" => s = "expired"
  BY KeepsReapers DEF ObjectsKept, RecordInv
<1> QED
  BY <1>1, <1>2, <1>3 DEF ObjectsKept

\* At first there are none to keep.
LEMMA InitObjects ==
  ASSUME Init
  PROVE  ObjectsKept
<1>1. ASSUME NEW j \in Jobs PROVE UploadKept(j) /\ OutputsKept(j)
  <2>1. db[j].status = "none" /\ NoProcess
    BY DEF Init, Absent, NoProcess
  <2>2. \A o \in Starters : validator[j][o].pc = "idle"
    BY <2>1 DEF NoProcess, NoGoroutines, IdleValidator
  <2>3. \A w \in Workers : worker[w].pc = "idle"
    BY <2>1 DEF NoProcess, NoGoroutines, IdleWorker
  <2> QED
    BY <2>1, <2>2, <2>3 DEF UploadKept, OutputsKept, Working
<1>2. \A w \in Workers : worker[w].sent = {}
  BY DEF Init, NoGoroutines, IdleWorker
<1>3. \A s \in Sweeps : sweeping[s].pc = "idle"
  BY DEF Init, IdleSweeper
<1> QED
  BY <1>1, <1>2, <1>3 DEF ObjectsKept

\* The inductive invariant of storage: every object that some record, owner or
\* reaper counts on is there, for any number of jobs, workers and renditions.
THEOREM ObjectsKeptCorrect ==
  ASSUME Prompt
  PROVE  Spec => [](RecordInv /\ ObjectsKept)
<1>1. Init => RecordInv /\ ObjectsKept
  BY InitInv, InitObjects
<1>2. RecordInv /\ ObjectsKept /\ [Next]_vars => (RecordInv /\ ObjectsKept)'
  BY NextInv, KeepsObjects
<1> QED
  BY <1>1, <1>2, PTL DEF Spec

\* The upload of a job that waits for a worker, or has one, is in storage,
\* through every crash and however slow its PUT: recovery can start again.
THEOREM RawSurvivesCorrect ==
  ASSUME Prompt
  PROVE  Spec => []RawSurvives
<1>1. ObjectsKept => RawSurvives
  BY DEF ObjectsKept, UploadKept, RawSurvives
<1> QED
  BY <1>1, ObjectsKeptCorrect, PTL

\* A completed job has all its renditions in storage until retention may take
\* it, and its record names them all.
THEOREM CompletedIsWholeCorrect ==
  ASSUME Prompt
  PROVE  Spec => []CompletedIsWhole
<1>1. RecordInv /\ ObjectsKept => CompletedIsWhole
  <2> SUFFICES ASSUME RecordInv, ObjectsKept, NEW j \in Jobs,
                      db[j].status = "completed", age[j] < Old
               PROVE  out[j] = Renditions /\ db[j].outs = Renditions
    BY DEF CompletedIsWhole
  <2>1. out[j] = Renditions
    BY DEF ObjectsKept, OutputsKept
  <2>2. db[j] = RowAs("completed")
    BY DEF RecordInv, Agreement, Agrees, SessionAgrees
  <2>3. db[j].outs = Renditions
    BY <2>2 DEF RowAs
  <2> QED
    BY <2>1, <2>3
<1> QED
  BY <1>1, ObjectsKeptCorrect, PTL

-----------------------------------------------------------------------------
(* What is left when a record is gone.                                     *)

\* A record goes by a create call that got no URL, or by a reaper.
LEMMA TurnsGone ==
  ASSUME RecordInv, [Next]_vars, NEW j \in Jobs,
         db'[j].status = "none", db[j].status # "none"
  PROVE  PresignError(j) \/ \E s \in Sweeps : SweepRecord(s, j)
<1>1. \A row : Write(j, row) => db'[j] = row
  BY DEF Write, RecordInv, TypeInv, TypeOK
<1>2. ASSUME NEW k \in Kinds PROVE ~CreateUpload(j, k)
  BY <1>1 DEF CreateUpload
<1>3. ASSUME NEW r \in Requests PROVE ~CompleteMark(j, r)
  <2>1. CompleteMark(j, r) => db' = db \/ Write(j, [status |-> "validating", outs |-> {}])
    BY DEF CompleteMark, WriteErr
  <2> QED
    BY <1>1, <2>1
<1>4. ASSUME NEW o \in Starters, MarkPending(j, o) \/ MarkRejected(j, o) PROVE FALSE
  <2>1. /\ [validator[j][o].row EXCEPT !.status = "pending"] = RowAs("pending")
        /\ [validator[j][o].row EXCEPT !.status = "failed"] = RowAs("failed")
    BY <1>4, ValidatorRow DEF MarkPending, MarkRejected, At
  <2>2. db' = db \/ Write(j, RowAs("pending")) \/ Write(j, RowAs("failed"))
    BY <1>4, <2>1 DEF MarkPending, MarkRejected, WriteErr
  <2> QED
    BY <1>1, <2>2, RowFacts
<1>5. ASSUME NEW w \in Workers, worker[w].job = j, WMark(w) \/ WProgress(w) \/ WFinish(w) \/ WFail(w)
      PROVE  FALSE
  <2>1. worker[w].pc \in {"mark", "encode", "upload", "fail"}
    BY <1>5 DEF WMark, WProgress, WFinish, WFail, On
  <2>2. worker[w].row = db[j] /\ (db[j] = RowAs("pending") \/ db[j] = RowAs("processing"))
    BY <1>5, <2>1, WorkerHolds
  <2>3. Held(w, "processing").status = "processing" /\ Held(w, "failed").status = "failed"
    BY <2>2 DEF Held, RowAs
  <2>4. db' = db \/ \E row : row.status # "none" /\ Write(j, row)
    <3>1. CASE WMark(w)
      BY <1>5, <2>3, <3>1 DEF WMark, WriteErr
    <3>2. CASE WProgress(w)
      BY <1>5, <2>2, <3>2, RowFacts DEF WProgress
    <3>3. CASE WFinish(w)
      BY <1>5, <3>3 DEF WFinish, WriteErr
    <3>4. CASE WFail(w)
      BY <1>5, <2>3, <3>4 DEF WFail, WriteErr
    <3> QED
      BY <1>5, <3>1, <3>2, <3>3, <3>4
  <2> QED
    BY <1>1, <2>4
<1>6. ASSUME BootReset(j) \/ BootFail(j) PROVE FALSE
  <2>1. redrive[j] = RowAs("processing") \/ redrive[j] = RowAs("validating")
    <3>1. \E status \in {"processing", "validating"} : Redriving(j, {status})
      BY <1>6 DEF BootReset, BootFail
    <3> QED
      BY <3>1, RecoveryHolds DEF Interrupted
  <2>2. /\ [redrive[j] EXCEPT !.status = "pending"] = RowAs("pending")
        /\ [redrive[j] EXCEPT !.status = "failed"] = RowAs("failed")
    BY <2>1, RowFacts DEF Statuses
  <2>3. db' = db \/ Write(j, RowAs("pending")) \/ Write(j, RowAs("failed"))
    BY <1>6, <2>2 DEF BootReset, BootFail, WriteErr
  <2> QED
    BY <1>1, <2>3, RowFacts
<1> QED
  BY <1>2, <1>3, <1>4, <1>5, <1>6, Writers DEF RecordInv

\* Nothing is added to the objects of a job but by a client with a URL, and by
\* a worker that encodes it.
LEMMA UploadGrows ==
  ASSUME TypeInv, [Next]_vars, NEW j \in Jobs, "slow" \notin Strays
  PROVE  \/ raw'[j] \in {raw[j], "none"}
         \/ session[j] = "open" /\ age[j] = Fresh /\ UNCHANGED <<db, age, session, sweep, sweeping>>
<1>t. raw \in [Jobs -> UploadedBytes \cup {"none"}]
  BY DEF TypeInv, TypeOK
<1>1. ASSUME NEW bytes \in Uploads, ClientPut(j, bytes)
      PROVE  session[j] = "open" /\ age[j] = Fresh /\ UNCHANGED <<db, age, session, sweep, sweeping>>
  BY <1>1 DEF ClientPut, records, clients, reapers
<1>2. ASSUME NEW o \in Starters, Discard(j, o) PROVE raw'[j] \in {raw[j], "none"}
  BY <1>t, <1>2 DEF Discard
<1>3. ASSUME NEW s \in Sweeps, SweepRaw(s, j) PROVE raw'[j] \in {raw[j], "none"}
  BY <1>t, <1>3 DEF SweepRaw
<1>4. CASE UploadNext
  BY <1>1, <1>2, <1>4, UploadFrame
<1>5. CASE WorkerPoolNext
  BY <1>5, WorkerFrame DEF WorkerPoolNext
<1>6. CASE RecoveryNext
  BY <1>6, RecoveryFrame
<1>7. CASE RetentionNext
  BY <1>3, <1>7, RetentionFrame DEF RetentionNext
<1>8. CASE UNCHANGED vars
  BY <1>8 DEF vars, objects
<1> QED
  BY <1>4, <1>5, <1>6, <1>7, <1>8 DEF Next

LEMMA OutputsGrow ==
  ASSUME RecordInv, [Next]_vars, NEW j \in Jobs
  PROVE  \/ out'[j] \subseteq out[j]
         \/ db[j].status = "processing" /\ UNCHANGED <<db, age, session, sweep, sweeping>>
<1>t. TypeInv /\ out \in [Jobs -> SUBSET Renditions]
  BY DEF RecordInv, TypeInv, TypeOK
<1>1. ASSUME NEW w \in Workers, NEW f \in Renditions, worker[w].job = j, WPut(w, f)
      PROVE  db[j].status = "processing" /\ UNCHANGED <<db, age, session, sweep, sweeping>>
  <2>1. worker[w].pc = "upload"
    BY <1>1 DEF WPut, On
  <2> QED
    BY <1>1, <2>1, WorkerHolds DEF WPut, records, clients, reapers
<1>2. ASSUME NEW s \in Sweeps, SweepOuts(s, j) PROVE out'[j] \subseteq out[j]
  <2>1. \E some : out' = [out EXCEPT ![j] = @ \ some]
    BY <1>2 DEF SweepOuts
  <2> QED
    BY <1>t, <2>1
<1>4. CASE UploadNext
  BY <1>t, <1>4, UploadFrame
<1>5. CASE WorkerPoolNext
  BY <1>t, <1>1, <1>5, WorkerFrame DEF WorkerPoolNext
<1>6. CASE RecoveryNext
  BY <1>t, <1>6, RecoveryFrame
<1>7. CASE RetentionNext
  BY <1>t, <1>2, <1>7, RetentionFrame DEF RetentionNext
<1>8. CASE UNCHANGED vars
  BY <1>8 DEF vars, objects
<1> QED
  BY <1>4, <1>5, <1>6, <1>7, <1>8 DEF Next

\* What a step does to a session: it opens for a client that gets its URL.
LEMMA SessionOpens ==
  ASSUME RecordInv, [Next]_vars, NEW j \in Jobs
  PROVE  /\ session'[j] # "open" => session[j] # "open"
         /\ session'[j] = "open" /\ session[j] # "open"
              => db[j].status = "uploading" /\ UNCHANGED <<db, age, raw, out>>
         /\ session'[j] = "open" /\ age'[j] = Fresh => age[j] = Fresh
         /\ kind'[j] # kind[j] => session[j] # "open" /\ UNCHANGED <<raw, out>>
<1>t. /\ TypeInv /\ session \in [Jobs -> {"none", "presign", "open", "lost"}]
      /\ age \in [Jobs -> Unborn .. Old]
  BY DEF RecordInv, TypeInv, TypeOK
<1>s. SessionAgrees(j)
  BY DEF RecordInv, Agreement, Agrees
<1>1. ASSUME NEW k \in Kinds, CreateUpload(j, k)
      PROVE  session[j] = "none" /\ session'[j] = "presign" /\ UNCHANGED <<raw, out>>
  BY <1>t, <1>s, <1>1 DEF CreateUpload, SessionAgrees, objects
<1>2. ASSUME PresignPut(j) PROVE db[j].status = "uploading" /\ UNCHANGED <<db, age, raw, out>>
  BY <1>s, <1>2 DEF PresignPut, SessionAgrees, records, objects
<1>3. ASSUME PresignError(j) PROVE session[j] = "presign" /\ session'[j] = "lost"
  BY <1>t, <1>3 DEF PresignError
<1>4. ASSUME Grow(j) PROVE age'[j] # Fresh
  <2>1. age[j] \in Nat /\ age[j] >= 1 /\ age'[j] = age[j] + 1
    BY <1>t, <1>4, AgeIsNat, ConstantsAssumption DEF Grow, Fresh, Old
  <2> QED
    BY <2>1 DEF Fresh
<1>5. CASE UploadNext
  <2>1. CASE \E k \in Kinds : CreateUpload(j, k)
    BY <1>1, <2>1
  <2>2. CASE PresignPut(j)
    BY <1>2, <2>2 DEF PresignPut, records
  <2>3. CASE PresignError(j)
    BY <1>3, <2>3 DEF PresignError
  <2>4. CASE session'[j] = session[j] /\ kind'[j] = kind[j] /\ (age'[j] = age[j] \/ Grow(j))
    BY <1>4, <2>4
  <2>5. /\ kind'[j] = kind[j] \/ \E k \in Kinds : CreateUpload(j, k)
        /\ age'[j] = age[j] \/ (\E k \in Kinds : CreateUpload(j, k)) \/ Grow(j)
        /\ \/ session'[j] = session[j]
           \/ (\E k \in Kinds : CreateUpload(j, k)) \/ PresignPut(j) \/ PresignError(j)
    BY <1>t, <1>5, UploadFrame
  <2> QED
    BY <2>1, <2>2, <2>3, <2>4, <2>5
<1>6. CASE WorkerPoolNext
  BY <1>t, <1>6, WorkerFrame DEF WorkerPoolNext
<1>7. CASE RecoveryNext
  <2>1. age' = age /\ kind' = kind
    BY <1>t, <1>7, RecoveryFrame
  <2>2. session'[j] = session[j] \/ (session[j] = "presign" /\ session'[j] = "lost")
    BY <1>t, <1>7, RecoveryFrame DEF Wipe
  <2> QED
    BY <2>1, <2>2
<1>8. CASE RetentionNext
  BY <1>t, <1>8, RetentionFrame DEF RetentionNext
<1>9. CASE UNCHANGED vars
  BY <1>9 DEF vars, clients, records
<1> QED
  BY <1>5, <1>6, <1>7, <1>8, <1>9 DEF Next

\* How a reaper comes to be at a job, and at its record.
LEMMA ReaperArrives ==
  ASSUME RecordInv, [Next]_vars, NEW j \in Jobs, NEW s \in Sweeps
  PROVE  /\ Busy(s)' /\ sweeping'[s].job = j
              => (Busy(s) /\ sweeping[s].job = j) \/ raw'[j] = "none"
         /\ s = "expired" /\ sweeping'[s] = [pc |-> "record", job |-> j]
              => \/ sweeping[s] = [pc |-> "record", job |-> j]
                 \/ kind[j] = "hls" => out'[j] = {}
<1>t. /\ TypeInv /\ sweeping \in [Sweeps -> Sweeper] /\ raw \in [Jobs -> UploadedBytes \cup {"none"}]
      /\ out \in [Jobs -> SUBSET Renditions]
  BY DEF RecordInv, TypeInv, TypeOK
<1>1. CASE sweeping'[s] = sweeping[s]
  BY <1>1 DEF Busy
<1>2. CASE sweeping'[s].pc = "idle"
  BY <1>2 DEF Busy
<1>3. ASSUME NEW k \in Jobs, SweepRaw(s, k), sweeping'[s].pc # "idle"
      PROVE  /\ sweeping'[s].job = j => raw'[j] = "none"
             /\ s = "expired" => sweeping'[s].pc = "outs"
  <2>1. /\ raw' = [raw EXCEPT ![k] = "none"]
        /\ Onto(s, k, IF s = "stale" THEN "record" ELSE "outs")
    BY <1>3, ReaperGoes DEF SweepRaw, RecordInv, Busy
  <2>2. sweeping'[s] = [pc |-> IF s = "stale" THEN "record" ELSE "outs", job |-> k]
    BY <1>t, <2>1, ReaperGoes
  <2> QED
    BY <1>t, <2>1, <2>2
<1>4. ASSUME NEW k \in Jobs, SweepOuts(s, k), sweeping'[s].pc # "idle"
      PROVE  /\ sweeping'[s].job = k /\ Busy(s) /\ sweeping[s].job = k
             /\ kind[k] = "hls" => out'[k] = {}
  <2>1. out' = [out EXCEPT ![k] = @ \ Doomed(s, k)] /\ Onto(s, k, "record")
    BY <1>4, ReaperGoes DEF SweepOuts, RecordInv, Busy
  <2>2. sweeping[s] = [pc |-> "outs", job |-> k] /\ sweeping'[s] = [pc |-> "record", job |-> k]
    BY <1>t, <1>4, <2>1, ReaperGoes DEF SweepOuts
  <2>3. kind[k] = "hls" => out'[k] = {}
    BY <1>t, <2>1 DEF Doomed
  <2> QED
    BY <2>2, <2>3 DEF Busy
<1>5. ASSUME NEW k \in Jobs, SweepRecord(s, k) PROVE sweeping'[s].pc = "idle"
  BY <1>t, <1>5, ReaperGoes DEF SweepRecord, Busy
<1>6. \/ sweeping'[s] = sweeping[s]
      \/ sweeping'[s].pc = "idle"
      \/ \E k \in Jobs : SweepRaw(s, k) \/ SweepOuts(s, k) \/ SweepRecord(s, k)
  <2>1. CASE UploadNext
    BY <1>t, <2>1, UploadFrame
  <2>2. CASE WorkerPoolNext
    BY <1>t, <2>2, WorkerFrame DEF WorkerPoolNext
  <2>3. CASE RecoveryNext
    <3>1. Wipe => sweeping'[s] = IdleSweeper
      BY DEF Wipe
    <3> QED
      BY <1>t, <2>3, <3>1, RecoveryFrame DEF IdleSweeper
  <2>4. CASE RetentionNext
    <3>1. PICK x \in Sweeps : SweepList(x) \/ SweepStep(x)
      BY <2>4 DEF RetentionNext
    <3>2. x # s => sweeping'[s] = sweeping[s]
      BY <1>t, <3>1, RetentionFrame
    <3>3. SweepList(s) => sweeping' = sweeping
      BY DEF SweepList
    <3> QED
      BY <3>1, <3>2, <3>3 DEF SweepStep
  <2>5. CASE UNCHANGED vars
    BY <2>5 DEF vars, reapers
  <2> QED
    BY <2>1, <2>2, <2>3, <2>4, <2>5 DEF Next
<1> QED
  BY <1>1, <1>2, <1>3, <1>4, <1>5, <1>6 DEF Busy

\* Every step leaves nothing behind: a reaper is only at sessions that no
\* client may PUT to any more, and at jobs that no worker has.
LEMMA KeepsNothing ==
  ASSUME RecordInv, Prompt, ObjectsKept, "slow" \notin Strays, [Next]_vars,
         NEW j \in Jobs, LeavesNothing(j)
  PROVE  LeavesNothing(j)'
<1>t. TypeInv /\ TypeInv' /\ db \in [Jobs -> Row]
  BY NextInv DEF RecordInv, TypeInv, TypeOK
<1>r. \A row : Write(j, row) => db'[j] = row
  BY <1>t DEF Write
<1>s. SessionAgrees(j) /\ \A s \in Sweeps : ReaperAgrees(j, s)
  BY DEF RecordInv, Agreement, Agrees
<1>a. \A s \in Sweeps : Busy(s) /\ sweeping[s].job = j
        => /\ age[j] # Fresh
           /\ db[j] = Absent \/ db[j].status = "uploading" \/ db[j].status \in Terminal
           /\ s = "expired" => db[j].status # "uploading"
           /\ s = "stale" => db[j].status \notin Terminal
  <2> SUFFICES ASSUME NEW s \in Sweeps, sweep[s][j] # Absent
               PROVE  /\ age[j] # Fresh
                      /\ db[j] = Absent \/ db[j].status = "uploading" \/ db[j].status \in Terminal
                      /\ s = "expired" => db[j].status # "uploading"
                      /\ s = "stale" => db[j].status \notin Terminal
    BY <1>s DEF ReaperAgrees
  <2>1. age[j] # Fresh
    BY ReaperHolds DEF Fresh, Stale
  <2>2. /\ db[j] = Absent \/ (s = "stale" /\ db[j].status = "uploading")
                          \/ (s = "expired" /\ db[j].status \in Terminal)
    BY ReaperHolds
  <2> QED
    BY <2>1, <2>2 DEF Absent, Terminal
<1>1. session'[j] # "open" => raw'[j] = "none" /\ out'[j] = {}
  <2> SUFFICES ASSUME session'[j] # "open" PROVE raw'[j] = "none" /\ out'[j] = {}
    OBVIOUS
  <2>1. session[j] # "open" /\ raw[j] = "none" /\ out[j] = {}
    BY SessionOpens DEF LeavesNothing
  <2>2. raw'[j] = "none"
    BY <1>t, <2>1, UploadGrows
  <2>3. db[j].status # "processing"
    BY <1>s, <2>1 DEF SessionAgrees
  <2> QED
    BY <2>1, <2>2, <2>3, OutputsGrow
<1>2. db'[j].status = "uploading" => out'[j] = {}
  <2> SUFFICES ASSUME db'[j].status = "uploading" PROVE out'[j] = {}
    OBVIOUS
  <2>1. db[j].status = "uploading" \/ age[j] = Unborn
    <3>1. \A to : Arrow(db[j].status, to) => to # "uploading"
      BY DEF Arrow, Terminal
    <3> QED
      BY <3>1, NextInv, RecordStep, RowFacts
  <2>2. out[j] = {}
    BY <1>s, <2>1 DEF SessionAgrees, LeavesNothing
  <2> QED
    BY <2>2, OutputsGrow
<1>3. session'[j] = "open" /\ age'[j] = Fresh => db'[j].status # "none"
  <2> SUFFICES ASSUME session'[j] = "open", age'[j] = Fresh, db'[j].status = "none" PROVE FALSE
    OBVIOUS
  <2>1. \/ age[j] = Fresh /\ session[j] = "open"
        \/ db[j].status = "uploading" /\ db' = db
    BY SessionOpens
  <2>2. session[j] = "open" /\ db[j].status # "none"
    BY <2>1 DEF LeavesNothing
  <2>3. ~PresignError(j)
    BY <2>2 DEF PresignError
  <2>4. ASSUME NEW s \in Sweeps PROVE ~SweepRecord(s, j)
    BY <1>a, <2>1, <2>2, SessionOpens DEF SweepRecord, Busy
  <2> QED
    BY <2>2, <2>3, <2>4, TurnsGone
<1>4. ASSUME NEW s \in Sweeps, Busy(s)', sweeping'[s].job = j PROVE raw'[j] = "none"
  <2>1. CASE Busy(s) /\ sweeping[s].job = j
    BY <1>t, <1>a, <2>1, UploadGrows DEF LeavesNothing
  <2> QED
    BY <1>4, <2>1, ReaperArrives
<1>5. ASSUME sweeping'["expired"] = [pc |-> "record", job |-> j], kind'[j] = "hls"
      PROVE  out'[j] = {}
  <2>1. CASE kind'[j] # kind[j]
    BY <2>1, SessionOpens DEF LeavesNothing
  <2>2. CASE sweeping["expired"] = [pc |-> "record", job |-> j] /\ kind'[j] = kind[j]
    <3>1. out[j] = {}
      BY <1>5, <2>2 DEF LeavesNothing
    <3>2. db[j].status # "processing"
      BY <1>a, <2>2 DEF Busy, Sweeps, Absent, Terminal
    <3> QED
      BY <3>1, <3>2, OutputsGrow
  <2> QED
    BY <1>5, <2>1, <2>2, ReaperArrives DEF Sweeps
<1>6. ASSUME Gone(j)' PROVE raw'[j] = "none" /\ (kind'[j] = "hls" => out'[j] = {})
  <2>1. db'[j].status = "none" /\ age'[j] # Unborn
    BY <1>6 DEF Gone, Absent
  <2>2. CASE db[j].status # "none"
    <3>1. CASE PresignError(j)
      <4>1. session[j] # "open" /\ raw' = raw /\ out' = out
        BY <3>1 DEF PresignError, objects
      <4> QED
        BY <4>1 DEF LeavesNothing
    <3>2. ASSUME NEW s \in Sweeps, SweepRecord(s, j)
          PROVE  raw'[j] = "none" /\ (kind'[j] = "hls" => out'[j] = {})
      <4>1. /\ sweeping[s] = [pc |-> "record", job |-> j]
            /\ raw' = raw /\ out' = out /\ kind' = kind
        BY <3>2 DEF SweepRecord, objects
      <4>2. raw[j] = "none"
        BY <4>1 DEF LeavesNothing, Busy
      <4>3. s = "stale" => db[j].status = "uploading"
        BY <1>a, <2>2, <4>1 DEF Busy, Absent
      <4>4. kind[j] = "hls" => out[j] = {}
        BY <4>1, <4>3 DEF LeavesNothing, Sweeps
      <4> QED
        BY <4>1, <4>2, <4>4
    <3> QED
      BY <2>1, <2>2, <3>1, <3>2, TurnsGone
  <2>3. CASE db[j].status = "none"
    <3>1. db[j] = Absent
      BY <1>s, <2>3, RowFacts DEF SessionAgrees
    <3>2. CASE age[j] # Unborn
      <4>1. raw[j] = "none" /\ (kind[j] = "hls" => out[j] = {})
        BY <3>1, <3>2 DEF LeavesNothing, Gone
      <4>2. ~(session[j] = "open" /\ age[j] = Fresh)
        BY <2>3 DEF LeavesNothing
      <4>3. raw'[j] = "none" /\ out'[j] \subseteq out[j]
        BY <1>t, <2>3, <4>1, <4>2, UploadGrows, OutputsGrow
      <4>4. kind'[j] # kind[j] => out'[j] = {}
        BY SessionOpens DEF LeavesNothing
      <4> QED
        BY <4>1, <4>3, <4>4
    <3>3. CASE age[j] = Unborn
      <4>1. session[j] = "none" /\ raw[j] = "none" /\ out[j] = {}
        BY <1>s, <3>3 DEF SessionAgrees, LeavesNothing
      <4> QED
        BY <1>t, <2>3, <4>1, UploadGrows, OutputsGrow
    <3> QED
      BY <3>2, <3>3
  <2> QED
    BY <2>2, <2>3
<1> QED
  BY <1>1, <1>2, <1>3, <1>4, <1>5, <1>6 DEF LeavesNothing

\* At first there is nothing to leave.
LEMMA InitNothing ==
  ASSUME Init
  PROVE  NothingLeft
<1> SUFFICES ASSUME NEW j \in Jobs PROVE LeavesNothing(j)
  BY DEF NothingLeft
<1>1. db[j].status = "none" /\ raw[j] = "none" /\ out[j] = {} /\ session[j] = "none"
  BY DEF Init, Absent
<1> QED
  BY <1>1 DEF LeavesNothing

\* The inductive invariant of what is gone: nothing is stored before a client
\* has its URL, and nothing comes back behind a reaper, until its record has
\* gone too.
THEOREM NothingLeftCorrect ==
  ASSUME Prompt, "slow" \notin Strays
  PROVE  Spec => []NothingLeft
<1>1. Init => NothingLeft
  BY InitNothing
<1>2. RecordInv /\ ObjectsKept /\ NothingLeft /\ [Next]_vars => NothingLeft'
  BY KeepsNothing DEF NothingLeft
<1> QED
  BY <1>1, <1>2, ObjectsKeptCorrect, PTL DEF Spec

\* When a record is gone so is its upload, and the whole tree of an HLS job,
\* through every crash and every failed deletion, if every PUT lands before
\* its URL expires.
THEOREM UploadsAndTreesGoneCorrect ==
  ASSUME Prompt, "slow" \notin Strays
  PROVE  Spec => []UploadsAndTreesGone
<1>1. NothingLeft => UploadsAndTreesGone
  BY DEF NothingLeft, LeavesNothing, UploadsAndTreesGone
<1> QED
  BY <1>1, NothingLeftCorrect, PTL

-----------------------------------------------------------------------------
(* What was published.                                                     *)

\* The inductive form of AnnouncedEnds.
Truthful ==
  /\ \A j \in Jobs : age[j] = Unborn => told[j] = {}
  /\ AnnouncedEnds

\* What may be published of a job whose record has this status.
MayTell(end, status) ==
  \/ status \in {end, "none"}
  \/ end = "failed" /\ status = "pending"

\* What is published is what the record says, at the moment it is; but a
\* validation that gives up leaves the record pending.
LEMMA TellsTruth ==
  ASSUME RecordInv, [Next]_vars, NEW j \in Jobs, told'[j] # told[j]
  PROVE  \E end \in Terminal :
           /\ told'[j] = told[j] \cup {end}
           /\ MayTell(end, db[j].status)
           /\ age[j] # Unborn /\ UNCHANGED <<db, age>>
<1>t. TypeInv /\ \A status : Tell(j, status) => told'[j] = told[j] \cup {status}
  BY DEF Tell, RecordInv, TypeInv, TypeOK
<1>1. ASSUME NEW o \in Starters, GiveUp(j, o) \/ TellRejected(j, o)
      PROVE  /\ told'[j] = told[j] \cup {"failed"} /\ db[j].status \in {"failed", "none", "pending"}
             /\ age[j] # Unborn /\ UNCHANGED <<db, age>>
  <2>1. /\ validator[j][o].pc \in {"enqueue", "failtell"}
        /\ Tell(j, "failed") /\ UNCHANGED <<db, age>>
    BY <1>1 DEF GiveUp, TellRejected, At, records, clients
  <2>2. db[j].status \in {"failed", "none", "pending"}
    BY <2>1 DEF RecordInv, Agreement, Agrees, ValidatorAgrees
  <2>3. age[j] # Unborn
    BY <2>1, OnlyOwner DEF RecordInv, Validating, Ownership, Handover
  <2> QED
    BY <1>t, <2>1, <2>2, <2>3
<1>2. ASSUME NEW w \in Workers, worker[w].job = j, WTell(w)
      PROVE  /\ worker[w].row.status \in Terminal
             /\ told'[j] = told[j] \cup {worker[w].row.status}
             /\ db[j].status \in {worker[w].row.status, "none"}
             /\ age[j] # Unborn /\ UNCHANGED <<db, age>>
  <2>1. worker[w].pc = "tell" /\ Tell(j, worker[w].row.status) /\ UNCHANGED <<db, age>>
    BY <1>2 DEF WTell, On, records, clients
  <2>2. worker[w].row.status \in Terminal
    BY <2>1 DEF RecordInv, TypeInv, WorkersSound, Sound
  <2>3. Working(j, w) /\ db[j] \in {worker[w].row, Absent}
    BY <1>2, <2>1, WorkerHolds
  <2>4. age[j] # Unborn
    BY <2>3, OnlyOwner DEF RecordInv, Ownership, Handover
  <2> QED
    BY <1>t, <2>1, <2>2, <2>3, <2>4 DEF Absent
<1>3. CASE UploadNext
  BY <1>t, <1>1, <1>3, UploadFrame DEF Terminal, MayTell
<1>4. CASE WorkerPoolNext
  BY <1>t, <1>2, <1>4, WorkerFrame DEF WorkerPoolNext, MayTell
<1>5. CASE RecoveryNext
  BY <1>t, <1>5, RecoveryFrame
<1>6. CASE RetentionNext
  BY <1>t, <1>6, RetentionFrame DEF RetentionNext
<1>7. CASE UNCHANGED vars
  BY <1>7 DEF vars
<1> QED
  BY <1>3, <1>4, <1>5, <1>6, <1>7 DEF Next

\* And it stays so: a record never goes back to its validation, and one that
\* is completed stays so until it is removed.
LEMMA KeepsTruth ==
  ASSUME RecordInv, Prompt, Truthful, [Next]_vars
  PROVE  Truthful'
<1>t. TypeInv /\ told \in [Jobs -> SUBSET Terminal]
  BY DEF RecordInv, TypeInv, TypeOK
<1>1. ASSUME NEW j \in Jobs, age'[j] = Unborn PROVE told'[j] = {}
  <2>1. age[j] \in Nat /\ age'[j] = 0 /\ age[j] <= age'[j]
    BY <1>t, <1>1, AgeGrows DEF Unborn
  <2>2. age[j] = Unborn
    BY <2>1 DEF Unborn
  <2> QED
    BY <2>2, TellsTruth DEF Truthful
<1>2. ASSUME NEW j \in Jobs, told'[j] = told[j], told[j] # {}
      PROVE  /\ db[j].status \in {"completed", "none"} => db'[j].status \in {"completed", "none"}
             /\ db[j].status \notin {"uploading", "validating"}
                  => db'[j].status \notin {"uploading", "validating"}
  <2>1. age[j] # Unborn
    BY <1>2 DEF Truthful
  <2>2. \/ db'[j] = db[j]
        \/ \E to \in Statuses \cup {"none"} : Arrow(db[j].status, to) /\ db'[j] = RowAs(to)
    BY <2>1, NextInv, RecordStep
  <2>3. \A to : Arrow(db[j].status, to) =>
          /\ db[j].status \in {"completed", "none"} => to = "none"
          /\ db[j].status \notin {"uploading", "validating"} => to \notin {"uploading", "validating"}
    BY DEF Arrow, Terminal
  <2>4. \A to : RowAs(to).status = to
    BY DEF RowAs
  <2> QED
    BY <2>2, <2>3, <2>4
<1>3. ASSUME NEW j \in Jobs
      PROVE  /\ "completed" \in told'[j] => db'[j].status \in {"completed", "none"}
             /\ "failed" \in told'[j] => db'[j].status \notin {"uploading", "validating"}
  <2>0. /\ "completed" \in told[j] => db[j].status \in {"completed", "none"}
        /\ "failed" \in told[j] => db[j].status \notin {"uploading", "validating"}
    BY DEF Truthful, AnnouncedEnds
  <2>1. CASE told'[j] # told[j]
    <3>1. PICK end \in Terminal :
            /\ told'[j] = told[j] \cup {end} /\ MayTell(end, db[j].status) /\ db' = db
      BY <2>1, TellsTruth
    <3>2. end = "completed" => db[j].status \in {"completed", "none"}
      BY <3>1 DEF MayTell
    <3>3. CASE end = "completed"
      BY <2>0, <3>1, <3>2, <3>3
    <3>4. CASE end = "failed"
      BY <2>0, <3>1, <3>4 DEF MayTell
    <3> QED
      BY <3>3, <3>4 DEF Terminal
  <2>2. CASE told'[j] = told[j]
    BY <1>2, <2>0, <2>2
  <2> QED
    BY <2>1, <2>2
<1> QED
  BY <1>1, <1>3 DEF Truthful, AnnouncedEnds

\* A job that was announced complete is complete until retention removes it,
\* and one that was announced failed is past its validation: through every
\* failed write, crash and deadline, no end is published of a job whose record
\* the same goroutine left unsettled.
THEOREM AnnouncedEndsCorrect ==
  ASSUME Prompt
  PROVE  Spec => []AnnouncedEnds
<1>1. Init => RecordInv /\ Truthful
  <2>1. Init => Truthful
    BY DEF Init, Truthful, AnnouncedEnds
  <2> QED
    BY <2>1, InitInv
<1>2. RecordInv /\ Truthful /\ [Next]_vars => (RecordInv /\ Truthful)'
  BY NextInv, KeepsTruth
<1>3. Truthful => AnnouncedEnds
  BY DEF Truthful
<1> QED
  BY <1>1, <1>2, <1>3, PTL DEF Spec

-----------------------------------------------------------------------------
(* The upload during its validation, when clients upload videos.           *)

\* What a complete call has seen, and what a validation that found no fault
\* can know: the upload is there, and only a deadline has it "discard".
SeenVideo(j) ==
  /\ (db[j].status = "validating" \/ \E r \in Requests : handler[j][r] = "mark") => raw[j] = "video"
  /\ \A o \in Starters : validator[j][o].pc = "discard" => validator[j][o].late = TRUE

\* The inductive form of RealVideoKept.
VideosKept ==
  /\ \A j \in Jobs : raw[j] \in {"none", "video"}
  /\ faults = 0 => \A j \in Jobs : SeenVideo(j)

\* Faults are counted up, by a call that fails.
LEMMA FaultsGrow ==
  ASSUME TypeInv, [Next]_vars, faults' = 0
  PROVE  faults = 0
<1>1. faults \in Nat
  BY DEF TypeInv, TypeOK
<1>s. \A k, done : StoreOK(k, done) \/ StoreErr(k, done) => faults' \in {faults, faults + 1}
  BY DEF StoreOK, StoreErr, Succeeds, Fails
<1>w. \A k, row, done : WriteErr(k, row, done) => faults' \in {faults, faults + 1}
  BY <1>s DEF WriteErr
<1>c. \A done : Succeeds(done) \/ Fails(done) => faults' \in {faults, faults + 1}
  BY DEF Succeeds, Fails
<1>3. CASE UploadNext
  <2>1. PICK k \in Jobs :
          \/ \E kd \in Kinds : CreateUpload(k, kd)
          \/ PresignPut(k) \/ PresignError(k)
          \/ \E bytes \in Uploads : ClientPut(k, bytes)
          \/ Grow(k)
          \/ \E r \in Requests : CompleteLoad(k, r) \/ HandlerStep(k, r)
          \/ \E o \in Starters : Deadline(k, o) \/ ValidatorStep(k, o)
    BY <1>3 DEF UploadNext
  <2>2. ASSUME \/ \E kd \in Kinds : CreateUpload(k, kd)
               \/ PresignPut(k) \/ PresignError(k)
               \/ \E bytes \in Uploads : ClientPut(k, bytes)
               \/ Grow(k)
        PROVE  faults' \in {faults, faults + 1}
    BY <1>c, <2>2 DEF CreateUpload, PresignPut, PresignError, ClientPut, Grow
  <2>3. ASSUME NEW r \in Requests, CompleteLoad(k, r) \/ HandlerStep(k, r)
        PROVE  faults' \in {faults, faults + 1}
    BY <1>s, <1>w, <1>c, <2>3 DEF HandlerStep, CompleteLoad, CompleteStat, CompleteMark,
       CompleteSpawn, CompletePanic
  <2>4. ASSUME NEW o \in Starters, Deadline(k, o) \/ ValidatorStep(k, o)
        PROVE  faults' \in {faults, faults + 1}
    BY <1>s, <1>w, <1>c, <2>4 DEF Deadline, ValidatorStep, Probe, Load, MarkPending, Enqueue, GiveUp,
       Discard, Reload, MarkRejected, TellRejected
  <2> QED
    BY <1>1, <2>1, <2>2, <2>3, <2>4
<1>4. ASSUME NEW w \in Workers, WorkerStep(w) \/ WProgress(w)
      PROVE  faults' \in {faults, faults + 1}
  BY <1>s, <1>w, <1>c, <1>4 DEF WorkerStep, WDequeue, WQuit, WLoad, WMark, WFetch, WProgress, WEncode,
     WPut, WFinish, WFail, WTell
<1>5. CASE RecoveryNext
  <2>1. ASSUME NEW k \in Jobs, RecoverJob(k) PROVE faults' \in {faults, faults + 1}
    BY <1>s, <1>w, <1>c, <2>1 DEF RecoverJob, BootRequeue, BootSkip, BootReset, BootStat, BootFail
  <2>2. CASE BootList \/ BootServe \/ Stop \/ Exit \/ Crash
    BY <2>2 DEF BootList, BootServe, Stop, Exit, Crash, Wipe
  <2> QED
    BY <1>1, <1>5, <2>1, <2>2 DEF RecoveryNext, MainStep
<1>6. ASSUME NEW s \in Sweeps, SweepList(s) \/ SweepStep(s)
      PROVE  faults' \in {faults, faults + 1}
  BY <1>s, <1>w, <1>c, <1>6 DEF SweepList, SweepStep, SweepRaw, SweepOuts, SweepRecord
<1>7. CASE UNCHANGED vars
  BY <1>7 DEF vars
<1> QED
  BY <1>1, <1>3, <1>4, <1>5, <1>6, <1>7 DEF Next, WorkerPoolNext, RetentionNext

\* The bytes in storage are those of a PUT.
LEMMA OnlyVideos ==
  ASSUME TypeInv, Uploads = {"video"}, [Next]_vars, NEW j \in Jobs, raw[j] \in {"none", "video"}
  PROVE  raw'[j] \in {"none", "video"}
<1>1. raw \in [Jobs -> UploadedBytes \cup {"none"}]
  BY DEF TypeInv, TypeOK
<1>2. ASSUME NEW bytes \in Uploads, ClientPut(j, bytes) PROVE raw'[j] = "video"
  BY <1>1, <1>2 DEF ClientPut
<1>3. ASSUME NEW o \in Starters, Discard(j, o) PROVE raw'[j] \in {raw[j], "none"}
  BY <1>1, <1>3 DEF Discard
<1>4. ASSUME NEW s \in Sweeps, SweepRaw(s, j) PROVE raw'[j] \in {raw[j], "none"}
  BY <1>1, <1>4 DEF SweepRaw
<1>5. CASE UploadNext
  BY <1>2, <1>3, <1>5, UploadFrame
<1>6. CASE WorkerPoolNext
  BY <1>6, WorkerFrame DEF WorkerPoolNext
<1>7. CASE RecoveryNext
  BY <1>7, RecoveryFrame
<1>8. CASE RetentionNext
  BY <1>4, <1>8, RetentionFrame DEF RetentionNext
<1>9. CASE UNCHANGED vars
  BY <1>9 DEF vars, objects
<1> QED
  BY <1>5, <1>6, <1>7, <1>8, <1>9 DEF Next

\* A complete call that is about to mark its job has seen the upload.
LEMMA SeesUpload ==
  ASSUME TypeInv, [Next]_vars, NEW j \in Jobs, NEW r \in Requests, handler'[j][r] = "mark"
  PROVE  \/ handler[j][r] = "mark"
         \/ raw[j] \in {"junk", "video"} /\ raw' = raw
<1>1. handler \in [Jobs -> [Requests -> HandlerSteps]]
  BY DEF TypeInv, TypeOK
<1> USE DEF uploading, main, objects
<1>2. ASSUME NEW k \in Jobs, NEW q \in Requests, CompleteStat(k, q)
      PROVE  \/ handler[j][r] = "mark"
             \/ raw[j] \in {"junk", "video"} /\ raw' = raw
  <2>1. raw' = raw
    BY <1>2 DEF CompleteStat
  <2>2. \/ raw[k] \in {"junk", "video"} /\ GoTo(k, q, "mark")
        \/ GoTo(k, q, "idle")
    BY <1>2 DEF CompleteStat
  <2> QED
    BY <1>1, <2>1, <2>2 DEF GoTo
<1>3. ASSUME NEW k \in Jobs, NEW q \in Requests,
             CompleteLoad(k, q) \/ CompleteMark(k, q) \/ CompleteSpawn(k, q) \/ CompletePanic(k, q)
      PROVE  handler[j][r] = "mark"
  <2>1. GoTo(k, q, "stat") \/ GoTo(k, q, "spawn") \/ GoTo(k, q, "idle")
    BY <1>3 DEF CompleteLoad, CompleteMark, CompleteSpawn, CompletePanic
  <2> QED
    BY <1>1, <2>1 DEF GoTo
<1>4. CASE UploadNext
  <2>1. PICK k \in Jobs :
          \/ \E kd \in Kinds : CreateUpload(k, kd)
          \/ PresignPut(k) \/ PresignError(k)
          \/ \E bytes \in Uploads : ClientPut(k, bytes)
          \/ Grow(k)
          \/ \E q \in Requests : CompleteLoad(k, q) \/ HandlerStep(k, q)
          \/ \E o \in Starters : Deadline(k, o) \/ ValidatorStep(k, o)
    BY <1>4 DEF UploadNext
  <2>2. CASE \/ \E kd \in Kinds : CreateUpload(k, kd)
             \/ PresignPut(k) \/ PresignError(k)
             \/ \E bytes \in Uploads : ClientPut(k, bytes)
             \/ Grow(k)
    BY <2>2 DEF CreateUpload, PresignPut, PresignError, ClientPut, Grow
  <2>3. CASE \E q \in Requests : CompleteLoad(k, q) \/ HandlerStep(k, q)
    BY <1>2, <1>3, <2>3 DEF HandlerStep
  <2>4. CASE \E o \in Starters : Deadline(k, o) \/ ValidatorStep(k, o)
    BY <2>4 DEF Deadline, ValidatorStep, Probe, Load, MarkPending, Enqueue, GiveUp,
       Discard, Reload, MarkRejected, TellRejected
  <2> QED
    BY <2>1, <2>2, <2>3, <2>4
<1>5. ASSUME NEW w \in Workers, WorkerStep(w) \/ WProgress(w) PROVE handler' = handler
  BY <1>5 DEF WorkerStep, WDequeue, WQuit, WLoad, WMark, WFetch, WProgress, WEncode,
     WPut, WFinish, WFail, WTell
<1>6. CASE RecoveryNext
  <2>1. handler' = handler \/ Wipe
    BY <1>6 DEF RecoveryNext, MainStep, RecoverJob, BootList, BootRequeue, BootSkip, BootReset,
       BootStat, BootFail, BootServe, Stop, Exit, Crash
  <2> QED
    BY <2>1 DEF Wipe, NoGoroutines
<1>7. CASE RetentionNext
  BY <1>7 DEF RetentionNext, SweepList, SweepStep, SweepRaw, SweepOuts, SweepRecord
<1>8. CASE UNCHANGED vars
  BY <1>8 DEF vars
<1> QED
  BY <1>4, <1>5, <1>6, <1>7, <1>8 DEF Next, WorkerPoolNext

\* Only a complete call sends a job to its validation.
LEMMA TurnsValidating ==
  ASSUME RecordInv, Prompt, [Next]_vars, NEW j \in Jobs, db'[j].status = "validating"
  PROVE  \/ db[j].status = "validating"
         \/ \E r \in Requests : CompleteMark(j, r)
<1> SUFFICES ASSUME db[j].status # "validating" PROVE \E r \in Requests : CompleteMark(j, r)
  OBVIOUS
<1>1. db[j].status = "uploading" /\ db'[j] # db[j]
  <2>1. \A to : Arrow(db[j].status, to) /\ to = "validating" => db[j].status = "uploading"
    BY DEF Arrow, Terminal
  <2> QED
    BY <2>1, NextInv, RecordStep, RowFacts
<1>2. Agrees(j) /\ age[j] # Unborn /\ ~Owned(j) /\ db \in [Jobs -> Row]
  BY <1>1 DEF RecordInv, Agreement, Ownership, Handover, TypeInv, TypeOK
<1>3. NoValidator(j) /\ NoWorker(j) /\ ~Awaiting(j)
  BY <1>2, OnlyOwner DEF RecordInv
<1>4. \A k \in Kinds : ~CreateUpload(j, k)
  BY <1>2 DEF CreateUpload
<1>5. ~Write(j, Absent)
  BY <1>1, <1>2 DEF Write, Absent
<1>6. ~PresignError(j)
  BY <1>1, <1>5 DEF PresignError
<1>7. ASSUME NEW o \in Starters PROVE ~MarkPending(j, o) /\ ~MarkRejected(j, o)
  BY <1>3 DEF MarkPending, MarkRejected, At, NoValidator, Validating
<1>8. ASSUME NEW w \in Workers, worker[w].job = j, WMark(w) \/ WProgress(w) \/ WFinish(w) \/ WFail(w)
      PROVE  FALSE
  BY <1>3, <1>8 DEF WMark, WProgress, WFinish, WFail, On, NoWorker, Working
<1>9. ~BootReset(j) /\ ~BootFail(j)
  BY <1>3, RecoveryHolds DEF BootReset, BootFail, Interrupted
<1>10. \A s \in Sweeps : ~SweepRecord(s, j)
  BY <1>1, <1>5 DEF SweepRecord, WriteErr
<1> QED
  BY <1>1, <1>4, <1>6, <1>7, <1>8, <1>9, <1>10, Writers DEF RecordInv

\* A validation whose video is there discards it only when it is out of time.
LEMMA DiscardsLate ==
  ASSUME TypeInv, [Next]_vars, NEW j \in Jobs, NEW o \in Starters, faults' = 0,
         validator[j][o].pc = "probe" => raw[j] = "video",
         validator[j][o].pc = "discard" => validator[j][o].late = TRUE,
         validator'[j][o].pc = "discard"
  PROVE  validator'[j][o].late = TRUE
<1>1. validator \in [Jobs -> [Starters -> Validator]] /\ faults \in Nat
  BY DEF TypeInv, TypeOK
<1>2. ASSUME NEW step, Step(j, o, step)
      PROVE  validator'[j][o].pc = step /\ validator'[j][o].late = validator[j][o].late
  <2>1. validator'[j][o] = [validator[j][o] EXCEPT !.pc = step]
    BY <1>1, <1>2 DEF Step
  <2>2. validator[j][o] \in Validator
    BY <1>1
  <2> QED
    BY <2>1, <2>2 DEF Validator
<1>3. CASE validator'[j][o] = validator[j][o]
  BY <1>3
<1>4. CASE validator'[j][o] = [IdleValidator EXCEPT !.pc = "probe"]
  BY <1>4 DEF IdleValidator
<1>5. CASE Probe(j, o)
  <2>1. CASE Step(j, o, "load")
    BY <1>2, <2>1
  <2>2. CASE Step(j, o, "discard") /\ Fails(Late(j, o))
    <3>1. Late(j, o)
      BY <1>1, <2>2 DEF Fails
    <3>2. validator[j][o].late = TRUE
      BY <1>1, <3>1 DEF Late, Validator
    <3> QED
      BY <1>2, <2>2, <3>2
  <2> QED
    BY <1>5, <2>1, <2>2 DEF Probe, At
<1>6. CASE Deadline(j, o)
  <2>1. validator'[j][o] = [validator[j][o] EXCEPT !.late = TRUE]
    BY <1>1, <1>6 DEF Deadline
  <2>2. validator[j][o] \in Validator
    BY <1>1
  <2> QED
    BY <2>1, <2>2 DEF Validator
<1>7. CASE ValidatorStep(j, o) /\ ~Probe(j, o)
  <2>1. \/ \E step \in {"enqueue", "reload", "failtell"} : Step(j, o, step)
        \/ Read(j, o, "pend") \/ Read(j, o, "failmark") \/ Return(j, o)
    BY <1>7 DEF ValidatorStep, Load, MarkPending, Enqueue, GiveUp, Discard, Reload, MarkRejected, TellRejected
  <2> QED
    BY <1>1, <2>1, ValidatorGoes
<1>8. CASE UploadNext
  <2>1. CASE CompleteSpawn(j, o)
    <3>1. validator' = [validator EXCEPT ![j][o] = [IdleValidator EXCEPT !.pc = "probe"]]
      BY <2>1 DEF CompleteSpawn
    <3> QED
      BY <1>1, <1>4, <3>1
  <2> QED
    BY <1>3, <1>5, <1>6, <1>7, <1>8, <2>1, UploadFrame
<1>9. CASE WorkerPoolNext
  BY <1>3, <1>9, WorkerFrame DEF WorkerPoolNext
<1>10. CASE RecoveryNext
  <2>1. CASE Wipe
    BY <2>1 DEF Wipe, NoGoroutines, IdleValidator
  <2> QED
    BY <1>3, <1>4, <1>10, <2>1, RecoveryFrame
<1>11. CASE RetentionNext
  BY <1>3, <1>11, RetentionFrame DEF RetentionNext
<1>12. CASE UNCHANGED vars
  BY <1>3, <1>12 DEF vars, uploading
<1> QED
  BY <1>8, <1>9, <1>10, <1>11, <1>12 DEF Next

\* Without a fault, a video that was seen stays until its validation is over.
LEMMA KeepsVideo ==
  ASSUME RecordInv, Prompt, NEW j \in Jobs, SeenVideo(j), [Next]_vars, raw[j] = "video",
         faults' = 0, faults = 0,
         db[j].status = "validating" \/ \E r \in Requests : handler[j][r] = "mark"
  PROVE  raw'[j] # "none"
<1> SUFFICES ASSUME raw'[j] = "none" PROVE FALSE
  OBVIOUS
<1>1. ASSUME NEW o \in Starters, Discard(j, o) PROVE FALSE
  <2>1. validator[j][o].late = TRUE
    BY <1>1 DEF Discard, At, SeenVideo
  <2> QED
    BY <1>1, <2>1 DEF Discard, Succeeds, Late
<1>2. ASSUME NEW s \in Sweeps, SweepRaw(s, j) PROVE FALSE
  <2>1. sweep[s][j] # Absent
    BY <1>2 DEF SweepRaw
  <2> QED
    BY <2>1, ReaperHolds DEF NoHandler, Terminal, Absent
<1> QED
  BY <1>1, <1>2, UploadDeleted DEF RecordInv

\* Every step keeps what was seen.
LEMMA KeepsSeen ==
  ASSUME RecordInv, Prompt, Uploads = {"video"}, VideosKept, [Next]_vars
  PROVE  VideosKept'
<1>1. \A j \in Jobs : raw[j] \in {"none", "video"} /\ raw'[j] \in {"none", "video"}
  BY OnlyVideos DEF VideosKept, RecordInv
<1>2. ASSUME faults' = 0, NEW j \in Jobs PROVE SeenVideo(j)'
  <2>1. faults = 0 /\ SeenVideo(j)
    BY <1>2, FaultsGrow DEF VideosKept, RecordInv
  <2>2. ASSUME db'[j].status = "validating" \/ \E r \in Requests : handler'[j][r] = "mark"
        PROVE  raw'[j] = "video"
    <3>1. CASE db[j].status = "validating" \/ \E r \in Requests : handler[j][r] = "mark"
      <4>1. raw[j] = "video"
        BY <2>1, <3>1 DEF SeenVideo
      <4> QED
        BY <1>1, <1>2, <2>1, <3>1, <4>1, KeepsVideo
    <3>2. ASSUME NEW r \in Requests, CompleteMark(j, r)
          PROVE  handler[j][r] = "mark"
      BY <3>2 DEF CompleteMark
    <3>3. ASSUME NEW r \in Requests, handler'[j][r] = "mark", handler[j][r] # "mark"
          PROVE  raw'[j] = "video"
      BY <1>1, <3>3, SeesUpload DEF RecordInv
    <3> QED
      BY <2>2, <3>1, <3>2, <3>3, TurnsValidating
  <2>3. ASSUME NEW o \in Starters, validator'[j][o].pc = "discard"
        PROVE  validator'[j][o].late = TRUE
    <3>1. validator[j][o].pc = "probe" => raw[j] = "video"
      BY <2>1 DEF RecordInv, Agreement, Agrees, ValidatorAgrees, SeenVideo
    <3>2. validator[j][o].pc = "discard" => validator[j][o].late = TRUE
      BY <2>1 DEF SeenVideo
    <3> QED
      BY <1>2, <2>3, <3>1, <3>2, DiscardsLate DEF RecordInv
  <2> QED
    BY <2>2, <2>3 DEF SeenVideo
<1> QED
  BY <1>1, <1>2 DEF VideosKept

\* Of clients that upload videos, none loses one while it is validated before
\* a call fails, whatever deadlines, crashes, full channels and reapers there are.
THEOREM RealVideoKeptCorrect ==
  ASSUME Prompt, Uploads = {"video"}
  PROVE  Spec => RealVideoKept
<1>1. Init => RecordInv /\ VideosKept
  <2>1. ASSUME Init, NEW j \in Jobs PROVE SeenVideo(j) /\ raw[j] = "none"
    BY <2>1 DEF Init, SeenVideo, Absent, NoGoroutines, IdleValidator
  <2> QED
    BY <2>1, InitInv DEF VideosKept
<1>2. RecordInv /\ VideosKept /\ [Next]_vars => (RecordInv /\ VideosKept)'
  BY NextInv, KeepsSeen
<1>3. RecordInv /\ VideosKept /\ [Next]_vars
        => [\A j \in Jobs : db[j].status = "validating" /\ raw[j] = "video" /\ faults' = 0
                              => raw'[j] # "none"]_vars
  <2> SUFFICES ASSUME RecordInv, VideosKept, [Next]_vars, NEW j \in Jobs,
                      db[j].status = "validating", raw[j] = "video", faults' = 0
               PROVE  raw'[j] # "none"
    OBVIOUS
  <2>1. faults = 0 /\ SeenVideo(j)
    BY FaultsGrow DEF VideosKept, RecordInv
  <2> QED
    BY <2>1, KeepsVideo
<1> QED
  BY <1>1, <1>2, <1>3, PTL DEF Spec, RealVideoKept

=============================================================================
