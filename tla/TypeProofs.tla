---------------------------- MODULE TypeProofs -----------------------------
(***************************************************************************)
(* Every variable keeps its type, for all values of the constants.  TypeOK *)
(* alone is not inductive: what a worker publishes is a terminal status    *)
(* only because of what it holds at each of its steps, which WorkersSound  *)
(* says.  One lemma per component shows that its actions keep both.        *)
(***************************************************************************)
EXTENDS Pipeline, TLAPS

\* The inductive invariant.
TypeInv == TypeOK /\ WorkersSound

\* Rows: a status written into one replaces its status only.
LEMMA RowTyped ==
  /\ Absent \in Row
  /\ \A row \in Row : \A status \in Statuses :
       /\ [row EXCEPT !.status = status] \in Row
       /\ [row EXCEPT !.status = status].status = status
  /\ \A outs \in SUBSET Renditions : \A status \in Statuses :
       [status |-> status, outs |-> outs] \in Row
  BY DEF Absent, Row

\* A function stays one when one of its values is replaced.
LEMMA Replaced ==
  ASSUME NEW D, NEW S, NEW g \in [D -> S], NEW x, NEW v \in S
  PROVE  [g EXCEPT ![x] = v] \in [D -> S]
  OBVIOUS

\* Update of a record by a row keeps the records typed.
LEMMA WriteTyped ==
  ASSUME db \in [Jobs -> Row], NEW j, NEW row \in Row, Write(j, row)
  PROVE  db' \in [Jobs -> Row]
  BY DEF Write

\* Only terminal statuses are published.
LEMMA TellTyped ==
  ASSUME told \in [Jobs -> SUBSET Terminal], NEW j, NEW status \in Terminal, Tell(j, status)
  PROVE  told' \in [Jobs -> SUBSET Terminal]
  BY DEF Tell

\* Calls count their faults.
LEMMA FaultsTyped ==
  ASSUME faults \in Nat, NEW done
  PROVE  /\ Succeeds(done) => faults' \in Nat
         /\ Fails(done) => faults' \in Nat
         /\ \A j : StoreOK(j, done) => faults' \in Nat
         /\ \A j : StoreErr(j, done) => faults' \in Nat
  BY DEF Succeeds, Fails, StoreOK, StoreErr

\* So does an Update, with an error or without, and it keeps the records typed.
LEMMA UpdateTyped ==
  ASSUME db \in [Jobs -> Row], faults \in Nat, NEW j, NEW row \in Row, NEW done,
         (StoreOK(j, done) /\ Write(j, row)) \/ WriteErr(j, row, done)
  PROVE  db' \in [Jobs -> Row] /\ faults' \in Nat
<1>1. faults' \in Nat
  BY FaultsTyped DEF WriteErr
<1>2. db' = db \/ Write(j, row)
  BY DEF WriteErr
<1> QED
  BY <1>1, <1>2, WriteTyped

\* What each kind of step does to a validation.
LEMMA ValidatorTyped ==
  ASSUME validator \in [Jobs -> [Starters -> Validator]], NEW j \in Jobs, NEW o \in Starters
  PROVE  /\ validator[j][o].row \in Row
         /\ Return(j, o) => validator' \in [Jobs -> [Starters -> Validator]]
         /\ \A step \in ValidatorSteps : Step(j, o, step) => validator' \in [Jobs -> [Starters -> Validator]]
         /\ \A step \in ValidatorSteps : db \in [Jobs -> Row] /\ Read(j, o, step) => validator' \in [Jobs -> [Starters -> Validator]]
<1>1. validator[j][o] \in Validator OBVIOUS
<1>2. IdleValidator \in Validator BY RowTyped DEF IdleValidator, Validator, ValidatorSteps
<1>3. \A v \in Validator : \A step \in ValidatorSteps : [v EXCEPT !.pc = step] \in Validator BY DEF Validator
<1>4. \A v \in Validator : \A step \in ValidatorSteps : \A row \in Row : [v EXCEPT !.pc = step, !.row = row] \in Validator BY DEF Validator
<1>5. validator[j][o].row \in Row BY <1>1 DEF Validator
<1>6. Return(j, o) => validator' \in [Jobs -> [Starters -> Validator]] BY <1>2 DEF Return
<1>7. ASSUME NEW step \in ValidatorSteps, Step(j, o, step) PROVE validator' \in [Jobs -> [Starters -> Validator]]
  BY <1>1, <1>3, <1>7 DEF Step
<1>8. ASSUME NEW step \in ValidatorSteps, db \in [Jobs -> Row], Read(j, o, step) PROVE validator' \in [Jobs -> [Starters -> Validator]]
  BY <1>1, <1>4, <1>8 DEF Read
<1> QED BY <1>5, <1>6, <1>7, <1>8

\* What a worker holds, and may be given.
LEMMA WorkerTyped ==
  ASSUME worker \in [Workers -> Worker], WorkersSound, NEW w \in Workers
  PROVE  /\ worker[w] \in Worker /\ worker[w].row \in Row /\ worker[w].sent \in SUBSET Renditions
         /\ Sound(worker[w])
         /\ \A v \in Worker : Sound(v) /\ worker' = [worker EXCEPT ![w] = v]
              => worker' \in [Workers -> Worker] /\ WorkersSound'
         /\ Rest(w) => worker' \in [Workers -> Worker] /\ WorkersSound'
         /\ \A step \in WorkerSteps : To(w, step) /\ Sound([worker[w] EXCEPT !.pc = step])
              => worker' \in [Workers -> Worker] /\ WorkersSound'
<1>1. worker[w] \in Worker /\ worker[w].row \in Row /\ worker[w].sent \in SUBSET Renditions
  BY DEF Worker
<1>2. Sound(worker[w])
  BY DEF WorkersSound
<1>3. ASSUME NEW v \in Worker, Sound(v), worker' = [worker EXCEPT ![w] = v]
      PROVE  worker' \in [Workers -> Worker] /\ WorkersSound'
  <2>1. worker' \in [Workers -> Worker]
    BY <1>3
  <2>2. \A x \in Workers : worker'[x] = v \/ worker'[x] = worker[x]
    BY <1>3
  <2>3. ASSUME NEW x \in Workers PROVE Sound(worker'[x])
    BY <2>2, <1>3 DEF WorkersSound
  <2> QED
    BY <2>1, <2>3 DEF WorkersSound, Sound
<1>4. IdleWorker \in Worker /\ Sound(IdleWorker)
  BY RowTyped DEF IdleWorker, Worker, WorkerSteps, Sound
<1>5. Rest(w) => worker' \in [Workers -> Worker] /\ WorkersSound'
  BY <1>3, <1>4 DEF Rest
<1>6. ASSUME NEW step \in WorkerSteps, To(w, step), Sound([worker[w] EXCEPT !.pc = step])
      PROVE  worker' \in [Workers -> Worker] /\ WorkersSound'
  <2>1. [worker[w] EXCEPT !.pc = step] \in Worker
    BY <1>1 DEF Worker
  <2>2. worker' = [worker EXCEPT ![w] = [worker[w] EXCEPT !.pc = step]]
    BY <1>6 DEF To
  <2> QED
    BY <1>3, <1>6, <2>1, <2>2
<1> QED
  BY <1>1, <1>2, <1>3, <1>5, <1>6

-----------------------------------------------------------------------------

\* The create call, the client and the clock.
LEMMA UploadTypes ==
  ASSUME TypeInv, NEW j \in Jobs
  PROVE  /\ \A k \in Kinds : CreateUpload(j, k) => TypeInv'
         /\ PresignPut(j) \/ PresignError(j) \/ Grow(j) => TypeInv'
         /\ \A bytes \in Uploads : ClientPut(j, bytes) => TypeInv'
<1> USE DEF TypeInv, TypeOK, WorkersSound, records, objects, clients, uploading, main, reapers
<1>1. ASSUME NEW k \in Kinds, CreateUpload(j, k) PROVE TypeInv'
  <2>1. db' \in [Jobs -> Row]
    BY <1>1, RowTyped, WriteTyped DEF CreateUpload, Statuses
  <2>2. kind' \in [Jobs -> {"none", "mp4", "hls"}]
    BY <1>1, ConstantsAssumption DEF CreateUpload
  <2>3. age' \in [Jobs -> Unborn .. Old]
    BY <1>1 DEF CreateUpload, Unborn, Fresh, Old
  <2> QED
    BY <1>1, <2>1, <2>2, <2>3 DEF CreateUpload
<1>2. ASSUME PresignPut(j) PROVE TypeInv'
  BY <1>2 DEF PresignPut
<1>3. ASSUME PresignError(j) PROVE TypeInv'
  <2>1. db' \in [Jobs -> Row]
    BY <1>3, RowTyped, WriteTyped DEF PresignError
  <2> QED
    BY <1>3, <2>1, FaultsTyped DEF PresignError
<1>4. ASSUME Grow(j) PROVE TypeInv'
  <2>1. age' \in [Jobs -> Unborn .. Old]
    BY <1>4, ConstantsAssumption DEF Grow, Unborn, Fresh, Old
  <2> QED
    BY <1>4, <2>1 DEF Grow
<1>5. ASSUME NEW bytes \in Uploads, ClientPut(j, bytes) PROVE TypeInv'
  BY <1>5, ConstantsAssumption DEF ClientPut
<1> HIDE DEF TypeInv
<1> QED
  BY <1>1, <1>2, <1>3, <1>4, <1>5

\* The complete call.
LEMMA CompleteTypes ==
  ASSUME TypeInv, NEW j \in Jobs, NEW r \in Requests
  PROVE  CompleteLoad(j, r) \/ HandlerStep(j, r) => TypeInv'
<1> USE DEF TypeInv, TypeOK, WorkersSound, records, objects, clients, uploading, main, reapers
<1>1. \A step \in HandlerSteps : GoTo(j, r, step) => handler' \in [Jobs -> [Requests -> HandlerSteps]]
  BY DEF GoTo
<1>2. ASSUME CompleteLoad(j, r) PROVE TypeInv'
  BY <1>1, <1>2 DEF CompleteLoad, HandlerSteps
<1>3. ASSUME CompleteStat(j, r) PROVE TypeInv'
  BY <1>1, <1>3, FaultsTyped DEF CompleteStat, HandlerSteps
<1>4. ASSUME CompleteMark(j, r) PROVE TypeInv'
  <2> DEFINE row == [status |-> "validating", outs |-> {}]
  <2>1. row \in Row
    BY RowTyped DEF Statuses
  <2>2. (StoreOK(j, FALSE) /\ Write(j, row)) \/ WriteErr(j, row, FALSE)
    BY <1>4 DEF CompleteMark
  <2> HIDE DEF row
  <2>3. db' \in [Jobs -> Row] /\ faults' \in Nat
    BY <2>1, <2>2, UpdateTyped
  <2> QED
    BY <1>1, <1>4, <2>3 DEF CompleteMark, HandlerSteps
<1>5. ASSUME CompleteSpawn(j, r) PROVE TypeInv'
  <2>1. [IdleValidator EXCEPT !.pc = "probe"] \in Validator
    BY RowTyped DEF IdleValidator, Validator, ValidatorSteps
  <2>2. validator' \in [Jobs -> [Starters -> Validator]]
    BY <1>5, <2>1 DEF CompleteSpawn, Starters
  <2> QED
    BY <1>1, <1>5, <2>2 DEF CompleteSpawn, HandlerSteps
<1>6. ASSUME CompletePanic(j, r) PROVE TypeInv'
  BY <1>1, <1>6 DEF CompletePanic, HandlerSteps
<1> QED
  BY <1>2, <1>3, <1>4, <1>5, <1>6 DEF HandlerStep

\* validateAndEnqueue.
LEMMA ValidatorTypes ==
  ASSUME TypeInv, NEW j \in Jobs, NEW o \in Starters
  PROVE  Deadline(j, o) \/ ValidatorStep(j, o) => TypeInv'
<1> USE DEF TypeInv, TypeOK, WorkersSound, records, objects, clients, uploading, main, reapers
<1>0. /\ {"probe", "load", "pend", "enqueue", "discard", "reload", "failmark", "failtell"} \subseteq ValidatorSteps
      /\ {"pending", "failed"} \subseteq Statuses /\ "failed" \in Terminal
  BY DEF ValidatorSteps, Statuses, Terminal
<1>1. ASSUME Deadline(j, o) PROVE TypeInv'
  <2>1. validator[j][o] \in Validator
    OBVIOUS
  <2>2. [validator[j][o] EXCEPT !.late = TRUE] \in Validator
    BY <2>1 DEF Validator
  <2>3. validator' \in [Jobs -> [Starters -> Validator]]
    BY <1>1, <2>2 DEF Deadline
  <2> QED
    BY <1>1, <2>3 DEF Deadline
<1>2. ASSUME Probe(j, o) PROVE TypeInv'
  BY <1>0, <1>2, ValidatorTyped, FaultsTyped DEF Probe
<1>3. ASSUME Load(j, o) PROVE TypeInv'
  BY <1>0, <1>3, ValidatorTyped, FaultsTyped DEF Load
<1>4. ASSUME MarkPending(j, o) PROVE TypeInv'
  <2> DEFINE row == [validator[j][o].row EXCEPT !.status = "pending"]
  <2>1. row \in Row
    BY <1>0, ValidatorTyped, RowTyped
  <2>2. (StoreOK(j, Late(j, o)) /\ Write(j, row)) \/ WriteErr(j, row, Late(j, o))
    BY <1>4 DEF MarkPending
  <2> HIDE DEF row
  <2>3. db' \in [Jobs -> Row] /\ faults' \in Nat
    BY <2>1, <2>2, UpdateTyped
  <2> QED
    BY <1>0, <1>4, <2>3, ValidatorTyped DEF MarkPending
<1>5. ASSUME Enqueue(j, o) PROVE TypeInv'
  <2>1. queue' \in Seq(Jobs)
    BY <1>5 DEF Enqueue, Send
  <2> QED
    BY <1>5, <2>1, ValidatorTyped DEF Enqueue
<1>6. ASSUME GiveUp(j, o) PROVE TypeInv'
  BY <1>0, <1>6, ValidatorTyped, TellTyped DEF GiveUp
<1>7. ASSUME Discard(j, o) PROVE TypeInv'
  <2>1. raw' \in [Jobs -> UploadedBytes \cup {"none"}]
    BY <1>7 DEF Discard
  <2> QED
    BY <1>0, <1>7, <2>1, ValidatorTyped, FaultsTyped DEF Discard
<1>8. ASSUME Reload(j, o) PROVE TypeInv'
  BY <1>0, <1>8, ValidatorTyped, FaultsTyped DEF Reload
<1>9. ASSUME MarkRejected(j, o) PROVE TypeInv'
  <2> DEFINE row == [validator[j][o].row EXCEPT !.status = "failed"]
  <2>1. row \in Row
    BY <1>0, ValidatorTyped, RowTyped
  <2>2. (StoreOK(j, Late(j, o)) /\ Write(j, row)) \/ WriteErr(j, row, Late(j, o))
    BY <1>9 DEF MarkRejected
  <2> HIDE DEF row
  <2>3. db' \in [Jobs -> Row] /\ faults' \in Nat
    BY <2>1, <2>2, UpdateTyped
  <2> QED
    BY <1>0, <1>9, <2>3, ValidatorTyped DEF MarkRejected
<1>10. ASSUME TellRejected(j, o) PROVE TypeInv'
  BY <1>0, <1>10, ValidatorTyped, TellTyped DEF TellRejected
<1> QED
  BY <1>1, <1>2, <1>3, <1>4, <1>5, <1>6, <1>7, <1>8, <1>9, <1>10 DEF ValidatorStep

\* The workers.
LEMMA WorkerTypes ==
  ASSUME TypeInv, NEW w \in Workers
  PROVE  WorkerStep(w) \/ WProgress(w) => TypeInv'
<1> USE DEF TypeInv, TypeOK, records, objects, clients, uploading, main, reapers
<1>0. /\ {"idle", "load", "mark", "fetch", "encode", "upload", "fail", "tell", "quit"} \subseteq WorkerSteps
      /\ {"processing", "completed", "failed"} \subseteq Statuses
      /\ {"completed", "failed"} \subseteq Terminal
  BY DEF WorkerSteps, Statuses, Terminal
<1>a. worker[w] \in Worker /\ Sound(worker[w]) /\ worker[w].row \in Row
  BY WorkerTyped
<1>1. ASSUME WDequeue(w) PROVE TypeInv'
  <2> DEFINE v == [worker[w] EXCEPT !.pc = "load", !.job = Head(queue)]
  <2>1. Head(queue) \in Jobs /\ queue' \in Seq(Jobs)
    BY <1>1 DEF WDequeue
  <2>2. v \in Worker /\ Sound(v)
    BY <1>0, <1>a, <2>1 DEF Worker, Sound
  <2>3. worker' = [worker EXCEPT ![w] = v]
    BY <1>1 DEF WDequeue
  <2> HIDE DEF v
  <2>4. worker' \in [Workers -> Worker] /\ WorkersSound'
    BY <2>2, <2>3, WorkerTyped
  <2> QED
    BY <1>1, <2>1, <2>4 DEF WDequeue
<1>2. ASSUME WQuit(w) PROVE TypeInv'
  <2>1. Sound([worker[w] EXCEPT !.pc = "quit"])
    BY <1>a DEF Sound, Worker
  <2>2. worker' \in [Workers -> Worker] /\ WorkersSound'
    BY <1>0, <1>2, <2>1, WorkerTyped DEF WQuit
  <2> QED
    BY <1>2, <2>2 DEF WQuit
<1>3. ASSUME WLoad(w) PROVE TypeInv'
  <2> DEFINE v == [worker[w] EXCEPT !.pc = "mark", !.row = db[worker[w].job]]
  <2>1. worker[w].job \in Jobs
    BY <1>a, <1>3 DEF WLoad, On, Sound
  <2>2. v \in Worker /\ Sound(v)
    BY <1>0, <1>a, <2>1 DEF Worker, Sound
  <2>3. Rest(w) \/ worker' = [worker EXCEPT ![w] = v]
    BY <1>3 DEF WLoad
  <2> HIDE DEF v
  <2>4. worker' \in [Workers -> Worker] /\ WorkersSound'
    BY <2>2, <2>3, WorkerTyped
  <2> QED
    BY <1>3, <2>4, FaultsTyped DEF WLoad
<1>4. ASSUME WMark(w) PROVE TypeInv'
  <2> DEFINE v == [worker[w] EXCEPT !.pc = "fetch", !.row = Held(w, "processing")]
  <2>1. worker[w].job \in Jobs
    BY <1>a, <1>4 DEF WMark, On, Sound
  <2>h. Held(w, "processing") \in Row /\ Held(w, "processing").status = "processing"
    BY <1>0, <1>a, RowTyped DEF Held
  <2>2. v \in Worker /\ Sound(v)
    BY <1>0, <1>a, <2>1, <2>h DEF Worker, Sound
  <2>3. Rest(w) \/ worker' = [worker EXCEPT ![w] = v]
    BY <1>4 DEF WMark
  <2> HIDE DEF v
  <2>4. worker' \in [Workers -> Worker] /\ WorkersSound'
    BY <2>2, <2>3, WorkerTyped
  <2>5. db' \in [Jobs -> Row] /\ faults' \in Nat
    BY <1>4, <2>h, UpdateTyped DEF WMark
  <2> QED
    BY <1>4, <2>4, <2>5 DEF WMark
<1>5. ASSUME WFetch(w) PROVE TypeInv'
  <2>1. \A step \in {"encode", "fail"} : Sound([worker[w] EXCEPT !.pc = step])
    BY <1>a, <1>5 DEF WFetch, On, Sound, Worker
  <2>2. worker' \in [Workers -> Worker] /\ WorkersSound'
    BY <1>0, <1>5, <2>1, WorkerTyped DEF WFetch
  <2> QED
    BY <1>5, <2>2, FaultsTyped DEF WFetch
<1>6. ASSUME WProgress(w) PROVE TypeInv'
  <2>1. db' \in [Jobs -> Row]
    BY <1>a, <1>6, WriteTyped DEF WProgress
  <2> QED
    BY <1>6, <2>1, FaultsTyped DEF WProgress, WorkersSound
<1>7. ASSUME WEncode(w) PROVE TypeInv'
  <2>1. \A step \in {"upload", "fail"} : Sound([worker[w] EXCEPT !.pc = step])
    BY <1>a, <1>7 DEF WEncode, On, Sound, Worker
  <2>2. worker' \in [Workers -> Worker] /\ WorkersSound'
    BY <1>0, <1>7, <2>1, WorkerTyped DEF WEncode
  <2> QED
    BY <1>7, <2>2, FaultsTyped DEF WEncode
<1>8. ASSUME NEW f \in Renditions, WPut(w, f) PROVE TypeInv'
  <2> DEFINE v == [worker[w] EXCEPT !.sent = @ \cup {f}]
  <2>1. v \in Worker /\ Sound(v)
    BY <1>a DEF Worker, Sound
  <2>2. Sound([worker[w] EXCEPT !.pc = "fail"])
    BY <1>a, <1>8 DEF WPut, On, Sound, Worker
  <2>3. To(w, "fail") \/ worker' = [worker EXCEPT ![w] = v]
    BY <1>8 DEF WPut
  <2> HIDE DEF v
  <2>4. worker' \in [Workers -> Worker] /\ WorkersSound'
    BY <1>0, <2>1, <2>2, <2>3, WorkerTyped
  <2>5. out' \in [Jobs -> SUBSET Renditions]
    <3>1. worker[w].job \in Jobs
      BY <1>a, <1>8 DEF WPut, On, Sound
    <3>2. out[worker[w].job] \cup {f} \in SUBSET Renditions
      BY <3>1
    <3>3. out' = out \/ out' = [out EXCEPT ![worker[w].job] = out[worker[w].job] \cup {f}]
      BY <1>8 DEF WPut
    <3>4. [out EXCEPT ![worker[w].job] = out[worker[w].job] \cup {f}] \in [Jobs -> SUBSET Renditions]
      BY <3>2, Replaced
    <3> QED
      BY <3>3, <3>4
  <2> QED
    BY <1>8, <2>4, <2>5, FaultsTyped DEF WPut
<1>9. ASSUME WFinish(w) PROVE TypeInv'
  <2> DEFINE row == [status |-> "completed", outs |-> Renditions]
             v   == [worker[w] EXCEPT !.pc = "tell", !.row = row]
  <2>1. row \in Row /\ row.status = "completed"
    BY <1>0, RowTyped
  <2>2. worker[w].job \in Jobs
    BY <1>a, <1>9 DEF WFinish, On, Sound
  <2>3. v \in Worker /\ Sound(v)
    BY <1>0, <1>a, <2>1, <2>2 DEF Worker, Sound
  <2>4. Rest(w) \/ worker' = [worker EXCEPT ![w] = v]
    BY <1>9 DEF WFinish
  <2>5. db' \in [Jobs -> Row] /\ faults' \in Nat
    BY <1>9, <2>1, UpdateTyped DEF WFinish
  <2> HIDE DEF v
  <2>6. worker' \in [Workers -> Worker] /\ WorkersSound'
    BY <2>3, <2>4, WorkerTyped
  <2> QED
    BY <1>9, <2>5, <2>6 DEF WFinish
<1>10. ASSUME WFail(w) PROVE TypeInv'
  <2> DEFINE v == [worker[w] EXCEPT !.pc = "tell", !.row = Held(w, "failed")]
  <2>1. worker[w].job \in Jobs
    BY <1>a, <1>10 DEF WFail, On, Sound
  <2>h. Held(w, "failed") \in Row /\ Held(w, "failed").status = "failed"
    BY <1>0, <1>a, RowTyped DEF Held
  <2>2. v \in Worker /\ Sound(v)
    BY <1>0, <1>a, <2>1, <2>h DEF Worker, Sound
  <2>3. Rest(w) \/ worker' = [worker EXCEPT ![w] = v]
    BY <1>10 DEF WFail
  <2> HIDE DEF v
  <2>4. worker' \in [Workers -> Worker] /\ WorkersSound'
    BY <2>2, <2>3, WorkerTyped
  <2>5. db' \in [Jobs -> Row] /\ faults' \in Nat
    BY <1>10, <2>h, UpdateTyped DEF WFail
  <2> QED
    BY <1>10, <2>4, <2>5 DEF WFail
<1>11. ASSUME WTell(w) PROVE TypeInv'
  <2>1. worker[w].row.status \in Terminal
    BY <1>a, <1>11 DEF WTell, On, Sound
  <2>2. told' \in [Jobs -> SUBSET Terminal]
    BY <1>11, <2>1, TellTyped DEF WTell
  <2> QED
    BY <1>11, <2>2, WorkerTyped DEF WTell
<1> HIDE DEF TypeInv
<1> QED
  BY <1>1, <1>2, <1>3, <1>4, <1>5, <1>6, <1>7, <1>8, <1>9, <1>10, <1>11 DEF WorkerStep

\* Recovery lets go of a job.
LEMMA RedrivenTyped ==
  ASSUME redrive \in [Jobs -> Row], NEW j \in Jobs, Redriven(j)
  PROVE  redrive' \in [Jobs -> Row] /\ redriving' \in Jobs \cup {NoJob}
  BY RowTyped, Replaced DEF Redriven

\* Recovery, and the process's start and end.
LEMMA RecoveryTypes ==
  ASSUME TypeInv
  PROVE  RecoveryNext => TypeInv'
<1> USE DEF TypeInv, TypeOK, WorkersSound, records, objects, clients, uploading, main, reapers
<1>0. /\ Absent \in Row /\ NoGoroutines.snapshot \in [Jobs -> Row]
      /\ NoGoroutines.handler \in [Jobs -> [Requests -> HandlerSteps]]
      /\ NoGoroutines.validator \in [Jobs -> [Starters -> Validator]]
      /\ NoGoroutines.worker \in [Workers -> Worker]
      /\ \A w \in Workers : Sound(NoGoroutines.worker[w])
      /\ IdleSweeper \in Sweeper
  BY RowTyped DEF NoGoroutines, IdleValidator, IdleWorker, IdleSweeper, Validator, Worker,
     Sweeper, Sound, HandlerSteps, ValidatorSteps, WorkerSteps, SweepSteps
<1>1. ASSUME BootList PROVE TypeInv'
  <2>1. redrive' \in [Jobs -> Row]
    BY <1>0, <1>1 DEF BootList
  <2> QED
    BY <1>1, <2>1 DEF BootList
<1>2. ASSUME NEW j \in Jobs, BootRequeue(j) PROVE TypeInv'
  <2>1. queue' \in Seq(Jobs)
    BY <1>2 DEF BootRequeue, Send
  <2>2. redrive' \in [Jobs -> Row] /\ redriving' \in Jobs \cup {NoJob}
    BY <1>2, RedrivenTyped DEF BootRequeue
  <2> QED
    BY <1>2, <2>1, <2>2 DEF BootRequeue
<1>3. ASSUME NEW j \in Jobs, BootSkip(j) PROVE TypeInv'
  <2>1. redrive' \in [Jobs -> Row] /\ redriving' \in Jobs \cup {NoJob}
    BY <1>3, RedrivenTyped DEF BootSkip
  <2> QED
    BY <1>3, <2>1 DEF BootSkip
<1>4. ASSUME NEW j \in Jobs, BootReset(j) PROVE TypeInv'
  <2> DEFINE row == [redrive[j] EXCEPT !.status = "pending"]
  <2>1. row \in Row
    BY RowTyped DEF Statuses
  <2>2. \/ redrive' = [redrive EXCEPT ![j] = row] /\ redriving' = j
        \/ Redriven(j)
    BY <1>4 DEF BootReset
  <2>w. (StoreOK(j, stopping) /\ Write(j, row)) \/ WriteErr(j, row, stopping)
    BY <1>4 DEF BootReset
  <2> HIDE DEF row
  <2>3. db' \in [Jobs -> Row] /\ faults' \in Nat
    BY <2>1, <2>w, UpdateTyped
  <2>4. CASE Redriven(j)
    <3>1. redrive' \in [Jobs -> Row] /\ redriving' \in Jobs \cup {NoJob}
      BY <2>4, RedrivenTyped
    <3> QED
      BY <1>4, <2>3, <3>1 DEF BootReset
  <2>5. CASE redrive' = [redrive EXCEPT ![j] = row] /\ redriving' = j
    <3>1. redrive' \in [Jobs -> Row]
      BY <2>1, <2>5, Replaced
    <3> QED
      BY <1>4, <2>3, <2>5, <3>1 DEF BootReset
  <2> QED
    BY <2>2, <2>4, <2>5
<1>5. ASSUME NEW j \in Jobs, BootStat(j) PROVE TypeInv'
  <2>1. [IdleValidator EXCEPT !.pc = "probe"] \in Validator
    BY <1>0 DEF IdleValidator, Validator, ValidatorSteps
  <2>2. \/ validator' = validator
        \/ validator' = [validator EXCEPT ![j][Boot] = [IdleValidator EXCEPT !.pc = "probe"]]
    BY <1>5 DEF BootStat
  <2>3. \/ redrive' = redrive /\ redriving' = j
        \/ Redriven(j)
    BY <1>5 DEF BootStat
  <2>4. validator' \in [Jobs -> [Starters -> Validator]]
    <3>1. CASE validator' = validator
      BY <3>1
    <3>2. CASE validator' = [validator EXCEPT ![j][Boot] = [IdleValidator EXCEPT !.pc = "probe"]]
      BY <2>1, <3>2
    <3> QED
      BY <2>2, <3>1, <3>2
  <2>5. faults' \in Nat
    BY <1>5, FaultsTyped DEF BootStat
  <2>6. CASE Redriven(j)
    <3>1. redrive' \in [Jobs -> Row] /\ redriving' \in Jobs \cup {NoJob}
      BY <2>6, RedrivenTyped
    <3> QED
      BY <1>5, <2>4, <2>5, <3>1 DEF BootStat
  <2>7. CASE redrive' = redrive /\ redriving' = j
    BY <1>5, <2>4, <2>5, <2>7 DEF BootStat
  <2> QED
    BY <2>3, <2>6, <2>7
<1>6. ASSUME NEW j \in Jobs, BootFail(j) PROVE TypeInv'
  <2> DEFINE row == [redrive[j] EXCEPT !.status = "failed"]
  <2>1. row \in Row
    BY RowTyped DEF Statuses
  <2>2. (StoreOK(j, stopping) /\ Write(j, row)) \/ WriteErr(j, row, stopping)
    BY <1>6 DEF BootFail
  <2> HIDE DEF row
  <2>3. db' \in [Jobs -> Row] /\ faults' \in Nat
    BY <2>1, <2>2, UpdateTyped
  <2>4. redrive' \in [Jobs -> Row] /\ redriving' \in Jobs \cup {NoJob}
    BY <1>6, RedrivenTyped DEF BootFail
  <2> QED
    BY <1>6, <2>3, <2>4 DEF BootFail
<1>7. ASSUME BootServe PROVE TypeInv'
  BY <1>7 DEF BootServe
<1>8. ASSUME Stop PROVE TypeInv'
  BY <1>8 DEF Stop
<1>9. ASSUME Wipe, restarts' \in Nat PROVE TypeInv'
  <2>1. session' \in [Jobs -> {"none", "presign", "open", "lost"}]
    BY <1>9 DEF Wipe
  <2>2. sweep' \in [Sweeps -> [Jobs -> Row]] /\ sweeping' \in [Sweeps -> Sweeper]
    BY <1>0, <1>9 DEF Wipe
  <2>3. worker' \in [Workers -> Worker] /\ WorkersSound'
    BY <1>0, <1>9 DEF Wipe, Sound
  <2>4. /\ handler' \in [Jobs -> [Requests -> HandlerSteps]]
        /\ validator' \in [Jobs -> [Starters -> Validator]]
        /\ redrive' \in [Jobs -> Row]
        /\ queue' \in Seq(Jobs)
    BY <1>0, <1>9 DEF Wipe
  <2> QED
    BY <1>9, <2>1, <2>2, <2>3, <2>4 DEF Wipe
<1>10. ASSUME Exit \/ Crash PROVE restarts' \in Nat /\ Wipe
  BY <1>10 DEF Exit, Crash
<1> HIDE DEF TypeInv
<1> QED
  BY <1>1, <1>2, <1>3, <1>4, <1>5, <1>6, <1>7, <1>8, <1>9, <1>10
     DEF RecoveryNext, MainStep, RecoverJob

\* The reapers.
LEMMA RetentionTypes ==
  ASSUME TypeInv, NEW s \in Sweeps
  PROVE  SweepList(s) \/ SweepStep(s) => TypeInv'
<1> USE DEF TypeInv, TypeOK, WorkersSound, records, objects, clients, uploading, main, reapers
<1>1. ASSUME SweepList(s) PROVE TypeInv'
  <2>1. sweep' \in [Sweeps -> [Jobs -> Row]]
    BY <1>1, RowTyped DEF SweepList
  <2> QED
    BY <1>1, <2>1 DEF SweepList
<1>2. ASSUME NEW j \in Jobs
      PROVE  /\ Done(s, j) => /\ sweep' \in [Sweeps -> [Jobs -> Row]]
                              /\ sweeping' \in [Sweeps -> Sweeper]
             /\ \A step \in SweepSteps : Onto(s, j, step) => sweeping' \in [Sweeps -> Sweeper]
  <2>1. IdleSweeper \in Sweeper /\ \A step \in SweepSteps : [pc |-> step, job |-> j] \in Sweeper
    BY DEF IdleSweeper, Sweeper, SweepSteps
  <2>2. Done(s, j) => sweep' \in [Sweeps -> [Jobs -> Row]]
    BY RowTyped DEF Done
  <2>3. Done(s, j) => sweeping' \in [Sweeps -> Sweeper]
    BY <2>1 DEF Done
  <2>4. \A step \in SweepSteps : Onto(s, j, step) => sweeping' \in [Sweeps -> Sweeper]
    BY <2>1 DEF Onto
  <2> QED
    BY <2>2, <2>3, <2>4
<1>3. ASSUME NEW j \in Jobs, SweepRaw(s, j) PROVE TypeInv'
  <2>1. raw' \in [Jobs -> UploadedBytes \cup {"none"}]
    BY <1>3 DEF SweepRaw
  <2> QED
    BY <1>2, <1>3, <2>1, FaultsTyped DEF SweepRaw, SweepSteps
<1>4. ASSUME NEW j \in Jobs, SweepOuts(s, j) PROVE TypeInv'
  <2>1. PICK gone : out' = [out EXCEPT ![j] = out[j] \ gone]
    BY <1>4 DEF SweepOuts
  <2>2. out' \in [Jobs -> SUBSET Renditions]
    BY <2>1
  <2> QED
    BY <1>2, <1>4, <2>2, FaultsTyped DEF SweepOuts, SweepSteps
<1>5. ASSUME NEW j \in Jobs, SweepRecord(s, j) PROVE TypeInv'
  <2>1. db' \in [Jobs -> Row] /\ faults' \in Nat
    BY <1>5, RowTyped, UpdateTyped DEF SweepRecord
  <2> QED
    BY <1>2, <1>5, <2>1 DEF SweepRecord
<1> HIDE DEF TypeInv
<1> QED
  BY <1>1, <1>3, <1>4, <1>5 DEF SweepStep

-----------------------------------------------------------------------------

\* TypeInv is inductive: every step keeps it,
LEMMA NextTypes ==
  ASSUME TypeInv, [Next]_vars
  PROVE  TypeInv'
<1>1. CASE UNCHANGED vars
  BY <1>1 DEF TypeInv, TypeOK, WorkersSound, vars, records, objects, clients,
              uploading, main, reapers
<1>2. CASE UploadNext
  BY <1>2, UploadTypes, CompleteTypes, ValidatorTypes DEF UploadNext
<1>3. CASE WorkerPoolNext
  BY <1>3, WorkerTypes DEF WorkerPoolNext
<1>4. CASE RecoveryNext
  BY <1>4, RecoveryTypes
<1>5. CASE RetentionNext
  BY <1>5, RetentionTypes DEF RetentionNext
<1> QED
  BY <1>1, <1>2, <1>3, <1>4, <1>5 DEF Next

\* and it holds at first.
LEMMA InitTypes ==
  ASSUME Init
  PROVE  TypeInv
<1>1. /\ Absent \in Row
      /\ NoGoroutines.snapshot \in [Jobs -> Row]
      /\ NoGoroutines.handler \in [Jobs -> [Requests -> HandlerSteps]]
      /\ NoGoroutines.validator \in [Jobs -> [Starters -> Validator]]
      /\ NoGoroutines.worker \in [Workers -> Worker]
      /\ \A w \in Workers : Sound(NoGoroutines.worker[w])
      /\ IdleSweeper \in Sweeper
  BY RowTyped DEF NoGoroutines, IdleValidator, IdleWorker, IdleSweeper, Validator, Worker,
     Sweeper, Sound, HandlerSteps, ValidatorSteps, WorkerSteps, SweepSteps
<1>2. WorkersSound
  BY <1>1 DEF Init, WorkersSound
<1>3. /\ db \in [Jobs -> Row] /\ kind \in [Jobs -> {"none", "mp4", "hls"}]
      /\ raw \in [Jobs -> UploadedBytes \cup {"none"}]
      /\ age \in [Jobs -> Unborn .. Old]
      /\ session \in [Jobs -> {"none", "presign", "open", "lost"}]
  BY <1>1 DEF Init, Unborn, Old
<1>4. out \in [Jobs -> SUBSET Renditions] /\ told \in [Jobs -> SUBSET Terminal]
  BY DEF Init
<1>5. /\ phase \in {"down", "recovering", "serving"} /\ stopping \in BOOLEAN
      /\ redriving \in Jobs \cup {NoJob}
      /\ faults \in Nat /\ restarts \in Nat
  BY DEF Init
<1>7. queue \in Seq(Jobs)
  BY DEF Init
<1>6. /\ handler \in [Jobs -> [Requests -> HandlerSteps]]
      /\ validator \in [Jobs -> [Starters -> Validator]]
      /\ worker \in [Workers -> Worker]
      /\ redrive \in [Jobs -> Row]
      /\ sweep \in [Sweeps -> [Jobs -> Row]]
      /\ sweeping \in [Sweeps -> Sweeper]
  BY <1>1 DEF Init
<1> QED
  BY <1>2, <1>3, <1>4, <1>5, <1>7, <1>6 DEF TypeInv, TypeOK

\* Every reachable state is typed, whatever the sets of jobs, requests and
\* workers, the capacity and the ways clients stray.
THEOREM TypeCorrect == Spec => []TypeOK
<1>1. Init => TypeInv
  BY InitTypes
<1>2. TypeInv /\ [Next]_vars => TypeInv'
  BY NextTypes
<1>3. TypeInv => TypeOK
  BY DEF TypeInv
<1> QED
  BY <1>1, <1>2, <1>3, PTL DEF Spec

\* A worker has a job at every step of processJob, writes its copy only as
\* "processing", and publishes only a status that ends the job.
THEOREM WorkersSoundCorrect == Spec => []WorkersSound
<1>1. Init => TypeInv
  BY InitTypes
<1>2. TypeInv /\ [Next]_vars => TypeInv'
  BY NextTypes
<1>3. TypeInv => WorkersSound
  BY DEF TypeInv
<1> QED
  BY <1>1, <1>2, <1>3, PTL DEF Spec

=============================================================================
