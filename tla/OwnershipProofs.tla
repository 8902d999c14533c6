------------------------- MODULE OwnershipProofs ---------------------------
(***************************************************************************)
(* One owner per job, for all values of the constants, when the complete   *)
(* calls of a job do not overlap.                                          *)
(*                                                                         *)
(* Ownership is the inductive form: OneOwner says who may own a job at the *)
(* same time, Handover why a first owner meets no other.  A step does one  *)
(* of three things to a job: it makes no owner (Shrinks, the gentle steps),*)
(* it hands the job from its owner to the next (TakeOver), or it makes the *)
(* first owner (MarkOwners, and BootList in ProcessOwners).                *)
(***************************************************************************)
EXTENDS TypeProofs

\* No new owner of k, and no second entry in the channel.
Shrinks(k) ==
  /\ AnyQueued(k)' => AnyQueued(k)
  /\ OnceQueued(k) => OnceQueued(k)'
  /\ \A o \in Starters : Validating(k, o)' => Validating(k, o)
  /\ \A w \in Workers : Working(k, w)' => Working(k, w)
  /\ \A r \in Requests : Spawning(k, r)' => Spawning(k, r)
  /\ Awaiting(k)' => Awaiting(k)

\* No complete call of k starts.
HandlersTame(k) ==
  \A r \in Requests :
    /\ handler'[k][r] # "idle" => handler[k][r] # "idle"
    /\ handler'[k][r] \in {"stat", "mark"} => handler[k][r] \in {"stat", "mark"}

\* The record of an owned job does not become "uploading".
RecordTame(k) ==
  /\ Owned(k) => db'[k].status # "uploading"
  /\ age'[k] = Unborn => age[k] = Unborn /\ (db[k].status = "none" => db'[k].status = "none")

\* A step after which nobody owns k that did not before.
LEMMA ShrinkingKeepsOneOwner ==
  ASSUME NEW k, OneOwner(k), Shrinks(k)
  PROVE  OneOwner(k)' /\ (Owned(k)' => Owned(k))
  BY DEF OneOwner, Shrinks, Owned, AnyValidating, AnyWorking, AnySpawning

\* A step that makes no owner, no new complete call, and writes no
\* "uploading" over an owned job.
LEMMA TameKeepsHandover ==
  ASSUME NEW k, Handover(k), HandlersTame(k), RecordTame(k), Owned(k)' => Owned(k)
  PROVE  Handover(k)'
<1>1. \A r1, r2 \in Requests : handler'[k][r1] # "idle" /\ handler'[k][r2] # "idle" => r1 = r2
  BY DEF Handover, HandlersTame
<1>2. \A r \in Requests : handler'[k][r] \in {"stat", "mark"} => ~Owned(k)'
  BY DEF Handover, HandlersTame
<1>3. Owned(k)' => db'[k].status # "uploading" /\ age'[k] # Unborn
  BY DEF Handover, RecordTame
<1>4. age'[k] = Unborn => db'[k].status = "none"
  BY DEF Handover, RecordTame
<1> QED
  BY <1>1, <1>2, <1>3, <1>4 DEF Handover

\* A send adds one entry for j, and none for the others.
LEMMA AppendOnce ==
  ASSUME queue \in Seq(Jobs), NEW j \in Jobs, queue' = Append(queue, j)
  PROVE  /\ \A k \in Jobs \ {j} : (AnyQueued(k)' => AnyQueued(k)) /\ (OnceQueued(k) => OnceQueued(k)')
         /\ ~AnyQueued(j) => OnceQueued(j)'
<1>1. /\ DOMAIN queue = 1 .. Len(queue) /\ DOMAIN queue' = 1 .. Len(queue) + 1
      /\ Len(queue) \in Nat
      /\ queue'[Len(queue) + 1] = j
      /\ \A i \in 1 .. Len(queue) : queue'[i] = queue[i]
  OBVIOUS
<1> QED
  BY <1>1 DEF AnyQueued, OnceQueued, Queued

\* A receive takes the only entry of the job at the head.
LEMMA TailOnce ==
  ASSUME queue \in Seq(Jobs), queue # <<>>, queue' = Tail(queue), NEW j \in Jobs, j = Head(queue)
  PROVE  /\ \A k \in Jobs : (AnyQueued(k)' => AnyQueued(k)) /\ (OnceQueued(k) => OnceQueued(k)')
         /\ AnyQueued(j)
         /\ OnceQueued(j) => ~AnyQueued(j)'
<1>1. /\ DOMAIN queue = 1 .. Len(queue) /\ DOMAIN queue' = 1 .. Len(queue) - 1
      /\ Len(queue) \in Nat /\ Len(queue) > 0
      /\ j = queue[1]
      /\ \A i \in 1 .. Len(queue) - 1 : queue'[i] = queue[i + 1]
  OBVIOUS
<1>2. \A k \in Jobs : AnyQueued(k)' => AnyQueued(k)
  BY <1>1 DEF AnyQueued
<1>3. \A k \in Jobs : OnceQueued(k) => OnceQueued(k)'
  BY <1>1 DEF OnceQueued, Queued
<1>4. AnyQueued(j)
  BY <1>1 DEF AnyQueued
<1>5. OnceQueued(j) => ~AnyQueued(j)'
  BY <1>1 DEF OnceQueued, Queued, AnyQueued
<1> QED
  BY <1>2, <1>3, <1>4, <1>5

\* A record that is written anew: the job had one, and is not "uploading".
LEMMA WriteTame ==
  ASSUME TypeInv, NEW j \in Jobs, NEW row, Write(j, row), row.status # "uploading",
         db[j].status # "none", age' = age, \A k \in Jobs : Handover(k)
  PROVE  \A k \in Jobs : RecordTame(k)
  BY DEF TypeInv, TypeOK, Write, RecordTame, Handover

\* A record that is not written.
LEMMA SameTame ==
  ASSUME TypeInv, db' = db, age' = age, \A k \in Jobs : Handover(k)
  PROVE  \A k \in Jobs : RecordTame(k)
  BY DEF RecordTame, Handover

\* The steps of a running process, and those of the clients that touch nothing
\* of it.
Local ==
  /\ phase' = phase
  /\ handler' = handler \/ phase = "serving"
  /\ phase # "down" \/ UNCHANGED <<handler, validator, worker, redrive, queue>>

\* What is left to show of a step of a running process.
LEMMA LocalStep ==
  ASSUME Ownership, Local, \A k \in Jobs : OneOwner(k)' /\ Handover(k)'
  PROVE  Ownership'
  BY DEF Ownership, Local, NoProcess, NoGoroutines

\* The steps that hand nothing over, in general.
LEMMA GentleStep ==
  ASSUME Ownership, Local,
         \A k \in Jobs : Shrinks(k) /\ HandlersTame(k) /\ RecordTame(k)
  PROVE  Ownership'
<1>1. \A k \in Jobs : OneOwner(k)' /\ Handover(k)'
  BY ShrinkingKeepsOneOwner, TameKeepsHandover DEF Ownership
<1> QED
  BY <1>1, LocalStep

\* Whoever runs, the process does.
LEMMA Running ==
  ASSUME TypeInv, Ownership
  PROVE  /\ \A j \in Jobs : \A r \in Requests : handler[j][r] # "idle" => phase = "serving"
         /\ \A j \in Jobs : \A o \in Starters : Validating(j, o) => phase # "down"
         /\ \A w \in Workers : worker[w].pc # "idle" => phase # "down"
<1>1. ASSUME NEW j \in Jobs, NEW r \in Requests, handler = NoGoroutines.handler
      PROVE  handler[j][r] = "idle"
  BY <1>1 DEF NoGoroutines
<1>2. ASSUME NEW j \in Jobs, NEW o \in Starters, NoProcess
      PROVE  ~Validating(j, o)
  BY <1>2 DEF NoProcess, NoGoroutines, IdleValidator, Validating
<1>3. ASSUME NEW w \in Workers, NoProcess
      PROVE  worker[w].pc = "idle"
  BY <1>3 DEF NoProcess, NoGoroutines, IdleWorker
<1> QED
  BY <1>1, <1>2, <1>3 DEF Ownership, NoProcess, TypeInv, TypeOK

\* What a step that changes no goroutine leaves alone.
LEMMA Untouched ==
  ASSUME NEW k \in Jobs
  PROVE  /\ queue' = queue => (AnyQueued(k)' => AnyQueued(k)) /\ (OnceQueued(k) => OnceQueued(k)')
         /\ validator' = validator => \A o \in Starters : Validating(k, o)' = Validating(k, o)
         /\ worker' = worker => \A w \in Workers : Working(k, w)' = Working(k, w)
         /\ handler' = handler => HandlersTame(k) /\ \A r \in Requests : Spawning(k, r)' = Spawning(k, r)
         /\ redrive' = redrive => Awaiting(k)' = Awaiting(k)
  BY DEF AnyQueued, OnceQueued, Queued, Validating, Working, Spawning, Awaiting, HandlersTame

\* A step of one validation, which hands nothing over.
LEMMA ValidatorGentle ==
  ASSUME TypeInv, Ownership, NEW j \in Jobs, NEW o \in Starters, Validating(j, o),
         UNCHANGED <<queue, worker, handler, redrive, phase>>,
         \A k \in Jobs : \A x \in Starters : k # j \/ x # o => validator'[k][x] = validator[k][x],
         \A k \in Jobs : RecordTame(k)
  PROVE  Ownership'
<1>1. Local
  BY Running DEF Local
<1>2. \A k \in Jobs : \A x \in Starters : Validating(k, x)' => Validating(k, x)
  BY DEF Validating
<1>3. \A k \in Jobs : Shrinks(k) /\ HandlersTame(k)
  BY <1>2, Untouched DEF Shrinks
<1> QED
  BY <1>1, <1>3, GentleStep

\* A step of one worker on its job, or one that lets go of it.
LEMMA WorkerGentle ==
  ASSUME TypeInv, Ownership, NEW w \in Workers, phase # "down",
         UNCHANGED <<queue, validator, handler, redrive, phase>>,
         \A x \in Workers \ {w} : worker'[x] = worker[x],
         \A k \in Jobs : Working(k, w)' => Working(k, w),
         \A k \in Jobs : RecordTame(k)
  PROVE  Ownership'
<1>1. Local
  BY Running DEF Local
<1>2. \A k \in Jobs : \A x \in Workers : Working(k, x)' => Working(k, x)
  BY DEF Working
<1>3. \A k \in Jobs : Shrinks(k) /\ HandlersTame(k)
  BY <1>2, Untouched DEF Shrinks
<1> QED
  BY <1>1, <1>3, GentleStep

\* A step that touches no goroutine: of a client, a reaper, or the clock.
LEMMA RecordGentle ==
  ASSUME Ownership, UNCHANGED <<queue, validator, worker, handler, redrive, phase>>,
         \A k \in Jobs : RecordTame(k)
  PROVE  Ownership'
<1>1. Local
  BY DEF Local
<1>2. \A k \in Jobs : Shrinks(k) /\ HandlersTame(k)
  BY Untouched DEF Shrinks
<1> QED
  BY <1>1, <1>2, GentleStep

-----------------------------------------------------------------------------

\* The create call, the client and the clock own nothing.
LEMMA SessionOwners ==
  ASSUME TypeInv, Ownership, NEW j \in Jobs
  PROVE  /\ \A k \in Kinds : CreateUpload(j, k) => Ownership'
         /\ PresignPut(j) \/ PresignError(j) \/ Grow(j) => Ownership'
         /\ \A bytes \in Uploads : ClientPut(j, bytes) => Ownership'
<1> USE DEF uploading, main, clients, records
<1>0. \A k \in Jobs : Handover(k)
  BY DEF Ownership
<1>1. ASSUME NEW kd \in Kinds, CreateUpload(j, kd) PROVE Ownership'
  <2>1. ASSUME NEW k \in Jobs PROVE RecordTame(k)
    <3>1. CASE k = j
      BY <1>0, <1>1, <3>1 DEF CreateUpload, RecordTame, Handover, Fresh, Unborn, TypeInv, TypeOK
    <3>2. CASE k # j
      <4>1. db'[k] = db[k] /\ age'[k] = age[k]
        BY <1>1, <3>2 DEF CreateUpload, Write, TypeInv, TypeOK
      <4> QED
        BY <1>0, <4>1 DEF RecordTame, Handover
    <3> QED
      BY <3>1, <3>2
  <2> QED
    BY <1>1, <2>1, RecordGentle DEF CreateUpload
<1>2. ASSUME PresignPut(j) PROVE Ownership'
  BY <1>0, <1>2, SameTame, RecordGentle DEF PresignPut
<1>3. ASSUME PresignError(j) PROVE Ownership'
  <2>1. ASSUME NEW k \in Jobs PROVE RecordTame(k)
    <3>1. age'[k] = age[k] /\ (db'[k] = db[k] \/ db'[k] = Absent)
      BY <1>3 DEF PresignError, Write, TypeInv, TypeOK
    <3> QED
      BY <1>0, <3>1 DEF RecordTame, Handover, Absent
  <2> QED
    BY <1>3, <2>1, RecordGentle DEF PresignError
<1>4. ASSUME Grow(j) PROVE Ownership'
  <2>1. ASSUME NEW k \in Jobs PROVE RecordTame(k)
    <3>1. db'[k] = db[k] /\ (age'[k] = Unborn => age[k] = Unborn)
      BY <1>4 DEF Grow, Unborn, Fresh, TypeInv, TypeOK
    <3> QED
      BY <1>0, <3>1 DEF RecordTame, Handover
  <2> QED
    BY <1>4, <2>1, RecordGentle DEF Grow
<1>5. ASSUME NEW bytes \in Uploads, ClientPut(j, bytes) PROVE Ownership'
  BY <1>0, <1>5, SameTame, RecordGentle DEF ClientPut
<1> QED
  BY <1>1, <1>2, <1>3, <1>4, <1>5

\* A reaper owns nothing: it only removes records.
LEMMA RetentionOwners ==
  ASSUME TypeInv, Ownership, NEW s \in Sweeps
  PROVE  SweepList(s) \/ SweepStep(s) => Ownership'
<1> USE DEF uploading, main, clients, records
<1>0. \A k \in Jobs : Handover(k)
  BY DEF Ownership
<1>1. ASSUME SweepList(s) PROVE Ownership'
  BY <1>0, <1>1, SameTame, RecordGentle DEF SweepList
<1>2. ASSUME NEW j \in Jobs, SweepRaw(s, j) \/ SweepOuts(s, j) PROVE Ownership'
  BY <1>0, <1>2, SameTame, RecordGentle DEF SweepRaw, SweepOuts
<1>3. ASSUME NEW j \in Jobs, SweepRecord(s, j) PROVE Ownership'
  <2>1. ASSUME NEW k \in Jobs PROVE RecordTame(k)
    <3>1. age'[k] = age[k] /\ (db'[k] = db[k] \/ db'[k] = Absent)
      BY <1>3 DEF SweepRecord, Write, WriteErr, TypeInv, TypeOK
    <3> QED
      BY <1>0, <3>1 DEF RecordTame, Handover, Absent
  <2> QED
    BY <1>3, <2>1, RecordGentle DEF SweepRecord
<1> QED
  BY <1>1, <1>2, <1>3 DEF SweepStep

\* The steps of a validation but for the one that hands the job over.
LEMMA ValidatorOwners ==
  ASSUME TypeInv, Ownership, NEW j \in Jobs, NEW o \in Starters,
         \/ Deadline(j, o) \/ Probe(j, o) \/ Load(j, o) \/ MarkPending(j, o) \/ GiveUp(j, o)
         \/ Discard(j, o) \/ Reload(j, o) \/ MarkRejected(j, o) \/ TellRejected(j, o)
  PROVE  Ownership'
<1> USE DEF main, clients, records
<1>0. \A k \in Jobs : Handover(k)
  BY DEF Ownership
<1>1. /\ Validating(j, o)
      /\ UNCHANGED <<queue, worker, handler, redrive, phase, age>>
  BY DEF Deadline, Probe, Load, MarkPending, GiveUp, Discard, Reload, MarkRejected,
         TellRejected, At, Validating
<1>2. \A k \in Jobs : \A x \in Starters : k # j \/ x # o => validator'[k][x] = validator[k][x]
  <2>1. \E v : validator' = [validator EXCEPT ![j][o] = v]
    BY DEF Deadline, Probe, Load, MarkPending, GiveUp, Discard, Reload, MarkRejected,
           TellRejected, Step, Read, Return
  <2> QED
    BY <2>1 DEF TypeInv, TypeOK
<1>3. \A k \in Jobs : RecordTame(k)
  <2>1. \/ db' = db
        \/ \E row : Write(j, row) /\ row.status # "uploading" /\ db[j].status # "none"
    <3>1. \A status \in Statuses : [validator[j][o].row EXCEPT !.status = status].status = status
      BY RowTyped, ValidatorTyped DEF TypeInv, TypeOK
    <3> QED
      BY <3>1 DEF Deadline, Probe, Load, MarkPending, GiveUp, Discard, Reload, MarkRejected,
                  TellRejected, StoreOK, WriteErr, Statuses
  <2> QED
    BY <1>0, <1>1, <2>1, SameTame, WriteTame
<1> QED
  BY <1>1, <1>2, <1>3, ValidatorGentle

\* The steps of a worker but for the one that takes a job over.
LEMMA WorkerOwners ==
  ASSUME TypeInv, Ownership, NEW w \in Workers,
         \/ WQuit(w) \/ WLoad(w) \/ WMark(w) \/ WFetch(w) \/ WProgress(w) \/ WEncode(w)
         \/ (\E f \in Renditions : WPut(w, f)) \/ WFinish(w) \/ WFail(w) \/ WTell(w)
  PROVE  Ownership'
<1> USE DEF main, clients, records, uploading
<1>0. \A k \in Jobs : Handover(k)
  BY DEF Ownership
<1>1. /\ UNCHANGED <<queue, validator, handler, redrive, phase, age>>
      /\ worker[w].pc # "idle" \/ (phase # "down" /\ worker[w].pc = "idle" /\ To(w, "quit"))
  BY DEF WQuit, WLoad, WMark, WFetch, WProgress, WEncode, WPut, WFinish, WFail, WTell, On
<1>2. phase # "down"
  BY <1>1, Running
<1>3. PICK v : /\ worker' = [worker EXCEPT ![w] = v]
               /\ \/ v.pc = "quit" \/ v = IdleWorker
                  \/ v.job = worker[w].job /\ worker[w].pc \notin {"idle", "quit"}
  <2>1. CASE WQuit(w)
    <3>1. [worker[w] EXCEPT !.pc = "quit"].pc = "quit"
      BY WorkerTyped DEF TypeInv, TypeOK, Worker
    <3>2. worker' = [worker EXCEPT ![w] = [worker[w] EXCEPT !.pc = "quit"]]
      BY <2>1 DEF WQuit, To
    <3> QED
      BY <3>1, <3>2
  <2>2. CASE WLoad(w)
    BY <2>2, WorkerTyped DEF WLoad, On, Rest, TypeInv, TypeOK, Worker
  <2>3. CASE WMark(w)
    BY <2>3, WorkerTyped DEF WMark, On, Rest, TypeInv, TypeOK, Worker
  <2>4. CASE WFetch(w)
    BY <2>4, WorkerTyped DEF WFetch, On, To, TypeInv, TypeOK, Worker
  <2>5. CASE WProgress(w)
    <3>1. worker' = [worker EXCEPT ![w] = worker[w]]
      BY <2>5 DEF WProgress, TypeInv, TypeOK
    <3> QED
      BY <2>5, <3>1 DEF WProgress, On
  <2>6. CASE WEncode(w)
    BY <2>6, WorkerTyped DEF WEncode, On, To, TypeInv, TypeOK, Worker
  <2>7. CASE \E f \in Renditions : WPut(w, f)
    BY <2>7, WorkerTyped DEF WPut, On, To, TypeInv, TypeOK, Worker
  <2>8. CASE WFinish(w)
    BY <2>8, WorkerTyped DEF WFinish, On, Rest, TypeInv, TypeOK, Worker
  <2>9. CASE WFail(w)
    BY <2>9, WorkerTyped DEF WFail, On, Rest, TypeInv, TypeOK, Worker
  <2>10. CASE WTell(w)
    BY <2>10 DEF WTell, Rest
  <2> QED
    BY <2>1, <2>2, <2>3, <2>4, <2>5, <2>6, <2>7, <2>8, <2>9, <2>10
<1>4. \A x \in Workers \ {w} : worker'[x] = worker[x]
  BY <1>3 DEF TypeInv, TypeOK
<1>5. \A k \in Jobs : Working(k, w)' => Working(k, w)
  BY <1>3 DEF TypeInv, TypeOK, Working, IdleWorker
<1>6. \A k \in Jobs : RecordTame(k)
  <2>1. CASE db' = db
    BY <1>0, <1>1, <2>1, SameTame
  <2>2. CASE db' # db
    <3>1. /\ \E row : Write(worker[w].job, row) /\ row.status # "uploading"
          /\ db[worker[w].job].status # "none"
          /\ worker[w].job \in Jobs
      <4>1. \A status \in Statuses : Held(w, status).status = status
        BY RowTyped, WorkerTyped DEF TypeInv, TypeOK, Held
      <4>2. /\ worker[w].pc = "encode" => worker[w].row.status = "processing"
            /\ worker[w].pc \notin {"idle", "quit"} => worker[w].job \in Jobs
        BY WorkerTyped DEF TypeInv, TypeOK, Sound
      <4> QED
        BY <2>2, <4>1, <4>2 DEF WQuit, WLoad, WMark, WFetch, WProgress, WEncode, WPut, WFinish,
           WFail, WTell, StoreOK, WriteErr, On, Statuses
    <3> QED
      BY <1>0, <1>1, <3>1, WriteTame
  <2> QED
    BY <2>1, <2>2
<1> QED
  BY <1>1, <1>2, <1>4, <1>5, <1>6, WorkerGentle

\* A process that is not there owns nothing.
LEMMA NothingOwned ==
  ASSUME NoProcess, NEW k \in Jobs
  PROVE  ~Owned(k) /\ OneOwner(k) /\ \A r \in Requests : handler[k][r] = "idle"
  BY DEF NoProcess, NoGoroutines, IdleValidator, IdleWorker, Owned, OneOwner, AnyQueued, OnceQueued,
         AnyValidating, Validating, AnyWorking, Working, AnySpawning, Spawning, Awaiting, Queued

\* Recovery, but for the steps that hand a job over.
LEMMA RecoveryOwners ==
  ASSUME TypeInv, Ownership, NEW j \in Jobs,
         BootSkip(j) \/ BootReset(j) \/ BootFail(j)
  PROVE  Ownership'
<1> USE DEF main, clients, records, uploading
<1>0. \A k \in Jobs : Handover(k)
  BY DEF Ownership
<1>1. /\ UNCHANGED <<queue, validator, handler, worker, phase, age>>
      /\ phase = "recovering" /\ redrive[j].status \in {"pending", "processing", "validating"}
  BY DEF BootSkip, BootReset, BootFail, Redriving
<1>2. Local
  BY <1>1 DEF Local
<1>3. ASSUME NEW k \in Jobs PROVE Awaiting(k)' => Awaiting(k)
  <2>1. Awaiting(j)
    BY <1>1 DEF Awaiting, Absent
  <2>2. k # j => redrive'[k] = redrive[k]
    BY DEF BootSkip, BootReset, BootFail, Redriven, TypeInv, TypeOK
  <2> QED
    BY <2>1, <2>2 DEF Awaiting
<1>4. \A k \in Jobs : Shrinks(k) /\ HandlersTame(k)
  BY <1>1, <1>3, Untouched DEF Shrinks
<1>5. \A k \in Jobs : RecordTame(k)
  <2>1. \/ db' = db
        \/ \E row : Write(j, row) /\ row.status # "uploading" /\ db[j].status # "none"
    <3>1. \A status \in Statuses : [redrive[j] EXCEPT !.status = status].status = status
      BY RowTyped DEF TypeInv, TypeOK
    <3> QED
      BY <3>1 DEF BootSkip, BootReset, BootFail, StoreOK, WriteErr, Statuses
  <2> QED
    BY <1>0, <1>1, <2>1, SameTame, WriteTame
<1> QED
  BY <1>2, <1>4, <1>5, GentleStep

\* The start of the process finds nothing owned, and its end leaves nothing so.
LEMMA ProcessOwners ==
  ASSUME TypeInv, Ownership
  PROVE  BootList \/ BootServe \/ Stop \/ Exit \/ Crash => Ownership'
<1> USE DEF main, clients, records, uploading
<1>0. \A k \in Jobs : Handover(k) /\ OneOwner(k)
  BY DEF Ownership
<1>1. ASSUME BootList PROVE Ownership'
  <2>1. NoProcess
    BY <1>1 DEF BootList, Ownership
  <2>2. UNCHANGED <<db, age, handler, validator, worker, queue>> /\ phase' = "recovering"
    BY <1>1 DEF BootList
  <2>3. ASSUME NEW k \in Jobs PROVE OneOwner(k)' /\ Handover(k)'
    <3>1. ~AnyQueued(k)' /\ OnceQueued(k)'
      BY <2>1, <2>2 DEF NoProcess, AnyQueued, OnceQueued, Queued
    <3>2. \A o \in Starters : ~Validating(k, o)'
      BY <2>1, <2>2 DEF NoProcess, NoGoroutines, IdleValidator, Validating
    <3>3. \A w \in Workers : ~Working(k, w)'
      BY <2>1, <2>2 DEF NoProcess, NoGoroutines, IdleWorker, Working
    <3>4. \A r \in Requests : handler'[k][r] = "idle"
      BY <2>1, <2>2 DEF NoProcess, NoGoroutines
    <3>5. OneOwner(k)'
      BY <3>1, <3>2, <3>3, <3>4 DEF OneOwner, AnyValidating, AnyWorking, AnySpawning, Spawning
    <3>6. Owned(k)' => db[k].status \in Interrupted
      BY <1>1, <3>1, <3>2, <3>3, <3>4
         DEF Owned, AnyValidating, AnyWorking, AnySpawning, Spawning, Awaiting, BootList
    <3>7. Handover(k)'
      BY <1>0, <2>2, <3>4, <3>6 DEF Handover, Interrupted
    <3> QED
      BY <3>5, <3>7
  <2> QED
    BY <2>1, <2>2, <2>3 DEF Ownership, NoProcess, NoGoroutines
<1>2. ASSUME BootServe PROVE Ownership'
  <2>1. UNCHANGED <<queue, validator, worker, handler, redrive, db, age>> /\ phase' = "serving"
    BY <1>2 DEF BootServe
  <2>2. \A k \in Jobs : Shrinks(k) /\ HandlersTame(k) /\ RecordTame(k)
    BY <1>0, <2>1, Untouched, SameTame DEF Shrinks
  <2>3. \A k \in Jobs : OneOwner(k)' /\ Handover(k)'
    BY <1>0, <2>2, ShrinkingKeepsOneOwner, TameKeepsHandover
  <2> QED
    BY <2>1, <2>3 DEF Ownership
<1>3. ASSUME Stop PROVE Ownership'
  BY <1>0, <1>3, SameTame, RecordGentle DEF Stop
<1>4. ASSUME Wipe PROVE Ownership'
  <2>1. NoProcess' /\ UNCHANGED <<db, age>> /\ phase' = "down"
    BY <1>4 DEF Wipe, NoProcess, NoGoroutines
  <2>2. ASSUME NEW k \in Jobs
        PROVE  ~Owned(k)' /\ OneOwner(k)' /\ \A r \in Requests : handler'[k][r] = "idle"
    BY <2>1 DEF NoProcess, NoGoroutines, IdleValidator, IdleWorker, Owned, OneOwner, AnyQueued,
       OnceQueued, AnyValidating, Validating, AnyWorking, Working, AnySpawning, Spawning, Awaiting, Queued
  <2>3. \A k \in Jobs : OneOwner(k)' /\ Handover(k)'
    BY <1>0, <2>1, <2>2 DEF Handover
  <2> QED
    BY <2>1, <2>3 DEF Ownership
<1> QED
  BY <1>1, <1>2, <1>3, <1>4 DEF Exit, Crash

-----------------------------------------------------------------------------
(* The steps that hand a job over, each to one owner it had not.            *)

\* Of a job that has an owner before the step, only the one owner has to be
\* shown after it.
LEMMA TakeOver ==
  ASSUME Ownership, Local, NEW j \in Jobs, Owned(j), OneOwner(j)',
         \A k \in Jobs \ {j} : Shrinks(k),
         \A k \in Jobs : HandlersTame(k) /\ RecordTame(k)
  PROVE  Ownership'
<1>1. ASSUME NEW k \in Jobs PROVE OneOwner(k)' /\ (Owned(k)' => Owned(k))
  BY ShrinkingKeepsOneOwner DEF Ownership
<1>2. ASSUME NEW k \in Jobs PROVE Handover(k)'
  BY <1>1, TameKeepsHandover DEF Ownership
<1> QED
  BY <1>1, <1>2, LocalStep

\* From a validation to the channel.
LEMMA EnqueueOwners ==
  ASSUME TypeInv, Ownership, NEW j \in Jobs, NEW o \in Starters, Enqueue(j, o)
  PROVE  Ownership'
<1> USE DEF main, clients, records
<1>1. /\ Validating(j, o) /\ Owned(j)
      /\ queue' = Append(queue, j) /\ validator' = [validator EXCEPT ![j][o] = IdleValidator]
      /\ UNCHANGED <<db, age, handler, worker, redrive, phase>>
  BY DEF Enqueue, At, Send, Return, Validating, Owned, AnyValidating
<1>2. Local
  BY <1>1, Running DEF Local
<1>3. \A k \in Jobs : HandlersTame(k) /\ RecordTame(k)
  BY <1>1, Untouched, SameTame DEF Ownership
<1>4. \A k \in Jobs : \A x \in Starters :
        validator'[k][x] = IF k = j /\ x = o THEN IdleValidator ELSE validator[k][x]
  BY <1>1 DEF TypeInv, TypeOK
<1>5. \A k \in Jobs \ {j} : Shrinks(k)
  <2>1. ASSUME NEW k \in Jobs \ {j} PROVE \A x \in Starters : Validating(k, x)' => Validating(k, x)
    BY <1>4 DEF Validating
  <2> QED
    BY <1>1, <2>1, Untouched, AppendOnce DEF Shrinks, TypeInv, TypeOK
<1>6. OneOwner(j)'
  <2>1. OneOwner(j)
    BY DEF Ownership
  <2>2. /\ ~AnyQueued(j) /\ ~AnyWorking(j) /\ ~AnySpawning(j) /\ ~Awaiting(j)
        /\ \A x \in Starters : Validating(j, x) => x = o
    BY <1>1, <2>1 DEF OneOwner, AnyValidating
  <2>3. OnceQueued(j)'
    BY <1>1, <2>2, AppendOnce DEF TypeInv, TypeOK
  <2>4. \A x \in Starters : ~Validating(j, x)'
    BY <1>4, <2>2 DEF Validating, IdleValidator
  <2>5. /\ \A w \in Workers : ~Working(j, w)'
        /\ \A r \in Requests : ~Spawning(j, r)'
        /\ ~Awaiting(j)'
    BY <1>1, <2>2, Untouched DEF AnyWorking, AnySpawning
  <2> QED
    BY <2>3, <2>4, <2>5 DEF OneOwner, AnyValidating, AnyWorking, AnySpawning
<1> QED
  BY <1>1, <1>2, <1>3, <1>5, <1>6, TakeOver

\* From the channel to a worker.
LEMMA DequeueOwners ==
  ASSUME TypeInv, Ownership, NEW w \in Workers, WDequeue(w)
  PROVE  Ownership'
<1> USE DEF main, clients, records, uploading
<1> DEFINE j == Head(queue)
           v == [worker[w] EXCEPT !.pc = "load", !.job = j]
<1>1. /\ worker[w].pc = "idle" /\ phase # "down" /\ queue # <<>>
      /\ queue' = Tail(queue) /\ worker' = [worker EXCEPT ![w] = v]
      /\ UNCHANGED <<db, age, handler, validator, redrive, phase>>
  BY DEF WDequeue, On
<1>2. j \in Jobs /\ v.job = j
  BY <1>1, WorkerTyped DEF TypeInv, TypeOK, Worker
<1>3. \A x \in Workers : worker'[x] = IF x = w THEN v ELSE worker[x]
  BY <1>1 DEF TypeInv, TypeOK
<1> HIDE DEF v
<1>4. PICK i \in Jobs : i = Head(queue)
  BY <1>2
<1> HIDE DEF j
<1>5. /\ AnyQueued(i) /\ (OnceQueued(i) => ~AnyQueued(i)')
      /\ \A k \in Jobs : (AnyQueued(k)' => AnyQueued(k)) /\ (OnceQueued(k) => OnceQueued(k)')
  BY <1>1, <1>4, TailOnce DEF TypeInv, TypeOK
<1>6. Local
  BY <1>1 DEF Local
<1>7. \A k \in Jobs : HandlersTame(k) /\ RecordTame(k)
  BY <1>1, Untouched, SameTame DEF Ownership
<1>8. v.job = i
  BY <1>2, <1>4 DEF j
<1>9. \A k \in Jobs \ {i} : Shrinks(k)
  <2>1. ASSUME NEW k \in Jobs \ {i} PROVE \A x \in Workers : Working(k, x)' => Working(k, x)
    BY <1>3, <1>8 DEF Working
  <2> QED
    BY <1>1, <1>5, <2>1, Untouched DEF Shrinks
<1>10. OneOwner(i)'
  <2>1. OneOwner(i)
    BY DEF Ownership
  <2>2. /\ ~AnyValidating(i) /\ ~AnyWorking(i) /\ ~AnySpawning(i) /\ ~Awaiting(i)
        /\ OnceQueued(i) /\ ~AnyQueued(i)' /\ OnceQueued(i)'
    BY <1>5, <2>1 DEF OneOwner
  <2>3. \A x \in Workers : Working(i, x)' => x = w
    BY <1>3, <2>2 DEF Working, AnyWorking
  <2>4. /\ \A o \in Starters : ~Validating(i, o)'
        /\ \A r \in Requests : ~Spawning(i, r)'
        /\ ~Awaiting(i)'
    BY <1>1, <2>2, Untouched DEF AnyValidating, AnySpawning
  <2> QED
    BY <2>2, <2>3, <2>4 DEF OneOwner, AnyValidating, AnySpawning
<1> QED
  BY <1>5, <1>6, <1>7, <1>9, <1>10, TakeOver DEF Owned

\* From recovery to the channel.
LEMMA RequeueOwners ==
  ASSUME TypeInv, Ownership, NEW j \in Jobs, BootRequeue(j)
  PROVE  Ownership'
<1> USE DEF main, clients, records, uploading
<1>1. /\ phase = "recovering" /\ Awaiting(j)
      /\ queue' = Append(queue, j) /\ redrive' = [redrive EXCEPT ![j] = Absent]
      /\ UNCHANGED <<db, age, handler, validator, worker, phase>>
  BY DEF BootRequeue, Redriving, Redriven, Send, Awaiting, Absent
<1>2. Local
  BY <1>1 DEF Local
<1>3. \A k \in Jobs : HandlersTame(k) /\ RecordTame(k)
  BY <1>1, Untouched, SameTame DEF Ownership
<1>4. \A k \in Jobs \ {j} : Shrinks(k)
  <2>1. ASSUME NEW k \in Jobs \ {j} PROVE Awaiting(k)' => Awaiting(k)
    BY <1>1 DEF Awaiting, TypeInv, TypeOK
  <2> QED
    BY <1>1, <2>1, Untouched, AppendOnce DEF Shrinks, TypeInv, TypeOK
<1>5. OneOwner(j)'
  <2>1. OneOwner(j)
    BY DEF Ownership
  <2>2. ~AnyQueued(j) /\ ~AnyValidating(j) /\ ~AnyWorking(j) /\ ~AnySpawning(j)
    BY <1>1, <2>1 DEF OneOwner
  <2>3. OnceQueued(j)' /\ ~Awaiting(j)'
    BY <1>1, <2>2, AppendOnce DEF Awaiting, TypeInv, TypeOK
  <2>4. /\ \A o \in Starters : ~Validating(j, o)'
        /\ \A w \in Workers : ~Working(j, w)'
        /\ \A r \in Requests : ~Spawning(j, r)'
    BY <1>1, <2>2, Untouched DEF AnyValidating, AnyWorking, AnySpawning
  <2> QED
    BY <2>3, <2>4 DEF OneOwner, AnyValidating, AnyWorking, AnySpawning
<1> QED
  BY <1>1, <1>2, <1>3, <1>4, <1>5, TakeOver DEF Owned

\* From recovery to a validation.
LEMMA ResumeOwners ==
  ASSUME TypeInv, Ownership, NEW j \in Jobs, BootStat(j)
  PROVE  Ownership'
<1> USE DEF main, clients, records, uploading
<1>1. /\ phase = "recovering" /\ Awaiting(j)
      /\ UNCHANGED <<db, age, handler, queue, worker, phase>>
  BY DEF BootStat, Redriving, Awaiting, Absent
<1>2. Local
  BY <1>1 DEF Local
<1>3. \A k \in Jobs : HandlersTame(k) /\ RecordTame(k)
  BY <1>1, Untouched, SameTame DEF Ownership
<1>4. \/ redrive' = redrive
      \/ redrive' = [redrive EXCEPT ![j] = Absent]
  BY DEF BootStat, Redriven
<1>5. ASSUME NEW k \in Jobs PROVE Awaiting(k)' => Awaiting(k)
  BY <1>4 DEF Awaiting, TypeInv, TypeOK
<1>6. CASE validator' = validator
  <2>1. \A k \in Jobs : Shrinks(k)
    BY <1>1, <1>5, <1>6, Untouched DEF Shrinks
  <2> QED
    BY <1>2, <1>3, <2>1, GentleStep
<1>7. CASE validator' # validator
  <2>1. PICK v : validator' = [validator EXCEPT ![j][Boot] = v]
    BY <1>7 DEF BootStat
  <2>2. ~Awaiting(j)'
    BY <1>7 DEF BootStat, Redriven, Awaiting, TypeInv, TypeOK
  <2>3. \A k \in Jobs : \A o \in Starters : k # j \/ o # Boot => validator'[k][o] = validator[k][o]
    BY <2>1 DEF TypeInv, TypeOK
  <2>4. \A k \in Jobs \ {j} : Shrinks(k)
    <3>1. ASSUME NEW k \in Jobs \ {j} PROVE \A o \in Starters : Validating(k, o)' => Validating(k, o)
      BY <2>3 DEF Validating
    <3> QED
      BY <1>1, <1>5, <3>1, Untouched DEF Shrinks
  <2>5. OneOwner(j)'
    <3>1. OneOwner(j)
      BY DEF Ownership
    <3>2. ~AnyQueued(j) /\ ~AnyValidating(j) /\ ~AnyWorking(j) /\ ~AnySpawning(j)
      BY <1>1, <3>1 DEF OneOwner
    <3>3. \A o \in Starters : Validating(j, o)' => o = Boot
      BY <2>3, <3>2 DEF Validating, AnyValidating
    <3>4. /\ ~AnyQueued(j)' /\ OnceQueued(j)'
          /\ \A w \in Workers : ~Working(j, w)'
          /\ \A r \in Requests : ~Spawning(j, r)'
      BY <1>1, <3>1, <3>2, Untouched DEF OneOwner, AnyWorking, AnySpawning
    <3> QED
      BY <2>2, <3>3, <3>4 DEF OneOwner, AnyWorking, AnySpawning
  <2> QED
    BY <1>1, <1>2, <1>3, <2>4, <2>5, TakeOver DEF Owned
<1> QED
  BY <1>6, <1>7

-----------------------------------------------------------------------------
(* The complete call.  Its first steps own nothing yet; what they rest on   *)
(* is that it is the only one, and found the record "uploading".            *)

\* Where the handlers are after a step of one of them.
LEMMA GoneTo ==
  ASSUME TypeInv, NEW j \in Jobs, NEW r \in Requests, NEW step, GoTo(j, r, step)
  PROVE  \A k \in Jobs : \A x \in Requests :
           handler'[k][x] = IF k = j /\ x = r THEN step ELSE handler[k][x]
  BY DEF TypeInv, TypeOK, GoTo

\* The other jobs, in a step that moves a handler of j.
LEMMA OtherJobs ==
  ASSUME TypeInv, NEW j \in Jobs, NEW r \in Requests, NEW step, GoTo(j, r, step),
         UNCHANGED <<queue, worker, redrive, age>>,
         \A k \in Jobs \ {j} : validator'[k] = validator[k] /\ db'[k] = db[k],
         \A k \in Jobs : OneOwner(k) /\ Handover(k)
  PROVE  \A k \in Jobs \ {j} : Shrinks(k) /\ HandlersTame(k) /\ RecordTame(k)
<1>1. ASSUME NEW k \in Jobs \ {j} PROVE Shrinks(k)
  BY <1>1, GoneTo, Untouched DEF Shrinks, Spawning, Validating
<1>2. ASSUME NEW k \in Jobs \ {j} PROVE HandlersTame(k)
  BY <1>2, GoneTo DEF HandlersTame
<1>3. ASSUME NEW k \in Jobs \ {j} PROVE RecordTame(k)
  BY <1>3 DEF RecordTame, Handover
<1> QED
  BY <1>1, <1>2, <1>3

\* The job is "uploading", so it has no owner yet.
LEMMA LoadOwners ==
  ASSUME TypeInv, Ownership, "overlap" \notin Strays,
         NEW j \in Jobs, NEW r \in Requests, CompleteLoad(j, r)
  PROVE  Ownership'
<1> USE DEF main, clients, records
<1>1. /\ phase = "serving" /\ db[j].status = "uploading"
      /\ \A x \in Requests : handler[j][x] = "idle"
      /\ GoTo(j, r, "stat")
      /\ UNCHANGED <<db, age, queue, validator, worker, redrive, phase>>
  BY DEF CompleteLoad, MayComplete, Promised, Accepting
<1>2. Local
  BY <1>1 DEF Local
<1>3. \A x \in Requests : handler'[j][x] = IF x = r THEN "stat" ELSE "idle"
  BY <1>1, GoneTo
<1>4. Shrinks(j)
  BY <1>1, <1>3, Untouched DEF Shrinks, Spawning
<1>5. OneOwner(j)' /\ ~Owned(j)'
  BY <1>1, <1>4, ShrinkingKeepsOneOwner DEF Ownership, Handover
<1>6. Handover(j)'
  <2>1. age[j] # Unborn
    BY <1>1 DEF Ownership, Handover
  <2> QED
    BY <1>1, <1>3, <1>5, <2>1 DEF Handover
<1>7. \A k \in Jobs \ {j} : OneOwner(k)' /\ Handover(k)'
  BY <1>1, OtherJobs, ShrinkingKeepsOneOwner, TameKeepsHandover DEF Ownership
<1> QED
  BY <1>2, <1>5, <1>6, <1>7, LocalStep

\* The HEAD of the object changes no record, nor does a publish that panics.
LEMMA StatOwners ==
  ASSUME TypeInv, Ownership, NEW j \in Jobs, NEW r \in Requests,
         CompleteStat(j, r) \/ CompletePanic(j, r)
  PROVE  Ownership'
<1> USE DEF main, clients, records
<1>1. PICK step \in {"mark", "idle"} :
        GoTo(j, r, step) /\ (step = "mark" => handler[j][r] = "stat")
  BY DEF CompleteStat, CompletePanic
<1>2. /\ handler[j][r] # "idle"
      /\ UNCHANGED <<db, age, queue, validator, worker, redrive, phase>>
  BY DEF CompleteStat, CompletePanic
<1>3. Local
  BY <1>2, Running DEF Local
<1>4. \A x \in Requests : handler'[j][x] = IF x = r THEN step ELSE handler[j][x]
  BY <1>1, GoneTo
<1>5. Shrinks(j) /\ HandlersTame(j) /\ RecordTame(j)
  <2>1. Shrinks(j)
    BY <1>2, <1>4, Untouched DEF Shrinks, Spawning
  <2>2. HandlersTame(j)
    <3>1. ASSUME NEW x \in Requests
          PROVE  /\ handler'[j][x] # "idle" => handler[j][x] # "idle"
                 /\ handler'[j][x] \in {"stat", "mark"} => handler[j][x] \in {"stat", "mark"}
      BY <1>1, <1>2, <1>4
    <3> QED
      BY <3>1 DEF HandlersTame
  <2>3. RecordTame(j)
    BY <1>2, SameTame DEF Ownership
  <2> QED
    BY <2>1, <2>2, <2>3
<1>6. \A k \in Jobs \ {j} : Shrinks(k) /\ HandlersTame(k) /\ RecordTame(k)
  BY <1>1, <1>2, OtherJobs DEF Ownership
<1> QED
  BY <1>3, <1>5, <1>6, GentleStep

\* The step that makes a first owner: the job had none.
LEMMA MarkOwners ==
  ASSUME TypeInv, Ownership, NEW j \in Jobs, NEW r \in Requests, CompleteMark(j, r)
  PROVE  Ownership'
<1> USE DEF main, clients, records
<1>1. /\ handler[j][r] = "mark"
      /\ UNCHANGED <<age, queue, validator, worker, redrive, phase>>
  BY DEF CompleteMark
<1>2. Local
  BY <1>1, Running DEF Local
<1>3. ~Owned(j) /\ OneOwner(j) /\ \A x \in Requests : handler[j][x] # "idle" => x = r
  BY <1>1 DEF Ownership, Handover
<1>4. CASE /\ \/ db' = db
              \/ /\ db[j].status # "none"
                 /\ Write(j, [status |-> "validating", outs |-> {}])
           /\ GoTo(j, r, "idle")
  <2>1. \A x \in Requests : handler'[j][x] = IF x = r THEN "idle" ELSE handler[j][x]
    BY <1>4, GoneTo
  <2>2. Shrinks(j)
    BY <1>1, <2>1, Untouched DEF Shrinks, Spawning
  <2>3. HandlersTame(j)
    BY <1>1, <2>1 DEF HandlersTame
  <2>4. \A k \in Jobs : RecordTame(k)
    BY <1>1, <1>4, SameTame, WriteTame DEF Ownership
  <2>5. \A k \in Jobs \ {j} : Shrinks(k) /\ HandlersTame(k)
    <3>1. \A k \in Jobs \ {j} : handler'[k] = handler[k]
      BY <1>4 DEF GoTo, TypeInv, TypeOK
    <3> QED
      BY <1>1, <3>1, Untouched DEF Shrinks, HandlersTame, Spawning
  <2> QED
    BY <1>2, <2>2, <2>3, <2>4, <2>5, GentleStep
<1>5. CASE /\ db[j].status # "none"
           /\ Write(j, [status |-> "validating", outs |-> {}])
           /\ GoTo(j, r, "spawn")
  <2>1. \A x \in Requests : handler'[j][x] = IF x = r THEN "spawn" ELSE "idle"
    BY <1>3, <1>5, GoneTo
  <2>2. /\ ~AnyQueued(j) /\ OnceQueued(j) /\ ~Awaiting(j)
        /\ \A o \in Starters : ~Validating(j, o)
        /\ \A w \in Workers : ~Working(j, w)
    BY <1>3 DEF Owned, OneOwner, AnyValidating, AnyWorking
  <2>3. /\ ~AnyQueued(j)' /\ OnceQueued(j)' /\ ~Awaiting(j)'
        /\ \A o \in Starters : ~Validating(j, o)'
        /\ \A w \in Workers : ~Working(j, w)'
    BY <1>1, <2>2, Untouched
  <2>4. OneOwner(j)'
    BY <2>1, <2>3 DEF OneOwner, AnyValidating, AnyWorking, AnySpawning, Spawning
  <2>5. Handover(j)'
    <3>1. db'[j].status = "validating" /\ \A k \in Jobs \ {j} : db'[k] = db[k]
      BY <1>5 DEF Write, TypeInv, TypeOK
    <3>2. age[j] # Unborn
      BY <1>5 DEF Ownership, Handover
    <3> QED
      BY <1>1, <2>1, <3>1, <3>2 DEF Handover
  <2>6. \A k \in Jobs \ {j} : OneOwner(k)' /\ Handover(k)'
    <3>1. \A k \in Jobs \ {j} : db'[k] = db[k]
      BY <1>5 DEF Write, TypeInv, TypeOK
    <3> QED
      BY <1>1, <1>5, <3>1, OtherJobs, ShrinkingKeepsOneOwner, TameKeepsHandover DEF Ownership
  <2> QED
    BY <1>2, <2>4, <2>5, <2>6, LocalStep
<1> QED
  BY <1>4, <1>5 DEF CompleteMark, StoreOK, WriteErr

\* From a complete call to the validation it starts.
LEMMA SpawnOwners ==
  ASSUME TypeInv, Ownership, NEW j \in Jobs, NEW r \in Requests, CompleteSpawn(j, r)
  PROVE  Ownership'
<1> USE DEF main, clients, records
<1>1. /\ handler[j][r] = "spawn" /\ GoTo(j, r, "idle")
      /\ UNCHANGED <<db, age, queue, worker, redrive, phase>>
  BY DEF CompleteSpawn
<1>2. PICK v : validator' = [validator EXCEPT ![j][r] = v]
  BY DEF CompleteSpawn
<1>3. \A k \in Jobs : \A x \in Starters : k # j \/ x # r => validator'[k][x] = validator[k][x]
  BY <1>2 DEF TypeInv, TypeOK
<1>4. \A k \in Jobs \ {j} : validator'[k] = validator[k]
  BY <1>2 DEF TypeInv, TypeOK
<1>5. Local
  BY <1>1, Running DEF Local
<1>6. \A x \in Requests : handler'[j][x] = IF x = r THEN "idle" ELSE handler[j][x]
  BY <1>1, GoneTo
<1>7. Owned(j) /\ OneOwner(j)
  BY <1>1 DEF Owned, AnySpawning, Spawning, Ownership
<1>8. OneOwner(j)'
  <2>1. /\ ~AnyQueued(j) /\ OnceQueued(j) /\ ~AnyValidating(j) /\ ~AnyWorking(j) /\ ~Awaiting(j)
        /\ \A x \in Requests : Spawning(j, x) => x = r
    BY <1>1, <1>7 DEF OneOwner, AnySpawning, Spawning
  <2>2. /\ ~AnyQueued(j)' /\ OnceQueued(j)' /\ ~Awaiting(j)'
        /\ \A w \in Workers : ~Working(j, w)'
    BY <1>1, <2>1, Untouched DEF AnyWorking
  <2>3. \A x \in Requests : ~Spawning(j, x)'
    BY <1>6, <2>1 DEF Spawning
  <2>4. \A o \in Starters : Validating(j, o)' => o = r
    BY <1>3, <2>1 DEF Validating, AnyValidating
  <2> QED
    BY <2>2, <2>3, <2>4 DEF OneOwner, AnyWorking, AnySpawning
<1>9. HandlersTame(j) /\ RecordTame(j)
  <2>1. HandlersTame(j)
    BY <1>6 DEF HandlersTame
  <2>2. RecordTame(j)
    BY <1>1, SameTame DEF Ownership
  <2> QED
    BY <2>1, <2>2
<1>10. \A k \in Jobs \ {j} : Shrinks(k) /\ HandlersTame(k) /\ RecordTame(k)
  BY <1>1, <1>4, OtherJobs DEF Ownership
<1> QED
  BY <1>5, <1>7, <1>8, <1>9, <1>10, TakeOver

-----------------------------------------------------------------------------

\* Ownership is inductive together with the types: every step keeps it,
LEMMA NextOwners ==
  ASSUME TypeInv, Ownership, "overlap" \notin Strays, [Next]_vars
  PROVE  Ownership'
<1> HIDE DEF TypeInv, Ownership
<1>1. CASE UploadNext
  <2>1. PICK j \in Jobs :
          \/ \E k \in Kinds : CreateUpload(j, k)
          \/ PresignPut(j) \/ PresignError(j)
          \/ \E bytes \in Uploads : ClientPut(j, bytes)
          \/ Grow(j)
          \/ \E r \in Requests : CompleteLoad(j, r) \/ HandlerStep(j, r)
          \/ \E o \in Starters : Deadline(j, o) \/ ValidatorStep(j, o)
    BY <1>1 DEF UploadNext
  <2>2. CASE \E r \in Requests : CompleteLoad(j, r) \/ HandlerStep(j, r)
    BY <2>2, LoadOwners, StatOwners, MarkOwners, SpawnOwners DEF HandlerStep
  <2>3. CASE \E o \in Starters : Deadline(j, o) \/ ValidatorStep(j, o)
    BY <2>3, ValidatorOwners, EnqueueOwners DEF ValidatorStep
  <2> QED
    BY <2>1, <2>2, <2>3, SessionOwners
<1>2. CASE WorkerPoolNext
  BY <1>2, WorkerOwners, DequeueOwners DEF WorkerPoolNext, WorkerStep
<1>3. CASE RecoveryNext
  BY <1>3, ProcessOwners, RecoveryOwners, RequeueOwners, ResumeOwners
     DEF RecoveryNext, MainStep, RecoverJob
<1>4. CASE RetentionNext
  BY <1>4, RetentionOwners DEF RetentionNext
<1>5. CASE UNCHANGED vars
  BY <1>5, SameTame, RecordGentle DEF vars, Ownership, uploading, main, clients, records
<1> QED
  BY <1>1, <1>2, <1>3, <1>4, <1>5 DEF Next

\* and it holds before the first start.
LEMMA InitOwners ==
  ASSUME Init
  PROVE  Ownership
<1>1. NoProcess
  BY DEF Init, NoProcess
<1>2. \A k \in Jobs : ~Owned(k) /\ OneOwner(k) /\ \A r \in Requests : handler[k][r] = "idle"
  BY <1>1, NothingOwned
<1>3. \A k \in Jobs : db[k].status = "none"
  BY DEF Init, Absent
<1> QED
  BY <1>1, <1>2, <1>3 DEF Ownership, Handover, Init

\* Ownership with the types is inductive, so it always holds.
THEOREM OwnershipCorrect ==
  ASSUME "overlap" \notin Strays
  PROVE  Spec => []Ownership
<1>1. Init => TypeInv /\ Ownership
  BY InitTypes, InitOwners
<1>2. TypeInv /\ Ownership /\ [Next]_vars => (TypeInv /\ Ownership)'
  BY NextTypes, NextOwners
<1> QED
  BY <1>1, <1>2, PTL DEF Spec

\* For any number of jobs, requests, workers and renditions, any size of the
\* channel, and through every fault, deadline, stop and crash: if a client
\* makes its complete calls for a job one after the other, that job never has
\* two owners.
THEOREM SingleOwnerCorrect ==
  ASSUME "overlap" \notin Strays
  PROVE  Spec => []SingleOwner
<1>1. Ownership => SingleOwner
  BY DEF Ownership, SingleOwner
<1> QED
  BY <1>1, OwnershipCorrect, PTL


=============================================================================
