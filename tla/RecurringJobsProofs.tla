------------------------- MODULE RecurringJobsProofs -------------------------
(***************************************************************************)
(* Proofs about RecurringJobs, for every number of jobs, executions and    *)
(* sessions, every bound and every choice of failures.                     *)
(***************************************************************************)
EXTENDS RecurringJobs, Functions, FiniteSetTheorems, TLAPS

\* The part of TypeOK that is about executions.
ProcOK ==
  /\ proc \in [Proc -> Execution]
  /\ \A p \in Proc : proc[p].at \in Working => proc[p].job \in Job

\* Moving an execution on keeps it well formed; so does ending it.
LEMMA GotoOK ==
  ASSUME ProcOK, NEW p \in Proc, NEW place \in Place,
         place \in Working => proc[p].job \in Job, Goto(p, place)
  PROVE  ProcOK'
BY DEF ProcOK, Goto, Execution

LEMMA DoneOK ==
  ASSUME ProcOK, NEW p \in Proc, Done(p)
  PROVE  ProcOK'
<1>1. Idle \in Execution
  BY DEF Idle, Execution, Place, NoRow, Row, Status
<1>2. Idle.at \notin Working
  BY DEF Idle, Working
<1> QED BY <1>1, <1>2 DEF ProcOK, Done

\* An execution that begins is at work on a job, or purges a session.
LEMMA BeginOK ==
  ASSUME ProcOK, NEW p \in Proc, NEW r \in Execution,
         r.at \in Working => r.job \in Job, Begin(p, r)
  PROVE  ProcOK'
BY DEF ProcOK, Begin

\* Keeping the alarm that was just scheduled, or the run just claimed.
LEMMA AlarmKept ==
  ASSUME ProcOK, NEW p \in Proc, NEW place \in Place, proc[p].job \in Job,
         NEW n \in Nat,
         proc' = [proc EXCEPT ![p].at = place, ![p].alarm = n]
  PROVE  ProcOK'
<1>1. proc' = [proc EXCEPT ![p] = [proc[p] EXCEPT !.at = place, !.alarm = n]]
  BY DEF ProcOK
<1>2. [proc[p] EXCEPT !.at = place, !.alarm = n] \in Execution
  BY DEF ProcOK, Execution
<1> QED BY <1>1, <1>2 DEF ProcOK, Execution

LEMMA RunKept ==
  ASSUME ProcOK, NEW p \in Proc, NEW place \in Place, proc[p].job \in Job,
         NEW n \in Nat,
         proc' = [proc EXCEPT ![p].at = place, ![p].run = n]
  PROVE  ProcOK'
<1>1. proc' = [proc EXCEPT ![p] = [proc[p] EXCEPT !.at = place, !.run = n]]
  BY DEF ProcOK
<1>2. [proc[p] EXCEPT !.at = place, !.run = n] \in Execution
  BY DEF ProcOK, Execution
<1> QED BY <1>1, <1>2 DEF ProcOK, Execution

\* The rows stay rows whatever well-formed row an UPDATE writes.
LEMMA UpdatedOK ==
  ASSUME rows \in [Job -> Row], NEW j \in Job, NEW r \in Row
  PROVE  Updated(j, r) \in [Job -> Row] /\ [rows EXCEPT ![j] = r] \in [Job -> Row]
BY DEF Updated

LEMMA NoRowOK == NoRow \in Row
BY DEF NoRow, Row, Status

LEMMA IdleOK == Idle \in Execution /\ Idle.at \notin Working
BY NoRowOK DEF Idle, Execution, Place, Working

\* Faults and crashes are counted in Nat.
LEMMA FaultOK ==
  ASSUME faults \in Nat, crashes \in Nat, Fault \/ NoFault
  PROVE  faults' \in Nat /\ crashes' \in Nat
BY DEF Fault, NoFault

\* The scheduler's part of TypeOK.
ClockOK == alarms \subseteq Alarm /\ lastAlarm \in Nat /\ drifted \in BOOLEAN

\* A call that schedules, whatever it answers, and one that cancels.
LEMMA ScheduleStepOK ==
  ASSUME TypeOK, NEW p \in Proc, proc[p].job \in Job,
         NEW s \in Session \cup {None}, NEW place \in Place,
         \/ \E id \in 1..MaxAlarms :
              /\ Schedule(proc[p].job, s, id)
              /\ proc' = [proc EXCEPT ![p].at = place, ![p].alarm = id]
              /\ NoFault
         \/ ScheduleFails(proc[p].job, s) /\ (Done(p) \/ Goto(p, "create.erase"))
  PROVE  ClockOK' /\ ProcOK' /\ faults' \in Nat /\ crashes' \in Nat
<1>0. ProcOK /\ ClockOK /\ faults \in Nat /\ crashes \in Nat
  BY DEF TypeOK, ProcOK, ClockOK
<1>1. \A id \in 1..MaxAlarms : id \in Nat
  BY BoundAssumption
<1>2. ASSUME NEW id \in 1..MaxAlarms, Schedule(proc[p].job, s, id) PROVE ClockOK'
  <2>1. CASE NewAlarm(proc[p].job, s, id)
    <3>1. [id |-> id, job |-> proc[p].job, session |-> s] \in Alarm
      BY <1>1 DEF Alarm
    <3> QED BY <1>0, <1>1, <2>1, <3>1 DEF NewAlarm, ClockOK
  <2>2. CASE SameAlarm(proc[p].job, s, id)
    BY <1>0, <2>2 DEF SameAlarm, ClockOK
  <2> QED BY <1>2, <2>1, <2>2 DEF Schedule
<1>3. CASE ScheduleFails(proc[p].job, s) /\ (Done(p) \/ Goto(p, "create.erase"))
  <2>1. ClockOK'
    BY <1>0, <1>2, <1>3 DEF ScheduleFails, Schedule, ClockOK, clock
  <2>2. ProcOK'
    BY <1>0, <1>3, DoneOK, GotoOK DEF Place
  <2> QED BY <1>0, <1>3, <2>1, <2>2, FaultOK DEF ScheduleFails
<1>4. CASE \E id \in 1..MaxAlarms :
             /\ Schedule(proc[p].job, s, id)
             /\ proc' = [proc EXCEPT ![p].at = place, ![p].alarm = id]
             /\ NoFault
  BY <1>0, <1>1, <1>2, <1>4, AlarmKept, FaultOK
<1> QED BY <1>3, <1>4

LEMMA CancelStepOK ==
  ASSUME TypeOK, NEW s, NEW id,
         \/ TryCancel(s, id)
         \/ /\ (Cancel(s, id) /\ NoFault) \/ CancelFails(s, id)
            /\ UNCHANGED drifted \/ Drift
  PROVE  ClockOK' /\ faults' \in Nat /\ crashes' \in Nat
<1>1. alarms' \subseteq Alarm /\ lastAlarm' = lastAlarm
  BY DEF TypeOK, TryCancel, Cancel, CancelFails, Without
<1>2. drifted' \in BOOLEAN
  BY DEF TypeOK, TryCancel, Drift
<1>3. faults' \in Nat /\ crashes' \in Nat
  BY FaultOK DEF TypeOK, TryCancel, CancelFails
<1> QED BY <1>1, <1>2, <1>3 DEF TypeOK, ClockOK

LEMMA Fields ==
  ASSUME TypeOK, NEW p \in Proc
  PROVE  /\ proc[p].at \in Place /\ proc[p].row \in Row /\ proc[p].limit \in Nat
         /\ proc[p].session \in Session \cup {None}
         /\ proc[p].key \in RunKey \cup {None}
         /\ proc[p].alarm \in Nat /\ proc[p].run \in Nat
         /\ proc[p].todo \in SUBSET Nat
<1>1. proc[p] \in Execution
  BY DEF TypeOK
<1> QED BY <1>1 DEF Execution

LEMMA RowFields ==
  ASSUME NEW r \in Row
  PROVE  /\ r.status \in Status /\ r.runs \in Nat /\ r.limit \in Nat
         /\ r.schedule \in Nat /\ r.session \in Session \cup {None}
BY DEF Row

\* What the UPDATE statements write to a row is a row.
LEMMA ScheduleRow ==
  ASSUME NEW r \in Row, NEW sc \in Nat
  PROVE  [r EXCEPT !.schedule = sc] \in Row
BY DEF Row

LEMMA StatusRow ==
  ASSUME NEW r \in Row, NEW st \in Status, NEW sc \in Nat
  PROVE  [r EXCEPT !.status = st, !.schedule = sc] \in Row
BY DEF Row

LEMMA UpdateRow ==
  ASSUME NEW r \in Row, NEW st \in Status, NEW l \in Nat, NEW sc \in Nat,
         NEW se \in Session \cup {None}
  PROVE  [r EXCEPT !.status = st, !.limit = l, !.schedule = sc, !.session = se] \in Row
BY DEF Row

LEMMA ClaimedRow ==
  ASSUME NEW r \in Row
  PROVE  Claimed(r) \in Row
<1>1. r.runs + 1 \in Nat
  BY DEF Row
<1>2. [r EXCEPT !.runs = @ + 1] \in Row
  BY <1>1 DEF Row
<1>3. [r EXCEPT !.runs = @ + 1, !.status = "exhausted", !.schedule = 0] \in Row
  BY <1>1 DEF Row, Status
<1> QED BY <1>2, <1>3 DEF Claimed

LEMMA CreateType ==
  ASSUME TypeOK, NEW p \in Proc,
         CreateInsert(p) \/ CreateSchedule(p) \/ CreateRecord(p) \/ CreateCancel(p) \/ CreateErase(p)
  PROVE  TypeOK'
<1> USE DEF TypeOK, store, clock, ledger, At
<1>1. CASE CreateInsert(p)
  <2>1. proc[p].job \in Job
    BY <1>1 DEF CreateInsert, Place, Working
  <2> DEFINE row == [status |-> "active", runs |-> 0, limit |-> proc[p].limit,
                     schedule |-> 0, session |-> proc[p].session, key |-> proc[p].key]
  <2>2. row \in Row
    BY Fields DEF Row, Status
  <2>3. rows' = rows \/ rows' = [rows EXCEPT ![proc[p].job] = row]
    BY <1>1 DEF CreateInsert
  <2> HIDE DEF row
  <2>4. rows' \in [Job -> Row]
    BY <2>1, <2>2, <2>3
  <2>5. ProcOK /\ ProcOK'
    BY <1>1, <2>1, GotoOK, DoneOK DEF ProcOK, CreateInsert, Place, Working
  <2> QED BY <1>1, <2>4, <2>5, FaultOK DEF ProcOK, CreateInsert
<1>2. CASE CreateSchedule(p)
  <2>1. proc[p].job \in Job /\ proc[p].session \in Session \cup {None}
    BY <1>2, Fields DEF CreateSchedule, Place, Working
  <2>2. ProcOK' /\ ClockOK' /\ faults' \in Nat /\ crashes' \in Nat
    BY <1>2, <2>1, ScheduleStepOK DEF CreateSchedule, Place
  <2> QED BY <1>2, <2>2 DEF ProcOK, ClockOK, CreateSchedule
<1>3. CASE CreateRecord(p)
  <2>1. proc[p].job \in Job
    BY <1>3 DEF CreateRecord, Place, Working
  <2>2. rows[proc[p].job] \in Row
    BY <2>1
  <2>3. [rows[proc[p].job] EXCEPT !.schedule = proc[p].alarm] \in Row
    BY <2>2, Fields, ScheduleRow
  <2>4. rows' \in [Job -> Row]
    BY <1>3, <2>1, <2>3, UpdatedOK, NoRowOK DEF CreateRecord
  <2>5. ProcOK /\ ProcOK'
    BY <1>3, <2>1, <2>3, GotoOK, DoneOK, RunKept DEF ProcOK, CreateRecord, Place, Working
  <2> QED BY <1>3, <2>1, <2>3, <2>4, <2>5, FaultOK DEF ProcOK, CreateRecord
<1>4. CASE CreateCancel(p)
  <2>1. ProcOK'
    BY <1>4, GotoOK, DoneOK DEF ProcOK, CreateCancel, Place, Working
  <2> QED BY <1>4, <2>1, CancelStepOK DEF ProcOK, ClockOK, CreateCancel
<1>5. CASE CreateErase(p)
  <2>1. proc[p].job \in Job
    BY <1>5 DEF CreateErase, Place, Working
  <2>2. rows' \in [Job -> Row]
    BY <1>5, <2>1, UpdatedOK, NoRowOK DEF CreateErase
  <2>3. ProcOK /\ ProcOK'
    BY <1>5, <2>1, GotoOK, DoneOK, RunKept DEF ProcOK, CreateErase, Place, Working
  <2> QED BY <1>5, <2>1, <2>2, <2>3, FaultOK DEF ProcOK, CreateErase
<1> QED BY <1>1, <1>2, <1>3, <1>4, <1>5

LEMMA UpdateType ==
  ASSUME TypeOK, NEW p \in Proc,
         UpdateSchedule(p) \/ UpdateWrite(p) \/ UpdateUndo(p) \/ UpdateRetire(p) \/ UpdateRetry(p)
  PROVE  TypeOK'
<1> USE DEF TypeOK, store, clock, ledger, At
<1>1. CASE UpdateSchedule(p)
  <2>1. proc[p].job \in Job /\ proc[p].session \in Session \cup {None}
    BY <1>1, Fields DEF UpdateSchedule, Place, Working
  <2>2. ProcOK' /\ ClockOK' /\ faults' \in Nat /\ crashes' \in Nat
    BY <1>1, <2>1, ScheduleStepOK DEF UpdateSchedule, Place
  <2> QED BY <1>1, <2>2 DEF ProcOK, ClockOK, UpdateSchedule
<1>2. CASE UpdateWrite(p)
  <2>1. proc[p].job \in Job
    BY <1>2 DEF UpdateWrite, Place, Working
  <2>2. rows[proc[p].job] \in Row
    BY <2>1
  <2>3. UpdatedStatus(proc[p].row, proc[p].limit) \in Status
    BY Fields, RowFields DEF UpdatedStatus, Status
  <2>4. UpdateColumns(p) \in Row
    BY <2>2, <2>3, Fields, UpdateRow DEF UpdateColumns
  <2>5. rows' \in [Job -> Row]
    BY <1>2, <2>1, <2>4, UpdatedOK, NoRowOK DEF UpdateWrite
  <2>6. ProcOK /\ ProcOK'
    BY <1>2, <2>1, <2>4, GotoOK, DoneOK, RunKept DEF ProcOK, UpdateWrite, Place, Working
  <2> QED BY <1>2, <2>1, <2>4, <2>5, <2>6, FaultOK DEF ProcOK, UpdateWrite
<1>3. CASE UpdateUndo(p)
  <2>1. ProcOK'
    BY <1>3, GotoOK, DoneOK DEF ProcOK, UpdateUndo, Place, Working
  <2> QED BY <1>3, <2>1, CancelStepOK DEF ProcOK, ClockOK, UpdateUndo
<1>4. CASE UpdateRetire(p)
  <2>1. ProcOK'
    BY <1>4, GotoOK, DoneOK DEF ProcOK, UpdateRetire, Place, Working
  <2> QED BY <1>4, <2>1, CancelStepOK DEF ProcOK, ClockOK, UpdateRetire
<1>5. CASE UpdateRetry(p)
  <2>1. ProcOK'
    BY <1>5, GotoOK, DoneOK DEF ProcOK, UpdateRetry, Place, Working
  <2> QED BY <1>5, <2>1, CancelStepOK DEF ProcOK, ClockOK, UpdateRetry
<1> QED BY <1>1, <1>2, <1>3, <1>4, <1>5

LEMMA PauseType ==
  ASSUME TypeOK, NEW p \in Proc,
         PauseCancel(p) \/ PauseWrite(p) \/ ResumeSchedule(p) \/ ResumeWrite(p) \/ ResumeUndo(p) \/ RestoreSchedule(p) \/ RestoreRecord(p)
  PROVE  TypeOK'
<1> USE DEF TypeOK, store, clock, ledger, At
<1>1. CASE PauseCancel(p)
  <2>1. ProcOK'
    BY <1>1, GotoOK, DoneOK DEF ProcOK, PauseCancel, Place, Working
  <2> QED BY <1>1, <2>1, CancelStepOK DEF ProcOK, ClockOK, PauseCancel
<1>2. CASE PauseWrite(p)
  <2>1. proc[p].job \in Job
    BY <1>2 DEF PauseWrite, Place, Working
  <2>2. rows[proc[p].job] \in Row
    BY <2>1
  <2>3. [rows[proc[p].job] EXCEPT !.status = "paused", !.schedule = 0] \in Row
    BY <2>2, StatusRow DEF Status
  <2>4. rows' \in [Job -> Row]
    BY <1>2, <2>1, <2>3, UpdatedOK, NoRowOK DEF PauseWrite
  <2>5. ProcOK /\ ProcOK'
    BY <1>2, <2>1, <2>3, GotoOK, DoneOK, RunKept DEF ProcOK, PauseWrite, Place, Working
  <2> QED BY <1>2, <2>1, <2>3, <2>4, <2>5, FaultOK DEF ProcOK, PauseWrite
<1>3. CASE ResumeSchedule(p)
  <2>1. proc[p].job \in Job /\ proc[p].row.session \in Session \cup {None}
    BY <1>3, Fields, RowFields DEF ResumeSchedule, Place, Working
  <2>2. ProcOK' /\ ClockOK' /\ faults' \in Nat /\ crashes' \in Nat
    BY <1>3, <2>1, ScheduleStepOK DEF ResumeSchedule, Place
  <2> QED BY <1>3, <2>2 DEF ProcOK, ClockOK, ResumeSchedule
<1>4. CASE ResumeWrite(p)
  <2>1. proc[p].job \in Job
    BY <1>4 DEF ResumeWrite, Place, Working
  <2>2. rows[proc[p].job] \in Row
    BY <2>1
  <2>3. [rows[proc[p].job] EXCEPT !.status = "active", !.schedule = proc[p].alarm] \in Row
    BY <2>2, Fields, StatusRow DEF Status
  <2>4. rows' \in [Job -> Row]
    BY <1>4, <2>1, <2>3, UpdatedOK, NoRowOK DEF ResumeWrite
  <2>5. ProcOK /\ ProcOK'
    BY <1>4, <2>1, <2>3, GotoOK, DoneOK, RunKept DEF ProcOK, ResumeWrite, Place, Working
  <2> QED BY <1>4, <2>1, <2>3, <2>4, <2>5, FaultOK DEF ProcOK, ResumeWrite
<1>5. CASE ResumeUndo(p)
  <2>1. ProcOK'
    BY <1>5, GotoOK, DoneOK DEF ProcOK, ResumeUndo, Place, Working
  <2> QED BY <1>5, <2>1, CancelStepOK DEF ProcOK, ClockOK, ResumeUndo
<1>6. CASE RestoreSchedule(p)
  <2>1. proc[p].job \in Job /\ proc[p].row.session \in Session \cup {None}
    BY <1>6, Fields, RowFields DEF RestoreSchedule, Place, Working
  <2>2. ProcOK' /\ ClockOK' /\ faults' \in Nat /\ crashes' \in Nat
    BY <1>6, <2>1, ScheduleStepOK DEF RestoreSchedule, Place
  <2> QED BY <1>6, <2>2 DEF ProcOK, ClockOK, RestoreSchedule
<1>7. CASE RestoreRecord(p)
  <2>1. proc[p].job \in Job
    BY <1>7 DEF RestoreRecord, Place, Working
  <2>2. rows[proc[p].job] \in Row
    BY <2>1
  <2>3. [rows[proc[p].job] EXCEPT !.schedule = proc[p].alarm] \in Row
    BY <2>2, Fields, ScheduleRow
  <2>4. rows' \in [Job -> Row]
    BY <1>7, <2>1, <2>3, UpdatedOK, NoRowOK DEF RestoreRecord
  <2>5. ProcOK /\ ProcOK'
    BY <1>7, <2>1, <2>3, GotoOK, DoneOK, RunKept DEF ProcOK, RestoreRecord, Place, Working
  <2> QED BY <1>7, <2>1, <2>3, <2>4, <2>5, FaultOK DEF ProcOK, RestoreRecord
<1> QED BY <1>1, <1>2, <1>3, <1>4, <1>5, <1>6, <1>7

LEMMA DeleteType ==
  ASSUME TypeOK, NEW p \in Proc,
         DeleteCancel(p) \/ DeleteErase(p)
  PROVE  TypeOK'
<1> USE DEF TypeOK, store, clock, ledger, At
<1>1. CASE DeleteCancel(p)
  <2>1. ProcOK'
    BY <1>1, GotoOK, DoneOK DEF ProcOK, DeleteCancel, Place, Working
  <2> QED BY <1>1, <2>1, CancelStepOK DEF ProcOK, ClockOK, DeleteCancel
<1>2. CASE DeleteErase(p)
  <2>1. proc[p].job \in Job
    BY <1>2 DEF DeleteErase, Place, Working
  <2>2. rows' \in [Job -> Row]
    BY <1>2, <2>1, UpdatedOK, NoRowOK DEF DeleteErase
  <2>3. ProcOK /\ ProcOK'
    BY <1>2, <2>1, GotoOK, DoneOK, RunKept DEF ProcOK, DeleteErase, Place, Working
  <2> QED BY <1>2, <2>1, <2>2, <2>3, FaultOK DEF ProcOK, DeleteErase
<1> QED BY <1>1, <1>2

LEMMA RunType ==
  ASSUME TypeOK, NEW p \in Proc,
         RunReserve(p) \/ RunRenew(p) \/ RunClaim(p) \/ RunCancel(p) \/ RunInject(p) \/ RunSettle(p)
  PROVE  TypeOK'
<1> USE DEF TypeOK, store, clock, ledger, At
<1>1. CASE RunReserve(p)
  BY <1>1, GotoOK, DoneOK, FaultOK DEF ProcOK, RunReserve, Place, Working, Execution
<1>2. CASE RunRenew(p)
  BY <1>2, GotoOK, DoneOK, FaultOK DEF ProcOK, RunRenew, Place, Working, Execution
<1>3. CASE RunClaim(p)
  <2>1. proc[p].job \in Job
    BY <1>3 DEF RunClaim, Place, Working
  <2>2. rows[proc[p].job] \in Row
    BY <2>1
  <2>3. Claimed(RowAtClaim(p)) \in Row /\ RowAtClaim(p).runs + 1 \in Nat
    BY <2>2, ClaimedRow, RowFields DEF RowAtClaim
  <2>4. rows' = rows \/ rows' = [rows EXCEPT ![proc[p].job] = Claimed(RowAtClaim(p))]
    BY <1>3 DEF RunClaim
  <2>5. \/ Done(p)
        \/ Goto(p, "run.settle")
        \/ \E place \in {"run.cancel", "run.inject"} :
             proc' = [proc EXCEPT ![p].at = place, ![p].run = RowAtClaim(p).runs + 1]
    BY <1>3 DEF RunClaim
  <2>6. rows' \in [Job -> Row]
    BY <2>1, <2>3, <2>4
  <2>7. ProcOK /\ ProcOK'
    BY <2>1, <2>3, <2>5, GotoOK, DoneOK, RunKept DEF ProcOK, Place
  <2> QED BY <1>3, <2>6, <2>7, FaultOK DEF ProcOK, RunClaim
<1>4. CASE RunCancel(p)
  <2>1. ProcOK'
    BY <1>4, GotoOK, DoneOK DEF ProcOK, RunCancel, Place, Working
  <2> QED BY <1>4, <2>1, CancelStepOK DEF ProcOK, ClockOK, RunCancel
<1>5. CASE RunInject(p)
  <2>1. proc[p].job \in Job
    BY <1>5 DEF RunInject, Place, Working
  <2>2. rows' \in [Job -> Row]
    BY <1>5, <2>1, UpdatedOK, NoRowOK DEF RunInject
  <2>3. ProcOK /\ ProcOK'
    BY <1>5, <2>1, GotoOK, DoneOK, RunKept DEF ProcOK, RunInject, Place, Working
  <2> QED BY <1>5, <2>1, <2>2, <2>3, FaultOK DEF ProcOK, RunInject, Dispatch, Execution
<1>6. CASE RunSettle(p)
  BY <1>6, GotoOK, DoneOK, FaultOK DEF ProcOK, RunSettle, Place, Working, Execution
<1> QED BY <1>1, <1>2, <1>3, <1>4, <1>5, <1>6

LEMMA PurgeType ==
  ASSUME TypeOK, NEW p \in Proc,
         PurgeCancel(p) \/ PurgeJobs(p) \/ PurgeSession(p)
  PROVE  TypeOK'
<1> USE DEF TypeOK, store, clock, ledger, At
<1>1. CASE PurgeCancel(p)
  <2>1. ProcOK /\ proc[p].at = "purge.cancel"
    BY <1>1 DEF ProcOK, PurgeCancel
  <2>2. CASE \E id \in proc[p].todo :
               /\ \/ /\ Cancel(proc[p].session, id)
                     /\ proc' = [proc EXCEPT ![p].todo = @ \ {id}]
                     /\ NoFault
                  \/ CancelFails(proc[p].session, id) /\ Done(p)
               /\ Drift
    <3>1. PICK id \in proc[p].todo :
            /\ \/ /\ Cancel(proc[p].session, id)
                  /\ proc' = [proc EXCEPT ![p] = [proc[p] EXCEPT !.todo = proc[p].todo \ {id}]]
                  /\ NoFault
               \/ CancelFails(proc[p].session, id) /\ Done(p)
            /\ Drift
      BY <2>2
    <3>2. [proc[p] EXCEPT !.todo = proc[p].todo \ {id}] \in Execution
      BY <2>1 DEF ProcOK, Execution
    <3>3. ProcOK'
      <4>1. CASE proc' = [proc EXCEPT ![p] = [proc[p] EXCEPT !.todo = proc[p].todo \ {id}]]
        <5>1. [proc[p] EXCEPT !.todo = proc[p].todo \ {id}].at \notin Working
          BY <2>1 DEF ProcOK, Execution, Working
        <5> QED BY <2>1, <3>2, <4>1, <5>1 DEF ProcOK
      <4>2. CASE Done(p)
        BY <2>1, <4>2, DoneOK
      <4> QED BY <3>1, <4>1, <4>2
    <3>4. ClockOK' /\ faults' \in Nat /\ crashes' \in Nat
      BY <3>1, CancelStepOK
    <3> QED BY <1>1, <3>3, <3>4 DEF ProcOK, ClockOK, PurgeCancel
  <2>3. CASE Goto(p, "purge.jobs") /\ UNCHANGED clock /\ NoFault
    <3>1. ProcOK'
      BY <2>1, <2>3, GotoOK DEF Place, Working
    <3> QED BY <1>1, <2>3, <3>1, FaultOK DEF ProcOK, PurgeCancel
  <2> QED BY <1>1, <2>2, <2>3 DEF PurgeCancel
<1>2. CASE PurgeJobs(p)
  <2>1. rows' \in [Job -> Row]
    BY <1>2, UpdatedOK, NoRowOK DEF PurgeJobs
  <2>2. ProcOK /\ ProcOK'
    BY <1>2, GotoOK, DoneOK, RunKept DEF ProcOK, PurgeJobs, Place, Working, Execution
  <2> QED BY <1>2, <2>1, <2>2, FaultOK DEF ProcOK, PurgeJobs
<1>3. CASE PurgeSession(p)
  BY <1>3, GotoOK, DoneOK, FaultOK DEF ProcOK, PurgeSession, Place, Working, Execution
<1> QED BY <1>1, <1>2, <1>3

LEMMA RequestType ==
  ASSUME TypeOK, NEW p \in Proc, Request(p)
  PROVE  TypeOK'
<1> USE DEF TypeOK, store, clock, ledger
<1>0. ProcOK
  BY DEF ProcOK
<1>1. ASSUME NEW j \in Job, NEW s \in Session, NEW l \in Limits,
             NEW k \in RunKey \cup {None}, BeginCreate(p, j, s, l, k)
      PROVE  TypeOK'
  <2>1. [Idle EXCEPT !.at = "create.insert", !.job = j, !.limit = l,
                     !.session = s, !.key = k] \in Execution
    BY LimitsAssumption, NoRowOK DEF Idle, Execution, Place
  <2> QED BY <1>0, <1>1, <2>1, BeginOK DEF ProcOK, Idle, BeginCreate
<1>2. ASSUME NEW j \in Job, NEW s \in Session, NEW l \in Limits, BeginUpdate(p, j, s, l)
      PROVE  TypeOK'
  <2>1. \A place \in {"update.schedule", "update.write"} :
          [Idle EXCEPT !.at = place, !.job = j, !.row = rows[j], !.limit = l,
                       !.session = s] \in Execution
    BY LimitsAssumption, NoRowOK DEF Idle, Execution, Place
  <2> QED BY <1>0, <1>2, <2>1, BeginOK DEF ProcOK, Idle, BeginUpdate
<1>3. ASSUME NEW j \in Job, BeginPause(p, j) \/ BeginResume(p, j) \/ BeginDelete(p, j)
      PROVE  TypeOK'
  <2>1. \A place \in {"pause.cancel", "resume.schedule", "delete.cancel"} :
          [Idle EXCEPT !.at = place, !.job = j, !.row = rows[j]] \in Execution
    BY NoRowOK DEF Idle, Execution, Place
  <2> QED BY <1>0, <1>3, <2>1, BeginOK DEF ProcOK, Idle, BeginPause, BeginResume, BeginDelete
<1>4. ASSUME NEW j \in Job, NEW k \in RunKey \cup {None}, BeginRun(p, j, k)
      PROVE  TypeOK'
  <2>1. \A place \in {"run.claim", "run.reserve", "run.renew"} :
          [Idle EXCEPT !.at = place, !.job = j, !.row = rows[j],
                       !.session = rows[j].session, !.key = k] \in Execution
    BY NoRowOK DEF Idle, Execution, Place, Row
  <2> QED BY <1>0, <1>4, <2>1, BeginOK DEF ProcOK, Idle, BeginRun
<1>5. ASSUME NEW s \in Deletable, BeginPurge(p, s)
      PROVE  TypeOK'
  <2>1. {rows[j].schedule : j \in JobsOf(s)} \ {0} \in SUBSET Nat
    BY DEF JobsOf, Row
  <2>2. [Idle EXCEPT !.at = "purge.cancel", !.session = s,
                     !.todo = {rows[j].schedule : j \in JobsOf(s)} \ {0}] \in Execution
    BY <2>1, DeletableAssumption, NoRowOK DEF Idle, Execution, Place
  <2> QED BY <1>0, <1>5, <2>2, BeginOK DEF ProcOK, Idle, BeginPurge, Working
<1> QED BY <1>1, <1>2, <1>3, <1>4, <1>5 DEF Request

LEMMA InitType == Init => TypeOK
<1> SUFFICES ASSUME Init PROVE TypeOK
  OBVIOUS
<1>1. drifted \in BOOLEAN
  BY DEF Init
<1> QED BY <1>1, IdleOK, NoRowOK DEF Init, TypeOK

LEMMA NextType == TypeOK /\ [Next]_vars => TypeOK'
<1> SUFFICES ASSUME TypeOK, [Next]_vars PROVE TypeOK'
  OBVIOUS
<1>1. ASSUME NEW p \in Proc, Step(p) PROVE TypeOK'
  BY <1>1, CreateType, UpdateType, PauseType, DeleteType, RunType, PurgeType DEF Step
<1>2. ASSUME NEW p \in Proc, Crash(p) PROVE TypeOK'
  BY <1>2, DoneOK DEF ProcOK, TypeOK, Crash, store, clock, ledger
<1>3. ASSUME NEW p \in Proc, NEW a \in alarms, AlarmFires(p, a) PROVE TypeOK'
  <2>1. a.job \in Job
    BY DEF TypeOK, Alarm
  <2>2. \A s \in {a.session, rows[a.job].session} :
          [Idle EXCEPT !.at = "run.claim", !.job = a.job,
                       !.row = rows[a.job], !.session = s] \in Execution
    BY <2>1, NoRowOK DEF TypeOK, Idle, Execution, Place, Row, Alarm
  <2> QED BY <1>3, <2>1, <2>2, BeginOK
          DEF ProcOK, Idle, AlarmFires, TypeOK, store, clock, ledger
<1>4. ASSUME NEW e \in Job \X RunKey, LeaseExpires(e) PROVE TypeOK'
  BY <1>4 DEF TypeOK, LeaseExpires, store, clock
<1>5. CASE UNCHANGED vars
  BY <1>5 DEF TypeOK, vars
<1> QED BY <1>1, <1>2, <1>3, <1>4, <1>5, RequestType DEF Next

\* Every reachable state is well typed, and every execution at work on a job
\* names a job (job-service.ts, jobs.ts, agent.ts, routes/sessions.ts).
THEOREM TypeCorrect == Spec => []TypeOK
BY InitType, NextType, PTL DEF Spec
-----------------------------------------------------------------------------
(***************************************************************************)
(* A claimed run is injected at most once.  All steps but four are quiet:  *)
(* they insert no row, take no claim and inject nothing.                   *)
(***************************************************************************)
RowsKept ==
  \A j \in Job : rows'[j].status # "none" => Exists(j) /\ rows'[j].runs = rows[j].runs

NoNewClaim(p) ==
  /\ \A q \in Proc : q # p => proc'[q] = proc[q]
  /\ proc'[p].at # "create.insert"
  /\ proc'[p].at \in {"run.cancel", "run.inject"} =>
       HoldsClaim(p) /\ proc'[p].job = proc[p].job /\ proc'[p].run = proc[p].run

LEMMA QuietStep ==
  ASSUME RunInv, TypeOK', NEW p \in Proc, RowsKept, NoNewClaim(p),
         born' = born, dispatched' = dispatched
  PROVE  RunInv'
<1>1. \A q \in Proc : HoldsClaim(q)' =>
        HoldsClaim(q) /\ proc'[q].job = proc[q].job /\ proc'[q].run = proc[q].run
  BY DEF NoNewClaim, HoldsClaim
<1>2. \A q \in Proc : At(q, "create.insert")' =>
        At(q, "create.insert") /\ proc'[q].job = proc[q].job
  BY DEF NoNewClaim, At
<1>3. \A j \in Job : Exists(j)' => Exists(j) /\ rows[j].runs = rows'[j].runs
  BY DEF RowsKept, Exists
<1>4. \A j \in Job : Untouched(j) => Untouched(j)'
  BY <1>1, <1>3 DEF Untouched
<1>5. FreshIds'
  BY <1>2, <1>4 DEF RunInv, FreshIds, TypeOK
<1>6. CountedRuns'
  <2>1. \A q \in Proc : HoldsClaim(q)' => proc[q].job \in Job /\ proc[q].run \in Nat
    BY <1>1, Fields DEF RunInv, TypeOK, HoldsClaim, Working, Place
  <2>2. \A d \in dispatched : d.job \in Job /\ d.run \in Nat
    BY DEF RunInv, TypeOK, Dispatch
  <2>3. \A j \in Job : rows[j].runs \in Nat /\ rows'[j].runs \in Nat
    BY RowFields DEF RunInv, TypeOK
  <2>4. ASSUME NEW q \in Proc, HoldsClaim(q)', Exists(proc[q].job)'
        PROVE  proc'[q].run <= rows'[proc[q].job].runs
    BY <1>1, <1>3, <2>1, <2>3, <2>4 DEF RunInv, CountedRuns
  <2>5. ASSUME NEW d \in dispatched, Exists(d.job)'
        PROVE  d.run <= rows'[d.job].runs
    BY <1>3, <2>2, <2>3, <2>5 DEF RunInv, CountedRuns
  <2> QED BY <1>1, <2>4, <2>5 DEF CountedRuns, Exists
<1>7. RunClaimedOnce'
  BY <1>1 DEF RunInv, RunClaimedOnce
<1> QED BY <1>5, <1>6, <1>7 DEF RunInv

\* An UPDATE that leaves run_count alone, a DELETE and no change keep the rows.
LEMMA RowUpdated ==
  ASSUME TypeOK, NEW j \in Job, NEW r \in Row, r.runs = rows[j].runs,
         rows' = Updated(j, r)
  PROVE  RowsKept
BY RowFields DEF TypeOK, RowsKept, Updated, Exists

LEMMA RowDeleted ==
  ASSUME TypeOK, NEW j \in Job, rows' = [rows EXCEPT ![j] = NoRow]
  PROVE  RowsKept
BY RowFields DEF TypeOK, RowsKept, Exists, NoRow

LEMMA RowsSame ==
  ASSUME TypeOK, rows' = rows
  PROVE  RowsKept
BY RowFields DEF TypeOK, RowsKept, Exists

LEMMA GotoQuiet ==
  ASSUME TypeOK, NEW p \in Proc, NEW place \in Place, Goto(p, place),
         place \notin {"create.insert", "run.cancel", "run.inject"}
           \/ (HoldsClaim(p) /\ place # "create.insert")
  PROVE  NoNewClaim(p)
BY DEF TypeOK, Goto, NoNewClaim, Execution

LEMMA DoneQuiet ==
  ASSUME TypeOK, NEW p \in Proc, Done(p)
  PROVE  NoNewClaim(p)
BY DEF TypeOK, Done, NoNewClaim, Idle

LEMMA AlarmQuiet ==
  ASSUME TypeOK, NEW p \in Proc, NEW place \in Place, NEW n,
         proc' = [proc EXCEPT ![p].at = place, ![p].alarm = n],
         place \notin {"create.insert", "run.cancel", "run.inject"}
  PROVE  NoNewClaim(p)
BY DEF TypeOK, NoNewClaim, Execution

\* The steps of Step(p) that are quiet.
LEMMA QuietSteps ==
  ASSUME TypeOK, NEW p \in Proc,
         \/ CreateSchedule(p) \/ CreateRecord(p) \/ CreateCancel(p) \/ CreateErase(p)
         \/ UpdateSchedule(p) \/ UpdateWrite(p) \/ UpdateUndo(p) \/ UpdateRetire(p)
         \/ UpdateRetry(p) \/ PauseCancel(p) \/ PauseWrite(p) \/ ResumeSchedule(p)
         \/ ResumeWrite(p) \/ ResumeUndo(p) \/ RestoreSchedule(p) \/ RestoreRecord(p)
         \/ DeleteCancel(p) \/ DeleteErase(p) \/ RunReserve(p) \/ RunRenew(p)
         \/ RunCancel(p) \/ RunSettle(p) \/ PurgeCancel(p) \/ PurgeJobs(p)
         \/ PurgeSession(p)
  PROVE  RowsKept /\ NoNewClaim(p) /\ born' = born /\ dispatched' = dispatched
<1> USE DEF store, clock, ledger, At
<1>1. CASE CreateSchedule(p)
  BY <1>1, RowsSame, AlarmQuiet, GotoQuiet, DoneQuiet DEF CreateSchedule, Place
<1>2. CASE CreateRecord(p)
  <2>1. proc[p].job \in Job
    BY <1>2 DEF CreateRecord, TypeOK, Working, Place
  <2> DEFINE r == [rows[proc[p].job] EXCEPT !.schedule = proc[p].alarm]
  <2>2. r \in Row /\ r.runs = rows[proc[p].job].runs
    <3>1. rows[proc[p].job] \in Row
      BY <2>1 DEF TypeOK
    <3>2. r \in Row
      BY <3>1, Fields, ScheduleRow
    <3> QED BY <3>1, <3>2 DEF Row
  <2>3. rows' = rows \/ rows' = Updated(proc[p].job, r)
    BY <1>2 DEF CreateRecord
  <2> HIDE DEF r
  <2>4. RowsKept
    BY <2>1, <2>2, <2>3, RowUpdated, RowsSame
  <2> QED BY <1>2, <2>4, GotoQuiet, DoneQuiet DEF CreateRecord, Place
<1>3. CASE CreateCancel(p)
  BY <1>3, RowsSame, GotoQuiet, DoneQuiet DEF CreateCancel, Place
<1>4. CASE CreateErase(p)
  <2>1. proc[p].job \in Job
    BY <1>4 DEF CreateErase, TypeOK, Working, Place
  <2>2. RowsKept
    BY <1>4, <2>1, RowDeleted, RowsSame DEF CreateErase
  <2> QED BY <1>4, <2>2, GotoQuiet, DoneQuiet DEF CreateErase, Place
<1>5. CASE UpdateSchedule(p)
  BY <1>5, RowsSame, AlarmQuiet, GotoQuiet, DoneQuiet DEF UpdateSchedule, Place
<1>6. CASE UpdateWrite(p)
  <2>0. UpdatedStatus(proc[p].row, proc[p].limit) \in Status
    BY Fields, RowFields DEF UpdatedStatus, Status
  <2>1. proc[p].job \in Job
    BY <1>6 DEF UpdateWrite, TypeOK, Working, Place
  <2> DEFINE r == UpdateColumns(p)
  <2>2. r \in Row /\ r.runs = rows[proc[p].job].runs
    <3>1. rows[proc[p].job] \in Row
      BY <2>1 DEF TypeOK
    <3>2. r \in Row
      BY <3>1, <2>0, Fields, UpdateRow DEF UpdateColumns
    <3> QED BY <3>1, <3>2 DEF Row, UpdateColumns
  <2>3. rows' = rows \/ rows' = Updated(proc[p].job, r)
    BY <1>6 DEF UpdateWrite
  <2> HIDE DEF r
  <2>4. RowsKept
    BY <2>1, <2>2, <2>3, RowUpdated, RowsSame
  <2> QED BY <1>6, <2>4, GotoQuiet, DoneQuiet DEF UpdateWrite, Place
<1>7. CASE UpdateUndo(p)
  BY <1>7, RowsSame, GotoQuiet, DoneQuiet DEF UpdateUndo, Place
<1>8. CASE UpdateRetire(p)
  BY <1>8, RowsSame, GotoQuiet, DoneQuiet DEF UpdateRetire, Place
<1>9. CASE UpdateRetry(p)
  BY <1>9, RowsSame, GotoQuiet, DoneQuiet DEF UpdateRetry, Place
<1>10. CASE PauseCancel(p)
  BY <1>10, RowsSame, GotoQuiet, DoneQuiet DEF PauseCancel, Place
<1>11. CASE PauseWrite(p)
  <2>1. proc[p].job \in Job
    BY <1>11 DEF PauseWrite, TypeOK, Working, Place
  <2> DEFINE r == [rows[proc[p].job] EXCEPT !.status = "paused", !.schedule = 0]
  <2>2. r \in Row /\ r.runs = rows[proc[p].job].runs
    <3>1. rows[proc[p].job] \in Row
      BY <2>1 DEF TypeOK
    <3>2. r \in Row
      BY <3>1, StatusRow DEF Status
    <3> QED BY <3>1, <3>2 DEF Row
  <2>3. rows' = rows \/ rows' = Updated(proc[p].job, r)
    BY <1>11 DEF PauseWrite
  <2> HIDE DEF r
  <2>4. RowsKept
    BY <2>1, <2>2, <2>3, RowUpdated, RowsSame
  <2> QED BY <1>11, <2>4, GotoQuiet, DoneQuiet DEF PauseWrite, Place
<1>12. CASE ResumeSchedule(p)
  BY <1>12, RowsSame, AlarmQuiet, GotoQuiet, DoneQuiet DEF ResumeSchedule, Place
<1>13. CASE ResumeWrite(p)
  <2>1. proc[p].job \in Job
    BY <1>13 DEF ResumeWrite, TypeOK, Working, Place
  <2> DEFINE r == [rows[proc[p].job] EXCEPT !.status = "active", !.schedule = proc[p].alarm]
  <2>2. r \in Row /\ r.runs = rows[proc[p].job].runs
    <3>1. rows[proc[p].job] \in Row
      BY <2>1 DEF TypeOK
    <3>2. r \in Row
      BY <3>1, Fields, StatusRow DEF Status
    <3> QED BY <3>1, <3>2 DEF Row
  <2>3. rows' = rows \/ rows' = Updated(proc[p].job, r)
    BY <1>13 DEF ResumeWrite
  <2> HIDE DEF r
  <2>4. RowsKept
    BY <2>1, <2>2, <2>3, RowUpdated, RowsSame
  <2> QED BY <1>13, <2>4, GotoQuiet, DoneQuiet DEF ResumeWrite, Place
<1>14. CASE ResumeUndo(p)
  BY <1>14, RowsSame, GotoQuiet, DoneQuiet DEF ResumeUndo, Place
<1>15. CASE RestoreSchedule(p)
  BY <1>15, RowsSame, AlarmQuiet, GotoQuiet, DoneQuiet DEF RestoreSchedule, Place
<1>16. CASE RestoreRecord(p)
  <2>1. proc[p].job \in Job
    BY <1>16 DEF RestoreRecord, TypeOK, Working, Place
  <2> DEFINE r == [rows[proc[p].job] EXCEPT !.schedule = proc[p].alarm]
  <2>2. r \in Row /\ r.runs = rows[proc[p].job].runs
    <3>1. rows[proc[p].job] \in Row
      BY <2>1 DEF TypeOK
    <3>2. r \in Row
      BY <3>1, Fields, ScheduleRow
    <3> QED BY <3>1, <3>2 DEF Row
  <2>3. rows' = rows \/ rows' = Updated(proc[p].job, r)
    BY <1>16 DEF RestoreRecord
  <2> HIDE DEF r
  <2>4. RowsKept
    BY <2>1, <2>2, <2>3, RowUpdated, RowsSame
  <2> QED BY <1>16, <2>4, GotoQuiet, DoneQuiet DEF RestoreRecord, Place
<1>17. CASE DeleteCancel(p)
  BY <1>17, RowsSame, GotoQuiet, DoneQuiet DEF DeleteCancel, Place
<1>18. CASE DeleteErase(p)
  <2>1. proc[p].job \in Job
    BY <1>18 DEF DeleteErase, TypeOK, Working, Place
  <2>2. RowsKept
    BY <1>18, <2>1, RowDeleted, RowsSame DEF DeleteErase
  <2> QED BY <1>18, <2>2, GotoQuiet, DoneQuiet DEF DeleteErase, Place
<1>19. CASE RunReserve(p)
  BY <1>19, RowsSame, GotoQuiet, DoneQuiet DEF RunReserve, Place
<1>20. CASE RunRenew(p)
  BY <1>20, RowsSame, GotoQuiet, DoneQuiet DEF RunRenew, Place
<1>21. CASE RunCancel(p)
  BY <1>21, RowsSame, GotoQuiet, DoneQuiet DEF RunCancel, Place, HoldsClaim
<1>22. CASE RunSettle(p)
  BY <1>22, RowsSame, GotoQuiet, DoneQuiet DEF RunSettle, Place
<1>23. CASE PurgeCancel(p)
  <2>1. NoNewClaim(p)
    BY <1>23 DEF PurgeCancel, TypeOK, NoNewClaim, Execution, Goto, Done, Idle
  <2> QED BY <1>23, <2>1, RowsSame DEF PurgeCancel
<1>24. CASE PurgeJobs(p)
  <2>1. RowsKept
    BY <1>24, RowsSame, RowFields DEF PurgeJobs, RowsKept, TypeOK, Exists, NoRow
  <2> QED BY <1>24, <2>1, GotoQuiet, DoneQuiet DEF PurgeJobs, Place
<1>25. CASE PurgeSession(p)
  BY <1>25, RowsSame, GotoQuiet, DoneQuiet DEF PurgeSession, Place
<1> QED BY <1>1, <1>2, <1>3, <1>4, <1>5, <1>6, <1>7, <1>8, <1>9, <1>10, <1>11, <1>12, <1>13, <1>14, <1>15, <1>16, <1>17, <1>18, <1>19, <1>20, <1>21, <1>22, <1>23, <1>24, <1>25

LEMMA QuietRequests ==
  ASSUME TypeOK, NEW p \in Proc, NEW r, Begin(p, r),
         r.at \notin {"create.insert", "run.cancel", "run.inject"}
  PROVE  NoNewClaim(p)
BY DEF TypeOK, Begin, NoNewClaim

\* Drawing an id: it was untouched, and now one execution alone will insert it.
LEMMA BeginCreateKeeps ==
  ASSUME RunInv, TypeOK', NEW p \in Proc, NEW j \in Job, NEW s, NEW l, NEW k,
         BeginCreate(p, j, s, l, k)
  PROVE  RunInv'
<1> DEFINE r == [Idle EXCEPT !.at = "create.insert", !.job = j, !.limit = l,
                             !.session = s, !.key = k]
<1>0. At(p, "idle") /\ proc' = [proc EXCEPT ![p] = r]
  BY DEF BeginCreate, Begin
<1>1. r.at = "create.insert" /\ r.job = j
  BY DEF Idle
<1> HIDE DEF r
<1>2. proc'[p] = r /\ \A q \in Proc : q # p => proc'[q] = proc[q]
  BY <1>0 DEF RunInv, TypeOK
<1>3. /\ rows' = rows /\ dispatched' = dispatched
      /\ born' = born \cup {j} /\ j \notin born
  BY DEF BeginCreate, store
<1>4. \A q \in Proc : HoldsClaim(q)' =>
        HoldsClaim(q) /\ proc'[q].job = proc[q].job /\ proc'[q].run = proc[q].run
  BY <1>1, <1>2 DEF HoldsClaim
<1>5. \A i \in Job : Untouched(i) => Untouched(i)'
  BY <1>3, <1>4 DEF Untouched, Exists
<1>6. Untouched(j)
  BY <1>3 DEF RunInv, FreshIds
<1>7. FreshIds'
  <2>1. \A i \in Job \ born' : Untouched(i)'
    BY <1>3, <1>5 DEF RunInv, FreshIds
  <2>2. ASSUME NEW q \in Proc, At(q, "create.insert")'
        PROVE  /\ proc'[q].job \in born' /\ Untouched(proc[q].job)'
               /\ \A o \in Proc : At(o, "create.insert")' /\ proc'[o].job = proc'[q].job => o = q
    <3>1. CASE q = p
      <4>1. proc'[q].job = j /\ Untouched(j)'
        BY <1>1, <1>2, <1>5, <1>6, <3>1
      <4>2. \A o \in Proc : o # p /\ At(o, "create.insert")' => proc'[o].job \in born
        BY <1>2 DEF RunInv, FreshIds, At
      <4> QED BY <1>3, <3>1, <4>1, <4>2
    <3>2. CASE q # p
      <4>1. /\ At(q, "create.insert") /\ proc'[q] = proc[q]
            /\ proc[q].job \in born /\ Untouched(proc[q].job)
        BY <1>2, <2>2, <3>2 DEF RunInv, FreshIds, At
      <4>2. Untouched(proc[q].job)'
        BY <1>3, <1>5, <4>1 DEF RunInv, TypeOK
      <4> QED BY <1>1, <1>2, <1>3, <4>1, <4>2 DEF RunInv, FreshIds, At
    <3> QED BY <3>1, <3>2
  <2> QED BY <2>1, <2>2 DEF FreshIds
<1>8. CountedRuns' /\ RunClaimedOnce'
  BY <1>3, <1>4 DEF RunInv, CountedRuns, RunClaimedOnce, Exists
<1> QED BY <1>7, <1>8 DEF RunInv

\* The INSERT: the row starts at zero runs of a job nobody has run.
LEMMA CreateInsertKeeps ==
  ASSUME RunInv, TypeOK', NEW p \in Proc, CreateInsert(p)
  PROVE  RunInv'
<1> DEFINE j == proc[p].job
<1>1. At(p, "create.insert") /\ j \in Job /\ Untouched(j)
  BY DEF RunInv, TypeOK, FreshIds, CreateInsert
<1>2. /\ born' = born /\ dispatched' = dispatched
      /\ NoNewClaim(p)
  BY GotoQuiet, DoneQuiet DEF RunInv, CreateInsert, Place
<1>3. CASE rows' = rows
  BY <1>2, <1>3, RowsSame, QuietStep DEF RunInv
<1>4. CASE rows' # rows
  <2>1. \A i \in Job : i # j => rows'[i] = rows[i]
    BY <1>1, <1>4 DEF RunInv, TypeOK, CreateInsert
  <2>2. \A q \in Proc : HoldsClaim(q)' =>
          HoldsClaim(q) /\ proc'[q].job = proc[q].job /\ proc'[q].run = proc[q].run
    BY <1>2 DEF NoNewClaim, HoldsClaim
  <2>3. \A q \in Proc : At(q, "create.insert")' =>
          q # p /\ At(q, "create.insert") /\ proc'[q].job = proc[q].job /\ proc[q].job # j
    BY <1>1, <1>2 DEF NoNewClaim, At, RunInv, FreshIds
  <2>4. \A i \in Job : Untouched(i) /\ i # j => Untouched(i)'
    BY <1>2, <2>1, <2>2 DEF Untouched, Exists
  <2>5. FreshIds'
    BY <1>1, <1>2, <2>3, <2>4 DEF RunInv, FreshIds, TypeOK
  <2>6. \A q \in Proc : HoldsClaim(q) => proc[q].job # j /\ proc[q].job \in Job
    BY <1>1 DEF Untouched, RunInv, TypeOK, HoldsClaim, Working, Place
  <2>7. \A d \in dispatched : d.job # j /\ d.job \in Job
    BY <1>1 DEF Untouched, RunInv, TypeOK, Dispatch
  <2>8. CountedRuns'
    BY <1>2, <2>1, <2>2, <2>6, <2>7 DEF RunInv, CountedRuns, Exists
  <2>9. RunClaimedOnce'
    BY <1>2, <2>2 DEF RunInv, RunClaimedOnce
  <2> QED BY <2>5, <2>8, <2>9 DEF RunInv
<1> QED BY <1>3, <1>4

\* The claim: the new run number is above every number claimed or injected.
LEMMA RunClaimKeeps ==
  ASSUME RunInv, TypeOK', NEW p \in Proc, RunClaim(p)
  PROVE  RunInv'
<1> DEFINE j == proc[p].job
           n == rows[j].runs + 1
<1>1. At(p, "run.claim") /\ j \in Job /\ rows[j] \in Row /\ ~HoldsClaim(p)
  BY DEF RunInv, TypeOK, RunClaim, At, Working, Place, HoldsClaim
<1>2. born' = born /\ dispatched' = dispatched
  BY DEF RunClaim
<1>3. CASE rows' = rows /\ (Done(p) \/ Goto(p, "run.settle"))
  BY <1>2, <1>3, GotoQuiet, DoneQuiet, RowsSame, QuietStep DEF RunInv, Place
<1>4. CASE ~(rows' = rows /\ (Done(p) \/ Goto(p, "run.settle")))
  <2>1. /\ rows[j].status = "active"
        /\ rows' = [rows EXCEPT ![j] = Claimed(rows[j])]
        /\ \E place \in {"run.cancel", "run.inject"} :
             proc' = [proc EXCEPT ![p].at = place, ![p].run = n]
    BY <1>4 DEF RunClaim, RowAtClaim
  <2>2. Exists(j) /\ n \in Nat /\ rows'[j].runs = n
    BY <1>1, <2>1 DEF Exists, Claimed, Row, RunInv, TypeOK
  <2>3. \A i \in Job : i # j => rows'[i] = rows[i]
    BY <1>1, <2>1 DEF RunInv, TypeOK
  <2>4. /\ proc'[p].at \in {"run.cancel", "run.inject"}
        /\ proc'[p].job = j /\ proc'[p].run = n
        /\ \A q \in Proc : q # p => proc'[q] = proc[q]
    BY <2>1 DEF RunInv, TypeOK, Execution
  <2>5. \A q \in Proc : HoldsClaim(q) => proc[q].job \in Job /\ proc[q].run \in Nat
    BY Fields DEF RunInv, TypeOK, HoldsClaim, Working, Place
  <2>6. \A d \in dispatched : d.job \in Job /\ d.run \in Nat
    BY DEF RunInv, TypeOK, Dispatch
  <2>7. \A i \in Job : Untouched(i) => i # j /\ Untouched(i)'
    BY <1>2, <2>2, <2>3, <2>4 DEF Untouched, Exists, HoldsClaim
  <2>8. FreshIds'
    <3>1. \A q \in Proc : At(q, "create.insert")' => At(q, "create.insert") /\ proc'[q] = proc[q]
      BY <2>4 DEF At
    <3>2. \A q \in Proc : At(q, "create.insert")' => Untouched(proc[q].job)'
      BY <2>7, <3>1 DEF RunInv, FreshIds, TypeOK
    <3>3. \A i \in Job \ born' : Untouched(i)'
      BY <1>2, <2>7 DEF RunInv, FreshIds
    <3> QED BY <1>2, <3>1, <3>2, <3>3 DEF RunInv, FreshIds
  <2>9. \A i \in Job : rows[i].runs \in Nat /\ (Exists(i)' => Exists(i))
          /\ rows[i].runs <= rows'[i].runs
    BY <1>1, <2>2, <2>3, RowFields DEF RunInv, TypeOK, Exists
  <2>10. CountedRuns'
    <3>1. ASSUME NEW q \in Proc, HoldsClaim(q)', Exists(proc[q].job)'
          PROVE  proc'[q].run <= rows'[proc'[q].job].runs
      <4>1. CASE q = p
        BY <2>2, <2>4, <4>1
      <4>2. CASE q # p
        <5>1. HoldsClaim(q) /\ proc'[q] = proc[q] /\ Exists(proc[q].job)
          BY <2>4, <2>5, <2>9, <3>1, <4>2 DEF HoldsClaim, Exists
        <5>2. proc[q].run <= rows[proc[q].job].runs
          BY <5>1 DEF RunInv, CountedRuns
        <5> QED BY <2>2, <2>3, <2>5, <2>9, <5>1, <5>2
      <4> QED BY <4>1, <4>2
    <3>2. ASSUME NEW d \in dispatched, Exists(d.job)'
          PROVE  d.run <= rows'[d.job].runs
      <4>1. d.run <= rows[d.job].runs
        BY <2>6, <2>9, <3>2 DEF RunInv, CountedRuns
      <4> QED BY <2>2, <2>3, <2>6, <2>9, <4>1
    <3> QED BY <1>2, <3>1, <3>2 DEF CountedRuns
  <2>11. RunClaimedOnce'
    <3>1. \A q \in Proc : q # p /\ HoldsClaim(q) /\ proc[q].job = j => proc[q].run < n
      BY <2>2, <2>5, <2>9 DEF RunInv, CountedRuns
    <3>2. \A d \in dispatched : d.job = j => d.run < n
      BY <2>2, <2>6, <2>9 DEF RunInv, CountedRuns
    <3>3. \A q \in Proc : HoldsClaim(q)' /\ q # p => HoldsClaim(q) /\ proc'[q] = proc[q]
      BY <2>4 DEF HoldsClaim
    <3> QED BY <1>2, <2>2, <2>4, <2>5, <2>6, <3>1, <3>2, <3>3 DEF RunInv, RunClaimedOnce
  <2> QED BY <2>8, <2>10, <2>11 DEF RunInv
<1> QED BY <1>3, <1>4

\* The injection: its execution gives the claim up as the prompt goes out.
LEMMA RunInjectKeeps ==
  ASSUME RunInv, TypeOK', NEW p \in Proc, RunInject(p)
  PROVE  RunInv'
<1> DEFINE d0 == [job |-> proc[p].job, run |-> proc[p].run, key |-> proc[p].key]
<1>1. At(p, "run.inject") /\ HoldsClaim(p) /\ rows' = rows /\ born' = born
  BY DEF RunInject, At, HoldsClaim, store
<1>2. NoNewClaim(p) /\ ~HoldsClaim(p)'
  <2>1. TypeOK /\ "run.settle" \in Place
    BY DEF RunInv, Place
  <2>2. CASE Goto(p, "run.settle")
    <3>1. NoNewClaim(p)
      BY <2>1, <2>2, GotoQuiet
    <3>2. proc'[p].at = "run.settle"
      BY <2>1, <2>2 DEF TypeOK, Goto, Execution
    <3> QED BY <3>1, <3>2 DEF HoldsClaim
  <2>3. CASE Done(p)
    <3>1. NoNewClaim(p)
      BY <2>1, <2>3, DoneQuiet
    <3>2. proc'[p].at = "idle"
      BY <2>1, <2>3 DEF TypeOK, Done, Idle
    <3> QED BY <3>1, <3>2 DEF HoldsClaim
  <2> QED BY <2>2, <2>3 DEF RunInject
<1>3. dispatched' = dispatched \/ dispatched' = dispatched \cup {d0}
  BY DEF RunInject
<1>4. \A q \in Proc : HoldsClaim(q)' => q # p /\ HoldsClaim(q) /\ proc'[q] = proc[q]
  BY <1>2 DEF NoNewClaim, HoldsClaim
<1>5. \A q \in Proc : At(q, "create.insert")' => At(q, "create.insert") /\ proc'[q] = proc[q]
  BY <1>2 DEF NoNewClaim, At
<1>6. \A i \in Job : Untouched(i) => Untouched(i)'
  BY <1>1, <1>3, <1>4 DEF Untouched, Exists
<1>7. FreshIds'
  BY <1>1, <1>5, <1>6 DEF RunInv, FreshIds, TypeOK
<1>8. CountedRuns'
  BY <1>1, <1>3, <1>4 DEF RunInv, CountedRuns, Exists
<1>9. RunClaimedOnce'
  BY <1>1, <1>3, <1>4 DEF RunInv, RunClaimedOnce
<1> QED BY <1>7, <1>8, <1>9 DEF RunInv

LEMMA RunInvInit == Init => RunInv
BY InitType DEF Init, RunInv, FreshIds, CountedRuns, RunClaimedOnce, Untouched,
                Exists, HoldsClaim, At, Idle, NoRow

LEMMA RunInvNext == RunInv /\ [Next]_vars => RunInv'
<1> SUFFICES ASSUME RunInv, [Next]_vars PROVE RunInv'
  OBVIOUS
<1>0. TypeOK /\ TypeOK'
  BY NextType DEF RunInv
<1>1. ASSUME NEW p \in Proc, Step(p) PROVE RunInv'
  BY <1>0, <1>1, QuietSteps, QuietStep, CreateInsertKeeps, RunClaimKeeps, RunInjectKeeps
     DEF Step
<1>2. ASSUME NEW p \in Proc, Crash(p) PROVE RunInv'
  BY <1>0, <1>2, DoneQuiet, RowsSame, QuietStep DEF Crash, store
<1>3. ASSUME NEW p \in Proc, NEW a \in alarms, AlarmFires(p, a) PROVE RunInv'
  BY <1>0, <1>3, QuietRequests, RowsSame, QuietStep DEF AlarmFires, Idle, store
<1>4. ASSUME NEW e \in Job \X RunKey, LeaseExpires(e) PROVE RunInv'
  BY <1>0, <1>4 DEF LeaseExpires, store, RunInv, FreshIds, CountedRuns, RunClaimedOnce,
                    Untouched, Exists, HoldsClaim, At
<1>5. CASE UNCHANGED vars
  BY <1>0, <1>5 DEF vars, RunInv, FreshIds, CountedRuns, RunClaimedOnce,
                    Untouched, Exists, HoldsClaim, At
<1>6. ASSUME NEW p \in Proc, Request(p) PROVE RunInv'
  <2>1. ASSUME NEW j \in Job, NEW s \in Session, NEW l \in Limits,
               NEW k \in RunKey \cup {None}, BeginCreate(p, j, s, l, k)
        PROVE  RunInv'
    BY <1>0, <2>1, BeginCreateKeeps
  <2>2. ASSUME NEW j \in Job, NEW s \in Session, NEW l \in Limits, BeginUpdate(p, j, s, l)
        PROVE  RunInv'
    BY <1>0, <2>2, QuietRequests, RowsSame, QuietStep DEF BeginUpdate, Idle, store
  <2>3. ASSUME NEW j \in Job, BeginPause(p, j) \/ BeginResume(p, j) \/ BeginDelete(p, j)
        PROVE  RunInv'
    BY <1>0, <2>3, QuietRequests, RowsSame, QuietStep
       DEF BeginPause, BeginResume, BeginDelete, Idle, store
  <2>4. ASSUME NEW j \in Job, NEW k \in RunKey \cup {None}, BeginRun(p, j, k)
        PROVE  RunInv'
    BY <1>0, <2>4, QuietRequests, RowsSame, QuietStep DEF BeginRun, Idle, store
  <2>5. ASSUME NEW s \in Deletable, BeginPurge(p, s)
        PROVE  RunInv'
    BY <1>0, <2>5, QuietRequests, RowsSame, QuietStep DEF BeginPurge, Idle, store
  <2> QED BY <1>6, <2>1, <2>2, <2>3, <2>4, <2>5 DEF Request
<1> QED BY <1>1, <1>2, <1>3, <1>4, <1>5, <1>6 DEF Next

\* However requests, alarms, retries, deletions, failures and crashes
\* interleave, a claimed run belongs to one execution and is injected at most
\* once (claimRecurringJobRun and runJobNow of jobs.ts).
THEOREM RunClaimedOnceHolds == Spec => []RunClaimedOnce
<1>1. RunInv => RunClaimedOnce
  BY DEF RunInv
<1> QED BY RunInvInit, RunInvNext, <1>1, PTL DEF Spec
-----------------------------------------------------------------------------
(***************************************************************************)
(* run_count.  A quiet step leaves it alone, the INSERT makes a row that   *)
(* was not there, and the claim adds one.                                  *)
(***************************************************************************)
Refunded == \E j \in Job : Exists(j) /\ rows'[j].status # "none"
              /\ rows'[j].runs \notin {rows[j].runs, rows[j].runs + 1}

LEMMA KeptNotRefunded == ASSUME RowsKept PROVE ~Refunded
BY DEF RowsKept, Refunded

LEMMA InsertNotRefunded ==
  ASSUME RunInv, NEW p \in Proc, CreateInsert(p)
  PROVE  ~Refunded
<1>1. proc[p].job \in Job /\ ~Exists(proc[p].job)
  BY DEF RunInv, TypeOK, FreshIds, Untouched, CreateInsert, At, Working, Place
<1>2. \A j \in Job : j # proc[p].job => rows'[j] = rows[j]
  BY <1>1 DEF RunInv, TypeOK, CreateInsert
<1> QED BY <1>1, <1>2 DEF Refunded

LEMMA ClaimNotRefunded ==
  ASSUME TypeOK, NEW p \in Proc, RunClaim(p)
  PROVE  ~Refunded
<1>1. proc[p].job \in Job /\ rows[proc[p].job] \in Row
  BY DEF TypeOK, RunClaim, At, Working, Place
<1>2. rows' = rows \/ rows' = [rows EXCEPT ![proc[p].job] = Claimed(rows[proc[p].job])]
  BY DEF RunClaim, RowAtClaim
<1>3. Claimed(rows[proc[p].job]).runs = rows[proc[p].job].runs + 1
  BY <1>1 DEF Claimed, Row
<1> QED BY <1>1, <1>2, <1>3 DEF TypeOK, Refunded

\* A run that was claimed is never refunded, whatever row an update or a pause
\* had read before (update and setPaused of job-service.ts).
THEOREM RunsNeverRefundedHolds == Spec => RunsNeverRefunded
<1>1. RunInv /\ [Next]_vars => ~Refunded
  <2> SUFFICES ASSUME RunInv, [Next]_vars PROVE ~Refunded
    OBVIOUS
  <2>0. TypeOK
    BY DEF RunInv
  <2>1. ASSUME NEW p \in Proc, Step(p) PROVE ~Refunded
    <3>1. CASE RunInject(p)
      BY <2>0, <3>1, RowsSame, KeptNotRefunded DEF RunInject, store
    <3> QED BY <2>0, <2>1, <3>1, QuietSteps, KeptNotRefunded, InsertNotRefunded,
               ClaimNotRefunded DEF Step
  <2>2. CASE rows' = rows
    BY <2>0, <2>2, RowsSame, KeptNotRefunded
  <2>3. ASSUME NEW p \in Proc, Request(p) \/ Crash(p) PROVE rows' = rows
    BY <2>3 DEF Request, BeginCreate, BeginUpdate, BeginPause, BeginResume, BeginDelete,
                BeginRun, BeginPurge, Crash, store
  <2>4. ASSUME (\E p \in Proc, a \in alarms : AlarmFires(p, a))
                 \/ (\E e \in Job \X RunKey : LeaseExpires(e)) \/ UNCHANGED vars
        PROVE  rows' = rows
    BY <2>4 DEF AlarmFires, LeaseExpires, store, vars
  <2> QED BY <2>1, <2>2, <2>3, <2>4 DEF Next
<1>2. RunInv /\ [Next]_vars =>
        [\A j \in Job : Exists(j) /\ rows'[j].status # "none"
           => rows'[j].runs \in {rows[j].runs, rows[j].runs + 1}]_vars
  BY <1>1 DEF Refunded
<1> QED BY RunInvInit, RunInvNext, <1>2, PTL DEF Spec, RunsNeverRefunded
-----------------------------------------------------------------------------
(***************************************************************************)
(* max_runs.  Every row bears a limit the owner gave, and run_count never  *)
(* passes it by a claim; the runs injected are numbered from one, each     *)
(* once.                                                                   *)
(***************************************************************************)
Limited == \A j \in Job : Exists(j) => rows[j].limit \in Limits
ToBeLimited ==
  \A p \in Proc : proc[p].at \in {"create.insert", "update.schedule", "update.write"} =>
    proc[p].limit \in Limits
CountedUpTo(m) ==
  /\ \A j \in Job : Exists(j) => rows[j].runs <= m
  /\ \A p \in Proc : HoldsClaim(p) => proc[p].run \in 1..m
  /\ \A d \in dispatched : d.run \in 1..m
EachOnce == \A c, d \in dispatched : c.job = d.job /\ c.run = d.run => c = d

\* Every limit is at least one, and m is no smaller than any.
LimitInv(m) == Limited /\ ToBeLimited /\ CountedUpTo(m) /\ EachOnce

\* An UPDATE of columns other than max_runs, a DELETE and no change.
LEMMA LimitKept ==
  ASSUME TypeOK, Limited, NEW j \in Job, NEW r,
         Exists(j) => r.limit \in Limits,
         \/ rows' = rows \/ rows' = Updated(j, r) \/ rows' = [rows EXCEPT ![j] = NoRow]
  PROVE  Limited'
BY DEF TypeOK, Limited, Exists, Updated, NoRow

\* The statements that write a row; max_runs is written by INSERT and UPDATE.
LEMMA RowsLimited ==
  ASSUME TypeOK, Limited, ToBeLimited, NEW p \in Proc, Step(p)
  PROVE  Limited'
<1> USE DEF At
<1>1. CASE CreateInsert(p)
  <2>1. proc[p].job \in Job /\ proc[p].limit \in Limits
    BY <1>1 DEF CreateInsert, TypeOK, ToBeLimited, Working, Place
  <2> QED BY <1>1, <2>1 DEF CreateInsert, TypeOK, Limited, Exists
<1>2. CASE UpdateWrite(p)
  <2>1. proc[p].job \in Job /\ proc[p].limit \in Limits
    BY <1>2 DEF UpdateWrite, TypeOK, ToBeLimited, Working, Place
  <2>2. UpdateColumns(p).limit = proc[p].limit
    BY <2>1 DEF UpdateColumns, TypeOK, Row
  <2>3. rows' = rows \/ rows' = Updated(proc[p].job, UpdateColumns(p))
    BY <1>2 DEF UpdateWrite
  <2> QED BY <2>1, <2>2, <2>3, LimitKept
<1>3. CASE CreateRecord(p) \/ RestoreRecord(p)
  <2>1. proc[p].job \in Job
    BY <1>3 DEF CreateRecord, RestoreRecord, TypeOK, Working, Place
  <2> DEFINE r == [rows[proc[p].job] EXCEPT !.schedule = proc[p].alarm]
  <2>2. Exists(proc[p].job) => r.limit \in Limits
    BY <2>1 DEF Limited, TypeOK, Row
  <2>3. rows' = rows \/ rows' = Updated(proc[p].job, r)
    BY <1>3 DEF CreateRecord, RestoreRecord
  <2> QED BY <2>1, <2>2, <2>3, LimitKept
<1>4. CASE PauseWrite(p) \/ ResumeWrite(p)
  <2>1. proc[p].job \in Job
    BY <1>4 DEF PauseWrite, ResumeWrite, TypeOK, Working, Place
  <2>2. PICK st, sc : \/ rows' = rows
                      \/ rows' = Updated(proc[p].job, [rows[proc[p].job] EXCEPT
                                           !.status = st, !.schedule = sc])
    BY <1>4 DEF PauseWrite, ResumeWrite
  <2>3. Exists(proc[p].job) =>
          [rows[proc[p].job] EXCEPT !.status = st, !.schedule = sc].limit \in Limits
    BY <2>1 DEF Limited, TypeOK, Row
  <2> QED BY <2>1, <2>2, <2>3, LimitKept
<1>5. CASE CreateErase(p) \/ DeleteErase(p)
  <2>1. proc[p].job \in Job
    BY <1>5 DEF CreateErase, DeleteErase, TypeOK, Working, Place
  <2>2. rows' = rows \/ rows' = [rows EXCEPT ![proc[p].job] = NoRow]
    BY <1>5 DEF CreateErase, DeleteErase
  <2> QED BY <2>1, <2>2 DEF TypeOK, Limited, Exists, NoRow
<1>6. CASE RunClaim(p)
  <2>1. proc[p].job \in Job /\ rows[proc[p].job] \in Row
    BY <1>6 DEF RunClaim, TypeOK, Working, Place
  <2>2. Claimed(rows[proc[p].job]).limit = rows[proc[p].job].limit
    BY <2>1 DEF Claimed, Row
  <2>3. \/ rows' = rows
        \/ rows[proc[p].job].status = "active"
             /\ rows' = [rows EXCEPT ![proc[p].job] = Claimed(rows[proc[p].job])]
    BY <1>6 DEF RunClaim, RowAtClaim
  <2> QED BY <2>1, <2>2, <2>3 DEF TypeOK, Limited, Exists
<1>7. CASE PurgeJobs(p)
  BY <1>7 DEF PurgeJobs, TypeOK, Limited, Exists, NoRow
<1>8. CASE ~(\/ CreateInsert(p) \/ UpdateWrite(p) \/ CreateRecord(p) \/ RestoreRecord(p)
             \/ PauseWrite(p) \/ ResumeWrite(p) \/ CreateErase(p) \/ DeleteErase(p)
             \/ RunClaim(p) \/ PurgeJobs(p))
  <2>1. rows' = rows
    BY <1>8 DEF Step, CreateSchedule, CreateCancel, UpdateSchedule, UpdateUndo,
                UpdateRetire, UpdateRetry, PauseCancel, ResumeSchedule, ResumeUndo,
                RestoreSchedule, DeleteCancel, RunReserve, RunRenew, RunCancel,
                RunInject, RunSettle, PurgeCancel, PurgeSession, store
  <2> QED BY <2>1 DEF Limited, Exists
<1> QED BY <1>1, <1>2, <1>3, <1>4, <1>5, <1>6, <1>7, <1>8

\* The limit to be written is the one the request came with.
LEMMA InputLimited ==
  ASSUME TypeOK, ToBeLimited, NEW p \in Proc, Step(p)
  PROVE  ToBeLimited'
<1> DEFINE Writing(x) == x.at \in {"create.insert", "update.schedule", "update.write"}
<1>1. /\ \A q \in Proc : q # p => proc'[q] = proc[q]
      /\ Writing(proc'[p]) => Writing(proc[p]) /\ proc'[p].limit = proc[p].limit
  <2>1. CASE UpdateSchedule(p)
    BY <2>1 DEF UpdateSchedule, TypeOK, Execution, At, Done, Idle
  <2>2. CASE UpdateWrite(p) \/ CreateInsert(p) \/ CreateSchedule(p) \/ CreateRecord(p)
             \/ CreateCancel(p) \/ CreateErase(p) \/ UpdateUndo(p) \/ UpdateRetire(p)
             \/ UpdateRetry(p)
    BY <2>2 DEF TypeOK, Execution, At, Goto, Done, Idle, UpdateWrite, CreateInsert,
                CreateSchedule, CreateRecord, CreateCancel, CreateErase, UpdateUndo,
                UpdateRetire, UpdateRetry
  <2>3. CASE PauseCancel(p) \/ PauseWrite(p) \/ ResumeSchedule(p) \/ ResumeWrite(p)
             \/ ResumeUndo(p) \/ RestoreSchedule(p) \/ RestoreRecord(p) \/ DeleteCancel(p)
             \/ DeleteErase(p)
    BY <2>3 DEF TypeOK, Execution, At, Goto, Done, Idle, PauseCancel, PauseWrite,
                ResumeSchedule, ResumeWrite, ResumeUndo, RestoreSchedule, RestoreRecord,
                DeleteCancel, DeleteErase
  <2>4. CASE RunReserve(p) \/ RunRenew(p) \/ RunClaim(p) \/ RunCancel(p) \/ RunInject(p)
             \/ RunSettle(p) \/ PurgeCancel(p) \/ PurgeJobs(p) \/ PurgeSession(p)
    BY <2>4 DEF TypeOK, Execution, At, Goto, Done, Idle, RunReserve, RunRenew, RunClaim,
                RunCancel, RunInject, RunSettle, PurgeCancel, PurgeJobs, PurgeSession
  <2> QED BY <2>1, <2>2, <2>3, <2>4 DEF Step
<1> QED BY <1>1 DEF ToBeLimited

\* A request comes with a limit the owner may give.
LEMMA RequestLimited ==
  ASSUME TypeOK, Limited, ToBeLimited, NEW p \in Proc, Request(p) \/ Crash(p)
  PROVE  Limited' /\ ToBeLimited'
<1>1. rows' = rows
  BY DEF Request, BeginCreate, BeginUpdate, BeginPause, BeginResume, BeginDelete,
         BeginRun, BeginPurge, Crash, store
<1> SUFFICES ToBeLimited'
  BY <1>1 DEF Limited, Exists
<1>2. ASSUME NEW r, Begin(p, r),
             r.at \in {"create.insert", "update.schedule", "update.write"} => r.limit \in Limits
      PROVE  ToBeLimited'
  BY <1>2 DEF TypeOK, Begin, ToBeLimited
<1>3. CASE Crash(p)
  BY <1>3 DEF TypeOK, Crash, Done, Idle, ToBeLimited
<1>4. CASE Request(p)
  <2>1. ASSUME NEW j \in Job, NEW s \in Session, NEW l \in Limits,
               NEW k \in RunKey \cup {None}, BeginCreate(p, j, s, l, k)
        PROVE  ToBeLimited'
    BY <1>2, <2>1 DEF BeginCreate, Idle
  <2>2. ASSUME NEW j \in Job, NEW s \in Session, NEW l \in Limits, BeginUpdate(p, j, s, l)
        PROVE  ToBeLimited'
    BY <1>2, <2>2 DEF BeginUpdate, Idle
  <2>3. ASSUME NEW j \in Job, BeginPause(p, j) \/ BeginResume(p, j) \/ BeginDelete(p, j)
        PROVE  ToBeLimited'
    BY <1>2, <2>3 DEF BeginPause, BeginResume, BeginDelete, Idle
  <2>4. ASSUME NEW j \in Job, NEW k \in RunKey \cup {None}, BeginRun(p, j, k)
        PROVE  ToBeLimited'
    BY <1>2, <2>4 DEF BeginRun, Idle
  <2>5. ASSUME NEW s \in Deletable, BeginPurge(p, s)
        PROVE  ToBeLimited'
    BY <1>2, <2>5 DEF BeginPurge, Idle
  <2> QED BY <1>4, <2>1, <2>2, <2>3, <2>4, <2>5 DEF Request
<1> QED BY <1>3, <1>4

LEMMA AlarmLimited ==
  ASSUME TypeOK, Limited, ToBeLimited,
         \/ \E p \in Proc, a \in alarms : AlarmFires(p, a)
         \/ \E e \in Job \X RunKey : LeaseExpires(e)
         \/ UNCHANGED vars
  PROVE  Limited' /\ ToBeLimited'
<1>1. rows' = rows
  BY DEF AlarmFires, LeaseExpires, store, vars
<1> SUFFICES ToBeLimited'
  BY <1>1 DEF Limited, Exists
<1>2. ASSUME NEW p \in Proc, NEW a \in alarms, AlarmFires(p, a)
      PROVE  ToBeLimited'
  <2>1. /\ \A q \in Proc : q # p => proc'[q] = proc[q]
        /\ proc'[p].at = "run.claim"
    BY <1>2 DEF AlarmFires, TypeOK, Begin, Idle
  <2> QED BY <2>1 DEF ToBeLimited
<1>3. CASE proc' = proc
  BY <1>3 DEF ToBeLimited
<1> QED BY <1>2, <1>3 DEF LeaseExpires, vars

\* The quiet steps number nothing.
LEMMA CountQuiet ==
  ASSUME NEW m \in Nat, RunInv, LimitInv(m), NEW p \in Proc, RowsKept, NoNewClaim(p),
         dispatched' = dispatched
  PROVE  CountedUpTo(m)' /\ EachOnce'
<1>1. \A q \in Proc : HoldsClaim(q)' => HoldsClaim(q) /\ proc'[q].run = proc[q].run
  BY DEF NoNewClaim, HoldsClaim
<1>2. \A j \in Job : Exists(j)' => Exists(j) /\ rows'[j].runs = rows[j].runs
  BY DEF RowsKept, Exists
<1> QED BY <1>1, <1>2 DEF LimitInv, CountedUpTo, EachOnce

LEMMA CountInsert ==
  ASSUME NEW m \in Nat, RunInv, LimitInv(m), NEW p \in Proc, CreateInsert(p)
  PROVE  CountedUpTo(m)' /\ EachOnce'
<1>1. proc[p].job \in Job /\ dispatched' = dispatched
  BY DEF RunInv, TypeOK, CreateInsert, At, Working, Place
<1>2. \A j \in Job : Exists(j)' =>
        rows'[j].runs = 0 \/ (Exists(j) /\ rows'[j].runs = rows[j].runs)
  BY <1>1 DEF RunInv, TypeOK, CreateInsert, Exists
<1>3. \A q \in Proc : HoldsClaim(q)' => HoldsClaim(q) /\ proc'[q].run = proc[q].run
  BY GotoQuiet, DoneQuiet DEF RunInv, CreateInsert, Place, NoNewClaim, HoldsClaim
<1> QED BY <1>1, <1>2, <1>3 DEF LimitInv, CountedUpTo, EachOnce

\* The claim is made below the limit of the row as it is.
LEMMA CountClaim ==
  ASSUME NEW m \in Nat, \A l \in Limits : l # 0 /\ l <= m,
         RunInv, LimitInv(m), NEW p \in Proc, RunClaim(p)
  PROVE  CountedUpTo(m)' /\ EachOnce'
<1>0. TypeOK /\ dispatched' = dispatched
  BY DEF RunInv, RunClaim
<1> DEFINE j == proc[p].job
           n == rows[j].runs + 1
<1>1. j \in Job /\ rows[j] \in Row
  BY <1>0 DEF TypeOK, RunClaim, At, Working, Place
<1>2. CASE rows' = rows /\ (Done(p) \/ Goto(p, "run.settle"))
  BY <1>0, <1>2, RowsSame, GotoQuiet, DoneQuiet, CountQuiet DEF Place
<1>3. CASE ~(rows' = rows /\ (Done(p) \/ Goto(p, "run.settle")))
  <2>1. /\ rows[j].status = "active" /\ UnderLimit(rows[j])
        /\ rows' = [rows EXCEPT ![j] = Claimed(rows[j])]
        /\ \E place \in {"run.cancel", "run.inject"} :
             proc' = [proc EXCEPT ![p].at = place, ![p].run = n]
    BY <1>3 DEF RunClaim, RowAtClaim
  <2>2. rows[j].limit \in Limits /\ rows[j].limit \in Nat /\ rows[j].runs \in Nat
    BY <1>1, <2>1, RowFields DEF LimitInv, Limited, Exists
  <2>3. n \in 1..m
    BY <2>1, <2>2, LimitsAssumption DEF UnderLimit
  <2>4. \A i \in Job : rows'[i].runs = IF i = j THEN n ELSE rows[i].runs
    BY <1>0, <1>1, <2>1 DEF TypeOK, Claimed, Row
  <2>5. \A i \in Job : i # j => rows'[i] = rows[i]
    BY <1>0, <2>1 DEF TypeOK
  <2>6. /\ proc'[p].run = n
        /\ \A q \in Proc : q # p => proc'[q] = proc[q]
    BY <1>0, <2>1 DEF TypeOK, Execution
  <2> HIDE DEF n
  <2>7. \A i \in Job : Exists(i)' => rows'[i].runs <= m
    BY <2>3, <2>4, <2>5 DEF LimitInv, CountedUpTo, Exists
  <2>8. \A q \in Proc : HoldsClaim(q)' => proc'[q].run \in 1..m
    BY <2>3, <2>6 DEF LimitInv, CountedUpTo, HoldsClaim
  <2> QED BY <1>0, <2>7, <2>8 DEF LimitInv, CountedUpTo, EachOnce
<1> QED BY <1>2, <1>3

\* The run that is injected is not in a session yet: its execution held it.
LEMMA CountInject ==
  ASSUME NEW m \in Nat, RunInv, LimitInv(m), NEW p \in Proc, RunInject(p)
  PROVE  CountedUpTo(m)' /\ EachOnce'
<1> DEFINE d0 == [job |-> proc[p].job, run |-> proc[p].run, key |-> proc[p].key]
<1>1. HoldsClaim(p) /\ rows' = rows
  BY DEF RunInject, At, HoldsClaim, store
<1>2. NoNewClaim(p)
  <2>1. TypeOK /\ "run.settle" \in Place
    BY DEF RunInv, Place
  <2> QED BY <2>1, GotoQuiet, DoneQuiet DEF RunInject
<1>3. dispatched' = dispatched \/ dispatched' = dispatched \cup {d0}
  BY DEF RunInject
<1>4. \A d \in dispatched : ~(d.job = d0.job /\ d.run = d0.run)
  BY <1>1 DEF RunInv, RunClaimedOnce
<1>5. d0.run \in 1..m
  BY <1>1 DEF LimitInv, CountedUpTo
<1>6. \A q \in Proc : HoldsClaim(q)' => HoldsClaim(q) /\ proc'[q].run = proc[q].run
  BY <1>2 DEF NoNewClaim, HoldsClaim
<1> HIDE DEF d0
<1> QED BY <1>1, <1>3, <1>4, <1>5, <1>6 DEF LimitInv, CountedUpTo, EachOnce, Exists

LEMMA CountNext ==
  ASSUME NEW m \in Nat, \A l \in Limits : l # 0 /\ l <= m,
         RunInv, LimitInv(m), [Next]_vars
  PROVE  LimitInv(m)'
<1>0. TypeOK /\ Limited /\ ToBeLimited
  BY DEF RunInv, LimitInv
<1>1. Limited' /\ ToBeLimited'
  <2>1. ASSUME NEW p \in Proc, Step(p) PROVE Limited' /\ ToBeLimited'
    BY <1>0, <2>1, RowsLimited, InputLimited
  <2> QED BY <1>0, <2>1, RequestLimited, AlarmLimited DEF Next
<1>2. CountedUpTo(m)' /\ EachOnce'
  <2>1. ASSUME NEW p \in Proc, Step(p) PROVE CountedUpTo(m)' /\ EachOnce'
    BY <1>0, <2>1, QuietSteps, CountQuiet, CountInsert, CountClaim, CountInject DEF Step
  <2>2. ASSUME NEW p \in Proc, NEW r, Begin(p, r), rows' = rows, dispatched' = dispatched,
               r.at \notin {"run.cancel", "run.inject"}
        PROVE  CountedUpTo(m)' /\ EachOnce'
    <3>1. \A q \in Proc : HoldsClaim(q)' => HoldsClaim(q) /\ proc'[q] = proc[q]
      BY <1>0, <2>2 DEF TypeOK, Begin, HoldsClaim
    <3> QED BY <2>2, <3>1 DEF LimitInv, CountedUpTo, EachOnce, Exists
  <2>3. ASSUME NEW p \in Proc, Request(p) PROVE CountedUpTo(m)' /\ EachOnce'
    <3>1. ASSUME NEW j \in Job, NEW s \in Session, NEW l \in Limits,
                 NEW k \in RunKey \cup {None}, BeginCreate(p, j, s, l, k)
          PROVE  CountedUpTo(m)' /\ EachOnce'
      BY <2>2, <3>1 DEF BeginCreate, Idle
    <3>2. ASSUME NEW j \in Job, NEW s \in Session, NEW l \in Limits, BeginUpdate(p, j, s, l)
          PROVE  CountedUpTo(m)' /\ EachOnce'
      BY <2>2, <3>2 DEF BeginUpdate, Idle, store
    <3>3. ASSUME NEW j \in Job, BeginPause(p, j) \/ BeginResume(p, j) \/ BeginDelete(p, j)
          PROVE  CountedUpTo(m)' /\ EachOnce'
      BY <2>2, <3>3 DEF BeginPause, BeginResume, BeginDelete, Idle, store
    <3>4. ASSUME NEW j \in Job, NEW k \in RunKey \cup {None}, BeginRun(p, j, k)
          PROVE  CountedUpTo(m)' /\ EachOnce'
      BY <2>2, <3>4 DEF BeginRun, Idle, store
    <3>5. ASSUME NEW s \in Deletable, BeginPurge(p, s)
          PROVE  CountedUpTo(m)' /\ EachOnce'
      BY <2>2, <3>5 DEF BeginPurge, Idle, store
    <3> QED BY <2>3, <3>1, <3>2, <3>3, <3>4, <3>5 DEF Request
  <2>4. ASSUME NEW p \in Proc, Crash(p) PROVE CountedUpTo(m)' /\ EachOnce'
    BY <1>0, <2>4, RowsSame, DoneQuiet, CountQuiet DEF Crash, store
  <2>5. ASSUME NEW p \in Proc, NEW a \in alarms, AlarmFires(p, a)
        PROVE  CountedUpTo(m)' /\ EachOnce'
    BY <2>2, <2>5 DEF AlarmFires, Idle, store
  <2>6. CASE UNCHANGED vars \/ \E e \in Job \X RunKey : LeaseExpires(e)
    BY <2>6 DEF vars, LeaseExpires, store, LimitInv, CountedUpTo, EachOnce, Exists, HoldsClaim
  <2> QED BY <2>1, <2>3, <2>4, <2>5, <2>6 DEF Next
<1> QED BY <1>1, <1>2 DEF LimitInv

\* No job is run more often than the largest limit it was ever given, even
\* where an update that read the row before the last run is written after it
\* (the WHERE of claimRecurringJobRun).
THEOREM RunLimitHonouredHolds ==
  ASSUME NEW m \in Limits, \A l \in Limits : l <= m
  PROVE  Spec => []RunLimitHonoured
<1>0. m \in Nat
  BY LimitsAssumption
<1>1. CASE 0 \in Limits
  <2>1. TypeOK => RunLimitHonoured
    BY <1>1 DEF RunLimitHonoured
  <2> QED BY <2>1, TypeCorrect, PTL
<1>2. CASE 0 \notin Limits
  <2>1. Init => LimitInv(m)
    BY DEF Init, LimitInv, Limited, ToBeLimited, CountedUpTo, EachOnce, Exists, HoldsClaim,
           Idle, NoRow
  <2>2. RunInv /\ LimitInv(m) /\ [Next]_vars => LimitInv(m)'
    BY <1>0, <1>2, CountNext
  <2>3. LimitMax = m
    <3>1. \E x \in Limits : \A l \in Limits : l <= x
      OBVIOUS
    <3>2. LimitMax \in Limits /\ \A l \in Limits : l <= LimitMax
      BY <3>1 DEF LimitMax
    <3>3. LimitMax <= m /\ m <= LimitMax /\ LimitMax \in Nat
      BY <3>2, LimitsAssumption
    <3> QED BY <1>0, <3>3
  <2>4. ASSUME LimitInv(m) PROVE RunLimitHonoured
    <3> SUFFICES ASSUME NEW j \in Job
                 PROVE  Cardinality({d \in dispatched : d.job = j}) <= m
      BY <2>3 DEF RunLimitHonoured
    <3> DEFINE D == {d \in dispatched : d.job = j}
               number == [d \in D |-> d.run]
    <3>1. number \in Injection(D, 1..m)
      BY <2>4 DEF Injection, IsInjective, LimitInv, CountedUpTo, EachOnce
    <3>2. IsFiniteSet(1..m) /\ Cardinality(1..m) = m
      BY <1>0, FS_Interval
    <3> HIDE DEF D, number
    <3>3. Cardinality(D) <= Cardinality(1..m)
      BY <3>1, <3>2, FS_Injection
    <3> QED BY <3>2, <3>3 DEF D
  <2> QED BY <2>1, <2>2, <2>4, RunInvInit, RunInvNext, PTL DEF Spec
<1> QED BY <1>1, <1>2
-----------------------------------------------------------------------------
(***************************************************************************)
(* Idempotency keys.  A reservation whose lease never ran out is carried   *)
(* by one execution, which injects once.                                   *)
(***************************************************************************)
Keys == Job \X RunKey
Firm(e) == lapses[e] = 0
Carries(p, e) ==
  /\ proc[p].at \in {"run.claim", "run.cancel", "run.inject"}
  /\ <<proc[p].job, proc[p].key>> = e
Sent(e) == {d \in dispatched : <<d.job, d.key>> = e}

\* Who renews a reservation has read it as expired.
Renewals ==
  /\ \A p \in Proc : proc[p].at \in {"run.reserve", "run.renew"} => proc[p].key # None
  /\ \A p \in Proc : At(p, "run.renew") => ~Firm(<<proc[p].job, proc[p].key>>)

OneCarrier(e) ==
  /\ events[e] # "expired"
  /\ events[e] = "none" => Sent(e) = {}
  /\ \A p \in Proc : Carries(p, e) => events[e] # "none" /\ Sent(e) = {}
  /\ \A p, q \in Proc : Carries(p, e) /\ Carries(q, e) => p = q
  /\ \A c, d \in Sent(e) : c = d

KeyInv == Renewals /\ \A e \in Keys : Firm(e) => OneCarrier(e)

\* A step of p that reserves and injects nothing under the key e.
LEMMA CarrierKept ==
  ASSUME NEW e, OneCarrier(e), NEW p \in Proc,
         \A q \in Proc \ {p} : proc'[q] = proc[q], Carries(p, e)' => Carries(p, e),
         events'[e] \notin {"none", "expired"} \/ events'[e] = events[e],
         dispatched' = dispatched
  PROVE  OneCarrier(e)'
<1>1. \A q \in Proc : Carries(q, e)' => Carries(q, e)
  BY DEF Carries
<1> QED BY <1>1 DEF OneCarrier, Sent

\* The steps that are not about runs, and those that go on with a run.
LEMMA KeyQuiet ==
  ASSUME KeyInv, NEW p \in Proc, \A q \in Proc \ {p} : proc'[q] = proc[q],
         proc'[p].at \notin {"run.reserve", "run.renew"},
         \A e \in Keys : Carries(p, e)' => Carries(p, e),
         lapses' = lapses, dispatched' = dispatched,
         \A e \in Keys : events'[e] = "done" \/ events'[e] = events[e]
  PROVE  KeyInv'
<1>1. Renewals'
  BY DEF KeyInv, Renewals, At, Firm
<1>2. \A e \in Keys : Firm(e)' => OneCarrier(e)'
  BY CarrierKept DEF KeyInv, Firm
<1> QED BY <1>1, <1>2 DEF KeyInv

\* A run begins without a key, or finds its key free or expired.
LEMMA KeyBegins ==
  ASSUME TypeOK, KeyInv, NEW p \in Proc, NEW r, Begin(p, r),
         r.at \notin {"run.cancel", "run.inject"},
         r.at = "run.claim" => r.key = None,
         r.at \in {"run.reserve", "run.renew"} => r.key # None,
         r.at = "run.renew" => ~Firm(<<r.job, r.key>>),
         events' = events, lapses' = lapses, dispatched' = dispatched
  PROVE  KeyInv'
<1>1. proc'[p] = r /\ \A q \in Proc \ {p} : proc'[q] = proc[q]
  BY DEF TypeOK, Begin
<1>2. \A e \in Keys : ~Carries(p, e)'
  BY <1>1, NoneAssumption DEF Carries, Keys
<1>3. Renewals'
  BY <1>1 DEF KeyInv, Renewals, At, Firm
<1>4. \A e \in Keys : Firm(e)' => OneCarrier(e)'
  BY <1>1, <1>2, CarrierKept DEF KeyInv, Firm
<1> QED BY <1>3, <1>4 DEF KeyInv

LEMMA KeyRequest ==
  ASSUME TypeOK, KeyInv, NEW p \in Proc,
         \/ Request(p) \/ Crash(p) \/ \E a \in alarms : AlarmFires(p, a)
  PROVE  KeyInv'
<1> USE DEF store, ledger
<1>1. CASE Crash(p)
  <2>1. proc'[p].at = "idle" /\ \A q \in Proc \ {p} : proc'[q] = proc[q]
    BY <1>1 DEF TypeOK, Crash, Done, Idle
  <2> QED BY <1>1, <2>1, KeyQuiet DEF Crash, Carries
<1>2. ASSUME NEW a \in alarms, AlarmFires(p, a) PROVE KeyInv'
  BY <1>2, KeyBegins DEF AlarmFires, Idle
<1>3. CASE Request(p)
  <2>1. ASSUME NEW j \in Job, NEW s \in Session, NEW l \in Limits,
               NEW k \in RunKey \cup {None}, BeginCreate(p, j, s, l, k)
        PROVE  KeyInv'
    BY <2>1, KeyBegins DEF BeginCreate, Idle
  <2>2. ASSUME NEW j \in Job, NEW s \in Session, NEW l \in Limits, BeginUpdate(p, j, s, l)
        PROVE  KeyInv'
    BY <2>2, KeyBegins DEF BeginUpdate, Idle
  <2>3. ASSUME NEW j \in Job, BeginPause(p, j) \/ BeginResume(p, j) \/ BeginDelete(p, j)
        PROVE  KeyInv'
    BY <2>3, KeyBegins DEF BeginPause, BeginResume, BeginDelete, Idle
  <2>4. ASSUME NEW j \in Job, NEW k \in RunKey \cup {None}, BeginRun(p, j, k)
        PROVE  KeyInv'
    <3>1. k # None /\ events[<<j, k>>] # "none" => ~Firm(<<j, k>>)
      BY <2>4 DEF BeginRun, KeyInv, Keys, OneCarrier
    <3> DEFINE place == IF k = None THEN "run.claim"
                        ELSE IF events[<<j, k>>] = "none" THEN "run.reserve" ELSE "run.renew"
    <3>2. Begin(p, [Idle EXCEPT !.at = place, !.job = j, !.row = rows[j],
                                !.session = rows[j].session, !.key = k])
      BY <2>4 DEF BeginRun
    <3>3. /\ place \in {"run.claim", "run.reserve", "run.renew"}
          /\ place = "run.claim" => k = None
          /\ place \in {"run.reserve", "run.renew"} => k # None
          /\ place = "run.renew" => ~Firm(<<j, k>>)
      BY <3>1
    <3> HIDE DEF place
    <3> QED BY <2>4, <3>2, <3>3, KeyBegins DEF BeginRun, Idle
  <2>5. ASSUME NEW s \in Deletable, BeginPurge(p, s)
        PROVE  KeyInv'
    BY <2>5, KeyBegins DEF BeginPurge, Idle
  <2> QED BY <1>3, <2>1, <2>2, <2>3, <2>4, <2>5 DEF Request
<1> QED BY <1>1, <1>2, <1>3

\* Where the steps that run nothing lead.
LEMMA ElsewherePlaces ==
  ASSUME TypeOK, NEW p \in Proc, Step(p),
         ~(RunReserve(p) \/ RunRenew(p) \/ RunClaim(p) \/ RunCancel(p) \/ RunInject(p)
             \/ RunSettle(p))
  PROVE  /\ events' = events /\ lapses' = lapses /\ dispatched' = dispatched
         /\ \A q \in Proc \ {p} : proc'[q] = proc[q]
         /\ proc'[p].at \notin {"run.reserve", "run.renew", "run.claim", "run.cancel",
                                "run.inject"}
<1> USE DEF TypeOK, Execution, At, Goto, Done, Idle, ledger
<1>1. CASE CreateInsert(p) \/ CreateSchedule(p) \/ CreateRecord(p) \/ CreateCancel(p)
           \/ CreateErase(p)
  BY <1>1 DEF CreateInsert, CreateSchedule, CreateRecord, CreateCancel, CreateErase
<1>2. CASE UpdateSchedule(p) \/ UpdateWrite(p) \/ UpdateUndo(p) \/ UpdateRetire(p)
           \/ UpdateRetry(p)
  BY <1>2 DEF UpdateSchedule, UpdateWrite, UpdateUndo, UpdateRetire, UpdateRetry
<1>3. CASE PauseCancel(p) \/ PauseWrite(p)
  <2>1. CASE PauseCancel(p)
    BY <2>1 DEF PauseCancel
  <2>2. CASE PauseWrite(p)
    BY <2>2 DEF PauseWrite
  <2> QED BY <1>3, <2>1, <2>2
<1>4. CASE ResumeSchedule(p) \/ ResumeWrite(p) \/ ResumeUndo(p)
  BY <1>4 DEF ResumeSchedule, ResumeWrite, ResumeUndo
<1>5. CASE RestoreSchedule(p) \/ RestoreRecord(p)
  BY <1>5 DEF RestoreSchedule, RestoreRecord
<1>6. CASE DeleteCancel(p) \/ DeleteErase(p)
  <2>1. CASE DeleteCancel(p)
    BY <2>1 DEF DeleteCancel
  <2>2. CASE DeleteErase(p)
    BY <2>2 DEF DeleteErase
  <2> QED BY <1>6, <2>1, <2>2
<1>7. CASE PurgeCancel(p)
  <2>1. events' = events /\ lapses' = lapses /\ dispatched' = dispatched
    BY <1>7 DEF PurgeCancel
  <2>2. CASE Goto(p, "purge.jobs") \/ Done(p)
    BY <2>1, <2>2
  <2>3. CASE ~(Goto(p, "purge.jobs") \/ Done(p))
    <3>1. PICK id : proc' = [proc EXCEPT ![p].todo = @ \ {id}]
      BY <1>7, <2>3 DEF PurgeCancel
    <3>2. proc[p].at = "purge.cancel"
      BY <1>7 DEF PurgeCancel
    <3> QED BY <2>1, <3>1, <3>2
  <2> QED BY <2>2, <2>3
<1>8. CASE PurgeJobs(p) \/ PurgeSession(p)
  BY <1>8 DEF PurgeJobs, PurgeSession
<1> QED BY <1>1, <1>2, <1>3, <1>4, <1>5, <1>6, <1>7, <1>8 DEF Step

\* The INSERT of a reservation finds nobody that carries the key.
LEMMA KeyReserved ==
  ASSUME TypeOK, KeyInv, NEW p \in Proc, RunReserve(p)
  PROVE  KeyInv'
<1>0. lapses' = lapses /\ dispatched' = dispatched /\ proc[p].job \in Job
  BY DEF RunReserve, TypeOK, At, Working, Place
<1>1. CASE Done(p) /\ UNCHANGED events
  <2>1. proc'[p].at = "idle" /\ \A q \in Proc \ {p} : proc'[q] = proc[q]
    BY <1>1 DEF TypeOK, Done, Idle
  <2> QED BY <1>0, <1>1, <2>1, KeyQuiet DEF Carries
<1> DEFINE own == <<proc[p].job, proc[p].key>>
<1>2. CASE /\ events[own] = "none" /\ events' = [events EXCEPT ![own] = "pending"]
           /\ Goto(p, "run.claim")
  <2>1. /\ \A q \in Proc \ {p} : proc'[q] = proc[q]
        /\ proc'[p].at = "run.claim" /\ proc'[p].job = proc[p].job
        /\ proc'[p].key = proc[p].key
    BY <1>2 DEF TypeOK, Goto, Execution
  <2>2. own \in Keys
    BY <1>0, Fields DEF RunReserve, At, KeyInv, Renewals, Keys
  <2>3. /\ events'[own] = "pending"
        /\ \A e \in Keys : e # own => events'[e] = events[e]
    BY <1>2, <2>2 DEF TypeOK, Keys
  <2>4. Renewals'
    BY <1>0, <2>1 DEF KeyInv, Renewals, At, Firm
  <2>5. ASSUME NEW e \in Keys, Firm(e)' PROVE OneCarrier(e)'
    <3>0. OneCarrier(e)
      BY <1>0, <2>5 DEF KeyInv, Firm
    <3>1. CASE e # own
      <4>1. ~Carries(p, e)'
        BY <2>1, <3>1 DEF Carries
      <4> QED BY <1>0, <2>1, <2>3, <3>0, <3>1, <4>1, CarrierKept
    <3>2. CASE e = own
      <4>1. \A q \in Proc : ~Carries(q, e)
        BY <1>2, <3>0, <3>2 DEF OneCarrier
      <4>2. \A q \in Proc : Carries(q, e)' => q = p
        BY <2>1, <4>1 DEF Carries
      <4>3. Sent(e)' = {}
        BY <1>0, <1>2, <3>0, <3>2 DEF OneCarrier, Sent
      <4> QED BY <2>3, <3>2, <4>2, <4>3 DEF OneCarrier
    <3> QED BY <3>1, <3>2
  <2> QED BY <2>4, <2>5 DEF KeyInv
<1> QED BY <1>1, <1>2 DEF RunReserve, Reserved

\* A reservation that is renewed is not firm.
LEMMA KeyRenewed ==
  ASSUME TypeOK, KeyInv, NEW p \in Proc, RunRenew(p)
  PROVE  KeyInv'
<1> DEFINE own == <<proc[p].job, proc[p].key>>
<1>0. lapses' = lapses /\ dispatched' = dispatched /\ ~Firm(own)
  BY DEF RunRenew, KeyInv, Renewals
<1>1. /\ \A q \in Proc \ {p} : proc'[q] = proc[q]
      /\ proc'[p].at \in {"idle", "run.claim"}
      /\ proc'[p].at = "run.claim" => <<proc'[p].job, proc'[p].key>> = own
  BY DEF RunRenew, TypeOK, Goto, Done, Idle, Execution
<1>2. \A e \in Keys : e # own => events'[e] = events[e]
  BY DEF RunRenew, TypeOK, Keys
<1>3. Renewals'
  BY <1>0, <1>1 DEF KeyInv, Renewals, At, Firm
<1>4. ASSUME NEW e \in Keys, Firm(e)' PROVE OneCarrier(e)'
  <2>1. e # own /\ OneCarrier(e)
    BY <1>0, <1>4 DEF KeyInv, Firm
  <2>2. ~Carries(p, e)'
    BY <1>1, <2>1 DEF Carries
  <2> QED BY <1>0, <1>1, <1>2, <2>1, <2>2, CarrierKept
<1> QED BY <1>3, <1>4 DEF KeyInv

\* A run goes on under its key, or ends.
LEMMA KeyGoesOn ==
  ASSUME TypeOK, KeyInv, NEW p \in Proc, RunClaim(p) \/ RunCancel(p) \/ RunSettle(p)
  PROVE  KeyInv'
<1>1. lapses' = lapses /\ dispatched' = dispatched
  BY DEF RunClaim, RunCancel, RunSettle, ledger
<1>2. \A e \in Keys : events'[e] = "done" \/ events'[e] = events[e]
  <2>1. CASE RunSettle(p)
    BY <2>1 DEF RunSettle, TypeOK, Keys
  <2>2. CASE RunClaim(p) \/ RunCancel(p)
    BY <2>2 DEF RunClaim, RunCancel, ledger
  <2> QED BY <2>1, <2>2
<1>3. /\ \A q \in Proc \ {p} : proc'[q] = proc[q]
      /\ proc'[p].at \notin {"run.reserve", "run.renew"}
      /\ \A e \in Keys : Carries(p, e)' => Carries(p, e)
  <2>1. CASE RunClaim(p)
    <3>1. At(p, "run.claim") /\
            \/ Done(p) \/ Goto(p, "run.settle")
            \/ \E place \in {"run.cancel", "run.inject"}, n \in {RowAtClaim(p).runs + 1} :
                 proc' = [proc EXCEPT ![p].at = place, ![p].run = n]
      BY <2>1 DEF RunClaim
    <3> QED BY <3>1 DEF TypeOK, Goto, Done, Idle, Execution, Carries, At
  <2>2. CASE RunCancel(p) \/ RunSettle(p)
    BY <2>2 DEF RunCancel, RunSettle, TypeOK, Goto, Done, Idle, Execution, Carries, At
  <2> QED BY <2>1, <2>2
<1> QED BY <1>1, <1>2, <1>3, KeyQuiet

\* The one carrier injects, and carries the key no longer.
LEMMA KeyInjected ==
  ASSUME TypeOK, KeyInv, NEW p \in Proc, RunInject(p)
  PROVE  KeyInv'
<1> DEFINE d0 == [job |-> proc[p].job, run |-> proc[p].run, key |-> proc[p].key]
           own == <<proc[p].job, proc[p].key>>
<1>0. /\ lapses' = lapses /\ events' = events /\ At(p, "run.inject")
      /\ Carries(p, own)
  BY DEF RunInject, ledger, Carries, At
<1>1. /\ \A q \in Proc \ {p} : proc'[q] = proc[q]
      /\ proc'[p].at \in {"idle", "run.settle"}
  BY DEF RunInject, TypeOK, Goto, Done, Idle, Execution
<1>2. \A e \in Keys : ~Carries(p, e)'
  BY <1>1 DEF Carries
<1>3. CASE dispatched' = dispatched
  BY <1>0, <1>1, <1>2, <1>3, KeyQuiet
<1>4. CASE dispatched' = dispatched \cup {d0}
  <2>1. Renewals'
    BY <1>0, <1>1 DEF KeyInv, Renewals, At, Firm
  <2>2. ASSUME NEW e \in Keys, Firm(e)' PROVE OneCarrier(e)'
    <3>0. OneCarrier(e)
      BY <1>0, <2>2 DEF KeyInv, Firm
    <3>1. \A q \in Proc : Carries(q, e)' => q # p /\ Carries(q, e)
      BY <1>1, <1>2, <2>2 DEF Carries
    <3>2. CASE e = own
      <4>1. Sent(e) = {} /\ events[e] # "none" /\ \A q \in Proc : Carries(q, e) => q = p
        BY <1>0, <3>0, <3>2 DEF OneCarrier
      <4>2. Sent(e)' = {d0}
        BY <1>4, <3>2, <4>1 DEF Sent
      <4> QED BY <1>0, <3>0, <3>1, <4>1, <4>2 DEF OneCarrier
    <3>3. CASE e # own
      <4>1. Sent(e)' = Sent(e)
        BY <1>4, <3>3 DEF Sent
      <4> QED BY <1>0, <3>0, <3>1, <4>1 DEF OneCarrier
    <3> QED BY <3>2, <3>3
  <2> QED BY <2>1, <2>2 DEF KeyInv
<1> QED BY <1>3, <1>4 DEF RunInject

\* A lease that runs out ends what is said of its key.
LEMMA KeyLapses ==
  ASSUME TypeOK, KeyInv, NEW x \in Keys, LeaseExpires(x)
  PROVE  KeyInv'
<1>0. dispatched' = dispatched /\ proc' = proc /\ lapses[x] \in Nat
  BY DEF LeaseExpires, TypeOK, Keys
<1>1. /\ ~Firm(x)'
      /\ \A e \in Keys : e # x => lapses'[e] = lapses[e] /\ events'[e] = events[e]
  BY <1>0 DEF LeaseExpires, TypeOK, Keys, Firm
<1>2. Renewals'
  <2>1. \A p \in Proc : At(p, "run.renew") => <<proc[p].job, proc[p].key>> \in Keys
    BY Fields DEF KeyInv, Renewals, TypeOK, At, Working, Place, Keys
  <2> QED BY <1>0, <1>1, <2>1 DEF KeyInv, Renewals, At, Firm
<1>3. ASSUME NEW e \in Keys, Firm(e)' PROVE OneCarrier(e)'
  <2>1. e # x /\ OneCarrier(e)
    BY <1>1, <1>3 DEF KeyInv, Firm
  <2> QED BY <1>0, <1>1, <2>1 DEF OneCarrier, Carries, Sent
<1> QED BY <1>2, <1>3 DEF KeyInv

LEMMA KeyInvariant == Spec => []KeyInv
<1>1. Init => KeyInv
  BY DEF Init, KeyInv, Renewals, OneCarrier, Firm, Carries, Sent, Keys, At, Idle
<1>2. TypeOK /\ KeyInv /\ [Next]_vars => KeyInv'
  <2> SUFFICES ASSUME TypeOK, KeyInv, [Next]_vars PROVE KeyInv'
    OBVIOUS
  <2>1. ASSUME NEW p \in Proc, Step(p) PROVE KeyInv'
    <3>1. CASE RunReserve(p) \/ RunRenew(p) \/ RunClaim(p) \/ RunCancel(p) \/ RunInject(p)
               \/ RunSettle(p)
      BY <3>1, KeyReserved, KeyRenewed, KeyGoesOn, KeyInjected
    <3>2. CASE ~(RunReserve(p) \/ RunRenew(p) \/ RunClaim(p) \/ RunCancel(p)
                   \/ RunInject(p) \/ RunSettle(p))
      <4>1. \A e \in Keys : ~Carries(p, e)'
        BY <2>1, <3>2, ElsewherePlaces DEF Carries
      <4> QED BY <2>1, <3>2, <4>1, ElsewherePlaces, KeyQuiet
    <3> QED BY <3>1, <3>2
  <2>2. CASE UNCHANGED vars
    BY <2>2 DEF vars, KeyInv, Renewals, OneCarrier, Firm, Carries, Sent, At
  <2> QED BY <2>1, <2>2, KeyRequest, KeyLapses DEF Next, Keys
<1> QED BY <1>1, <1>2, TypeCorrect, PTL DEF Spec

\* Under one idempotency key a prompt is injected once, however many requests
\* retry it and whatever fails, as long as no lease of the key has run out
\* (run of job-service.ts).
THEOREM KeyedRunOnceHolds == Spec => []KeyedRunOnce
<1>1. ASSUME KeyInv PROVE KeyedRunOnce
  <2> SUFFICES ASSUME NEW j \in Job, NEW k \in RunKey, lapses[<<j, k>>] = 0
               PROVE  Cardinality(Injected(j, k)) <= 1
    BY DEF KeyedRunOnce
  <2>1. \A c, d \in Injected(j, k) : c = d
    BY <1>1 DEF KeyInv, Keys, Firm, OneCarrier, Sent, Injected
  <2>2. Injected(j, k) = {} \/ \E d : Injected(j, k) = {d}
    BY <2>1
  <2>3. CASE Injected(j, k) = {}
    BY <2>3, FS_EmptySet
  <2>4. ASSUME NEW d, Injected(j, k) = {d}
        PROVE  Cardinality(Injected(j, k)) <= 1
    <3>1. Cardinality({d}) = 1
      BY FS_Singleton
    <3> QED BY <2>4, <3>1
  <2> QED BY <2>2, <2>3, <2>4
<1> QED BY <1>1, KeyInvariant, PTL
-----------------------------------------------------------------------------
(***************************************************************************)
(* An active job keeps an alarm.  Most of the invariant says who may       *)
(* cancel which alarm; every step is then summed up by what it does to the *)
(* alarms, to the rows and to what its execution knows (Stepped), and the  *)
(* invariant is shown to survive any such step, as long as what happened   *)
(* is calm: no more than one fault, and nothing that leaves an active row   *)
(* with a dead alarm.                                                      *)
(***************************************************************************)
Calm == ~drifted /\ faults <= 1 /\ crashes = 0

\* Alarm n is live and calls back for j.
Calls(n, j) == \E a \in alarms : a.id = n /\ a.job = j

\* No row has the alarm n, and nobody has read it in one.
Fresh(n) ==
  /\ \A j \in Job : rows[j].schedule # n
  /\ \A q \in Proc : proc[q].row.schedule # n

\* Alarms are numbered, and an execution has its alarm from nobody else.
Numbered ==
  /\ \A a \in alarms : a.id # 0 /\ a.id <= lastAlarm
  /\ \A j \in Job : rows[j].schedule <= lastAlarm
  /\ \A p \in Proc : proc[p].row.schedule <= lastAlarm /\ proc[p].alarm <= lastAlarm
  /\ \A p, q \in Proc : proc[p].alarm = proc[q].alarm /\ proc[p].alarm # 0 => p = q

\* An alarm is that of one job, and so are the rows and executions it is in.
Belonging ==
  \A a \in alarms :
    /\ \A j \in Job : rows[j].schedule = a.id => a.job = j
    /\ \A p \in Proc : proc[p].row.schedule = a.id \/ proc[p].alarm = a.id => a.job = proc[p].job

\* The execution is about to write the alarm it made, or to cancel it.
Writes(p) ==
  /\ proc[p].alarm # 0
  /\ proc[p].at \in {"create.record", "update.write", "resume.write", "restore.record"}
Undoes(p) ==
  /\ proc[p].alarm # 0
  /\ proc[p].at \in {"update.undo", "resume.undo"}

\* Until it is written nobody else knows the alarm, so nobody cancels it.
Holding ==
  \A p \in Proc :
    /\ Writes(p) => Fresh(proc[p].alarm) /\ Calls(proc[p].alarm, proc[p].job)
    /\ Undoes(p) => Fresh(proc[p].alarm)

Compensating == {"create.cancel", "create.erase", "update.undo", "update.retry", "resume.undo",
                 "restore.schedule", "restore.record"}

\* A compensation runs after a failure; what is about to be written as active
\* has a new alarm.
Sound(p) ==
  /\ proc[p].at \in Compensating => faults # 0
  /\ proc[p].at \in {"create.record", "resume.write", "restore.record"} => proc[p].alarm # 0
  /\ proc[p].at = "update.write" /\ proc[p].alarm = 0 =>
       UpdatedStatus(proc[p].row, proc[p].limit) # "active"

\* The alarm of the row it has read is no longer the alarm of an active row.
Overtaken(p) ==
  \/ proc[p].at \in {"update.retire", "update.retry", "run.cancel"}
  \/ proc[p].row.status # "active"
Replaced(p) ==
  Overtaken(p) /\ proc[p].job \in Job /\ proc[p].row.schedule # 0 =>
    ~(rows[proc[p].job].status = "active" /\ rows[proc[p].job].schedule = proc[p].row.schedule)

\* Who answers for an active job that has no alarm in its row: an execution
\* that will make one or end the job, or that has one which is not written.
Waits(p, j) ==
  /\ proc[p].job = j
  /\ \/ proc[p].at \in {"create.erase", "pause.write", "restore.schedule"}
     \/ proc[p].at = "create.schedule" /\ rows[j].schedule = 0
     \/ proc[p].at = "delete.erase" /\ proc[p].row.status = "active"

Keeps(p, j) ==
  /\ proc[p].job = j /\ Calls(proc[p].alarm, j)
  /\ \/ proc[p].at = "restore.record"
     \/ proc[p].at = "create.record" /\ rows[j].schedule = 0
     \/ proc[p].at = "create.cancel" /\ rows[j].schedule = 0 /\ Fresh(proc[p].alarm)

Answers(p, j) == Waits(p, j) \/ Keeps(p, j)

Ticking ==
  \A j \in ActiveJobs : Calls(rows[j].schedule, j) \/ \E p \in Proc : Answers(p, j)

TickInv ==
  /\ TypeOK /\ Numbered /\ Belonging /\ Holding /\ Ticking
  /\ \A p \in Proc : Sound(p) /\ Replaced(p)

\* What a step of p does to the alarms: a new one is p's, or nobody knows it;
\* one that is cancelled p had made, or had read in a row.
AlarmsStep(p) ==
  /\ lastAlarm' \in {lastAlarm, lastAlarm + 1}
  /\ \A a \in alarms' \ alarms :
       /\ a.id = lastAlarm + 1 /\ lastAlarm' = lastAlarm + 1
       /\ a.job = proc'[p].job \/ proc'[p].alarm # a.id
  /\ \A a \in alarms \ alarms' :
       \/ a.id = proc[p].row.schedule /\ (Overtaken(p) \/ Waits(p, a.job)')
       \/ a.id = proc[p].alarm /\ (Undoes(p) \/ Waits(p, a.job)')

\* What it does to the rows: a row keeps its alarm, loses it, or gets p's.
RowsStep(p) ==
  \A j \in Job :
    \/ /\ rows'[j].schedule = rows[j].schedule
       /\ rows'[j].status = "active" => rows[j].status = "active"
    \/ /\ rows'[j].schedule = 0
       /\ rows'[j].status = "active" => Waits(p, j)'
    \/ /\ Writes(p) /\ j = proc[p].job /\ rows'[j].schedule = proc[p].alarm
       /\ alarms' = alarms

\* What it does to p: the row it knows is the same or just read, its alarm is
\* the same or just made.
ProcStep(p) ==
  /\ \A q \in Proc : q # p => proc'[q] = proc[q]
  /\ \/ proc'[p].row.schedule = 0
     \/ proc'[p].row = proc[p].row /\ proc'[p].job = proc[p].job
     \/ proc'[p].job \in Job /\ proc'[p].row = rows[proc'[p].job] /\ rows' = rows
  /\ \/ proc'[p].alarm = 0
     \/ proc'[p].alarm = proc[p].alarm /\ proc'[p].job = proc[p].job
     \/ proc'[p].alarm = lastAlarm + 1 /\ lastAlarm' = lastAlarm + 1
  /\ Writes(p)' =>
       /\ proc'[p].alarm = lastAlarm + 1 /\ lastAlarm' = lastAlarm + 1
       /\ \E a \in alarms' : a.id = lastAlarm + 1 /\ a.job = proc'[p].job
  /\ Undoes(p)' => Writes(p) /\ rows' = rows /\ proc'[p].row = proc[p].row
                     /\ proc'[p].alarm = proc[p].alarm
  /\ Sound(p)'
  /\ \/ Replaced(p)'
     \/ Overtaken(p) /\ proc'[p].row = proc[p].row /\ proc'[p].job = proc[p].job

\* Who answers for a job goes on to answer for it, or ends or arms it.
AnswerStep(p) ==
  \A j \in Job :
    /\ rows[j].status = "active" /\ rows'[j].status = "active"
    /\ rows'[j].schedule = rows[j].schedule
    /\ Answers(p, j)
    => Answers(p, j)'

Stepped(p) ==
  /\ AlarmsStep(p) /\ RowsStep(p) /\ ProcStep(p) /\ AnswerStep(p)
  /\ faults # 0 => faults' # 0
-----------------------------------------------------------------------------
\* The facts about the fields that the comparisons of numbers need.
LEMMA TickTypes ==
  ASSUME TypeOK
  PROVE  /\ lastAlarm \in Nat /\ \A a \in alarms : a.id \in Nat /\ a.job \in Job
         /\ \A j \in Job : rows[j].schedule \in Nat
         /\ \A p \in Proc : proc[p].row.schedule \in Nat /\ proc[p].alarm \in Nat
BY Fields, RowFields DEF TypeOK, Alarm

LEMMA NumberedKept ==
  ASSUME TickInv, NEW p \in Proc, Stepped(p), TypeOK'
  PROVE  Numbered'
<1>1. /\ lastAlarm \in Nat /\ lastAlarm' \in Nat /\ lastAlarm <= lastAlarm'
  BY DEF TickInv, TypeOK, Stepped, AlarmsStep
<1>2. \A a \in alarms' : a.id # 0 /\ a.id <= lastAlarm'
  BY <1>1, TickTypes DEF TickInv, Numbered, Stepped, AlarmsStep
<1>3. \A j \in Job : rows'[j].schedule <= lastAlarm'
  <2>1. \A j \in Job : rows'[j].schedule \in {rows[j].schedule, 0, proc[p].alarm}
    BY DEF Stepped, RowsStep
  <2>2. proc[p].alarm <= lastAlarm /\ \A j \in Job : rows[j].schedule <= lastAlarm
    BY DEF TickInv, Numbered
  <2> QED BY <1>1, <2>1, <2>2, TickTypes DEF TickInv
<1>4. \A q \in Proc : proc'[q].row.schedule <= lastAlarm' /\ proc'[q].alarm <= lastAlarm'
  <2>1. proc'[p].row.schedule = 0 \/ proc'[p].row.schedule = proc[p].row.schedule
          \/ \E j \in Job : proc'[p].row.schedule = rows[j].schedule
    BY DEF Stepped, ProcStep
  <2>2. proc'[p].alarm \in {0, proc[p].alarm} \/ proc'[p].alarm = lastAlarm'
    BY DEF Stepped, ProcStep
  <2>3. \A q \in Proc : q # p => proc'[q] = proc[q]
    BY DEF Stepped, ProcStep
  <2>4. /\ \A j \in Job : rows[j].schedule <= lastAlarm
        /\ \A q \in Proc : proc[q].row.schedule <= lastAlarm /\ proc[q].alarm <= lastAlarm
    BY DEF TickInv, Numbered
  <2>5. proc'[p].row.schedule <= lastAlarm' /\ proc'[p].alarm <= lastAlarm'
    BY <1>1, <2>1, <2>2, <2>4, TickTypes DEF TickInv
  <2> QED BY <1>1, <2>3, <2>4, <2>5, TickTypes DEF TickInv
<1>5. \A q, r \in Proc : proc'[q].alarm = proc'[r].alarm /\ proc'[q].alarm # 0 => q = r
  <2>1. \A q \in Proc : q # p => proc'[q] = proc[q] /\ proc[q].alarm <= lastAlarm
    BY DEF Stepped, ProcStep, TickInv, Numbered
  <2>2. \/ proc'[p].alarm \in {0, proc[p].alarm}
        \/ proc'[p].alarm = lastAlarm + 1
    BY DEF Stepped, ProcStep
  <2>3. \A q, r \in Proc : proc[q].alarm = proc[r].alarm /\ proc[q].alarm # 0 => q = r
    BY DEF TickInv, Numbered
  <2>4. \A q \in Proc : proc[q].alarm \in Nat
    BY TickTypes DEF TickInv
  <2>5. \A q \in Proc : q # p => proc'[q].alarm # proc'[p].alarm \/ proc'[p].alarm = 0
    BY <1>1, <2>1, <2>2, <2>3, <2>4
  <2> QED BY <2>1, <2>3, <2>5
<1> QED BY <1>2, <1>3, <1>4, <1>5 DEF Numbered

LEMMA BelongingKept ==
  ASSUME TickInv, NEW p \in Proc, Stepped(p), TypeOK'
  PROVE  Belonging'
<1> SUFFICES ASSUME NEW a \in alarms'
             PROVE  /\ \A j \in Job : rows'[j].schedule = a.id => a.job = j
                    /\ \A q \in Proc : proc'[q].row.schedule = a.id \/ proc'[q].alarm = a.id
                                         => a.job = proc'[q].job
  BY DEF Belonging
<1>0. /\ lastAlarm \in Nat /\ \A j \in Job : rows[j].schedule \in Nat
      /\ \A q \in Proc : proc[q].row.schedule \in Nat /\ proc[q].alarm \in Nat
      /\ \A j \in Job : rows[j].schedule <= lastAlarm
      /\ \A q \in Proc : proc[q].row.schedule <= lastAlarm /\ proc[q].alarm <= lastAlarm
  BY TickTypes DEF TickInv, Numbered
<1>1. /\ \A q \in Proc : q # p => proc'[q] = proc[q]
      /\ \/ proc'[p].row.schedule = 0
         \/ proc'[p].row = proc[p].row /\ proc'[p].job = proc[p].job
         \/ proc'[p].job \in Job /\ proc'[p].row = rows[proc'[p].job]
      /\ \/ proc'[p].alarm = 0
         \/ proc'[p].alarm = proc[p].alarm /\ proc'[p].job = proc[p].job
         \/ proc'[p].alarm = lastAlarm + 1
  BY DEF Stepped, ProcStep
<1>2. \A j \in Job : \/ rows'[j].schedule \in {rows[j].schedule, 0}
                     \/ j = proc[p].job /\ rows'[j].schedule = proc[p].alarm
  BY DEF Stepped, RowsStep
<1>3. CASE a \in alarms
  <2>1. /\ a.id \in Nat /\ a.id # 0 /\ a.id <= lastAlarm
        /\ \A j \in Job : rows[j].schedule = a.id => a.job = j
        /\ \A q \in Proc : proc[q].row.schedule = a.id \/ proc[q].alarm = a.id => a.job = proc[q].job
    BY <1>3, TickTypes DEF TickInv, Numbered, Belonging
  <2>2. \A j \in Job : rows'[j].schedule = a.id => a.job = j
    BY <1>2, <2>1
  <2>3. proc'[p].row.schedule = a.id => a.job = proc'[p].job
    BY <1>1, <2>1
  <2>4. proc'[p].alarm = a.id => a.job = proc'[p].job
    BY <1>0, <1>1, <2>1
  <2> QED BY <1>1, <2>1, <2>2, <2>3, <2>4
<1>4. CASE a \notin alarms
  <2>1. a.id = lastAlarm + 1 /\ (proc'[p].alarm = a.id => a.job = proc'[p].job)
    BY <1>4 DEF Stepped, AlarmsStep
  <2>2. \A j \in Job : rows'[j].schedule # a.id
    BY <1>0, <1>2, <2>1
  <2>3. proc'[p].row.schedule # a.id
    BY <1>0, <1>1, <2>1
  <2>4. \A q \in Proc : q # p => proc'[q].row.schedule # a.id /\ proc'[q].alarm # a.id
    BY <1>0, <1>1, <2>1
  <2> QED BY <2>1, <2>2, <2>3, <2>4
<1> QED BY <1>3, <1>4

\* An alarm that an execution other than p holds unwritten is neither read nor
\* cancelled by a step of p.
LEMMA FreshKept ==
  ASSUME TickInv, NEW p \in Proc, Stepped(p), NEW n \in Nat \ {0},
         Fresh(n), n # proc[p].alarm
  PROVE  Fresh(n)' /\ \A j \in Job : Calls(n, j) => Calls(n, j)'
<1>1. \A j \in Job : rows'[j].schedule # n
  BY DEF Stepped, RowsStep, Fresh
<1>2. proc'[p].row.schedule # n
  BY DEF Stepped, ProcStep, Fresh
<1>3. \A q \in Proc : proc'[q].row.schedule # n
  BY <1>2 DEF Stepped, ProcStep, Fresh
<1>4. \A a \in alarms : a.id = n => a \in alarms'
  BY DEF Stepped, AlarmsStep, Fresh
<1> QED BY <1>1, <1>3, <1>4 DEF Fresh, Calls

LEMMA HoldingKept ==
  ASSUME TickInv, NEW p \in Proc, Stepped(p), TypeOK'
  PROVE  Holding'
<1> SUFFICES ASSUME NEW q \in Proc
             PROVE  /\ Writes(q)' => Fresh(proc[q].alarm)' /\ Calls(proc[q].alarm, proc[q].job)'
                    /\ Undoes(q)' => Fresh(proc[q].alarm)'
  BY DEF Holding
<1>0. /\ proc[p].alarm \in Nat /\ proc[q].alarm \in Nat /\ proc'[p].alarm \in Nat
      /\ proc'[q].job \in Job \/ ~Writes(q)'
  <2>1. proc'[p].alarm \in Nat /\ proc[p].alarm \in Nat /\ proc[q].alarm \in Nat
    BY Fields, TickTypes DEF TickInv, TypeOK, Execution
  <2>2. Writes(q)' => proc'[q].at \in Working
    BY DEF Writes, Working, Place
  <2> QED BY <2>1, <2>2 DEF TypeOK
<1>1. CASE q # p
  <2>1. proc'[q] = proc[q]
    BY <1>1 DEF Stepped, ProcStep
  <2>2. Writes(q)' = Writes(q) /\ Undoes(q)' = Undoes(q)
    BY <2>1 DEF Writes, Undoes
  <2>3. ASSUME Writes(q) \/ Undoes(q)
        PROVE  /\ Fresh(proc[q].alarm)'
               /\ \A j \in Job : Calls(proc[q].alarm, j) => Calls(proc[q].alarm, j)'
    <3>1. proc[q].alarm # 0 /\ proc[q].alarm # proc[p].alarm
      BY <1>1, <2>3 DEF Writes, Undoes, TickInv, Numbered
    <3>2. Fresh(proc[q].alarm)
      BY <2>3 DEF TickInv, Holding
    <3> DEFINE n == proc[q].alarm
    <3>3. n \in Nat \ {0} /\ n # proc[p].alarm /\ Fresh(n) /\ n' = n
      BY <1>0, <2>1, <3>1, <3>2
    <3> HIDE DEF n
    <3>4. Fresh(n)' /\ \A j \in Job : Calls(n, j) => Calls(n, j)'
      BY <3>3, FreshKept
    <3> QED BY <3>4, <3>3 DEF n, Fresh, Calls
  <2>4. Writes(q) => Calls(proc[q].alarm, proc[q].job) /\ proc[q].job \in Job
    BY <1>0, <2>1, <2>2 DEF TickInv, Holding
  <2>5. Writes(q) => Calls(proc[q].alarm, proc[q].job)'
    BY <2>1, <2>3, <2>4 DEF Calls
  <2> QED BY <2>2, <2>3, <2>5
<1>2. CASE q = p
  <2>1. ASSUME Writes(p)' PROVE Fresh(proc[p].alarm)' /\ Calls(proc[p].alarm, proc[p].job)'
    <3>1. /\ proc'[p].alarm = lastAlarm + 1 /\ lastAlarm' = lastAlarm + 1
          /\ \E a \in alarms' : a.id = lastAlarm + 1 /\ a.job = proc'[p].job
      BY <2>1 DEF Stepped, ProcStep
    <3>2. lastAlarm \in Nat /\ \A j \in Job : rows[j].schedule \in Nat
      BY TickTypes DEF TickInv
    <3>3. \A j \in Job : rows[j].schedule <= lastAlarm
      BY DEF TickInv, Numbered
    <3>4. proc[p].alarm <= lastAlarm
      BY DEF TickInv, Numbered
    <3>5. \A j \in Job : rows'[j].schedule # lastAlarm + 1
      BY <1>0, <3>2, <3>3, <3>4 DEF Stepped, RowsStep
    <3>6. \A r \in Proc : proc[r].row.schedule <= lastAlarm /\ proc[r].row.schedule \in Nat
      BY TickTypes DEF TickInv, Numbered
    <3>7. proc'[p].row.schedule # lastAlarm + 1
      BY <3>2, <3>3, <3>6 DEF Stepped, ProcStep
    <3>8. \A r \in Proc : proc'[r].row.schedule # lastAlarm + 1
      BY <3>2, <3>6, <3>7 DEF Stepped, ProcStep
    <3> QED BY <3>1, <3>5, <3>8 DEF Fresh, Calls
  <2>2. ASSUME Undoes(p)' PROVE Fresh(proc[p].alarm)'
    <3>1. Writes(p) /\ rows' = rows /\ proc'[p].row = proc[p].row /\ proc'[p].alarm = proc[p].alarm
      BY <2>2 DEF Stepped, ProcStep
    <3>2. Fresh(proc[p].alarm)
      BY <3>1 DEF TickInv, Holding
    <3>3. \A r \in Proc : proc'[r].row = proc[r].row
      BY <3>1 DEF Stepped, ProcStep
    <3> QED BY <3>1, <3>2, <3>3 DEF Fresh
  <2> QED BY <1>2, <2>1, <2>2
<1> QED BY <1>1, <1>2

LEMMA ReplacedKept ==
  ASSUME TickInv, NEW p \in Proc, Stepped(p), TypeOK', NEW q \in Proc
  PROVE  Replaced(q)'
<1>1. ASSUME Overtaken(q), proc'[q].row = proc[q].row, proc'[q].job = proc[q].job
      PROVE  Replaced(q)'
  <2> SUFFICES ASSUME NEW j \in Job, proc[q].job = j, proc[q].row.schedule # 0,
                      rows'[j].status = "active", rows'[j].schedule = proc[q].row.schedule
               PROVE  FALSE
    BY <1>1 DEF Replaced
  <2>1. ~(rows[j].status = "active" /\ rows[j].schedule = proc[q].row.schedule)
    BY <1>1 DEF TickInv, Replaced
  <2>2. Writes(p) /\ rows'[j].schedule = proc[p].alarm
    BY <2>1 DEF Stepped, RowsStep
  <2> QED BY <2>2 DEF TickInv, Holding, Fresh
<1>2. CASE q = p
  BY <1>1, <1>2 DEF Stepped, ProcStep
<1>3. CASE q # p
  <2>1. proc'[q] = proc[q]
    BY <1>3 DEF Stepped, ProcStep
  <2>2. CASE Overtaken(q)
    BY <1>1, <2>1, <2>2
  <2>3. CASE ~Overtaken(q)
    BY <2>1, <2>3 DEF Overtaken, Replaced
  <2> QED BY <2>2, <2>3
<1> QED BY <1>2, <1>3

\* What another execution answers for it goes on answering for, unless the row
\* gets an alarm.
LEMMA OthersAnswer ==
  ASSUME TickInv, NEW p \in Proc, Stepped(p), NEW q \in Proc, q # p, NEW j \in Job,
         rows'[j].schedule = rows[j].schedule, Answers(q, j)
  PROVE  Answers(q, j)'
<1>1. proc'[q] = proc[q]
  BY DEF Stepped, ProcStep
<1>2. CASE Waits(q, j)
  BY <1>1, <1>2 DEF Waits, Answers
<1>3. CASE Keeps(q, j)
  <2> DEFINE n == proc[q].alarm
  <2>1. n \in Nat \ {0} /\ Calls(n, j)
    BY <1>3, TickTypes DEF TickInv, Numbered, Keeps, Calls
  <2>2. n # proc[p].alarm
    BY <2>1 DEF TickInv, Numbered
  <2>3. Fresh(n)
    BY <1>3, <2>1 DEF Keeps, TickInv, Holding, Writes
  <2>4. n' = n
    BY <1>1
  <2> HIDE DEF n
  <2>5. Fresh(n)' /\ Calls(n, j)'
    <3>1. Fresh(n)' /\ \A i \in Job : Calls(n, i) => Calls(n, i)'
      BY <2>1, <2>2, <2>3, <2>4, FreshKept
    <3> QED BY <2>1, <2>4, <3>1 DEF Calls
  <2>6. Fresh(proc[q].alarm)' /\ Calls(proc[q].alarm, j)'
    BY <2>4, <2>5 DEF n, Fresh, Calls
  <2> QED BY <1>1, <1>3, <2>6 DEF Keeps, Answers
<1> QED BY <1>2, <1>3 DEF Answers

LEMMA TickingKept ==
  ASSUME TickInv, NEW p \in Proc, Stepped(p)
  PROVE  Ticking'
<1> SUFFICES ASSUME NEW j \in Job, rows'[j].status = "active"
             PROVE  Calls(rows[j].schedule, j)' \/ \E q \in Proc : Answers(q, j)'
  BY DEF Ticking, ActiveJobs
<1>1. CASE rows'[j].schedule = rows[j].schedule /\ rows[j].status = "active"
  <2>1. CASE \E q \in Proc : Answers(q, j)
    <3>1. PICK q \in Proc : Answers(q, j)
      BY <2>1
    <3>2. CASE q = p
      BY <1>1, <3>1, <3>2 DEF Stepped, AnswerStep
    <3>3. CASE q # p
      BY <1>1, <3>1, <3>3, OthersAnswer
    <3> QED BY <3>2, <3>3
  <2>2. CASE Calls(rows[j].schedule, j)
    <3>1. PICK a \in alarms : a.id = rows[j].schedule /\ a.job = j
      BY <2>2 DEF Calls
    <3>2. CASE a \in alarms'
      BY <1>1, <3>1, <3>2 DEF Calls
    <3>3. CASE a \notin alarms' /\ a.id = proc[p].row.schedule
      <4>1. proc[p].job = j
        BY <3>1, <3>3 DEF TickInv, Belonging
      <4>2. a.id # 0
        BY DEF TickInv, Numbered
      <4>3. ~Overtaken(p)
        BY <1>1, <3>1, <3>3, <4>1, <4>2 DEF TickInv, Replaced
      <4>4. Waits(p, j)' \/ (a.id = proc[p].alarm /\ Undoes(p))
        BY <3>1, <3>3, <4>3 DEF Stepped, AlarmsStep
      <4>5. ~(a.id = proc[p].alarm /\ Undoes(p))
        BY <3>1 DEF TickInv, Holding, Fresh
      <4> QED BY <4>4, <4>5 DEF Answers
    <3>4. CASE a \notin alarms' /\ a.id # proc[p].row.schedule
      <4>1. a.id = proc[p].alarm /\ (Undoes(p) \/ Waits(p, j)')
        BY <3>1, <3>4 DEF Stepped, AlarmsStep
      <4>2. ~Undoes(p)
        BY <3>1, <4>1 DEF TickInv, Holding, Fresh
      <4> QED BY <4>1, <4>2 DEF Answers
    <3> QED BY <3>2, <3>3, <3>4
  <2> QED BY <1>1, <2>1, <2>2 DEF TickInv, Ticking, ActiveJobs
<1>2. CASE rows'[j].schedule = 0 /\ Waits(p, j)'
  BY <1>2 DEF Answers
<1>3. CASE Writes(p) /\ j = proc[p].job /\ rows'[j].schedule = proc[p].alarm /\ alarms' = alarms
  BY <1>3 DEF TickInv, Holding, Calls
<1> QED BY <1>1, <1>2, <1>3 DEF Stepped, RowsStep

LEMMA TickInvKept ==
  ASSUME TickInv, NEW p \in Proc, Stepped(p), TypeOK'
  PROVE  TickInv'
<1>1. \A q \in Proc : Sound(q)'
  <2>1. ASSUME NEW q \in Proc, q # p PROVE Sound(q)'
    BY <2>1 DEF TickInv, Stepped, ProcStep, Sound
  <2> QED BY <2>1 DEF Stepped, ProcStep
<1> QED BY <1>1, NumberedKept, BelongingKept, HoldingKept, ReplacedKept, TickingKept DEF TickInv
-----------------------------------------------------------------------------
(* The steps of an execution, part by part.                                   *)

LEMMA EndedProc ==
  ASSUME TypeOK, NEW p \in Proc, Done(p)
  PROVE  ProcStep(p)
<1>1. proc'[p] = Idle /\ \A q \in Proc : q # p => proc'[q] = proc[q]
  BY DEF TypeOK, Done
<1>2. proc'[p].row.schedule = 0 /\ proc'[p].alarm = 0 /\ proc'[p].at = "idle"
  BY <1>1 DEF Idle, NoRow
<1>3. ~Writes(p)' /\ ~Undoes(p)' /\ Sound(p)' /\ Replaced(p)'
  BY <1>2 DEF Writes, Undoes, Sound, Replaced, Compensating
<1> QED BY <1>1, <1>2, <1>3 DEF ProcStep

LEMMA Moves ==
  ASSUME TypeOK, NEW p \in Proc, NEW place, Goto(p, place)
  PROVE  /\ \A q \in Proc : q # p => proc'[q] = proc[q]
         /\ proc'[p].at = place /\ proc'[p].job = proc[p].job /\ proc'[p].row = proc[p].row
         /\ proc'[p].alarm = proc[p].alarm /\ proc'[p].limit = proc[p].limit
BY DEF TypeOK, Goto, Execution

LEMMA MovedProc ==
  ASSUME TypeOK, NEW p \in Proc, NEW place, Goto(p, place),
         place \notin {"create.record", "update.write", "resume.write", "restore.record"},
         place \in Compensating => faults' # 0,
         place \in {"update.undo", "resume.undo"} => Writes(p) /\ rows' = rows,
         place \in {"update.retire", "update.retry", "run.cancel"} => Overtaken(p) \/ Replaced(p)'
  PROVE  ProcStep(p)
<1>1. ~Writes(p)' /\ Sound(p)'
  BY Moves DEF Writes, Sound
<1>2. Undoes(p)' => Writes(p) /\ rows' = rows
  BY Moves DEF Undoes
<1>3. Overtaken(p) \/ Replaced(p)'
  BY Moves DEF Overtaken, Replaced
<1> QED BY <1>1, <1>2, <1>3, Moves DEF ProcStep

LEMMA BegunProc ==
  ASSUME TypeOK, NEW p \in Proc, NEW r, Begin(p, r), r.alarm = 0, rows' = rows,
         r.row.schedule = 0 \/ (r.job \in Job /\ r.row = rows[r.job]),
         r.at \notin Compensating \cup {"create.record", "resume.write", "update.retire",
                                        "run.cancel"},
         r.at = "update.write" => UpdatedStatus(r.row, r.limit) # "active"
  PROVE  ProcStep(p)
<1>1. proc'[p] = r /\ \A q \in Proc : q # p => proc'[q] = proc[q]
  BY DEF TypeOK, Begin
<1>2. ~Writes(p)' /\ ~Undoes(p)'
  BY <1>1 DEF Writes, Undoes
<1>3. Sound(p)'
  BY <1>1 DEF Sound, UpdatedStatus, Compensating
<1>4. Replaced(p)'
  BY <1>1 DEF Replaced, Overtaken, Compensating
<1> QED BY <1>1, <1>2, <1>3, <1>4 DEF ProcStep

\* The alarms of a step that makes or cancels none.
LEMMA ClockSame == ASSUME lastAlarm \in Nat, UNCHANGED clock, NEW p PROVE AlarmsStep(p)
BY DEF clock, AlarmsStep

LEMMA RowsSameStep == ASSUME rows' = rows, NEW p PROVE RowsStep(p)
BY DEF RowsStep

\* The places from which an execution answers for a job.
Answering == {"create.schedule", "create.record", "create.cancel", "create.erase", "pause.write",
              "restore.schedule", "restore.record", "delete.erase"}

LEMMA Silent == ASSUME NEW p, proc[p].at \notin Answering PROVE AnswerStep(p)
BY DEF AnswerStep, Answers, Waits, Keeps, Answering

LEMMA FaultCounts ==
  ASSUME TickInv, Fault \/ NoFault
  PROVE  /\ faults # 0 => faults' # 0
         /\ Fault => faults' # 0
         /\ Calm' /\ faults # 0 => ~Fault
BY DEF TickInv, TypeOK, Fault, NoFault, Calm

\* In calm, scheduling makes an alarm of its own, and no cancellation of a
\* pause, a delete or a deletion of a session is lost.
LEMMA FreshAlarm ==
  ASSUME Calm', NEW j, NEW s, NEW id, Schedule(j, s, id)
  PROVE  NewAlarm(j, s, id)
BY DEF Calm, Schedule, SameAlarm

LEMMA DriftFree ==
  ASSUME TypeOK, Calm', Drift, lastAlarm' = lastAlarm
  PROVE  UNCHANGED clock
<1>1. ~drifted' /\ drifted' = (drifted \/ alarms' # alarms)
  BY DEF Calm, Drift
<1>2. alarms' = alarms /\ drifted = FALSE /\ drifted' = FALSE
  BY <1>1 DEF TypeOK
<1> QED BY <1>2 DEF clock

\* The execution makes an alarm and will write it.
LEMMA ScheduledStep ==
  ASSUME TickInv, NEW p \in Proc, NEW s, NEW id, NewAlarm(proc[p].job, s, id), rows' = rows,
         NoFault, NEW place,
         proc' = [proc EXCEPT ![p].at = place, ![p].alarm = id],
         \/ proc[p].at = "create.schedule" /\ place = "create.record"
         \/ proc[p].at = "update.schedule" /\ place = "update.write"
         \/ proc[p].at = "resume.schedule" /\ place = "resume.write"
         \/ proc[p].at = "restore.schedule" /\ place = "restore.record"
  PROVE  Stepped(p)
<1>0. lastAlarm \in Nat
  BY DEF TickInv, TypeOK
<1>1. /\ lastAlarm' = lastAlarm + 1 /\ lastAlarm' # 0 /\ id = lastAlarm'
      /\ alarms' = alarms \cup {[id |-> lastAlarm + 1, job |-> proc[p].job, session |-> s]}
  BY <1>0 DEF NewAlarm
<1>2. /\ \A q \in Proc : q # p => proc'[q] = proc[q]
      /\ proc'[p].at = place /\ proc'[p].job = proc[p].job /\ proc'[p].row = proc[p].row
      /\ proc'[p].alarm = lastAlarm'
  BY <1>1 DEF TickInv, TypeOK, Execution
<1>3. AlarmsStep(p)
  BY <1>1, <1>2 DEF AlarmsStep
<1>4. \E a \in alarms' : a.id = lastAlarm + 1 /\ a.job = proc'[p].job
  <2> DEFINE new == [id |-> lastAlarm + 1, job |-> proc[p].job, session |-> s]
  <2>1. new \in alarms'
    BY <1>1
  <2>2. new.id = lastAlarm + 1 /\ new.job = proc'[p].job
    BY <1>2
  <2> HIDE DEF new
  <2> QED BY <2>1, <2>2
<1>5. Sound(p)'
  <2>1. proc[p].at = "restore.schedule" => faults # 0
    BY DEF TickInv, Sound, Compensating
  <2>2. faults' = faults
    BY DEF NoFault
  <2> QED BY <1>1, <1>2, <2>1, <2>2 DEF Sound, Compensating
<1>6. ~Undoes(p)'
  BY <1>2 DEF Undoes
<1>7. Overtaken(p) \/ Replaced(p)'
  BY <1>2 DEF Overtaken, Replaced
<1>8. ProcStep(p)
  BY <1>1, <1>2, <1>4, <1>5, <1>6, <1>7 DEF ProcStep
<1>9. AnswerStep(p)
  <2> SUFFICES ASSUME NEW j \in Job, Answers(p, j) PROVE Answers(p, j)'
    BY DEF AnswerStep
  <2>1. /\ proc[p].job = j
        /\ \/ proc[p].at = "create.schedule" /\ rows[j].schedule = 0
           \/ proc[p].at = "restore.schedule"
    BY DEF Answers, Waits, Keeps
  <2>2. Calls(proc[p].alarm, j)'
    BY <1>1, <1>2, <1>4, <2>1 DEF Calls
  <2> QED BY <1>2, <2>1, <2>2 DEF Answers, Keeps
<1> QED BY <1>3, <1>8, <1>9, RowsSameStep DEF Stepped, NoFault

\* An alarm whose call failed is known to nobody.
LEMMA OrphanAlarm ==
  ASSUME TickInv, NEW p \in Proc, NEW j, NEW s, ScheduleFails(j, s),
         proc'[p].alarm \in {0, proc[p].alarm}
  PROVE  AlarmsStep(p)
<1>1. lastAlarm \in Nat /\ proc[p].alarm \in Nat /\ proc[p].alarm <= lastAlarm
  BY TickTypes DEF TickInv, Numbered
<1>2. CASE UNCHANGED clock
  BY <1>1, <1>2, ClockSame
<1>3. CASE \E id \in 1..MaxAlarms : NewAlarm(j, s, id)
  <2>1. /\ lastAlarm' = lastAlarm + 1
        /\ alarms' = alarms \cup {[id |-> lastAlarm + 1, job |-> j, session |-> s]}
    BY <1>3 DEF NewAlarm
  <2>2. \A a \in alarms' \ alarms : a.id = lastAlarm + 1 /\ proc'[p].alarm # a.id
    BY <1>1, <2>1
  <2> QED BY <2>1, <2>2 DEF AlarmsStep
<1> QED BY <1>2, <1>3 DEF ScheduleFails

\* The execution cancels the alarm of the row it has read, or its own.
Cancelling(s, n) == alarms' \in {alarms, Without(s, n)} /\ lastAlarm' = lastAlarm

LEMMA CancelAlarms ==
  ASSUME TickInv, NEW p \in Proc, NEW s, NEW n, Cancelling(s, n),
         \/ n = proc[p].row.schedule
              /\ (Overtaken(p) \/ \A j \in Job : proc[p].job = j => Waits(p, j)')
         \/ n = proc[p].alarm
              /\ (Undoes(p) \/ \A j \in Job : proc[p].job = j => Waits(p, j)')
  PROVE  AlarmsStep(p)
<1>1. lastAlarm' = lastAlarm /\ alarms' \subseteq alarms /\ \A a \in alarms \ alarms' : a.id = n
  BY DEF Cancelling, Without
<1>2. \A a \in alarms : a.job \in Job
  BY TickTypes DEF TickInv
<1>3. ASSUME NEW a \in alarms \ alarms'
      PROVE  \/ a.id = proc[p].row.schedule /\ (Overtaken(p) \/ Waits(p, a.job)')
             \/ a.id = proc[p].alarm /\ (Undoes(p) \/ Waits(p, a.job)')
  <2>1. a.id = n /\ (n = proc[p].row.schedule \/ n = proc[p].alarm => a.job = proc[p].job)
    BY <1>1, <1>3 DEF TickInv, Belonging
  <2>2. PICK j \in Job : j = a.job
    BY <1>2, <1>3
  <2> QED BY <2>1, <2>2
<1> QED BY <1>1, <1>3 DEF AlarmsStep

\* A step that touches neither rows nor alarms, from a place that answers for
\* no job.
LEMMA QuietStepped ==
  ASSUME TickInv, NEW p \in Proc, rows' = rows, UNCHANGED clock, Fault \/ NoFault \/ UNCHANGED faults,
         ProcStep(p), proc[p].at \notin Answering
  PROVE  Stepped(p)
<1>1. AlarmsStep(p)
  BY ClockSame DEF TickInv, TypeOK
<1>2. faults # 0 => faults' # 0
  BY FaultCounts
<1> QED BY <1>1, <1>2, RowsSameStep, Silent DEF Stepped

LEMMA RequestSteps ==
  ASSUME TickInv, NEW p \in Proc, Request(p)
  PROVE  Stepped(p)
<1>0. TypeOK
  BY DEF TickInv
<1>1. ASSUME At(p, "idle"), rows' = rows, UNCHANGED clock, UNCHANGED faults, ProcStep(p)
      PROVE  Stepped(p)
  BY <1>1, QuietStepped DEF At, Answering
<1>2. ASSUME NEW j \in Job, NEW s \in Session, NEW l \in Limits, NEW k \in RunKey \cup {None},
             BeginCreate(p, j, s, l, k)
      PROVE  Stepped(p)
  <2> DEFINE r == [Idle EXCEPT !.at = "create.insert", !.job = j, !.limit = l, !.session = s, !.key = k]
  <2>1. Begin(p, r) /\ rows' = rows /\ UNCHANGED clock /\ UNCHANGED faults
    BY <1>2 DEF BeginCreate, clock
  <2>2. r.alarm = 0 /\ r.row.schedule = 0 /\ r.at = "create.insert"
    BY DEF Idle, NoRow
  <2> HIDE DEF r
  <2>3. ProcStep(p)
    BY <1>0, <2>1, <2>2, BegunProc DEF Compensating
  <2> QED BY <1>1, <2>1, <2>3 DEF Begin
<1>3. ASSUME NEW j \in Job, NEW s \in Session, NEW l \in Limits, BeginUpdate(p, j, s, l)
      PROVE  Stepped(p)
  <2> DEFINE at == IF UpdatedStatus(rows[j], l) = "active" THEN "update.schedule" ELSE "update.write"
             r == [Idle EXCEPT !.at = at, !.job = j, !.row = rows[j], !.limit = l, !.session = s]
  <2>1. Begin(p, r) /\ rows' = rows /\ UNCHANGED clock /\ UNCHANGED faults
    BY <1>3 DEF BeginUpdate, clock, store
  <2>2. r.alarm = 0 /\ r.job = j /\ r.row = rows[j] /\ r.limit = l /\ r.at = at
    BY DEF Idle
  <2> HIDE DEF r
  <2>3. ProcStep(p)
    BY <1>0, <2>1, <2>2, BegunProc DEF Compensating
  <2> QED BY <1>1, <2>1, <2>3 DEF Begin
<1>4. ASSUME NEW j \in Job, NEW at \in {"pause.cancel", "resume.schedule", "delete.cancel"},
             Begin(p, [Idle EXCEPT !.at = at, !.job = j, !.row = rows[j]]),
             UNCHANGED <<store, clock, ledger, dispatched, faults, crashes>>
      PROVE  Stepped(p)
  <2> DEFINE r == [Idle EXCEPT !.at = at, !.job = j, !.row = rows[j]]
  <2>1. Begin(p, r) /\ rows' = rows /\ UNCHANGED clock /\ UNCHANGED faults
    BY <1>4 DEF store
  <2>2. r.alarm = 0 /\ r.job = j /\ r.row = rows[j] /\ r.at = at
    BY DEF Idle
  <2> HIDE DEF r
  <2>3. ProcStep(p)
    BY <1>0, <2>1, <2>2, BegunProc DEF Compensating
  <2> QED BY <1>1, <2>1, <2>3 DEF Begin
<1>5. ASSUME NEW j \in Job, NEW k \in RunKey \cup {None}, BeginRun(p, j, k) PROVE Stepped(p)
  <2> DEFINE at == IF k = None THEN "run.claim"
                   ELSE IF events[<<j, k>>] = "none" THEN "run.reserve" ELSE "run.renew"
             r == [Idle EXCEPT !.at = at, !.job = j, !.row = rows[j], !.session = rows[j].session, !.key = k]
  <2>1. Begin(p, r) /\ rows' = rows /\ UNCHANGED clock /\ UNCHANGED faults
    BY <1>5 DEF BeginRun, clock, store
  <2>2. r.alarm = 0 /\ r.job = j /\ r.row = rows[j] /\ r.at \in {"run.claim", "run.reserve", "run.renew"}
    BY DEF Idle
  <2> HIDE DEF r
  <2>3. ProcStep(p)
    BY <1>0, <2>1, <2>2, BegunProc DEF Compensating
  <2> QED BY <1>1, <2>1, <2>3 DEF Begin
<1>6. ASSUME NEW s \in Deletable, BeginPurge(p, s) PROVE Stepped(p)
  <2> DEFINE r == [Idle EXCEPT !.at = "purge.cancel", !.session = s,
                               !.todo = {rows[j].schedule : j \in JobsOf(s)} \ {0}]
  <2>1. Begin(p, r) /\ rows' = rows /\ UNCHANGED clock /\ UNCHANGED faults
    BY <1>6 DEF BeginPurge, store
  <2>2. r.alarm = 0 /\ r.row.schedule = 0 /\ r.at = "purge.cancel"
    BY DEF Idle, NoRow
  <2> HIDE DEF r
  <2>3. ProcStep(p)
    BY <1>0, <2>1, <2>2, BegunProc DEF Compensating
  <2> QED BY <1>1, <2>1, <2>3 DEF Begin
<1> QED BY <1>2, <1>3, <1>4, <1>5, <1>6 DEF Request, BeginPause, BeginResume, BeginDelete

LEMMA AlarmFiresStep ==
  ASSUME TickInv, NEW p \in Proc, NEW a \in alarms, AlarmFires(p, a)
  PROVE  Stepped(p)
<1>1. PICK s \in {a.session, rows[a.job].session} :
        Begin(p, [Idle EXCEPT !.at = "run.claim", !.job = a.job, !.row = rows[a.job], !.session = s])
  BY DEF AlarmFires
<1> DEFINE r == [Idle EXCEPT !.at = "run.claim", !.job = a.job, !.row = rows[a.job], !.session = s]
<1>2. rows' = rows /\ UNCHANGED clock /\ UNCHANGED faults
  BY DEF AlarmFires, store, clock
<1>3. r.alarm = 0 /\ r.job = a.job /\ r.row = rows[a.job] /\ r.at = "run.claim"
  BY DEF Idle
<1>4. Begin(p, r) /\ a.job \in Job
  BY <1>1, TickTypes DEF TickInv
<1> HIDE DEF r
<1>5. ProcStep(p)
  BY <1>2, <1>3, <1>4, BegunProc DEF TickInv, Compensating
<1> QED BY <1>2, <1>4, <1>5, QuietStepped DEF Begin, At, Answering

LEMMA RunSteps ==
  ASSUME TickInv, NEW p \in Proc,
         RunReserve(p) \/ RunRenew(p) \/ RunInject(p) \/ RunSettle(p)
  PROVE  Stepped(p)
<1>0. TypeOK
  BY DEF TickInv
<1>1. rows' = rows /\ UNCHANGED clock /\ (Fault \/ NoFault)
  BY DEF RunReserve, RunRenew, RunInject, RunSettle, store, clock
<1>2. proc[p].at \notin Answering
  BY DEF RunReserve, RunRenew, RunInject, RunSettle, At, Answering
<1>3. Done(p) \/ Goto(p, "run.claim") \/ Goto(p, "run.settle")
  BY DEF RunReserve, RunRenew, RunInject, RunSettle
<1>4. ProcStep(p)
  BY <1>0, <1>3, EndedProc, MovedProc DEF Compensating
<1> QED BY <1>1, <1>2, <1>4, QuietStepped

LEMMA SchedulingSteps ==
  ASSUME TickInv, NEW p \in Proc, Calm',
         CreateSchedule(p) \/ UpdateSchedule(p) \/ ResumeSchedule(p) \/ RestoreSchedule(p)
  PROVE  Stepped(p)
<1> DEFINE Held(s, place) ==
      \E id \in 1..MaxAlarms :
        /\ Schedule(proc[p].job, s, id)
        /\ proc' = [proc EXCEPT ![p].at = place, ![p].alarm = id]
        /\ NoFault
<1>0. TypeOK /\ rows' = rows
  BY DEF TickInv, CreateSchedule, UpdateSchedule, ResumeSchedule, RestoreSchedule, store
<1>1. ASSUME NEW s, NEW place, Held(s, place),
             \/ proc[p].at = "create.schedule" /\ place = "create.record"
             \/ proc[p].at = "update.schedule" /\ place = "update.write"
             \/ proc[p].at = "resume.schedule" /\ place = "resume.write"
             \/ proc[p].at = "restore.schedule" /\ place = "restore.record"
      PROVE  Stepped(p)
  <2>1. PICK id \in 1..MaxAlarms :
          /\ NewAlarm(proc[p].job, s, id)
          /\ proc' = [proc EXCEPT ![p].at = place, ![p].alarm = id]
          /\ NoFault
    BY <1>1, FreshAlarm
  <2> QED BY <1>0, <1>1, <2>1, ScheduledStep
<1>2. ASSUME NEW s, ScheduleFails(proc[p].job, s), Done(p), proc[p].at \notin Answering
      PROVE  Stepped(p)
  <2>1. ProcStep(p) /\ proc'[p].alarm = 0
    BY <1>0, <1>2, EndedProc DEF TypeOK, Done, Idle
  <2>2. AlarmsStep(p)
    BY <1>2, <2>1, OrphanAlarm
  <2> QED BY <1>0, <1>2, <2>1, <2>2, RowsSameStep, Silent, FaultCounts DEF Stepped, ScheduleFails
<1>3. CASE CreateSchedule(p)
  <2>1. CASE Held(proc[p].session, "create.record")
    BY <1>1, <1>3, <2>1 DEF CreateSchedule, At
  <2>2. CASE ~Held(proc[p].session, "create.record")
    <3>1. /\ At(p, "create.schedule") /\ Goto(p, "create.erase")
          /\ ScheduleFails(proc[p].job, proc[p].session)
      BY <1>3, <2>2 DEF CreateSchedule
    <3>2. Fault /\ faults' # 0
      BY <3>1, FaultCounts DEF ScheduleFails
    <3>3. ProcStep(p)
      BY <1>0, <3>1, <3>2, MovedProc DEF Compensating
    <3>4. AnswerStep(p)
      BY <1>0, <3>1, Moves DEF At, AnswerStep, Answers, Waits, Keeps
    <3>5. AlarmsStep(p)
      BY <1>0, <3>1, Moves, OrphanAlarm
    <3> QED BY <1>0, <3>2, <3>3, <3>4, <3>5, RowsSameStep DEF Stepped
  <2> QED BY <2>1, <2>2
<1>4. CASE UpdateSchedule(p)
  <2>1. CASE Held(proc[p].session, "update.write")
    BY <1>1, <1>4, <2>1 DEF UpdateSchedule, At
  <2>2. CASE ~Held(proc[p].session, "update.write")
    BY <1>2, <1>4, <2>2 DEF UpdateSchedule, At, Answering
  <2> QED BY <2>1, <2>2
<1>5. CASE ResumeSchedule(p)
  <2>1. CASE Held(proc[p].row.session, "resume.write")
    BY <1>1, <1>5, <2>1 DEF ResumeSchedule, At
  <2>2. CASE ~Held(proc[p].row.session, "resume.write")
    BY <1>2, <1>5, <2>2 DEF ResumeSchedule, At, Answering
  <2> QED BY <2>1, <2>2
<1>6. CASE RestoreSchedule(p)
  <2>1. faults # 0 /\ At(p, "restore.schedule")
    BY <1>6 DEF RestoreSchedule, At, TickInv, Sound, Compensating
  <2>2. Held(proc[p].row.session, "restore.record")
    BY <1>6, <2>1, FaultCounts DEF RestoreSchedule, ScheduleFails
  <2> QED BY <1>1, <2>1, <2>2 DEF At
<1> QED BY <1>3, <1>4, <1>5, <1>6

\* The cancellations of alarms of rows that were overtaken, and of alarms that
\* were never written.
LEMMA RetiringSteps ==
  ASSUME TickInv, NEW p \in Proc,
         UpdateUndo(p) \/ ResumeUndo(p) \/ UpdateRetire(p) \/ UpdateRetry(p) \/ RunCancel(p)
  PROVE  Stepped(p)
<1>0. TypeOK /\ rows' = rows /\ (Fault \/ NoFault)
  BY DEF TickInv, UpdateUndo, ResumeUndo, UpdateRetire, UpdateRetry, RunCancel, store,
         TryCancel, CancelFails
<1>1. proc[p].at \notin Answering
  BY DEF UpdateUndo, ResumeUndo, UpdateRetire, UpdateRetry, RunCancel, At, Answering
<1>2. AlarmsStep(p)
  <2>1. CASE UpdateUndo(p) \/ ResumeUndo(p)
    <3>1. PICK s : Cancelling(s, proc[p].alarm) /\ proc[p].at \in {"update.undo", "resume.undo"}
      BY <2>1 DEF UpdateUndo, ResumeUndo, At, TryCancel, Cancel, CancelFails, Cancelling
    <3>2. CASE Undoes(p)
      BY <3>1, <3>2, CancelAlarms
    <3>3. CASE ~Undoes(p)
      <4>1. proc[p].alarm = 0 /\ \A a \in alarms : a.id # 0
        BY <3>1, <3>3 DEF Undoes, TickInv, Numbered
      <4>2. alarms' = alarms /\ lastAlarm' = lastAlarm
        BY <3>1, <4>1 DEF Cancelling, Without
      <4> QED BY <4>2 DEF AlarmsStep
    <3> QED BY <3>2, <3>3
  <2>2. CASE UpdateRetire(p) \/ UpdateRetry(p) \/ RunCancel(p)
    <3>1. PICK s : Cancelling(s, proc[p].row.schedule)
      BY <2>2 DEF UpdateRetire, UpdateRetry, RunCancel, TryCancel, Cancel, CancelFails, Cancelling
    <3>2. Overtaken(p)
      BY <2>2 DEF UpdateRetire, UpdateRetry, RunCancel, At, Overtaken
    <3> QED BY <3>1, <3>2, CancelAlarms
  <2> QED BY <2>1, <2>2
<1>3. ProcStep(p)
  <2>1. CASE Done(p)
    BY <1>0, <2>1, EndedProc
  <2>2. CASE UpdateRetire(p) /\ ~Done(p)
    <3>1. Goto(p, "update.retry") /\ faults' # 0 /\ Overtaken(p)
      BY <2>2, FaultCounts DEF UpdateRetire, CancelFails, At, Overtaken
    <3> QED BY <1>0, <3>1, MovedProc
  <2>3. CASE RunCancel(p)
    BY <1>0, <2>3, MovedProc DEF RunCancel, Compensating
  <2> QED BY <2>1, <2>2, <2>3 DEF UpdateUndo, ResumeUndo, UpdateRetire, UpdateRetry
<1> QED BY <1>0, <1>1, <1>2, <1>3, FaultCounts, RowsSameStep, Silent DEF Stepped

\* The cancellations after which the execution answers for the job.
LEMMA CancellingSteps ==
  ASSUME TickInv, NEW p \in Proc, Calm', CreateCancel(p) \/ PauseCancel(p) \/ DeleteCancel(p)
  PROVE  Stepped(p)
<1>0. TypeOK /\ rows' = rows /\ (Fault \/ NoFault)
  BY DEF TickInv, CreateCancel, PauseCancel, DeleteCancel, store, TryCancel, CancelFails
<1>1. CASE CreateCancel(p)
  <2>1. At(p, "create.cancel") /\ Goto(p, "create.erase")
    BY <1>1 DEF CreateCancel
  <2>2. faults # 0
    BY <2>1 DEF At, TickInv, Sound, Compensating
  <2>3. \A j \in Job : proc[p].job = j => Waits(p, j)'
    BY <1>0, <2>1, Moves DEF Waits
  <2>4. AlarmsStep(p)
    <3>1. Cancelling(proc[p].session, proc[p].alarm)
      BY <1>1 DEF CreateCancel, TryCancel, Cancel, CancelFails, Cancelling
    <3> QED BY <2>3, <3>1, CancelAlarms
  <2>5. ProcStep(p)
    BY <1>0, <2>1, <2>2, FaultCounts, MovedProc DEF Compensating
  <2>6. AnswerStep(p)
    BY <2>3 DEF AnswerStep, Answers, Waits, Keeps
  <2> QED BY <1>0, <2>4, <2>5, <2>6, FaultCounts, RowsSameStep DEF Stepped
<1>2. ASSUME PauseCancel(p) \/ DeleteCancel(p) PROVE Stepped(p)
  <2>1. proc[p].at \notin Answering
    BY <1>2 DEF PauseCancel, DeleteCancel, At, Answering
  <2>2. CASE Done(p) /\ Drift /\ lastAlarm' = lastAlarm
    <3>1. UNCHANGED clock
      BY <1>0, <2>2, DriftFree
    <3> QED BY <1>0, <2>1, <2>2, <3>1, EndedProc, QuietStepped
  <2>3. CASE ~(Done(p) /\ Drift /\ lastAlarm' = lastAlarm)
    <3>1. PICK place \in {"pause.write", "delete.erase"} :
            Goto(p, place) /\ Cancelling(proc[p].row.session, proc[p].row.schedule)
      BY <1>2, <2>3 DEF PauseCancel, DeleteCancel, Cancel, CancelFails, Cancelling
    <3>2. proc'[p].at = place /\ proc'[p].job = proc[p].job /\ proc'[p].row = proc[p].row
      BY <1>0, <3>1, Moves
    <3>3. CASE proc[p].row.status = "active"
      <4>1. \A j \in Job : proc[p].job = j => Waits(p, j)'
        BY <3>1, <3>2, <3>3 DEF Waits
      <4> QED BY <1>0, <2>1, <3>1, <4>1, CancelAlarms, MovedProc, FaultCounts, RowsSameStep, Silent
              DEF Stepped, Compensating
    <3>4. CASE proc[p].row.status # "active"
      <4>1. Overtaken(p)
        BY <3>4 DEF Overtaken
      <4> QED BY <1>0, <2>1, <3>1, <4>1, CancelAlarms, MovedProc, FaultCounts, RowsSameStep, Silent
              DEF Stepped, Compensating
    <3> QED BY <3>3, <3>4
  <2> QED BY <2>2, <2>3
<1> QED BY <1>1, <1>2

\* The deletion of a session, which in calm has no alarm to cancel.
LEMMA PurgeSteps ==
  ASSUME TickInv, NEW p \in Proc, Calm', PurgeCancel(p) \/ PurgeJobs(p) \/ PurgeSession(p)
  PROVE  Stepped(p)
<1>0. TypeOK /\ (Fault \/ NoFault) /\ proc[p].at \notin Answering
  BY DEF TickInv, PurgeCancel, PurgeJobs, PurgeSession, CancelFails, At, Answering
<1>1. CASE PurgeCancel(p)
  <2>1. rows' = rows
    BY <1>1 DEF PurgeCancel, store
  <2>2. UNCHANGED clock \/ (Drift /\ lastAlarm' = lastAlarm)
    BY <1>1 DEF PurgeCancel, Cancel, CancelFails
  <2>3. UNCHANGED clock
    BY <1>0, <2>2, DriftFree
  <2>4. ProcStep(p)
    <3>1. CASE Goto(p, "purge.jobs")
      BY <1>0, <3>1, MovedProc DEF Compensating
    <3>2. CASE Done(p)
      BY <1>0, <3>2, EndedProc
    <3>3. CASE ~(Goto(p, "purge.jobs") \/ Done(p))
      <4>1. PICK id : proc' = [proc EXCEPT ![p].todo = @ \ {id}]
        BY <1>1, <3>3 DEF PurgeCancel
      <4>2. /\ \A q \in Proc : q # p => proc'[q] = proc[q]
            /\ proc'[p].at = proc[p].at /\ proc'[p].job = proc[p].job
            /\ proc'[p].row = proc[p].row /\ proc'[p].alarm = proc[p].alarm
        BY <1>0, <4>1 DEF TypeOK, Execution
      <4>3. ~Writes(p)' /\ ~Undoes(p)' /\ Sound(p)'
        BY <1>1, <4>2 DEF PurgeCancel, At, Writes, Undoes, Sound, Compensating
      <4>4. Overtaken(p) \/ Replaced(p)'
        BY <4>2 DEF Overtaken, Replaced
      <4> QED BY <4>2, <4>3, <4>4 DEF ProcStep
    <3> QED BY <3>1, <3>2, <3>3
  <2> QED BY <1>0, <2>1, <2>3, <2>4, QuietStepped
<1>2. CASE PurgeJobs(p)
  <2>1. UNCHANGED clock /\ (Goto(p, "purge.session") \/ Done(p))
    BY <1>2 DEF PurgeJobs
  <2>2. ProcStep(p)
    BY <1>0, <2>1, MovedProc, EndedProc DEF Compensating
  <2>3. \A j \in Job : rows'[j] = rows[j] \/ rows'[j] = NoRow
    BY <1>2 DEF PurgeJobs
  <2>4. RowsStep(p)
    BY <2>3 DEF RowsStep, NoRow
  <2> QED BY <1>0, <2>1, <2>2, <2>4, ClockSame, Silent, FaultCounts DEF Stepped, TypeOK
<1>3. CASE PurgeSession(p)
  BY <1>0, <1>3, EndedProc, QuietStepped DEF PurgeSession
<1> QED BY <1>1, <1>2, <1>3
-----------------------------------------------------------------------------
(* The statements that write a row.                                           *)

\* An UPDATE of the job of p.
LEMMA UpdatedRow ==
  ASSUME TypeOK, NEW j \in Job, NEW r \in Row, rows' = Updated(j, r)
  PROVE  /\ \A i \in Job : i # j => rows'[i] = rows[i]
         /\ Exists(j) => rows'[j] = r
         /\ ~Exists(j) => rows'[j] = rows[j] /\ rows[j].status = "none"
BY DEF TypeOK, Updated, Exists

LEMMA WorksOn ==
  ASSUME TypeOK, NEW p \in Proc, proc[p].at \in Working
  PROVE  proc[p].job \in Job /\ rows[proc[p].job] \in Row /\ proc[p] \in Execution
BY DEF TypeOK

\* Writing the alarm it holds, an execution answers for its job for good.
LEMMA ArmedRow ==
  ASSUME TickInv, NEW p \in Proc, Writes(p), proc[p].job \in Job, NEW r \in Row,
         r.schedule = proc[p].alarm, rows' = Updated(proc[p].job, r), UNCHANGED clock
  PROVE  /\ RowsStep(p) /\ AlarmsStep(p)
         /\ \A j \in Job : rows[j].status = "active" /\ rows'[j].schedule = rows[j].schedule
                             => j # proc[p].job
<1> DEFINE k == proc[p].job
<1>0. TypeOK /\ lastAlarm \in Nat /\ alarms' = alarms
  BY DEF TickInv, TypeOK, clock
<1>1. /\ \A i \in Job : i # k => rows'[i] = rows[i]
      /\ Exists(k) => rows'[k] = r
      /\ ~Exists(k) => rows'[k] = rows[k] /\ rows[k].status = "none"
  BY <1>0, UpdatedRow
<1>2. rows[k].schedule # proc[p].alarm
  BY DEF TickInv, Holding, Fresh
<1>3. RowsStep(p)
  BY <1>0, <1>1 DEF RowsStep
<1> QED BY <1>0, <1>1, <1>2, <1>3, ClockSame DEF Exists

\* Leaving a job without an alarm that is not active.
LEMMA ClearedRow ==
  ASSUME TickInv, NEW p \in Proc, proc[p].job \in Job, NEW r \in Row,
         r.schedule = 0, r.status # "active",
         rows' = Updated(proc[p].job, r) \/ rows' = [rows EXCEPT ![proc[p].job] = r],
         UNCHANGED clock
  PROVE  /\ RowsStep(p) /\ AlarmsStep(p)
         /\ \A j \in Job : rows'[j].status = "active" => j # proc[p].job
<1> DEFINE k == proc[p].job
<1>0. TypeOK /\ lastAlarm \in Nat
  BY DEF TickInv, TypeOK
<1>1. /\ \A i \in Job : i # k => rows'[i] = rows[i]
      /\ rows'[k] = r \/ (rows'[k] = rows[k] /\ rows[k].status = "none")
  BY <1>0, UpdatedRow DEF TypeOK
<1>2. RowsStep(p)
  BY <1>1 DEF RowsStep
<1> QED BY <1>0, <1>1, <1>2, ClockSame

\* So what it answered for is settled.
LEMMA SettledAnswer ==
  ASSUME NEW p, \A j \in Job : rows[j].status = "active" /\ rows'[j].status = "active"
                                 /\ rows'[j].schedule = rows[j].schedule => j # proc[p].job
  PROVE  AnswerStep(p)
BY DEF AnswerStep, Answers, Waits, Keeps

LEMMA CreateInsertStep ==
  ASSUME TickInv, NEW p \in Proc, CreateInsert(p)
  PROVE  Stepped(p)
<1> DEFINE k == proc[p].job
<1>0. TypeOK /\ UNCHANGED clock /\ At(p, "create.insert")
  BY DEF TickInv, CreateInsert
<1>1. k \in Job /\ proc[p].at \notin Answering
  BY <1>0, WorksOn DEF At, Working, Place, Answering
<1>2. CASE Done(p) /\ UNCHANGED rows /\ (Fault \/ NoFault)
  BY <1>0, <1>1, <1>2, EndedProc, QuietStepped
<1>3. CASE ~(Done(p) /\ UNCHANGED rows /\ (Fault \/ NoFault))
  <2> DEFINE r == [status |-> "active", runs |-> 0, limit |-> proc[p].limit, schedule |-> 0,
                   session |-> proc[p].session, key |-> proc[p].key]
  <2>1. rows' = [rows EXCEPT ![k] = r] /\ Goto(p, "create.schedule") /\ NoFault
    BY <1>3 DEF CreateInsert
  <2>2. rows'[k].schedule = 0 /\ \A j \in Job : j # k => rows'[j] = rows[j]
    BY <1>0, <1>1, <2>1 DEF TypeOK
  <2>3. Waits(p, k)'
    BY <1>0, <1>1, <2>1, <2>2, Moves DEF Waits
  <2>4. \A j \in Job : j = k => Waits(p, j)'
    BY <1>0, <1>1, <2>1, <2>2, Moves DEF Waits
  <2>5. RowsStep(p)
    BY <2>2, <2>4 DEF RowsStep
  <2>6. ProcStep(p)
    BY <1>0, <2>1, MovedProc DEF Compensating
  <2> QED BY <1>0, <1>1, <2>1, <2>5, <2>6, ClockSame, Silent, FaultCounts DEF Stepped, TypeOK
<1> QED BY <1>2, <1>3

LEMMA CreateRecordStep ==
  ASSUME TickInv, NEW p \in Proc, CreateRecord(p)
  PROVE  Stepped(p)
<1> DEFINE k == proc[p].job
           r == [rows[k] EXCEPT !.schedule = proc[p].alarm]
<1>0. TypeOK /\ UNCHANGED clock /\ proc[p].at = "create.record" /\ (Fault \/ NoFault)
  BY DEF TickInv, CreateRecord, At
<1>1. k \in Job /\ rows[k] \in Row /\ proc[p].alarm \in Nat
  BY <1>0, WorksOn, TickTypes DEF Working, Place
<1>2. Writes(p)
  BY <1>0 DEF TickInv, Sound, Writes
<1>3. r \in Row /\ r.schedule = proc[p].alarm
  BY <1>1, ScheduleRow DEF Row
<1>4. /\ rows' = Updated(k, r) \/ rows' = rows
      /\ \/ Done(p) /\ rows' = Updated(k, r)
         \/ Goto(p, "create.cancel") /\ Fault
  BY DEF CreateRecord
<1> HIDE DEF r
<1>5. ProcStep(p)
  BY <1>0, <1>4, EndedProc, MovedProc, FaultCounts
<1>6. CASE rows' = Updated(k, r)
  BY <1>0, <1>1, <1>2, <1>3, <1>5, <1>6, ArmedRow, SettledAnswer, FaultCounts DEF Stepped
<1>7. CASE rows' = rows /\ Goto(p, "create.cancel")
  <2>1. \A q \in Proc : proc'[q].row = proc[q].row /\ proc'[q].alarm = proc[q].alarm /\ proc'[q].job = proc[q].job
    BY <1>0, <1>7, Moves
  <2>2. Fresh(proc[p].alarm)
    BY <1>2 DEF TickInv, Holding
  <2>3. Fresh(proc[p].alarm)'
    BY <1>7, <2>1, <2>2 DEF Fresh
  <2>4. AnswerStep(p)
    <3> SUFFICES ASSUME NEW j \in Job, Answers(p, j) PROVE Answers(p, j)'
      BY DEF AnswerStep
    <3>1. proc[p].job = j /\ Calls(proc[p].alarm, j) /\ rows[j].schedule = 0
      BY <1>0 DEF Answers, Waits, Keeps
    <3>2. Calls(proc[p].alarm, j)'
      BY <1>0, <2>1, <3>1 DEF Calls, clock
    <3> QED BY <1>0, <1>7, <2>1, <2>3, <3>1, <3>2, Moves DEF Answers, Keeps
  <2> QED BY <1>0, <1>5, <1>7, <2>4, ClockSame, RowsSameStep, FaultCounts DEF Stepped, TypeOK
<1> QED BY <1>4, <1>6, <1>7

LEMMA UpdateWriteStep ==
  ASSUME TickInv, NEW p \in Proc, UpdateWrite(p)
  PROVE  Stepped(p)
<1> DEFINE k == proc[p].job
           r == UpdateColumns(p)
<1>0. TypeOK /\ UNCHANGED clock /\ proc[p].at = "update.write" /\ (Fault \/ NoFault)
  BY DEF TickInv, UpdateWrite, At
<1>1. k \in Job /\ rows[k] \in Row /\ proc[p].alarm \in Nat /\ proc[p].at \notin Answering
  BY <1>0, WorksOn, TickTypes DEF Working, Place, Answering
<1>2. CASE NoFault
  <2>1. rows' = Updated(k, r) /\ (Goto(p, "update.retire") \/ Done(p))
    BY <1>2, FaultCounts DEF UpdateWrite, Fault, NoFault, TickInv, TypeOK
  <2>2. r \in Row /\ r.schedule = proc[p].alarm /\ r.status = UpdatedStatus(proc[p].row, proc[p].limit)
    <3>1. /\ proc[p].row \in Row /\ proc[p].limit \in Nat /\ proc[p].session \in Session \cup {None}
      BY <1>0, Fields
    <3>2. UpdatedStatus(proc[p].row, proc[p].limit) \in Status
      BY <3>1, RowFields DEF UpdatedStatus, Status
    <3>3. r \in Row
      BY <1>1, <3>1, <3>2, UpdateRow DEF UpdateColumns
    <3> QED BY <1>1, <3>3 DEF UpdateColumns, Row
  <2> HIDE DEF r
  <2>3. RowsStep(p) /\ AlarmsStep(p)
    <3>1. CASE proc[p].alarm # 0
      <4>1. Writes(p)
        BY <1>0, <3>1 DEF Writes
      <4> QED BY <1>0, <1>1, <2>1, <2>2, <4>1, ArmedRow
    <3>2. CASE proc[p].alarm = 0
      <4>1. r.status # "active"
        BY <1>0, <2>2, <3>2 DEF TickInv, Sound
      <4> QED BY <1>0, <1>1, <2>1, <2>2, <3>2, <4>1, ClearedRow
    <3> QED BY <3>1, <3>2
  <2>4. Replaced(p)' \/ Done(p)
    <3>1. rows'[k] = r \/ rows'[k].status = "none"
      BY <1>0, <1>1, <2>1, <2>2, UpdatedRow
    <3>2. proc[p].row.schedule # 0 => proc[p].row.schedule # proc[p].alarm
      BY <1>0 DEF Writes, TickInv, Holding, Fresh
    <3>3. Goto(p, "update.retire") => proc'[p].job = k /\ proc'[p].row = proc[p].row
      BY <1>0, Moves
    <3> QED BY <2>1, <2>2, <3>1, <3>2, <3>3 DEF Replaced
  <2>5. ProcStep(p)
    BY <1>0, <2>1, <2>4, EndedProc, MovedProc DEF Compensating
  <2> QED BY <1>0, <1>1, <2>3, <2>5, Silent, FaultCounts DEF Stepped
<1>3. CASE ~NoFault
  <2>1. Fault /\ rows' = rows /\ (IF proc[p].alarm # 0 THEN Goto(p, "update.undo") ELSE Done(p))
    BY <1>3 DEF UpdateWrite
  <2>2. proc[p].alarm # 0 => Writes(p)
    BY <1>0 DEF Writes
  <2>3. ProcStep(p)
    BY <1>0, <2>1, <2>2, EndedProc, MovedProc, FaultCounts
  <2> QED BY <1>0, <1>1, <2>1, <2>3, QuietStepped
<1> QED BY <1>2, <1>3

LEMMA ResumeWriteStep ==
  ASSUME TickInv, NEW p \in Proc, ResumeWrite(p)
  PROVE  Stepped(p)
<1> DEFINE k == proc[p].job
           r == [rows[k] EXCEPT !.status = "active", !.schedule = proc[p].alarm]
<1>0. TypeOK /\ UNCHANGED clock /\ proc[p].at = "resume.write" /\ (Fault \/ NoFault)
  BY DEF TickInv, ResumeWrite, At
<1>1. /\ k \in Job /\ rows[k] \in Row /\ proc[p].alarm \in Nat
      /\ proc[p].at \notin Answering /\ Writes(p)
  BY <1>0, WorksOn, TickTypes DEF Working, Place, Answering, TickInv, Sound, Writes
<1>2. r \in Row /\ r.schedule = proc[p].alarm
  BY <1>1, StatusRow DEF Row, Status
<1>3. \/ rows' = Updated(k, r) /\ Done(p)
      \/ rows' = rows /\ Fault /\ Goto(p, "resume.undo")
  BY DEF ResumeWrite
<1> HIDE DEF r
<1>4. ProcStep(p)
  BY <1>0, <1>1, <1>3, EndedProc, MovedProc, FaultCounts
<1>5. CASE rows' = rows
  BY <1>0, <1>1, <1>4, <1>5, QuietStepped
<1>6. CASE rows' = Updated(k, r)
  BY <1>0, <1>1, <1>2, <1>4, <1>6, ArmedRow, Silent, FaultCounts DEF Stepped
<1> QED BY <1>3, <1>5, <1>6

LEMMA RestoreRecordStep ==
  ASSUME TickInv, NEW p \in Proc, Calm', RestoreRecord(p)
  PROVE  Stepped(p)
<1> DEFINE k == proc[p].job
           r == [rows[k] EXCEPT !.schedule = proc[p].alarm]
<1>0. TypeOK /\ UNCHANGED clock /\ proc[p].at = "restore.record" /\ (Fault \/ NoFault)
  BY DEF TickInv, RestoreRecord, At
<1>1. k \in Job /\ rows[k] \in Row /\ proc[p].alarm \in Nat /\ Writes(p) /\ faults # 0
  BY <1>0, WorksOn, TickTypes DEF Working, Place, TickInv, Sound, Writes, Compensating
<1>2. r \in Row /\ r.schedule = proc[p].alarm
  BY <1>1, ScheduleRow DEF Row
<1>3. rows' = Updated(k, r) /\ Done(p)
  BY <1>1, FaultCounts DEF RestoreRecord
<1> HIDE DEF r
<1> QED BY <1>0, <1>1, <1>2, <1>3, EndedProc, ArmedRow, SettledAnswer, FaultCounts DEF Stepped

\* The erasing statements and the pause.
LEMMA ErasingSteps ==
  ASSUME TickInv, NEW p \in Proc, Calm',
         CreateErase(p) \/ DeleteErase(p) \/ PauseWrite(p)
  PROVE  Stepped(p)
<1> DEFINE k == proc[p].job
           r == [rows[k] EXCEPT !.status = "paused", !.schedule = 0]
<1>0. TypeOK /\ UNCHANGED clock /\ (Fault \/ NoFault)
  BY DEF TickInv, CreateErase, DeleteErase, PauseWrite
<1>1. proc[p].at \in {"create.erase", "delete.erase", "pause.write"} /\ k \in Job /\ rows[k] \in Row
  <2>1. proc[p].at \in {"create.erase", "delete.erase", "pause.write"}
    BY DEF CreateErase, DeleteErase, PauseWrite, At
  <2> QED BY <1>0, <2>1, WorksOn DEF Working, Place
<1>2. /\ r \in Row /\ r.schedule = 0 /\ r.status = "paused"
      /\ NoRow \in Row /\ NoRow.schedule = 0 /\ NoRow.status = "none"
  BY <1>1, StatusRow, NoRowOK DEF Row, Status, NoRow
<1>3. \/ Done(p) /\ (rows' = Updated(k, r) \/ rows' = [rows EXCEPT ![k] = NoRow])
      \/ rows' = rows /\ Fault
           /\ \/ proc[p].at = "pause.write" /\ Goto(p, "restore.schedule")
              \/ proc[p].at = "delete.erase" /\ proc[p].row.status = "active" /\ Goto(p, "restore.schedule")
              \/ proc[p].at = "delete.erase" /\ proc[p].row.status # "active" /\ Done(p)
  <2>1. CASE CreateErase(p)
    <3>1. faults # 0
      BY <2>1 DEF CreateErase, At, TickInv, Sound, Compensating
    <3> QED BY <2>1, <3>1, FaultCounts DEF CreateErase
  <2>2. CASE DeleteErase(p)
    BY <2>2 DEF DeleteErase, At
  <2>3. CASE PauseWrite(p)
    BY <2>3 DEF PauseWrite, At
  <2> QED BY <2>1, <2>2, <2>3
<1> HIDE DEF r
<1>4. ProcStep(p)
  BY <1>0, <1>3, EndedProc, MovedProc, FaultCounts
<1>5. CASE rows' = Updated(k, r) \/ rows' = [rows EXCEPT ![k] = NoRow]
  BY <1>0, <1>1, <1>2, <1>4, <1>5, ClearedRow, SettledAnswer, FaultCounts DEF Stepped
<1>6. CASE rows' = rows /\ Fault
           /\ \/ proc[p].at = "pause.write" /\ Goto(p, "restore.schedule")
              \/ proc[p].at = "delete.erase" /\ proc[p].row.status = "active" /\ Goto(p, "restore.schedule")
              \/ proc[p].at = "delete.erase" /\ proc[p].row.status # "active" /\ Done(p)
  <2>1. AnswerStep(p)
    <3> SUFFICES ASSUME NEW j \in Job, Answers(p, j) PROVE Answers(p, j)'
      BY DEF AnswerStep
    <3>1. proc[p].job = j /\ Goto(p, "restore.schedule")
      BY <1>6 DEF Answers, Waits, Keeps
    <3> QED BY <1>0, <3>1, Moves DEF Answers, Waits
  <2> QED BY <1>0, <1>4, <1>6, <2>1, ClockSame, RowsSameStep, FaultCounts DEF Stepped, TypeOK
<1> QED BY <1>3, <1>5, <1>6

LEMMA RunClaimStep ==
  ASSUME TickInv, NEW p \in Proc, RunClaim(p)
  PROVE  Stepped(p)
<1> DEFINE k == proc[p].job
           r == Claimed(rows[k])
           place == IF r.status = "exhausted" THEN "run.cancel" ELSE "run.inject"
<1>0. TypeOK /\ UNCHANGED clock /\ proc[p].at = "run.claim" /\ (Fault \/ NoFault)
  BY DEF TickInv, RunClaim, At
<1>1. k \in Job /\ rows[k] \in Row /\ proc[p].at \notin Answering
  BY <1>0, WorksOn DEF Working, Place, Answering
<1>2. CASE rows' = rows
  <2>1. CASE Done(p) \/ Goto(p, "run.settle")
    <3>1. ProcStep(p)
      BY <1>0, <2>1, EndedProc, MovedProc DEF Compensating
    <3> QED BY <1>0, <1>1, <1>2, <3>1, QuietStepped
  <2>2. CASE ~(Done(p) \/ Goto(p, "run.settle"))
    <3>1. rows' = [rows EXCEPT ![k] = r] /\ rows[k].runs \in Nat
      BY <1>1, <2>2, RowFields DEF RunClaim, RowAtClaim
    <3>2. rows'[k] = r
      BY <1>0, <1>1, <3>1 DEF TypeOK
    <3>3. r.runs = rows[k].runs + 1
      BY <1>1, <3>1 DEF Claimed, Row
    <3> QED BY <1>2, <3>1, <3>2, <3>3
  <2> QED BY <2>1, <2>2
<1>3. CASE rows' # rows
  <2>1. /\ rows' = [rows EXCEPT ![k] = r] /\ rows[k].status = "active"
        /\ proc' = [proc EXCEPT ![p].at = place, ![p].run = rows[k].runs + 1]
    BY <1>3 DEF RunClaim, RowAtClaim
  <2>2. \/ r.status = "exhausted" /\ r.schedule = 0
        \/ r.status = rows[k].status /\ r.schedule = rows[k].schedule
    BY <1>1 DEF Claimed, Row
  <2> HIDE DEF r
  <2>3. rows'[k] = r /\ \A j \in Job : j # k => rows'[j] = rows[j]
    BY <1>0, <1>1, <2>1 DEF TypeOK
  <2>4. RowsStep(p)
    BY <2>1, <2>2, <2>3 DEF RowsStep
  <2>5. /\ \A q \in Proc : q # p => proc'[q] = proc[q]
        /\ proc'[p].at = place /\ proc'[p].job = k /\ proc'[p].row = proc[p].row
        /\ proc'[p].alarm = proc[p].alarm
    BY <1>0, <2>1 DEF TypeOK, Execution
  <2>6. ProcStep(p)
    <3>1. ~Writes(p)' /\ ~Undoes(p)' /\ Sound(p)'
      BY <2>5 DEF Writes, Undoes, Sound, Compensating
    <3>2. Replaced(p)' \/ Overtaken(p)
      BY <2>3, <2>5 DEF Replaced, Overtaken
    <3> QED BY <2>5, <3>1, <3>2 DEF ProcStep
  <2> QED BY <1>0, <1>1, <2>4, <2>6, ClockSame, Silent, FaultCounts DEF Stepped, TypeOK
<1> QED BY <1>2, <1>3
-----------------------------------------------------------------------------
LEMMA EveryStep ==
  ASSUME TickInv, NEW p \in Proc, Step(p), Calm'
  PROVE  Stepped(p)
<1>1. CASE PurgeCancel(p) \/ PurgeJobs(p) \/ PurgeSession(p)
  BY <1>1, PurgeSteps
<1>2. CASE RunReserve(p) \/ RunRenew(p) \/ RunInject(p) \/ RunSettle(p)
  BY <1>2, RunSteps
<1>3. CASE CreateSchedule(p) \/ UpdateSchedule(p) \/ ResumeSchedule(p) \/ RestoreSchedule(p)
  BY <1>3, SchedulingSteps
<1>4. CASE UpdateUndo(p) \/ ResumeUndo(p) \/ UpdateRetire(p) \/ UpdateRetry(p) \/ RunCancel(p)
  BY <1>4, RetiringSteps
<1>5. CASE CreateCancel(p) \/ PauseCancel(p) \/ DeleteCancel(p)
  BY <1>5, CancellingSteps
<1>6. CASE CreateErase(p) \/ DeleteErase(p) \/ PauseWrite(p)
  BY <1>6, ErasingSteps
<1>7. CASE CreateInsert(p) \/ CreateRecord(p) \/ UpdateWrite(p) \/ ResumeWrite(p) \/ RestoreRecord(p) \/ RunClaim(p)
  BY <1>7, CreateInsertStep, CreateRecordStep, UpdateWriteStep, ResumeWriteStep, RestoreRecordStep,
     RunClaimStep
<1> QED BY <1>1, <1>2, <1>3, <1>4, <1>5, <1>6, <1>7 DEF Step

LEMMA TickInvInit == Init => TickInv
<1> SUFFICES ASSUME Init PROVE TickInv
  OBVIOUS
<1>1. /\ TypeOK /\ alarms = {} /\ lastAlarm = 0
      /\ \A j \in Job : rows[j].schedule = 0 /\ rows[j].status = "none"
      /\ \A p \in Proc : proc[p].row.schedule = 0 /\ proc[p].alarm = 0 /\ proc[p].at = "idle"
  BY InitType DEF Init, Idle, NoRow
<1>2. Numbered /\ Belonging /\ Holding /\ Ticking
  BY <1>1 DEF Numbered, Belonging, Holding, Writes, Undoes, Ticking, ActiveJobs
<1>3. \A p \in Proc : Sound(p) /\ Replaced(p)
  BY <1>1 DEF Sound, Replaced, Compensating
<1> QED BY <1>1, <1>2, <1>3 DEF TickInv

\* Calm is not regained.
Worse ==
  (drifted => drifted') /\ faults \in Nat /\ crashes \in Nat
    /\ faults' \in {faults, faults + 1} /\ crashes' \in {crashes, crashes + 1}

LEMMA CalmBefore == ASSUME Worse, Calm' PROVE Calm
BY DEF Worse, Calm

LEMMA CallsWorse ==
  ASSUME TypeOK
  PROVE  /\ \A j, s, id : Schedule(j, s, id) /\ NoFault => Worse
         /\ \A j, s : ScheduleFails(j, s) => Worse
         /\ \A s, id : TryCancel(s, id) => Worse
         /\ \A s, id : Cancel(s, id) /\ NoFault /\ (UNCHANGED drifted \/ Drift) => Worse
         /\ \A s, id : CancelFails(s, id) /\ (UNCHANGED drifted \/ Drift) => Worse
         /\ UNCHANGED clock /\ (Fault \/ NoFault) => Worse
<1> USE DEF TypeOK, Worse, Fault, NoFault, clock
<1>1. ASSUME NEW j, NEW s, NEW id, Schedule(j, s, id), NoFault PROVE Worse
  BY <1>1 DEF Schedule, NewAlarm, SameAlarm
<1>2. ASSUME NEW j, NEW s, ScheduleFails(j, s) PROVE Worse
  BY <1>2 DEF ScheduleFails, NewAlarm
<1>3. ASSUME NEW s, NEW id, TryCancel(s, id) PROVE Worse
  BY <1>3 DEF TryCancel, CancelFails
<1>4. ASSUME UNCHANGED drifted \/ Drift, Fault \/ NoFault PROVE Worse
  BY <1>4 DEF Drift
<1>5. UNCHANGED clock => UNCHANGED drifted
  OBVIOUS
<1> QED BY <1>1, <1>2, <1>3, <1>4, <1>5 DEF CancelFails

LEMMA StepWorse ==
  ASSUME TypeOK, NEW p \in Proc, Step(p)
  PROVE  Worse
<1>1. CASE \/ CreateInsert(p) \/ CreateRecord(p) \/ CreateErase(p) \/ UpdateWrite(p) \/ PauseWrite(p)
           \/ ResumeWrite(p) \/ RestoreRecord(p) \/ DeleteErase(p)
  BY <1>1, CallsWorse DEF CreateInsert, CreateRecord, CreateErase, UpdateWrite, PauseWrite,
     ResumeWrite, RestoreRecord, DeleteErase
<1>2. CASE CreateSchedule(p) \/ UpdateSchedule(p) \/ ResumeSchedule(p) \/ RestoreSchedule(p)
  BY <1>2, CallsWorse DEF CreateSchedule, UpdateSchedule, ResumeSchedule, RestoreSchedule
<1>3. CASE \/ CreateCancel(p) \/ UpdateUndo(p) \/ UpdateRetire(p) \/ UpdateRetry(p) \/ ResumeUndo(p)
           \/ RunCancel(p)
  BY <1>3, CallsWorse DEF CreateCancel, UpdateUndo, UpdateRetire, UpdateRetry, ResumeUndo, RunCancel
<1>4. CASE PauseCancel(p) \/ DeleteCancel(p) \/ PurgeCancel(p)
  BY <1>4, CallsWorse DEF PauseCancel, DeleteCancel, PurgeCancel
<1>5. CASE \/ RunReserve(p) \/ RunRenew(p) \/ RunClaim(p) \/ RunInject(p) \/ RunSettle(p)
           \/ PurgeJobs(p) \/ PurgeSession(p)
  <2>1. UNCHANGED clock /\ (Fault \/ NoFault)
    BY <1>5 DEF RunReserve, RunRenew, RunClaim, RunInject, RunSettle, PurgeJobs, PurgeSession
  <2> QED BY <2>1, CallsWorse
<1> QED BY <1>1, <1>2, <1>3, <1>4, <1>5 DEF Step

LEMMA NextWorse == TypeOK /\ [Next]_vars => Worse
<1> SUFFICES ASSUME TypeOK, [Next]_vars PROVE Worse
  OBVIOUS
<1>1. ASSUME UNCHANGED clock, UNCHANGED faults, crashes' \in {crashes, crashes + 1} PROVE Worse
  BY <1>1 DEF Worse, TypeOK, clock
<1>2. ASSUME NEW p \in Proc, Request(p) PROVE UNCHANGED clock /\ UNCHANGED <<faults, crashes>>
  BY <1>2 DEF Request, BeginCreate, BeginUpdate, BeginPause, BeginResume, BeginDelete, BeginRun,
     BeginPurge
<1>3. ASSUME NEW p \in Proc, Crash(p) PROVE Worse
  BY <1>1, <1>3 DEF Crash
<1>4. ASSUME NEW p \in Proc, NEW a \in alarms, AlarmFires(p, a) PROVE Worse
  BY <1>1, <1>4 DEF AlarmFires
<1>5. ASSUME NEW e \in Job \X RunKey, LeaseExpires(e) PROVE Worse
  BY <1>1, <1>5 DEF LeaseExpires
<1>6. CASE UNCHANGED vars
  BY <1>1, <1>6 DEF vars, clock
<1> QED BY <1>1, <1>2, <1>3, <1>4, <1>5, <1>6, StepWorse DEF Next

LEMMA TickInvNext == TickInv /\ Calm' /\ [Next]_vars => TickInv'
<1> SUFFICES ASSUME TickInv, Calm', [Next]_vars PROVE TickInv'
  OBVIOUS
<1>1. TypeOK /\ TypeOK'
  BY NextType DEF TickInv
<1>2. ASSUME NEW p \in Proc, Request(p) \/ Step(p) PROVE TickInv'
  BY <1>1, <1>2, RequestSteps, EveryStep, TickInvKept
<1>3. ASSUME NEW p \in Proc, NEW a \in alarms, AlarmFires(p, a) PROVE TickInv'
  BY <1>1, <1>3, AlarmFiresStep, TickInvKept
<1>4. ASSUME NEW p \in Proc PROVE ~Crash(p)
  BY <1>1 DEF Crash, TypeOK, Calm
<1>5. ASSUME UNCHANGED <<rows, alarms, lastAlarm, proc, faults>> PROVE TickInv'
  BY <1>1, <1>5 DEF TickInv, Numbered, Belonging, Holding, Writes, Undoes, Fresh, Calls, Ticking,
                    ActiveJobs, Answers, Waits, Keeps, Sound, Replaced, Overtaken
<1>6. ASSUME NEW e \in Job \X RunKey, LeaseExpires(e) PROVE TickInv'
  BY <1>5, <1>6 DEF LeaseExpires, store, clock
<1>7. CASE UNCHANGED vars
  BY <1>5, <1>7 DEF vars
<1> QED BY <1>2, <1>3, <1>4, <1>6, <1>7 DEF Next

LEMMA TickInvMeans == TickInv => ActiveJobsTick
<1> SUFFICES ASSUME TickInv, NEW j \in ActiveJobs
             PROVE  (\E a \in alarms : a.job = j) \/ \E p \in Proc : InWindow(p, j)
  BY DEF ActiveJobsTick
<1>1. Calls(rows[j].schedule, j) \/ \E p \in Proc : Waits(p, j) \/ Keeps(p, j)
  BY DEF TickInv, Ticking, Answers
<1> QED BY <1>1 DEF Calls, Waits, Keeps, InWindow

\* The invariant binds only while all is calm.
TickGuarded == TypeOK /\ (Calm => TickInv)

\* An active job does not fall silent for one failing statement or call, done
\* or not, for any number of jobs, executions, alarms and runs: while nothing
\* has drifted and no isolate has died, what one failure breaks the
\* compensations of job-service.ts put right.
THEOREM FailuresCompensatedHolds == Spec => []FailuresCompensated
<1>1. Init => TickGuarded
  BY InitType, TickInvInit DEF TickGuarded
<1>2. TickGuarded /\ [Next]_vars => TickGuarded'
  <2> SUFFICES ASSUME TickGuarded, [Next]_vars PROVE TickGuarded'
    OBVIOUS
  <2>1. TypeOK /\ TypeOK' /\ Worse
    BY NextType, NextWorse DEF TickGuarded
  <2>2. ASSUME Calm' PROVE TickInv'
    BY <2>1, <2>2, CalmBefore, TickInvNext DEF TickGuarded
  <2> QED BY <2>1, <2>2 DEF TickGuarded
<1>3. TickGuarded => FailuresCompensated
  BY TickInvMeans DEF TickGuarded, Calm, FailuresCompensated
<1> QED BY <1>1, <1>2, <1>3, PTL DEF Spec
=============================================================================
