--------------------------- MODULE RecurringJobs ---------------------------
(***************************************************************************)
(* Recurring jobs: the D1 table `jobs`, the native alarms that the session *)
(* Durable Objects hold, the run reservations of `job_events`, and every   *)
(* execution that touches them: the owner's requests (job-service.ts), the *)
(* alarm callback (agent.ts), the run itself (jobs.ts) and the deletion of *)
(* a session (routes/sessions.ts).                                         *)
(*                                                                         *)
(* One D1 statement is atomic; an execution gives up control at every      *)
(* await, so each step below is one statement or one remote call, and what *)
(* an execution read earlier stays in its record `proc[p]`, stale or not.  *)
(* A row that does not exist is a row of status "none".  Zero stands for   *)
(* SQL NULL in max_runs (no limit) and in schedule_id (no alarm).          *)
(***************************************************************************)
EXTENDS Naturals, FiniteSets

CONSTANTS
  Job,        \* job ids, each drawn once (crypto.randomUUID)
  Proc,       \* executions in flight: owner requests and alarm callbacks
  Session,    \* sessions that exist at the start
  Deletable,  \* those of them the owner may delete
  RunKey,     \* idempotency keys
  None,       \* absence of an id or of a key
  Limits,     \* values the owner may give max_runs
  MaxActive,  \* MAX_ACTIVE_JOBS_PER_OWNER
  MaxAlarms,  \* bound: alarms scheduled in a behaviour
  MaxRuns,    \* bound: runs claimed by one job
  MaxLapses,  \* bound: leases of one reservation that run out
  MaxFaults,  \* bound: statements and calls that fail
  MaxCrashes  \* bound: executions that die between two steps

ASSUME NoneAssumption == None \notin Job \cup Session \cup RunKey
ASSUME LimitsAssumption == Limits \subseteq Nat
ASSUME DeletableAssumption == Deletable \subseteq Session
ASSUME BoundAssumption ==
  MaxActive \in Nat /\ MaxAlarms \in Nat /\ MaxRuns \in Nat
    /\ MaxLapses \in Nat /\ MaxFaults \in Nat /\ MaxCrashes \in Nat

VARIABLES
  rows,        \* the table jobs
  born,        \* job ids drawn so far
  sessions,    \* the table sessions
  alarms,      \* native schedules that are live in the session objects
  lastAlarm,   \* ids given to alarms so far
  drifted,     \* history: an alarm went unseen or was given to a second holder
  events,      \* the run reservation of a job under an idempotency key
  lapses,      \* how often the lease of a reservation has run out
  dispatched,  \* prompts injected into a session
  proc,        \* what each execution is doing and has read
  faults, crashes

store == <<rows, born, sessions>>
clock == <<alarms, lastAlarm, drifted>>
ledger == <<events, lapses>>
vars == <<rows, born, sessions, alarms, lastAlarm, drifted, events, lapses,
          dispatched, proc, faults, crashes>>
-----------------------------------------------------------------------------
Status == {"none", "active", "paused", "exhausted"}
Row == [status: Status, runs: Nat, limit: Nat, schedule: Nat,
        session: Session \cup {None}, key: RunKey \cup {None}]
NoRow == [status |-> "none", runs |-> 0, limit |-> 0, schedule |-> 0,
          session |-> None, key |-> None]

Alarm == [id: Nat, job: Job, session: Session \cup {None}]
Dispatch == [job: Job, run: Nat, key: RunKey \cup {None}]

Place ==
  {"idle", "create.insert", "create.schedule", "create.record",
   "create.cancel", "create.erase", "update.schedule", "update.write",
   "update.undo", "update.retire", "update.retry", "pause.cancel",
   "pause.write", "resume.schedule", "resume.write", "resume.undo",
   "restore.schedule", "restore.record", "delete.cancel", "delete.erase",
   "run.reserve", "run.renew", "run.claim", "run.cancel", "run.inject",
   "run.settle", "purge.cancel", "purge.jobs", "purge.session"}

\* An execution: where it stands, the row it read, the input it was given,
\* the alarm it scheduled, the run it claimed, the alarms it has to cancel.
Execution ==
  [at: Place, job: Job \cup {None}, row: Row, limit: Nat,
   session: Session \cup {None}, key: RunKey \cup {None},
   alarm: Nat, run: Nat, todo: SUBSET Nat]
Idle == [at |-> "idle", job |-> None, row |-> NoRow, limit |-> 0,
         session |-> None, key |-> None, alarm |-> 0,
         run |-> 0, todo |-> {}]

Init ==
  /\ rows = [j \in Job |-> NoRow]
  /\ born = {}
  /\ sessions = Session
  /\ alarms = {}
  /\ lastAlarm = 0
  /\ drifted = FALSE
  /\ events = [e \in Job \X RunKey |-> "none"]
  /\ lapses = [e \in Job \X RunKey |-> 0]
  /\ dispatched = {}
  /\ proc = [p \in Proc |-> Idle]
  /\ faults = 0
  /\ crashes = 0
-----------------------------------------------------------------------------
Exists(j) == rows[j].status # "none"
ActiveJobs == {j \in Job : rows[j].status = "active"}
\* run_count < max_runs, or no limit at all.
BugLimitOffByOne(row) == row.limit = 0 \/ row.runs <= row.limit
UnderLimit(row) == row.limit = 0 \/ row.runs < row.limit
\* A row matched by no WHERE clause is left alone.
Updated(j, row) == IF Exists(j) THEN [rows EXCEPT ![j] = row] ELSE rows

At(p, place) == proc[p].at = place
Begin(p, record) == At(p, "idle") /\ proc' = [proc EXCEPT ![p] = record]
Goto(p, place) == proc' = [proc EXCEPT ![p].at = place]
Done(p) == proc' = [proc EXCEPT ![p] = Idle]

\* A statement that fails has no effect; a remote call that fails may have had
\* its effect.
Fault == faults < MaxFaults /\ faults' = faults + 1 /\ UNCHANGED crashes
NoFault == UNCHANGED <<faults, crashes>>

\* scheduleEvery in the object of session s makes a live alarm under a fresh id,
NewAlarm(j, s, id) ==
  /\ lastAlarm < MaxAlarms
  /\ id = lastAlarm + 1
  /\ lastAlarm' = id
  /\ alarms' = alarms \cup {[id |-> id, job |-> j, session |-> s]}
  /\ UNCHANGED drifted
\* or answers with an alarm it holds for the job: the SDK returns the one there
\* is when callback, interval and payload are the same, as they are unless the
\* owner has changed the prompt or the cadence.
SameAlarm(j, s, id) ==
  /\ [id |-> id, job |-> j, session |-> s] \in alarms
  /\ drifted' = TRUE
  /\ UNCHANGED <<alarms, lastAlarm>>
Schedule(j, s, id) == NewAlarm(j, s, id) \/ SameAlarm(j, s, id)
ScheduleFails(j, s) ==
  Fault /\ (UNCHANGED clock \/ \E id \in 1..MaxAlarms : NewAlarm(j, s, id))

\* cancelSchedule in the object of session s; an unknown id is ignored, and
\* schedule_id NULL makes no call.
Without(s, id) == {a \in alarms : ~(a.id = id /\ a.session = s)}
Cancel(s, id) == alarms' = Without(s, id) /\ UNCHANGED lastAlarm
CancelFails(s, id) ==
  id # 0 /\ Fault /\ alarms' \in {alarms, Without(s, id)} /\ UNCHANGED lastAlarm
\* No row knows that the alarm is gone.
Drift == drifted' = (drifted \/ alarms' # alarms)
\* A failure that the caller swallows.
TryCancel(s, id) ==
  /\ (Cancel(s, id) /\ NoFault) \/ CancelFails(s, id)
  /\ UNCHANGED drifted
-----------------------------------------------------------------------------
(* JobService.create *)

\* The reads: no row holds the key yet, the session is owned, quota is free.
BeginCreate(p, j, s, l, k) ==
  /\ j \notin born
  /\ k # None => \A i \in Job : rows[i].key # k
  /\ s \in sessions
  /\ Cardinality(ActiveJobs) < MaxActive
  /\ Begin(p, [Idle EXCEPT !.at = "create.insert", !.job = j, !.limit = l,
                           !.session = s, !.key = k])
  /\ born' = born \cup {j}
  /\ UNCHANGED <<rows, sessions, clock, ledger, dispatched, faults, crashes>>

\* The unique index on (owner, idempotency_key) refuses a second row.
CreateInsert(p) ==
  LET j == proc[p].job  k == proc[p].key  IN
  /\ At(p, "create.insert")
  /\ \/ /\ k # None => \A i \in Job : rows[i].key # k
        /\ rows' = [rows EXCEPT ![j] =
             [status |-> "active", runs |-> 0, limit |-> proc[p].limit,
              schedule |-> 0, session |-> proc[p].session, key |-> k]]
        /\ Goto(p, "create.schedule")
        /\ NoFault
     \/ /\ (k # None /\ (\E i \in Job : rows[i].key = k) /\ NoFault) \/ Fault
        /\ Done(p)
        /\ UNCHANGED rows
  /\ UNCHANGED <<born, sessions, clock, ledger, dispatched>>

CreateSchedule(p) ==
  /\ At(p, "create.schedule")
  /\ \/ \E id \in 1..MaxAlarms :
          /\ Schedule(proc[p].job, proc[p].session, id)
          /\ proc' = [proc EXCEPT ![p].at = "create.record", ![p].alarm = id]
          /\ NoFault
     \/ ScheduleFails(proc[p].job, proc[p].session) /\ Goto(p, "create.erase")
  /\ UNCHANGED <<store, ledger, dispatched>>

\* UPDATE schedule_id, then the evidence row: either may fail.
CreateRecord(p) ==
  LET j == proc[p].job
      recorded == Updated(j, [rows[j] EXCEPT !.schedule = proc[p].alarm])
  IN
  /\ At(p, "create.record")
  /\ \/ rows' = recorded /\ Done(p) /\ NoFault
     \/ rows' \in {rows, recorded} /\ Goto(p, "create.cancel") /\ Fault
  /\ UNCHANGED <<born, sessions, clock, ledger, dispatched>>

\* The catch block; the failure of either compensation is swallowed.
CreateCancel(p) ==
  /\ At(p, "create.cancel")
  /\ TryCancel(proc[p].session, proc[p].alarm)
  /\ Goto(p, "create.erase")
  /\ UNCHANGED <<store, ledger, dispatched>>

CreateErase(p) ==
  /\ At(p, "create.erase")
  /\ \/ rows' = [rows EXCEPT ![proc[p].job] = NoRow] /\ NoFault
     \/ UNCHANGED rows /\ Fault
  /\ Done(p)
  /\ UNCHANGED <<born, sessions, clock, ledger, dispatched>>
-----------------------------------------------------------------------------
(* JobService.update *)

BugUnknownStatus(row, limit) ==
  IF limit # 0 /\ row.runs >= limit THEN "finished" ELSE row.status
\* The status the update will write: decided by the row it has read.
UpdatedStatus(row, limit) ==
  IF limit # 0 /\ row.runs >= limit THEN "exhausted" ELSE row.status

BeginUpdate(p, j, s, l) ==
  /\ Exists(j)
  /\ s \in sessions
  /\ Begin(p, [Idle EXCEPT
       !.at = IF UpdatedStatus(rows[j], l) = "active"
              THEN "update.schedule" ELSE "update.write",
       !.job = j, !.row = rows[j], !.limit = l, !.session = s])
  /\ UNCHANGED <<store, clock, ledger, dispatched, faults, crashes>>

UpdateSchedule(p) ==
  /\ At(p, "update.schedule")
  /\ \/ \E id \in 1..MaxAlarms :
          /\ Schedule(proc[p].job, proc[p].session, id)
          /\ proc' = [proc EXCEPT ![p].at = "update.write", ![p].alarm = id]
          /\ NoFault
     \/ ScheduleFails(proc[p].job, proc[p].session) /\ Done(p)
  /\ UNCHANGED <<store, ledger, dispatched>>

BugUpdateRefunds(p) ==
  [proc[p].row EXCEPT
     !.status = UpdatedStatus(proc[p].row, proc[p].limit),
     !.limit = proc[p].limit, !.schedule = proc[p].alarm,
     !.session = proc[p].session]
\* The columns the UPDATE writes: run_count is not one of them.
UpdateColumns(p) ==
  [rows[proc[p].job] EXCEPT
     !.status = UpdatedStatus(proc[p].row, proc[p].limit),
     !.limit = proc[p].limit, !.schedule = proc[p].alarm,
     !.session = proc[p].session]

UpdateWrite(p) ==
  /\ At(p, "update.write")
  /\ \/ /\ rows' = Updated(proc[p].job, UpdateColumns(p))
        /\ IF proc[p].row.schedule # 0 THEN Goto(p, "update.retire") ELSE Done(p)
        /\ NoFault
     \/ /\ Fault
        /\ IF proc[p].alarm # 0 THEN Goto(p, "update.undo") ELSE Done(p)
        /\ UNCHANGED rows
  /\ UNCHANGED <<born, sessions, clock, ledger, dispatched>>

UpdateUndo(p) ==
  /\ At(p, "update.undo")
  /\ TryCancel(proc[p].session, proc[p].alarm)
  /\ Done(p)
  /\ UNCHANGED <<store, ledger, dispatched>>

BugRollsBackUpdate(p) ==
  /\ At(p, "update.retire")
  /\ \/ /\ Cancel(proc[p].row.session, proc[p].row.schedule)
        /\ UNCHANGED rows
        /\ NoFault
     \/ /\ alarms' = {a \in Without(proc[p].row.session, proc[p].row.schedule) :
                       a.id # proc[p].alarm}
        /\ rows' = Updated(proc[p].job, [rows[proc[p].job] EXCEPT
                                           !.schedule = proc[p].row.schedule])
        /\ UNCHANGED lastAlarm
        /\ Fault
  /\ Done(p)
  /\ UNCHANGED <<born, sessions, drifted, ledger, dispatched>>
\* The old alarm is cancelled after the new row is durable, once more when
\* the first call fails.
UpdateRetire(p) ==
  /\ At(p, "update.retire")
  /\ \/ Cancel(proc[p].row.session, proc[p].row.schedule) /\ NoFault /\ Done(p)
     \/ /\ CancelFails(proc[p].row.session, proc[p].row.schedule)
        /\ Goto(p, "update.retry")
  /\ UNCHANGED drifted
  /\ UNCHANGED <<store, ledger, dispatched>>

UpdateRetry(p) ==
  /\ At(p, "update.retry")
  /\ TryCancel(proc[p].row.session, proc[p].row.schedule)
  /\ Done(p)
  /\ UNCHANGED <<store, ledger, dispatched>>
-----------------------------------------------------------------------------
(* JobService.setPaused *)

BeginPause(p, j) ==
  /\ rows[j].status = "active"
  /\ Begin(p, [Idle EXCEPT !.at = "pause.cancel", !.job = j, !.row = rows[j]])
  /\ UNCHANGED <<store, clock, ledger, dispatched, faults, crashes>>

\* The call stands outside the try: when it fails the request ends, with the
\* row as it was.
PauseCancel(p) ==
  /\ At(p, "pause.cancel")
  /\ \/ /\ Cancel(proc[p].row.session, proc[p].row.schedule)
        /\ NoFault
        /\ Goto(p, "pause.write")
        /\ UNCHANGED drifted
     \/ /\ CancelFails(proc[p].row.session, proc[p].row.schedule)
        /\ Drift
        /\ Done(p)
  /\ UNCHANGED <<store, ledger, dispatched>>

PauseWrite(p) ==
  LET j == proc[p].job IN
  /\ At(p, "pause.write")
  /\ \/ /\ rows' = Updated(j, [rows[j] EXCEPT !.status = "paused", !.schedule = 0])
        /\ NoFault
        /\ Done(p)
     \/ UNCHANGED rows /\ Fault /\ Goto(p, "restore.schedule")
  /\ UNCHANGED <<born, sessions, clock, ledger, dispatched>>

BeginResume(p, j) ==
  /\ rows[j].status = "paused"
  /\ Cardinality(ActiveJobs) < MaxActive
  /\ Begin(p, [Idle EXCEPT !.at = "resume.schedule", !.job = j, !.row = rows[j]])
  /\ UNCHANGED <<store, clock, ledger, dispatched, faults, crashes>>

ResumeSchedule(p) ==
  /\ At(p, "resume.schedule")
  /\ \/ \E id \in 1..MaxAlarms :
          /\ Schedule(proc[p].job, proc[p].row.session, id)
          /\ proc' = [proc EXCEPT ![p].at = "resume.write", ![p].alarm = id]
          /\ NoFault
     \/ ScheduleFails(proc[p].job, proc[p].row.session) /\ Done(p)
  /\ UNCHANGED <<store, ledger, dispatched>>

ResumeWrite(p) ==
  LET j == proc[p].job IN
  /\ At(p, "resume.write")
  /\ \/ /\ rows' = Updated(j, [rows[j] EXCEPT !.status = "active",
                                              !.schedule = proc[p].alarm])
        /\ NoFault
        /\ Done(p)
     \/ UNCHANGED rows /\ Fault /\ Goto(p, "resume.undo")
  /\ UNCHANGED <<born, sessions, clock, ledger, dispatched>>

ResumeUndo(p) ==
  /\ At(p, "resume.undo")
  /\ TryCancel(proc[p].row.session, proc[p].alarm)
  /\ Done(p)
  /\ UNCHANGED <<store, ledger, dispatched>>

\* The catch blocks of pause and delete put a new alarm in the place of the
\* one they cancelled, best effort.
RestoreSchedule(p) ==
  /\ At(p, "restore.schedule")
  /\ \/ \E id \in 1..MaxAlarms :
          /\ Schedule(proc[p].job, proc[p].row.session, id)
          /\ proc' = [proc EXCEPT ![p].at = "restore.record", ![p].alarm = id]
          /\ NoFault
     \/ ScheduleFails(proc[p].job, proc[p].row.session) /\ Done(p)
  /\ UNCHANGED <<store, ledger, dispatched>>

RestoreRecord(p) ==
  LET j == proc[p].job IN
  /\ At(p, "restore.record")
  /\ \/ rows' = Updated(j, [rows[j] EXCEPT !.schedule = proc[p].alarm]) /\ NoFault
     \/ UNCHANGED rows /\ Fault
  /\ Done(p)
  /\ UNCHANGED <<born, sessions, clock, ledger, dispatched>>
-----------------------------------------------------------------------------
(* JobService.delete *)

BeginDelete(p, j) ==
  /\ Exists(j)
  /\ Begin(p, [Idle EXCEPT !.at = "delete.cancel", !.job = j, !.row = rows[j]])
  /\ UNCHANGED <<store, clock, ledger, dispatched, faults, crashes>>

\* Outside the try, like that of a pause.
DeleteCancel(p) ==
  /\ At(p, "delete.cancel")
  /\ \/ /\ Cancel(proc[p].row.session, proc[p].row.schedule)
        /\ NoFault
        /\ Goto(p, "delete.erase")
        /\ UNCHANGED drifted
     \/ /\ CancelFails(proc[p].row.session, proc[p].row.schedule)
        /\ Drift
        /\ Done(p)
  /\ UNCHANGED <<store, ledger, dispatched>>

\* Evidence, then DELETE; when one fails the row stays and, if it was active,
\* gets a new alarm.
DeleteErase(p) ==
  /\ At(p, "delete.erase")
  /\ \/ rows' = [rows EXCEPT ![proc[p].job] = NoRow] /\ NoFault /\ Done(p)
     \/ /\ UNCHANGED rows
        /\ Fault
        /\ IF proc[p].row.status = "active" THEN Goto(p, "restore.schedule") ELSE Done(p)
  /\ UNCHANGED <<born, sessions, clock, ledger, dispatched>>
-----------------------------------------------------------------------------
(* JobService.run and runJobNow *)

\* The read of the row and, with a key, of the reservation under it.  A run
\* that is settled is answered from its record, one whose lease holds is
\* refused: neither changes anything.
BeginRun(p, j, k) ==
  /\ Exists(j)
  /\ k # None => events[<<j, k>>] \in {"none", "expired"}
  /\ Begin(p, [Idle EXCEPT
       !.at = IF k = None THEN "run.claim"
              ELSE IF events[<<j, k>>] = "none" THEN "run.reserve" ELSE "run.renew",
       !.job = j, !.row = rows[j], !.session = rows[j].session, !.key = k])
  /\ UNCHANGED <<store, clock, ledger, dispatched, faults, crashes>>

BugNoUniqueIndex(e) == FALSE
\* The unique index on (owner, job, action, key) of job_events.
Reserved(e) == events[e] # "none"

\* INSERT of the reservation; a second one is refused.
RunReserve(p) ==
  LET e == <<proc[p].job, proc[p].key>> IN
  /\ At(p, "run.reserve")
  /\ \/ /\ ~Reserved(e)
        /\ events' = [events EXCEPT ![e] = "pending"]
        /\ Goto(p, "run.claim")
        /\ NoFault
     \/ /\ (Reserved(e) /\ NoFault) \/ Fault
        /\ Done(p)
        /\ UNCHANGED events
  /\ UNCHANGED <<store, clock, lapses, dispatched>>

\* UPDATE of a reservation read as expired, whatever it is by now.
RunRenew(p) ==
  /\ At(p, "run.renew")
  /\ \/ /\ events' = [events EXCEPT ![<<proc[p].job, proc[p].key>>] = "pending"]
        /\ Goto(p, "run.claim")
        /\ NoFault
     \/ Fault /\ Done(p) /\ UNCHANGED events
  /\ UNCHANGED <<store, clock, lapses, dispatched>>

\* RUN_LEASE_MS passes before the execution that holds the key answers.
LeaseExpires(e) ==
  /\ events[e] = "pending"
  /\ lapses[e] < MaxLapses
  /\ events' = [events EXCEPT ![e] = "expired"]
  /\ lapses' = [lapses EXCEPT ![e] = @ + 1]
  /\ UNCHANGED <<store, clock, dispatched, proc, faults, crashes>>

\* What claimRecurringJobRun writes to the row it matched.
Claimed(row) ==
  IF row.limit # 0 /\ row.runs + 1 >= row.limit
  THEN [row EXCEPT !.runs = @ + 1, !.status = "exhausted", !.schedule = 0]
  ELSE [row EXCEPT !.runs = @ + 1]

BugClaimByStaleRow(p) == proc[p].row
\* The UPDATE tests and changes the row as it is now, in one statement.
RowAtClaim(p) == rows[proc[p].job]

\* An execution whose claim fails goes on to record the refusal under its
\* key, if it has one.
RunClaim(p) ==
  LET row == RowAtClaim(p)
      claimable == row.status = "active" /\ UnderLimit(row)
  IN
  /\ At(p, "run.claim")
  /\ \/ /\ claimable
        /\ row.runs < MaxRuns
        /\ rows' = [rows EXCEPT ![proc[p].job] = Claimed(row)]
        /\ proc' = [proc EXCEPT
             ![p].at = IF Claimed(row).status = "exhausted"
                       THEN "run.cancel" ELSE "run.inject",
             ![p].run = row.runs + 1]
        /\ NoFault
     \/ /\ ~claimable
        /\ IF proc[p].key # None THEN Goto(p, "run.settle") ELSE Done(p)
        /\ UNCHANGED rows
        /\ NoFault
     \/ UNCHANGED rows /\ Done(p) /\ Fault
  /\ UNCHANGED <<born, sessions, clock, ledger, dispatched>>

\* The last run cancels the alarm of the row read before the claim, in the
\* session of that row or, from an alarm, in the one that called back.
RunCancel(p) ==
  /\ At(p, "run.cancel")
  /\ TryCancel(proc[p].session, proc[p].row.schedule)
  /\ Goto(p, "run.inject")
  /\ UNCHANGED <<store, ledger, dispatched>>

\* Injection into the target session, then the run columns of the row (times
\* and error text, which nothing here depends on).  An injection that fails,
\* delivered or not, is recorded; when no session could be made for it the
\* request throws and leaves its reservation as it is.
RunInject(p) ==
  LET answered == IF proc[p].key # None THEN Goto(p, "run.settle") ELSE Done(p) IN
  /\ At(p, "run.inject")
  /\ \/ /\ dispatched' = dispatched \cup
             {[job |-> proc[p].job, run |-> proc[p].run, key |-> proc[p].key]}
        /\ answered
        /\ NoFault \/ Fault
     \/ UNCHANGED dispatched /\ (answered \/ Done(p)) /\ Fault
  /\ UNCHANGED <<store, clock, ledger>>

\* The authoritative result replaces the reservation.
RunSettle(p) ==
  /\ At(p, "run.settle")
  /\ \/ events' = [events EXCEPT ![<<proc[p].job, proc[p].key>>] = "done"] /\ NoFault
     \/ UNCHANGED events /\ Fault
  /\ Done(p)
  /\ UNCHANGED <<store, clock, lapses, dispatched>>

(* MyAgent.runRecurringPrompt: an alarm whose row is gone or not active does
   nothing, and is not cancelled.  A job that makes a session of its own for
   each run goes by runJobNow, which looks at the session of the row. *)
AlarmFires(p, a) ==
  /\ rows[a.job].status = "active"
  /\ \E s \in {a.session, rows[a.job].session} :
       Begin(p, [Idle EXCEPT !.at = "run.claim", !.job = a.job,
                             !.row = rows[a.job], !.session = s])
  /\ UNCHANGED <<store, clock, ledger, dispatched, faults, crashes>>
-----------------------------------------------------------------------------
(* DELETE /api/sessions/:id *)

JobsOf(s) == {j \in Job : Exists(j) /\ rows[j].session = s}

BeginPurge(p, s) ==
  /\ s \in sessions
  /\ Begin(p, [Idle EXCEPT !.at = "purge.cancel", !.session = s,
                           !.todo = {rows[j].schedule : j \in JobsOf(s)} \ {0}])
  /\ UNCHANGED <<store, clock, ledger, dispatched, faults, crashes>>

\* The loop over the alarms; the first call that fails ends the request.
PurgeCancel(p) ==
  /\ At(p, "purge.cancel")
  /\ \/ /\ proc[p].todo = {}
        /\ Goto(p, "purge.jobs")
        /\ UNCHANGED clock
        /\ NoFault
     \/ \E id \in proc[p].todo :
          /\ \/ /\ Cancel(proc[p].session, id)
                /\ proc' = [proc EXCEPT ![p].todo = @ \ {id}]
                /\ NoFault
             \/ CancelFails(proc[p].session, id) /\ Done(p)
          /\ Drift
  /\ UNCHANGED <<store, ledger, dispatched>>

PurgeJobs(p) ==
  /\ At(p, "purge.jobs")
  /\ \/ /\ rows' = [j \in Job |-> IF j \in JobsOf(proc[p].session) THEN NoRow ELSE rows[j]]
        /\ Goto(p, "purge.session")
        /\ NoFault
     \/ UNCHANGED rows /\ Done(p) /\ Fault
  /\ UNCHANGED <<born, sessions, clock, ledger, dispatched>>

PurgeSession(p) ==
  /\ At(p, "purge.session")
  /\ \/ sessions' = sessions \ {proc[p].session} /\ NoFault
     \/ UNCHANGED sessions /\ Fault
  /\ Done(p)
  /\ UNCHANGED <<rows, born, clock, ledger, dispatched>>
-----------------------------------------------------------------------------
\* The isolate that runs an execution dies; nothing resumes it.
Crash(p) ==
  /\ ~At(p, "idle")
  /\ crashes < MaxCrashes
  /\ crashes' = crashes + 1
  /\ Done(p)
  /\ UNCHANGED <<store, clock, ledger, dispatched, faults>>

Request(p) ==
  \/ \E j \in Job, s \in Session, l \in Limits, k \in RunKey \cup {None} :
       BeginCreate(p, j, s, l, k)
  \/ \E j \in Job, s \in Session, l \in Limits : BeginUpdate(p, j, s, l)
  \/ \E j \in Job : BeginPause(p, j) \/ BeginResume(p, j) \/ BeginDelete(p, j)
  \/ \E j \in Job, k \in RunKey \cup {None} : BeginRun(p, j, k)
  \/ \E s \in Deletable : BeginPurge(p, s)

Step(p) ==
  \/ CreateInsert(p) \/ CreateSchedule(p) \/ CreateRecord(p)
  \/ CreateCancel(p) \/ CreateErase(p)
  \/ UpdateSchedule(p) \/ UpdateWrite(p) \/ UpdateUndo(p)
  \/ UpdateRetire(p) \/ UpdateRetry(p)
  \/ PauseCancel(p) \/ PauseWrite(p)
  \/ ResumeSchedule(p) \/ ResumeWrite(p) \/ ResumeUndo(p)
  \/ RestoreSchedule(p) \/ RestoreRecord(p)
  \/ DeleteCancel(p) \/ DeleteErase(p)
  \/ RunReserve(p) \/ RunRenew(p) \/ RunClaim(p) \/ RunCancel(p)
  \/ RunInject(p) \/ RunSettle(p)
  \/ PurgeCancel(p) \/ PurgeJobs(p) \/ PurgeSession(p)

Next ==
  \/ \E p \in Proc : Request(p) \/ Step(p) \/ Crash(p)
  \/ \E p \in Proc, a \in alarms : AlarmFires(p, a)
  \/ \E e \in Job \X RunKey : LeaseExpires(e)

Spec == Init /\ [][Next]_vars

\* An execution that has begun goes on, unless its isolate dies.
FairSpec == Spec /\ \A p \in Proc : WF_vars(Step(p))
-----------------------------------------------------------------------------
(***************************************************************************)
(* Properties.                                                             *)
(***************************************************************************)

\* The places where an execution works on one job.
Working == Place \ {"idle", "purge.cancel", "purge.jobs", "purge.session"}

\* Every variable has its type, and an execution at work on a job names it.
TypeOK ==
  /\ rows \in [Job -> Row]
  /\ born \subseteq Job
  /\ sessions \subseteq Session
  /\ alarms \subseteq Alarm
  /\ lastAlarm \in Nat
  /\ drifted \in BOOLEAN
  /\ events \in [Job \X RunKey -> {"none", "pending", "expired", "done"}]
  /\ lapses \in [Job \X RunKey -> Nat]
  /\ dispatched \subseteq Dispatch
  /\ proc \in [Proc -> Execution]
  /\ \A p \in Proc : proc[p].at \in Working => proc[p].job \in Job
  /\ faults \in Nat /\ crashes \in Nat

HoldsClaim(p) == proc[p].at \in {"run.cancel", "run.inject"}

\* A claimed run is injected at most once, and by the execution that claimed
\* it: however requests, alarms, retries and deletions interleave, no two
\* executions hold the same run of a job, and none holds a run whose prompt
\* is already in a session (claimRecurringJobRun, runJobNow).
RunClaimedOnce ==
  /\ \A p, q \in Proc :
       HoldsClaim(p) /\ HoldsClaim(q) /\ proc[p].job = proc[q].job
         /\ proc[p].run = proc[q].run => p = q
  /\ \A p \in Proc, d \in dispatched :
       HoldsClaim(p) => ~(d.job = proc[p].job /\ d.run = proc[p].run)

\* Why it holds: a job id is drawn once, so nothing is known of a job before
\* its row is inserted, and from then on its claims and injections never run
\* ahead of the run_count of its row.
Untouched(j) ==
  /\ ~Exists(j)
  /\ \A d \in dispatched : d.job # j
  /\ \A p \in Proc : HoldsClaim(p) => proc[p].job # j

FreshIds ==
  /\ \A j \in Job \ born : Untouched(j)
  /\ \A p \in Proc : At(p, "create.insert") =>
       /\ proc[p].job \in born
       /\ Untouched(proc[p].job)
       /\ \A q \in Proc : At(q, "create.insert") /\ proc[q].job = proc[p].job => p = q

CountedRuns ==
  /\ \A p \in Proc : HoldsClaim(p) /\ Exists(proc[p].job)
       => proc[p].run <= rows[proc[p].job].runs
  /\ \A d \in dispatched : Exists(d.job) => d.run <= rows[d.job].runs

\* The inductive strengthening of RunClaimedOnce.
RunInv == TypeOK /\ FreshIds /\ CountedRuns /\ RunClaimedOnce

LimitMax == CHOOSE m \in Limits : \A l \in Limits : l <= m

\* When every max_runs the owner sets is at most m, no job is ever run more
\* than m times, even where an update or a pause that read the row before the
\* last run writes it afterwards (the WHERE of claimRecurringJobRun).
RunLimitHonoured ==
  0 \notin Limits =>
    \A j \in Job : Cardinality({d \in dispatched : d.job = j}) <= LimitMax

\* A run that was claimed is never refunded: the run_count of a row stays or
\* grows by one, so a stale update or a pause cannot give a job more runs
\* (update and setPaused of job-service.ts).
RunsNeverRefunded ==
  [][\A j \in Job : Exists(j) /\ rows'[j].status # "none"
       => rows'[j].runs \in {rows[j].runs, rows[j].runs + 1}]_vars

Injected(j, k) == {d \in dispatched : d.job = j /\ d.key = k}

\* Under one idempotency key a prompt is injected once, however many requests
\* retry it and whatever fails, as long as no lease of the key has run out.
KeyedRunOnce ==
  \A j \in Job, k \in RunKey : lapses[<<j, k>>] = 0 =>
    Cardinality(Injected(j, k)) <= 1

\* Between these steps an execution has cancelled or not yet made an alarm.
InWindow(p, j) ==
  /\ proc[p].job = j
  /\ proc[p].at \in {"create.schedule", "create.erase", "pause.write",
                     "restore.schedule", "delete.erase"}

\* An active job does not fall silent: unless an execution is between
\* cancelling its alarm and the next write, some live alarm calls back for it.
\* CHANGELOG.md:177 has it that recurring jobs survive partial scheduler
\* failures, where one was left silently inactive before.  They do not:
\* a cancellation by pause or delete that takes effect and then fails leaves an
\* active row with a dead alarm, and an update that gets its own alarm back
\* from the scheduler retires it.
ActiveJobsTick ==
  \A j \in ActiveJobs :
    \/ \E a \in alarms : a.job = j
    \/ \E p \in Proc : InWindow(p, j)

\* What the compensations do achieve (docs/feature-matrix.md:61, and the order of
\* the steps in JobService: the replacement first, the old alarm last).  However
\* requests, runs and alarms interleave, an active job does not fall silent for
\* one failing statement or call, even one that was done, while no isolate has
\* died and nothing has drifted: no cancellation by a pause or a delete was done
\* and then failed, no scheduling answered with an alarm that was there, and no
\* deletion of a session has cancelled an alarm.
FailuresCompensated ==
  ~drifted /\ faults <= 1 /\ crashes = 0 => ActiveJobsTick
=============================================================================
