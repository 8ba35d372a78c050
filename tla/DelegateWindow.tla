--------------------------- MODULE DelegateWindow ---------------------------
(***************************************************************************)
(* runDelegatesInParallel (delegate-serial.ts): up to a thousand child     *)
(* tasks run inside an adaptive window.  A task takes a slot or waits in a *)
(* queue; a rate limit halves the window, any other end widens it by one;  *)
(* a rate-limited task backs off and tries again a bounded number of       *)
(* times, an interrupted one at most once.                                 *)
(*                                                                         *)
(* The JavaScript is single threaded: everything between two awaits is one *)
(* step here, the hand-over of slots included.  The microtask between      *)
(* taking a slot and launching the child is part of the step that took it. *)
(***************************************************************************)
EXTENDS Integers, Sequences, FiniteSets

CONSTANTS
  N,                   \* tasks of the batch
  InitialConcurrency,  \* DELEGATE_INITIAL_CONCURRENCY
  RateLimitRetries     \* DELEGATE_RATE_LIMIT_RETRIES

ASSUME BatchAssumption ==
  N \in Nat \ {0} /\ InitialConcurrency \in Nat \ {0} /\ RateLimitRetries \in Nat

VARIABLES
  phase,     \* where runOne stands for each task
  attempts,  \* launches of each task
  limited,   \* rate limits each task has backed off from
  limit, active, waiters,  \* AdmissionState
  late,      \* the batch deadline has passed
  result     \* what runOne returned

vars == <<phase, attempts, limited, limit, active, waiters, late, result>>
-----------------------------------------------------------------------------
Task == 1..N
Smaller(a, b) == IF a <= b THEN a ELSE b
Larger(a, b) == IF a >= b THEN a ELSE b
Ceiling == Larger(1, Smaller(InitialConcurrency, N))

\* tasks.map starts them all, in order, before anything else happens.
Init ==
  /\ phase = [i \in Task |-> IF i <= Ceiling THEN "running" ELSE "waiting"]
  /\ attempts = [i \in Task |-> IF i <= Ceiling THEN 1 ELSE 0]
  /\ limited = [i \in Task |-> 0]
  /\ limit = Ceiling
  /\ active = Ceiling
  /\ waiters = [m \in 1..(N - Ceiling) |-> Ceiling + m]
  /\ late = FALSE
  /\ result = [i \in Task |-> "none"]
-----------------------------------------------------------------------------
\* How many waiters get a slot when `busy` slots are taken of `size`.
BugHandOverOnlyOne(size, busy) ==
  Smaller(Smaller(1, Len(waiters)), Larger(0, size - busy))
BugHandOverToCeiling(size, busy) == Smaller(Len(waiters), Larger(0, Ceiling - busy))
HandedOver(size, busy) == Smaller(Len(waiters), Larger(0, size - busy))
Admitted(n) == {waiters[m] : m \in 1..n}
StillWaiting(n) == SubSeq(waiters, n + 1, Len(waiters))

\* The first n waiters start; task i goes where the step sends it.
Move(n, i, place) ==
  phase' = [t \in Task |-> IF t = i THEN place
                           ELSE IF t \in Admitted(n) THEN "running" ELSE phase[t]]
Launch(S) ==
  attempts' = [t \in Task |-> IF t \in S THEN attempts[t] + 1 ELSE attempts[t]]
Answer(i, r) == result' = [result EXCEPT ![i] = r]

\* The loop of runOne past the deadline check: a slot now, or the queue.
\* `busy` slots are taken, and n waiters have just got theirs.
BugNoDeadlineCheck(i, n, busy) ==
  \/ /\ busy < limit
     /\ Move(n, i, "running") /\ Launch(Admitted(n) \cup {i})
     /\ active' = busy + 1
     /\ waiters' = StillWaiting(n)
     /\ UNCHANGED result
  \/ /\ busy >= limit
     /\ Move(n, i, "waiting") /\ Launch(Admitted(n))
     /\ active' = busy
     /\ waiters' = Append(StillWaiting(n), i)
     /\ UNCHANGED result
Again(i, n, busy) ==
  \/ /\ late
     /\ Move(n, i, "done") /\ Launch(Admitted(n))
     /\ active' = busy
     /\ waiters' = StillWaiting(n)
     /\ Answer(i, "deferred")
  \/ /\ ~late /\ busy < limit
     /\ Move(n, i, "running") /\ Launch(Admitted(n) \cup {i})
     /\ active' = busy + 1
     /\ waiters' = StillWaiting(n)
     /\ UNCHANGED result
  \/ /\ ~late /\ busy >= limit
     /\ Move(n, i, "waiting") /\ Launch(Admitted(n))
     /\ active' = busy
     /\ waiters' = Append(StillWaiting(n), i)
     /\ UNCHANGED result
-----------------------------------------------------------------------------
\* The child hit the shared rate limit: its slot is handed over, then the
\* window halves.
BugRetryOnceMore(i) == limited[i] > RateLimitRetries
GivesUp(i) == limited[i] >= RateLimitRetries

RateLimited(i) ==
  LET n == HandedOver(limit, active - 1) IN
  /\ phase[i] = "running"
  /\ limit' = Larger(1, limit \div 2)
  /\ active' = active - 1 + n
  /\ waiters' = StillWaiting(n)
  /\ Launch(Admitted(n))
  /\ IF GivesUp(i)
     THEN Move(n, i, "done") /\ Answer(i, "deferred") /\ UNCHANGED limited
     ELSE /\ Move(n, i, "backoff")
          /\ limited' = [limited EXCEPT ![i] = @ + 1]
          /\ UNCHANGED result
  /\ UNCHANGED late

\* The child was interrupted and is known to have stopped: one more attempt.
Interrupted(i) ==
  LET n == HandedOver(limit, active - 1) IN
  /\ phase[i] = "running"
  /\ attempts[i] < 2
  /\ Again(i, n, active - 1 + n)
  /\ UNCHANGED <<limited, limit, late>>

\* Any other end is the task's answer, and the window grows by one slot.
BugWidenPastCeiling == limit + 1
Widened == IF limit < Ceiling THEN limit + 1 ELSE limit

Finish(i) ==
  LET n == HandedOver(Widened, active - 1) IN
  /\ phase[i] = "running"
  /\ limit' = Widened
  /\ active' = active - 1 + n
  /\ waiters' = StillWaiting(n)
  /\ Launch(Admitted(n))
  /\ Move(n, i, "done")
  /\ Answer(i, "answered")
  /\ UNCHANGED <<limited, late>>

\* runTask throws: the slot is released, the window is left as it is, and
\* Promise.all rejects the batch while the other tasks run on.
BugThrowKeepsSlot(i) ==
  /\ phase[i] = "running"
  /\ Move(0, i, "done")
  /\ Answer(i, "thrown")
  /\ UNCHANGED <<attempts, limited, limit, active, waiters, late>>
Throw(i) ==
  LET n == HandedOver(limit, active - 1) IN
  /\ phase[i] = "running"
  /\ active' = active - 1 + n
  /\ waiters' = StillWaiting(n)
  /\ Launch(Admitted(n))
  /\ Move(n, i, "done")
  /\ Answer(i, "thrown")
  /\ UNCHANGED <<limited, limit, late>>

BackoffEnds(i) ==
  /\ phase[i] = "backoff"
  /\ Again(i, 0, active)
  /\ UNCHANGED <<limited, limit, late>>

DeadlinePasses == late' = TRUE /\ ~late
  /\ UNCHANGED <<phase, attempts, limited, limit, active, waiters, result>>

\* A child that runs settles, by its own end or by DELEGATE_TIMEOUT_MS.
Settles(i) == RateLimited(i) \/ Interrupted(i) \/ Finish(i) \/ Throw(i)

Next ==
  \/ \E i \in Task : Settles(i) \/ BackoffEnds(i)
  \/ DeadlinePasses

Fairness == \A i \in Task : WF_vars(Settles(i)) /\ WF_vars(BackoffEnds(i))
Spec == Init /\ [][Next]_vars
FairSpec == Spec /\ Fairness
-----------------------------------------------------------------------------
Running == {i \in Task : phase[i] = "running"}

\* Every variable has its type; the window stays between 1 and the ceiling.
TypeOK ==
  /\ phase \in [Task -> {"running", "waiting", "backoff", "done"}]
  /\ attempts \in [Task -> Nat]
  /\ limited \in [Task -> Nat]
  /\ limit \in 1..Ceiling
  /\ active \in Int
  /\ waiters \in Seq(Task)
  /\ late \in BOOLEAN
  /\ result \in [Task -> {"none", "answered", "deferred", "thrown"}]

\* The counter of the window counts the children that run, and the queue
\* holds exactly the tasks that wait, each once: no slot leaks on any way out
\* of runOne, however halving, widening, retries and failures interleave.
SlotsAccounted ==
  /\ active = Cardinality(Running)
  /\ {waiters[m] : m \in 1..Len(waiters)} = {i \in Task : phase[i] = "waiting"}
  /\ \A m, n \in 1..Len(waiters) : waiters[m] = waiters[n] => m = n

\* Why AttemptsBounded holds: only tasks that wait are in the queue, each
\* once, and a task that is not running has been launched at most once more
\* often than it was rate limited.
QueueOK ==
  /\ \A m \in 1..Len(waiters) : phase[waiters[m]] = "waiting"
  /\ \A m, n \in 1..Len(waiters) : waiters[m] = waiters[n] => m = n

LaunchesCounted ==
  \A i \in Task :
    /\ limited[i] <= RateLimitRetries
    /\ attempts[i] <= limited[i] + 2
    /\ phase[i] \in {"waiting", "backoff"} => attempts[i] <= limited[i] + 1

\* The inductive strengthening of AttemptsBounded.
LaunchInv == TypeOK /\ QueueOK /\ LaunchesCounted

\* A task waits only while the window is full: a slot that becomes free by a
\* release or by widening is never left unused (release, widen).
NoIdleSlot == waiters # <<>> => active >= limit

\* A task is launched at most 2 + DELEGATE_RATE_LIMIT_RETRIES times: what the
\* schema of the result demands of `attempts`, and a batch with one more would
\* be rejected whole.  It needs the count of interruptions and of rate limits
\* together, for the two kinds of retry mix.
AttemptsBounded == \A i \in Task : attempts[i] <= 2 + RateLimitRetries

\* The inductive strengthening of SlotsAccounted, of NoIdleSlot and of the
\* promise: the window has never more slots than its ceiling, and a task has
\* its answer exactly when its runOne has returned.
WindowInv ==
  /\ LaunchInv
  /\ SlotsAccounted
  /\ NoIdleSlot
  /\ active <= Ceiling
  /\ \A i \in Task : phase[i] = "done" <=> result[i] # "none"

\* Past the deadline no task is launched again: one starts only if it was
\* already waiting for its slot when the deadline passed.
NoRetryPastDeadline ==
  [][\A i \in Task : late /\ attempts'[i] # attempts[i]
       => phase[i] = "waiting"]_vars

\* Every task gets its answer: no task is forgotten in the queue or in a
\* backoff, if children settle and timers fire.
EveryTaskAnswered == <>(\A i \in Task : result[i] # "none")

\* The batch implements its promise (TaskWindow): a task starts only where all
\* that run fit in the window as it is, halved windows included, and none after
\* its answer.
Answered == {i \in Task : result[i] # "none"}
Promise == INSTANCE TaskWindow WITH
  Task <- Task, Widest <- Ceiling, running <- Running, answered <- Answered,
  width <- limit, launches <- attempts
KeepsPromise == Promise!Spec
=============================================================================
