------------------------------ MODULE ToolsProofs ------------------------------
(* Proofs about two of the tools a turn may call: the delegated batch           *)
(* (DelegateWindow), for every batch size, window and number of retries, and    *)
(* the machine relay (MachineHost), for any number of connections, calls and    *)
(* catalogs, any limit on pending calls and any failures.                       *)
EXTENDS DelegateWindow, MachineHost, Functions, SequenceTheorems, FunctionTheorems,
        FiniteSetTheorems, TLAPS

-----------------------------------------------------------------------------
(* The delegated batch.                                                        *)

\* The window is at least one slot wide.
LEMMA CeilingOK == Ceiling \in Nat \ {0} /\ Ceiling <= N
BY BatchAssumption DEF Ceiling, Larger, Smaller

\* A hand-over starts no more waiters than there are.
LEMMA HandedOverOK ==
  ASSUME waiters \in Seq(Task), NEW size \in Int, NEW busy \in Int
  PROVE  HandedOver(size, busy) \in 0..Len(waiters)
<1>1. Len(waiters) \in Nat
  BY LenProperties
<1> QED BY <1>1 DEF HandedOver, Smaller, Larger

\* What is left of the queue after its first n tasks have left it.
LEMMA RestOfQueue ==
  ASSUME waiters \in Seq(Task), NEW n \in 0..Len(waiters)
  PROVE  /\ StillWaiting(n) \in Seq(Task)
         /\ Len(StillWaiting(n)) = Len(waiters) - n
         /\ \A m \in 1..(Len(waiters) - n) : StillWaiting(n)[m] = waiters[n + m]
<1>1. Len(waiters) \in Nat /\ \A m \in 1..Len(waiters) : waiters[m] \in Task
  BY LenProperties, ElementOfSeq
<1>2. \A m \in (n + 1)..Len(waiters) : waiters[m] \in Task
  BY <1>1
<1>3. /\ SubSeq(waiters, n + 1, Len(waiters)) \in Seq(Task)
      /\ Len(SubSeq(waiters, n + 1, Len(waiters)))
           = IF n + 1 <= Len(waiters) THEN Len(waiters) - (n + 1) + 1 ELSE 0
      /\ \A m \in 1..(Len(waiters) - (n + 1) + 1) :
           SubSeq(waiters, n + 1, Len(waiters))[m] = waiters[n + 1 + m - 1]
  BY <1>1, <1>2, SubSeqProperties
<1>4. \A m \in 1..(Len(waiters) - n) :
        SubSeq(waiters, n + 1, Len(waiters))[m] = waiters[n + m]
  <2> TAKE m \in 1..(Len(waiters) - n)
  <2>1. m \in 1..(Len(waiters) - (n + 1) + 1) /\ n + 1 + m - 1 = n + m
    BY <1>1
  <2> QED BY <2>1, <1>3
<1> QED BY <1>1, <1>3, <1>4 DEF StillWaiting

\* The tasks that got a slot waited for one.
LEMMA AdmittedWaited ==
  ASSUME waiters \in Seq(Task), QueueOK, NEW n \in 0..Len(waiters),
         NEW t \in Admitted(n)
  PROVE  t \in Task /\ phase[t] = "waiting"
<1>1. PICK m \in 1..n : t = waiters[m]
  BY DEF Admitted
<1>2. Len(waiters) \in Nat /\ m \in 1..Len(waiters)
  BY LenProperties
<1> QED BY <1>1, <1>2, ElementOfSeq DEF QueueOK

\* Those left in the queue are neither among them nor twice in the queue.
LEMMA RestWaits ==
  ASSUME waiters \in Seq(Task), QueueOK, NEW n \in 0..Len(waiters),
         NEW m \in 1..Len(StillWaiting(n))
  PROVE  /\ StillWaiting(n)[m] \in Task
         /\ StillWaiting(n)[m] \notin Admitted(n)
         /\ phase[StillWaiting(n)[m]] = "waiting"
         /\ \A k \in 1..Len(StillWaiting(n)) :
              StillWaiting(n)[m] = StillWaiting(n)[k] => m = k
<1>1. Len(waiters) \in Nat /\ Len(StillWaiting(n)) = Len(waiters) - n
  BY LenProperties, RestOfQueue
<1>2. n + m \in 1..Len(waiters) /\ StillWaiting(n)[m] = waiters[n + m]
  BY <1>1, RestOfQueue
<1>3. waiters[n + m] \notin Admitted(n)
  <2> SUFFICES ASSUME NEW k \in 1..n, waiters[n + m] = waiters[k]
               PROVE  FALSE
    BY DEF Admitted
  <2>1. k \in 1..Len(waiters)
    BY <1>1
  <2>2. n + m = k
    BY <1>2, <2>1 DEF QueueOK
  <2> QED BY <2>2
<1>4. ASSUME NEW k \in 1..Len(StillWaiting(n)),
             StillWaiting(n)[m] = StillWaiting(n)[k]
      PROVE  m = k
  <2>1. n + k \in 1..Len(waiters)
    BY <1>1
  <2>2. StillWaiting(n)[k] = waiters[n + k]
    BY RestOfQueue
  <2>3. n + m = n + k
    BY <1>2, <1>4, <2>1, <2>2 DEF QueueOK
  <2> QED BY <2>3
<1> QED BY <1>2, <1>3, <1>4, ElementOfSeq DEF QueueOK
-----------------------------------------------------------------------------
\* Task i goes to a place other than the queue, the first n waiters start.
LEMMA LeaveQueueOK ==
  ASSUME TypeOK, QueueOK, NEW n \in 0..Len(waiters),
         NEW i \in Task, phase[i] # "waiting",
         NEW place \in {"running", "backoff", "done"},
         Move(n, i, place), waiters' = StillWaiting(n)
  PROVE  waiters' \in Seq(Task) /\ QueueOK'
<1>1. waiters \in Seq(Task)
  BY DEF TypeOK
<1>2. \A m \in 1..Len(waiters') : phase'[waiters'[m]] = "waiting"
  <2> TAKE m \in 1..Len(waiters')
  <2>1. /\ waiters'[m] \in Task /\ waiters'[m] \notin Admitted(n)
        /\ phase[waiters'[m]] = "waiting"
    BY <1>1, RestWaits
  <2> QED BY <2>1 DEF Move
<1>3. \A m, k \in 1..Len(waiters') : waiters'[m] = waiters'[k] => m = k
  BY <1>1, RestWaits
<1> QED BY <1>1, <1>2, <1>3, RestOfQueue DEF QueueOK

\* Task i joins the queue behind those that are left in it.
LEMMA JoinQueueOK ==
  ASSUME TypeOK, QueueOK, NEW n \in 0..Len(waiters),
         NEW i \in Task, phase[i] # "waiting",
         Move(n, i, "waiting"), waiters' = Append(StillWaiting(n), i)
  PROVE  waiters' \in Seq(Task) /\ QueueOK'
<1> DEFINE rest == StillWaiting(n)
<1>1. waiters \in Seq(Task) /\ rest \in Seq(Task) /\ Len(rest) \in Nat
  BY RestOfQueue, LenProperties DEF TypeOK
<1>2. /\ waiters' \in Seq(Task) /\ Len(waiters') = Len(rest) + 1
      /\ \A m \in 1..Len(rest) : waiters'[m] = rest[m]
      /\ waiters'[Len(rest) + 1] = i
  BY <1>1, AppendProperties
<1>3. \A m \in 1..Len(rest) : /\ rest[m] \in Task /\ rest[m] \notin Admitted(n)
                              /\ phase[rest[m]] = "waiting" /\ rest[m] # i
  BY <1>1, RestWaits
<1>4. \A m \in 1..Len(waiters') : phase'[waiters'[m]] = "waiting"
  <2> TAKE m \in 1..Len(waiters')
  <2>1. CASE m \in 1..Len(rest)
    BY <2>1, <1>2, <1>3 DEF Move
  <2>2. CASE m = Len(rest) + 1
    BY <2>2, <1>2 DEF Move
  <2> QED BY <1>1, <1>2, <2>1, <2>2
<1>5. ASSUME NEW m \in 1..Len(waiters'), NEW k \in 1..Len(waiters'),
             waiters'[m] = waiters'[k]
      PROVE  m = k
  <2>1. CASE m \in 1..Len(rest) /\ k \in 1..Len(rest)
    BY <2>1, <1>1, <1>2, <1>5, RestWaits
  <2>2. CASE m = Len(rest) + 1 \/ k = Len(rest) + 1
    BY <2>2, <1>1, <1>2, <1>3, <1>5
  <2> QED BY <1>1, <1>2, <2>1, <2>2
<1> QED BY <1>2, <1>4, <1>5 DEF QueueOK
-----------------------------------------------------------------------------
\* The launches stay within the rate limits while task i moves and the first
\* n waiters start, if they do so for task i.
LEMMA CountsOK ==
  ASSUME LaunchInv, NEW n \in 0..Len(waiters), NEW i \in Task, phase[i] # "waiting",
         NEW place \in {"running", "waiting", "backoff", "done"},
         Move(n, i, place),
         NEW S, S = Admitted(n) \/ S = Admitted(n) \cup {i}, Launch(S),
         limited' \in [Task -> Nat],
         \A t \in Task : t # i => limited'[t] = limited[t],
         limited'[i] <= RateLimitRetries,
         attempts'[i] <= limited'[i] + 2,
         place \in {"waiting", "backoff"} => attempts'[i] <= limited'[i] + 1
  PROVE  /\ phase' \in [Task -> {"running", "waiting", "backoff", "done"}]
         /\ attempts' \in [Task -> Nat]
         /\ LaunchesCounted'
<1>1. /\ phase' \in [Task -> {"running", "waiting", "backoff", "done"}]
      /\ attempts' \in [Task -> Nat]
  BY DEF LaunchInv, TypeOK, Move, Launch
<1>2. ASSUME NEW t \in Task
      PROVE  /\ limited'[t] <= RateLimitRetries
             /\ attempts'[t] <= limited'[t] + 2
             /\ phase'[t] \in {"waiting", "backoff"} => attempts'[t] <= limited'[t] + 1
  <2>1. CASE t = i
    BY <2>1 DEF Move
  <2>2. CASE t # i /\ t \in Admitted(n)
    <3>1. phase[t] = "waiting"
      BY <2>2, AdmittedWaited DEF LaunchInv, TypeOK
    <3>2. attempts'[t] = attempts[t] + 1 /\ phase'[t] = "running"
      BY <2>2 DEF Launch, Move
    <3>3. limited[t] \in Nat /\ attempts[t] \in Nat /\ attempts[t] <= limited[t] + 1
      BY <3>1 DEF LaunchInv, TypeOK, LaunchesCounted
    <3>4. limited[t] <= RateLimitRetries
      BY DEF LaunchInv, LaunchesCounted
    <3> QED BY <2>2, <3>2, <3>3, <3>4
  <2>3. CASE t # i /\ t \notin Admitted(n)
    <3>1. attempts'[t] = attempts[t] /\ phase'[t] = phase[t]
      BY <2>3 DEF Launch, Move, LaunchInv, TypeOK
    <3> QED BY <2>3, <3>1 DEF LaunchInv, LaunchesCounted
  <2> QED BY <2>1, <2>2, <2>3
<1> QED BY <1>1, <1>2 DEF LaunchesCounted

\* A task that runs on its way through runOne: what its counters are.
LEMMA TaskCounts ==
  ASSUME LaunchInv, NEW i \in Task
  PROVE  /\ limited[i] \in Nat /\ attempts[i] \in Nat
         /\ limited[i] <= RateLimitRetries /\ attempts[i] <= limited[i] + 2
         /\ phase[i] = "backoff" => attempts[i] <= limited[i] + 1
BY DEF LaunchInv, TypeOK, LaunchesCounted

\* The sizes that the hand-overs compute with.
LEMMA WindowOK ==
  ASSUME TypeOK
  PROVE  /\ limit \in Nat \ {0} /\ limit <= Ceiling /\ active - 1 \in Int
         /\ Widened \in 1..Ceiling /\ Widened \in Int
         /\ Larger(1, limit \div 2) \in 1..Ceiling
         /\ waiters \in Seq(Task)
         /\ \A size, busy \in Int : HandedOver(size, busy) \in 0..Len(waiters)
<1>1. limit \in Nat \ {0} /\ limit <= Ceiling /\ Ceiling \in Nat \ {0}
  BY CeilingOK DEF TypeOK
<1>2. limit \div 2 \in Nat /\ limit \div 2 <= limit
  BY <1>1
<1>3. Larger(1, limit \div 2) \in 1..Ceiling
  BY <1>1, <1>2 DEF Larger
<1> QED BY <1>1, <1>3, HandedOverOK DEF TypeOK, Widened

\* The loop of runOne, entered by a task that has an attempt left.
LEMMA AgainOK ==
  ASSUME LaunchInv, NEW i \in Task, phase[i] # "waiting",
         NEW n \in 0..Len(waiters), NEW busy \in Int,
         attempts[i] <= limited[i] + 1,
         Again(i, n, busy), UNCHANGED <<limited, limit, late>>
  PROVE  LaunchInv'
<1>0. TypeOK /\ QueueOK /\ waiters \in Seq(Task)
  BY DEF LaunchInv, TypeOK
<1>1. i \notin Admitted(n)
  BY <1>0, AdmittedWaited
<1>2. /\ limited' \in [Task -> Nat] /\ limited' = limited
      /\ limited'[i] \in Nat /\ attempts[i] \in Nat
      /\ limited'[i] <= RateLimitRetries
  BY <1>0, TaskCounts DEF TypeOK
<1>3. limit' \in 1..Ceiling /\ late' \in BOOLEAN
  BY <1>0 DEF TypeOK
<1>4. CASE /\ late
           /\ Move(n, i, "done") /\ Launch(Admitted(n))
           /\ active' = busy
           /\ waiters' = StillWaiting(n)
           /\ Answer(i, "deferred")
  <2>1. attempts'[i] = attempts[i]
    BY <1>0, <1>1, <1>4 DEF Launch
  <2>2. waiters' \in Seq(Task) /\ QueueOK'
    BY <1>0, <1>4, LeaveQueueOK
  <2>3. /\ phase' \in [Task -> {"running", "waiting", "backoff", "done"}]
        /\ attempts' \in [Task -> Nat] /\ LaunchesCounted'
    BY <1>2, <1>4, <2>1, CountsOK
  <2>4. result' \in [Task -> {"none", "answered", "deferred", "thrown"}]
    BY <1>0, <1>4 DEF Answer, TypeOK
  <2> QED BY <1>2, <1>3, <1>4, <2>2, <2>3, <2>4 DEF LaunchInv, TypeOK
<1>5. CASE /\ ~late /\ busy < limit
           /\ Move(n, i, "running") /\ Launch(Admitted(n) \cup {i})
           /\ active' = busy + 1
           /\ waiters' = StillWaiting(n)
           /\ UNCHANGED result
  <2>1. attempts'[i] = attempts[i] + 1
    BY <1>5 DEF Launch
  <2>2. waiters' \in Seq(Task) /\ QueueOK'
    BY <1>0, <1>5, LeaveQueueOK
  <2>3. /\ phase' \in [Task -> {"running", "waiting", "backoff", "done"}]
        /\ attempts' \in [Task -> Nat] /\ LaunchesCounted'
    <3>1. attempts'[i] <= limited'[i] + 2
      BY <1>2, <2>1
    <3> QED BY <1>2, <1>5, <3>1, CountsOK
  <2> QED BY <1>0, <1>2, <1>3, <1>5, <2>2, <2>3 DEF LaunchInv, TypeOK
<1>6. CASE /\ ~late /\ busy >= limit
           /\ Move(n, i, "waiting") /\ Launch(Admitted(n))
           /\ active' = busy
           /\ waiters' = Append(StillWaiting(n), i)
           /\ UNCHANGED result
  <2>1. attempts'[i] = attempts[i]
    BY <1>0, <1>1, <1>6 DEF Launch
  <2>2. waiters' \in Seq(Task) /\ QueueOK'
    BY <1>0, <1>6, JoinQueueOK
  <2>3. /\ phase' \in [Task -> {"running", "waiting", "backoff", "done"}]
        /\ attempts' \in [Task -> Nat] /\ LaunchesCounted'
    BY <1>2, <1>6, <2>1, CountsOK
  <2> QED BY <1>0, <1>2, <1>3, <1>6, <2>2, <2>3 DEF LaunchInv, TypeOK
<1> QED BY <1>4, <1>5, <1>6 DEF Again

\* An end of task i that gives its slot back and does not try again at once.
LEMMA EndOK ==
  ASSUME LaunchInv, NEW i \in Task, phase[i] = "running",
         NEW n \in 0..Len(waiters), NEW place \in {"backoff", "done"},
         Move(n, i, place), Launch(Admitted(n)), waiters' = StillWaiting(n),
         active' = active - 1 + n,
         limit' \in 1..Ceiling,
         UNCHANGED late,
         limited' = IF place = "done" THEN limited ELSE [limited EXCEPT ![i] = @ + 1],
         place = "backoff" => limited[i] < RateLimitRetries,
         result' \in [Task -> {"none", "answered", "deferred", "thrown"}]
  PROVE  LaunchInv'
<1>0. TypeOK /\ QueueOK /\ waiters \in Seq(Task) /\ Len(waiters) \in Nat
  BY LenProperties DEF LaunchInv, TypeOK
<1>1. i \notin Admitted(n)
  BY <1>0, AdmittedWaited
<1>2. attempts'[i] = attempts[i]
  BY <1>1 DEF Launch
<1>3. waiters' \in Seq(Task) /\ QueueOK'
  BY <1>0, LeaveQueueOK
<1>4. /\ limited' \in [Task -> Nat]
      /\ \A t \in Task : t # i => limited'[t] = limited[t]
      /\ limited'[i] = IF place = "done" THEN limited[i] ELSE limited[i] + 1
  BY <1>0 DEF TypeOK
<1>5. /\ limited[i] \in Nat /\ attempts[i] \in Nat
      /\ limited[i] <= RateLimitRetries /\ attempts[i] <= limited[i] + 2
  BY TaskCounts
<1>6. /\ limited'[i] <= RateLimitRetries
      /\ attempts'[i] <= limited'[i] + 2
      /\ place \in {"waiting", "backoff"} => attempts'[i] <= limited'[i] + 1
  BY <1>2, <1>4, <1>5, BatchAssumption
<1>7. /\ phase' \in [Task -> {"running", "waiting", "backoff", "done"}]
      /\ attempts' \in [Task -> Nat] /\ LaunchesCounted'
  BY <1>4, <1>6, CountsOK
<1>8. active' \in Int /\ late' \in BOOLEAN
  BY <1>0 DEF TypeOK
<1> QED BY <1>3, <1>4, <1>7, <1>8 DEF LaunchInv, TypeOK
-----------------------------------------------------------------------------
\* The first wave fills the window and queues the rest in order.
LEMMA InitOK == Init => LaunchInv
<1> SUFFICES ASSUME Init PROVE LaunchInv
  OBVIOUS
<1>1. Ceiling \in Nat \ {0} /\ Ceiling <= N /\ N \in Nat
  BY CeilingOK, BatchAssumption
<1>2. waiters = [m \in 1..(N - Ceiling) |-> Ceiling + m] /\ N - Ceiling \in Nat
  BY <1>1 DEF Init
<1>3. \A m \in 1..(N - Ceiling) : Ceiling + m \in Task /\ Ceiling + m > Ceiling
  BY <1>1 DEF Task
<1>4. waiters \in Seq(Task) /\ Len(waiters) = N - Ceiling
  <2>1. waiters \in [1..(N - Ceiling) -> Task]
    BY <1>2, <1>3
  <2> QED BY <1>2, <2>1, IsASeq
<1>5. TypeOK
  <2>1. phase \in [Task -> {"running", "waiting", "backoff", "done"}]
    BY DEF Init
  <2>2. attempts \in [Task -> Nat]
    BY DEF Init
  <2>3. limited \in [Task -> Nat]
    BY DEF Init
  <2>4. limit \in 1..Ceiling /\ active \in Int
    BY <1>1 DEF Init
  <2>5. result \in [Task -> {"none", "answered", "deferred", "thrown"}]
    BY DEF Init
  <2> QED BY <1>4, <2>1, <2>2, <2>3, <2>4, <2>5 DEF Init, TypeOK
<1>6. QueueOK
  <2>1. \A m \in 1..Len(waiters) : phase[waiters[m]] = "waiting"
    <3> TAKE m \in 1..Len(waiters)
    <3>1. waiters[m] = Ceiling + m
      BY <1>2, <1>4
    <3>2. Ceiling + m \in Task /\ ~(Ceiling + m <= Ceiling)
      BY <1>1, <1>3, <1>4
    <3> QED BY <3>1, <3>2 DEF Init
  <2>2. \A m, k \in 1..Len(waiters) : waiters[m] = waiters[k] => m = k
    BY <1>1, <1>2, <1>4
  <2> QED BY <2>1, <2>2 DEF QueueOK
<1>7. LaunchesCounted
  BY BatchAssumption DEF Init, LaunchesCounted
<1> QED BY <1>5, <1>6, <1>7 DEF LaunchInv

LEMMA RateLimitedOK ==
  ASSUME LaunchInv, NEW i \in Task, RateLimited(i)
  PROVE  LaunchInv'
<1> DEFINE n == HandedOver(limit, active - 1)
<1>1. n \in 0..Len(waiters) /\ Larger(1, limit \div 2) \in 1..Ceiling
  BY WindowOK DEF LaunchInv
<1>2. result \in [Task -> {"none", "answered", "deferred", "thrown"}]
  BY DEF LaunchInv, TypeOK
<1>3. CASE GivesUp(i)
  <2>1. /\ Move(n, i, "done") /\ UNCHANGED limited
        /\ result' \in [Task -> {"none", "answered", "deferred", "thrown"}]
    BY <1>2, <1>3 DEF RateLimited, Answer
  <2> QED BY <1>1, <2>1, EndOK DEF RateLimited
<1>4. CASE ~GivesUp(i)
  <2>1. /\ Move(n, i, "backoff") /\ limited' = [limited EXCEPT ![i] = @ + 1]
        /\ UNCHANGED result
    BY <1>4 DEF RateLimited
  <2>2. limited[i] < RateLimitRetries
    BY <1>4, TaskCounts, BatchAssumption DEF GivesUp
  <2> QED BY <1>1, <1>2, <2>1, <2>2, EndOK DEF RateLimited
<1> QED BY <1>3, <1>4

LEMMA InterruptedOK ==
  ASSUME LaunchInv, NEW i \in Task, Interrupted(i)
  PROVE  LaunchInv'
<1> DEFINE n == HandedOver(limit, active - 1)
<1>1. n \in 0..Len(waiters) /\ active - 1 + n \in Int
  <2>1. n \in 0..Len(waiters) /\ active - 1 \in Int /\ Len(waiters) \in Nat
    BY WindowOK, LenProperties DEF LaunchInv
  <2> QED BY <2>1
<1>2. phase[i] # "waiting" /\ attempts[i] <= limited[i] + 1
  BY TaskCounts DEF Interrupted
<1> QED BY <1>1, <1>2, AgainOK DEF Interrupted

LEMMA FinishOK ==
  ASSUME LaunchInv, NEW i \in Task, Finish(i)
  PROVE  LaunchInv'
<1> DEFINE n == HandedOver(Widened, active - 1)
<1>1. n \in 0..Len(waiters) /\ Widened \in 1..Ceiling
  BY WindowOK DEF LaunchInv
<1>2. result' \in [Task -> {"none", "answered", "deferred", "thrown"}]
  BY DEF LaunchInv, TypeOK, Finish, Answer
<1> QED BY <1>1, <1>2, EndOK DEF Finish

LEMMA ThrowOK ==
  ASSUME LaunchInv, NEW i \in Task, Throw(i)
  PROVE  LaunchInv'
<1> DEFINE n == HandedOver(limit, active - 1)
<1>1. n \in 0..Len(waiters) /\ limit' \in 1..Ceiling
  BY WindowOK DEF LaunchInv, TypeOK, Throw
<1>2. result' \in [Task -> {"none", "answered", "deferred", "thrown"}]
  BY DEF LaunchInv, TypeOK, Throw, Answer
<1> QED BY <1>1, <1>2, EndOK DEF Throw

LEMMA BackoffEndsOK ==
  ASSUME LaunchInv, NEW i \in Task, BackoffEnds(i)
  PROVE  LaunchInv'
<1>1. waiters \in Seq(Task) /\ active \in Int
  BY DEF LaunchInv, TypeOK
<1>2. 0 \in 0..Len(waiters)
  BY <1>1, LenProperties
<1>3. phase[i] # "waiting" /\ attempts[i] <= limited[i] + 1
  BY TaskCounts DEF BackoffEnds
<1> QED BY <1>1, <1>2, <1>3, AgainOK DEF BackoffEnds

\* LaunchInv is inductive.
LEMMA LaunchInvariant == Spec => []LaunchInv
<1>1. LaunchInv /\ [Next]_vars => LaunchInv'
  <2> SUFFICES ASSUME LaunchInv, [Next]_vars PROVE LaunchInv'
    OBVIOUS
  <2>1. ASSUME NEW i \in Task, Settles(i) PROVE LaunchInv'
    BY <2>1, RateLimitedOK, InterruptedOK, FinishOK, ThrowOK DEF Settles
  <2>2. ASSUME NEW i \in Task, BackoffEnds(i) PROVE LaunchInv'
    BY <2>2, BackoffEndsOK
  <2>3. CASE DeadlinePasses
    BY <2>3 DEF DeadlinePasses, LaunchInv, TypeOK, QueueOK, LaunchesCounted
  <2>4. CASE UNCHANGED vars
    BY <2>4 DEF vars, LaunchInv, TypeOK, QueueOK, LaunchesCounted
  <2> QED BY <2>1, <2>2, <2>3, <2>4 DEF Next
<1> QED BY InitOK, <1>1, PTL DEF Spec

\* Every variable keeps its type, the window between 1 and its ceiling.
THEOREM TypeCorrect == Spec => []TypeOK
<1>1. LaunchInv => TypeOK
  BY DEF LaunchInv
<1> QED BY <1>1, LaunchInvariant, PTL

\* runOne launches no task more than 2 + DELEGATE_RATE_LIMIT_RETRIES times:
\* `attempts` of every result fits delegateResultSchema.
THEOREM AttemptsBoundedHolds == Spec => []AttemptsBounded
<1>1. LaunchInv => AttemptsBounded
  <2> SUFFICES ASSUME LaunchInv, NEW i \in Task
               PROVE  attempts[i] <= 2 + RateLimitRetries
    BY DEF AttemptsBounded
  <2> QED BY TaskCounts, BatchAssumption
<1> QED BY <1>1, LaunchInvariant, PTL
-----------------------------------------------------------------------------
\* The batch deadline keeps a task that is not in the queue from starting.
LEMMA LateLaunch ==
  ASSUME LaunchInv, late, NEW n \in 0..Len(waiters), NEW t \in Task,
         Launch(Admitted(n)), attempts'[t] # attempts[t]
  PROVE  phase[t] = "waiting"
<1>1. t \in Admitted(n)
  BY DEF Launch
<1> QED BY <1>1, AdmittedWaited DEF LaunchInv, TypeOK

\* After the deadline runOne starts only children that were in the queue.
THEOREM NoRetryPastDeadlineHolds == Spec => NoRetryPastDeadline
<1>1. LaunchInv /\ [Next]_vars
        => [\A i \in Task : late /\ attempts'[i] # attempts[i]
              => phase[i] = "waiting"]_vars
  <2> SUFFICES ASSUME LaunchInv, Next, NEW t \in Task, late,
                      attempts'[t] # attempts[t]
               PROVE  phase[t] = "waiting"
    OBVIOUS
  <2>0. waiters \in Seq(Task) /\ Len(waiters) \in Nat
    BY LenProperties DEF LaunchInv, TypeOK
  <2>1. /\ HandedOver(limit, active - 1) \in 0..Len(waiters)
        /\ HandedOver(Widened, active - 1) \in 0..Len(waiters)
        /\ 0 \in 0..Len(waiters)
    BY <2>0, WindowOK DEF LaunchInv
  <2>2. ASSUME NEW i \in Task, Settles(i) PROVE phase[t] = "waiting"
    <3>1. CASE RateLimited(i)
      BY <2>1, <3>1, LateLaunch DEF RateLimited
    <3>2. CASE Interrupted(i)
      BY <2>1, <3>2, LateLaunch DEF Interrupted, Again
    <3>3. CASE Finish(i)
      BY <2>1, <3>3, LateLaunch DEF Finish
    <3>4. CASE Throw(i)
      BY <2>1, <3>4, LateLaunch DEF Throw
    <3> QED BY <2>2, <3>1, <3>2, <3>3, <3>4 DEF Settles
  <2>3. ASSUME NEW i \in Task, BackoffEnds(i) PROVE phase[t] = "waiting"
    BY <2>1, <2>3, LateLaunch DEF BackoffEnds, Again
  <2>4. CASE DeadlinePasses
    BY <2>4 DEF DeadlinePasses
  <2> QED BY <2>2, <2>3, <2>4 DEF Next
<1> QED BY <1>1, LaunchInvariant, PTL DEF Spec, NoRetryPastDeadline
-----------------------------------------------------------------------------
(* The window: its counter, its queue and its answers.                       *)

\* The slots in use, counted: n waiters start, and task i leaves its place.
LEMMA SlotsCounted ==
  ASSUME WindowInv, NEW n \in 0..Len(waiters),
         NEW i \in Task, phase[i] # "waiting",
         NEW place \in {"running", "waiting", "backoff", "done"}, Move(n, i, place)
  PROVE  Cardinality(Running') =
           active + n - (IF phase[i] = "running" THEN 1 ELSE 0)
                      + (IF place = "running" THEN 1 ELSE 0)
<1>0. TypeOK /\ QueueOK /\ waiters \in Seq(Task) /\ Len(waiters) \in Nat /\ n \in Nat
  BY LenProperties DEF WindowInv, LaunchInv, TypeOK
<1>1. IsFiniteSet(Running) /\ Cardinality(Running) = active /\ active \in Nat
  <2>1. IsFiniteSet(Task)
    BY FS_Interval, BatchAssumption DEF Task
  <2>2. Running \in SUBSET Task
    BY DEF Running
  <2> QED BY <2>1, <2>2, FS_Subset, FS_CardinalityType DEF WindowInv, SlotsAccounted
<1>2. IsFiniteSet(Admitted(n)) /\ Cardinality(Admitted(n)) = n
  <2> DEFINE f == [m \in 1..n |-> waiters[m]]
  <2>1. f \in Bijection(1..n, Admitted(n))
    <3>1. \A m, k \in 1..n : f[m] = f[k] => m = k
      BY <1>0 DEF QueueOK
    <3>2. \A t \in Admitted(n) : \E m \in 1..n : f[m] = t
      BY DEF Admitted
    <3>3. f \in [1..n -> Admitted(n)]
      BY DEF Admitted
    <3> QED BY <3>1, <3>2, <3>3, Fun_IsBij
  <2>2. ExistsBijection(1..n, Admitted(n))
    BY <2>1 DEF ExistsBijection
  <2>3. IsFiniteSet(1..n) /\ Cardinality(1..n) = n
    BY <1>0, FS_Interval
  <2> QED BY <2>2, <2>3, FS_Bijection
<1>3. \A t \in Admitted(n) : t \in Task /\ phase[t] = "waiting"
  BY <1>0, AdmittedWaited
<1> DEFINE stay == Running \ {i}
           busy == stay \cup Admitted(n)
<1>4. /\ IsFiniteSet(stay)
      /\ Cardinality(stay) = active - (IF phase[i] = "running" THEN 1 ELSE 0)
  <2>1. i \in Running <=> phase[i] = "running"
    BY DEF Running
  <2> QED BY <1>1, <2>1, FS_RemoveElement
<1>5. IsFiniteSet(busy) /\ Cardinality(busy) = Cardinality(stay) + n
  <2>1. stay \cap Admitted(n) = {}
    BY <1>3 DEF Running
  <2>2. Cardinality(stay) \in Int
    BY <1>1, <1>4
  <2> HIDE DEF stay
  <2>3. Cardinality(stay \cap Admitted(n)) = 0
    BY <2>1, FS_EmptySet
  <2> QED BY <1>0, <1>2, <1>4, <2>2, <2>3, FS_Union
<1>6. Running' = IF place = "running" THEN busy \cup {i} ELSE busy
  BY <1>3 DEF Running, Move
<1>7. i \notin busy
  BY <1>3
<1>8. Cardinality(busy \cup {i}) = Cardinality(busy) + 1
  <2> HIDE DEF busy
  <2> QED BY <1>5, <1>7, FS_AddElement
<1> HIDE DEF stay, busy
<1> QED BY <1>0, <1>1, <1>4, <1>5, <1>6, <1>8

\* Whoever waits after the step is in what is left of the queue.
LEMMA WaitersKept ==
  ASSUME WindowInv, NEW n \in 0..Len(waiters), NEW t \in Task,
         phase[t] = "waiting", t \notin Admitted(n)
  PROVE  \E m \in 1..Len(StillWaiting(n)) : StillWaiting(n)[m] = t
<1>0. waiters \in Seq(Task) /\ Len(waiters) \in Nat
  BY LenProperties DEF WindowInv, LaunchInv, TypeOK
<1>1. PICK m \in 1..Len(waiters) : waiters[m] = t
  <2>1. t \in {waiters[m] : m \in 1..Len(waiters)}
    BY DEF WindowInv, SlotsAccounted
  <2> QED BY <2>1
<1>2. m > n
  BY <1>0, <1>1 DEF Admitted
<1>3. m - n \in 1..(Len(waiters) - n) /\ n + (m - n) = m
  BY <1>0, <1>2
<1>4. /\ Len(StillWaiting(n)) = Len(waiters) - n
      /\ StillWaiting(n)[m - n] = waiters[n + (m - n)]
  BY <1>0, <1>3, RestOfQueue
<1> QED BY <1>1, <1>3, <1>4

\* Task i goes elsewhere than into the queue, the first n waiters start.
LEMMA LeaveSlotsOK ==
  ASSUME WindowInv, NEW n \in 0..Len(waiters), NEW i \in Task, phase[i] # "waiting",
         NEW place \in {"running", "backoff", "done"},
         Move(n, i, place), waiters' = StillWaiting(n), QueueOK',
         active' = active + n - (IF phase[i] = "running" THEN 1 ELSE 0)
                              + (IF place = "running" THEN 1 ELSE 0)
  PROVE  SlotsAccounted'
<1>1. active' = Cardinality(Running')
  BY SlotsCounted
<1>2. ASSUME NEW t \in Task, phase'[t] = "waiting"
      PROVE  \E m \in 1..Len(waiters') : waiters'[m] = t
  <2>1. phase[t] = "waiting" /\ t \notin Admitted(n)
    BY <1>2 DEF Move
  <2> QED BY <2>1, WaitersKept
<1>3. \A m \in 1..Len(waiters') : waiters'[m] \in Task
  BY RestWaits DEF WindowInv, LaunchInv, TypeOK
<1> QED BY <1>1, <1>2, <1>3 DEF SlotsAccounted, QueueOK

\* Task i joins the queue.
LEMMA JoinSlotsOK ==
  ASSUME WindowInv, NEW n \in 0..Len(waiters), NEW i \in Task, phase[i] # "waiting",
         Move(n, i, "waiting"), waiters' = Append(StillWaiting(n), i),
         waiters' \in Seq(Task), QueueOK',
         active' = active + n - (IF phase[i] = "running" THEN 1 ELSE 0)
  PROVE  SlotsAccounted'
<1>1. active' = Cardinality(Running')
  <2>1. active \in Int /\ n \in Int
    BY LenProperties DEF WindowInv, LaunchInv, TypeOK
  <2> QED BY <2>1, SlotsCounted
<1>2. /\ Len(waiters') = Len(StillWaiting(n)) + 1
      /\ \A m \in 1..Len(StillWaiting(n)) : waiters'[m] = StillWaiting(n)[m]
      /\ waiters'[Len(waiters')] = i /\ Len(StillWaiting(n)) \in Nat
  <2>1. StillWaiting(n) \in Seq(Task)
    BY RestOfQueue DEF WindowInv, LaunchInv, TypeOK
  <2> QED BY <2>1, AppendProperties, LenProperties
<1>3. ASSUME NEW t \in Task, phase'[t] = "waiting"
      PROVE  \E m \in 1..Len(waiters') : waiters'[m] = t
  <2>1. CASE t = i
    BY <1>2, <2>1
  <2>2. CASE t # i
    <3>1. phase[t] = "waiting" /\ t \notin Admitted(n)
      BY <1>3, <2>2 DEF Move
    <3>2. PICK m \in 1..Len(StillWaiting(n)) : StillWaiting(n)[m] = t
      BY <3>1, WaitersKept
    <3> QED BY <1>2, <3>2
  <2> QED BY <2>1, <2>2
<1>4. \A m \in 1..Len(waiters') : waiters'[m] \in Task
  BY ElementOfSeq
<1> QED BY <1>1, <1>3, <1>4 DEF SlotsAccounted, QueueOK

\* What a hand-over leaves: slots all taken, or nobody waiting.
LEMMA HandOverFills ==
  ASSUME WindowInv, NEW size \in 1..Ceiling, NEW busy \in Int,
         busy <= Ceiling
  PROVE  LET n == HandedOver(size, busy)
         IN  /\ n \in 0..Len(waiters)
             /\ busy + n <= Ceiling /\ busy + n \in Int
             /\ StillWaiting(n) # <<>> => busy + n >= size
<1> DEFINE n == HandedOver(size, busy)
<1>0. waiters \in Seq(Task) /\ Len(waiters) \in Nat /\ Ceiling \in Nat /\ size \in Int
  BY LenProperties, CeilingOK DEF WindowInv, LaunchInv, TypeOK
<1>1. n \in 0..Len(waiters)
  BY <1>0, HandedOverOK
<1>2. n <= Larger(0, size - busy)
  BY <1>0 DEF HandedOver, Smaller, Larger
<1>3. busy + n <= Ceiling
  BY <1>0, <1>1, <1>2 DEF Larger
<1>4. ASSUME StillWaiting(n) # <<>> PROVE busy + n >= size
  <2>1. Len(StillWaiting(n)) \in Nat \ {0} /\ Len(StillWaiting(n)) = Len(waiters) - n
    BY <1>0, <1>1, <1>4, RestOfQueue, EmptySeq
  <2>2. n # Len(waiters)
    BY <1>0, <2>1
  <2>3. n = Larger(0, size - busy)
    BY <2>2 DEF HandedOver, Smaller
  <2> QED BY <1>0, <2>3 DEF Larger
<1> QED BY <1>0, <1>1, <1>3, <1>4

\* A task has its answer exactly when its runOne has returned.
LEMMA AnswersKept ==
  ASSUME WindowInv, NEW n \in 0..Len(waiters), NEW i \in Task, phase[i] # "waiting",
         phase[i] # "done",
         NEW place \in {"running", "waiting", "backoff", "done"}, Move(n, i, place),
         \/ place = "done" /\ \E r \in {"answered", "deferred", "thrown"} : Answer(i, r)
         \/ place # "done" /\ UNCHANGED result
  PROVE  \A t \in Task : phase'[t] = "done" <=> result'[t] # "none"
<1> SUFFICES ASSUME NEW t \in Task PROVE phase'[t] = "done" <=> result'[t] # "none"
  OBVIOUS
<1>0. /\ phase[t] = "done" <=> result[t] # "none"
      /\ result \in [Task -> {"none", "answered", "deferred", "thrown"}]
  BY DEF WindowInv, LaunchInv, TypeOK
<1>1. t \in Admitted(n) => phase[t] = "waiting"
  BY AdmittedWaited DEF WindowInv, LaunchInv, TypeOK
<1>2. phase[i] # "done" => result[i] = "none"
  BY DEF WindowInv
<1>3. CASE t = i
  BY <1>0, <1>2, <1>3 DEF Move, Answer
<1>4. CASE t # i
  <2>1. result'[t] = result[t]
    BY <1>0, <1>4 DEF Answer
  <2>2. phase'[t] = IF t \in Admitted(n) THEN "running" ELSE phase[t]
    BY <1>4 DEF Move
  <2> QED BY <1>0, <1>1, <2>1, <2>2
<1> QED BY <1>3, <1>4

\* The loop of runOne, entered with `busy` slots taken and n waiters started.
LEMMA AgainWindowOK ==
  ASSUME WindowInv, NEW i \in Task, phase[i] \in {"running", "backoff"},
         NEW n \in 0..Len(waiters),
         NEW busy \in Int,
         busy = active + n - (IF phase[i] = "running" THEN 1 ELSE 0),
         busy <= Ceiling, StillWaiting(n) # <<>> => busy >= limit,
         Again(i, n, busy), UNCHANGED limit, LaunchInv'
  PROVE  WindowInv'
<1>0. phase[i] # "waiting" /\ phase[i] # "done" /\ QueueOK' /\ waiters' \in Seq(Task)
  BY DEF LaunchInv, TypeOK
<1>1. limit \in Int /\ limit <= Ceiling /\ active \in Int /\ Ceiling \in Int /\ n \in Int
  BY LenProperties, CeilingOK DEF WindowInv, LaunchInv, TypeOK
<1>2. CASE /\ late
           /\ Move(n, i, "done") /\ Launch(Admitted(n))
           /\ active' = busy
           /\ waiters' = StillWaiting(n)
           /\ Answer(i, "deferred")
  <2>1. SlotsAccounted'
    <3>1. active' = active + n - (IF phase[i] = "running" THEN 1 ELSE 0)
                               + (IF "done" = "running" THEN 1 ELSE 0)
      BY <1>1, <1>2
    <3> QED BY <1>0, <1>2, <3>1, LeaveSlotsOK
  <2>2. \A t \in Task : phase'[t] = "done" <=> result'[t] # "none"
    BY <1>0, <1>2, AnswersKept
  <2> QED BY <1>2, <2>1, <2>2 DEF WindowInv, NoIdleSlot, Ceiling
<1>3. CASE /\ ~late /\ busy < limit
           /\ Move(n, i, "running") /\ Launch(Admitted(n) \cup {i})
           /\ active' = busy + 1
           /\ waiters' = StillWaiting(n)
           /\ UNCHANGED result
  <2>1. SlotsAccounted'
    <3>1. active' = active + n - (IF phase[i] = "running" THEN 1 ELSE 0)
                               + (IF "running" = "running" THEN 1 ELSE 0)
      BY <1>1, <1>3
    <3> QED BY <1>0, <1>3, <3>1, LeaveSlotsOK
  <2>2. \A t \in Task : phase'[t] = "done" <=> result'[t] # "none"
    BY <1>0, <1>3, AnswersKept
  <2>3. waiters' = <<>> /\ active' <= Ceiling
    BY <1>1, <1>3
  <2> QED BY <2>1, <2>2, <2>3 DEF WindowInv, NoIdleSlot, Ceiling
<1>4. CASE /\ ~late /\ busy >= limit
           /\ Move(n, i, "waiting") /\ Launch(Admitted(n))
           /\ active' = busy
           /\ waiters' = Append(StillWaiting(n), i)
           /\ UNCHANGED result
  <2>1. SlotsAccounted'
    BY <1>0, <1>4, JoinSlotsOK
  <2>2. \A t \in Task : phase'[t] = "done" <=> result'[t] # "none"
    BY <1>0, <1>4, AnswersKept
  <2> QED BY <1>4, <2>1, <2>2 DEF WindowInv, NoIdleSlot, Ceiling
<1> QED BY <1>2, <1>3, <1>4 DEF Again

\* An end of task i: its slot is handed over within a window of `size`, of
\* which the step may then take some away.
LEMMA EndWindowOK ==
  ASSUME WindowInv, NEW i \in Task, phase[i] = "running",
         NEW size \in 1..Ceiling, limit' \in 1..Ceiling, limit' <= size,
         NEW place \in {"backoff", "done"},
         Move(HandedOver(size, active - 1), i, place),
         waiters' = StillWaiting(HandedOver(size, active - 1)),
         active' = active - 1 + HandedOver(size, active - 1),
         \/ place = "done" /\ \E r \in {"answered", "deferred", "thrown"} : Answer(i, r)
         \/ place # "done" /\ UNCHANGED result,
         LaunchInv'
  PROVE  WindowInv'
<1> DEFINE n == HandedOver(size, active - 1)
<1>0. active \in Int /\ active <= Ceiling /\ Ceiling \in Int /\ size \in Int /\ limit' \in Int
  BY CeilingOK DEF WindowInv, LaunchInv, TypeOK
<1>1. /\ n \in 0..Len(waiters) /\ active - 1 + n <= Ceiling
      /\ StillWaiting(n) # <<>> => active - 1 + n >= size
  BY <1>0, HandOverFills
<1>2. n \in Int
  BY <1>1, LenProperties DEF WindowInv, LaunchInv, TypeOK
<1>3. /\ Move(n, i, place) /\ waiters' = StillWaiting(n) /\ active' = active - 1 + n
  OBVIOUS
<1> HIDE DEF n
<1>4. SlotsAccounted'
  <2>1. active' = active + n - (IF phase[i] = "running" THEN 1 ELSE 0)
                             + (IF place = "running" THEN 1 ELSE 0)
    BY <1>0, <1>2, <1>3
  <2>2. QueueOK'
    BY DEF LaunchInv
  <2> QED BY <1>1, <1>3, <2>1, <2>2, LeaveSlotsOK
<1>5. \A t \in Task : phase'[t] = "done" <=> result'[t] # "none"
  BY <1>1, <1>3, AnswersKept
<1>6. waiters' # <<>> => active' >= limit'
  BY <1>0, <1>1, <1>2, <1>3
<1>7. active' <= Ceiling'
  BY <1>1, <1>3 DEF Ceiling
<1> QED BY <1>4, <1>5, <1>6, <1>7 DEF WindowInv, NoIdleSlot
-----------------------------------------------------------------------------
LEMMA WindowInit == Init => WindowInv
<1> SUFFICES ASSUME Init PROVE WindowInv
  OBVIOUS
<1>0. Ceiling \in Nat \ {0} /\ Ceiling <= N /\ N \in Nat /\ LaunchInv
  BY CeilingOK, BatchAssumption, InitOK
<1>1. active = Cardinality(Running)
  <2>1. Running = 1..Ceiling
    BY <1>0 DEF Init, Running, Task
  <2>2. Cardinality(1..Ceiling) = Ceiling
    BY <1>0, FS_Interval
  <2> QED BY <2>1, <2>2 DEF Init
<1>2. /\ waiters = [m \in 1..(N - Ceiling) |-> Ceiling + m]
      /\ Len(waiters) = N - Ceiling
  <2>1. waiters = [m \in 1..(N - Ceiling) |-> Ceiling + m] /\ N - Ceiling \in Nat
    BY <1>0 DEF Init
  <2>2. waiters \in Seq(Task)
    BY <1>0 DEF LaunchInv, TypeOK
  <2>3. waiters \in [1..(N - Ceiling) -> Task]
    BY <1>0, <2>1 DEF Task
  <2> QED BY <2>1, <2>3, IsASeq
<1>3. ASSUME NEW t \in Task, phase[t] = "waiting"
      PROVE  \E m \in 1..Len(waiters) : waiters[m] = t
  <2>1. t > Ceiling /\ t <= N /\ t \in Int
    BY <1>0, <1>3 DEF Init, Task
  <2>2. t - Ceiling \in 1..(N - Ceiling) /\ Ceiling + (t - Ceiling) = t
    BY <1>0, <2>1
  <2> QED BY <1>2, <2>2
<1>4. SlotsAccounted
  <2>1. \A m \in 1..Len(waiters) : waiters[m] \in Task
    BY <1>0, ElementOfSeq DEF LaunchInv, TypeOK
  <2> QED BY <1>0, <1>1, <1>3, <2>1 DEF SlotsAccounted, LaunchInv, QueueOK
<1>5. NoIdleSlot /\ active <= Ceiling
  BY <1>0 DEF Init, NoIdleSlot
<1>6. \A t \in Task : phase[t] = "done" <=> result[t] # "none"
  BY DEF Init
<1> QED BY <1>0, <1>4, <1>5, <1>6 DEF WindowInv

LEMMA WindowSettles ==
  ASSUME WindowInv, LaunchInv', NEW i \in Task, Settles(i)
  PROVE  WindowInv'
<1>0. LaunchInv /\ TypeOK
  BY DEF WindowInv, LaunchInv
<1>1. /\ limit \in 1..Ceiling /\ limit \in Int /\ active \in Int /\ active <= Ceiling
      /\ Larger(1, limit \div 2) \in 1..Ceiling /\ Larger(1, limit \div 2) <= limit
      /\ Widened \in 1..Ceiling /\ Ceiling \in Int
  <2>1. limit \in 1..Ceiling /\ Ceiling \in Nat /\ limit \in Nat \ {0}
    BY <1>0, CeilingOK, WindowOK DEF TypeOK
  <2>2. Larger(1, limit \div 2) <= limit
    BY <2>1 DEF Larger
  <2> QED BY <1>0, <2>1, <2>2, WindowOK DEF WindowInv, TypeOK
<1>2. CASE RateLimited(i)
  <2>1. \/ Move(HandedOver(limit, active - 1), i, "done") /\ Answer(i, "deferred")
        \/ Move(HandedOver(limit, active - 1), i, "backoff") /\ UNCHANGED result
    BY <1>2 DEF RateLimited
  <2> QED BY <1>1, <1>2, <2>1, EndWindowOK DEF RateLimited
<1>3. CASE Interrupted(i)
  <2> DEFINE n == HandedOver(limit, active - 1)
  <2>1. /\ n \in 0..Len(waiters) /\ active - 1 + n <= Ceiling
        /\ active - 1 + n \in Int
        /\ StillWaiting(n) # <<>> => active - 1 + n >= limit
    <3>1. active - 1 \in Int /\ active - 1 <= Ceiling
      BY <1>1
    <3> QED BY <1>1, <3>1, HandOverFills
  <2>2. active - 1 + n = active + n - (IF phase[i] = "running" THEN 1 ELSE 0)
    <3>1. n \in Int
      BY <1>0, <2>1, LenProperties DEF TypeOK
    <3> HIDE DEF n
    <3> QED BY <1>1, <1>3, <3>1 DEF Interrupted
  <2>3. Again(i, n, active - 1 + n) /\ phase[i] = "running" /\ UNCHANGED limit
    BY <1>3 DEF Interrupted
  <2> HIDE DEF n
  <2> QED BY <2>1, <2>2, <2>3, AgainWindowOK
<1>4. CASE Finish(i)
  BY <1>1, <1>4, EndWindowOK DEF Finish
<1>5. CASE Throw(i)
  BY <1>1, <1>5, EndWindowOK DEF Throw
<1> QED BY <1>2, <1>3, <1>4, <1>5 DEF Settles

LEMMA WindowBackoff ==
  ASSUME WindowInv, LaunchInv', NEW i \in Task, BackoffEnds(i)
  PROVE  WindowInv'
<1>0. /\ waiters \in Seq(Task) /\ Len(waiters) \in Nat /\ active \in Int
      /\ active <= Ceiling
  BY LenProperties DEF WindowInv, LaunchInv, TypeOK
<1>1. 0 \in 0..Len(waiters)
  BY <1>0
<1>2. StillWaiting(0) # <<>> => active >= limit
  <2>1. waiters = <<>> => StillWaiting(0) = <<>>
    BY <1>0, <1>1, RestOfQueue, EmptySeq
  <2> QED BY <2>1 DEF WindowInv, NoIdleSlot
<1>3. phase[i] = "backoff" /\ Again(i, 0, active) /\ UNCHANGED limit
  BY DEF BackoffEnds
<1>4. active = active + 0 - (IF phase[i] = "running" THEN 1 ELSE 0)
  BY <1>0, <1>3
<1> QED BY <1>0, <1>1, <1>2, <1>3, <1>4, AgainWindowOK

\* WindowInv is inductive.
LEMMA WindowStep == WindowInv /\ [Next]_vars => WindowInv'
<1> SUFFICES ASSUME WindowInv, [Next]_vars PROVE WindowInv'
  OBVIOUS
<1>1. ASSUME NEW i \in Task, Settles(i) PROVE WindowInv'
  <2>1. LaunchInv'
    BY <1>1, RateLimitedOK, InterruptedOK, FinishOK, ThrowOK DEF Settles, WindowInv
  <2> QED BY <1>1, <2>1, WindowSettles
<1>2. ASSUME NEW i \in Task, BackoffEnds(i) PROVE WindowInv'
  <2>1. LaunchInv'
    BY <1>2, BackoffEndsOK DEF WindowInv
  <2> QED BY <1>2, <2>1, WindowBackoff
<1>3. CASE DeadlinePasses
  BY <1>3 DEF DeadlinePasses, WindowInv, LaunchInv, TypeOK, QueueOK, LaunchesCounted,
              SlotsAccounted, NoIdleSlot, Running, Ceiling
<1>4. CASE UNCHANGED vars
  BY <1>4 DEF vars, WindowInv, LaunchInv, TypeOK, QueueOK, LaunchesCounted,
              SlotsAccounted, NoIdleSlot, Running, Ceiling
<1> QED BY <1>1, <1>2, <1>3, <1>4 DEF Next

LEMMA WindowInvariant == Spec => []WindowInv
BY WindowInit, WindowStep, PTL DEF Spec

\* No way out of runOne leaks a slot or loses a task: the counter of the window
\* is the number of children that run, the queue holds those that wait.
THEOREM SlotsAccountedHolds == Spec => []SlotsAccounted
<1>1. WindowInv => SlotsAccounted
  BY DEF WindowInv
<1> QED BY <1>1, WindowInvariant, PTL

\* release and widen leave no slot unused while a task waits.
THEOREM NoIdleSlotHolds == Spec => []NoIdleSlot
<1>1. WindowInv => NoIdleSlot
  BY DEF WindowInv
<1> QED BY <1>1, WindowInvariant, PTL

\* A hand-over starts somebody only where all that run then have a slot.
LEMMA HandOverFits ==
  ASSUME waiters \in Seq(Task), NEW size \in Int, NEW busy \in Int,
         HandedOver(size, busy) # 0
  PROVE  busy + HandedOver(size, busy) <= size
<1>1. Len(waiters) \in Nat /\ HandedOver(size, busy) \in 0..Len(waiters)
  BY LenProperties, HandedOverOK
<1> QED BY <1>1 DEF HandedOver, Smaller, Larger

\* The tasks of S are launched: they run now, the others that run ran before,
\* and all that run have a slot of the window as it was or as it is.
Launches(S) ==
  /\ Launch(S)
  /\ \A t \in S : phase'[t] = "running"
  /\ \A t \in Task \ S : phase'[t] = "running" => phase[t] = "running"
  /\ S # {} => active' <= limit \/ active' <= limit'

\* A step that starts the first n waiters and moves a task that stops.
LEMMA StopLaunches ==
  ASSUME WindowInv, NEW i \in Task, phase[i] # "waiting", NEW n \in 0..Len(waiters),
         NEW place \in {"backoff", "waiting", "done"},
         Move(n, i, place), Launch(Admitted(n)),
         n # 0 => active' <= limit \/ active' <= limit'
  PROVE  \E S \in SUBSET Task : Launches(S)
<1>1. \A t \in Admitted(n) : t \in Task /\ phase[t] = "waiting"
  BY AdmittedWaited DEF WindowInv, LaunchInv, TypeOK
<1>2. \A t \in Admitted(n) : phase'[t] = "running"
  BY <1>1 DEF Move
<1>3. \A t \in Task \ Admitted(n) : phase'[t] = "running" => phase[t] = "running"
  BY DEF Move
<1>4. n = 0 => Admitted(n) = {}
  BY DEF Admitted
<1>5. Launches(Admitted(n)) /\ Admitted(n) \in SUBSET Task
  BY <1>1, <1>2, <1>3, <1>4 DEF Launches
<1> QED BY <1>5

\* The loop of runOne: the task may take a slot of its own.
LEMMA AgainLaunches ==
  ASSUME WindowInv, NEW i \in Task, phase[i] # "waiting", NEW n \in 0..Len(waiters),
         NEW busy \in Int, Again(i, n, busy), UNCHANGED limit,
         n # 0 => busy <= limit
  PROVE  \E S \in SUBSET Task : Launches(S)
<1>0. limit \in Int
  BY WindowOK DEF WindowInv, LaunchInv
<1>1. CASE ~late /\ busy < limit
  <2>1. Move(n, i, "running") /\ Launch(Admitted(n) \cup {i}) /\ active' = busy + 1
    BY <1>0, <1>1 DEF Again
  <2>2. \A t \in Admitted(n) : t \in Task
    BY AdmittedWaited DEF WindowInv, LaunchInv, TypeOK
  <2>3. \A t \in Admitted(n) \cup {i} : phase'[t] = "running"
    BY <2>1, <2>2 DEF Move
  <2>4. \A t \in Task \ (Admitted(n) \cup {i}) : phase'[t] = "running" => phase[t] = "running"
    BY <2>1 DEF Move
  <2>5. active' <= limit
    BY <1>0, <1>1, <2>1
  <2>6. Launches(Admitted(n) \cup {i}) /\ Admitted(n) \cup {i} \in SUBSET Task
    BY <2>1, <2>2, <2>3, <2>4, <2>5 DEF Launches
  <2> QED BY <2>6
<1>2. CASE ~(~late /\ busy < limit)
  <2>1. /\ \E place \in {"waiting", "done"} : Move(n, i, place)
        /\ Launch(Admitted(n)) /\ active' = busy
    BY <1>2 DEF Again
  <2> QED BY <2>1, StopLaunches
<1> QED BY <1>1, <1>2

LEMMA StepLaunches ==
  ASSUME WindowInv, NEW i \in Task, Settles(i) \/ BackoffEnds(i)
  PROVE  \E S \in SUBSET Task : Launches(S)
<1>0. /\ waiters \in Seq(Task) /\ active - 1 \in Int /\ active \in Int /\ limit \in Int
      /\ Widened \in Int
      /\ \A size, busy \in Int : HandedOver(size, busy) \in 0..Len(waiters)
  <2>1. TypeOK
    BY DEF WindowInv, LaunchInv
  <2>2. \A size, busy \in Int : HandedOver(size, busy) \in 0..Len(waiters)
    BY <2>1, WindowOK
  <2>3. active \in Int /\ active - 1 \in Int /\ limit \in Int /\ waiters \in Seq(Task)
    BY <2>1, CeilingOK DEF TypeOK
  <2>4. Widened \in Int
    BY <2>1, WindowOK
  <2> QED BY <2>2, <2>3, <2>4
<1>a. Len(waiters) \in Nat /\ 0 \in 0..Len(waiters)
  BY <1>0, LenProperties
<1> DEFINE n == HandedOver(limit, active - 1)
           w == HandedOver(Widened, active - 1)
<1>b. n \in 0..Len(waiters) /\ w \in 0..Len(waiters)
  BY <1>0
<1>1. n \in Int /\ (n # 0 => active - 1 + n <= limit)
  <2>1. n # 0 => active - 1 + n <= limit
    BY <1>0, HandOverFits
  <2> QED BY <1>a, <1>b, <2>1
<1>2. w \in Int /\ (w # 0 => active - 1 + w <= Widened)
  <2>1. w # 0 => active - 1 + w <= Widened
    BY <1>0, HandOverFits
  <2> QED BY <1>a, <1>b, <2>1
<1>3. CASE RateLimited(i)
  <2>1. /\ \E place \in {"done", "backoff"} : Move(n, i, place)
        /\ Launch(Admitted(n)) /\ active' = active - 1 + n /\ phase[i] = "running"
    BY <1>3 DEF RateLimited
  <2> QED BY <1>a, <1>b, <1>1, <2>1, StopLaunches
<1>4. CASE Interrupted(i)
  <2>1. Again(i, n, active - 1 + n) /\ phase[i] = "running" /\ UNCHANGED limit
    BY <1>4 DEF Interrupted
  <2>2. active - 1 + n \in Int
    BY <1>0, <1>1
  <2> HIDE DEF n
  <2> QED BY <1>a, <1>b, <1>1, <2>1, <2>2, AgainLaunches
<1>5. CASE Finish(i)
  <2>1. /\ Move(w, i, "done") /\ limit' = Widened
        /\ Launch(Admitted(w)) /\ active' = active - 1 + w /\ phase[i] = "running"
    BY <1>5 DEF Finish
  <2> QED BY <1>a, <1>b, <1>2, <2>1, StopLaunches
<1>6. CASE Throw(i)
  <2>1. /\ Move(n, i, "done")
        /\ Launch(Admitted(n)) /\ active' = active - 1 + n /\ phase[i] = "running"
    BY <1>6 DEF Throw
  <2> QED BY <1>a, <1>b, <1>1, <2>1, StopLaunches
<1>7. CASE BackoffEnds(i)
  <2>1. Again(i, 0, active) /\ phase[i] = "backoff" /\ UNCHANGED limit
    BY <1>7 DEF BackoffEnds
  <2> QED BY <1>a, <1>b, <1>0, <2>1, AgainLaunches
<1> QED BY <1>3, <1>4, <1>5, <1>6, <1>7 DEF Settles

\* The batch implements its promise: a task is launched only where all that run
\* fit in the window as halving and widening have left it, and never after its
\* answer.
THEOREM KeepsPromiseHolds == Spec => KeepsPromise
<1>0. \A S : Promise!Cardinality(S) = Cardinality(S)
  BY DEF Promise!Cardinality, Cardinality
<1>1. Init => Promise!Init
  <2> SUFFICES ASSUME Init PROVE Promise!Init
    OBVIOUS
  <2>1. active = Cardinality(Running) /\ active = Ceiling /\ limit = Ceiling
    BY WindowInit DEF WindowInv, SlotsAccounted, Init
  <2>2. Answered = {}
    BY DEF Init, Answered
  <2>3. attempts = [i \in Task |-> IF i \in Running THEN 1 ELSE 0]
    BY DEF Init, Running
  <2>4. Ceiling <= Ceiling /\ Running \subseteq Task
    BY CeilingOK DEF Running
  <2> QED BY <1>0, <2>1, <2>2, <2>3, <2>4 DEF Promise!Init
<1>2. WindowInv /\ WindowInv' /\ [Next]_vars
        => [Promise!Next]_<<Running, Answered, limit, attempts>>
  <2> SUFFICES ASSUME WindowInv, WindowInv', Next, ~DeadlinePasses
               PROVE  Promise!Next
    BY DEF vars, DeadlinePasses, Running, Answered
  <2>0. PICK i \in Task : Settles(i) \/ BackoffEnds(i)
    BY DEF Next
  <2>1. Promise!Resize
    <3>0. limit \in Nat \ {0} /\ Widened \in Nat /\ Ceiling \in Nat
      BY WindowOK, CeilingOK DEF WindowInv, LaunchInv
    <3>1. limit' \in {limit, Larger(1, limit \div 2), Widened}
      BY <2>0 DEF Settles, BackoffEnds, RateLimited, Interrupted, Finish, Throw
    <3>2. Larger(1, limit \div 2) = Promise!Halved
      <4>1. limit \div 2 \in Nat /\ (limit > 1 => limit \div 2 >= 1)
            /\ (limit <= 1 => limit \div 2 = 0)
        BY <3>0
      <4> QED BY <3>0, <4>1 DEF Larger, Promise!Halved
    <3> QED BY <3>0, <3>1, <3>2 DEF Promise!Resize, Widened
  <2>2. Promise!Start
    <3>1. PICK S \in SUBSET Task : Launches(S)
      BY <2>0, StepLaunches
    <3>2. attempts \in [Task -> Nat]
      BY DEF WindowInv, LaunchInv, TypeOK
    <3>3. Promise!Launched = S
      BY <3>1, <3>2 DEF Launches, Launch, Promise!Launched
    <3>4. attempts' = [t \in Task |-> attempts[t] + IF t \in Promise!Launched THEN 1 ELSE 0]
      <4>1. \A t \in Task : attempts[t] = attempts[t] + 0
        BY <3>2
      <4> QED BY <3>1, <3>3, <4>1 DEF Launches, Launch
    <3>5. S \subseteq Running' /\ Running' \subseteq Running \cup S
      BY <3>1 DEF Launches, Running
    <3>6. Cardinality(Running') = active'
      BY DEF WindowInv, SlotsAccounted
    <3> QED BY <1>0, <3>1, <3>3, <3>4, <3>5, <3>6 DEF Launches, Promise!Start
  <2>3. Promise!Stop
    <3>1. \A t \in Task : result[t] # "none" => result'[t] # "none"
      <4> SUFFICES ASSUME NEW t \in Task, result[t] # "none" PROVE result'[t] # "none"
        OBVIOUS
      <4>1. result \in [Task -> {"none", "answered", "deferred", "thrown"}]
        BY DEF WindowInv, LaunchInv, TypeOK
      <4>2. CASE Settles(i)
        BY <4>1, <4>2 DEF Settles, RateLimited, Interrupted, Finish, Throw, Again, Answer
      <4>3. CASE BackoffEnds(i)
        BY <4>1, <4>3 DEF BackoffEnds, Again, Answer
      <4> QED BY <2>0, <4>2, <4>3
    <3>2. \A t \in Task : phase'[t] = "running" => result'[t] = "none"
      BY DEF WindowInv
    <3> QED BY <3>1, <3>2 DEF Promise!Stop, Running, Answered
  <2> QED BY <2>1, <2>2, <2>3 DEF Promise!Next
<1> QED BY <1>1, <1>2, WindowInvariant, PTL DEF Spec, KeepsPromise, Promise!Spec
-----------------------------------------------------------------------------
(* The machine relay.                                                          *)

\* None is neither a catalog, nor the empty one, nor a connection.
LEMMA NoneIsNoCatalog == None \notin Catalogs /\ None # {} /\ None \notin Conn
BY NoneAssumption, CatalogAssumption

\* Pending calls are few: one more while there is room, fewer otherwise.
LEMMA RoomForOne ==
  ASSUME pending \subseteq Call, HasRoom, NEW c \in Call
  PROVE  Cardinality(pending \cup {c}) <= MaxPending
<1>1. IsFiniteSet(pending)
  BY FiniteAssumption, FS_Subset
<1>2. Cardinality(pending) \in Nat
  BY <1>1, FS_CardinalityType
<1>3. Cardinality(pending \cup {c}) <= Cardinality(pending) + 1
  BY <1>1, <1>2, FS_AddElement
<1>4. Cardinality(pending \cup {c}) \in Nat
  BY <1>1, FS_AddElement, FS_CardinalityType
<1> QED BY <1>2, <1>3, <1>4, BoundAssumption DEF HasRoom

LEMMA OneLess ==
  ASSUME pending \subseteq Call, Cardinality(pending) <= MaxPending, NEW c \in pending
  PROVE  Cardinality(pending \ {c}) <= MaxPending
<1>1. IsFiniteSet(pending)
  BY FiniteAssumption, FS_Subset
<1>2. Cardinality(pending) \in Nat
  BY <1>1, FS_CardinalityType
<1>3. Cardinality(pending \ {c}) = Cardinality(pending) - 1
  BY <1>1, FS_RemoveElement
<1> QED BY <1>2, <1>3, BoundAssumption

LEMMA NonePending == Cardinality({}) <= MaxPending
BY FS_EmptySet, BoundAssumption

\* Rejecting leaves nobody waiting and touches no answer.
LEMMA Rejected ==
  ASSUME RelayTypeOK, WaitingAccounted, RejectPending
  PROVE  /\ pending' = {} /\ {c \in Call : outcome'[c] = "waiting"} = {}
         /\ outcome' \in [Call -> {"none", "waiting", "answered", "failed", "refused"}]
         /\ \A c \in Call : outcome'[c] = "answered" => outcome[c] = "answered"
BY DEF RelayTypeOK, WaitingAccounted, RejectPending

\* What is served is a catalog or nothing, never undefined.
LEMMA ServedType ==
  ASSUME RelayTypeOK PROVE Served \in Catalogs \cup {{}}
BY NoneIsNoCatalog DEF RelayTypeOK, Served

\* Reading the catalog does not change what is served.
LEMMA ReadKeeps ==
  ASSUME RelayTypeOK, CacheAgrees, ReadTools, storedTools' = storedTools
  PROVE  Served' = Served /\ cachedTools' \in Catalogs \cup {{}, None} /\ CacheAgrees'
BY NoneIsNoCatalog, ServedType DEF RelayTypeOK, ReadTools, Served, CacheAgrees

LEMMA Initial == RelayInit => RelayInv
<1> SUFFICES ASSUME RelayInit PROVE RelayInv
  OBVIOUS
<1>1. RelayTypeOK
  BY DEF RelayInit, RelayTypeOK, Frame
<1>2. WaitingAccounted
  BY NonePending DEF RelayInit, WaitingAccounted
<1>3. OpenIsActive /\ AnswersStayHome /\ CacheAgrees /\ UnbornIsSilent /\ CatalogKept
  BY DEF RelayInit, OpenIsActive, AnswersStayHome, CacheAgrees, UnbornIsSilent, CatalogKept
<1> QED BY <1>1, <1>2, <1>3 DEF RelayInv

LEMMA ConnectStep ==
  ASSUME RelayInv, NEW k \in Conn, Connect(k)
  PROVE  RelayInv'
<1> USE DEF RelayInv
<1>1. /\ pending' = {} /\ {c \in Call : outcome'[c] = "waiting"} = {}
      /\ outcome' \in [Call -> {"none", "waiting", "answered", "failed", "refused"}]
      /\ \A c \in Call : outcome'[c] = "answered" => outcome[c] = "answered"
  BY Rejected DEF Connect
<1>2. RelayTypeOK'
  <2>1. IsFiniteSet({m \in Conn : socket[m] # "unborn"})
    BY FiniteAssumption, FS_Subset
  <2>2. 1 + Cardinality({m \in Conn : socket[m] # "unborn"}) \in Nat
    BY <2>1, FS_CardinalityType
  <2>3. socket' \in [Conn -> {"unborn", "open", "closing", "closed"}]
    BY DEF Connect, RelayTypeOK, Alive
  <2> QED BY <1>1, <2>2, <2>3 DEF Connect, RelayTypeOK, laptop
<1>3. OpenIsActive'
  BY DEF Connect, OpenIsActive, Alive, RelayTypeOK
<1>4. WaitingAccounted'
  BY <1>1, NonePending DEF WaitingAccounted
<1>5. AnswersStayHome'
  BY <1>1 DEF Connect, AnswersStayHome
<1>6. CacheAgrees' /\ UnbornIsSilent'
  BY DEF Connect, CacheAgrees, UnbornIsSilent, RelayTypeOK, laptop, Alive
<1>7. CatalogKept'
  BY DEF Connect, CatalogKept, UnbornIsSilent, RelayTypeOK, laptop, Alive
<1> QED BY <1>2, <1>3, <1>4, <1>5, <1>6, <1>7

LEMMA LaptopSendsStep ==
  ASSUME RelayInv, NEW k \in Conn, NEW f \in Frame, LaptopSends(k, f)
  PROVE  RelayInv'
<1> USE DEF RelayInv
<1>1. RelayTypeOK'
  <2>1. Append(inbound[k], f) \in Seq(Frame)
    BY DEF RelayTypeOK
  <2> QED BY <2>1 DEF LaptopSends, RelayTypeOK, storage, calls
<1>2. UNCHANGED <<socket, generation, storedTools, cachedTools, pending, sentOn,
                  outcome, answeredOn, published>>
  BY DEF LaptopSends, storage, calls
<1>3. OpenIsActive' /\ WaitingAccounted' /\ AnswersStayHome' /\ CacheAgrees' /\ UnbornIsSilent' /\ CatalogKept'
  BY <1>2 DEF OpenIsActive, WaitingAccounted, AnswersStayHome, CacheAgrees, UnbornIsSilent, CatalogKept, Served
<1> QED BY <1>1, <1>3

LEMMA MessageStep ==
  ASSUME RelayInv, NEW k \in Conn, Message(k)
  PROVE  RelayInv'
<1> USE DEF RelayInv
<1> DEFINE f == Head(inbound[k])
<1>1. f \in Frame /\ inbound' \in [Conn -> Seq(Frame)]
  BY DEF Message, RelayTypeOK
<1>2. UNCHANGED <<since, generation, frames, faults, restarts>>
  BY DEF Message
<1>3. CASE UNCHANGED <<socket, cachedTools, storedTools, published, calls>>
  <2>1. RelayTypeOK'
    BY <1>1, <1>2, <1>3 DEF RelayTypeOK, calls
  <2>2. OpenIsActive' /\ WaitingAccounted' /\ AnswersStayHome' /\ CacheAgrees' /\ UnbornIsSilent' /\ CatalogKept'
    BY <1>2, <1>3 DEF OpenIsActive, WaitingAccounted, AnswersStayHome, CacheAgrees, UnbornIsSilent,
                      CatalogKept, Served, calls
  <2> QED BY <2>1, <2>2
<1>4. CASE /\ IsActive(k) /\ f.type = "hello" /\ f.tools # None
           /\ cachedTools' = f.tools /\ storedTools' = f.tools
           /\ published' = [published EXCEPT ![k] = f.tools]
           /\ UNCHANGED <<socket, calls>>
  <2>1. f.tools \in Catalogs
    BY <1>1, <1>4 DEF Frame
  <2>2. RelayTypeOK'
    BY <1>1, <1>2, <1>4, <2>1 DEF RelayTypeOK, calls
  <2>3. OpenIsActive' /\ WaitingAccounted' /\ AnswersStayHome'
    BY <1>2, <1>4 DEF OpenIsActive, WaitingAccounted, AnswersStayHome, calls
  <2>4. CacheAgrees' /\ UnbornIsSilent'
    BY <1>4, <2>1, NoneIsNoCatalog DEF CacheAgrees, UnbornIsSilent, RelayTypeOK, Message, Alive
  <2>5. CatalogKept'
    BY <1>4, <2>1, NoneIsNoCatalog DEF CatalogKept, OpenIsActive, IsActive, Served, RelayTypeOK
  <2> QED BY <2>2, <2>3, <2>4, <2>5
<1>5. CASE /\ socket' = [socket EXCEPT ![k] = "closing"]
           /\ UNCHANGED <<cachedTools, storedTools, published, calls>>
  <2>1. RelayTypeOK'
    BY <1>1, <1>2, <1>5 DEF RelayTypeOK, calls
  <2>2. OpenIsActive' /\ WaitingAccounted' /\ AnswersStayHome' /\ CacheAgrees' /\ UnbornIsSilent' /\ CatalogKept'
    BY <1>2, <1>5 DEF OpenIsActive, WaitingAccounted, AnswersStayHome, CacheAgrees, UnbornIsSilent,
                      CatalogKept, Served, calls, RelayTypeOK
  <2> QED BY <2>1, <2>2
<1>6. CASE /\ IsActive(k) /\ f.type = "result" /\ f.call \in pending
           /\ pending' = pending \ {f.call}
           /\ outcome' = [outcome EXCEPT ![f.call] = "answered"]
           /\ answeredOn' = [answeredOn EXCEPT ![f.call] = k]
           /\ UNCHANGED <<socket, cachedTools, storedTools, published, sentOn>>
  <2>1. f.call \in Call
    BY <1>6 DEF RelayTypeOK
  <2>2. RelayTypeOK'
    BY <1>1, <1>2, <1>6, <2>1 DEF RelayTypeOK
  <2>3. OpenIsActive' /\ CacheAgrees' /\ UnbornIsSilent' /\ CatalogKept'
    BY <1>2, <1>6 DEF OpenIsActive, CacheAgrees, UnbornIsSilent, CatalogKept, Served
  <2>4. WaitingAccounted'
    <3>1. Cardinality(pending') <= MaxPending
      BY <1>6, OneLess DEF WaitingAccounted, RelayTypeOK
    <3>2. pending' = {c \in Call : outcome'[c] = "waiting"}
      BY <1>6, <2>1 DEF WaitingAccounted, RelayTypeOK
    <3> QED BY <1>2, <1>6, <3>1, <3>2 DEF WaitingAccounted
  <2>5. AnswersStayHome'
    BY <1>6, <2>1 DEF AnswersStayHome, WaitingAccounted, IsActive, RelayTypeOK
  <2> QED BY <2>2, <2>3, <2>4, <2>5
<1>7. QED
  BY <1>3, <1>4, <1>5, <1>6 DEF Message, Accept, calls

LEMMA CloseStep ==
  ASSUME RelayInv, NEW k \in Conn, Close(k)
  PROVE  RelayInv'
<1> USE DEF RelayInv
<1>1. RelayTypeOK'
  BY Rejected DEF Close, RelayTypeOK, storage
<1>2. OpenIsActive'
  BY DEF Close, OpenIsActive, RelayTypeOK, storage, IsActive
<1>3. WaitingAccounted' /\ AnswersStayHome'
  <2>1. CASE IsActive(k)
    BY <2>1, Rejected, NonePending DEF Close, WaitingAccounted, AnswersStayHome
  <2>2. CASE ~IsActive(k)
    BY <2>2 DEF Close, WaitingAccounted, AnswersStayHome, storage
  <2> QED BY <2>1, <2>2
<1>4. CacheAgrees' /\ UnbornIsSilent'
  BY DEF Close, CacheAgrees, storage, UnbornIsSilent, RelayTypeOK
<1>5. CatalogKept'
  BY DEF Close, CatalogKept, OpenIsActive, Served, RelayTypeOK, storage, IsActive
<1> QED BY <1>1, <1>2, <1>3, <1>4, <1>5

\* A read of the catalog, alone or within a call that is refused.
LEMMA ReadStep ==
  ASSUME RelayInv, ReadTools, NEW c \in Call, outcome[c] = "none",
         outcome' \in {outcome, [outcome EXCEPT ![c] = "refused"]},
         UNCHANGED <<socket, since, storage, pending, sentOn, answeredOn, laptop, faults, restarts>>
  PROVE  RelayInv'
<1> USE DEF RelayInv
<1>1. Served' = Served /\ cachedTools' \in Catalogs \cup {{}, None} /\ CacheAgrees'
  BY ReadKeeps DEF storage
<1>2. RelayTypeOK'
  BY <1>1 DEF RelayTypeOK, storage, laptop
<1>3. OpenIsActive' /\ WaitingAccounted' /\ AnswersStayHome' /\ CacheAgrees' /\ UnbornIsSilent' /\ CatalogKept'
  BY <1>1 DEF OpenIsActive, WaitingAccounted, AnswersStayHome, UnbornIsSilent, CatalogKept,
              RelayTypeOK, storage, laptop
<1> QED BY <1>2, <1>3

LEMMA ListStep ==
  ASSUME RelayInv, List
  PROVE  RelayInv'
<1> USE DEF RelayInv
<1>1. Served' = Served /\ cachedTools' \in Catalogs \cup {{}, None} /\ CacheAgrees'
  BY ReadKeeps DEF List, storage
<1>2. RelayTypeOK'
  BY <1>1 DEF List, RelayTypeOK, storage, laptop, calls
<1>3. OpenIsActive' /\ WaitingAccounted' /\ AnswersStayHome' /\ CacheAgrees' /\ UnbornIsSilent' /\ CatalogKept'
  BY <1>1 DEF List, OpenIsActive, WaitingAccounted, AnswersStayHome, UnbornIsSilent, CatalogKept,
              RelayTypeOK, storage, laptop, calls
<1> QED BY <1>2, <1>3

LEMMA RefuseStep ==
  ASSUME RelayInv, NEW c \in Call, NEW t \in Tool, Refuse(c, t)
  PROVE  RelayInv'
<1> USE DEF RelayInv
<1>1. CASE UNCHANGED cachedTools
  <2>1. RelayTypeOK'
    BY <1>1 DEF Refuse, RelayTypeOK, storage, laptop
  <2>2. OpenIsActive' /\ WaitingAccounted' /\ AnswersStayHome' /\ CacheAgrees' /\ UnbornIsSilent' /\ CatalogKept'
    BY <1>1 DEF Refuse, OpenIsActive, WaitingAccounted, AnswersStayHome, CacheAgrees, UnbornIsSilent,
                CatalogKept, Served, RelayTypeOK, storage, laptop
  <2> QED BY <2>1, <2>2
<1>2. CASE ReadTools
  BY <1>2, ReadStep DEF Refuse
<1> QED BY <1>1, <1>2 DEF Refuse

LEMMA ForwardStep ==
  ASSUME RelayInv, NEW c \in Call, NEW t \in Tool, NEW k \in Conn, Forward(c, t, k)
  PROVE  RelayInv'
<1> USE DEF RelayInv
<1>1. Served' = Served /\ cachedTools' \in Catalogs \cup {{}, None} /\ CacheAgrees'
  BY ReadKeeps DEF Forward, storage
<1>2. RelayTypeOK'
  BY <1>1 DEF Forward, RelayTypeOK, storage, laptop
<1>3. OpenIsActive' /\ AnswersStayHome' /\ CacheAgrees' /\ UnbornIsSilent' /\ CatalogKept'
  BY <1>1 DEF Forward, OpenIsActive, AnswersStayHome, UnbornIsSilent, CatalogKept,
              RelayTypeOK, storage, laptop
<1>4. WaitingAccounted'
  <2>1. Cardinality(pending') <= MaxPending
    BY RoomForOne DEF Forward, RelayTypeOK
  <2>2. pending' = {x \in Call : outcome'[x] = "waiting"}
    BY DEF Forward, WaitingAccounted, RelayTypeOK
  <2>3. generation' = k
    BY DEF Forward, OpenIsActive, Selected, storage
  <2>4. \A x \in pending' : sentOn'[x] = k
    BY DEF Forward, WaitingAccounted, OpenIsActive, Selected, RelayTypeOK
  <2> QED BY <2>1, <2>2, <2>3, <2>4 DEF WaitingAccounted
<1> QED BY <1>2, <1>3, <1>4

LEMMA ForwardFailsStep ==
  ASSUME RelayInv, NEW c \in Call, NEW t \in Tool, NEW k \in Conn, ForwardFails(c, t, k)
  PROVE  RelayInv'
<1> USE DEF RelayInv
<1>1. IsActive(k)
  BY DEF ForwardFails, Selected, OpenIsActive, IsActive
<1>2. RelayTypeOK'
  BY <1>1 DEF ForwardFails, RelayTypeOK, laptop
<1>3. OpenIsActive' /\ CacheAgrees' /\ UnbornIsSilent' /\ CatalogKept'
  BY <1>1 DEF ForwardFails, OpenIsActive, CacheAgrees, UnbornIsSilent, CatalogKept, IsActive, RelayTypeOK, laptop
<1>4. WaitingAccounted' /\ AnswersStayHome'
  BY <1>1, NonePending DEF ForwardFails, WaitingAccounted, AnswersStayHome, RelayTypeOK
<1> QED BY <1>2, <1>3, <1>4

LEMMA TimeoutStep ==
  ASSUME RelayInv, NEW c \in Call, Timeout(c)
  PROVE  RelayInv'
<1> USE DEF RelayInv
<1>1. RelayTypeOK'
  BY DEF Timeout, RelayTypeOK, storage, laptop
<1>2. OpenIsActive' /\ AnswersStayHome' /\ CacheAgrees' /\ UnbornIsSilent' /\ CatalogKept'
  BY DEF Timeout, OpenIsActive, AnswersStayHome, CacheAgrees, UnbornIsSilent, CatalogKept, Served,
         RelayTypeOK, storage, laptop
<1>3. WaitingAccounted'
  <2>1. Cardinality(pending') <= MaxPending
    BY OneLess DEF Timeout, WaitingAccounted, RelayTypeOK
  <2>2. pending' = {x \in Call : outcome'[x] = "waiting"}
    BY DEF Timeout, WaitingAccounted, RelayTypeOK
  <2> QED BY <2>1, <2>2 DEF Timeout, WaitingAccounted, storage
<1> QED BY <1>1, <1>2, <1>3

LEMMA HibernateStep ==
  ASSUME RelayInv, Hibernate
  PROVE  RelayInv'
<1> USE DEF RelayInv
<1>1. RelayTypeOK'
  BY DEF Hibernate, RelayTypeOK, storage, laptop, calls
<1>2. OpenIsActive' /\ WaitingAccounted' /\ AnswersStayHome' /\ CacheAgrees' /\ UnbornIsSilent'
  BY DEF Hibernate, OpenIsActive, WaitingAccounted, AnswersStayHome, CacheAgrees, UnbornIsSilent,
         storage, laptop, calls
<1>3. CatalogKept'
  BY NoneIsNoCatalog DEF Hibernate, CatalogKept, CacheAgrees, Served, RelayTypeOK, storage, laptop
<1> QED BY <1>1, <1>2, <1>3

LEMMA RestartStep ==
  ASSUME RelayInv, Restart
  PROVE  RelayInv'
<1> USE DEF RelayInv
<1>1. RelayTypeOK'
  BY Rejected DEF Restart, RelayTypeOK, storage, Alive
<1>2. WaitingAccounted' /\ AnswersStayHome'
  BY Rejected, NonePending DEF Restart, WaitingAccounted, AnswersStayHome
<1>3. OpenIsActive' /\ CacheAgrees' /\ UnbornIsSilent' /\ CatalogKept'
  BY DEF Restart, OpenIsActive, CacheAgrees, UnbornIsSilent, CatalogKept, Alive, RelayTypeOK
<1> QED BY <1>1, <1>2, <1>3

LEMMA Stutter ==
  ASSUME RelayInv, UNCHANGED relayVars
  PROVE  RelayInv'
BY DEF RelayInv, relayVars, RelayTypeOK, OpenIsActive, WaitingAccounted, AnswersStayHome,
       CacheAgrees, UnbornIsSilent, CatalogKept, Served

\* RelayInv holds in every reachable state.
THEOREM RelayInvariant == RelaySpec => []RelayInv
<1>1. RelayInv /\ [RelayNext]_relayVars => RelayInv'
  <2> SUFFICES ASSUME RelayInv, [RelayNext]_relayVars PROVE RelayInv'
    OBVIOUS
  <2>1. CASE \E k \in Conn : Connect(k) \/ Message(k) \/ Close(k)
    BY <2>1, ConnectStep, MessageStep, CloseStep
  <2>2. CASE \E k \in Conn, f \in Frame : LaptopSends(k, f)
    BY <2>2, LaptopSendsStep
  <2>3. CASE \E c \in Call, t \in Tool : Refuse(c, t)
    BY <2>3, RefuseStep
  <2>4. CASE \E c \in Call, t \in Tool, k \in Conn : Forward(c, t, k) \/ ForwardFails(c, t, k)
    BY <2>4, ForwardStep, ForwardFailsStep
  <2>5. CASE \E c \in Call : Timeout(c)
    BY <2>5, TimeoutStep
  <2>6. CASE List \/ Hibernate \/ Restart
    BY <2>6, ListStep, HibernateStep, RestartStep
  <2>7. CASE UNCHANGED relayVars
    BY <2>7, Stutter
  <2> QED BY <2>1, <2>2, <2>3, <2>4, <2>5, <2>6, <2>7 DEF RelayNext
<1> QED BY Initial, <1>1, PTL DEF RelaySpec

\* Every variable of the relay has its type.
THEOREM RelayTypeCorrect == RelaySpec => []RelayTypeOK
<1>1. RelayInv => RelayTypeOK
  BY DEF RelayInv
<1> QED BY RelayInvariant, <1>1, PTL

\* No caller is forgotten or left waiting on a connection that is gone.
THEOREM WaitingAccountedHolds == RelaySpec => []WaitingAccounted
<1>1. RelayInv => WaitingAccounted
  BY DEF RelayInv
<1> QED BY RelayInvariant, <1>1, PTL

\* A result is taken from the connection its call was forwarded on.
THEOREM AnswersStayHomeHolds == RelaySpec => []AnswersStayHome
<1>1. RelayInv => AnswersStayHome
  BY DEF RelayInv
<1> QED BY RelayInvariant, <1>1, PTL

\* What the open laptop has published is what is served.
THEOREM CatalogKeptHolds == RelaySpec => []CatalogKept
<1>1. RelayInv => CatalogKept
  BY DEF RelayInv
<1> QED BY RelayInvariant, <1>1, PTL
================================================================================
