-------------------------- MODULE SessionTurnsProofs --------------------------
(* Proofs about SessionTurns for every set of messages, every limit on          *)
(* automatic continuations and any number of troubles.                         *)
EXTENDS SessionTurns, SelectionTheorems, TLAPS

-----------------------------------------------------------------------------
(* The end of a recovery.                                                      *)

\* Until the end of an incident is on record nobody is told, and once its
\* notice is out the chain that sent it goes no way back to it.
EndInv ==
  /\ told \in 0..1
  /\ incident /\ ~ended => told = 0
  /\ term \in {"persist", "notify"} => told = 0
  /\ term # "idle" => ended

\* A step that opens no incident and is no part of the end of one.
LEMMA Untouched ==
  ASSUME EndInv, UNCHANGED <<ended, told, term>>, incident' => incident
  PROVE  EndInv'
  BY DEF EndInv

LEMMA TurnKeeps == ASSUME EndInv, TurnStep, ~Exhausted PROVE EndInv'
<1>1. UNCHANGED <<ended, told, term>> /\ (incident' => incident)
  BY DEF TurnStep, TakeWork, BeginTurn, Recover, PrepareLog, PrepareList, PrepareArm, PrepareMark, Finish,
         FinishTurn, DropTurn, ReplyLog, ReplySettle, ReplyContinue, store
<1> QED BY <1>1, Untouched

LEMMA ExhaustedKeeps == ASSUME EndInv, Exhausted PROVE EndInv'
  BY DEF EndInv, Exhausted

LEMMA WatchKeeps ==
  ASSUME EndInv, WatchStep \/ ScanStep \/ Abort \/ AbortSettle \/ Hang \/ \E m \in Msg : Send(m)
  PROVE  EndInv'
<1>1. CASE WatchStep
  <2>1. UNCHANGED <<ended, told, term>> /\ (incident' => incident)
    BY <1>1 DEF WatchStep, Alarm, CheckDisarm, CheckRead, EndTurn, CancelTurn, store
  <2> QED BY <2>1, Untouched
<1>2. CASE ScanStep
  <2>1. UNCHANGED <<ended, told, term>> /\ (incident' => incident)
    <3>1. CASE ScanList \/ ScanRead \/ ScanRevive
      <4>1. UNCHANGED store /\ term' = term
        BY <3>1, Zenon DEF ScanList, ScanRead, ScanRevive
      <4> QED BY <4>1 DEF store
    <3>2. CASE ScanAlert \/ ScanInterrupt \/ EndTurn("scan")
      BY <3>2 DEF ScanAlert, ScanInterrupt, EndTurn, store
    <3>3. CASE ScanSettle
      BY <3>3 DEF ScanSettle, CancelTurn
    <3> QED BY <1>2, <3>1, <3>2, <3>3 DEF ScanStep
  <2> QED BY <2>1, Untouched
<1>3. CASE Abort \/ AbortSettle \/ Hang \/ \E m \in Msg : Send(m)
  <2>1. UNCHANGED <<ended, told, term>> /\ (incident' => incident)
    <3>1. CASE Abort
      BY <3>1 DEF Abort, CancelTurn
    <3>2. CASE AbortSettle
      BY <3>2 DEF AbortSettle
    <3>3. CASE Hang \/ \E m \in Msg : Send(m)
      BY <3>3 DEF Hang, Send, store
    <3> QED BY <1>3, <3>1, <3>2, <3>3
  <2> QED BY <2>1, Untouched
<1> QED BY <1>1, <1>2, <1>3

LEMMA CrashKeeps == ASSUME EndInv, Crash PROVE EndInv'
  BY DEF EndInv, Crash

LEMMA TermKeeps == ASSUME EndInv, TermStep PROVE EndInv'
<1>1. CASE TermPersist
  BY <1>1 DEF EndInv, TermPersist, store
<1>2. CASE TermNotify
  BY <1>2 DEF EndInv, TermNotify
<1>3. CASE TermSeal
  BY <1>3 DEF EndInv, TermSeal
<1> QED BY <1>1, <1>2, <1>3 DEF TermStep

LEMMA EndInvStep == EndInv /\ [Next]_vars => EndInv'
<1>1. ASSUME EndInv, UNCHANGED vars PROVE EndInv'
  BY <1>1, Untouched DEF vars
<1>2. ASSUME EndInv, Next PROVE EndInv'
  BY <1>2, TurnKeeps, ExhaustedKeeps, WatchKeeps, CrashKeeps, TermKeeps DEF Next, TurnStep, TakeWork
<1> QED BY <1>1, <1>2

\* EndToldOnce, for every number of messages and of troubles: however often a
\* recovery is opened, given up, interrupted by the owner or cut by a crash, its
\* end is told at most once.
THEOREM EndToldOnceHolds == Spec => []EndToldOnce
<1>1. Init => EndInv
  BY DEF Init, EndInv
<1>2. EndInv => EndToldOnce
  BY DEF EndInv, EndToldOnce
<1> QED BY <1>1, <1>2, EndInvStep, PTL DEF Spec

-----------------------------------------------------------------------------
(* What is sent: messages of the owner, and retries named for the row they     *)
(* retry.  A continuation is no message.                                       *)

Sent == Msg \cup {Retry(e) : e \in Nat}

LEMMA RetryIsNoMessage ==
  /\ \A e \in Nat : Retry(e) \notin Msg /\ Retry(e) # Continuation
  /\ \A e, f : Retry(e) = Retry(f) => e = f
  /\ Continuation \notin Sent
<1>1. ASSUME NEW e \in Nat PROVE Retry(e) \notin Msg /\ Retry(e) # Continuation
  BY TurnsAssumption DEF Retry, Continuation
<1>2. ASSUME NEW e, NEW f, Retry(e) = Retry(f) PROVE e = f
  BY <1>2 DEF Retry
<1>3. Continuation \notin Msg
  BY TurnsAssumption DEF Continuation
<1> QED BY <1>1, <1>2, <1>3 DEF Sent

\* What Think holds: nothing is accepted twice, so no message is twice in the
\* history, or in the queue and in the history.
SentInv ==
  /\ accepted \subseteq Sent
  /\ history \in Seq(Sent) /\ IsInjective(history)
  /\ \A i \in 1..Len(history) : history[i] \in accepted
  /\ queue \in Seq(Sent \cup {Continuation})
  /\ \A i \in 1..Len(queue) : queue[i] # Continuation =>
       /\ queue[i] \in accepted
       /\ \A k \in 1..Len(history) : history[k] # queue[i]
       /\ \A j \in 1..Len(queue) : queue[j] = queue[i] => j = i

\* The rows of D1: messages of the history, each once.  A retry is of a row
\* that holds a message of the owner.
RowsInv ==
  /\ users \in Seq(Sent) /\ IsInjective(users)
  /\ \A i \in 1..Len(users) : \E k \in 1..Len(history) : users[i] = history[k]
  /\ \A e \in Nat : Retry(e) \in accepted => e \in 1..Len(users) /\ users[e] \in Msg

\* What was alerted are rows that were retried, and the row of the retry is
\* not above the mark of the last alert.
AlertsInv ==
  /\ alerts \in Seq(Nat) /\ IsInjective(alerts)
  /\ attention \in 0..Len(users)
  /\ \A i \in 1..Len(alerts) : Retry(alerts[i]) \in accepted
  /\ \A i \in 1..Len(alerts) : \E u \in 1..Len(users) : u <= attention /\ users[u] = Retry(alerts[i])

\* The row the scan has read is still there, as it was.
ScanInv ==
  /\ scan \in [at : {"idle", "read", "settle", "settling", "revive", "alert", "interrupt"},
               row : Statuses, stale : BOOLEAN, entry : Nat]
  /\ scan.entry <= Len(users)
  /\ scan.at = "revive" => scan.entry >= 1 /\ users[scan.entry] \in Msg
  /\ scan.at = "alert" => scan.entry >= 1 /\ \E e \in Nat : users[scan.entry] = Retry(e)

\* A turn answers a message of the history, or continues.
TurnInv ==
  /\ turn \in [at : Running \cup {"idle", "answer", "settle", "continue"},
               msg : Sent \cup {None, Continuation}, cancelled : BOOLEAN, hung : BOOLEAN,
               outcome : {"stop", "tool-calls", "error", "aborted", "silent"},
               verdict : {"done", "continue", "give-up"}]
  /\ turn.at \in Running \cup {"answer"} /\ turn.msg # Continuation =>
       \E k \in 1..Len(history) : history[k] = turn.msg
  /\ \A m \in unlogged : \E k \in 1..Len(history) : history[k] = m

LEMMA ElementsOf ==
  ASSUME NEW T, NEW s \in Seq(T)
  PROVE  /\ Len(s) \in Nat /\ DOMAIN s = 1..Len(s)
         /\ \A i \in 1..Len(s) : s[i] \in T
         /\ ToSet(s) = {s[i] : i \in 1..Len(s)}
  BY LenProperties, ElementOfSeq DEF ToSet

\* The messages without a row, each once.
LEMMA NewUsersAre ==
  ASSUME SentInv
  PROVE  /\ NewUsers \in Seq(Sent) /\ IsInjective(NewUsers)
         /\ \A i \in 1..Len(NewUsers) : /\ \E k \in 1..Len(history) : NewUsers[i] = history[k]
                                        /\ NewUsers[i] \notin ToSet(users)
<1> DEFINE S == ToSet(history) \ ToSet(users)
<1>1. history \in Seq(Sent) /\ IsInjective(history)
  BY DEF SentInv
<1>2. NewUsers = Kept(history, S)
  BY DEF NewUsers
<1> HIDE DEF S
<1>3. /\ NewUsers \in Seq(Sent)
      /\ \E from : IsSelection(NewUsers, history, Len(history), S, from)
  BY <1>1, <1>2, KeptProperties
<1>4. PICK from : IsSelection(NewUsers, history, Len(history), S, from)
  BY <1>3
<1>5. Len(NewUsers) \in Nat /\ Len(history) \in Nat /\ DOMAIN NewUsers = 1..Len(NewUsers)
      /\ DOMAIN history = 1..Len(history)
  BY <1>1, <1>3, ElementsOf
<1>6. \A i \in 1..Len(NewUsers) : /\ from[i] \in 1..Len(history)
                                  /\ NewUsers[i] = history[from[i]] /\ NewUsers[i] \in S
  BY <1>4 DEF IsSelection
<1>7. ASSUME NEW i \in 1..Len(NewUsers), NEW j \in 1..Len(NewUsers), NewUsers[i] = NewUsers[j]
      PROVE  i = j
  <2>1. from[i] = from[j]
    BY <1>1, <1>5, <1>6, <1>7 DEF IsInjective
  <2>2. \A a, b \in 1..Len(NewUsers) : a < b => from[a] < from[b]
    BY <1>4 DEF IsSelection
  <2>3. from[i] \in Nat /\ i \in Nat /\ j \in Nat
    BY <1>5, <1>6
  <2>4. CASE i < j
    BY <2>1, <2>2, <2>3, <2>4
  <2>5. CASE j < i
    BY <2>1, <2>2, <2>3, <2>5
  <2> QED BY <2>3, <2>4, <2>5
<1> QED BY <1>3, <1>5, <1>6, <1>7 DEF IsInjective, S

\* Rows are only added, behind those there are.
Grown ==
  /\ Len(users') >= Len(users) /\ Len(users') \in Nat /\ Len(users) \in Nat
  /\ \A i \in 1..Len(users) : users'[i] = users[i]

LEMMA RowsGrow ==
  ASSUME SentInv, RowsInv, users' = users \o NewUsers, UNCHANGED <<history, accepted>>
  PROVE  RowsInv' /\ Grown
<1>1. users \in Seq(Sent) /\ NewUsers \in Seq(Sent)
  BY NewUsersAre DEF RowsInv
<1>2. /\ Len(users) \in Nat /\ Len(NewUsers) \in Nat
      /\ DOMAIN users = 1..Len(users) /\ DOMAIN NewUsers = 1..Len(NewUsers)
      /\ ToSet(users) = {users[i] : i \in 1..Len(users)}
  BY <1>1, ElementsOf
<1>3. /\ users' \in Seq(Sent) /\ Len(users') = Len(users) + Len(NewUsers)
      /\ \A i \in 1..(Len(users) + Len(NewUsers)) :
           users'[i] = IF i <= Len(users) THEN users[i] ELSE NewUsers[i - Len(users)]
  BY <1>1, ConcatProperties
<1>4. Grown
  BY <1>2, <1>3 DEF Grown
<1>5. DOMAIN users' = 1..Len(users')
  BY <1>3, LenProperties
<1>6. ASSUME NEW i \in 1..Len(users'), NEW j \in 1..Len(users'), users'[i] = users'[j], i < j
      PROVE  FALSE
  <2>1. CASE j <= Len(users)
    <3>1. i \in 1..Len(users) /\ j \in 1..Len(users) /\ i # j
      BY <1>2, <1>6, <2>1
    <3>2. users[i] = users[j]
      BY <1>2, <1>3, <1>6, <3>1
    <3> QED BY <1>2, <3>1, <3>2 DEF RowsInv, IsInjective
  <2>2. CASE i <= Len(users) /\ Len(users) < j
    <3>1. i \in 1..Len(users) /\ j - Len(users) \in 1..Len(NewUsers)
      BY <1>2, <1>3, <2>2
    <3>2. users[i] = NewUsers[j - Len(users)]
      BY <1>2, <1>3, <1>6, <2>2
    <3> QED BY <1>2, <3>1, <3>2, NewUsersAre
  <2>3. CASE Len(users) < i
    <3>1. i - Len(users) \in 1..Len(NewUsers) /\ j - Len(users) \in 1..Len(NewUsers)
      BY <1>2, <1>3, <1>6, <2>3
    <3>2. NewUsers[i - Len(users)] = NewUsers[j - Len(users)]
      BY <1>2, <1>3, <1>6, <2>3
    <3>3. i - Len(users) = j - Len(users)
      BY <1>2, <3>1, <3>2, NewUsersAre DEF IsInjective
    <3> QED BY <1>2, <1>6, <3>3
  <2> QED BY <1>2, <2>1, <2>2, <2>3
<1>7. IsInjective(users')
  <2>1. ASSUME NEW i \in 1..Len(users'), NEW j \in 1..Len(users'), users'[i] = users'[j] PROVE i = j
    <3>1. ~(i < j) /\ ~(j < i)
      BY <1>6, <2>1
    <3> QED BY <1>2, <1>3, <3>1
  <2> QED BY <1>5, <2>1 DEF IsInjective
<1>8. ASSUME NEW i \in 1..Len(users') PROVE \E k \in 1..Len(history) : users'[i] = history[k]
  <2>1. CASE i <= Len(users)
    BY <1>2, <1>3, <2>1 DEF RowsInv
  <2>2. CASE Len(users) < i
    <3>1. i - Len(users) \in 1..Len(NewUsers) /\ users'[i] = NewUsers[i - Len(users)]
      BY <1>2, <1>3, <2>2
    <3> QED BY <3>1, NewUsersAre
  <2> QED BY <1>2, <1>3, <2>1, <2>2
<1>9. ASSUME NEW e \in Nat, Retry(e) \in accepted PROVE e \in 1..Len(users') /\ users'[e] \in Msg
  BY <1>2, <1>4, <1>9 DEF RowsInv, Grown
<1> QED BY <1>3, <1>4, <1>7, <1>8, <1>9 DEF RowsInv

DataInv == SentInv /\ RowsInv /\ AlertsInv /\ ScanInv /\ TurnInv

LEMMA GrownSame == ASSUME RowsInv, users' = users PROVE Grown
  BY ElementsOf DEF RowsInv, Grown

LEMMA AlertsKept ==
  ASSUME RowsInv, AlertsInv, Grown, UNCHANGED <<alerts, attention>>, accepted \subseteq accepted'
  PROVE  AlertsInv'
<1>1. attention' \in 0..Len(users')
  BY DEF AlertsInv, Grown
<1>2. ASSUME NEW i \in 1..Len(alerts)
      PROVE  \E u \in 1..Len(users') : u <= attention /\ users'[u] = Retry(alerts[i])
  <2>1. PICK u \in 1..Len(users) : u <= attention /\ users[u] = Retry(alerts[i])
    BY DEF AlertsInv
  <2>2. u \in 1..Len(users') /\ users'[u] = users[u]
    BY DEF Grown
  <2> QED BY <2>1, <2>2
<1> QED BY <1>1, <1>2 DEF AlertsInv

LEMMA ScanKept ==
  ASSUME ScanInv, Grown, scan' \in {scan, IdleScan} PROVE ScanInv'
<1>1. CASE scan' = scan
  BY <1>1 DEF ScanInv, Grown
<1>2. CASE scan' = IdleScan
  BY <1>2 DEF ScanInv, Grown, IdleScan, Statuses
<1> QED BY <1>1, <1>2

Turns == [at : Running \cup {"idle", "answer", "settle", "continue"},
          msg : Sent \cup {None, Continuation}, cancelled : BOOLEAN, hung : BOOLEAN,
          outcome : {"stop", "tool-calls", "error", "aborted", "silent"},
          verdict : {"done", "continue", "give-up"}]

LEMMA IdleTurnTyped == IdleTurn \in Turns /\ IdleTurn.at = "idle"
  BY DEF IdleTurn, Turns

\* A turn goes on with its message, or is over.
LEMMA TurnGoesOn ==
  ASSUME TurnInv, history' = history, turn' \in Turns,
         turn'.at \in Running \cup {"answer"} =>
           \/ turn'.msg = turn.msg /\ turn.at \in Running \cup {"answer"}
           \/ turn'.msg = Continuation,
         \A m \in unlogged' : m \in unlogged \/ (m \in Answer /\ turn.at \in Running)
  PROVE  TurnInv'
<1>1. turn'.at \in Running \cup {"answer"} /\ turn'.msg # Continuation =>
        \E k \in 1..Len(history) : history[k] = turn'.msg
  BY DEF TurnInv
<1>2. ASSUME NEW m \in unlogged' PROVE \E k \in 1..Len(history) : history[k] = m
  <2>1. CASE m \in unlogged
    BY <2>1 DEF TurnInv
  <2>2. CASE m = turn.msg /\ m # Continuation /\ turn.at \in Running
    BY <2>2 DEF TurnInv
  <2> QED BY <2>1, <2>2 DEF Answer
<1> QED BY <1>1, <1>2 DEF TurnInv, Turns

LEMMA TurnKept == ASSUME TurnInv, UNCHANGED <<history, turn, unlogged>> PROVE TurnInv'
  BY DEF TurnInv

\* A step that adds to nothing but the scan or the turn.
LEMMA DataKept ==
  ASSUME DataInv, UNCHANGED <<users, accepted, queue, history, alerts, attention>>,
         scan' \in {scan, IdleScan} \/ ScanInv', TurnInv'
  PROVE  DataInv'
<1>1. Grown
  BY GrownSame DEF DataInv
<1>2. SentInv' /\ RowsInv'
  BY DEF DataInv, SentInv, RowsInv
<1>3. AlertsInv' /\ ScanInv'
  BY <1>1, AlertsKept, ScanKept DEF DataInv
<1> QED BY <1>2, <1>3 DEF DataInv

-----------------------------------------------------------------------------
(* Messages that are accepted.                                                 *)

LEMMA SubmitKeeps ==
  ASSUME SentInv, NEW id \in Sent, Submit(id), history' = history
  PROVE  SentInv' /\ accepted' = accepted \cup {id}
<1>1. CASE id \in accepted
  <2>1. UNCHANGED <<accepted, queue>>
    BY <1>1 DEF Submit
  <2> QED BY <1>1, <2>1 DEF SentInv
<1>2. CASE id \notin accepted
  <2>1. accepted' = accepted \cup {id} /\ queue' = Append(queue, id)
    BY <1>2 DEF Submit
  <2>2. queue \in Seq(Sent \cup {Continuation}) /\ Len(queue) \in Nat
    BY ElementsOf DEF SentInv
  <2>3. /\ queue' \in Seq(Sent \cup {Continuation}) /\ Len(queue') = Len(queue) + 1
        /\ \A i \in 1..Len(queue) : queue'[i] = queue[i]
        /\ queue'[Len(queue) + 1] = id
    BY <2>1, <2>2, AppendProperties
  <2>4. ASSUME NEW i \in 1..Len(queue'), queue'[i] # Continuation
        PROVE  /\ queue'[i] \in accepted'
               /\ \A k \in 1..Len(history) : history[k] # queue'[i]
               /\ \A j \in 1..Len(queue') : queue'[j] = queue'[i] => j = i
    <3>1. CASE i \in 1..Len(queue)
      <4>1. queue'[i] = queue[i] /\ queue[i] \in accepted /\ queue[i] # id
        BY <1>2, <2>3, <2>4, <3>1 DEF SentInv
      <4>2. ASSUME NEW j \in 1..Len(queue'), queue'[j] = queue'[i] PROVE j = i
        <5>1. j \in 1..Len(queue)
          BY <2>2, <2>3, <4>1, <4>2
        <5> QED BY <2>3, <2>4, <3>1, <4>2, <5>1 DEF SentInv
      <4> QED BY <2>1, <2>4, <3>1, <4>1, <4>2 DEF SentInv
    <3>2. CASE i = Len(queue) + 1
      <4>1. queue'[i] = id
        BY <2>3, <3>2
      <4>2. \A k \in 1..Len(history) : history[k] # id
        BY <1>2 DEF SentInv
      <4>3. ASSUME NEW j \in 1..Len(queue), queue'[j] = id PROVE FALSE
        <5>1. queue[j] = id
          BY <2>3, <4>3
        <5>2. id # Continuation
          BY RetryIsNoMessage
        <5> QED BY <1>2, <5>1, <5>2 DEF SentInv
      <4> QED BY <2>1, <2>2, <2>3, <3>2, <4>1, <4>2, <4>3
    <3> QED BY <2>2, <2>3, <3>1, <3>2
  <2> QED BY <2>1, <2>3, <2>4 DEF SentInv
<1> QED BY <1>1, <1>2 DEF Submit

LEMMA SendKeeps == ASSUME DataInv, NEW m \in Msg, Send(m) PROVE DataInv'
<1>1. /\ Submit(m) /\ UNCHANGED <<users, alerts, attention, history, unlogged, turn, scan>>
  BY DEF Send, d1, entries
<1>2. SentInv' /\ accepted' = accepted \cup {m}
  BY <1>1, SubmitKeeps DEF DataInv, Sent
<1>3. \A e \in Nat : Retry(e) \in accepted' => Retry(e) \in accepted
  BY <1>2, RetryIsNoMessage
<1>4. RowsInv'
  BY <1>1, <1>3 DEF DataInv, RowsInv
<1>5. Grown
  BY <1>1, GrownSame DEF DataInv
<1>6. AlertsInv' /\ ScanInv' /\ TurnInv'
  BY <1>1, <1>2, <1>5, AlertsKept, ScanKept, TurnKept DEF DataInv
<1> QED BY <1>2, <1>4, <1>6 DEF DataInv

\* The row the scan sends again holds a message of the owner, so it is retried
\* itself.
LEMMA OriginalIsItself ==
  ASSUME NEW u \in Nat, users[u] \in Msg, Len(users) \in Nat, DOMAIN users = 1..Len(users)
  PROVE  OriginalEntry(u) = u
<1>1. ~AlreadyRevived(u)
  BY RetryIsNoMessage DEF AlreadyRevived
<1> QED BY <1>1 DEF OriginalEntry

LEMMA ScanReviveKeeps == ASSUME DataInv, ScanRevive PROVE DataInv'
<1>0. SentInv /\ RowsInv /\ AlertsInv /\ ScanInv /\ TurnInv
  BY DEF DataInv
<1>1. scan.at = "revive" /\ scan' = IdleScan
      /\ UNCHANGED <<users, alerts, attention, history, unlogged, turn>>
  BY DEF ScanRevive, d1, entries
<1>2. /\ scan.entry \in 1..Len(users) /\ users[scan.entry] \in Msg /\ scan.entry \in Nat
      /\ Len(users) \in Nat /\ DOMAIN users = 1..Len(users)
  BY <1>0, <1>1, ElementsOf DEF ScanInv, RowsInv
<1>3. OriginalEntry(scan.entry) = scan.entry /\ Retry(scan.entry) \in Sent
  BY <1>2, OriginalIsItself DEF Sent
<1>4. /\ SentInv' /\ accepted \subseteq accepted'
      /\ \A e \in Nat : Retry(e) \in accepted' => Retry(e) \in accepted \/ e = scan.entry
  <2>1. CASE Submit(Retry(scan.entry))
    BY <1>0, <1>1, <1>3, <2>1, SubmitKeeps, RetryIsNoMessage
  <2>2. CASE UNCHANGED <<accepted, queue>>
    BY <1>0, <1>1, <2>2 DEF SentInv
  <2> QED BY <1>3, <2>1, <2>2 DEF ScanRevive
<1>5. RowsInv'
  BY <1>0, <1>1, <1>2, <1>4 DEF RowsInv
<1>6. Grown
  BY <1>0, <1>1, GrownSame
<1>7. AlertsInv' /\ ScanInv' /\ TurnInv'
  BY <1>0, <1>1, <1>4, <1>6, AlertsKept, ScanKept, TurnKept
<1> QED BY <1>4, <1>5, <1>7 DEF DataInv

-----------------------------------------------------------------------------
(* A turn begins, and logs.                                                    *)

\* The message at the head of the queue joins the history: it is not in it yet,
\* and once it is, it is in the queue no more.
LEMMA BeginSent ==
  ASSUME SentInv, queue # <<>>, queue' = Tail(queue), accepted' = accepted,
         history' = IF Head(queue) = Continuation THEN history ELSE Append(history, Head(queue))
  PROVE  /\ SentInv'
         /\ Len(history') >= Len(history) /\ Len(history') \in Nat /\ Len(history) \in Nat
         /\ \A k \in 1..Len(history) : history'[k] = history[k]
         /\ Head(queue) \in Sent \cup {Continuation}
         /\ Head(queue) # Continuation => \E k \in 1..Len(history') : history'[k] = Head(queue)
<1>1. /\ queue \in Seq(Sent \cup {Continuation}) /\ history \in Seq(Sent)
      /\ Len(queue) \in Nat /\ Len(history) \in Nat
  BY ElementsOf DEF SentInv
<1>2. /\ Head(queue) \in Sent \cup {Continuation} /\ Head(queue) = queue[1]
      /\ queue' \in Seq(Sent \cup {Continuation}) /\ Len(queue') = Len(queue) - 1
      /\ \A i \in 1..Len(queue') : queue'[i] = queue[i + 1]
      /\ Len(queue) \in Nat \ {0}
  BY <1>1, HeadTailProperties, EmptySeq
<1>3. ASSUME NEW i \in 1..Len(queue'), queue'[i] # Continuation
      PROVE  /\ queue'[i] \in accepted
             /\ \A k \in 1..Len(history) : history[k] # queue'[i]
             /\ \A j \in 1..Len(queue') : queue'[j] = queue'[i] => j = i
             /\ queue'[i] # Head(queue)
  <2>1. i + 1 \in 1..Len(queue) /\ queue'[i] = queue[i + 1] /\ queue[i + 1] # Continuation
    BY <1>2, <1>3
  <2>2. \A j \in 1..Len(queue) : queue[j] = queue[i + 1] => j = i + 1
    BY <2>1 DEF SentInv
  <2>3. ASSUME NEW j \in 1..Len(queue'), queue'[j] = queue'[i] PROVE j = i
    <3>1. j + 1 \in 1..Len(queue) /\ queue[j + 1] = queue[i + 1]
      BY <1>2, <2>1, <2>3
    <3> QED BY <2>2, <3>1
  <2>4. 1 \in 1..Len(queue) /\ 1 # i + 1
    BY <1>2
  <2> QED BY <1>2, <2>1, <2>2, <2>3, <2>4 DEF SentInv
<1>4. CASE Head(queue) = Continuation
  BY <1>1, <1>2, <1>3, <1>4 DEF SentInv
<1>5. CASE Head(queue) # Continuation
  <2>1. Head(queue) \in Sent
    BY <1>2, <1>5
  <2>2. /\ history' \in Seq(Sent) /\ Len(history') = Len(history) + 1
        /\ \A k \in 1..Len(history) : history'[k] = history[k]
        /\ history'[Len(history) + 1] = Head(queue)
        /\ DOMAIN history' = 1..Len(history')
    <3>1. history' = Append(history, Head(queue))
      BY <1>5
    <3> QED BY <1>1, <2>1, <3>1, AppendProperties, LenProperties
  <2>3. 1 \in 1..Len(queue) /\ queue[1] \in accepted /\ \A k \in 1..Len(history) : history[k] # Head(queue)
    BY <1>2, <1>5 DEF SentInv
  <2>4. ASSUME NEW i \in 1..Len(history'), NEW j \in 1..Len(history'), history'[i] = history'[j]
        PROVE  i = j
    <3>1. CASE i \in 1..Len(history) /\ j \in 1..Len(history)
      <4>1. history[i] = history[j] /\ DOMAIN history = 1..Len(history)
        BY <1>1, <2>2, <2>4, <3>1, ElementsOf
      <4> QED BY <3>1, <4>1 DEF SentInv, IsInjective
    <3>2. CASE i = Len(history) + 1 \/ j = Len(history) + 1
      BY <1>1, <2>2, <2>3, <2>4, <3>2
    <3> QED BY <1>1, <2>2, <3>1, <3>2
  <2>5. IsInjective(history')
    BY <2>2, <2>4 DEF IsInjective
  <2>6. \A k \in 1..Len(history') : history'[k] \in accepted
    BY <1>1, <1>2, <2>2, <2>3 DEF SentInv
  <2>7. ASSUME NEW i \in 1..Len(queue'), queue'[i] # Continuation, NEW k \in 1..Len(history')
        PROVE  history'[k] # queue'[i]
    BY <1>1, <1>3, <2>2, <2>7
  <2>8. SentInv'
    BY <1>2, <1>3, <2>2, <2>5, <2>6, <2>7 DEF SentInv
  <2>9. Len(history) + 1 \in 1..Len(history')
    BY <1>1, <2>2
  <2> QED BY <1>1, <1>2, <2>2, <2>8, <2>9
<1> QED BY <1>4, <1>5

LEMMA BeginTurnKeeps == ASSUME DataInv, BeginTurn PROVE DataInv'
<1>0. SentInv /\ RowsInv /\ AlertsInv /\ ScanInv /\ TurnInv
  BY DEF DataInv
<1>1. /\ queue # <<>> /\ queue' = Tail(queue)
      /\ history' = IF Head(queue) = Continuation THEN history ELSE Append(history, Head(queue))
      /\ turn' = [IdleTurn EXCEPT !.at = "log", !.msg = Head(queue)]
      /\ UNCHANGED <<users, alerts, attention, accepted, unlogged, scan>>
  BY DEF BeginTurn, d1, entries
<1>2. /\ SentInv'
      /\ Len(history') >= Len(history) /\ Len(history') \in Nat /\ Len(history) \in Nat
      /\ \A k \in 1..Len(history) : history'[k] = history[k]
      /\ Head(queue) \in Sent \cup {Continuation}
      /\ Head(queue) # Continuation => \E k \in 1..Len(history') : history'[k] = Head(queue)
  BY <1>0, <1>1, BeginSent
<1>3. \A m : (\E k \in 1..Len(history) : history[k] = m) => \E k \in 1..Len(history') : history'[k] = m
  BY <1>2
<1>4. RowsInv'
  BY <1>0, <1>1, <1>3 DEF RowsInv
<1>5. AlertsInv' /\ ScanInv'
  BY <1>0, <1>1, GrownSame, AlertsKept, ScanKept
<1>6. TurnInv'
  <2>1. turn' = [at |-> "log", msg |-> Head(queue), cancelled |-> FALSE, hung |-> FALSE,
                 outcome |-> "stop", verdict |-> "done"]
    BY <1>1 DEF IdleTurn
  <2>2. turn' \in Turns
    BY <1>2, <2>1 DEF Turns, Running
  <2>3. \A m \in unlogged' : \E k \in 1..Len(history') : history'[k] = m
    BY <1>0, <1>1, <1>3 DEF TurnInv
  <2> QED BY <1>2, <2>1, <2>2, <2>3 DEF TurnInv, Turns
<1> QED BY <1>2, <1>4, <1>5, <1>6 DEF DataInv

\* The rows of a log, if it came through, are those that were missing.
LEMMA LogKeeps ==
  ASSUME DataInv, users' \in {users, users \o NewUsers},
         UNCHANGED <<accepted, queue, history, alerts, attention, scan>>, TurnInv'
  PROVE  DataInv'
<1>0. SentInv /\ RowsInv /\ AlertsInv /\ ScanInv
  BY DEF DataInv
<1>1. SentInv'
  BY <1>0 DEF SentInv
<1>2. RowsInv' /\ Grown
  <2>1. CASE users' = users
    BY <1>0, <2>1, GrownSame DEF RowsInv
  <2>2. CASE users' = users \o NewUsers
    BY <1>0, <2>2, RowsGrow
  <2> QED BY <2>1, <2>2
<1>3. AlertsInv' /\ ScanInv'
  BY <1>0, <1>2, AlertsKept, ScanKept
<1> QED BY <1>1, <1>2, <1>3 DEF DataInv

LEMMA PrepareLogKeeps == ASSUME DataInv, PrepareLog PROVE DataInv'
<1>0. TurnInv /\ turn \in Turns /\ turn.at = "log"
  BY DEF DataInv, TurnInv, Turns, PrepareLog
<1>1. /\ users' \in {users, users \o NewUsers} /\ unlogged' \in {unlogged, {}}
      /\ turn' = [turn EXCEPT !.at = "list"]
      /\ UNCHANGED <<accepted, queue, history, alerts, attention, scan>>
  BY DEF PrepareLog, AppendUsers
<1>2. turn' \in Turns /\ turn'.msg = turn.msg /\ turn.at \in Running
  BY <1>0, <1>1 DEF Turns, Running
<1>3. TurnInv'
  BY <1>0, <1>1, <1>2, TurnGoesOn
<1> QED BY <1>1, <1>3, LogKeeps

LEMMA ReplyLogKeeps == ASSUME DataInv, ReplyLog PROVE DataInv'
<1>0. TurnInv /\ turn \in Turns
  BY DEF DataInv, TurnInv, Turns
<1>1. /\ users' \in {users, users \o NewUsers} /\ unlogged' \in {unlogged, unlogged \ {turn.msg}}
      /\ turn' = [turn EXCEPT !.at = "settle", !.msg = None]
      /\ UNCHANGED <<accepted, queue, history, alerts, attention, scan>>
  BY DEF ReplyLog, AppendUsers
<1>2. turn' \in Turns /\ turn'.at = "settle" /\ "settle" \notin Running \cup {"answer"}
  BY <1>0, <1>1 DEF Turns, Running
<1>3. TurnInv'
  BY <1>0, <1>1, <1>2, TurnGoesOn
<1> QED BY <1>1, <1>3, LogKeeps

-----------------------------------------------------------------------------
(* The steps that leave messages, rows and alerts alone.                       *)

DataView == <<users, accepted, queue, history, alerts, attention>>

LEMMA CancelMoves ==
  ASSUME TurnInv, turn' = IF turn.at \in Running THEN [turn EXCEPT !.cancelled = TRUE] ELSE turn,
         UNCHANGED <<history, unlogged>>
  PROVE  TurnInv'
<1>1. turn \in Turns
  BY DEF TurnInv, Turns
<1>2. CASE turn.at \in Running
  <2>1. turn' \in Turns /\ turn'.at = turn.at /\ turn'.msg = turn.msg
    BY <1>1, <1>2 DEF Turns
  <2> QED BY <2>1, TurnGoesOn
<1>3. CASE turn.at \notin Running
  BY <1>3, TurnKept
<1> QED BY <1>2, <1>3

LEMMA PrepareMoves ==
  ASSUME DataInv, PrepareList \/ PrepareArm \/ PrepareMark \/ Hang
  PROVE  TurnInv' /\ UNCHANGED DataView /\ scan' = scan
<1>1. TurnInv /\ turn \in Turns
  BY DEF DataInv, TurnInv, Turns
<1>2. UNCHANGED DataView /\ scan' = scan /\ unlogged' = unlogged
  BY DEF PrepareList, PrepareArm, PrepareMark, Hang, d1, entries, think, DataView
<1>3. turn' \in Turns /\ turn'.msg = turn.msg /\ turn.at \in Running
  <2>1. turn.at \in {"list", "arm", "mark", "live"}
    BY DEF PrepareList, PrepareArm, PrepareMark, Hang
  <2>2. \/ \E step \in {"mark", "arm", "live"} : turn' = [turn EXCEPT !.at = step]
        \/ turn' = [turn EXCEPT !.hung = TRUE]
    BY DEF PrepareList, PrepareArm, PrepareMark, Hang
  <2> QED BY <1>1, <2>1, <2>2 DEF Turns, Running
<1>4. TurnInv'
  BY <1>1, <1>2, <1>3, TurnGoesOn DEF DataView
<1> QED BY <1>2, <1>4

LEMMA FinishMoves ==
  ASSUME DataInv, Finish \/ DropTurn
  PROVE  TurnInv' /\ UNCHANGED DataView /\ scan' = scan
<1>1. TurnInv /\ turn \in Turns
  BY DEF DataInv, TurnInv, Turns
<1>2. UNCHANGED DataView /\ scan' = scan /\ turn.at = "live" /\ unlogged' \in {unlogged, Answer}
  BY DEF Finish, FinishTurn, DropTurn, d1, entries, DataView
<1>3. turn' \in Turns /\ (turn' = IdleTurn \/ turn'.msg = turn.msg)
  <2>1. CASE DropTurn
    BY <2>1, IdleTurnTyped DEF DropTurn
  <2>2. ASSUME NEW o \in {"stop", "tool-calls", "error", "aborted", "silent"}, FinishTurn(o)
        PROVE  turn' \in Turns /\ turn'.msg = turn.msg
    <3>1. ShouldAutoContinue(o) \in {"done", "continue", "give-up"}
      BY DEF ShouldAutoContinue
    <3>2. turn' = [IdleTurn EXCEPT !.at = "answer", !.msg = turn.msg,
                                   !.outcome = o, !.verdict = ShouldAutoContinue(o)]
      BY <2>2 DEF FinishTurn
    <3>3. turn' = [at |-> "answer", msg |-> turn.msg, cancelled |-> FALSE, hung |-> FALSE,
                   outcome |-> o, verdict |-> ShouldAutoContinue(o)]
      BY <3>2 DEF IdleTurn
    <3>4. turn.msg \in Sent \cup {None, Continuation}
      BY <1>1 DEF Turns
    <3> HIDE DEF ShouldAutoContinue
    <3> QED BY <2>2, <3>1, <3>3, <3>4 DEF Turns
  <2> QED BY <2>1, <2>2 DEF Finish
<1>4. "live" \in Running /\ "idle" \notin Running \cup {"answer"}
  BY DEF Running
<1>5. TurnInv'
  BY <1>1, <1>2, <1>3, <1>4, IdleTurnTyped, TurnGoesOn DEF DataView
<1> QED BY <1>2, <1>5

LEMMA OverMoves ==
  ASSUME DataInv, ReplySettle \/ Recover \/ Crash
  PROVE  TurnInv' /\ UNCHANGED DataView /\ scan' \in {scan, IdleScan}
<1>1. TurnInv /\ turn \in Turns
  BY DEF DataInv, TurnInv, Turns
<1>2. CASE ReplySettle
  <2>1. UNCHANGED DataView /\ scan' = scan /\ unlogged' = unlogged
    BY <1>2 DEF ReplySettle, entries, think, DataView
  <2>2. turn' \in Turns /\ turn'.at \in {"idle", "continue"}
    BY <1>1, <1>2, IdleTurnTyped DEF ReplySettle, Turns
  <2>3. turn'.at \notin Running \cup {"answer"}
    BY <2>2 DEF Running
  <2> QED BY <1>1, <2>1, <2>2, <2>3, TurnGoesOn DEF DataView
<1>3. CASE Recover
  <2>1. UNCHANGED DataView /\ scan' = scan /\ unlogged' = unlogged
    BY <1>3 DEF Recover, d1, entries, think, DataView
  <2>2. turn' = [at |-> "log", msg |-> Continuation, cancelled |-> FALSE, hung |-> FALSE,
                 outcome |-> "stop", verdict |-> "done"]
    BY <1>3 DEF Recover, IdleTurn
  <2>3. turn' \in Turns /\ turn'.msg = Continuation
    BY <2>2 DEF Turns, Running
  <2> QED BY <1>1, <2>1, <2>3, TurnGoesOn DEF DataView
<1>4. CASE Crash
  <2>1. UNCHANGED DataView /\ scan' \in {scan, IdleScan} /\ turn' = IdleTurn
    BY <1>4 DEF Crash, d1, entries, DataView
  <2>2. unlogged' \in {unlogged, Answer} /\ (unlogged' # unlogged => turn.at \in Running)
    BY <1>4 DEF Crash, Running
  <2>3. "idle" \notin Running \cup {"answer"}
    BY DEF Running
  <2> QED BY <1>1, <2>1, <2>2, <2>3, IdleTurnTyped, TurnGoesOn DEF DataView
<1> QED BY <1>2, <1>3, <1>4

LEMMA WatchMoves ==
  ASSUME DataInv, Alarm \/ CheckDisarm \/ CheckRead \/ Abort \/ AbortSettle
                  \/ (\E x \in Enders : EndTurn(x)) \/ Exhausted \/ TermStep
  PROVE  TurnInv' /\ UNCHANGED DataView /\ scan' \in {scan, IdleScan}
<1>1. TurnInv
  BY DEF DataInv
<1>2. CASE Alarm \/ CheckDisarm \/ AbortSettle \/ (\E x \in Enders : EndTurn(x)) \/ Exhausted \/ TermStep
  <2>1. UNCHANGED DataView /\ scan' \in {scan, IdleScan} /\ UNCHANGED <<turn, unlogged>>
    BY <1>2 DEF Alarm, CheckDisarm, AbortSettle, EndTurn, Exhausted, TermStep, TermPersist, TermNotify,
                TermSeal, d1, entries, think, DataView
  <2> QED BY <1>1, <2>1, TurnKept DEF DataView
<1>3. CASE CheckRead \/ Abort
  <2>1. UNCHANGED DataView /\ scan' = scan /\ unlogged' = unlogged
    BY <1>3 DEF CheckRead, Abort, d1, entries, think, DataView
  <2>2. turn' = turn \/ turn' = IF turn.at \in Running THEN [turn EXCEPT !.cancelled = TRUE] ELSE turn
    BY <1>3 DEF CheckRead, Abort, CancelTurn
  <2> QED BY <1>1, <2>1, <2>2, TurnKept, CancelMoves DEF DataView
<1> QED BY <1>2, <1>3

LEMMA MovesKeep ==
  ASSUME DataInv, TurnInv', UNCHANGED DataView, scan' \in {scan, IdleScan}
  PROVE  DataInv'
  BY DataKept DEF DataView

LEMMA ReplyContinueKeeps == ASSUME DataInv, ReplyContinue PROVE DataInv'
<1>0. SentInv /\ RowsInv /\ AlertsInv /\ ScanInv /\ TurnInv
  BY DEF DataInv
<1>1. /\ turn' = IdleTurn /\ queue' \in {queue, Append(queue, Continuation)}
      /\ UNCHANGED <<users, alerts, attention, accepted, history, unlogged, scan>>
  BY DEF ReplyContinue
<1>2. SentInv'
  <2>1. CASE queue' = queue
    BY <1>0, <1>1, <2>1 DEF SentInv
  <2>2. CASE queue' = Append(queue, Continuation)
    <3>1. queue \in Seq(Sent \cup {Continuation}) /\ Len(queue) \in Nat
      BY <1>0, ElementsOf DEF SentInv
    <3>2. /\ queue' \in Seq(Sent \cup {Continuation}) /\ Len(queue') = Len(queue) + 1
          /\ \A i \in 1..Len(queue) : queue'[i] = queue[i]
          /\ queue'[Len(queue) + 1] = Continuation
      BY <2>2, <3>1, AppendProperties
    <3>3. ASSUME NEW i \in 1..Len(queue'), queue'[i] # Continuation
          PROVE  i \in 1..Len(queue) /\ queue'[i] = queue[i]
      BY <3>1, <3>2, <3>3
    <3>4. ASSUME NEW i \in 1..Len(queue'), queue'[i] # Continuation
          PROVE  /\ queue'[i] \in accepted'
                 /\ \A k \in 1..Len(history) : history[k] # queue'[i]
                 /\ \A j \in 1..Len(queue') : queue'[j] = queue'[i] => j = i
      <4>1. i \in 1..Len(queue) /\ queue'[i] = queue[i]
        BY <3>3, <3>4
      <4>2. ASSUME NEW j \in 1..Len(queue'), queue'[j] = queue'[i] PROVE j = i
        <5>1. j \in 1..Len(queue) /\ queue'[j] = queue[j]
          BY <3>3, <3>4, <4>2
        <5> QED BY <1>0, <3>4, <4>1, <4>2, <5>1 DEF SentInv
      <4> QED BY <1>0, <1>1, <3>4, <4>1, <4>2 DEF SentInv
    <3> QED BY <1>0, <1>1, <3>2, <3>4 DEF SentInv
  <2> QED BY <1>1, <2>1, <2>2
<1>3. RowsInv'
  BY <1>0, <1>1 DEF RowsInv
<1>4. AlertsInv' /\ ScanInv'
  BY <1>0, <1>1, GrownSame, AlertsKept, ScanKept
<1>5. "idle" \notin Running \cup {"answer"}
  BY DEF Running
<1>6. TurnInv'
  BY <1>0, <1>1, <1>5, IdleTurnTyped, TurnGoesOn
<1> QED BY <1>2, <1>3, <1>4, <1>6 DEF DataInv

-----------------------------------------------------------------------------
(* The scan.                                                                   *)

ScanSteps == {"idle", "read", "settle", "settling", "revive", "alert", "interrupt"}

\* A step of the scan that reads nothing of the rows.
LEMMA ScanMoves ==
  ASSUME DataInv, ScanList \/ ScanSettle \/ ScanInterrupt
  PROVE  DataInv'
<1>0. SentInv /\ RowsInv /\ AlertsInv /\ ScanInv /\ TurnInv
  BY DEF DataInv
<1>1. CASE ScanList
  <2>1. UNCHANGED DataView /\ UNCHANGED <<turn, unlogged>>
    BY <1>1, Zenon DEF ScanList, d1, entries, think, DataView
  <2>2. PICK stale \in BOOLEAN : scan' = [at |-> "read", row |-> status, stale |-> stale, entry |-> 0]
    BY <1>1, Zenon DEF ScanList
  <2>3. status \in Statuses /\ Len(users') \in Nat
    BY <1>0, <1>1, <2>1, ElementsOf DEF ScanList, Statuses, RowsInv, DataView
  <2>4. ScanInv'
    BY <2>2, <2>3 DEF ScanInv
  <2>5. TurnInv'
    BY <1>0, <2>1, TurnKept DEF DataView
  <2> QED BY <2>1, <2>4, <2>5, DataKept DEF DataView
<1>2. CASE ScanInterrupt
  <2>1. UNCHANGED DataView /\ UNCHANGED <<turn, unlogged>> /\ scan' = IdleScan
    BY <1>2 DEF ScanInterrupt, entries, think, DataView
  <2> QED BY <1>0, <2>1, TurnKept, MovesKeep DEF DataView
<1>3. CASE ScanSettle
  <2>1. UNCHANGED DataView /\ unlogged' = unlogged
    BY <1>3 DEF ScanSettle, d1, entries, think, DataView
  <2>2. turn' = turn \/ turn' = IF turn.at \in Running THEN [turn EXCEPT !.cancelled = TRUE] ELSE turn
    BY <1>3 DEF ScanSettle, CancelTurn
  <2>3. TurnInv'
    BY <1>0, <2>1, <2>2, TurnKept, CancelMoves DEF DataView
  <2>4. scan' = IdleScan \/ scan' = [scan EXCEPT !.at = "settling"]
    BY <1>3 DEF ScanSettle
  <2>5. CASE scan' = [scan EXCEPT !.at = "settling"]
    <3>1. scan' = [at |-> "settling", row |-> scan.row, stale |-> scan.stale, entry |-> scan.entry]
      BY <1>0, <2>5 DEF ScanInv
    <3>2. ScanInv'
      BY <1>0, <2>1, <3>1 DEF ScanInv, DataView
    <3> QED BY <2>1, <2>3, <3>2, DataKept DEF DataView
  <2> QED BY <2>1, <2>3, <2>4, <2>5, MovesKeep
<1> QED BY <1>1, <1>2, <1>3

\* The row it stops at holds a message, or the retry of one.
LEMMA ScanReadKeeps == ASSUME DataInv, ScanRead PROVE DataInv'
<1>0. SentInv /\ RowsInv /\ AlertsInv /\ ScanInv /\ TurnInv
  BY DEF DataInv
<1>1. UNCHANGED DataView /\ UNCHANGED <<turn, unlogged>>
  BY Zenon DEF ScanRead, d1, entries, think, DataView
<1>2. TurnInv'
  BY <1>0, <1>1, TurnKept DEF DataView
<1>3. users \in Seq(Sent) /\ Len(users) \in Nat /\ DOMAIN users = 1..Len(users) /\ users' = users
      /\ \A i \in 1..Len(users) : users[i] \in Sent
  BY <1>0, <1>1, ElementsOf DEF RowsInv, DataView
<1>4. CASE scan' = IdleScan
  BY <1>1, <1>2, <1>4, MovesKeep
<1>5. CASE scan' = [scan EXCEPT !.at = "settle"]
  <2>1. scan' = [at |-> "settle", row |-> scan.row, stale |-> scan.stale, entry |-> scan.entry]
    BY <1>0, <1>5 DEF ScanInv
  <2>2. ScanInv'
    BY <1>0, <1>3, <2>1 DEF ScanInv
  <2> QED BY <1>1, <1>2, <2>2, DataKept DEF DataView
<1>6. ASSUME DetectDeadSession(scan.stale),
             scan' = [scan EXCEPT !.entry = Len(users),
                        !.at = IF AlreadyRevived(Len(users)) THEN "alert" ELSE "revive"]
      PROVE  DataInv'
  <2>1. users # <<>> /\ Len(users) \in 1..Len(users)
    BY <1>3, <1>6, EmptySeq DEF DetectDeadSession
  <2>2. scan' = [at |-> IF AlreadyRevived(Len(users)) THEN "alert" ELSE "revive",
                 row |-> scan.row, stale |-> scan.stale, entry |-> Len(users)]
    BY <1>0, <1>6 DEF ScanInv
  <2>3. CASE AlreadyRevived(Len(users))
    <3>1. \E e \in Nat : users[Len(users)] = Retry(e)
      BY <1>3, <2>3 DEF AlreadyRevived
    <3>2. scan' = [at |-> "alert", row |-> scan.row, stale |-> scan.stale, entry |-> Len(users)]
      BY <2>2, <2>3
    <3>3. ScanInv'
      BY <1>0, <1>3, <2>1, <3>1, <3>2 DEF ScanInv
    <3> QED BY <1>1, <1>2, <3>3, DataKept DEF DataView
  <2>4. CASE ~AlreadyRevived(Len(users))
    <3>1. users[Len(users)] \in Msg
      <4>1. ASSUME NEW e \in Nat, users[Len(users)] = Retry(e) PROVE FALSE
        <5>1. PICK k \in 1..Len(history) : users[Len(users)] = history[k]
          BY <1>0, <2>1 DEF RowsInv
        <5>2. Retry(e) \in accepted
          BY <1>0, <4>1, <5>1 DEF SentInv
        <5>3. e \in DOMAIN users
          BY <1>0, <1>3, <5>2 DEF RowsInv
        <5> QED BY <2>4, <4>1, <5>3 DEF AlreadyRevived
      <4> QED BY <1>3, <2>1, <4>1 DEF Sent
    <3>2. scan' = [at |-> "revive", row |-> scan.row, stale |-> scan.stale, entry |-> Len(users)]
      BY <2>2, <2>4
    <3>3. ScanInv'
      BY <1>0, <1>3, <2>1, <3>1, <3>2 DEF ScanInv
    <3> QED BY <1>1, <1>2, <3>3, DataKept DEF DataView
  <2> QED BY <2>3, <2>4
<1>7. \/ scan' = IdleScan \/ scan' = [scan EXCEPT !.at = "settle"]
      \/ /\ DetectDeadSession(scan.stale)
         /\ scan' = [scan EXCEPT !.entry = Len(users),
                       !.at = IF AlreadyRevived(Len(users)) THEN "alert" ELSE "revive"]
  BY Zenon DEF ScanRead
<1> QED BY <1>4, <1>5, <1>6, <1>7

\* An alert is for a row that was not alerted: the retry of one that was is not
\* above the mark.
LEMMA ScanAlertKeeps == ASSUME DataInv, ScanAlert PROVE DataInv'
<1>0. SentInv /\ RowsInv /\ AlertsInv /\ ScanInv /\ TurnInv
  BY DEF DataInv
<1>1. /\ UNCHANGED <<users, accepted, queue, history, turn, unlogged>> /\ scan.at = "alert"
      /\ scan' = IdleScan \/ scan' = [scan EXCEPT !.at = "interrupt"]
  BY DEF ScanAlert, entries, think
<1>2. SentInv' /\ RowsInv' /\ TurnInv'
  BY <1>0, <1>1 DEF SentInv, RowsInv, TurnInv
<1>3. users \in Seq(Sent) /\ Len(users) \in Nat /\ DOMAIN users = 1..Len(users) /\ IsInjective(users)
  BY <1>0, ElementsOf DEF RowsInv
<1>4. ScanInv'
  <2>1. CASE scan' = IdleScan
    BY <1>0, <1>1, <2>1, GrownSame, ScanKept
  <2>2. CASE scan' = [scan EXCEPT !.at = "interrupt"]
    <3>1. scan' = [at |-> "interrupt", row |-> scan.row, stale |-> scan.stale, entry |-> scan.entry]
      BY <1>0, <2>2 DEF ScanInv
    <3> QED BY <1>0, <1>1, <3>1 DEF ScanInv
  <2> QED BY <1>1, <2>1, <2>2
<1>5. AlertsInv'
  <2>1. CASE UNCHANGED <<alerts, attention>>
    BY <1>0, <1>1, <2>1, GrownSame, AlertsKept
  <2>2. CASE attention < scan.entry /\ attention' = Len(users)
             /\ alerts' = Append(alerts, OriginalEntry(scan.entry))
    <3>1. PICK e \in Nat : users[scan.entry] = Retry(e)
      BY <1>0, <1>1 DEF ScanInv
    <3>2. scan.entry \in 1..Len(users) /\ scan.entry \in Nat
      BY <1>0, <1>1, <1>3 DEF ScanInv
    <3>3. Retry(e) \in accepted /\ e \in 1..Len(users)
      <4>1. PICK k \in 1..Len(history) : users[scan.entry] = history[k]
        BY <1>0, <3>2 DEF RowsInv
      <4>2. Retry(e) \in accepted
        BY <1>0, <3>1, <4>1 DEF SentInv
      <4> QED BY <1>0, <4>2 DEF RowsInv
    <3>4. OriginalEntry(scan.entry) = e
      <4>1. AlreadyRevived(scan.entry) /\ \A f \in DOMAIN users : users[scan.entry] = Retry(f) => f = e
        BY <1>3, <3>1, <3>3, RetryIsNoMessage DEF AlreadyRevived
      <4> QED BY <1>3, <3>1, <3>3, <4>1 DEF OriginalEntry
    <3>5. alerts \in Seq(Nat) /\ Len(alerts) \in Nat /\ DOMAIN alerts = 1..Len(alerts) /\ attention \in Nat
      BY <1>0, ElementsOf DEF AlertsInv
    <3>6. /\ alerts' \in Seq(Nat) /\ Len(alerts') = Len(alerts) + 1
          /\ \A i \in 1..Len(alerts) : alerts'[i] = alerts[i]
          /\ alerts'[Len(alerts) + 1] = e
          /\ DOMAIN alerts' = 1..Len(alerts')
      <4>1. alerts' = Append(alerts, e)
        BY <2>2, <3>4
      <4> QED BY <3>5, <4>1, AppendProperties, LenProperties
    <3>7. ASSUME NEW i \in 1..Len(alerts), alerts[i] = e PROVE FALSE
      <4>1. PICK u \in 1..Len(users) : u <= attention /\ users[u] = Retry(e)
        BY <1>0, <3>7 DEF AlertsInv
      <4>2. u = scan.entry
        BY <1>3, <3>1, <3>2, <4>1 DEF IsInjective
      <4> QED BY <2>2, <3>2, <3>5, <4>1, <4>2
    <3>8. ASSUME NEW i \in 1..Len(alerts'), NEW j \in 1..Len(alerts'), alerts'[i] = alerts'[j]
          PROVE  i = j
      <4>1. CASE i \in 1..Len(alerts) /\ j \in 1..Len(alerts)
        BY <1>0, <3>5, <3>6, <3>8, <4>1 DEF AlertsInv, IsInjective
      <4>2. CASE i = Len(alerts) + 1 \/ j = Len(alerts) + 1
        BY <3>5, <3>6, <3>7, <3>8, <4>2
      <4> QED BY <3>5, <3>6, <4>1, <4>2
    <3>9. IsInjective(alerts')
      BY <3>6, <3>8 DEF IsInjective
    <3>10. ASSUME NEW i \in 1..Len(alerts')
           PROVE  /\ Retry(alerts'[i]) \in accepted
                  /\ \E u \in 1..Len(users) : u <= Len(users) /\ users[u] = Retry(alerts'[i])
      <4>1. CASE i \in 1..Len(alerts)
        BY <1>0, <1>3, <3>6, <4>1 DEF AlertsInv
      <4>2. CASE i = Len(alerts) + 1
        BY <1>3, <3>1, <3>2, <3>3, <3>6, <4>2
      <4> QED BY <3>5, <3>6, <4>1, <4>2
    <3>11. attention' \in 0..Len(users)
      BY <1>3, <2>2
    <3> QED BY <1>1, <2>2, <3>6, <3>9, <3>10, <3>11 DEF AlertsInv
  <2> QED BY <2>1, <2>2 DEF ScanAlert
<1> QED BY <1>2, <1>4, <1>5 DEF DataInv

-----------------------------------------------------------------------------
LEMMA DataInvInit == Init => DataInv
<1> SUFFICES ASSUME Init PROVE DataInv
  OBVIOUS
<1>1. users = <<>> /\ history = <<>> /\ queue = <<>> /\ alerts = <<>> /\ accepted = {} /\ unlogged = {}
      /\ turn = IdleTurn /\ scan = IdleScan /\ attention = 0
  BY DEF Init
<1>2. \A T : <<>> \in Seq(T)
  BY EmptySeq
<1>3. Len(<<>>) = 0 /\ IsInjective(<<>>)
  BY EmptySeq DEF IsInjective
<1>4. SentInv /\ RowsInv
  BY <1>1, <1>2, <1>3 DEF SentInv, RowsInv
<1>5. AlertsInv /\ ScanInv
  BY <1>1, <1>2, <1>3 DEF AlertsInv, ScanInv, IdleScan, Statuses
<1>6. TurnInv
  BY <1>1, IdleTurnTyped DEF TurnInv, Turns, Running
<1> QED BY <1>4, <1>5, <1>6 DEF DataInv

LEMMA DataInvStep == DataInv /\ [Next]_vars => DataInv'
<1>1. ASSUME DataInv, UNCHANGED vars PROVE DataInv'
  <2>1. UNCHANGED DataView /\ UNCHANGED <<turn, unlogged, scan>>
    BY <1>1 DEF vars, entries, DataView
  <2> QED BY <1>1, <2>1, TurnKept, MovesKeep DEF DataInv, DataView
<1>2. ASSUME DataInv, TurnStep \/ Hang PROVE DataInv'
  BY <1>2, BeginTurnKeeps, PrepareLogKeeps, PrepareMoves, FinishMoves, OverMoves, WatchMoves,
     ReplyLogKeeps, ReplyContinueKeeps, MovesKeep DEF TurnStep, TakeWork
<1>3. ASSUME DataInv, ScanStep PROVE DataInv'
  <2>1. "scan" \in Enders
    BY DEF Enders
  <2> QED BY <1>3, <2>1, ScanMoves, ScanReadKeeps, ScanReviveKeeps, ScanAlertKeeps, WatchMoves, MovesKeep
          DEF ScanStep
<1>4. ASSUME DataInv, WatchStep \/ Abort \/ AbortSettle \/ TermStep PROVE DataInv'
  <2>1. "watchdog" \in Enders
    BY DEF Enders
  <2> QED BY <1>4, <2>1, WatchMoves, MovesKeep DEF WatchStep
<1>5. ASSUME DataInv, Crash PROVE DataInv'
  BY <1>5, OverMoves, MovesKeep
<1> QED BY <1>1, <1>2, <1>3, <1>4, <1>5, SendKeeps DEF Next

LEMMA DataInvMeans == DataInv => OneRecoveryPerIncident
<1> SUFFICES ASSUME DataInv PROVE OneRecoveryPerIncident
  OBVIOUS
<1>1. RowsInv /\ AlertsInv
  BY DEF DataInv
<1>2. Len(users) \in Nat /\ DOMAIN users = 1..Len(users) /\ Len(alerts) \in Nat /\ DOMAIN alerts = 1..Len(alerts)
      /\ \A i \in 1..Len(alerts) : alerts[i] \in Nat
  BY <1>1, ElementsOf DEF RowsInv, AlertsInv
<1>3. \A i \in DOMAIN users : Retry(i) \in accepted => users[i] \in Msg
  BY <1>1, <1>2 DEF RowsInv
<1>4. \A i, j \in DOMAIN alerts : alerts[i] = alerts[j] => i = j
  BY <1>1 DEF AlertsInv, IsInjective
<1>5. \A i \in DOMAIN alerts : users[alerts[i]] \in Msg /\ Retry(alerts[i]) \in accepted
  BY <1>1, <1>2 DEF RowsInv, AlertsInv
<1> QED BY <1>3, <1>4, <1>5 DEF OneRecoveryPerIncident

\* OneRecoveryPerIncident, for every number of messages, dead turns, scans and
\* troubles: a message of the owner is sent again at most once, only the retry
\* of a dead turn leads to an alert, and no turn is alerted twice.
THEOREM OneRecoveryHolds == Spec => []OneRecoveryPerIncident
  BY DataInvInit, DataInvStep, DataInvMeans, PTL DEF Spec

-----------------------------------------------------------------------------
(* Types: what DataInv and EndInv do not say of the other variables.           *)

FlagInv ==
  /\ status \in Statuses
  /\ answered \in BOOLEAN
  /\ watch \in BOOLEAN /\ tracker \in BOOLEAN /\ abort \in BOOLEAN
  /\ conts \in 0..MaxContinuations
  /\ incident \in BOOLEAN /\ ended \in BOOLEAN
  /\ check.at \in {"idle", "disarm", "read"}
  /\ check = [at |-> check.at, verdict |-> check.verdict]
  /\ term \in {"idle", "persist", "notify", "seal"}
  /\ ends \in [Enders -> BOOLEAN]

\* The steps that touch at most the status, the note and the tracker.
LEMMA RowFlags ==
  ASSUME FlagInv, UNCHANGED <<watch, abort, conts, incident, ended, check, term, ends>>,
         status' \in Statuses, answered' \in BOOLEAN, tracker' \in BOOLEAN
  PROVE  FlagInv'
  BY DEF FlagInv

LEMMA LogFlags == ASSUME FlagInv, PrepareLog \/ ReplyLog PROVE FlagInv'
<1>1. UNCHANGED <<status, watch, abort, conts, incident, ended, check, term, ends>>
      /\ tracker' \in {tracker, TRUE}
  BY DEF PrepareLog, ReplyLog, store
<1>2. answered' \in BOOLEAN
  <2>1. CASE PrepareLog
    BY <2>1, Zenon DEF PrepareLog, AppendUsers
  <2>2. CASE ReplyLog
    BY <2>2, Zenon DEF ReplyLog, AppendUsers
  <2> QED BY <2>1, <2>2
<1>3. status' \in Statuses /\ tracker' \in BOOLEAN
  BY <1>1 DEF FlagInv
<1> QED BY <1>1, <1>2, <1>3, RowFlags

LEMMA TurnFlags == ASSUME FlagInv, TurnStep, ~PrepareLog, ~ReplyLog PROVE FlagInv'
<1>1. CASE BeginTurn \/ PrepareList \/ DropTurn
  BY <1>1 DEF BeginTurn, PrepareList, DropTurn, d1, entries, store, FlagInv
<1>2. CASE Recover
  BY <1>2 DEF Recover, d1, entries, FlagInv
<1>3. CASE Exhausted
  BY <1>3 DEF Exhausted, d1, entries, FlagInv
<1>4. CASE PrepareArm
  BY <1>4 DEF PrepareArm, d1, entries, FlagInv
<1>5. CASE PrepareMark \/ ReplySettle
  BY <1>5 DEF PrepareMark, ReplySettle, entries, store, FlagInv, Statuses
<1>6. CASE Finish
  <2>1. PICK o : FinishTurn(o)
    BY <1>6 DEF Finish
  <2>2. conts' \in 0..MaxContinuations
    BY <2>1, TurnsAssumption DEF FinishTurn, ShouldAutoContinue, FlagInv
  <2>3. /\ UNCHANGED <<status, answered, watch, abort, incident, ended, check, term, ends>>
        /\ tracker' = FALSE
    BY <2>1 DEF FinishTurn, d1, entries
  <2> QED BY <2>2, <2>3 DEF FlagInv
<1>7. CASE ReplyContinue
  BY <1>7 DEF ReplyContinue, store, FlagInv
<1> QED BY <1>1, <1>2, <1>3, <1>4, <1>5, <1>6, <1>7 DEF TurnStep, TakeWork

LEMMA WatchFlags ==
  ASSUME FlagInv, Alarm \/ CheckDisarm \/ CheckRead \/ Abort \/ AbortSettle \/ Hang
                  \/ \E x \in Enders : EndTurn(x)
  PROVE  FlagInv'
<1>1. CASE Alarm
  BY <1>1 DEF Alarm, d1, entries, store, FlagInv
<1>2. CASE CheckDisarm
  <2>1. check' = IdleCheck \/ check' = [check EXCEPT !.at = "read"]
    BY <1>2 DEF CheckDisarm
  <2>2. check'.at \in {"idle", "disarm", "read"} /\ check' = [at |-> check'.at, verdict |-> check'.verdict]
    BY <2>1 DEF IdleCheck, FlagInv
  <2>3. watch' \in {watch, FALSE}
        /\ UNCHANGED <<status, answered, tracker, abort, conts, incident, ended, term, ends>>
    BY <1>2 DEF CheckDisarm, d1, entries
  <2> QED BY <2>2, <2>3 DEF FlagInv
<1>3. CASE CheckRead
  <2>1. check' = IdleCheck /\ tracker' \in {tracker, FALSE} /\ incident' \in {incident, FALSE}
        /\ ends' \in {ends, [ends EXCEPT !["watchdog"] = TRUE]}
        /\ UNCHANGED <<status, answered, watch, abort, conts, ended, term>>
    BY <1>3 DEF CheckRead, CancelTurn, d1, entries
  <2> QED BY <2>1 DEF FlagInv, IdleCheck
<1>4. CASE Abort
  BY <1>4 DEF Abort, CancelTurn, d1, entries, FlagInv
<1>5. CASE AbortSettle
  BY <1>5 DEF AbortSettle, entries, FlagInv, Statuses
<1>6. CASE Hang
  BY <1>6 DEF Hang, d1, entries, store, FlagInv
<1>7. ASSUME NEW x \in Enders, EndTurn(x) PROVE FlagInv'
  <2>1. status' \in {status, "active"} /\ answered' \in {answered, TRUE} /\ ends' = [ends EXCEPT ![x] = FALSE]
        /\ UNCHANGED <<tracker, watch, abort, conts, incident, ended, check, term>>
    BY <1>7 DEF EndTurn, store
  <2>2. ends' \in [Enders -> BOOLEAN]
    BY <2>1 DEF FlagInv
  <2>3. status' \in Statuses /\ answered' \in BOOLEAN
    BY <2>1 DEF FlagInv, Statuses
  <2> HIDE DEF Statuses
  <2> QED BY <2>1, <2>2, <2>3 DEF FlagInv
<1> QED BY <1>1, <1>2, <1>3, <1>4, <1>5, <1>6, <1>7

LEMMA ScanFlags ==
  ASSUME FlagInv, ScanList \/ ScanRead \/ ScanSettle \/ ScanRevive \/ ScanAlert \/ ScanInterrupt
  PROVE  FlagInv'
<1>1. CASE ScanList \/ ScanRead \/ ScanRevive
  <2>1. UNCHANGED <<d1, store, tracker, check, abort, term, ends>>
    BY <1>1, Zenon DEF ScanList, ScanRead, ScanRevive
  <2> QED BY <2>1 DEF d1, entries, store, FlagInv
<1>2. CASE ScanSettle
  <2>1. tracker' \in {tracker, FALSE} /\ incident' \in {incident, FALSE}
        /\ ends' \in {ends, [ends EXCEPT !["scan"] = TRUE]}
        /\ UNCHANGED <<status, answered, watch, abort, conts, ended, check, term>>
    BY <1>2 DEF ScanSettle, CancelTurn, d1, entries
  <2> QED BY <2>1 DEF FlagInv
<1>3. CASE ScanAlert
  BY <1>3 DEF ScanAlert, entries, store, FlagInv
<1>4. CASE ScanInterrupt
  BY <1>4 DEF ScanInterrupt, entries, store, FlagInv, Statuses
<1> QED BY <1>1, <1>2, <1>3, <1>4

LEMMA EndFlags == ASSUME FlagInv, Crash \/ TermStep PROVE FlagInv'
<1>1. CASE Crash
  <2>1. /\ tracker' = FALSE /\ check' = IdleCheck /\ abort' = FALSE /\ term' = "idle"
        /\ ends' = [x \in Enders |-> FALSE]
        /\ UNCHANGED <<status, answered, watch, conts>>
    BY <1>1 DEF Crash, d1, entries
  <2>2. incident' \in {incident, TRUE} /\ ended' \in {ended, FALSE}
    BY <1>1 DEF Crash
  <2> QED BY <2>1, <2>2 DEF FlagInv, IdleCheck
<1>2. CASE TermStep
  BY <1>2 DEF TermStep, TermPersist, TermNotify, TermSeal, d1, entries, store, FlagInv, Statuses
<1> QED BY <1>1, <1>2

LEMMA FlagInvInit == Init => FlagInv
<1> SUFFICES ASSUME Init PROVE FlagInv
  OBVIOUS
<1>1. 0 \in 0..MaxContinuations
  BY TurnsAssumption
<1>2. ends \in [Enders -> BOOLEAN]
  BY DEF Init
<1>3. check.at = "idle" /\ check = [at |-> check.at, verdict |-> check.verdict]
  BY DEF Init, IdleCheck
<1> QED BY <1>1, <1>2, <1>3 DEF Init, FlagInv, Statuses

LEMMA FlagInvStep == FlagInv /\ [Next]_vars => FlagInv'
<1>1. ASSUME FlagInv, UNCHANGED vars PROVE FlagInv'
  BY <1>1 DEF vars, entries, FlagInv
<1>2. ASSUME FlagInv, NEW m \in Msg, Send(m) PROVE FlagInv'
  BY <1>2 DEF Send, d1, entries, store, FlagInv
<1>3. ASSUME FlagInv, TurnStep PROVE FlagInv'
  BY <1>3, LogFlags, TurnFlags
<1>4. ASSUME FlagInv, WatchStep \/ ScanStep \/ Abort \/ AbortSettle \/ Hang PROVE FlagInv'
  <2>1. "watchdog" \in Enders /\ "scan" \in Enders
    BY DEF Enders
  <2> QED BY <1>4, <2>1, WatchFlags, ScanFlags DEF WatchStep, ScanStep
<1> QED BY <1>1, <1>2, <1>3, <1>4, EndFlags DEF Next

LEMMA TypesAre == DataInv /\ EndInv /\ FlagInv => TypeOK
<1> SUFFICES ASSUME DataInv, EndInv, FlagInv PROVE TypeOK
  OBVIOUS
<1>1. SentInv /\ RowsInv /\ AlertsInv /\ ScanInv /\ TurnInv
  BY DEF DataInv
<1>2. /\ ToSet(users) = {users[i] : i \in 1..Len(users)} /\ Len(users) \in Nat /\ DOMAIN users = 1..Len(users)
      /\ ToSet(history) = {history[i] : i \in 1..Len(history)}
      /\ ToSet(queue) = {queue[i] : i \in 1..Len(queue)}
      /\ DOMAIN alerts = 1..Len(alerts) /\ \A i \in 1..Len(alerts) : alerts[i] \in Nat
  <2>1. /\ users \in Seq(Sent) /\ history \in Seq(Sent) /\ queue \in Seq(Sent \cup {Continuation})
        /\ alerts \in Seq(Nat)
    BY <1>1 DEF SentInv, RowsInv, AlertsInv
  <2>2. ToSet(users) = {users[i] : i \in 1..Len(users)} /\ Len(users) \in Nat /\ DOMAIN users = 1..Len(users)
    BY <2>1, ElementsOf
  <2>3. ToSet(history) = {history[i] : i \in 1..Len(history)}
    BY <2>1, ElementsOf
  <2>4. ToSet(queue) = {queue[i] : i \in 1..Len(queue)}
    BY <2>1, ElementsOf
  <2>5. DOMAIN alerts = 1..Len(alerts) /\ \A i \in 1..Len(alerts) : alerts[i] \in Nat
    BY <2>1, ElementsOf
  <2> QED BY <2>2, <2>3, <2>4, <2>5
<1>3. ToSet(history) \subseteq accepted /\ ToSet(users) \subseteq accepted
  <2>1. \A i \in 1..Len(history) : history[i] \in accepted
    BY <1>1 DEF SentInv
  <2>2. \A i \in 1..Len(users) : \E k \in 1..Len(history) : users[i] = history[k]
    BY <1>1 DEF RowsInv
  <2>3. \A i \in 1..Len(users) : users[i] \in accepted
    BY <2>1, <2>2
  <2> QED BY <1>2, <2>1, <2>3
<1>4. ToSet(queue) \subseteq accepted \cup {Continuation}
  BY <1>1, <1>2 DEF SentInv
<1>5. unlogged \subseteq ToSet(history)
  BY <1>1, <1>2 DEF TurnInv
<1>6. attention \in 0..Len(users) /\ \A i \in DOMAIN alerts : alerts[i] \in DOMAIN users
  BY <1>1, <1>2 DEF AlertsInv, RowsInv
<1>7. turn.at \in Running \cup {"idle", "answer", "settle", "continue"}
  BY <1>1 DEF TurnInv
<1>8. /\ scan.at \in {"idle", "read", "settle", "settling", "revive", "alert", "interrupt"}
      /\ scan.row \in Statuses /\ scan.entry \in 0..Len(users)
  BY <1>1, <1>2 DEF ScanInv
<1>9. told \in Nat
  BY DEF EndInv
<1> QED BY <1>3, <1>4, <1>5, <1>6, <1>7, <1>8, <1>9 DEF TypeOK, FlagInv

\* TypeOK: the rows of D1 and what Think holds stay among the messages that
\* were accepted, alerts name rows there are, and no automatic continuation
\* goes beyond the limit.
THEOREM TypeCorrect == Spec => []TypeOK
<1>1. Init => EndInv
  BY DEF Init, EndInv
<1> QED BY <1>1, DataInvInit, FlagInvInit, DataInvStep, FlagInvStep, EndInvStep, TypesAre, PTL DEF Spec
=============================================================================
