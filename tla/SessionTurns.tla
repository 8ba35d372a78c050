---------------------------- MODULE SessionTurns ----------------------------
(* The turns of one conversation of the Think engine: a message is accepted,  *)
(* its turn is prepared, runs, is settled by onChatResponse and may continue  *)
(* by itself.  Around it: the watchdog alarm that judges the turn, the owner  *)
(* who aborts it, the cron scan that looks for dead sessions, and the end of  *)
(* a recovery that ran out of attempts.  Each of them is a chain of awaits,   *)
(* and one action below is what the code does between two awaits.             *)
(*                                                                            *)
(* Think itself (the queue of submissions, the recovery of a turn whose       *)
(* isolate died, cancellation) is external: modelled from how src/ uses it.   *)
(* The inserts of one log are idempotent and count as one step.               *)
EXTENDS Naturals, Sequences, FiniteSets, SequencesExt, Selection

CONSTANTS
  Msg,               \* what the owner (or a job) sends
  None,
  MaxContinuations,  \* MAX_AUTO_CONTINUATIONS
  MaxTrouble         \* bound: failed calls, deaths of the isolate, hung turns
                     \* and aborts, together

ASSUME TurnsAssumption ==
  /\ None \notin Msg
  /\ \A m \in Msg : m \notin {"auto-revive", "continue"} \X Nat
  /\ MaxContinuations \in Nat /\ MaxTrouble \in Nat

VARIABLES
  \* D1
  status,    \* sessions.status
  users,     \* the user rows of conversation_entries, oldest first
  answered,  \* an assistant row is newer than the last user row
  alerts,    \* the user rows the owner was alerted about, oldest first
  attention, \* number of user rows when the last alert was raised
  \* storage of the Durable Object
  accepted,  \* ids of the submissions Think has taken
  queue,     \* submissions whose turn has not begun
  history,   \* this.messages: the user messages, oldest first
  unlogged,  \* messages Think holds an answer to that has no row in D1
  watch,     \* checkTurnProgress is scheduled
  conts,     \* kv "auto-continuations"
  incident,  \* Think has a recovery of a turn open
  ended,     \* myax:recovery-terminalized:<id of that incident> is set
  told,      \* notices to the owner about that incident
  \* memory of the isolate
  tracker,   \* turnProgress.active
  turn, check, abort, scan, term, ends,
  spent      \* what has gone wrong so far

vars == <<status, users, answered, alerts, attention, accepted, queue, history,
          unlogged, watch, conts, incident, ended, told, tracker, turn, check,
          abort, scan, term, ends, spent>>

entries == <<users, answered>>
d1 == <<status, entries, alerts, attention>>
think == <<accepted, queue, history, unlogged>>
store == <<watch, conts, incident, ended, told>>

Retry(e) == <<"auto-revive", e>>
Continuation == <<"continue", 0>>

IdleTurn == [at |-> "idle", msg |-> None, cancelled |-> FALSE, hung |-> FALSE,
             outcome |-> "stop", verdict |-> "done"]
IdleCheck == [at |-> "idle", verdict |-> "idle"]
IdleScan == [at |-> "idle", row |-> "active", stale |-> FALSE, entry |-> 0]

Trouble == spent < MaxTrouble /\ spent' = spent + 1

----------------------------------------------------------------------------
(* conversation_entries.  Of the assistant and tool rows only what the scan   *)
(* looks for is kept: whether an assistant row follows the last user row.     *)

\* appendConversationLog: INSERT ... WHERE NOT EXISTS a row of that message.
NewUsers == Kept(history, ToSet(history) \ ToSet(users))
AppendUsers ==
  /\ users' = users \o NewUsers
  /\ answered' = (answered /\ NewUsers = <<>>)

\* A stale session whose last user row has no assistant row after it.
DetectDeadSession(stale) == stale /\ users # <<>> /\ ~answered

BugRetryIsNew(u) == FALSE

\* An automatic retry stays attached to the turn it retries.
AlreadyRevived(u) == \E e \in DOMAIN users : users[u] = Retry(e)
OriginalEntry(u) ==
  IF AlreadyRevived(u) THEN CHOOSE e \in DOMAIN users : users[u] = Retry(e) ELSE u

----------------------------------------------------------------------------
(* A message is accepted *)

\* injectUserMessage: the client's id is the idempotency key.
Submit(id) ==
  IF id \in accepted
  THEN UNCHANGED <<accepted, queue>>
  ELSE accepted' = accepted \cup {id} /\ queue' = Append(queue, id)

Send(m) ==
  /\ m \notin accepted
  /\ Submit(m)
  /\ UNCHANGED <<d1, history, unlogged, store, tracker, turn, check,
                 abort, scan, term, ends, spent>>

----------------------------------------------------------------------------
(* A turn *)

\* Think takes the next submission: its message joins the history, and
\* beforeTurn calls prepareTurn.
BeginTurn ==
  /\ turn.at = "idle" /\ ~incident /\ queue # <<>>
  /\ queue' = Tail(queue)
  /\ turn' = [IdleTurn EXCEPT !.at = "log", !.msg = Head(queue)]
  /\ history' = IF Head(queue) = Continuation THEN history
                ELSE Append(history, Head(queue))
  /\ UNCHANGED <<d1, accepted, unlogged, store, tracker, check, abort,
                 scan, term, ends, spent>>

\* logAcceptedUsers, reconcileAssistantHistory, turnProgress.start(): rows for
\* the user messages that have none, then for old answers.  An insert that
\* fails is swallowed.
PrepareLog ==
  /\ turn.at = "log"
  /\ \/ /\ users' = users \o NewUsers
        /\ answered' = (unlogged # {} \/ (answered /\ NewUsers = <<>>))
        /\ unlogged' = {}
        /\ UNCHANGED spent
     \/ /\ NewUsers # <<>> /\ Trouble
        /\ answered' = (answered \/ unlogged # {})
        /\ unlogged' = {}
        /\ UNCHANGED users
     \/ /\ unlogged # {} /\ Trouble
        /\ AppendUsers
        /\ UNCHANGED unlogged
  /\ tracker' = TRUE
  /\ turn' = [turn EXCEPT !.at = "list"]
  /\ UNCHANGED <<status, alerts, attention, accepted, queue, history, store, check,
                 abort, scan, term, ends>>

\* listSchedules: a watchdog that exists is kept.  beforeTurn swallows the
\* failure, and the turn runs although prepareTurn did not finish.
PrepareList ==
  /\ turn.at = "list"
  /\ \/ turn' = [turn EXCEPT !.at = IF watch THEN "mark" ELSE "arm"]
        /\ UNCHANGED spent
     \/ Trouble /\ turn' = [turn EXCEPT !.at = "live"]
  /\ UNCHANGED <<d1, think, store, tracker, check, abort, scan, term, ends>>

PrepareArm ==
  /\ turn.at = "arm"
  /\ \/ watch' = TRUE /\ UNCHANGED spent
     \/ Trouble /\ UNCHANGED watch
  /\ turn' = [turn EXCEPT !.at = "mark"]
  /\ UNCHANGED <<d1, think, conts, incident, ended, told, tracker, check,
                 abort, scan, term, ends>>

PrepareMark ==
  /\ turn.at = "mark"
  /\ \/ status' = "running" /\ UNCHANGED spent
     \/ Trouble /\ UNCHANGED status
  /\ turn' = [turn EXCEPT !.at = "live"]
  /\ UNCHANGED <<entries, alerts, attention, think, store, tracker, check,
                 abort, scan, term, ends>>

\* The model or a tool stops answering, for longer than the limits allow.
Hang ==
  /\ turn.at = "live" /\ ~turn.hung /\ ~turn.cancelled
  /\ Trouble
  /\ turn' = [turn EXCEPT !.hung = TRUE]
  /\ UNCHANGED <<d1, think, store, tracker, check, abort, scan, term, ends>>

\* What the turn produced is in the history; cut short, it may have produced
\* nothing that is shown.
Answer == unlogged \cup ({turn.msg} \ {Continuation})

BugContinueOnceMore(outcome) ==
  IF outcome # "tool-calls" THEN "done"
  ELSE IF conts <= MaxContinuations THEN "continue" ELSE "give-up"

\* shouldAutoContinue
ShouldAutoContinue(outcome) ==
  CASE outcome # "tool-calls" -> "done"
    [] conts < MaxContinuations -> "continue"
    [] OTHER -> "give-up"

\* The turn is over and onChatResponse runs up to its first await.  Think takes
\* the next submission when it returns, and may drop a cancelled turn without
\* calling it.
FinishTurn(outcome) ==
  /\ turn.at = "live"
  /\ IF turn.cancelled THEN outcome \in {"aborted", "silent"}
     ELSE ~turn.hung /\ outcome \in {"stop", "tool-calls", "error"}
  /\ tracker' = FALSE
  /\ LET verdict == ShouldAutoContinue(outcome) IN
     /\ conts' = IF verdict = "continue" THEN conts + 1 ELSE 0
     /\ turn' = [IdleTurn EXCEPT !.at = "answer", !.msg = turn.msg,
                               !.outcome = outcome, !.verdict = verdict]
  /\ unlogged' = IF outcome = "silent" THEN unlogged ELSE Answer
  /\ UNCHANGED <<d1, accepted, queue, history, watch, incident, ended, told,
                 check, abort, scan, term, ends, spent>>

DropTurn ==
  /\ turn.at = "live" /\ turn.cancelled
  /\ turn' = IdleTurn
  /\ unlogged' \in {unlogged, Answer}
  /\ UNCHANGED <<d1, accepted, queue, history, store, tracker, check,
                 abort, scan, term, ends, spent>>

----------------------------------------------------------------------------
(* onChatResponse *)

\* logAcceptedUsers again, then the answer if there is one; either insert may
\* be lost.
ReplyLog ==
  /\ turn.at = "answer"
  /\ LET shown == turn.outcome # "silent" IN
     \/ /\ users' = users \o NewUsers
        /\ answered' = (shown \/ (answered /\ NewUsers = <<>>))
        /\ unlogged' = unlogged \ {turn.msg}
        /\ UNCHANGED spent
     \/ /\ NewUsers # <<>> /\ Trouble
        /\ answered' = (shown \/ answered)
        /\ unlogged' = unlogged \ {turn.msg}
        /\ UNCHANGED users
     \/ /\ shown /\ Trouble
        /\ AppendUsers
        /\ UNCHANGED unlogged
  /\ turn' = [turn EXCEPT !.at = "settle", !.msg = None]
  /\ UNCHANGED <<status, alerts, attention, accepted, queue, history, store, tracker,
                 check, abort, scan, term, ends>>

ReplySettle ==
  /\ turn.at = "settle"
  /\ \/ /\ status' = IF turn.outcome = "error" THEN "error" ELSE "active"
        /\ UNCHANGED spent
     \/ Trouble /\ UNCHANGED status
  /\ turn' = IF turn.verdict = "done" THEN IdleTurn ELSE [turn EXCEPT !.at = "continue"]
  /\ UNCHANGED <<entries, alerts, attention, think, store, tracker, check,
                 abort, scan, term, ends>>

\* schedule(0, "continueTurnAfterStepBatch"), or the note that the turn was cut.
ReplyContinue ==
  /\ turn.at = "continue"
  /\ turn' = IdleTurn
  /\ \/ /\ turn.verdict = "continue"
        /\ queue' = Append(queue, Continuation)
        /\ UNCHANGED <<answered, spent>>
     \/ /\ turn.verdict = "give-up"
        /\ answered' = TRUE
        /\ UNCHANGED <<queue, spent>>
     \/ Trouble /\ UNCHANGED <<queue, answered>>
  /\ UNCHANGED <<status, users, alerts, attention, accepted,
                 history, unlogged, store, tracker, check, abort, scan, term, ends>>

----------------------------------------------------------------------------
(* Ending a turn: endStuckTurn is run by the watchdog and, through            *)
(* settleIfNoLiveTurn, by the cron scan.                                      *)

Enders == {"watchdog", "scan"}
Running == {"log", "list", "arm", "mark", "live"}

\* turnProgress.finish(), cancelAllChats() and clearStuckRecovery().
CancelTurn ==
  /\ tracker' = FALSE
  /\ turn' = IF turn.at \in Running THEN [turn EXCEPT !.cancelled = TRUE] ELSE turn
  /\ incident' = FALSE

\* The note is logged, at best, and the session is active again.
EndTurn(x) ==
  /\ ends[x]
  /\ \/ status' = "active" /\ answered' = TRUE /\ UNCHANGED spent
     \/ Trouble /\ status' = "active" /\ UNCHANGED answered
     \/ Trouble /\ answered' = TRUE /\ UNCHANGED status
  /\ ends' = [ends EXCEPT ![x] = FALSE]
  /\ scan' = IF x = "scan" THEN IdleScan ELSE scan
  /\ UNCHANGED <<users, alerts, attention, think, store, tracker, turn,
                 check, abort, term>>

----------------------------------------------------------------------------
(* checkTurnProgress, called every minute while its schedule stands *)

\* judgeTurn.  A turn that Think dropped makes no progress either.
JudgeTurn ==
  CASE ~tracker -> "idle"
    [] tracker /\ (turn.hung \/ turn.at \notin Running) -> "stuck"
    [] OTHER -> "healthy"

Alarm ==
  /\ watch /\ check.at = "idle" /\ ~ends["watchdog"]
  /\ JudgeTurn # "healthy"
  /\ check' = [at |-> "disarm", verdict |-> JudgeTurn]
  /\ UNCHANGED <<d1, think, store, tracker, turn, abort, scan, term,
                 ends, spent>>

\* disarmTurnWatchdog: the schedules of checkTurnProgress are listed and cancelled.
CheckDisarm ==
  /\ check.at = "disarm"
  /\ \/ watch' = FALSE /\ check' = [check EXCEPT !.at = "read"] /\ UNCHANGED spent
     \/ Trouble /\ check' = IdleCheck /\ UNCHANGED watch
  /\ UNCHANGED <<d1, think, conts, incident, ended, told, tracker, turn,
                 abort, scan, term, ends>>

\* The status is read, and either the watchdog is content or it ends the turn.
CheckRead ==
  /\ check.at = "read"
  /\ check' = IdleCheck
  /\ \/ /\ check.verdict = "idle" /\ status # "running"
        /\ UNCHANGED <<tracker, turn, incident, ends, spent>>
     \/ /\ check.verdict = "idle" => status = "running"
        /\ CancelTurn
        /\ ends' = [ends EXCEPT !["watchdog"] = TRUE]
        /\ UNCHANGED spent
     \/ Trouble /\ UNCHANGED <<tracker, turn, incident, ends>>
  /\ UNCHANGED <<d1, think, watch, conts, ended, told, abort, scan, term>>

----------------------------------------------------------------------------
(* abortActiveTurn *)

Abort ==
  /\ ~abort /\ Trouble
  /\ CancelTurn
  /\ abort' = TRUE
  /\ UNCHANGED <<d1, think, watch, conts, ended, told, check, scan, term, ends>>

\* A failure to disarm is swallowed, one to update reaches the owner.
AbortSettle ==
  /\ abort
  /\ \/ watch' = FALSE /\ status' = "active" /\ UNCHANGED spent
     \/ Trouble /\ status' = "active" /\ UNCHANGED watch
     \/ Trouble /\ watch' = FALSE /\ UNCHANGED status
  /\ abort' = FALSE
  /\ UNCHANGED <<entries, alerts, attention, think, conts, incident, ended,
                 told, tracker, turn, check, scan, term, ends>>

----------------------------------------------------------------------------
(* runDeadSessionScan, every five minutes, as far as this session goes *)

\* updated_at is written as 'YYYY-MM-DD HH:MM:SS' and compared with an ISO
\* string, whose 'T' is greater than the blank: a row updated on the same day
\* is listed whatever its age.  Any time may have passed since the update, and
\* the row, its age included, is not read again.  (Nothing comes of a fresh
\* row that is 'active'.)
ScanList ==
  /\ scan.at = "idle"
  /\ status \in {"active", "running"}
  /\ \E stale \in IF status = "running" THEN BOOLEAN ELSE {TRUE} :
       scan' = [at |-> "read", row |-> status, stale |-> stale, entry |-> 0]
  /\ UNCHANGED <<d1, think, store, tracker, turn, check, abort, term, ends, spent>>

BugOnlyDeadSessionsMatter ==
  /\ scan.at = "read"
  /\ scan' = IF ~DetectDeadSession(scan.stale) THEN IdleScan
             ELSE [scan EXCEPT !.entry = Len(users),
                     !.at = IF AlreadyRevived(Len(users)) THEN "alert" ELSE "revive"]
  /\ UNCHANGED <<d1, think, store, tracker, turn, check, abort, term, ends, spent>>

\* The rows are read: a dead turn is retried or alerted, a session that only
\* says 'running' is settled.
ScanRead ==
  /\ scan.at = "read"
  /\ \/ /\ ~DetectDeadSession(scan.stale)
        /\ scan' = IF scan.row = "running" THEN [scan EXCEPT !.at = "settle"]
                   ELSE IdleScan
        /\ UNCHANGED spent
     \/ /\ DetectDeadSession(scan.stale)
        /\ scan' = [scan EXCEPT !.entry = Len(users),
                      !.at = IF AlreadyRevived(Len(users)) THEN "alert" ELSE "revive"]
        /\ UNCHANGED spent
     \/ Trouble /\ scan' = IdleScan
  /\ UNCHANGED <<d1, think, store, tracker, turn, check, abort, term, ends>>

\* settleIfNoLiveTurn; the scan waits for endStuckTurn to finish.
ScanSettle ==
  /\ scan.at = "settle"
  /\ \/ tracker /\ scan' = IdleScan /\ UNCHANGED <<tracker, turn, incident, ends, spent>>
     \/ /\ ~tracker
        /\ CancelTurn
        /\ ends' = [ends EXCEPT !["scan"] = TRUE]
        /\ scan' = [scan EXCEPT !.at = "settling"]
        /\ UNCHANGED spent
     \/ Trouble /\ scan' = IdleScan /\ UNCHANGED <<tracker, turn, incident, ends>>
  /\ UNCHANGED <<d1, think, watch, conts, ended, told, check, abort, term>>

\* The message of the dead turn is sent again, under the key of its incident.
ScanRevive ==
  /\ scan.at = "revive"
  /\ \/ Submit(Retry(OriginalEntry(scan.entry))) /\ UNCHANGED spent
     \/ Trouble /\ UNCHANGED <<accepted, queue>>
  /\ scan' = IdleScan
  /\ UNCHANGED <<d1, history, unlogged, store, tracker, turn, check,
                 abort, term, ends>>

\* An alert that is newer than the dead turn is not repeated.
ScanAlert ==
  /\ scan.at = "alert"
  /\ \/ /\ attention >= scan.entry
        /\ scan' = [scan EXCEPT !.at = "interrupt"]
        /\ UNCHANGED <<alerts, attention, spent>>
     \/ /\ attention < scan.entry
        /\ alerts' = Append(alerts, OriginalEntry(scan.entry))
        /\ attention' = Len(users)
        /\ scan' = [scan EXCEPT !.at = "interrupt"]
        /\ UNCHANGED spent
     \/ Trouble /\ scan' = IdleScan /\ UNCHANGED <<alerts, attention>>
  /\ UNCHANGED <<status, entries, think, store, tracker, turn, check, abort,
                 term, ends>>

ScanInterrupt ==
  /\ scan.at = "interrupt"
  /\ scan' = IdleScan
  /\ \/ /\ status' = IF status \in {"active", "running"} THEN "interrupted" ELSE status
        /\ UNCHANGED spent
     \/ Trouble /\ UNCHANGED status
  /\ UNCHANGED <<entries, alerts, attention, think, store, tracker, turn,
                 check, abort, term, ends>>

----------------------------------------------------------------------------
(* The isolate dies, and Think recovers the turn it was running *)

\* The stored turn becomes an incident; submissions and schedules survive.
Crash ==
  /\ Trouble
  /\ IF turn.at = "idle" \/ turn.cancelled
     THEN UNCHANGED <<incident, ended, told>>
     ELSE incident' = TRUE /\ ended' = FALSE /\ told' = 0
  /\ unlogged' \in IF turn.at = "live" THEN {unlogged, Answer} ELSE {unlogged}
  /\ tracker' = FALSE
  /\ turn' = IdleTurn
  /\ check' = IdleCheck
  /\ abort' = FALSE
  /\ term' = "idle"
  /\ ends' = [x \in Enders |-> FALSE]
  /\ scan' = IF scan.at = "settling" THEN IdleScan ELSE scan
  /\ UNCHANGED <<d1, accepted, queue, history, watch, conts>>

\* The turn is attempted again.
Recover ==
  /\ incident /\ ~ended /\ turn.at = "idle" /\ term = "idle"
  /\ incident' = FALSE
  /\ turn' = [IdleTurn EXCEPT !.at = "log", !.msg = Continuation]
  /\ UNCHANGED <<d1, think, watch, conts, ended, told, tracker, check, abort,
                 scan, term, ends, spent>>

BugNoTerminalizedKey ==
  /\ incident /\ turn.at = "idle" /\ term = "idle"
  /\ ended' = TRUE /\ term' = "persist"
  /\ UNCHANGED <<d1, think, watch, conts, incident, told, tracker, turn, check, abort,
                 scan, ends, spent>>

\* terminalizeExhaustedRecovery: once per incident; a second call only clears.
Exhausted ==
  /\ incident /\ turn.at = "idle" /\ term = "idle"
  /\ IF ended
     THEN incident' = FALSE /\ UNCHANGED <<ended, term>>
     ELSE ended' = TRUE /\ term' = "persist" /\ UNCHANGED incident
  /\ UNCHANGED <<d1, think, watch, conts, told, tracker, turn, check, abort,
                 scan, ends, spent>>

\* The two writes run together; an insert that fails is swallowed by the log,
\* an update that fails ends the chain before the notice.
TermPersist ==
  /\ term = "persist"
  /\ \/ /\ status' = "interrupted" /\ answered' = TRUE
        /\ term' = "notify"
        /\ UNCHANGED spent
     \/ /\ Trouble
        /\ status' = "interrupted" /\ UNCHANGED answered
        /\ term' = "notify"
     \/ /\ Trouble
        /\ answered' = TRUE /\ UNCHANGED status
        /\ term' = "seal"
  /\ UNCHANGED <<users, alerts, attention, think, store, tracker, turn,
                 check, abort, scan, ends>>

TermNotify ==
  /\ term = "notify"
  /\ \/ told' = told + 1 /\ UNCHANGED spent
     \/ Trouble /\ UNCHANGED told
  /\ term' = "seal"
  /\ UNCHANGED <<d1, think, watch, conts, incident, ended, tracker, turn,
                 check, abort, scan, ends>>

TermSeal ==
  /\ term = "seal"
  /\ term' = "idle"
  /\ incident' = FALSE
  /\ UNCHANGED <<d1, think, watch, conts, ended, told, tracker, turn,
                 check, abort, scan, ends, spent>>

----------------------------------------------------------------------------
Init ==
  /\ status = "active" /\ users = <<>> /\ answered = FALSE
  /\ alerts = <<>> /\ attention = 0
  /\ accepted = {} /\ queue = <<>> /\ history = <<>> /\ unlogged = {}
  /\ watch = FALSE
  /\ conts = 0 /\ incident = FALSE /\ ended = FALSE /\ told = 0
  /\ tracker = FALSE
  /\ turn = IdleTurn /\ check = IdleCheck
  /\ abort = FALSE /\ scan = IdleScan /\ term = "idle"
  /\ ends = [x \in Enders |-> FALSE]
  /\ spent = 0

Finish == \E o \in {"stop", "tool-calls", "error", "aborted", "silent"} : FinishTurn(o)
TakeWork == BeginTurn \/ Recover \/ Exhausted
TurnStep ==
  \/ TakeWork \/ PrepareLog \/ PrepareList \/ PrepareArm \/ PrepareMark
  \/ Finish \/ DropTurn \/ ReplyLog \/ ReplySettle \/ ReplyContinue
WatchStep == Alarm \/ CheckDisarm \/ CheckRead \/ EndTurn("watchdog")
ScanStep == ScanList \/ ScanRead \/ ScanSettle \/ EndTurn("scan")
  \/ ScanRevive \/ ScanAlert \/ ScanInterrupt
TermStep == TermPersist \/ TermNotify \/ TermSeal

Next ==
  \/ \E m \in Msg : Send(m)
  \/ TurnStep \/ Hang \/ WatchStep \/ Abort \/ AbortSettle \/ ScanStep
  \/ Crash \/ TermStep

\* The cron trigger comes, its scan goes on, Think takes what it holds and the
\* end of a recovery goes on.  The watchdog and the turn itself, the owner,
\* hangs, faults and deaths are free: they may never come.
Fairness == WF_vars(TakeWork) /\ WF_vars(ScanStep) /\ WF_vars(TermStep)

Spec == Init /\ [][Next]_vars /\ Fairness
----------------------------------------------------------------------------
Statuses == {"active", "running", "error", "interrupted"}

TypeOK ==
  /\ status \in Statuses
  /\ ToSet(users) \subseteq accepted /\ answered \in BOOLEAN
  /\ unlogged \subseteq ToSet(history)
  /\ \A i \in DOMAIN alerts : alerts[i] \in DOMAIN users
  /\ attention \in 0..Len(users)
  /\ ToSet(queue) \subseteq accepted \cup {Continuation}
  /\ ToSet(history) \subseteq accepted
  /\ watch \in BOOLEAN
  /\ conts \in 0..MaxContinuations
  /\ incident \in BOOLEAN /\ ended \in BOOLEAN /\ told \in Nat
  /\ tracker \in BOOLEAN
  /\ turn.at \in Running \cup {"idle", "answer", "settle", "continue"}
  /\ check.at \in {"idle", "disarm", "read"}
  /\ abort \in BOOLEAN
  /\ scan.at \in {"idle", "read", "settle", "settling", "revive", "alert", "interrupt"}
  /\ scan.row \in Statuses /\ scan.entry \in 0..Len(users)
  /\ term \in {"idle", "persist", "notify", "seal"}
  /\ ends \in [Enders -> BOOLEAN]

\* A dead turn is sent again at most once, and the owner hears of it at most
\* once: a retry that dies too is never retried itself, it is the alert of the
\* turn it retried.
OneRecoveryPerIncident ==
  /\ \A i \in DOMAIN users : Retry(i) \in accepted => users[i] \in Msg
  /\ \A i, j \in DOMAIN alerts : alerts[i] = alerts[j] => i = j
  /\ \A i \in DOMAIN alerts : users[alerts[i]] \in Msg /\ Retry(alerts[i]) \in accepted

\* A turn whose recovery ran out is told to the owner at most once, whatever
\* dies or is called twice around it.
EndToldOnce == told <= 1

\* A user row of the history that D1 does not have.
LostRow == NewUsers # <<>>

\* The composer is locked while the session is 'running'.  When the turn is gone,
\* from the tracker too, the watchdog or the cron scan unlocks it, whatever
\* died or failed on the way; only the loss of a user row can prevent it.
ComposerUnlocks ==
  (status = "running" /\ turn.at = "idle" /\ ~tracker)
    ~> (status # "running" \/ turn.at # "idle" \/ LostRow)
=============================================================================
