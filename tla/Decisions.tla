------------------------------ MODULE Decisions ------------------------------
(***************************************************************************)
(* The decisions one session asks of its owner with one question: asking   *)
(* (createDecision), the owner's answers (POST /api/decisions/:id/respond  *)
(* with recordDecisionResponse) and the run events other callers append    *)
(* (appendOwnedRunEvent).                                                  *)
(*                                                                         *)
(* Each D1 statement is one step, so is the call that resumes the session. *)
(* A statement that fails has no effect; a call to the session that fails  *)
(* may have delivered the answer.  The queries match owner, session and    *)
(* question: decisions of another question never meet these.               *)
(***************************************************************************)
EXTENDS Naturals, Sequences, FiniteSets

CONSTANTS
  Decision,    \* decision ids (run-decision-<uuid>)
  Proc,        \* executions in flight: tools and owner requests
  Choice,      \* choices the owner may tap
  Options,     \* lists of choices a question comes with
  None,        \* absence of a decision or of a choice
  MaxAnswers,  \* bound: answers the owner sends
  MaxFaults,   \* bound: statements and calls that fail
  MaxCrashes   \* bound: executions that die between two steps

ASSUME NoneAssumption == None \notin Decision \cup Choice
ASSUME DecisionAssumption == IsFiniteSet(Decision)
ASSUME OptionsAssumption == Options \subseteq Seq(Choice)
ASSUME BoundAssumption == MaxAnswers \in Nat /\ MaxFaults \in Nat /\ MaxCrashes \in Nat

VARIABLES
  runs,       \* the rows of runs: status, options of bounds_json, age
  events,     \* the decision.answered rows of run_events
  link,       \* replacedBy of the decision.superseded row
  inbox,      \* what the session holds under the key decision:<id>
  confirmed,  \* answers the owner was told are recorded
  sent,       \* answers sent so far
  proc,       \* what each execution is doing and has read
  faults, crashes

vars == <<runs, events, link, inbox, confirmed, sent, proc, faults, crashes>>
-----------------------------------------------------------------------------
Status == {"none", "open", "running", "completed", "aborted"}
Row == [status: Status, options: Options \cup {<<>>}, made: Nat]
NoRow == [status |-> "none", options |-> <<>>, made |-> 0]
Event == [id: Nat, run: Decision, choice: Choice]

Place == {"idle", "create.insert", "create.supersede", "create.record",
          "answer.insert", "answer.complete", "answer.delete",
          "answer.resume", "answer.reopen", "append.update"}

\* An execution: where it stands, the decision it makes or answers, the
\* options or the choice it came with, its event, the decisions it retires.
Execution ==
  [at: Place, run: Decision \cup {None}, options: Options \cup {<<>>},
   choice: Choice \cup {None}, event: Nat, todo: SUBSET Decision,
   stale: Decision \cup {None}]
Idle == [at |-> "idle", run |-> None, options |-> <<>>, choice |-> None,
         event |-> 0, todo |-> {}, stale |-> None]

Init ==
  /\ runs = [d \in Decision |-> NoRow]
  /\ events = {}
  /\ link = [d \in Decision |-> None]
  /\ inbox = [d \in Decision |-> None]
  /\ confirmed = {}
  /\ sent = 0
  /\ proc = [p \in Proc |-> Idle]
  /\ faults = 0
  /\ crashes = 0
-----------------------------------------------------------------------------
Is(d, status) == runs[d].status = status
Open == {d \in Decision : Is(d, "open")}
SetStatus(d, status) == runs' = [runs EXCEPT ![d].status = status]

At(p, place) == proc[p].at = place
Begin(p, record) == At(p, "idle") /\ proc' = [proc EXCEPT ![p] = record]
Goto(p, place) == proc' = [proc EXCEPT ![p].at = place]
Done(p) == proc' = [proc EXCEPT ![p] = Idle]

Fault == faults < MaxFaults /\ faults' = faults + 1 /\ UNCHANGED crashes
NoFault == UNCHANGED <<faults, crashes>>
-----------------------------------------------------------------------------
(* createDecision *)

\* The SELECT of the open decisions: an identical one is reused, and then
\* nothing changes.
BeginCreate(p, d, o) ==
  /\ Is(d, "none") /\ \A q \in Proc : proc[q].run # d
  /\ \A e \in Open : runs[e].options # o
  /\ Begin(p, [Idle EXCEPT !.at = "create.insert", !.run = d, !.options = o,
                           !.todo = Open])
  /\ UNCHANGED <<runs, events, link, inbox, confirmed, sent, faults, crashes>>

BugStaleAnyOther(p) == Decision \ {proc[p].run}
\* The decisions to retire: those that were open before the new one was there.
Stale(p) == proc[p].todo
\* The loop over them, newest first.
Loop(p, todo) ==
  IF todo = {} THEN Done(p)
  ELSE proc' = [proc EXCEPT ![p].at = "create.supersede", ![p].todo = todo]

CreateInsert(p) ==
  /\ At(p, "create.insert")
  /\ \/ /\ runs' = [runs EXCEPT ![proc[p].run] =
             [status |-> "open", options |-> proc[p].options,
              made |-> 1 + Cardinality({d \in Decision : ~Is(d, "none")})]]
        /\ Loop(p, Stale(p))
        /\ NoFault
     \/ UNCHANGED runs /\ Done(p) /\ Fault
  /\ UNCHANGED <<events, link, inbox, confirmed, sent>>

BugSupersedeAnyStatus(e) == TRUE
\* UPDATE ... WHERE status = 'open'.
Retirable(e) == Is(e, "open")

Supersede(p) ==
  /\ At(p, "create.supersede")
  /\ \/ \E e \in proc[p].todo :
          /\ \A f \in proc[p].todo : runs[f].made <= runs[e].made
          /\ IF Retirable(e)
             THEN /\ SetStatus(e, "aborted")
                  /\ proc' = [proc EXCEPT ![p].at = "create.record",
                                          ![p].stale = e, ![p].todo = @ \ {e}]
             ELSE Loop(p, proc[p].todo \ {e}) /\ UNCHANGED runs
          /\ NoFault
     \/ UNCHANGED runs /\ Done(p) /\ Fault
  /\ UNCHANGED <<events, link, inbox, confirmed, sent>>

SupersedeRecord(p) ==
  /\ At(p, "create.record")
  /\ \/ link' = [link EXCEPT ![proc[p].stale] = proc[p].run] /\ Loop(p, proc[p].todo) /\ NoFault
     \/ UNCHANGED link /\ Done(p) /\ Fault
  /\ UNCHANGED <<runs, events, inbox, confirmed, sent>>
-----------------------------------------------------------------------------
(* POST /api/decisions/:id/respond and recordDecisionResponse *)

\* The row read by the route is open and offers the choice.
BeginAnswer(p, d, c) ==
  /\ Is(d, "open")
  /\ \E m \in DOMAIN runs[d].options : runs[d].options[m] = c
  /\ sent < MaxAnswers
  /\ sent' = sent + 1
  /\ Begin(p, [Idle EXCEPT !.at = "answer.insert", !.run = d, !.choice = c,
                           !.event = sent + 1])
  /\ UNCHANGED <<runs, events, link, inbox, confirmed, faults, crashes>>

AnswerInsert(p) ==
  /\ At(p, "answer.insert")
  /\ \/ /\ events' = events \cup
             {[id |-> proc[p].event, run |-> proc[p].run, choice |-> proc[p].choice]}
        /\ Goto(p, "answer.complete")
        /\ NoFault
     \/ UNCHANGED events /\ Done(p) /\ Fault
  /\ UNCHANGED <<runs, link, inbox, confirmed, sent>>

BugCompleteAnyStatus(d) == ~Is(d, "none")
\* UPDATE ... WHERE status = 'open': the one statement that decides.
Completable(d) == Is(d, "open")

AnswerComplete(p) ==
  LET d == proc[p].run IN
  /\ At(p, "answer.complete")
  /\ \/ Completable(d) /\ SetStatus(d, "completed") /\ Goto(p, "answer.resume") /\ NoFault
     \/ ~Completable(d) /\ UNCHANGED runs /\ Goto(p, "answer.delete") /\ NoFault
     \/ UNCHANGED runs /\ Goto(p, "answer.delete") /\ Fault
  /\ UNCHANGED <<events, link, inbox, confirmed, sent>>

BugDeleteEveryEvent(p) == {e \in events : e.run # proc[p].run}
\* DELETE ... WHERE run_id = ? AND event_id = ?
OtherEvents(p) == {e \in events : ~(e.run = proc[p].run /\ e.id = proc[p].event)}

\* The event of an answer that was refused, or rolled back, goes; when the
\* DELETE fails it stays.
AnswerDelete(p) ==
  /\ At(p, "answer.delete")
  /\ \/ events' = OtherEvents(p) /\ NoFault
     \/ UNCHANGED events /\ Fault
  /\ Done(p)
  /\ UNCHANGED <<runs, link, inbox, confirmed, sent>>

BugDeliversEventId(p) == [inbox EXCEPT ![proc[p].run] = proc[p].event]
\* The session keeps the first message under an idempotency key.
Delivered(p) ==
  [inbox EXCEPT ![proc[p].run] = IF @ = None THEN proc[p].choice ELSE @]

\* The injection and the touch of the session's row.
AnswerResume(p) ==
  /\ At(p, "answer.resume")
  /\ \/ /\ inbox' = Delivered(p)
        /\ confirmed' = confirmed \cup {<<proc[p].run, proc[p].choice>>}
        /\ Done(p)
        /\ NoFault
     \/ /\ inbox' \in {inbox, Delivered(p)}
        /\ UNCHANGED confirmed
        /\ Goto(p, "answer.reopen")
        /\ Fault
  /\ UNCHANGED <<runs, events, link, sent>>

BugDeleteFirst(p) ==
  /\ At(p, "answer.reopen")
  /\ \/ events # OtherEvents(p) /\ events' = OtherEvents(p) /\ UNCHANGED <<runs, proc>>
     \/ events = OtherEvents(p) /\ UNCHANGED events
        /\ SetStatus(proc[p].run, "open") /\ Done(p)
  /\ NoFault
  /\ UNCHANGED <<link, inbox, confirmed, sent>>
\* The event goes only when the run is known to be open again.
AnswerReopen(p) ==
  LET d == proc[p].run IN
  /\ At(p, "answer.reopen")
  /\ \/ Is(d, "completed") /\ SetStatus(d, "open") /\ Goto(p, "answer.delete") /\ NoFault
     \/ ~Is(d, "completed") /\ UNCHANGED runs /\ Done(p) /\ NoFault
     \/ UNCHANGED runs /\ Done(p) /\ Fault
  /\ UNCHANGED <<events, link, inbox, confirmed, sent>>
-----------------------------------------------------------------------------
(* appendOwnedRunEvent: any run that is not terminal, decisions included *)

BeginAppend(p, d) ==
  /\ runs[d].status \in {"open", "running"}
  /\ Begin(p, [Idle EXCEPT !.at = "append.update", !.run = d])
  /\ UNCHANGED <<runs, events, link, inbox, confirmed, sent, faults, crashes>>

AppendUpdate(p) ==
  LET d == proc[p].run IN
  /\ At(p, "append.update")
  /\ \/ (IF Is(d, "open") THEN SetStatus(d, "running") ELSE UNCHANGED runs) /\ NoFault
     \/ UNCHANGED runs /\ Fault
  /\ Done(p)
  /\ UNCHANGED <<events, link, inbox, confirmed, sent>>
-----------------------------------------------------------------------------
Crash(p) ==
  /\ ~At(p, "idle")
  /\ crashes < MaxCrashes
  /\ crashes' = crashes + 1
  /\ Done(p)
  /\ UNCHANGED <<runs, events, link, inbox, confirmed, sent, faults>>

Request(p) ==
  \E d \in Decision :
    \/ \E o \in Options : BeginCreate(p, d, o)
    \/ \E c \in Choice : BeginAnswer(p, d, c)
    \/ BeginAppend(p, d)

Step(p) ==
  \/ CreateInsert(p) \/ Supersede(p) \/ SupersedeRecord(p)
  \/ AnswerInsert(p) \/ AnswerComplete(p) \/ AnswerDelete(p)
  \/ AnswerResume(p) \/ AnswerReopen(p) \/ AppendUpdate(p)

Next == \E p \in Proc : Request(p) \/ Step(p) \/ Crash(p)

Spec == Init /\ [][Next]_vars

\* An execution that has begun goes on, unless its isolate dies.
FairSpec == Spec /\ \A p \in Proc : WF_vars(Step(p))
-----------------------------------------------------------------------------
(***************************************************************************)
(* Properties.                                                             *)
(***************************************************************************)

Working(p) == ~At(p, "idle")
Answering(p) ==
  proc[p].at \in {"answer.insert", "answer.complete", "answer.delete",
                  "answer.resume", "answer.reopen"}

\* Every variable has its type, an execution at work names its decision and
\* one that answers its choice.
TypeOK ==
  /\ runs \in [Decision -> Row]
  /\ events \subseteq Event
  /\ link \in [Decision -> Decision \cup {None}]
  /\ inbox \in [Decision -> Choice \cup {None}]
  /\ confirmed \subseteq Decision \X Choice
  /\ sent \in Nat
  /\ proc \in [Proc -> Execution]
  /\ \A p \in Proc : Working(p) => proc[p].run \in Decision
  /\ \A p \in Proc : Answering(p) => proc[p].choice \in Choice
  /\ faults \in Nat /\ crashes \in Nat

\* Which end a decision has come to, and the choices it was confirmed with.
Outcome ==
  [d \in Decision |->
     CASE Is(d, "none") -> "unasked"
       [] Is(d, "aborted") -> "retired"
       [] Is(d, "completed") /\ (\E c \in Choice : <<d, c>> \in confirmed) -> "answered"
       [] OTHER -> "asked"]
Accepted == [d \in Decision |-> {c \in Choice : <<d, c>> \in confirmed}]

\* The decisions implement their promise: a decision is confirmed with one
\* choice at most, whatever taps, retries, rollbacks, replacements and run
\* events overlap; one that is confirmed is never reopened for another answer
\* nor retired, and one that is retired is never answered.
Promise == INSTANCE DecisionPromise WITH outcome <- Outcome, answer <- Accepted
KeepsPromise == Promise!Spec

\* The answer the owner was told is recorded stays on record: the clean-up of
\* a refused or failed answer never takes the event of another.
ConfirmedOnRecord ==
  \A a \in confirmed : \E e \in events : e.run = a[1] /\ e.choice = a[2]

\* Redirects from a retired decision lead to newer ones, so following them
\* ends, though decisions that are asked at the same time retire each other.
RedirectsLeadForward ==
  \A d \in Decision : link[d] # None => runs[d].made < runs[link[d]].made

\* What the decision page shows: the newest answer event of the run.
Shown(d) ==
  CHOOSE c \in Choice \cup {None} :
    \/ \E e \in events : /\ e.run = d /\ e.choice = c
                         /\ \A f \in events : f.run = d => f.id <= e.id
    \/ c = None /\ \A e \in events : e.run # d

AtRest(d) == \A p \in Proc : proc[p].run # d

\* If nothing fails or dies, a decision at rest that is completed shows the
\* choice its session received, whoever else tapped at the same time.
PageTellsAnswer ==
  faults = 0 /\ crashes = 0 =>
    \A d \in Decision : AtRest(d) /\ Is(d, "completed") => Shown(d) = inbox[d]

\* Why the promise is kept: a decision that is being made is known to its
\* maker alone, an execution between completing a run and its end holds the
\* run alone, and nothing but its holder takes a run out of "completed".
FreshRun ==
  \A p \in Proc : At(p, "create.insert") =>
    /\ Is(proc[p].run, "none")
    /\ \A q \in Proc : proc[q].run = proc[p].run => q = p

Holds(p) == proc[p].at \in {"answer.resume", "answer.reopen"}
HeldAlone ==
  \A p \in Proc : Holds(p) =>
    /\ Is(proc[p].run, "completed")
    /\ \A a \in confirmed : a[1] # proc[p].run
    /\ \A q \in Proc : Holds(q) /\ proc[q].run = proc[p].run => q = p

ConfirmedOnce ==
  /\ \A a \in confirmed : Is(a[1], "completed")
  /\ \A a, b \in confirmed : a[1] = b[1] => a = b

\* The inductive strengthening of KeepsPromise.
HoldInv == TypeOK /\ FreshRun /\ HeldAlone /\ ConfirmedOnce
=============================================================================
