--------------------------- MODULE DecisionsProofs ---------------------------
(***************************************************************************)
(* Proofs about Decisions, for every number of decisions and executions,   *)
(* every bound and every choice of failures.                               *)
(***************************************************************************)
EXTENDS Decisions, FiniteSetTheorems, TLAPS

\* The part of TypeOK that is about executions.
ProcOK ==
  /\ proc \in [Proc -> Execution]
  /\ \A p \in Proc : Working(p) => proc[p].run \in Decision
  /\ \A p \in Proc : Answering(p) => proc[p].choice \in Choice

\* Ending an execution keeps it well formed; so does moving it on.
LEMMA DoneOK ==
  ASSUME ProcOK, NEW p \in Proc, Done(p)
  PROVE  ProcOK'
<1>1. Idle \in Execution /\ Idle.at = "idle"
  BY DEF Idle, Execution, Place
<1> QED BY <1>1 DEF ProcOK, Done, Working, Answering, At

LEMMA GotoOK ==
  ASSUME ProcOK, NEW p \in Proc, NEW place \in Place, Goto(p, place), Working(p),
         place \in {"answer.insert", "answer.complete", "answer.delete",
                    "answer.resume", "answer.reopen"} => Answering(p)
  PROVE  ProcOK'
BY DEF ProcOK, Goto, Working, Answering, At, Execution, Place

\* An execution that begins names its decision and, if it answers, its choice.
LEMMA BeginOK ==
  ASSUME ProcOK, NEW p \in Proc, NEW r \in Execution, r.run \in Decision,
         r.at \in {"answer.insert", "answer.complete", "answer.delete",
                   "answer.resume", "answer.reopen"} => r.choice \in Choice,
         Begin(p, r)
  PROVE  ProcOK'
BY DEF ProcOK, Begin, Working, Answering, At

\* The loop over the decisions to retire.
LEMMA LoopOK ==
  ASSUME ProcOK, NEW p \in Proc, NEW todo \in SUBSET Decision, Working(p),
         Loop(p, todo)
  PROVE  ProcOK'
<1>1. CASE todo = {}
  BY <1>1, DoneOK DEF Loop
<1>2. CASE todo # {}
  <2>1. proc' = [proc EXCEPT ![p] = [proc[p] EXCEPT !.at = "create.supersede", !.todo = todo]]
    BY <1>2 DEF Loop, ProcOK
  <2>2. [proc[p] EXCEPT !.at = "create.supersede", !.todo = todo] \in Execution
    BY DEF ProcOK, Execution, Place
  <2> QED BY <2>1, <2>2 DEF ProcOK, Working, Answering, At, Execution
<1> QED BY <1>1, <1>2
-----------------------------------------------------------------------------
\* The rest of TypeOK.
DataOK ==
  /\ runs \in [Decision -> Row]
  /\ events \subseteq Event
  /\ link \in [Decision -> Decision \cup {None}]
  /\ inbox \in [Decision -> Choice \cup {None}]
  /\ confirmed \subseteq Decision \X Choice
  /\ sent \in Nat
  /\ faults \in Nat /\ crashes \in Nat

LEMMA Split == TypeOK <=> ProcOK /\ DataOK
BY DEF TypeOK, ProcOK, DataOK

\* What an execution carries.
LEMMA Fields ==
  ASSUME ProcOK, NEW p \in Proc
  PROVE  /\ proc[p].at \in Place /\ proc[p].options \in Options \cup {<<>>}
         /\ proc[p].event \in Nat /\ proc[p].todo \in SUBSET Decision
         /\ proc[p].stale \in Decision \cup {None}
         /\ Working(p) => proc[p].run \in Decision
         /\ Answering(p) => proc[p].choice \in Choice /\ Working(p)
<1>1. proc[p] \in Execution
  BY DEF ProcOK
<1> QED BY <1>1 DEF Execution, ProcOK, Working, Answering, At

LEMMA SetStatusOK ==
  ASSUME runs \in [Decision -> Row], NEW d \in Decision, NEW st \in Status,
         SetStatus(d, st)
  PROVE  /\ runs' \in [Decision -> Row]
         /\ \A e \in Decision :
              runs'[e].status = IF e = d THEN st ELSE runs[e].status
<1>1. runs' = [runs EXCEPT ![d] = [runs[d] EXCEPT !.status = st]]
  BY DEF SetStatus
<1>2. [runs[d] EXCEPT !.status = st] \in Row
  BY DEF Row
<1> QED BY <1>1, <1>2 DEF Row

LEMMA CountersOK ==
  ASSUME faults \in Nat, crashes \in Nat, Fault \/ NoFault
  PROVE  faults' \in Nat /\ crashes' \in Nat
BY DEF Fault, NoFault

LEMMA FreshRow ==
  ASSUME NEW o \in Options \cup {<<>>}
  PROVE  [status |-> "open", options |-> o,
          made |-> 1 + Cardinality({d \in Decision : ~Is(d, "none")})] \in Row
<1>1. Cardinality({d \in Decision : ~Is(d, "none")}) \in Nat
  BY DecisionAssumption, FS_Subset, FS_CardinalityType
<1> QED BY <1>1 DEF Row, Status
-----------------------------------------------------------------------------
\* Every action keeps every variable well formed.
LEMMA RequestOK ==
  ASSUME ProcOK, DataOK, NEW p \in Proc, Request(p)
  PROVE  ProcOK' /\ DataOK'
<1>1. ASSUME NEW d \in Decision, NEW o \in Options, BeginCreate(p, d, o)
      PROVE  ProcOK' /\ DataOK'
  <2> DEFINE r == [Idle EXCEPT !.at = "create.insert", !.run = d, !.options = o,
                               !.todo = Open]
  <2>1. r \in Execution /\ r.run \in Decision /\ r.at = "create.insert"
    BY DEF Idle, Execution, Place, Open
  <2>2. ProcOK'
    BY <1>1, <2>1, BeginOK DEF BeginCreate
  <2> QED BY <1>1, <2>2 DEF BeginCreate, DataOK
<1>2. ASSUME NEW d \in Decision, NEW c \in Choice, BeginAnswer(p, d, c)
      PROVE  ProcOK' /\ DataOK'
  <2> DEFINE r == [Idle EXCEPT !.at = "answer.insert", !.run = d, !.choice = c,
                               !.event = sent + 1]
  <2>0. sent \in Nat /\ sent + 1 \in Nat
    BY DEF DataOK
  <2>1. r \in Execution /\ r.run \in Decision /\ r.choice \in Choice
    BY <2>0 DEF Idle, Execution, Place
  <2>2. ProcOK'
    BY <1>2, <2>1, BeginOK DEF BeginAnswer
  <2> QED BY <1>2, <2>0, <2>2 DEF BeginAnswer, DataOK
<1>3. ASSUME NEW d \in Decision, BeginAppend(p, d)
      PROVE  ProcOK' /\ DataOK'
  <2> DEFINE r == [Idle EXCEPT !.at = "append.update", !.run = d]
  <2>1. r \in Execution /\ r.run \in Decision /\ r.at = "append.update"
    BY DEF Idle, Execution, Place
  <2>2. ProcOK'
    BY <1>3, <2>1, BeginOK DEF BeginAppend
  <2> QED BY <1>3, <2>2 DEF BeginAppend, DataOK
<1> QED BY <1>1, <1>2, <1>3 DEF Request

LEMMA CreateInsertOK ==
  ASSUME ProcOK, DataOK, NEW p \in Proc, CreateInsert(p)
  PROVE  ProcOK' /\ DataOK'
<1>0. /\ Working(p) /\ proc[p].options \in Options \cup {<<>>}
      /\ proc[p].todo \in SUBSET Decision
  BY Fields DEF CreateInsert, Working, At
<1>1. ProcOK'
  BY <1>0, LoopOK, DoneOK DEF CreateInsert, Stale
<1>2. runs' \in [Decision -> Row]
  BY <1>0, FreshRow DEF CreateInsert, DataOK
<1>3. faults' \in Nat /\ crashes' \in Nat
  BY CountersOK DEF CreateInsert, DataOK
<1> QED BY <1>1, <1>2, <1>3 DEF CreateInsert, DataOK

LEMMA SupersedeOK ==
  ASSUME ProcOK, DataOK, NEW p \in Proc, Supersede(p)
  PROVE  ProcOK' /\ DataOK'
<1>0. Working(p) /\ proc[p].todo \in SUBSET Decision
  BY Fields DEF Supersede, Working, At
<1>1. ASSUME NEW e \in proc[p].todo, SetStatus(e, "aborted"),
             proc' = [proc EXCEPT ![p].at = "create.record",
                                  ![p].stale = e, ![p].todo = @ \ {e}]
      PROVE  ProcOK' /\ runs' \in [Decision -> Row]
  <2> DEFINE r == [proc[p] EXCEPT !.at = "create.record", !.stale = e,
                                  !.todo = proc[p].todo \ {e}]
  <2>1. proc' = [proc EXCEPT ![p] = r]
    BY <1>1 DEF ProcOK
  <2>2. r \in Execution /\ r.run = proc[p].run /\ r.at = "create.record"
    BY <1>0 DEF ProcOK, Execution, Place
  <2>3. ProcOK'
    BY <1>0, <2>1, <2>2, Fields DEF ProcOK, Working, Answering, At
  <2>4. "aborted" \in Status /\ e \in Decision
    BY <1>0 DEF Status
  <2> QED BY <1>1, <2>3, <2>4, SetStatusOK DEF DataOK
<1>2. ASSUME NEW e \in proc[p].todo, Loop(p, proc[p].todo \ {e}), UNCHANGED runs
      PROVE  ProcOK' /\ runs' \in [Decision -> Row]
  <2>1. proc[p].todo \ {e} \in SUBSET Decision
    BY <1>0
  <2> QED BY <1>0, <1>2, <2>1, LoopOK DEF DataOK
<1>3. ProcOK' /\ runs' \in [Decision -> Row]
  BY <1>1, <1>2, DoneOK DEF Supersede, DataOK
<1>4. faults' \in Nat /\ crashes' \in Nat
  BY CountersOK DEF Supersede, DataOK
<1> QED BY <1>3, <1>4 DEF Supersede, DataOK

LEMMA SupersedeRecordOK ==
  ASSUME ProcOK, DataOK, NEW p \in Proc, SupersedeRecord(p)
  PROVE  ProcOK' /\ DataOK'
<1>0. Working(p) /\ proc[p].todo \in SUBSET Decision /\ proc[p].run \in Decision
  BY Fields DEF SupersedeRecord, Working, At
<1>1. ProcOK'
  BY <1>0, LoopOK, DoneOK DEF SupersedeRecord
<1>2. link' \in [Decision -> Decision \cup {None}]
  BY <1>0 DEF SupersedeRecord, DataOK
<1>3. faults' \in Nat /\ crashes' \in Nat
  BY CountersOK DEF SupersedeRecord, DataOK
<1> QED BY <1>1, <1>2, <1>3 DEF SupersedeRecord, DataOK

LEMMA AnswerInsertOK ==
  ASSUME ProcOK, DataOK, NEW p \in Proc, AnswerInsert(p)
  PROVE  ProcOK' /\ DataOK'
<1>0. /\ Working(p) /\ Answering(p) /\ proc[p].run \in Decision
      /\ proc[p].choice \in Choice /\ proc[p].event \in Nat
  BY Fields DEF AnswerInsert, Working, Answering, At
<1>1. ProcOK'
  BY <1>0, GotoOK, DoneOK DEF AnswerInsert, Place
<1>2. events' \subseteq Event
  BY <1>0 DEF AnswerInsert, DataOK, Event
<1>3. faults' \in Nat /\ crashes' \in Nat
  BY CountersOK DEF AnswerInsert, DataOK
<1> QED BY <1>1, <1>2, <1>3 DEF AnswerInsert, DataOK

LEMMA AnswerCompleteOK ==
  ASSUME ProcOK, DataOK, NEW p \in Proc, AnswerComplete(p)
  PROVE  ProcOK' /\ DataOK'
<1>0. Working(p) /\ Answering(p) /\ proc[p].run \in Decision
  BY Fields DEF AnswerComplete, Working, Answering, At
<1>1. ProcOK'
  BY <1>0, GotoOK DEF AnswerComplete, Place
<1>2. runs' \in [Decision -> Row]
  BY <1>0, SetStatusOK DEF AnswerComplete, DataOK, Status
<1>3. faults' \in Nat /\ crashes' \in Nat
  BY CountersOK DEF AnswerComplete, DataOK
<1> QED BY <1>1, <1>2, <1>3 DEF AnswerComplete, DataOK

LEMMA AnswerDeleteOK ==
  ASSUME ProcOK, DataOK, NEW p \in Proc, AnswerDelete(p)
  PROVE  ProcOK' /\ DataOK'
<1>1. ProcOK'
  BY DoneOK DEF AnswerDelete
<1>2. faults' \in Nat /\ crashes' \in Nat
  BY CountersOK DEF AnswerDelete, DataOK
<1> QED BY <1>1, <1>2 DEF AnswerDelete, OtherEvents, DataOK

LEMMA AnswerResumeOK ==
  ASSUME ProcOK, DataOK, NEW p \in Proc, AnswerResume(p)
  PROVE  ProcOK' /\ DataOK'
<1>0. /\ Working(p) /\ Answering(p) /\ proc[p].run \in Decision
      /\ proc[p].choice \in Choice
  BY Fields DEF AnswerResume, Working, Answering, At
<1>1. ProcOK'
  BY <1>0, GotoOK, DoneOK DEF AnswerResume, Place
<1>2. inbox \in [Decision -> Choice \cup {None}]
      /\ Delivered(p) \in [Decision -> Choice \cup {None}]
  BY <1>0 DEF Delivered, DataOK
<1>3. inbox' \in [Decision -> Choice \cup {None}]
      /\ confirmed' \subseteq Decision \X Choice
  BY <1>0, <1>2 DEF AnswerResume, DataOK
<1>4. faults' \in Nat /\ crashes' \in Nat
  BY CountersOK DEF AnswerResume, DataOK
<1> QED BY <1>1, <1>3, <1>4 DEF AnswerResume, DataOK

LEMMA AnswerReopenOK ==
  ASSUME ProcOK, DataOK, NEW p \in Proc, AnswerReopen(p)
  PROVE  ProcOK' /\ DataOK'
<1>0. Working(p) /\ Answering(p) /\ proc[p].run \in Decision
  BY Fields DEF AnswerReopen, Working, Answering, At
<1>1. ProcOK'
  BY <1>0, GotoOK, DoneOK DEF AnswerReopen, Place
<1>2. runs' \in [Decision -> Row]
  BY <1>0, SetStatusOK DEF AnswerReopen, DataOK, Status
<1>3. faults' \in Nat /\ crashes' \in Nat
  BY CountersOK DEF AnswerReopen, DataOK
<1> QED BY <1>1, <1>2, <1>3 DEF AnswerReopen, DataOK

LEMMA AppendUpdateOK ==
  ASSUME ProcOK, DataOK, NEW p \in Proc, AppendUpdate(p)
  PROVE  ProcOK' /\ DataOK'
<1>0. proc[p].run \in Decision
  BY Fields DEF AppendUpdate, Working, At
<1>1. ProcOK'
  BY DoneOK DEF AppendUpdate
<1>2. runs' \in [Decision -> Row]
  BY <1>0, SetStatusOK DEF AppendUpdate, DataOK, Status
<1>3. faults' \in Nat /\ crashes' \in Nat
  BY CountersOK DEF AppendUpdate, DataOK
<1> QED BY <1>1, <1>2, <1>3 DEF AppendUpdate, DataOK

LEMMA CrashOK ==
  ASSUME ProcOK, DataOK, NEW p \in Proc, Crash(p)
  PROVE  ProcOK' /\ DataOK'
<1>1. ProcOK'
  BY DoneOK DEF Crash
<1> QED BY <1>1 DEF Crash, DataOK

LEMMA TypeStep == TypeOK /\ [Next]_vars => TypeOK'
<1> SUFFICES ASSUME ProcOK, DataOK, [Next]_vars PROVE ProcOK' /\ DataOK'
  BY Split DEF TypeOK, ProcOK, DataOK
<1>1. ASSUME NEW p \in Proc, Step(p) PROVE ProcOK' /\ DataOK'
  BY <1>1, CreateInsertOK, SupersedeOK, SupersedeRecordOK, AnswerInsertOK,
     AnswerCompleteOK, AnswerDeleteOK, AnswerResumeOK, AnswerReopenOK,
     AppendUpdateOK DEF Step
<1>2. CASE UNCHANGED vars
  BY <1>2 DEF vars, ProcOK, DataOK, Working, Answering, At
<1> QED BY <1>1, <1>2, RequestOK, CrashOK DEF Next

LEMMA TypeInit == Init => TypeOK
<1> SUFFICES ASSUME Init PROVE ProcOK /\ DataOK
  BY Split
<1>1. NoRow \in Row /\ Idle \in Execution /\ Idle.at = "idle"
  BY DEF NoRow, Row, Status, Idle, Execution, Place
<1> QED BY <1>1 DEF Init, ProcOK, DataOK, Working, Answering, At

\* Rows, events, redirects and executions stay well formed; an execution that
\* answers always holds a choice the owner made.
THEOREM TypeCorrect == Spec => []TypeOK
BY TypeInit, TypeStep, PTL DEF Spec
-----------------------------------------------------------------------------
\* Where the executions stand after one of them moves.
LEMMA GotoMoves ==
  ASSUME ProcOK, NEW p \in Proc, NEW place, Goto(p, place)
  PROVE  /\ \A q \in Proc \ {p} : proc'[q] = proc[q]
         /\ proc'[p].at = place /\ proc'[p].run = proc[p].run
BY DEF ProcOK, Goto, Execution

LEMMA DoneMoves ==
  ASSUME ProcOK, NEW p \in Proc, Done(p)
  PROVE  /\ \A q \in Proc \ {p} : proc'[q] = proc[q]
         /\ proc'[p].at = "idle" /\ proc'[p].run = None
BY DEF ProcOK, Done, Idle

LEMMA LoopMoves ==
  ASSUME ProcOK, NEW p \in Proc, NEW todo, Loop(p, todo)
  PROVE  /\ \A q \in Proc \ {p} : proc'[q] = proc[q]
         /\ proc'[p].at \in {"idle", "create.supersede"}
         /\ proc'[p].run \in {proc[p].run, None}
<1>1. proc \in [Proc -> Execution] /\ proc[p] \in Execution
  BY DEF ProcOK
<1>2. CASE todo = {}
  BY <1>2, DoneMoves DEF Loop
<1>3. CASE todo # {}
  BY <1>1, <1>3 DEF Loop, Execution
<1> QED BY <1>2, <1>3

LEMMA BeginMoves ==
  ASSUME ProcOK, NEW p \in Proc, NEW r, Begin(p, r)
  PROVE  /\ \A q \in Proc \ {p} : proc'[q] = proc[q]
         /\ proc'[p] = r
BY DEF ProcOK, Begin

\* A step of p that takes no run out of "completed", confirms nothing, makes
\* no row and gives p no run to hold disturbs none of the reasons.
LEMMA QuietStep ==
  ASSUME HoldInv, TypeOK', NEW p \in Proc,
         \A q \in Proc \ {p} : proc'[q] = proc[q],
         \A d \in Decision : Is(d, "completed") => Is(d, "completed")',
         \A d \in Decision : Is(d, "none") => Is(d, "none")',
         confirmed' = confirmed,
         proc'[p].run \in {proc[p].run, None},
         Holds(p)' => Holds(p) /\ proc'[p].run = proc[p].run,
         ~At(p, "create.insert")'
  PROVE  HoldInv'
<1>1. FreshRun'
  <2> SUFFICES ASSUME NEW q \in Proc, At(q, "create.insert")'
               PROVE  /\ runs'[proc'[q].run].status = "none"
                      /\ \A t \in Proc : proc'[t].run = proc'[q].run => t = q
    BY DEF FreshRun, Is
  <2>1. q # p /\ proc'[q] = proc[q] /\ At(q, "create.insert")
    BY DEF At
  <2>2. /\ Is(proc[q].run, "none") /\ proc[q].run \in Decision
        /\ \A t \in Proc : proc[t].run = proc[q].run => t = q
    BY <2>1 DEF HoldInv, FreshRun, TypeOK, Working, At
  <2> QED BY <2>1, <2>2, NoneAssumption DEF Is
<1>2. HeldAlone'
  <2> SUFFICES ASSUME NEW q \in Proc, Holds(q)'
               PROVE  /\ runs'[proc'[q].run].status = "completed"
                      /\ \A a \in confirmed' : a[1] # proc'[q].run
                      /\ \A t \in Proc : Holds(t)' /\ proc'[t].run = proc'[q].run => t = q
    BY DEF HeldAlone, Is
  <2>1. \A t \in Proc : Holds(t)' => Holds(t) /\ proc'[t].run = proc[t].run
    BY DEF Holds
  <2>2. /\ Is(proc[q].run, "completed") /\ proc[q].run \in Decision
        /\ \A a \in confirmed : a[1] # proc[q].run
        /\ \A t \in Proc : Holds(t) /\ proc[t].run = proc[q].run => t = q
    BY <2>1 DEF HoldInv, HeldAlone, TypeOK, Working, At, Holds
  <2> QED BY <2>1, <2>2 DEF Is
<1>3. ConfirmedOnce'
  BY DEF HoldInv, ConfirmedOnce, TypeOK, Is
<1> QED BY <1>1, <1>2, <1>3 DEF HoldInv

\* The steps that are quiet.
LEMMA SupersedeHold ==
  ASSUME HoldInv, TypeOK', NEW p \in Proc, Supersede(p)
  PROVE  HoldInv'
<1>0. ProcOK /\ runs \in [Decision -> Row] /\ proc[p].todo \in SUBSET Decision
  BY Split, Fields DEF HoldInv, DataOK
<1>1. /\ \A q \in Proc \ {p} : proc'[q] = proc[q]
      /\ proc'[p].at \in {"idle", "create.supersede", "create.record"}
      /\ proc'[p].run \in {proc[p].run, None}
  <2>1. ASSUME NEW e \in proc[p].todo,
               proc' = [proc EXCEPT ![p].at = "create.record",
                                    ![p].stale = e, ![p].todo = @ \ {e}]
        PROVE  /\ \A q \in Proc \ {p} : proc'[q] = proc[q]
               /\ proc'[p].at = "create.record" /\ proc'[p].run = proc[p].run
    BY <1>0, <2>1 DEF ProcOK, Execution
  <2> QED BY <1>0, <2>1, LoopMoves, DoneMoves DEF Supersede
<1>2. \A d \in Decision, st \in {"none", "completed"} :
        runs[d].status = st => runs'[d].status = st
  <2>1. ASSUME NEW e \in proc[p].todo, Retirable(e), SetStatus(e, "aborted"),
               NEW d \in Decision, NEW st \in {"none", "completed"},
               runs[d].status = st
        PROVE  runs'[d].status = st
    <3>1. runs[e].status = "open" /\ e \in Decision /\ "aborted" \in Status
      BY <1>0, <2>1 DEF Retirable, Is, Status
    <3> QED BY <1>0, <2>1, <3>1, SetStatusOK
  <2> QED BY <2>1 DEF Supersede
<1>3. confirmed' = confirmed
  BY DEF Supersede
<1> QED BY <1>1, <1>2, <1>3, QuietStep DEF Holds, At, Is

LEMMA SupersedeRecordHold ==
  ASSUME HoldInv, TypeOK', NEW p \in Proc, SupersedeRecord(p)
  PROVE  HoldInv'
<1>0. ProcOK
  BY Split DEF HoldInv
<1>1. /\ \A q \in Proc \ {p} : proc'[q] = proc[q]
      /\ proc'[p].at \in {"idle", "create.supersede"}
      /\ proc'[p].run \in {proc[p].run, None}
  BY <1>0, LoopMoves, DoneMoves DEF SupersedeRecord
<1>2. runs' = runs /\ confirmed' = confirmed
  BY DEF SupersedeRecord
<1> QED BY <1>1, <1>2, QuietStep DEF Holds, At, Is

LEMMA AnswerInsertHold ==
  ASSUME HoldInv, TypeOK', NEW p \in Proc, AnswerInsert(p)
  PROVE  HoldInv'
<1>0. ProcOK
  BY Split DEF HoldInv
<1>1. /\ \A q \in Proc \ {p} : proc'[q] = proc[q]
      /\ proc'[p].at \in {"idle", "answer.complete"}
      /\ proc'[p].run \in {proc[p].run, None}
  BY <1>0, GotoMoves, DoneMoves DEF AnswerInsert
<1>2. runs' = runs /\ confirmed' = confirmed
  BY DEF AnswerInsert
<1> QED BY <1>1, <1>2, QuietStep DEF Holds, At, Is

LEMMA AnswerDeleteHold ==
  ASSUME HoldInv, TypeOK', NEW p \in Proc, AnswerDelete(p)
  PROVE  HoldInv'
<1>1. /\ \A q \in Proc \ {p} : proc'[q] = proc[q]
      /\ proc'[p].at = "idle" /\ proc'[p].run = None
  BY Split, DoneMoves DEF HoldInv, AnswerDelete
<1>2. runs' = runs /\ confirmed' = confirmed
  BY DEF AnswerDelete
<1> QED BY <1>1, <1>2, QuietStep DEF Holds, At, Is

LEMMA AppendUpdateHold ==
  ASSUME HoldInv, TypeOK', NEW p \in Proc, AppendUpdate(p)
  PROVE  HoldInv'
<1>0. ProcOK /\ runs \in [Decision -> Row] /\ proc[p].run \in Decision
  BY Split, Fields DEF HoldInv, DataOK, AppendUpdate, Working, At
<1>1. /\ \A q \in Proc \ {p} : proc'[q] = proc[q]
      /\ proc'[p].at = "idle" /\ proc'[p].run = None
  BY <1>0, DoneMoves DEF AppendUpdate
<1>2. \A d \in Decision, st \in {"none", "completed"} :
        runs[d].status = st => runs'[d].status = st
  <2>1. "running" \in Status
    BY DEF Status
  <2> QED BY <1>0, <2>1, SetStatusOK DEF AppendUpdate, Is
<1>3. confirmed' = confirmed
  BY DEF AppendUpdate
<1> QED BY <1>1, <1>2, <1>3, QuietStep DEF Holds, At, Is

LEMMA CrashHold ==
  ASSUME HoldInv, TypeOK', NEW p \in Proc, Crash(p)
  PROVE  HoldInv'
<1>1. /\ \A q \in Proc \ {p} : proc'[q] = proc[q]
      /\ proc'[p].at = "idle" /\ proc'[p].run = None
  BY Split, DoneMoves DEF HoldInv, Crash
<1>2. runs' = runs /\ confirmed' = confirmed
  BY DEF Crash
<1> QED BY <1>1, <1>2, QuietStep DEF Holds, At, Is

\* What the reasons say of one execution.
LEMMA FreshFacts ==
  ASSUME HoldInv, NEW q \in Proc, proc[q].at = "create.insert"
  PROVE  /\ proc[q].run \in Decision /\ runs[proc[q].run].status = "none"
         /\ \A t \in Proc : proc[t].run = proc[q].run => t = q
BY DEF HoldInv, FreshRun, TypeOK, Working, At, Is

LEMMA HoldFacts ==
  ASSUME HoldInv, NEW q \in Proc, Holds(q)
  PROVE  /\ proc[q].run \in Decision /\ runs[proc[q].run].status = "completed"
         /\ \A a \in confirmed : a[1] # proc[q].run
         /\ \A t \in Proc : Holds(t) /\ proc[t].run = proc[q].run => t = q
BY DEF HoldInv, HeldAlone, Holds, TypeOK, Working, At, Is

\* A request that begins knows a decision that no maker has to itself, or is
\* its only maker.
LEMMA RequestHold ==
  ASSUME HoldInv, TypeOK', NEW p \in Proc, Request(p)
  PROVE  HoldInv'
<1>0. ProcOK /\ runs' = runs /\ confirmed' = confirmed
  BY Split DEF HoldInv, Request, BeginCreate, BeginAnswer, BeginAppend
<1>1. PICK d \in Decision :
        /\ \A q \in Proc \ {p} : proc'[q] = proc[q]
        /\ proc'[p].run = d
        /\ \/ /\ proc'[p].at = "create.insert" /\ runs[d].status = "none"
              /\ \A q \in Proc : proc[q].run # d
           \/ /\ proc'[p].at \in {"answer.insert", "append.update"}
              /\ runs[d].status # "none"
  <2>1. ASSUME NEW d \in Decision, NEW o \in Options, BeginCreate(p, d, o)
        PROVE  /\ \A q \in Proc \ {p} : proc'[q] = proc[q]
               /\ proc'[p].run = d /\ proc'[p].at = "create.insert"
               /\ runs[d].status = "none" /\ \A q \in Proc : proc[q].run # d
    <3> DEFINE r == [Idle EXCEPT !.at = "create.insert", !.run = d,
                                 !.options = o, !.todo = Open]
    <3>1. Begin(p, r) /\ r.run = d /\ r.at = "create.insert"
      BY <2>1 DEF BeginCreate, Idle
    <3>2. (\A q \in Proc \ {p} : proc'[q] = proc[q]) /\ proc'[p] = r
      BY <1>0, <3>1, BeginMoves
    <3> QED BY <2>1, <3>1, <3>2 DEF BeginCreate, Is
  <2>2. ASSUME NEW d \in Decision, NEW c \in Choice, BeginAnswer(p, d, c)
        PROVE  /\ \A q \in Proc \ {p} : proc'[q] = proc[q]
               /\ proc'[p].run = d /\ proc'[p].at = "answer.insert"
               /\ runs[d].status # "none"
    <3> DEFINE r == [Idle EXCEPT !.at = "answer.insert", !.run = d, !.choice = c,
                                 !.event = sent + 1]
    <3>1. Begin(p, r) /\ r.run = d /\ r.at = "answer.insert"
      BY <2>2 DEF BeginAnswer, Idle
    <3>2. (\A q \in Proc \ {p} : proc'[q] = proc[q]) /\ proc'[p] = r
      BY <1>0, <3>1, BeginMoves
    <3> QED BY <2>2, <3>1, <3>2 DEF BeginAnswer, Is
  <2>3. ASSUME NEW d \in Decision, BeginAppend(p, d)
        PROVE  /\ \A q \in Proc \ {p} : proc'[q] = proc[q]
               /\ proc'[p].run = d /\ proc'[p].at = "append.update"
               /\ runs[d].status # "none"
    <3> DEFINE r == [Idle EXCEPT !.at = "append.update", !.run = d]
    <3>1. Begin(p, r) /\ r.run = d /\ r.at = "append.update"
      BY <2>3 DEF BeginAppend, Idle
    <3>2. (\A q \in Proc \ {p} : proc'[q] = proc[q]) /\ proc'[p] = r
      BY <1>0, <3>1, BeginMoves
    <3> QED BY <2>3, <3>1, <3>2 DEF BeginAppend
  <2> QED BY <2>1, <2>2, <2>3 DEF Request
<1>2. FreshRun'
  <2> SUFFICES ASSUME NEW q \in Proc, proc'[q].at = "create.insert"
               PROVE  /\ runs'[proc'[q].run].status = "none"
                      /\ \A t \in Proc : proc'[t].run = proc'[q].run => t = q
    BY DEF FreshRun, Is, At
  <2>1. CASE q = p
    BY <1>0, <1>1, <2>1
  <2>2. CASE q # p
    <3>1. /\ runs[proc[q].run].status = "none" /\ proc'[q] = proc[q]
          /\ \A t \in Proc : proc[t].run = proc[q].run => t = q
      BY <1>1, <2>2, FreshFacts
    <3> QED BY <1>0, <1>1, <2>2, <3>1
  <2> QED BY <2>1, <2>2
<1>3. HeldAlone'
  <2>1. \A q \in Proc : Holds(q)' => Holds(q) /\ proc'[q] = proc[q]
    BY <1>1 DEF Holds
  <2> QED BY <1>0, <2>1, HoldFacts DEF HeldAlone, Is
<1>4. ConfirmedOnce'
  BY <1>0 DEF HoldInv, ConfirmedOnce, Is
<1> QED BY <1>2, <1>3, <1>4 DEF HoldInv

\* The new row is one that nobody else knows.
LEMMA CreateInsertHold ==
  ASSUME HoldInv, TypeOK', NEW p \in Proc, CreateInsert(p)
  PROVE  HoldInv'
<1>0. /\ ProcOK /\ runs \in [Decision -> Row] /\ confirmed' = confirmed
      /\ proc[p].at = "create.insert"
  BY Split DEF HoldInv, DataOK, CreateInsert, At
<1>1. /\ \A q \in Proc \ {p} : proc'[q] = proc[q]
      /\ proc'[p].at \in {"idle", "create.supersede"}
      /\ proc'[p].run \in {proc[p].run, None}
  BY <1>0, LoopMoves, DoneMoves DEF CreateInsert
<1>2. \A d \in Decision : d # proc[p].run => runs'[d] = runs[d]
  BY <1>0 DEF CreateInsert
<1>3. /\ proc[p].run \in Decision /\ runs[proc[p].run].status = "none"
      /\ \A t \in Proc : proc[t].run = proc[p].run => t = p
  BY <1>0, FreshFacts
<1>4. FreshRun'
  <2> SUFFICES ASSUME NEW q \in Proc, proc'[q].at = "create.insert"
               PROVE  /\ runs'[proc'[q].run].status = "none"
                      /\ \A t \in Proc : proc'[t].run = proc'[q].run => t = q
    BY DEF FreshRun, Is, At
  <2>1. q # p /\ proc'[q] = proc[q]
    BY <1>1
  <2>2. /\ runs[proc[q].run].status = "none" /\ proc[q].run \in Decision
        /\ \A t \in Proc : proc[t].run = proc[q].run => t = q
    BY <2>1, FreshFacts
  <2>3. proc[q].run # proc[p].run
    BY <1>3, <2>1
  <2> QED BY <1>1, <1>2, <2>1, <2>2, <2>3, NoneAssumption
<1>5. HeldAlone'
  <2>1. \A q \in Proc : Holds(q)' => Holds(q) /\ proc'[q] = proc[q]
    BY <1>1 DEF Holds
  <2>2. \A q \in Proc : Holds(q) => runs'[proc[q].run] = runs[proc[q].run]
    BY <1>2, <1>3, HoldFacts
  <2> QED BY <1>0, <2>1, <2>2, HoldFacts DEF HeldAlone, Is
<1>6. ConfirmedOnce'
  <2>1. \A a \in confirmed : a[1] \in Decision /\ runs[a[1]].status = "completed"
    BY DEF HoldInv, ConfirmedOnce, TypeOK, Is
  <2> QED BY <1>0, <1>2, <1>3, <2>1 DEF HoldInv, ConfirmedOnce, Is
<1> QED BY <1>4, <1>5, <1>6 DEF HoldInv

\* Completing an open run makes p its holder: nobody held it, and it was not
\* confirmed, or it would have been completed already.
LEMMA AnswerCompleteHold ==
  ASSUME HoldInv, TypeOK', NEW p \in Proc, AnswerComplete(p)
  PROVE  HoldInv'
<1> DEFINE d == proc[p].run
<1>0. /\ ProcOK /\ runs \in [Decision -> Row] /\ confirmed' = confirmed
      /\ d \in Decision
  BY Split, Fields DEF HoldInv, DataOK, AnswerComplete, Working, At
<1>1. CASE Completable(d) /\ SetStatus(d, "completed") /\ Goto(p, "answer.resume")
  <2>1. /\ \A q \in Proc \ {p} : proc'[q] = proc[q]
        /\ proc'[p].at = "answer.resume" /\ proc'[p].run = d
    BY <1>0, <1>1, GotoMoves
  <2>2. /\ runs[d].status = "open"
        /\ \A e \in Decision :
             runs'[e].status = IF e = d THEN "completed" ELSE runs[e].status
    BY <1>0, <1>1, SetStatusOK DEF Completable, Is, Status
  <2>3. FreshRun'
    <3> SUFFICES ASSUME NEW q \in Proc, proc'[q].at = "create.insert"
                 PROVE  /\ runs'[proc'[q].run].status = "none"
                        /\ \A t \in Proc : proc'[t].run = proc'[q].run => t = q
      BY DEF FreshRun, Is, At
    <3>1. q # p /\ proc'[q] = proc[q]
      BY <2>1
    <3>2. /\ runs[proc[q].run].status = "none" /\ proc[q].run \in Decision
          /\ \A t \in Proc : proc[t].run = proc[q].run => t = q
      BY <3>1, FreshFacts
    <3> QED BY <2>1, <2>2, <3>1, <3>2
  <2>4. HeldAlone'
    <3>1. \A q \in Proc : Holds(q)' /\ q # p => Holds(q) /\ proc'[q] = proc[q]
      BY <2>1 DEF Holds
    <3>2. \A q \in Proc : Holds(q) => proc[q].run # d
      BY <2>2, HoldFacts
    <3>3. \A a \in confirmed : a[1] # d
      BY <2>2 DEF HoldInv, ConfirmedOnce, Is
    <3> QED BY <1>0, <2>1, <2>2, <3>1, <3>2, <3>3, HoldFacts DEF HeldAlone, Is
  <2>5. ConfirmedOnce'
    <3>1. \A a \in confirmed : a[1] \in Decision /\ runs[a[1]].status = "completed"
      BY DEF HoldInv, ConfirmedOnce, TypeOK, Is
    <3> QED BY <1>0, <2>2, <3>1 DEF HoldInv, ConfirmedOnce, Is
  <2> QED BY <2>3, <2>4, <2>5 DEF HoldInv
<1>2. CASE runs' = runs /\ Goto(p, "answer.delete")
  <2>1. /\ \A q \in Proc \ {p} : proc'[q] = proc[q]
        /\ proc'[p].at = "answer.delete" /\ proc'[p].run = d
    BY <1>0, <1>2, GotoMoves
  <2> QED BY <1>0, <1>2, <2>1, QuietStep DEF Holds, At, Is
<1> QED BY <1>1, <1>2 DEF AnswerComplete

\* The holder confirms the run, once, and lets go of it.
LEMMA AnswerResumeHold ==
  ASSUME HoldInv, TypeOK', NEW p \in Proc, AnswerResume(p)
  PROVE  HoldInv'
<1> DEFINE d == proc[p].run
<1>0. ProcOK /\ runs' = runs /\ Holds(p)
  BY Split DEF HoldInv, AnswerResume, Holds, At
<1>1. CASE confirmed' = confirmed \cup {<<d, proc[p].choice>>} /\ Done(p)
  <2>1. /\ \A q \in Proc \ {p} : proc'[q] = proc[q]
        /\ proc'[p].at = "idle" /\ proc'[p].run = None
    BY <1>0, <1>1, DoneMoves
  <2>2. /\ d \in Decision /\ runs[d].status = "completed"
        /\ \A a \in confirmed : a[1] # d
        /\ \A t \in Proc : Holds(t) /\ proc[t].run = d => t = p
    BY <1>0, HoldFacts
  <2>3. FreshRun'
    <3> SUFFICES ASSUME NEW q \in Proc, proc'[q].at = "create.insert"
                 PROVE  /\ runs'[proc'[q].run].status = "none"
                        /\ \A t \in Proc : proc'[t].run = proc'[q].run => t = q
      BY DEF FreshRun, Is, At
    <3>1. q # p /\ proc'[q] = proc[q]
      BY <2>1
    <3>2. /\ runs[proc[q].run].status = "none" /\ proc[q].run \in Decision
          /\ \A t \in Proc : proc[t].run = proc[q].run => t = q
      BY <3>1, FreshFacts
    <3> QED BY <1>0, <2>1, <3>1, <3>2, NoneAssumption
  <2>4. HeldAlone'
    <3>1. \A q \in Proc : Holds(q)' => Holds(q) /\ proc'[q] = proc[q] /\ q # p
      BY <2>1 DEF Holds
    <3>2. \A q \in Proc : Holds(q) /\ q # p => proc[q].run # d
      BY <2>2
    <3> QED BY <1>0, <1>1, <3>1, <3>2, HoldFacts DEF HeldAlone, Is
  <2>5. ConfirmedOnce'
    <3>1. \A a \in confirmed' : a \in confirmed \/ a = <<d, proc[p].choice>>
      BY <1>1
    <3> QED BY <1>0, <2>2, <3>1 DEF HoldInv, ConfirmedOnce, Is
  <2> QED BY <2>3, <2>4, <2>5 DEF HoldInv
<1>2. CASE confirmed' = confirmed /\ Goto(p, "answer.reopen")
  <2>1. /\ \A q \in Proc \ {p} : proc'[q] = proc[q]
        /\ proc'[p].at = "answer.reopen" /\ proc'[p].run = d
    BY <1>0, <1>2, GotoMoves
  <2> QED BY <1>0, <1>2, <2>1, QuietStep DEF Holds, At, Is
<1> QED BY <1>1, <1>2 DEF AnswerResume

\* Only the holder of an unconfirmed run opens it again.
LEMMA AnswerReopenHold ==
  ASSUME HoldInv, TypeOK', NEW p \in Proc, AnswerReopen(p)
  PROVE  HoldInv'
<1> DEFINE d == proc[p].run
<1>0. /\ ProcOK /\ runs \in [Decision -> Row] /\ confirmed' = confirmed
      /\ Holds(p)
  BY Split DEF HoldInv, DataOK, AnswerReopen, Holds, At
<1>1. /\ d \in Decision /\ runs[d].status = "completed"
      /\ \A a \in confirmed : a[1] # d
      /\ \A t \in Proc : Holds(t) /\ proc[t].run = d => t = p
  BY <1>0, HoldFacts
<1>2. CASE SetStatus(d, "open") /\ Goto(p, "answer.delete")
  <2>1. /\ \A q \in Proc \ {p} : proc'[q] = proc[q]
        /\ proc'[p].at = "answer.delete" /\ proc'[p].run = d
    BY <1>0, <1>2, GotoMoves
  <2>2. \A e \in Decision :
          runs'[e].status = IF e = d THEN "open" ELSE runs[e].status
    BY <1>0, <1>1, <1>2, SetStatusOK DEF Status
  <2>3. FreshRun'
    <3> SUFFICES ASSUME NEW q \in Proc, proc'[q].at = "create.insert"
                 PROVE  /\ runs'[proc'[q].run].status = "none"
                        /\ \A t \in Proc : proc'[t].run = proc'[q].run => t = q
      BY DEF FreshRun, Is, At
    <3>1. q # p /\ proc'[q] = proc[q]
      BY <2>1
    <3>2. /\ runs[proc[q].run].status = "none" /\ proc[q].run \in Decision
          /\ \A t \in Proc : proc[t].run = proc[q].run => t = q
      BY <3>1, FreshFacts
    <3> QED BY <1>1, <2>1, <2>2, <3>1, <3>2
  <2>4. HeldAlone'
    <3>1. \A q \in Proc : Holds(q)' => Holds(q) /\ proc'[q] = proc[q] /\ q # p
      BY <2>1 DEF Holds
    <3>2. \A q \in Proc : Holds(q) /\ q # p => proc[q].run # d
      BY <1>1
    <3> QED BY <1>0, <2>2, <3>1, <3>2, HoldFacts DEF HeldAlone, Is
  <2>5. ConfirmedOnce'
    <3>1. \A a \in confirmed : a[1] \in Decision /\ runs[a[1]].status = "completed"
      BY DEF HoldInv, ConfirmedOnce, TypeOK, Is
    <3> QED BY <1>0, <1>1, <2>2, <3>1 DEF HoldInv, ConfirmedOnce, Is
  <2> QED BY <2>3, <2>4, <2>5 DEF HoldInv
<1>3. CASE runs' = runs /\ Done(p)
  <2>1. /\ \A q \in Proc \ {p} : proc'[q] = proc[q]
        /\ proc'[p].at = "idle" /\ proc'[p].run = None
    BY <1>0, <1>3, DoneMoves
  <2> QED BY <1>0, <1>3, <2>1, QuietStep DEF Holds, At, Is
<1> QED BY <1>2, <1>3 DEF AnswerReopen

\* HoldInv is inductive.
LEMMA HoldInvariant == Spec => []HoldInv
<1>1. Init => HoldInv
  <2> SUFFICES ASSUME Init PROVE HoldInv
    OBVIOUS
  <2>1. \A p \in Proc : proc[p].at = "idle"
    BY DEF Init, Idle
  <2>2. confirmed = {}
    BY DEF Init
  <2> QED BY <2>1, <2>2, TypeInit
        DEF HoldInv, FreshRun, HeldAlone, ConfirmedOnce, Holds, At
<1>2. HoldInv /\ [Next]_vars => HoldInv'
  <2> SUFFICES ASSUME HoldInv, [Next]_vars PROVE HoldInv'
    OBVIOUS
  <2>1. TypeOK'
    BY TypeStep DEF HoldInv
  <2>2. ASSUME NEW p \in Proc, Step(p) PROVE HoldInv'
    BY <2>1, <2>2, CreateInsertHold, SupersedeHold, SupersedeRecordHold,
       AnswerInsertHold, AnswerCompleteHold, AnswerDeleteHold,
       AnswerResumeHold, AnswerReopenHold, AppendUpdateHold DEF Step
  <2>3. CASE UNCHANGED vars
    BY <2>1, <2>3 DEF vars, HoldInv, FreshRun, HeldAlone, ConfirmedOnce, Holds, At, Is
  <2> QED BY <2>1, <2>2, <2>3, RequestHold, CrashHold DEF Next
<1> QED BY <1>1, <1>2, PTL DEF Spec
-----------------------------------------------------------------------------
\* The outcome of one decision follows from its row and its confirmation.
IsConfirmed(d) == \E c \in Choice : <<d, c>> \in confirmed

LEMMA OutcomeOf ==
  ASSUME NEW d \in Decision
  PROVE  Outcome[d] = IF runs[d].status = "none" THEN "unasked"
                      ELSE IF runs[d].status = "aborted" THEN "retired"
                      ELSE IF runs[d].status = "completed" /\ IsConfirmed(d)
                           THEN "answered" ELSE "asked"
BY DEF Outcome, Is, IsConfirmed

LEMMA OutcomeNext ==
  ASSUME NEW d \in Decision
  PROVE  Outcome'[d] = IF runs'[d].status = "none" THEN "unasked"
                       ELSE IF runs'[d].status = "aborted" THEN "retired"
                       ELSE IF runs'[d].status = "completed" /\ IsConfirmed(d)'
                            THEN "answered" ELSE "asked"
BY DEF Outcome, Is, IsConfirmed

\* A decision that is not completed is not confirmed.
LEMMA Unconfirmed ==
  ASSUME HoldInv, NEW d \in Decision
  PROVE  /\ runs[d].status # "completed" => ~IsConfirmed(d)
         /\ (\A a \in confirmed : a[1] # d) => ~IsConfirmed(d)
BY DEF HoldInv, ConfirmedOnce, IsConfirmed, Is

\* Steps that move no decision to its end: the promise stutters.
LEMMA SameOutcome ==
  ASSUME confirmed' = confirmed,
         \A d \in Decision :
           \/ runs'[d].status = runs[d].status
           \/ /\ ~IsConfirmed(d)
              /\ runs[d].status \in {"open", "running", "completed"}
              /\ runs'[d].status \in {"open", "running", "completed"}
  PROVE  Outcome' = Outcome /\ Accepted' = Accepted
<1>1. Accepted' = Accepted
  BY DEF Accepted
<1>2. \A d \in Decision : Outcome'[d] = Outcome[d]
  <2> TAKE d \in Decision
  <2>1. IsConfirmed(d)' <=> IsConfirmed(d)
    BY DEF IsConfirmed
  <2> QED BY <2>1, OutcomeOf, OutcomeNext
<1>3. Outcome' = Outcome
  <2>1. Outcome = [d \in Decision |-> Outcome[d]]
    BY DEF Outcome
  <2>2. Outcome' = [d \in Decision |-> Outcome'[d]]
    BY DEF Outcome
  <2> QED BY <1>2, <2>1, <2>2
<1> QED BY <1>1, <1>3

\* Steps that move one decision.
LEMMA OneOutcome ==
  ASSUME NEW d \in Decision,
         \A e \in Decision \ {d} : /\ runs'[e].status = runs[e].status
                                   /\ IsConfirmed(e)' <=> IsConfirmed(e)
  PROVE  Outcome' = [Outcome EXCEPT ![d] = Outcome'[d]]
<1>1. \A e \in Decision \ {d} : Outcome'[e] = Outcome[e]
  BY OutcomeOf, OutcomeNext
<1>2. Outcome = [e \in Decision |-> Outcome[e]]
  BY DEF Outcome
<1>3. Outcome' = [e \in Decision |-> Outcome'[e]]
  BY DEF Outcome
<1> QED BY <1>1, <1>2, <1>3

LEMMA StepKeepsPromise ==
  ASSUME HoldInv, NEW p \in Proc, Step(p)
  PROVE  Promise!Next \/ (Outcome' = Outcome /\ Accepted' = Accepted)
<1>0. /\ ProcOK /\ runs \in [Decision -> Row]
      /\ Working(p) => proc[p].run \in Decision
      /\ Answering(p) => proc[p].choice \in Choice
      /\ proc[p].todo \in SUBSET Decision
  BY Split, Fields DEF HoldInv, DataOK
<1>1. CASE CreateInsert(p)
  <2> DEFINE d == proc[p].run
  <2>1. d \in Decision /\ runs[d].status = "none" /\ confirmed' = confirmed
    BY <1>1, FreshFacts DEF CreateInsert, At
  <2>2. CASE runs' = runs
    BY <2>1, <2>2, SameOutcome
  <2>3. CASE runs' # runs
    <3>1. /\ runs'[d].status = "open"
          /\ \A e \in Decision \ {d} : runs'[e] = runs[e]
      BY <1>0, <1>1, <2>1, <2>3 DEF CreateInsert
    <3>2. \A e \in Decision : IsConfirmed(e)' <=> IsConfirmed(e)
      BY <2>1 DEF IsConfirmed
    <3>3. Outcome[d] = "unasked" /\ Outcome'[d] = "asked"
      BY <2>1, <3>1, OutcomeOf, OutcomeNext
    <3>4. Outcome' = [Outcome EXCEPT ![d] = "asked"]
      BY <2>1, <3>1, <3>2, <3>3, OneOutcome
    <3>5. Accepted' = Accepted
      BY <2>1 DEF Accepted
    <3> QED BY <2>1, <3>3, <3>4, <3>5 DEF Promise!Next, Promise!Ask
  <2> QED BY <2>2, <2>3
<1>2. CASE Supersede(p)
  <2>1. confirmed' = confirmed
    BY <1>2 DEF Supersede
  <2>2. ASSUME NEW e \in proc[p].todo, Retirable(e), SetStatus(e, "aborted")
        PROVE  Promise!Next
    <3>1. e \in Decision /\ runs[e].status = "open"
      BY <1>0, <2>2 DEF Retirable, Is
    <3>2. \A t \in Decision :
            runs'[t].status = IF t = e THEN "aborted" ELSE runs[t].status
      BY <1>0, <2>2, <3>1, SetStatusOK DEF Status
    <3>3. \A t \in Decision : IsConfirmed(t)' <=> IsConfirmed(t)
      BY <2>1 DEF IsConfirmed
    <3>4. Outcome[e] = "asked" /\ Outcome'[e] = "retired"
      BY <3>1, <3>2, OutcomeOf, OutcomeNext
    <3>5. Outcome' = [Outcome EXCEPT ![e] = "retired"]
      BY <3>1, <3>2, <3>3, <3>4, OneOutcome
    <3>6. Accepted' = Accepted
      BY <2>1 DEF Accepted
    <3> QED BY <3>1, <3>4, <3>5, <3>6 DEF Promise!Next, Promise!Retire
  <2>3. CASE runs' = runs
    BY <2>1, <2>3, SameOutcome
  <2> QED BY <1>2, <2>2, <2>3 DEF Supersede
<1>3. CASE AnswerComplete(p)
  <2> DEFINE d == proc[p].run
  <2>1. d \in Decision /\ confirmed' = confirmed
    BY <1>0, <1>3 DEF AnswerComplete, Working, At
  <2>2. CASE runs' = runs
    BY <2>1, <2>2, SameOutcome
  <2>3. CASE Completable(d) /\ SetStatus(d, "completed")
    <3>1. /\ runs[d].status = "open" /\ ~IsConfirmed(d)
          /\ \A e \in Decision :
               runs'[e].status = IF e = d THEN "completed" ELSE runs[e].status
      BY <1>0, <2>1, <2>3, SetStatusOK, Unconfirmed DEF Completable, Is, Status
    <3> QED BY <2>1, <3>1, SameOutcome
  <2> QED BY <1>3, <2>2, <2>3 DEF AnswerComplete
<1>4. CASE AnswerResume(p)
  <2> DEFINE d == proc[p].run  c == proc[p].choice
  <2>1. /\ d \in Decision /\ c \in Choice /\ runs' = runs
        /\ runs[d].status = "completed" /\ ~IsConfirmed(d)
    BY <1>0, <1>4, HoldFacts, Unconfirmed
       DEF AnswerResume, Holds, Answering, Working, At
  <2>2. CASE confirmed' = confirmed
    BY <2>1, <2>2, SameOutcome
  <2>3. ASSUME NEW e \in Decision, NEW b \in Choice, e = d, b = c,
               confirmed' = confirmed \cup {<<e, b>>}
        PROVE  Promise!Next
    <3>1. /\ \A a \in Choice : <<e, a>> \in confirmed' <=> a = b
          /\ \A t \in Decision \ {e}, a \in Choice :
                <<t, a>> \in confirmed' <=> <<t, a>> \in confirmed
      BY <2>1, <2>3 DEF IsConfirmed
    <3>2. /\ IsConfirmed(e)'
          /\ \A t \in Decision \ {e} : IsConfirmed(t)' <=> IsConfirmed(t)
      BY <3>1 DEF IsConfirmed
    <3>3. Outcome[e] = "asked" /\ Outcome'[e] = "answered"
      BY <2>1, <2>3, <3>2, OutcomeOf, OutcomeNext
    <3>4. Outcome' = [Outcome EXCEPT ![e] = "answered"]
      BY <2>1, <3>2, <3>3, OneOutcome
    <3>5. Accepted' = [Accepted EXCEPT ![e] = {b}]
      BY <3>1 DEF Accepted
    <3> QED BY <3>3, <3>4, <3>5 DEF Promise!Next, Promise!Accept
  <2> QED BY <1>4, <2>1, <2>2, <2>3 DEF AnswerResume
<1>5. CASE AnswerReopen(p)
  <2> DEFINE d == proc[p].run
  <2>1. /\ d \in Decision /\ confirmed' = confirmed
        /\ runs[d].status = "completed" /\ ~IsConfirmed(d)
    BY <1>5, HoldFacts, Unconfirmed DEF AnswerReopen, Holds, At
  <2>2. CASE runs' = runs
    BY <2>1, <2>2, SameOutcome
  <2>3. CASE SetStatus(d, "open")
    <3>1. \A e \in Decision :
            runs'[e].status = IF e = d THEN "open" ELSE runs[e].status
      BY <1>0, <2>1, <2>3, SetStatusOK DEF Status
    <3> QED BY <2>1, <3>1, SameOutcome
  <2> QED BY <1>5, <2>2, <2>3 DEF AnswerReopen
<1>6. CASE AppendUpdate(p)
  <2> DEFINE d == proc[p].run
  <2>1. d \in Decision /\ confirmed' = confirmed
    BY <1>0, <1>6 DEF AppendUpdate, Working, At
  <2>2. CASE runs' = runs
    BY <2>1, <2>2, SameOutcome
  <2>3. CASE Is(d, "open") /\ SetStatus(d, "running")
    <3>1. /\ runs[d].status = "open" /\ ~IsConfirmed(d)
          /\ \A e \in Decision :
               runs'[e].status = IF e = d THEN "running" ELSE runs[e].status
      BY <1>0, <2>1, <2>3, SetStatusOK, Unconfirmed DEF Is, Status
    <3> QED BY <2>1, <3>1, SameOutcome
  <2> QED BY <1>6, <2>2, <2>3 DEF AppendUpdate
<1>7. CASE SupersedeRecord(p) \/ AnswerInsert(p) \/ AnswerDelete(p)
  <2>1. runs' = runs /\ confirmed' = confirmed
    BY <1>7 DEF SupersedeRecord, AnswerInsert, AnswerDelete
  <2> QED BY <2>1, SameOutcome
<1> QED BY <1>1, <1>2, <1>3, <1>4, <1>5, <1>6, <1>7 DEF Step

\* Every behaviour of the code is one of the promise: a decision ends once,
\* answered with one choice or retired, whatever overlaps, fails or dies.
THEOREM PromiseKept == Spec => KeepsPromise
<1>1. Init => Promise!Init
  <2> SUFFICES ASSUME Init PROVE Promise!Init
    OBVIOUS
  <2>1. confirmed = {} /\ \A d \in Decision : runs[d].status = "none"
    BY DEF Init, NoRow
  <2>2. Outcome = [d \in Decision |-> "unasked"]
    BY <2>1 DEF Outcome, Is
  <2>3. Accepted = [d \in Decision |-> {}]
    BY <2>1 DEF Accepted
  <2> QED BY <2>2, <2>3 DEF Promise!Init
<1>2. HoldInv /\ [Next]_vars => [Promise!Next]_<<Outcome, Accepted>>
  <2> SUFFICES ASSUME HoldInv, [Next]_vars
               PROVE  Promise!Next \/ (Outcome' = Outcome /\ Accepted' = Accepted)
    OBVIOUS
  <2>1. ASSUME NEW p \in Proc, Request(p) \/ Crash(p)
        PROVE  Outcome' = Outcome /\ Accepted' = Accepted
    <3>1. runs' = runs /\ confirmed' = confirmed
      BY <2>1 DEF Request, BeginCreate, BeginAnswer, BeginAppend, Crash
    <3> QED BY <3>1, SameOutcome
  <2>2. CASE UNCHANGED vars
    <3>1. runs' = runs /\ confirmed' = confirmed
      BY <2>2 DEF vars
    <3> QED BY <3>1, SameOutcome
  <2> QED BY <2>1, <2>2, StepKeepsPromise DEF Next
<1> QED BY <1>1, <1>2, HoldInvariant, PTL DEF Spec, KeepsPromise, Promise!Spec
-----------------------------------------------------------------------------
(* The answers on record.  An event carries the number of the answer that    *)
(* wrote it, so an execution that takes events away takes only its own.      *)

Own(p) == [id |-> proc[p].event, run |-> proc[p].run, choice |-> proc[p].choice]
Recorded(p) == Answering(p) /\ ~At(p, "answer.insert")
Unowned(e) == \A p \in Proc : Answering(p) => proc[p].event # e.id

Ids ==
  /\ \A e \in events : e.id <= sent
  /\ \A p \in Proc : Answering(p) => proc[p].event <= sent
  /\ \A p, q \in Proc : Answering(p) /\ Answering(q) /\ proc[p].event = proc[q].event
       => p = q

OwnEvents ==
  /\ \A p \in Proc, e \in events : Answering(p) /\ e.id = proc[p].event => e = Own(p)
  /\ \A p \in Proc : Recorded(p) => Own(p) \in events

SafeOnRecord ==
  \A a \in confirmed : \E e \in events : e.run = a[1] /\ e.choice = a[2] /\ Unowned(e)

EventInv == Ids /\ OwnEvents /\ SafeOnRecord

\* Moving on changes where an execution stands and nothing else of it.
LEMMA GotoKeeps ==
  ASSUME ProcOK, NEW p \in Proc, NEW place, Goto(p, place)
  PROVE  /\ proc'[p].at = place
         /\ proc'[p].run = proc[p].run /\ proc'[p].event = proc[p].event
         /\ proc'[p].choice = proc[p].choice
         /\ proc'[p].todo = proc[p].todo /\ proc'[p].stale = proc[p].stale
BY DEF ProcOK, Goto, Execution

\* What an execution begins with.
LEMMA CreateBegins ==
  ASSUME ProcOK, NEW p \in Proc, NEW d, NEW o, BeginCreate(p, d, o)
  PROVE  /\ \A q \in Proc \ {p} : proc'[q] = proc[q]
         /\ proc'[p].at = "create.insert" /\ proc'[p].run = d /\ proc'[p].todo = Open
<1> DEFINE r == [Idle EXCEPT !.at = "create.insert", !.run = d, !.options = o, !.todo = Open]
<1>1. Begin(p, r)
  BY DEF BeginCreate
<1>2. r.at = "create.insert" /\ r.run = d /\ r.todo = Open
  BY DEF Idle
<1> HIDE DEF r
<1> QED BY <1>1, <1>2, BeginMoves

LEMMA AnswerBegins ==
  ASSUME ProcOK, NEW p \in Proc, NEW d, NEW c, BeginAnswer(p, d, c)
  PROVE  /\ \A q \in Proc \ {p} : proc'[q] = proc[q]
         /\ proc'[p].at = "answer.insert" /\ proc'[p].run = d
         /\ proc'[p].choice = c /\ proc'[p].event = sent + 1
<1> DEFINE r == [Idle EXCEPT !.at = "answer.insert", !.run = d, !.choice = c,
                             !.event = sent + 1]
<1>1. Begin(p, r)
  BY DEF BeginAnswer
<1>2. r.at = "answer.insert" /\ r.run = d /\ r.choice = c /\ r.event = sent + 1
  BY DEF Idle
<1> HIDE DEF r
<1> QED BY <1>1, <1>2, BeginMoves

LEMMA AppendBegins ==
  ASSUME ProcOK, NEW p \in Proc, NEW d, BeginAppend(p, d)
  PROVE  /\ \A q \in Proc \ {p} : proc'[q] = proc[q]
         /\ proc'[p].at = "append.update" /\ proc'[p].run = d
<1> DEFINE r == [Idle EXCEPT !.at = "append.update", !.run = d]
<1>1. Begin(p, r)
  BY DEF BeginAppend
<1>2. r.at = "append.update" /\ r.run = d
  BY DEF Idle
<1> HIDE DEF r
<1> QED BY <1>1, <1>2, BeginMoves

\* A step that writes no event and confirms nothing, by an execution that was
\* answering with the same event if it answers after it.
LEMMA EventQuiet ==
  ASSUME EventInv, NEW p \in Proc, \A q \in Proc \ {p} : proc'[q] = proc[q],
         events' = events, confirmed' = confirmed, sent' = sent,
         Answering(p)' => /\ Answering(p) /\ proc'[p].run = proc[p].run
                          /\ proc'[p].event = proc[p].event
                          /\ proc'[p].choice = proc[p].choice,
         Recorded(p)' => Recorded(p)
  PROVE  EventInv'
<1>1. \A q \in Proc : Answering(q)' =>
        /\ Answering(q) /\ proc'[q].event = proc[q].event /\ Own(q)' = Own(q)
  BY DEF Answering, Own
<1>2. \A q \in Proc : Recorded(q)' => Recorded(q)
  BY DEF Recorded, Answering, At
<1>3. Ids'
  BY <1>1 DEF EventInv, Ids
<1>4. OwnEvents'
  <2>1. \A q \in Proc, e \in events' : Answering(q)' /\ e.id = proc'[q].event => e = Own(q)'
    BY <1>1 DEF EventInv, OwnEvents
  <2>2. \A q \in Proc : Recorded(q)' => Own(q)' \in events'
    BY <1>1, <1>2 DEF EventInv, OwnEvents, Recorded
  <2> QED BY <2>1, <2>2 DEF OwnEvents
<1>5. SafeOnRecord'
  <2>1. \A e : Unowned(e) => Unowned(e)'
    BY <1>1 DEF Unowned
  <2> QED BY <2>1 DEF EventInv, SafeOnRecord
<1> QED BY <1>3, <1>4, <1>5 DEF EventInv

\* The steps of createDecision, of appendOwnedRunEvent and those of an answer
\* that leave the events alone.
LEMMA EventElsewhere ==
  ASSUME TypeOK, EventInv, NEW p \in Proc,
         \/ CreateInsert(p) \/ Supersede(p) \/ SupersedeRecord(p) \/ AppendUpdate(p)
         \/ AnswerComplete(p) \/ AnswerReopen(p) \/ Crash(p)
  PROVE  EventInv'
<1>0. ProcOK
  BY Split
<1>1. events' = events /\ confirmed' = confirmed /\ sent' = sent
  BY DEF CreateInsert, Supersede, SupersedeRecord, AppendUpdate, AnswerComplete,
         AnswerReopen, Crash
<1>2. ASSUME \A q \in Proc \ {p} : proc'[q] = proc[q],
             proc'[p].at \in {"idle", "create.supersede", "create.record"}
      PROVE  EventInv'
  BY <1>1, <1>2, EventQuiet DEF Answering, Recorded
<1>3. CASE CreateInsert(p) \/ SupersedeRecord(p) \/ AppendUpdate(p) \/ Crash(p)
  BY <1>0, <1>2, <1>3, LoopMoves, DoneMoves
     DEF CreateInsert, SupersedeRecord, AppendUpdate, Crash
<1>4. CASE Supersede(p)
  <2>1. ASSUME NEW e \in proc[p].todo,
               proc' = [proc EXCEPT ![p].at = "create.record",
                                    ![p].stale = e, ![p].todo = @ \ {e}]
        PROVE  /\ \A q \in Proc \ {p} : proc'[q] = proc[q]
               /\ proc'[p].at = "create.record"
    BY <1>0, <2>1 DEF ProcOK, Execution
  <2> QED BY <1>0, <1>2, <1>4, <2>1, LoopMoves, DoneMoves DEF Supersede
<1>5. CASE AnswerComplete(p) \/ AnswerReopen(p)
  <2>1. Recorded(p)
    BY <1>5 DEF AnswerComplete, AnswerReopen, Recorded, Answering, At
  <2>2. CASE Done(p)
    BY <1>0, <1>2, <2>2, DoneMoves
  <2>3. ASSUME NEW place, Goto(p, place) PROVE EventInv'
    BY <1>0, <1>1, <2>1, <2>3, GotoMoves, GotoKeeps, EventQuiet DEF Recorded
  <2> QED BY <1>5, <2>2, <2>3 DEF AnswerComplete, AnswerReopen
<1> QED BY <1>3, <1>4, <1>5

\* An answer begins with a number that nobody has used.
LEMMA EventBegins ==
  ASSUME TypeOK, EventInv, NEW p \in Proc, Request(p)
  PROVE  EventInv'
<1>0. ProcOK /\ sent \in Nat
  BY Split DEF TypeOK
<1>1. CASE \E d \in Decision : (\E o \in Options : BeginCreate(p, d, o)) \/ BeginAppend(p, d)
  <2>1. /\ \A q \in Proc \ {p} : proc'[q] = proc[q]
        /\ proc'[p].at \in {"create.insert", "append.update"}
    BY <1>0, <1>1, CreateBegins, AppendBegins
  <2> QED BY <1>1, <2>1, EventQuiet DEF BeginCreate, BeginAppend, Answering, Recorded
<1>2. ASSUME NEW d \in Decision, NEW c \in Choice, BeginAnswer(p, d, c)
      PROVE  EventInv'
  <2>1. /\ \A q \in Proc \ {p} : proc'[q] = proc[q]
        /\ proc'[p].at = "answer.insert" /\ proc'[p].event = sent + 1
        /\ proc[p].at = "idle"
        /\ events' = events /\ confirmed' = confirmed /\ sent' = sent + 1
    BY <1>0, <1>2, AnswerBegins DEF BeginAnswer, Begin, At
  <2>2. \A e \in events : e.id \in Nat
    BY DEF TypeOK, Event
  <2>3. \A q \in Proc : Answering(q) => proc[q].event \in Nat /\ proc[q].event <= sent
    BY <1>0, Fields DEF EventInv, Ids
  <2>4. \A q \in Proc \ {p} : /\ Answering(q)' <=> Answering(q)
                              /\ Recorded(q)' <=> Recorded(q) /\ Own(q)' = Own(q)
    BY <2>1 DEF Answering, Recorded, Own, At
  <2>5. Ids'
    BY <1>0, <2>1, <2>2, <2>3, <2>4 DEF EventInv, Ids
  <2>6. OwnEvents'
    <3>1. \A e \in events : e.id # proc'[p].event
      BY <1>0, <2>1, <2>2 DEF EventInv, Ids
    <3>2. ~Recorded(p)'
      BY <2>1 DEF Recorded, At
    <3>3. ASSUME NEW q \in Proc, NEW e \in events', Answering(q)', e.id = proc'[q].event
          PROVE  e = Own(q)'
      <4>1. e \in events /\ q # p
        BY <2>1, <3>1, <3>3
      <4>2. Answering(q) /\ proc'[q].event = proc[q].event /\ Own(q)' = Own(q)
        BY <2>1, <3>3, <4>1 DEF Answering, Own
      <4> QED BY <3>3, <4>1, <4>2 DEF EventInv, OwnEvents
    <3>4. ASSUME NEW q \in Proc, Recorded(q)' PROVE Own(q)' \in events'
      BY <2>1, <2>4, <3>2, <3>4 DEF EventInv, OwnEvents
    <3> QED BY <3>3, <3>4 DEF OwnEvents
  <2>7. SafeOnRecord'
    <3>1. \A e \in events : Unowned(e) => Unowned(e)'
      BY <1>0, <2>1, <2>2, <2>4 DEF EventInv, Ids, Unowned
    <3> QED BY <2>1, <3>1 DEF EventInv, SafeOnRecord
  <2> QED BY <2>5, <2>6, <2>7 DEF EventInv
<1> QED BY <1>1, <1>2 DEF Request

LEMMA EventInserted ==
  ASSUME TypeOK, EventInv, NEW p \in Proc, AnswerInsert(p)
  PROVE  EventInv'
<1>0. ProcOK /\ Answering(p) /\ ~Recorded(p) /\ confirmed' = confirmed /\ sent' = sent
  BY Split DEF AnswerInsert, Answering, Recorded, At
<1>1. CASE UNCHANGED events /\ Done(p)
  <2>1. /\ \A q \in Proc \ {p} : proc'[q] = proc[q]
        /\ proc'[p].at = "idle"
    BY <1>0, <1>1, DoneMoves
  <2> QED BY <1>0, <1>1, <2>1, EventQuiet DEF Answering, Recorded
<1>2. CASE events' = events \cup {Own(p)} /\ Goto(p, "answer.complete")
  <2>1. /\ \A q \in Proc \ {p} : proc'[q] = proc[q]
        /\ proc'[p].event = proc[p].event /\ Own(p)' = Own(p)
        /\ proc'[p].at = "answer.complete"
    BY <1>0, <1>2, GotoMoves, GotoKeeps DEF Own
  <2>2. \A q \in Proc : /\ Answering(q)' <=> Answering(q)
                        /\ proc'[q].event = proc[q].event /\ Own(q)' = Own(q)
                        /\ q # p => (Recorded(q)' <=> Recorded(q))
    BY <1>0, <2>1 DEF Answering, Recorded, Own, At
  <2>3. Own(p).id = proc[p].event
    BY DEF Own
  <2>4. Ids'
    BY <1>0, <1>2, <2>2, <2>3 DEF EventInv, Ids
  <2>5. OwnEvents'
    <3>1. ASSUME NEW q \in Proc, NEW e \in events', Answering(q)', e.id = proc'[q].event
          PROVE  e = Own(q)'
      <4>1. CASE e \in events
        BY <2>2, <3>1, <4>1 DEF EventInv, OwnEvents
      <4>2. CASE e = Own(p)
        <5>1. q = p
          BY <1>0, <2>2, <2>3, <3>1, <4>2 DEF EventInv, Ids
        <5> QED BY <2>1, <4>2, <5>1
      <4> QED BY <1>2, <4>1, <4>2
    <3>2. ASSUME NEW q \in Proc, Recorded(q)' PROVE Own(q)' \in events'
      BY <1>2, <2>1, <2>2, <3>2 DEF EventInv, OwnEvents
    <3> QED BY <3>1, <3>2 DEF OwnEvents
  <2>6. SafeOnRecord'
    <3>1. \A e : Unowned(e) => Unowned(e)'
      BY <2>2 DEF Unowned
    <3> QED BY <1>0, <1>2, <3>1 DEF EventInv, SafeOnRecord
  <2> QED BY <2>4, <2>5, <2>6 DEF EventInv
<1> QED BY <1>1, <1>2 DEF AnswerInsert, Own

\* Only the event of p itself is taken away.
LEMMA OthersStay ==
  ASSUME TypeOK, EventInv, NEW p \in Proc, Answering(p)
  PROVE  OtherEvents(p) = {e \in events : e.id # proc[p].event}
<1>1. \A e \in events : e.id = proc[p].event => e.run = proc[p].run
  BY DEF EventInv, OwnEvents, Own
<1> QED BY <1>1 DEF OtherEvents

LEMMA EventDeleted ==
  ASSUME TypeOK, EventInv, NEW p \in Proc, AnswerDelete(p)
  PROVE  EventInv'
<1>0. Answering(p) /\ confirmed' = confirmed /\ sent' = sent
  BY DEF AnswerDelete, Answering, At
<1>1. /\ \A q \in Proc \ {p} : proc'[q] = proc[q]
      /\ proc'[p].at = "idle"
  BY Split, DoneMoves DEF AnswerDelete
<1>2. CASE UNCHANGED events
  BY <1>0, <1>1, <1>2, EventQuiet DEF Answering, Recorded
<1>3. CASE events' = OtherEvents(p)
  <2>1. events' = {e \in events : e.id # proc[p].event}
    BY <1>0, <1>3, OthersStay
  <2>2. \A q \in Proc : Answering(q)' =>
          q # p /\ Answering(q) /\ proc'[q].event = proc[q].event /\ Own(q)' = Own(q)
    BY <1>1 DEF Answering, Own
  <2>3. \A q \in Proc : Recorded(q)' => Recorded(q) /\ Answering(q)'
    BY <1>1, <2>2 DEF Recorded, At
  <2>4. Ids'
    BY <1>0, <2>1, <2>2 DEF EventInv, Ids
  <2>5. OwnEvents'
    <3>1. ASSUME NEW q \in Proc, Recorded(q)' PROVE Own(q)' \in events'
      <4>1. Own(q) \in events /\ Own(q).id = proc[q].event
        BY <2>3, <3>1 DEF EventInv, OwnEvents, Own
      <4>2. proc[q].event # proc[p].event
        BY <1>0, <2>2, <2>3, <3>1 DEF EventInv, Ids
      <4> QED BY <2>1, <2>2, <2>3, <3>1, <4>1, <4>2
    <3> QED BY <2>1, <2>2, <3>1 DEF EventInv, OwnEvents
  <2>6. SafeOnRecord'
    <3>1. \A e : Unowned(e) => Unowned(e)'
      BY <2>2 DEF Unowned
    <3>2. \A e \in events : Unowned(e) => e \in events'
      BY <1>0, <2>1 DEF Unowned
    <3> QED BY <1>0, <3>1, <3>2 DEF EventInv, SafeOnRecord
  <2> QED BY <2>4, <2>5, <2>6 DEF EventInv
<1> QED BY <1>2, <1>3 DEF AnswerDelete

\* The owner is told so only while the event of the answer is there.
LEMMA EventConfirmed ==
  ASSUME TypeOK, EventInv, NEW p \in Proc, AnswerResume(p)
  PROVE  EventInv'
<1>0. /\ Answering(p) /\ Recorded(p) /\ ProcOK
      /\ events' = events /\ sent' = sent
  BY Split DEF AnswerResume, Answering, Recorded, At
<1>1. CASE UNCHANGED confirmed /\ Goto(p, "answer.reopen")
  BY <1>0, <1>1, GotoMoves, GotoKeeps, EventQuiet
<1>2. CASE confirmed' = confirmed \cup {<<proc[p].run, proc[p].choice>>} /\ Done(p)
  <2>1. /\ \A q \in Proc \ {p} : proc'[q] = proc[q]
        /\ proc'[p].at = "idle"
    BY <1>0, <1>2, DoneMoves
  <2>2. \A q \in Proc : Answering(q)' =>
          q # p /\ Answering(q) /\ proc'[q].event = proc[q].event /\ Own(q)' = Own(q)
    BY <2>1 DEF Answering, Own
  <2>3. \A q \in Proc : Recorded(q)' => Recorded(q) /\ Answering(q)'
    BY <2>1, <2>2 DEF Recorded, At
  <2>4. Ids'
    BY <1>0, <2>2 DEF EventInv, Ids
  <2>5. OwnEvents'
    BY <1>0, <2>2, <2>3 DEF EventInv, OwnEvents
  <2>6. \A e : Unowned(e) => Unowned(e)'
    BY <2>2 DEF Unowned
  <2>7. PICK own \in events' : own = Own(p) /\ Unowned(own)'
    <3>1. Own(p) \in events /\ Own(p).id = proc[p].event
      BY <1>0 DEF EventInv, OwnEvents, Own
    <3>2. \A q \in Proc : Answering(q)' => proc'[q].event # proc[p].event
      BY <1>0, <2>2 DEF EventInv, Ids
    <3> QED BY <1>0, <3>1, <3>2 DEF Unowned
  <2>8. SafeOnRecord'
    <3> SUFFICES ASSUME NEW a \in confirmed'
                 PROVE  \E e \in events' : e.run = a[1] /\ e.choice = a[2] /\ Unowned(e)'
      BY DEF SafeOnRecord
    <3>1. CASE a \in confirmed
      BY <1>0, <2>6, <3>1 DEF EventInv, SafeOnRecord
    <3>2. CASE a = <<proc[p].run, proc[p].choice>>
      <4>1. own.run = a[1] /\ own.choice = a[2]
        BY <2>7, <3>2 DEF Own
      <4> QED BY <2>7, <4>1
    <3> QED BY <1>2, <3>1, <3>2
  <2> QED BY <2>4, <2>5, <2>8 DEF EventInv
<1> QED BY <1>1, <1>2 DEF AnswerResume

LEMMA EventStep == TypeOK /\ EventInv /\ [Next]_vars => EventInv'
<1> SUFFICES ASSUME TypeOK, EventInv, [Next]_vars PROVE EventInv'
  OBVIOUS
<1>1. ASSUME NEW p \in Proc, Step(p) PROVE EventInv'
  BY <1>1, EventElsewhere, EventInserted, EventDeleted, EventConfirmed DEF Step
<1>2. CASE UNCHANGED vars
  BY <1>2 DEF vars, EventInv, Ids, OwnEvents, SafeOnRecord, Answering, Recorded, At,
              Own, Unowned
<1> QED BY <1>1, <1>2, EventBegins, EventElsewhere DEF Next

LEMMA EventInvariant == Spec => []EventInv
<1>1. Init => EventInv
  <2> SUFFICES ASSUME Init PROVE EventInv
    OBVIOUS
  <2>1. events = {} /\ confirmed = {} /\ \A p \in Proc : ~Answering(p)
    BY DEF Init, Idle, Answering
  <2> QED BY <2>1 DEF EventInv, Ids, OwnEvents, SafeOnRecord, Recorded
<1> QED BY <1>1, EventStep, TypeCorrect, PTL DEF Spec

\* The answer the owner was told is recorded stays among the run's events,
\* whatever refused, failed or rolled-back answers clean up.
THEOREM ConfirmedOnRecordHolds == Spec => []ConfirmedOnRecord
<1>1. EventInv => ConfirmedOnRecord
  BY DEF EventInv, SafeOnRecord, ConfirmedOnRecord
<1> QED BY <1>1, EventInvariant, PTL
-----------------------------------------------------------------------------
(* The redirects.  A new row is numbered above every row there is.           *)

Existing == {d \in Decision : ~Is(d, "none")}
Older(e, d) == ~Is(e, "none") /\ ~Is(d, "none") /\ runs[e].made < runs[d].made

Numbered == \A d \in Existing : runs[d].made <= Cardinality(Existing)

\* Older after the step, of decisions named before it.
OlderNext(e, d) ==
  runs'[e].status # "none" /\ runs'[d].status # "none" /\ runs'[e].made < runs'[d].made

\* What an execution that retires decisions knows of them.
Retires(p) ==
  /\ At(p, "create.insert") => proc[p].todo \subseteq Existing
  /\ proc[p].at \in {"create.supersede", "create.record"} =>
       proc[p].run \in Existing /\ \A e \in proc[p].todo : Older(e, proc[p].run)
  /\ At(p, "create.record") =>
       proc[p].stale \in Decision /\ Older(proc[p].stale, proc[p].run)

Forward == \A d \in Decision : link[d] # None => Older(d, link[d])

LinkInv == Numbered /\ (\A p \in Proc : Retires(p)) /\ Forward

\* A row once written keeps its number, and stays written.
RowsKept ==
  \A d \in Decision : ~Is(d, "none") => ~Is(d, "none")' /\ runs'[d].made = runs[d].made

LEMMA OlderKept ==
  ASSUME RowsKept, NEW e \in Decision, NEW d \in Decision, Older(e, d)
  PROVE  OlderNext(e, d)
BY DEF RowsKept, Older, OlderNext, Is

LEMMA RetiresKept ==
  ASSUME TypeOK, RowsKept, NEW q \in Proc, Retires(q), proc'[q] = proc[q]
  PROVE  Retires(q)'
<1>0. proc[q].todo \in SUBSET Decision
  BY Split, Fields
<1>1. Existing \subseteq Existing'
  BY DEF RowsKept, Existing, Is
<1>2. At(q, "create.insert")' => proc'[q].todo \subseteq Existing'
  BY <1>1 DEF Retires, At
<1>3. ASSUME proc'[q].at \in {"create.supersede", "create.record"}
      PROVE  proc'[q].run \in Existing' /\ \A e \in proc'[q].todo : OlderNext(e, proc'[q].run)
  <2>1. proc[q].run \in Existing /\ \A e \in proc[q].todo : Older(e, proc[q].run)
    BY <1>3 DEF Retires
  <2>2. proc[q].run \in Decision
    BY <2>1 DEF Existing
  <2>3. \A e \in proc[q].todo : OlderNext(e, proc[q].run)
    BY <1>0, <2>1, <2>2, OlderKept
  <2> QED BY <1>1, <2>1, <2>3 DEF Older, OlderNext, Is
<1>4. ASSUME At(q, "create.record")'
      PROVE  proc'[q].stale \in Decision /\ OlderNext(proc'[q].stale, proc'[q].run)
  <2>1. /\ proc[q].stale \in Decision /\ Older(proc[q].stale, proc[q].run)
        /\ proc[q].run \in Decision
    BY <1>4 DEF Retires, At, Existing
  <2> QED BY <2>1, OlderKept
<1> QED BY <1>2, <1>3, <1>4 DEF Retires, Older, OlderNext, Is, At

\* A step that makes no row and no redirect keeps LinkInv, if what p knows
\* afterwards of the decisions it retires is right.
LEMMA LinkQuiet ==
  ASSUME TypeOK, LinkInv, RowsKept, link' = link, Existing' = Existing,
         NEW p \in Proc, \A q \in Proc \ {p} : proc'[q] = proc[q], Retires(p)'
  PROVE  LinkInv'
<1>1. Numbered'
  BY DEF LinkInv, Numbered, RowsKept, Existing
<1>2. \A q \in Proc : Retires(q)'
  BY RetiresKept DEF LinkInv
<1>3. Forward'
  <2> SUFFICES ASSUME NEW d \in Decision, link[d] # None PROVE OlderNext(d, link[d])
    BY DEF Forward, Older, OlderNext, Is
  <2>1. Older(d, link[d]) /\ link[d] \in Decision
    BY DEF LinkInv, Forward, TypeOK
  <2> QED BY <2>1, OlderKept
<1> QED BY <1>1, <1>2, <1>3 DEF LinkInv

\* A status that moves between two ends other than "none" keeps the rows.
LEMMA StatusKept ==
  ASSUME TypeOK,
         \/ runs' = runs
         \/ \E d \in Decision, st \in Status \ {"none"} : ~Is(d, "none") /\ SetStatus(d, st)
  PROVE  RowsKept /\ Existing' = Existing
<1>1. CASE runs' = runs
  BY <1>1 DEF RowsKept, Existing, Is
<1>2. ASSUME NEW d \in Decision, NEW st \in Status \ {"none"}, ~Is(d, "none"),
             SetStatus(d, st)
      PROVE  RowsKept /\ Existing' = Existing
  <2>1. runs \in [Decision -> Row]
    BY DEF TypeOK
  <2>2. \A e \in Decision : runs'[e].status = IF e = d THEN st ELSE runs[e].status
    BY <1>2, <2>1, SetStatusOK
  <2>3. \A e \in Decision : runs'[e].made = runs[e].made
    BY <1>2, <2>1 DEF SetStatus, Row
  <2> QED BY <1>2, <2>2, <2>3 DEF RowsKept, Existing, Is
<1> QED BY <1>1, <1>2

\* What an execution knows that has left the loop, or goes on with fewer.
LEMMA LoopRetires ==
  ASSUME TypeOK, NEW p \in Proc, NEW todo \in SUBSET Decision, Loop(p, todo),
         proc[p].run \in Existing', \A e \in todo : OlderNext(e, proc[p].run)
  PROVE  (\A q \in Proc \ {p} : proc'[q] = proc[q]) /\ Retires(p)'
<1>0. proc \in [Proc -> Execution] /\ proc[p] \in Execution
  BY DEF TypeOK
<1>1. CASE todo = {}
  <2>1. (\A q \in Proc \ {p} : proc'[q] = proc[q]) /\ proc'[p].at = "idle"
    BY <1>1, Split, DoneMoves DEF Loop
  <2> QED BY <2>1 DEF Retires, At
<1>2. CASE todo # {}
  <2>1. /\ \A q \in Proc \ {p} : proc'[q] = proc[q]
        /\ proc'[p].at = "create.supersede" /\ proc'[p].run = proc[p].run
        /\ proc'[p].todo = todo
    BY <1>0, <1>2 DEF Loop, Execution
  <2> QED BY <2>1 DEF Retires, At, Older, OlderNext, Is
<1> QED BY <1>1, <1>2

LEMMA LinkElsewhere ==
  ASSUME TypeOK, LinkInv, NEW p \in Proc,
         \/ Request(p) \/ AnswerInsert(p) \/ AnswerComplete(p) \/ AnswerDelete(p)
         \/ AnswerResume(p) \/ AnswerReopen(p) \/ AppendUpdate(p) \/ Crash(p)
  PROVE  LinkInv'
<1>0. ProcOK
  BY Split
<1>1. link' = link
  BY DEF Request, BeginCreate, BeginAnswer, BeginAppend, AnswerInsert, AnswerComplete,
         AnswerDelete, AnswerResume, AnswerReopen, AppendUpdate, Crash
<1>2. RowsKept /\ Existing' = Existing
  <2>1. CASE AnswerComplete(p) \/ AnswerReopen(p) \/ AppendUpdate(p)
    <3>1. proc[p].run \in Decision
      BY <1>0, <2>1, Fields DEF AnswerComplete, AnswerReopen, AppendUpdate, Working, At
    <3>2. "completed" \in Status /\ "open" \in Status /\ "running" \in Status
      BY DEF Status
    <3>3. ASSUME NEW st \in {"completed", "open", "running"}, ~Is(proc[p].run, "none"),
                 SetStatus(proc[p].run, st)
          PROVE  RowsKept /\ Existing' = Existing
      BY <3>1, <3>2, <3>3, StatusKept
    <3>4. CASE runs' = runs
      BY <3>4, StatusKept
    <3> QED BY <2>1, <3>3, <3>4
            DEF AnswerComplete, AnswerReopen, AppendUpdate, Completable, Is
  <2>2. CASE Request(p) \/ AnswerInsert(p) \/ AnswerDelete(p) \/ AnswerResume(p) \/ Crash(p)
    <3>1. runs' = runs
      BY <2>2 DEF Request, BeginCreate, BeginAnswer, BeginAppend, AnswerInsert,
                  AnswerDelete, AnswerResume, Crash
    <3> QED BY <3>1, StatusKept
  <2> QED BY <2>1, <2>2
<1>3. ASSUME \A q \in Proc \ {p} : proc'[q] = proc[q],
             proc'[p].at \notin {"create.insert", "create.supersede", "create.record"}
      PROVE  LinkInv'
  BY <1>1, <1>2, <1>3, LinkQuiet DEF Retires, At
<1>4. CASE Request(p)
  <2>1. ASSUME NEW d \in Decision, NEW o \in Options, BeginCreate(p, d, o)
        PROVE  LinkInv'
    <3>1. /\ \A q \in Proc \ {p} : proc'[q] = proc[q]
          /\ proc'[p].at = "create.insert" /\ proc'[p].todo = Open
      BY <1>0, <2>1, CreateBegins
    <3>2. Open \subseteq Existing'
      BY <1>2 DEF Open, Existing, Is
    <3> QED BY <1>1, <1>2, <3>1, <3>2, LinkQuiet DEF Retires, At
  <2> QED BY <1>0, <1>3, <1>4, <2>1, AnswerBegins, AppendBegins DEF Request
<1>5. CASE AnswerInsert(p) \/ AnswerComplete(p) \/ AnswerDelete(p) \/ AnswerResume(p)
           \/ AnswerReopen(p) \/ AppendUpdate(p) \/ Crash(p)
  <2>1. \/ Done(p)
        \/ \E place \in {"answer.complete", "answer.resume", "answer.delete",
                         "answer.reopen"} : Goto(p, place)
    BY <1>5 DEF AnswerInsert, AnswerComplete, AnswerDelete, AnswerResume,
                AnswerReopen, AppendUpdate, Crash
  <2> QED BY <1>0, <1>3, <2>1, DoneMoves, GotoMoves
<1> QED BY <1>4, <1>5

\* The new row is numbered above the others, those its maker retires included.
LEMMA LinkInsert ==
  ASSUME HoldInv, LinkInv, NEW p \in Proc, CreateInsert(p)
  PROVE  LinkInv'
<1>0. TypeOK /\ ProcOK /\ link' = link
  BY Split DEF HoldInv, CreateInsert
<1>1. CASE UNCHANGED runs /\ Done(p)
  <2>1. RowsKept /\ Existing' = Existing
    BY <1>0, <1>1, StatusKept
  <2>2. (\A q \in Proc \ {p} : proc'[q] = proc[q]) /\ proc'[p].at = "idle"
    BY <1>0, <1>1, DoneMoves
  <2> QED BY <1>0, <2>1, <2>2, LinkQuiet DEF Retires, At
<1> DEFINE d == proc[p].run
           count == Cardinality(Existing)
<1>2. CASE /\ runs' = [runs EXCEPT ![d] = [status |-> "open", options |-> proc[p].options,
                                           made |-> 1 + count]]
           /\ Loop(p, Stale(p))
  <2>1. d \in Decision /\ runs[d].status = "none" /\ d \notin Existing
    BY FreshFacts DEF CreateInsert, At, Existing, Is
  <2>2. /\ runs'[d].status = "open" /\ runs'[d].made = 1 + count
        /\ \A e \in Decision : e # d => runs'[e] = runs[e]
    BY <1>0, <1>2, <2>1 DEF TypeOK
  <2>3. Existing' = Existing \cup {d}
    BY <2>1, <2>2 DEF Existing, Is
  <2>4. IsFiniteSet(Existing) /\ count \in Nat
    <3>1. Existing \in SUBSET Decision
      BY DEF Existing
    <3> QED BY <3>1, DecisionAssumption, FS_Subset, FS_CardinalityType
  <2>5. Cardinality(Existing') = count + 1
    BY <2>1, <2>3, <2>4, FS_AddElement
  <2>6. \A e \in Existing : runs[e].made \in Nat /\ runs[e].made <= count
    BY <1>0 DEF LinkInv, Numbered, Existing, TypeOK, Row
  <2>7. RowsKept
    BY <2>1, <2>2 DEF RowsKept, Existing, Is
  <2>8. Numbered'
    <3> SUFFICES ASSUME NEW e \in Existing'
                 PROVE  runs'[e].made <= Cardinality(Existing')
      BY DEF Numbered
    <3>1. CASE e = d
      BY <2>2, <2>4, <2>5, <3>1
    <3>2. CASE e # d
      <4>1. e \in Existing /\ e \in Decision
        BY <2>3, <3>2 DEF Existing
      <4> QED BY <2>2, <2>4, <2>5, <2>6, <3>2, <4>1
    <3> QED BY <3>1, <3>2
  <2>9. (\A q \in Proc \ {p} : proc'[q] = proc[q]) /\ Retires(p)'
    <3>1. proc[p].todo \in SUBSET Decision /\ proc[p].todo \subseteq Existing
      BY <1>0, Fields DEF LinkInv, Retires, CreateInsert, At
    <3>2. d \in Existing'
      BY <2>3
    <3>3. \A e \in proc[p].todo : OlderNext(e, d)
      <4> TAKE e \in proc[p].todo
      <4>1. e \in Existing /\ e \in Decision /\ e # d
        BY <2>1, <3>1
      <4>2. runs'[e].made < runs'[d].made
        BY <2>2, <2>4, <2>6, <4>1
      <4> QED BY <2>2, <4>1, <4>2 DEF Older, OlderNext, Existing, Is
    <3> QED BY <1>0, <1>2, <3>1, <3>2, <3>3, LoopRetires DEF Stale
  <2>10. \A q \in Proc : Retires(q)'
    BY <1>0, <2>7, <2>9, RetiresKept DEF LinkInv
  <2>11. Forward'
    <3> SUFFICES ASSUME NEW e \in Decision, link[e] # None PROVE OlderNext(e, link[e])
      BY <1>0 DEF Forward, Older, OlderNext, Is
    <3>1. Older(e, link[e]) /\ link[e] \in Decision
      BY <1>0 DEF LinkInv, Forward, TypeOK
    <3> QED BY <2>7, <3>1, OlderKept
  <2> QED BY <2>8, <2>10, <2>11 DEF LinkInv
<1> QED BY <1>1, <1>2 DEF CreateInsert, Existing

LEMMA LinkSupersede ==
  ASSUME TypeOK, LinkInv, NEW p \in Proc, Supersede(p)
  PROVE  LinkInv'
<1>0. /\ ProcOK /\ link' = link /\ proc \in [Proc -> Execution] /\ proc[p] \in Execution
      /\ proc[p].todo \in SUBSET Decision
      /\ proc[p].run \in Existing /\ \A e \in proc[p].todo : Older(e, proc[p].run)
  BY Split, Fields DEF TypeOK, Supersede, LinkInv, Retires, At
<1>1. CASE UNCHANGED runs /\ Done(p)
  <2>1. RowsKept /\ Existing' = Existing
    BY <1>1, StatusKept
  <2>2. (\A q \in Proc \ {p} : proc'[q] = proc[q]) /\ proc'[p].at = "idle"
    BY <1>0, <1>1, DoneMoves
  <2> QED BY <1>0, <2>1, <2>2, LinkQuiet DEF Retires, At
<1>2. ASSUME NEW e \in proc[p].todo, Loop(p, proc[p].todo \ {e}), UNCHANGED runs
      PROVE  LinkInv'
  <2>1. RowsKept /\ Existing' = Existing
    BY <1>2, StatusKept
  <2>2. /\ proc[p].run \in Existing' /\ proc[p].todo \ {e} \in SUBSET Decision
        /\ \A f \in proc[p].todo \ {e} : OlderNext(f, proc[p].run)
    BY <1>0, <1>2, <2>1 DEF Older, OlderNext, Is
  <2>3. (\A q \in Proc \ {p} : proc'[q] = proc[q]) /\ Retires(p)'
    BY <1>2, <2>2, LoopRetires
  <2> QED BY <1>0, <2>1, <2>3, LinkQuiet
<1>3. ASSUME NEW e \in proc[p].todo, Retirable(e), SetStatus(e, "aborted"),
             proc' = [proc EXCEPT ![p].at = "create.record",
                                  ![p].stale = e, ![p].todo = @ \ {e}]
      PROVE  LinkInv'
  <2>1. /\ \A q \in Proc \ {p} : proc'[q] = proc[q]
        /\ proc'[p].at = "create.record" /\ proc'[p].run = proc[p].run
        /\ proc'[p].stale = e /\ proc'[p].todo = proc[p].todo \ {e}
    BY <1>0, <1>3 DEF Execution
  <2>2. RowsKept /\ Existing' = Existing
    <3>1. e \in Decision /\ ~Is(e, "none") /\ "aborted" \in Status \ {"none"}
      BY <1>0, <1>3 DEF Retirable, Is, Status
    <3> QED BY <1>3, <3>1, StatusKept
  <2>3. proc[p].run \in Decision /\ \A f \in proc[p].todo : OlderNext(f, proc[p].run)
    BY <1>0, <2>2, OlderKept DEF Existing
  <2>4. Retires(p)'
    BY <1>0, <1>3, <2>1, <2>2, <2>3 DEF Retires, At, Older, OlderNext, Is
  <2> QED BY <1>0, <2>1, <2>2, <2>4, LinkQuiet
<1> QED BY <1>1, <1>2, <1>3 DEF Supersede

LEMMA LinkRecord ==
  ASSUME TypeOK, LinkInv, NEW p \in Proc, SupersedeRecord(p)
  PROVE  LinkInv'
<1>0. /\ ProcOK /\ runs' = runs
      /\ proc[p].todo \in SUBSET Decision
      /\ proc[p].run \in Existing /\ \A e \in proc[p].todo : Older(e, proc[p].run)
      /\ proc[p].stale \in Decision /\ Older(proc[p].stale, proc[p].run)
  BY Split, Fields DEF SupersedeRecord, LinkInv, Retires, At
<1>1. RowsKept /\ Existing' = Existing
  BY <1>0, StatusKept
<1>2. CASE UNCHANGED link /\ Done(p)
  <2>1. (\A q \in Proc \ {p} : proc'[q] = proc[q]) /\ proc'[p].at = "idle"
    BY <1>0, <1>2, DoneMoves
  <2> QED BY <1>1, <1>2, <2>1, LinkQuiet DEF Retires, At
<1>3. CASE link' = [link EXCEPT ![proc[p].stale] = proc[p].run] /\ Loop(p, proc[p].todo)
  <2>1. Numbered'
    BY <1>1 DEF LinkInv, Numbered, RowsKept, Existing
  <2>2. \A q \in Proc : Retires(q)'
    <3>1. /\ proc[p].run \in Existing' /\ proc[p].run \in Decision
          /\ \A e \in proc[p].todo : OlderNext(e, proc[p].run)
      BY <1>0, <1>1, OlderKept DEF Existing
    <3>2. (\A q \in Proc \ {p} : proc'[q] = proc[q]) /\ Retires(p)'
      BY <1>0, <1>3, <3>1, LoopRetires
    <3> QED BY <1>1, <3>2, RetiresKept DEF LinkInv
  <2>3. Forward'
    <3> SUFFICES ASSUME NEW d \in Decision, link'[d] # None PROVE OlderNext(d, link'[d])
      BY DEF Forward, Older, OlderNext, Is
    <3>1. CASE d = proc[p].stale
      <4>1. link'[d] = proc[p].run
        BY <1>3, <3>1 DEF TypeOK
      <4> QED BY <1>0, <3>1, <4>1 DEF Older, OlderNext, Is
    <3>2. CASE d # proc[p].stale
      <4>1. link'[d] = link[d]
        BY <1>3, <3>2 DEF TypeOK
      <4>2. Older(d, link[d])
        BY <4>1 DEF LinkInv, Forward
      <4> QED BY <1>0, <4>1, <4>2 DEF Older, OlderNext, Is
    <3> QED BY <3>1, <3>2
  <2> QED BY <2>1, <2>2, <2>3 DEF LinkInv
<1> QED BY <1>2, <1>3 DEF SupersedeRecord

LEMMA LinkInvariant == Spec => []LinkInv
<1>1. Init => LinkInv
  <2> SUFFICES ASSUME Init PROVE LinkInv
    OBVIOUS
  <2>1. /\ \A p \in Proc : proc[p].at = "idle"
        /\ \A d \in Decision : runs[d].status = "none" /\ link[d] = None
    BY DEF Init, Idle, NoRow
  <2> QED BY <2>1 DEF LinkInv, Numbered, Retires, Forward, Existing, Is, At
<1>2. HoldInv /\ LinkInv /\ [Next]_vars => LinkInv'
  <2> SUFFICES ASSUME HoldInv, LinkInv, [Next]_vars PROVE LinkInv'
    OBVIOUS
  <2>0. TypeOK
    BY DEF HoldInv
  <2>1. ASSUME NEW p \in Proc, Step(p) PROVE LinkInv'
    BY <2>0, <2>1, LinkElsewhere, LinkInsert, LinkSupersede, LinkRecord DEF Step
  <2>2. CASE UNCHANGED vars
    BY <2>2 DEF vars, LinkInv, Numbered, Retires, Forward, Existing, Older, Is, At
  <2> QED BY <2>0, <2>1, <2>2, LinkElsewhere DEF Next
<1> QED BY <1>1, <1>2, HoldInvariant, PTL DEF Spec

\* A redirect leads from a retired decision to one that was asked later, even
\* when decisions asked at the same time retire each other.
THEOREM RedirectsLeadForwardHolds == Spec => []RedirectsLeadForward
<1>1. LinkInv => RedirectsLeadForward
  BY DEF LinkInv, Forward, Older, RedirectsLeadForward
<1> QED BY <1>1, LinkInvariant, PTL
-----------------------------------------------------------------------------
(* What the page shows, if nothing fails or dies: one event is left of a     *)
(* completed decision, that of the answer its session received.              *)

Calm == faults = 0 /\ crashes = 0
Resuming(d) == \E p \in Proc : At(p, "answer.resume") /\ proc[p].run = d
Settled ==
  /\ \A p \in Proc : ~At(p, "answer.reopen")
  /\ \A d \in Decision : inbox[d] # None => \E c \in Choice : <<d, c>> \in confirmed
  /\ \A d \in Decision : Is(d, "completed") =>
       Resuming(d) \/ \E e \in events : e.run = d /\ e.choice = inbox[d] /\ Unowned(e)
  /\ \A e \in events : Unowned(e) => inbox[e.run] # None
  /\ \A e, f \in events : Unowned(e) /\ Unowned(f) /\ e.run = f.run => e = f

PageInv == Calm => Settled

\* A fault or a death ends the calm, and nothing restores it.
LEMMA CalmOver == ASSUME TypeOK, Fault PROVE ~Calm'
BY DEF TypeOK, Fault, Calm

LEMMA NoFaultCalm == ASSUME NoFault PROVE Calm' = Calm
BY DEF NoFault, Calm

\* The steps of createDecision and appendOwnedRunEvent answer nothing and
\* complete nothing.
LEMMA PageQuiet ==
  ASSUME PageInv, Calm' => Calm, NEW p \in Proc,
         \A q \in Proc \ {p} : proc'[q] = proc[q], ~Answering(p), ~Answering(p)',
         events' = events, inbox' = inbox, confirmed' = confirmed,
         \A d \in Decision : Is(d, "completed")' => Is(d, "completed")
  PROVE  PageInv'
<1> SUFFICES ASSUME Calm' PROVE Settled'
  BY DEF PageInv
<1>1. Settled
  BY DEF PageInv
<1>2. \A q \in Proc : /\ Answering(q)' <=> Answering(q)
                      /\ Answering(q) => proc'[q] = proc[q]
  BY DEF Answering
<1>3. \A e : Unowned(e)' <=> Unowned(e)
  BY <1>2 DEF Unowned
<1>4. \A q \in Proc : /\ At(q, "answer.reopen")' => At(q, "answer.reopen")
                      /\ At(q, "answer.resume") => proc'[q] = proc[q]
  BY <1>2 DEF Answering, At
<1>5. \A d : Resuming(d) => Resuming(d)'
  BY <1>4 DEF Resuming, At
<1> QED BY <1>1, <1>3, <1>4, <1>5 DEF Settled

LEMMA PageElsewhere ==
  ASSUME TypeOK, PageInv, NEW p \in Proc,
         \/ CreateInsert(p) \/ Supersede(p) \/ SupersedeRecord(p) \/ AppendUpdate(p)
         \/ Crash(p)
  PROVE  PageInv'
<1>0. ProcOK /\ runs \in [Decision -> Row] /\ crashes \in Nat
  BY Split DEF TypeOK
<1>1. CASE Crash(p)
  BY <1>0, <1>1 DEF Crash, PageInv, Calm
<1>2. CASE Fault
  BY <1>2, CalmOver DEF PageInv
<1>3. CASE NoFault /\ ~Crash(p)
  <2>1. /\ ~Answering(p) /\ events' = events /\ inbox' = inbox /\ confirmed' = confirmed
    BY <1>3 DEF CreateInsert, Supersede, SupersedeRecord, AppendUpdate, Answering, At
  <2>2. (\A q \in Proc \ {p} : proc'[q] = proc[q]) /\ ~Answering(p)'
    <3>1. ASSUME NEW e \in proc[p].todo,
                 proc' = [proc EXCEPT ![p].at = "create.record",
                                      ![p].stale = e, ![p].todo = @ \ {e}]
          PROVE  /\ \A q \in Proc \ {p} : proc'[q] = proc[q]
                 /\ proc'[p].at = "create.record"
      BY <1>0, <3>1 DEF ProcOK, Execution
    <3> QED BY <1>0, <1>3, <3>1, LoopMoves, DoneMoves
            DEF CreateInsert, Supersede, SupersedeRecord, AppendUpdate, Answering
  <2>3. \A d \in Decision : Is(d, "completed")' => Is(d, "completed")
    <3>1. CASE CreateInsert(p)
      BY <1>0, <3>1 DEF CreateInsert, Is
    <3>2. CASE Supersede(p) \/ SupersedeRecord(p) \/ AppendUpdate(p)
      BY <1>0, <3>2 DEF Supersede, SupersedeRecord, AppendUpdate, SetStatus, Is, Row
    <3> QED BY <1>3, <3>1, <3>2
  <2> QED BY <1>3, <2>1, <2>2, <2>3, NoFaultCalm, PageQuiet
<1> QED BY <1>1, <1>2, <1>3
        DEF CreateInsert, Supersede, SupersedeRecord, AppendUpdate

\* An answer begins with a number no event has.
LEMMA PageBegins ==
  ASSUME TypeOK, EventInv, PageInv, NEW p \in Proc, Request(p)
  PROVE  PageInv'
<1>0. ProcOK /\ sent \in Nat
  BY Split DEF TypeOK
<1>1. /\ Calm' = Calm /\ runs' = runs /\ events' = events /\ inbox' = inbox
      /\ confirmed' = confirmed
  BY DEF Request, BeginCreate, BeginAnswer, BeginAppend, Calm
<1>2. CASE \E d \in Decision : (\E o \in Options : BeginCreate(p, d, o)) \/ BeginAppend(p, d)
  <2>1. /\ \A q \in Proc \ {p} : proc'[q] = proc[q]
        /\ proc'[p].at \in {"create.insert", "append.update"} /\ proc[p].at = "idle"
    <3>1. proc[p].at = "idle"
      BY <1>2 DEF BeginCreate, BeginAppend, Begin, At
    <3> QED BY <1>0, <1>2, <3>1, CreateBegins, AppendBegins
  <2>2. ~Answering(p) /\ ~Answering(p)'
    BY <2>1 DEF Answering
  <2> QED BY <1>1, <2>1, <2>2, PageQuiet DEF Is
<1>3. ASSUME NEW d \in Decision, NEW c \in Choice, BeginAnswer(p, d, c)
      PROVE  PageInv'
  <2> SUFFICES ASSUME Calm' PROVE Settled'
    BY DEF PageInv
  <2>1. /\ \A q \in Proc \ {p} : proc'[q] = proc[q]
        /\ proc'[p].at = "answer.insert" /\ proc'[p].event = sent + 1
        /\ proc[p].at = "idle"
    BY <1>0, <1>3, AnswerBegins DEF BeginAnswer, Begin, At
  <2>2. \A e \in events : e.id # proc'[p].event
    BY <1>0, <2>1 DEF EventInv, Ids, TypeOK, Event
  <2>3. \A q \in Proc : q # p => (Answering(q)' <=> Answering(q))
    BY <2>1 DEF Answering
  <2>4. \A e \in events : Unowned(e)' <=> Unowned(e)
    BY <2>1, <2>2, <2>3 DEF Unowned, Answering
  <2>5. \A q \in Proc : /\ At(q, "answer.reopen")' => At(q, "answer.reopen")
                        /\ At(q, "answer.resume") => proc'[q] = proc[q]
    BY <2>1 DEF At
  <2>6. \A x : Resuming(x) => Resuming(x)'
    BY <2>5 DEF Resuming, At
  <2> QED BY <1>1, <2>4, <2>5, <2>6 DEF PageInv, Settled, Is
<1> QED BY <1>2, <1>3 DEF Request

\* The event that comes and the one that goes are those of the answer itself.
LEMMA PageInserted ==
  ASSUME TypeOK, EventInv, PageInv, NEW p \in Proc, AnswerInsert(p)
  PROVE  PageInv'
<1>1. CASE Fault
  BY <1>1, CalmOver DEF PageInv
<1>2. CASE events' = events \cup {Own(p)} /\ Goto(p, "answer.complete") /\ NoFault
  <2> SUFFICES ASSUME Calm' PROVE Settled'
    BY DEF PageInv
  <2>0. Settled /\ Answering(p) /\ runs' = runs /\ inbox' = inbox /\ confirmed' = confirmed
    BY <1>2, NoFaultCalm DEF PageInv, AnswerInsert, Answering, At
  <2>1. /\ \A q \in Proc \ {p} : proc'[q] = proc[q]
        /\ proc'[p].event = proc[p].event /\ proc'[p].at = "answer.complete"
    BY <1>2, Split, GotoMoves, GotoKeeps
  <2>2. \A q \in Proc : /\ Answering(q)' <=> Answering(q)
                        /\ proc'[q].event = proc[q].event
    BY <2>0, <2>1 DEF Answering
  <2>3. \A e : Unowned(e)' <=> Unowned(e)
    BY <2>2 DEF Unowned
  <2>4. \A e : e = Own(p) => ~Unowned(e)
    BY <2>0 DEF Unowned, Own
  <2>5. \A q \in Proc : /\ At(q, "answer.reopen")' => At(q, "answer.reopen")
                        /\ At(q, "answer.resume") => proc'[q] = proc[q]
    BY <2>1 DEF AnswerInsert, At
  <2>6. \A x : Resuming(x) => Resuming(x)'
    BY <2>5 DEF Resuming, At
  <2>7. \A e \in events' : Unowned(e)' => e \in events /\ Unowned(e)
    BY <1>2, <2>3, <2>4
  <2> QED BY <1>2, <2>0, <2>3, <2>5, <2>6, <2>7 DEF Settled, Is
<1> QED BY <1>1, <1>2 DEF AnswerInsert, Own

LEMMA PageDeleted ==
  ASSUME TypeOK, EventInv, PageInv, NEW p \in Proc, AnswerDelete(p)
  PROVE  PageInv'
<1>1. CASE Fault
  BY <1>1, CalmOver DEF PageInv
<1>2. CASE events' = OtherEvents(p) /\ NoFault
  <2> SUFFICES ASSUME Calm' PROVE Settled'
    BY DEF PageInv
  <2>0. Settled /\ Answering(p) /\ runs' = runs /\ inbox' = inbox /\ confirmed' = confirmed
    BY <1>2, NoFaultCalm DEF PageInv, AnswerDelete, Answering, At
  <2>1. /\ \A q \in Proc \ {p} : proc'[q] = proc[q]
        /\ proc'[p].at = "idle"
    BY Split, DoneMoves DEF AnswerDelete
  <2>2. events' = {e \in events : e.id # proc[p].event}
    BY <1>2, <2>0, OthersStay
  <2>3. /\ ~Answering(p)'
        /\ \A q \in Proc : q # p => proc'[q] = proc[q] /\ (Answering(q)' <=> Answering(q))
    BY <2>1 DEF Answering
  <2>4. \A e \in events' : Unowned(e)' <=> Unowned(e)
    BY <2>2, <2>3 DEF Unowned
  <2>5. \A e \in events : Unowned(e) => e \in events'
    BY <2>0, <2>2 DEF Unowned
  <2>6. \A q \in Proc : /\ At(q, "answer.reopen")' => At(q, "answer.reopen")
                        /\ At(q, "answer.resume") => proc'[q] = proc[q]
    BY <2>1 DEF AnswerDelete, At
  <2>7. \A x : Resuming(x) => Resuming(x)'
    BY <2>6 DEF Resuming, At
  <2> QED BY <2>0, <2>2, <2>4, <2>5, <2>6, <2>7 DEF Settled, Is
<1> QED BY <1>1, <1>2 DEF AnswerDelete

\* A run that is completed waits for its session to be resumed.
LEMMA PageCompleted ==
  ASSUME TypeOK, PageInv, NEW p \in Proc, AnswerComplete(p)
  PROVE  PageInv'
<1>1. CASE Fault
  BY <1>1, CalmOver DEF PageInv
<1>2. ASSUME NoFault, NEW place \in {"answer.resume", "answer.delete"}, Goto(p, place),
             \/ runs' = runs
             \/ place = "answer.resume" /\ SetStatus(proc[p].run, "completed")
      PROVE  PageInv'
  <2> SUFFICES ASSUME Calm' PROVE Settled'
    BY DEF PageInv
  <2>0. /\ Settled /\ Answering(p) /\ At(p, "answer.complete")
        /\ events' = events /\ inbox' = inbox /\ confirmed' = confirmed
    BY <1>2, NoFaultCalm DEF PageInv, AnswerComplete, Answering, At
  <2>1. /\ \A q \in Proc \ {p} : proc'[q] = proc[q]
        /\ proc'[p].at = place /\ proc'[p].run = proc[p].run
        /\ proc'[p].event = proc[p].event
    BY <1>2, Split, GotoMoves, GotoKeeps
  <2>2. \A q \in Proc : /\ Answering(q)' <=> Answering(q)
                        /\ proc'[q].event = proc[q].event
    BY <1>2, <2>0, <2>1 DEF Answering
  <2>3. \A e : Unowned(e)' <=> Unowned(e)
    BY <2>2 DEF Unowned
  <2>4. \A q \in Proc : /\ At(q, "answer.reopen")' => At(q, "answer.reopen")
                        /\ At(q, "answer.resume") => proc'[q] = proc[q]
    BY <1>2, <2>0, <2>1 DEF At
  <2>5. \A x : Resuming(x) => Resuming(x)'
    BY <2>4 DEF Resuming, At
  <2>6. ASSUME NEW d \in Decision, Is(d, "completed")'
        PROVE  Is(d, "completed") \/ Resuming(d)'
    <3>1. CASE runs' = runs
      BY <2>6, <3>1 DEF Is
    <3>2. CASE place = "answer.resume" /\ SetStatus(proc[p].run, "completed")
      <4>1. CASE d = proc[p].run
        BY <2>1, <3>2, <4>1 DEF Resuming, At
      <4>2. CASE d # proc[p].run
        BY <2>6, <3>2, <4>2 DEF SetStatus, Is, TypeOK
      <4> QED BY <4>1, <4>2
    <3> QED BY <1>2, <3>1, <3>2
  <2> QED BY <2>0, <2>3, <2>4, <2>5, <2>6 DEF Settled
<1> QED BY <1>1, <1>2 DEF AnswerComplete

\* The session receives the one answer whose event is left of its decision.
LEMMA PageResumed ==
  ASSUME HoldInv, EventInv, PageInv, NEW p \in Proc, AnswerResume(p)
  PROVE  PageInv'
<1> DEFINE d == proc[p].run
<1>1. CASE Fault
  BY <1>1, CalmOver DEF PageInv, HoldInv
<1>2. CASE /\ inbox' = Delivered(p) /\ Done(p) /\ NoFault
           /\ confirmed' = confirmed \cup {<<proc[p].run, proc[p].choice>>}
  <2> SUFFICES ASSUME Calm' PROVE Settled'
    BY DEF PageInv
  <2>0. /\ Settled /\ Answering(p) /\ Recorded(p) /\ At(p, "answer.resume")
        /\ runs' = runs /\ events' = events
        /\ proc[p].choice \in Choice /\ d \in Decision
    BY <1>2, NoFaultCalm DEF PageInv, AnswerResume, Answering, Recorded, At, HoldInv,
       TypeOK, Working
  <2>1. /\ \A q \in Proc \ {p} : proc'[q] = proc[q]
        /\ proc'[p].at = "idle"
    BY <1>2, Split, DoneMoves DEF HoldInv
  <2>2. inbox[d] = None
    <3>1. \A a \in confirmed : a[1] # d
      BY <2>0 DEF HoldInv, HeldAlone, Holds, At
    <3>2. \A c \in Choice : <<d, c>> \notin confirmed
      BY <3>1
    <3> QED BY <2>0, <3>2 DEF Settled
  <2>3. \A x \in Decision : inbox'[x] = IF x = d THEN proc[p].choice ELSE inbox[x]
    BY <1>2, <2>2 DEF Delivered, HoldInv, TypeOK
  <2>4. /\ ~Answering(p)'
        /\ \A q \in Proc : q # p => proc'[q] = proc[q] /\ (Answering(q)' <=> Answering(q))
    BY <2>1 DEF Answering
  <2>5. \A e : Unowned(e) => Unowned(e)'
    BY <2>4 DEF Unowned
  <2>6. Own(p) \in events /\ Own(p).id = proc[p].event
    BY <2>0 DEF EventInv, OwnEvents, Own
  <2>7. ASSUME NEW e \in events', Unowned(e)' PROVE Unowned(e) \/ e = Own(p)
    <3>1. CASE e.id = proc[p].event
      BY <2>0, <2>7, <3>1 DEF EventInv, OwnEvents
    <3>2. CASE e.id # proc[p].event
      BY <2>4, <2>7, <3>2 DEF Unowned
    <3> QED BY <3>1, <3>2
  <2>8. \A e \in events : Unowned(e) => e.run \in Decision /\ e.run # d
    BY <2>0, <2>2 DEF Settled, HoldInv, TypeOK, Event
  <2>9. Own(p).run = d /\ Own(p).choice = proc[p].choice
    BY DEF Own
  <2>10. \A q \in Proc : ~At(q, "answer.reopen")'
    BY <2>0, <2>1 DEF Settled, At
  <2>11. \A x \in Decision : inbox'[x] # None => \E c \in Choice : <<x, c>> \in confirmed'
    BY <1>2, <2>0, <2>3 DEF Settled
  <2>12. ASSUME NEW x \in Decision, Is(x, "completed")'
         PROVE  Resuming(x)' \/ \E e \in events' : e.run = x /\ e.choice = inbox'[x] /\ Unowned(e)'
    <3>1. CASE x = d
      <4>1. PICK own \in events' : own = Own(p) /\ Unowned(own)'
        <5>1. \A q \in Proc : Answering(q)' => proc'[q].event # Own(p).id
          BY <2>0, <2>4, <2>6 DEF EventInv, Ids
        <5> QED BY <2>0, <2>6, <5>1 DEF Unowned
      <4> QED BY <2>3, <2>9, <3>1, <4>1
    <3>2. CASE x # d
      <4>1. Is(x, "completed")
        BY <2>0, <2>12 DEF Is
      <4>2. CASE Resuming(x)
        BY <2>1, <3>2, <4>2 DEF Resuming, At
      <4>3. ASSUME NEW e \in events, e.run = x, e.choice = inbox[x], Unowned(e)
            PROVE  e \in events' /\ e.run = x /\ e.choice = inbox'[x] /\ Unowned(e)'
        BY <2>0, <2>3, <2>5, <3>2, <4>3
      <4> QED BY <2>0, <4>1, <4>2, <4>3 DEF Settled
    <3> QED BY <3>1, <3>2
  <2>13. \A e \in events' : Unowned(e)' => inbox'[e.run] # None
    BY <2>0, <2>3, <2>7, <2>8, <2>9, NoneAssumption DEF Settled
  <2>14. \A e, f \in events' : Unowned(e)' /\ Unowned(f)' /\ e.run = f.run => e = f
    BY <2>0, <2>7, <2>8, <2>9 DEF Settled
  <2> QED BY <2>10, <2>11, <2>12, <2>13, <2>14 DEF Settled
<1> QED BY <1>1, <1>2 DEF AnswerResume

LEMMA PageInvariant == Spec => []PageInv
<1>1. Init => PageInv
  <2> SUFFICES ASSUME Init PROVE Settled
    BY DEF PageInv
  <2>1. /\ \A p \in Proc : proc[p].at = "idle"
        /\ \A d \in Decision : runs[d].status = "none" /\ inbox[d] = None
        /\ events = {}
    BY DEF Init, Idle, NoRow
  <2> QED BY <2>1 DEF Settled, Is, At
<1>2. HoldInv /\ EventInv /\ PageInv /\ [Next]_vars => PageInv'
  <2> SUFFICES ASSUME HoldInv, EventInv, PageInv, [Next]_vars PROVE PageInv'
    OBVIOUS
  <2>0. TypeOK
    BY DEF HoldInv
  <2>1. ASSUME NEW p \in Proc, AnswerReopen(p) PROVE PageInv'
    <3>1. ~Calm
      BY <2>1 DEF PageInv, Settled, AnswerReopen
    <3>2. faults' >= faults /\ crashes' = crashes /\ faults \in Nat
      BY <2>0, <2>1 DEF AnswerReopen, Fault, NoFault, TypeOK
    <3>3. ~Calm'
      BY <2>0, <3>1, <3>2 DEF Calm, TypeOK
    <3> QED BY <3>3 DEF PageInv
  <2>2. ASSUME NEW p \in Proc, Step(p) PROVE PageInv'
    BY <2>0, <2>1, <2>2, PageElsewhere, PageInserted, PageDeleted, PageCompleted,
       PageResumed DEF Step
  <2>3. CASE UNCHANGED vars
    BY <2>3 DEF vars, PageInv, Calm, Settled, Resuming, Answering, Unowned, Is, At
  <2> QED BY <2>0, <2>2, <2>3, PageBegins, PageElsewhere DEF Next
<1> QED BY <1>1, <1>2, HoldInvariant, EventInvariant, PTL DEF Spec

\* If nothing fails or dies, the page of a completed decision at rest shows the
\* choice its session received, whoever else tapped at the same time.
THEOREM PageTellsAnswerHolds == Spec => []PageTellsAnswer
<1>1. ASSUME TypeOK, EventInv, PageInv PROVE PageTellsAnswer
  <2> SUFFICES ASSUME faults = 0, crashes = 0,
                      NEW d \in Decision, AtRest(d), Is(d, "completed")
               PROVE  Shown(d) = inbox[d]
    BY DEF PageTellsAnswer
  <2>0. Settled
    BY <1>1 DEF PageInv, Calm
  <2>1. ~Resuming(d)
    BY DEF Resuming, AtRest
  <2>2. PICK e \in events : e.run = d /\ e.choice = inbox[d] /\ Unowned(e)
    BY <2>0, <2>1 DEF Settled
  <2>3. ASSUME NEW f \in events, f.run = d PROVE f = e
    <3>1. Unowned(f)
      BY <1>1, <2>3 DEF Unowned, EventInv, OwnEvents, Own, AtRest
    <3> QED BY <2>0, <2>2, <2>3, <3>1 DEF Settled
  <2>4. inbox[d] \in Choice \cup {None} /\ e.id <= e.id
    BY <1>1 DEF TypeOK, Event
  <2> QED BY <2>2, <2>3, <2>4 DEF Shown
<1> QED BY <1>1, TypeCorrect, EventInvariant, PageInvariant, PTL
-----------------------------------------------------------------------------
(* What the promise comes to: it is a consequence of the abstract module      *)
(* alone, and holds of the decisions because they implement it.               *)

\* A decision is answered with one choice, and only one that ended so has any.
OneAnswer ==
  \A d \in Decision : IF Outcome[d] = "answered" THEN \E c \in Choice : Accepted[d] = {c}
                      ELSE Accepted[d] = {}

\* A decision that has ended has ended, and keeps the choice it ended with.
EndsForGood ==
  [][\A d \in Decision : Outcome[d] \in {"answered", "retired"} =>
       Outcome'[d] = Outcome[d] /\ Accepted'[d] = Accepted[d]]_<<Outcome, Accepted>>

LEMMA PromiseSteps ==
  ASSUME Promise!Next
  PROVE  \A d \in Decision :
           \/ Outcome'[d] = Outcome[d] /\ Accepted'[d] = Accepted[d]
           \/ Outcome[d] = "unasked" /\ Outcome'[d] = "asked" /\ Accepted'[d] = Accepted[d]
           \/ Outcome[d] = "asked" /\ Outcome'[d] = "retired" /\ Accepted'[d] = Accepted[d]
           \/ /\ Outcome[d] = "asked" /\ Outcome'[d] = "answered"
              /\ \E c \in Choice : Accepted'[d] = {c}
<1>0. DOMAIN Outcome = Decision /\ DOMAIN Accepted = Decision
  BY DEF Outcome, Accepted
<1>1. ASSUME NEW e \in Decision, Promise!Ask(e) \/ Promise!Retire(e)
      PROVE  /\ Accepted' = Accepted
             /\ \A d \in Decision : d # e => Outcome'[d] = Outcome[d]
             /\ \/ Outcome[e] = "unasked" /\ Outcome'[e] = "asked"
                \/ Outcome[e] = "asked" /\ Outcome'[e] = "retired"
  BY <1>0, <1>1 DEF Promise!Ask, Promise!Retire
<1>2. ASSUME NEW e \in Decision, NEW c \in Choice, Promise!Accept(e, c)
      PROVE  /\ \A d \in Decision : d # e => Outcome'[d] = Outcome[d] /\ Accepted'[d] = Accepted[d]
             /\ Outcome[e] = "asked" /\ Outcome'[e] = "answered" /\ Accepted'[e] = {c}
  BY <1>0, <1>2 DEF Promise!Accept
<1> QED BY <1>1, <1>2 DEF Promise!Next

\* However taps, retries, rollbacks and replacements overlap, a decision has
\* never two answers, and none that is not over has one (routes/decisions.ts).
THEOREM OneAnswerHolds == Spec => []OneAnswer
<1>1. Promise!Init => OneAnswer
  BY DEF Promise!Init, OneAnswer
<1>2. OneAnswer /\ [Promise!Next]_<<Outcome, Accepted>> => OneAnswer'
  <2> SUFFICES ASSUME OneAnswer, [Promise!Next]_<<Outcome, Accepted>> PROVE OneAnswer'
    OBVIOUS
  <2>1. CASE Promise!Next
    <3> SUFFICES ASSUME NEW d \in Decision
                 PROVE  IF Outcome'[d] = "answered" THEN \E c \in Choice : Accepted'[d] = {c}
                        ELSE Accepted'[d] = {}
      BY DEF OneAnswer
    <3>1. IF Outcome[d] = "answered" THEN \E c \in Choice : Accepted[d] = {c} ELSE Accepted[d] = {}
      BY DEF OneAnswer
    <3> QED BY <2>1, <3>1, PromiseSteps
  <2>2. CASE UNCHANGED <<Outcome, Accepted>>
    BY <2>2 DEF OneAnswer
  <2> QED BY <2>1, <2>2
<1> QED BY <1>1, <1>2, PromiseKept, PTL DEF KeepsPromise, Promise!Spec

\* Once the owner has been told that the answer was accepted, or the question
\* was retired for a newer one, nothing takes it back (routes/decisions.ts).
THEOREM EndsForGoodHolds == Spec => EndsForGood
<1>1. [Promise!Next]_<<Outcome, Accepted>> =>
        [\A d \in Decision : Outcome[d] \in {"answered", "retired"} =>
           Outcome'[d] = Outcome[d] /\ Accepted'[d] = Accepted[d]]_<<Outcome, Accepted>>
  BY PromiseSteps
<1> QED BY <1>1, PromiseKept, PTL DEF KeepsPromise, Promise!Spec, EndsForGood
=============================================================================
