-------------------------- MODULE ErrorIssuesProofs --------------------------
(* What the desk and the error issues keep for every number of requests: the  *)
(* desk, whatever writes on it, keeps the promise of DeskPromise, and one      *)
(* fingerprint becomes one issue.                                              *)
EXTENDS ErrorIssues, SelectionTheorems, TLAPS

-----------------------------------------------------------------------------
(* The rows, the issues and the requests that report are well formed.          *)

ReportSteps == {"idle", "claim", "look", "check", "wait", "touch", "create", "remember"}
Marks == [number : Nat, recent : BOOLEAN, there : BOOLEAN]
Issues == [print : Fingerprint, open : BOOLEAN]
Reports == [at : ReportSteps, print : Fingerprint \union {None}, number : Nat]

IssuesTyped ==
  /\ marks \in [Fingerprint -> Marks]
  /\ issues \in Seq(Issues)
  /\ report \in [Proc -> Reports]
  /\ \A p \in Proc : report[p].at # "idle" => report[p].print \in Fingerprint

LEMMA IssuesTypedInit == Init => IssuesTyped
  BY DEF Init, IssuesTyped, NoMark, IdleReport, Marks, Issues, Reports, ReportSteps

\* What a request does next: it goes on with its error, or it is over.
LEMMA ReportMoves ==
  ASSUME IssuesTyped, NEW p \in Proc, report[p].at # "idle", NEW step \in ReportSteps, NEW n \in Nat,
         \/ report' = [report EXCEPT ![p].at = step]
         \/ report' = [report EXCEPT ![p] = [@ EXCEPT !.at = step, !.number = n]]
         \/ report' = [report EXCEPT ![p] = IdleReport]
  PROVE  /\ report' \in [Proc -> Reports]
         /\ \A q \in Proc : report'[q].at # "idle" => report'[q].print \in Fingerprint
<1>1. CASE report' = [report EXCEPT ![p].at = step]
  BY <1>1 DEF IssuesTyped, Reports
<1>2. CASE report' = [report EXCEPT ![p] = [@ EXCEPT !.at = step, !.number = n]]
  <2>1. [report[p] EXCEPT !.at = step, !.number = n] \in Reports
    BY DEF IssuesTyped, Reports
  <2>2. [report[p] EXCEPT !.at = step, !.number = n].print = report[p].print
    BY DEF IssuesTyped, Reports
  <2> QED BY <1>2, <2>1, <2>2 DEF IssuesTyped
<1>3. CASE report' = [report EXCEPT ![p] = IdleReport]
  BY <1>3 DEF IssuesTyped, Reports, IdleReport, ReportSteps
<1> QED BY <1>1, <1>2, <1>3

LEMMA IssuesTypedStep == ASSUME IssuesTyped, [Next]_vars PROVE IssuesTyped'
<1>0. issues \in Seq(Issues) /\ Len(issues) \in Nat
  BY DEF IssuesTyped
<1>1. CASE UNCHANGED vars
  BY <1>1 DEF vars, issueVars, IssuesTyped
<1>2. CASE Desk
  BY <1>2 DEF Desk, issueVars, IssuesTyped
<1>3. ASSUME NEW p \in Proc, WriteElsewhere(p) PROVE IssuesTyped'
  BY <1>3 DEF WriteElsewhere, issueVars, IssuesTyped
<1>4. ASSUME NEW p \in Proc, ReportStep(p) PROVE IssuesTyped'
  <2>0. report[p].at # "idle" /\ report[p].print \in Fingerprint /\ report[p] \in Reports
    BY <1>4 DEF ReportStep, Claim, Look, CheckOpen, AwaitNumber, StopWaiting, Touch, Create, Remember,
                DieReporting, ReportAt, IssuesTyped
  <2>1. CASE Claim(p) \/ Touch(p) \/ StopWaiting(p) \/ CheckOpen(p) \/ DieReporting(p)
    <3>1. \E step \in ReportSteps : \/ report' = [report EXCEPT ![p].at = step]
                                  \/ report' = [report EXCEPT ![p] = IdleReport]
      BY <2>1 DEF Claim, Touch, StopWaiting, CheckOpen, DieReporting, ReportTo, ReportSteps
    <3>2. marks' \in [Fingerprint -> Marks] /\ issues' = issues
      <4>1. CASE Claim(p)
        <5>1. [number |-> 0, recent |-> TRUE, there |-> TRUE] \in Marks
          BY DEF Marks
        <5>2. \/ marks' = marks
              \/ marks' = [marks EXCEPT ![report[p].print] = [number |-> 0, recent |-> TRUE, there |-> TRUE]]
          BY <4>1 DEF Claim
        <5>3. issues' = issues
          BY <4>1 DEF Claim
        <5> QED BY <2>0, <5>1, <5>2, <5>3 DEF IssuesTyped
      <4>2. CASE Touch(p)
        BY <2>0, <4>2 DEF Touch, IssuesTyped, Marks
      <4>3. CASE StopWaiting(p) \/ CheckOpen(p) \/ DieReporting(p)
        BY <4>3 DEF StopWaiting, CheckOpen, DieReporting, IssuesTyped
      <4> QED BY <2>1, <4>1, <4>2, <4>3
    <3> QED BY <1>0, <2>0, <3>1, <3>2, ReportMoves DEF IssuesTyped
  <2>2. CASE Look(p) \/ AwaitNumber(p)
    <3>1. Mark(p).number \in Nat
      BY <2>0 DEF Mark, IssuesTyped, Marks
    <3>2. \E step \in ReportSteps :
             \/ report' = [report EXCEPT ![p].at = step]
             \/ report' = [report EXCEPT ![p] = [@ EXCEPT !.at = step, !.number = Mark(p).number]]
      BY <2>2 DEF Look, AwaitNumber, ReportTo, ReportSteps
    <3>3. marks' = marks /\ issues' = issues
      BY <2>2 DEF Look, AwaitNumber
    <3> QED BY <2>0, <3>1, <3>2, <3>3, ReportMoves DEF IssuesTyped
  <2>3. CASE Create(p)
    <3>1. issues' \in Seq(Issues) /\ Len(issues') \in Nat
      <4>1. [print |-> report[p].print, open |-> TRUE] \in Issues
        BY <2>0 DEF Issues
      <4> QED BY <4>1, <2>3, <1>0, AppendProperties DEF Create
    <3>2. \/ report' = [report EXCEPT ![p] = [@ EXCEPT !.at = "remember", !.number = Len(issues')]]
          \/ report' = [report EXCEPT ![p] = IdleReport]
      BY <2>3 DEF Create
    <3>3. marks' = marks
      BY <2>3 DEF Create
    <3> QED BY <2>0, <3>1, <3>2, <3>3, ReportMoves DEF IssuesTyped, ReportSteps
  <2>4. CASE Remember(p)
    <3>1. marks' \in [Fingerprint -> Marks] /\ issues' = issues
      <4>1. [number |-> report[p].number, recent |-> TRUE, there |-> TRUE] \in Marks
        BY <2>0 DEF Reports, Marks
      <4>2. \/ marks' = marks
            \/ marks' = [marks EXCEPT ![report[p].print] =
                            [number |-> report[p].number, recent |-> TRUE, there |-> TRUE]]
        BY <2>4 DEF Remember
      <4>3. issues' = issues
        BY <2>4 DEF Remember
      <4> QED BY <2>0, <4>1, <4>2, <4>3 DEF IssuesTyped
    <3>2. report' = [report EXCEPT ![p] = IdleReport]
      BY <2>4 DEF Remember
    <3> QED BY <1>0, <2>0, <3>1, <3>2, ReportMoves DEF IssuesTyped, ReportSteps
  <2> QED BY <1>4, <2>1, <2>2, <2>3, <2>4 DEF ReportStep
<1>5. ASSUME NEW p \in Proc, NEW e \in Fingerprint, Report(p, e) PROVE IssuesTyped'
  BY <1>5 DEF Report, IssuesTyped, Reports, ReportSteps
<1>6. ASSUME NEW e \in Fingerprint, Age(e) PROVE IssuesTyped'
  BY <1>6 DEF Age, IssuesTyped, Marks
<1>7. ASSUME NEW n \in DOMAIN issues, CloseIssue(n) PROVE IssuesTyped'
  <2>1. n \in 1..Len(issues) /\ [issues[n] EXCEPT !.open = FALSE] \in Issues
    <3>1. n \in 1..Len(issues)
      BY <1>0, <1>7
    <3>2. issues[n] \in Issues
      BY <1>0, <3>1
    <3> QED BY <3>1, <3>2 DEF Issues
  <2>2. issues' = [issues EXCEPT ![n] = [issues[n] EXCEPT !.open = FALSE]]
    BY <1>7 DEF CloseIssue
  <2>3. issues' \in Seq(Issues)
    BY <1>0, <2>1, <2>2, ExceptSeq
  <2> QED BY <1>7, <2>3 DEF CloseIssue, IssuesTyped
<1> QED BY <1>1, <1>2, <1>3, <1>4, <1>5, <1>6, <1>7 DEF Next

-----------------------------------------------------------------------------
(* The work of a writer.  A board that is ready to be swapped in was made from *)
(* the one that was read.                                                      *)

WorkRecord(w) ==
  w = [at |-> w.at, write |-> w.write, seen |-> w.seen, next |-> w.next, tries |-> w.tries,
       landed |-> w.landed]

MadeFrom(w) ==
  /\ w.next.at \in Nat
  /\ w.next = Applied(BoardOf(w.seen, w.next.at), w.write, w.next.at)

Sound(w) ==
  /\ WorkRecord(w)
  /\ w.at \in WorkSteps
  /\ w.landed \in BOOLEAN
  /\ w.at = "idle" => w = Idle
  /\ w.at \in {"read", "swap", "conflict"} => ~w.landed
  /\ w.at \in {"tell", "ok"} => w.landed
  /\ w.at = "swap" => MadeFrom(w)

DeskInv ==
  /\ work = [p \in Proc |-> work[p]]
  /\ told = [p \in Proc |-> told[p]]
  /\ clock \in Nat
  /\ \A p \in Proc : Sound(work[p])

\* The desk part of every step, and the rest.
WriterStep(p) == WriteStep(p) \/ Die(p) \/ \E w \in Write : BeginWrite(p, w)
DeskStep == Ticks \/ Clear \/ \E p \in Proc : WriterStep(p)
DeskView == <<row, work, told, clock>>

LEMMA StepsOfTheDesk == ASSUME IssuesTyped, [Next]_vars PROVE DeskStep \/ UNCHANGED DeskView
<1>1. CASE UNCHANGED vars
  BY <1>1 DEF vars, deskVars, DeskView
<1>2. CASE Desk
  BY <1>2 DEF Desk, DeskStep, WriterStep
<1>3. ASSUME NEW p \in Proc, WriteElsewhere(p) PROVE DeskStep
  BY <1>3, IssuesAssumption DEF WriteElsewhere, DeskStep, WriterStep
<1>4. ASSUME NEW p \in Proc, ReportStep(p) PROVE DeskStep \/ UNCHANGED DeskView
  <2>1. CASE Remember(p)
    <3>1. CASE BeginWrite(p, CardOf(report[p].print))
      <4>1. report[p].print \in Fingerprint
        BY <2>1 DEF Remember, ReportAt, IssuesTyped
      <4>2. PICK w \in Write : BeginWrite(p, w)
        BY <3>1, <4>1, IssuesAssumption
      <4> QED BY <4>2 DEF DeskStep, WriterStep
    <3> QED BY <2>1, <3>1 DEF Remember, DeskView
  <2>2. CASE ~Remember(p)
    BY <1>4, <2>2 DEF ReportStep, Claim, Look, CheckOpen, AwaitNumber, StopWaiting, Touch, Create,
                      DieReporting, DeskIdle, Quiet, DeskView
  <2> QED BY <2>1, <2>2
<1>5. ASSUME NEW p \in Proc, NEW e \in Fingerprint, Report(p, e) PROVE UNCHANGED DeskView
  BY <1>5 DEF Report, deskVars, DeskView
<1>6. ASSUME NEW e \in Fingerprint, Age(e) PROVE UNCHANGED DeskView
  BY <1>6 DEF Age, Quiet, DeskIdle, DeskView
<1>7. ASSUME NEW n \in DOMAIN issues, CloseIssue(n) PROVE UNCHANGED DeskView
  BY <1>7 DEF CloseIssue, Quiet, DeskIdle, DeskView
<1> QED BY <1>1, <1>2, <1>3, <1>4, <1>5, <1>6, <1>7 DEF Next

\* A step of a writer changes its own work and what it is told.
LEMMA OwnWork ==
  ASSUME DeskInv, NEW p \in Proc, WriterStep(p)
  PROVE  /\ \A q \in Proc \ {p} : work'[q] = work[q] /\ told'[q] = told[q]
         /\ work' = [q \in Proc |-> work'[q]] /\ told' = [q \in Proc |-> told'[q]]
         /\ clock' = clock
  BY DEF DeskInv, WriterStep, WriteStep, Read, Swap, Broadcast, Answer, Die, BeginWrite, Goto, Leave

LEMMA IdleSound == Sound(Idle)
  BY DEF Sound, WorkRecord, Idle, WorkSteps

LEMMA ReadMakes ==
  ASSUME DeskInv, NEW p \in Proc, Read(p)
  PROVE  /\ Sound(work'[p])
         /\ work'[p].write = work[p].write /\ ~work'[p].landed /\ work'[p].at # "idle"
<1>1. Sound(work[p]) /\ clock \in Nat /\ work = [q \in Proc |-> work[q]] /\ work[p].at = "read"
  BY DEF DeskInv, Read
<1>2. CASE Goto(p, "error")
  <2>1. work'[p] = [work[p] EXCEPT !.at = "error"]
    BY <1>1, <1>2 DEF Goto
  <2> QED BY <1>1, <2>1 DEF Sound, WorkRecord, WorkSteps
<1>3. ASSUME work' = [work EXCEPT
             ![p].at = "swap", ![p].seen = row,
             ![p].next = Applied(BoardOf(row, clock), work[p].write, clock)]
      PROVE  /\ Sound(work'[p])
             /\ work'[p].write = work[p].write /\ ~work'[p].landed /\ work'[p].at # "idle"
  <2>1. work'[p] = [at |-> "swap", write |-> work[p].write, seen |-> row,
                    next |-> Applied(BoardOf(row, clock), work[p].write, clock),
                    tries |-> work[p].tries, landed |-> work[p].landed]
    BY <1>1, <1>3 DEF Sound, WorkRecord
  <2>2. Applied(BoardOf(row, clock), work[p].write, clock).at = clock
    BY DEF Applied
  <2> QED BY <1>1, <2>1, <2>2 DEF Sound, WorkRecord, WorkSteps, MadeFrom
<1> QED BY <1>2, <1>3 DEF Read

\* Swapped in, refused, or failed.
LEMMA SwapMakes ==
  ASSUME DeskInv, NEW p \in Proc, Swap(p)
  PROVE  /\ Sound(work'[p])
         /\ work'[p].write = work[p].write /\ work'[p].at # "idle"
         /\ \/ row' = row /\ ~work'[p].landed
            \/ row' = work[p].next /\ row = work[p].seen /\ work'[p].landed
<1>1. Sound(work[p]) /\ work = [q \in Proc |-> work[q]] /\ work[p].at = "swap"
  BY DEF DeskInv, Swap
<1>2. ASSUME NEW step \in {"tell", "error"}, Leave(p, step, TRUE), Unchanged(p), row' = work[p].next
      PROVE  /\ Sound(work'[p])
             /\ work'[p].write = work[p].write /\ work'[p].at # "idle" /\ work'[p].landed
  <2>1. work'[p] = [Idle EXCEPT !.at = step, !.write = work[p].write, !.landed = TRUE]
    BY <1>1, <1>2 DEF Leave
  <2>2. work'[p] = [at |-> step, write |-> work[p].write, seen |-> None, next |-> Empty(0), tries |-> 0,
                    landed |-> TRUE]
    BY <2>1 DEF Idle
  <2> QED BY <2>2, <1>2 DEF Sound, WorkRecord, WorkSteps
<1>3. ASSUME Leave(p, "error", FALSE)
      PROVE  /\ Sound(work'[p])
             /\ work'[p].write = work[p].write /\ work'[p].at # "idle" /\ ~work'[p].landed
  <2>1. work'[p] = [Idle EXCEPT !.at = "error", !.write = work[p].write, !.landed = FALSE]
    BY <1>1, <1>3 DEF Leave
  <2>2. work'[p] = [at |-> "error", write |-> work[p].write, seen |-> None, next |-> Empty(0), tries |-> 0,
                    landed |-> FALSE]
    BY <2>1 DEF Idle
  <2> QED BY <2>2 DEF Sound, WorkRecord, WorkSteps
<1>4. ASSUME work' = [work EXCEPT ![p] = [Idle EXCEPT !.at = AfterRefusal(p), !.write = work[p].write,
                                                    !.tries = work[p].tries + 1]]
      PROVE  /\ Sound(work'[p])
             /\ work'[p].write = work[p].write /\ work'[p].at # "idle" /\ ~work'[p].landed
  <2>1. work'[p] = [at |-> AfterRefusal(p), write |-> work[p].write, seen |-> None, next |-> Empty(0),
                    tries |-> work[p].tries + 1, landed |-> FALSE]
    BY <1>1, <1>4 DEF Idle
  <2>2. AfterRefusal(p) \in {"read", "conflict"}
    BY DEF AfterRefusal
  <2> QED BY <2>1, <2>2 DEF Sound, WorkRecord, WorkSteps
<1> QED BY <1>2, <1>3, <1>4 DEF Swap, Unchanged

LEMMA BroadcastMakes ==
  ASSUME DeskInv, NEW p \in Proc, Broadcast(p)
  PROVE  /\ Sound(work'[p])
         /\ work'[p].write = work[p].write /\ work'[p].at # "idle"
         /\ work'[p].landed = work[p].landed
<1>1. Sound(work[p]) /\ work = [q \in Proc |-> work[q]] /\ work[p].at = "tell" /\ work[p].landed
  BY DEF DeskInv, Broadcast, Sound
<1>2. CASE Goto(p, "ok")
  <2>1. work'[p] = [work[p] EXCEPT !.at = "ok"]
    BY <1>1, <1>2 DEF Goto
  <2> QED BY <1>1, <2>1 DEF Sound, WorkRecord, WorkSteps
<1>3. CASE Goto(p, "error")
  <2>1. work'[p] = [work[p] EXCEPT !.at = "error"]
    BY <1>1, <1>3 DEF Goto
  <2> QED BY <1>1, <2>1 DEF Sound, WorkRecord, WorkSteps
<1> QED BY <1>2, <1>3 DEF Broadcast

LEMMA BeginMakes ==
  ASSUME DeskInv, NEW p \in Proc, NEW w \in Write, BeginWrite(p, w)
  PROVE  Sound(work'[p]) /\ work'[p].write = w /\ work'[p].at = "read"
<1>1. work'[p] = [at |-> "read", write |-> w, seen |-> None, next |-> Empty(0), tries |-> 0,
                  landed |-> FALSE]
  BY DEF DeskInv, BeginWrite, Idle
<1> QED BY <1>1 DEF Sound, WorkRecord, WorkSteps

LEMMA LeaveMakes ==
  ASSUME DeskInv, NEW p \in Proc, Answer(p) \/ Die(p)
  PROVE  work'[p] = Idle
  BY DEF DeskInv, Answer, Die

LEMMA DeskInvInit == Init => DeskInv
  BY IdleSound DEF Init, DeskInit, DeskInv

LEMMA DeskInvStep == ASSUME DeskInv, DeskStep \/ UNCHANGED DeskView PROVE DeskInv'
<1>1. CASE UNCHANGED DeskView
  BY <1>1 DEF DeskView, DeskInv, Sound, WorkRecord, MadeFrom
<1>2. CASE Ticks \/ Clear
  BY <1>2 DEF Ticks, Clear, DeskInv, Sound, WorkRecord, MadeFrom
<1>3. ASSUME NEW p \in Proc, WriterStep(p) PROVE DeskInv'
  <2>1. Sound(work'[p])
    BY <1>3, ReadMakes, SwapMakes, BroadcastMakes, BeginMakes, LeaveMakes, IdleSound
       DEF WriterStep, WriteStep
  <2>2. \A q \in Proc : Sound(work'[q])
    BY <1>3, <2>1, OwnWork DEF DeskInv
  <2>3. \A q \in Proc : Sound(work[q])'
    BY <2>2 DEF Sound, WorkRecord, MadeFrom
  <2> QED BY <1>3, <2>3, OwnWork DEF DeskInv
<1> QED BY <1>1, <1>2, <1>3 DEF DeskStep
-----------------------------------------------------------------------------
(* Every step of the desk is one of the promise, or none.                      *)

LEMMA SameWrite == ASSUME NEW b, NEW w, NEW t PROVE Promise!Applied(b, w, t) = Applied(b, w, t)
<1>1. Promise!Others(b, w.id) = Others(b, w.id)
  <2>1. Promise!Kept(b.cards, {card \in Cards : card.id # w.id}) = Kept(b.cards, {card \in Cards : card.id # w.id})
    BY DEF Promise!Kept, Kept
  <2>2. Promise!Cards = Cards
    BY DEF Promise!Cards, Cards, Promise!Status, Status
  <2> QED BY <2>1, <2>2 DEF Promise!Others, Others
<1>2. Promise!StatusOf(b, w.id) = StatusOf(b, w.id)
  BY DEF Promise!StatusOf, StatusOf
<1>3. Promise!Upserted(b, w) = Upserted(b, w)
  BY <1>1, <1>2 DEF Promise!Upserted, Upserted
<1> QED BY <1>1, <1>3 DEF Promise!Applied, Applied

LEMMA SameBoard == ASSUME NEW r, NEW t PROVE Promise!BoardOf(r, t) = BoardOf(r, t)
  BY DEF Promise!BoardOf, BoardOf, Promise!Empty, Empty

LEMMA SameWrites == Promise!Write = Write
  BY DEF Promise!Write, Write, Promise!Status, Status

Fate(w) == IF w.at = "idle" THEN "none" ELSE IF w.landed THEN "applied" ELSE "asked"

\* A step that leaves write and fate of its writer alone is none.
LEMMA SilentStep ==
  ASSUME DeskInv, NEW p \in Proc, WriterStep(p), row' = row, told' = told,
         work'[p].write = work[p].write, Fate(work'[p]) = Fate(work[p])
  PROVE  UNCHANGED Promise!vars
<1>1. \A q \in Proc : work'[q].write = work[q].write /\ Fate(work'[q]) = Fate(work[q])
  BY OwnWork
<1> QED BY <1>1 DEF Promise!vars, Fate

LEMMA PromiseStep == ASSUME DeskInv, DeskStep \/ UNCHANGED DeskView PROVE [Promise!Next]_(Promise!vars)
<1>1. CASE UNCHANGED DeskView
  BY <1>1 DEF DeskView, Promise!vars
<1>2. CASE Ticks
  BY <1>2 DEF Ticks, Promise!vars
<1>3. CASE Clear
  <2>1. CASE row' = row
    BY <1>3, <2>1 DEF Clear, Promise!vars
  <2>2. CASE row' # row
    <3>1. row' = Empty(clock) /\ row'.at = clock /\ clock \in Nat
      BY <1>3 DEF Clear, DeskInv, Empty
    <3> QED BY <1>3, <2>2, <3>1 DEF Clear, Promise!Next, Promise!Clear, Promise!Empty, Empty
  <2> QED BY <2>1, <2>2
<1>4. ASSUME NEW p \in Proc, WriterStep(p) PROVE [Promise!Next]_(Promise!vars)
  <2>1. Sound(work[p])
    BY DEF DeskInv
  <2>2. CASE Read(p)
    <3>1. Fate(work'[p]) = Fate(work[p])
      BY <2>1, <2>2, ReadMakes DEF Fate, Read, Sound
    <3> QED BY <1>4, <2>2, <3>1, ReadMakes, SilentStep DEF Read
  <2>3. CASE Broadcast(p)
    <3>1. Fate(work'[p]) = Fate(work[p])
      BY <2>1, <2>3, BroadcastMakes DEF Fate, Broadcast, Sound
    <3> QED BY <1>4, <2>3, <3>1, BroadcastMakes, SilentStep DEF Broadcast
  <2>4. CASE Swap(p)
    <3>1. work[p].at = "swap" /\ ~work[p].landed /\ MadeFrom(work[p]) /\ told' = told
      BY <2>1, <2>4 DEF Swap, Sound
    <3>2. CASE ~work'[p].landed
      <4>1. Fate(work'[p]) = Fate(work[p])
        BY <2>4, <3>1, <3>2, SwapMakes DEF Fate
      <4> QED BY <1>4, <2>4, <3>1, <3>2, <4>1, SwapMakes, SilentStep
    <3>3. CASE row' = work[p].next /\ row = work[p].seen /\ work'[p].landed
      <4>1. row'.at \in Nat /\ row' = Promise!Applied(Promise!BoardOf(row, row'.at), work[p].write, row'.at)
        BY <3>1, <3>3, SameWrite, SameBoard DEF MadeFrom
      <4>2. Fate(work[p]) = "asked" /\ Fate(work'[p]) = "applied"
        BY <2>4, <3>1, <3>3, SwapMakes DEF Fate
      <4>3. \A q \in Proc : work'[q].write = work[q].write
        BY <1>4, <2>4, OwnWork, SwapMakes
      <4>4. \A q \in Proc \ {p} : Fate(work'[q]) = Fate(work[q])
        BY <1>4, OwnWork
      <4>5. Promise!Apply(p)
        BY <3>1, <4>1, <4>2, <4>3, <4>4 DEF Promise!Apply, Fate
      <4> QED BY <4>5 DEF Promise!Next
    <3> QED BY <2>4, <3>2, <3>3, SwapMakes
  <2>5. ASSUME NEW w \in Write, BeginWrite(p, w) PROVE Promise!Ask(p)
    <3>1. row' = row /\ told' = told /\ Fate(work[p]) = "none" /\ Fate(work'[p]) = "asked"
      <4>1. ~work'[p].landed
        BY <2>5, BeginMakes DEF Sound
      <4> QED BY <2>5, <4>1, BeginMakes DEF BeginWrite, Fate
    <3>2. \A q \in Proc \ {p} : work'[q].write = work[q].write /\ Fate(work'[q]) = Fate(work[q])
      BY <1>4, OwnWork
    <3>3. work'[p].write = w /\ w \in Promise!Write
      BY <2>5, BeginMakes, SameWrites
    <3> QED BY <3>1, <3>2, <3>3 DEF Promise!Ask, Fate
  <2>6. CASE Answer(p) \/ Die(p)
    <3>1. row' = row /\ Fate(work[p]) # "none" /\ Fate(work'[p]) = "none" /\ work'[p].write = None
      BY <2>6, LeaveMakes DEF Answer, Die, Fate, Idle
    <3>2. \A q \in Proc \ {p} : work'[q].write = work[q].write /\ Fate(work'[q]) = Fate(work[q])
      BY <1>4, OwnWork
    <3>3. CASE Die(p)
      <4>1. Promise!Drop(p)
        <5>1. told' = told /\ [q \in Proc |-> work'[q].write] = [[q \in Proc |-> work[q].write] EXCEPT ![p] = None]
          <6>1. told' = told
            BY <3>3 DEF Die
          <6>2. \A q \in Proc : work'[q].write = IF q = p THEN None ELSE work[q].write
            BY <3>1, <3>2
          <6> QED BY <6>1, <6>2
        <5>2. [q \in Proc |-> Fate(work'[q])] = [[q \in Proc |-> Fate(work[q])] EXCEPT ![p] = "none"]
          BY <3>1, <3>2
        <5>3. [q \in Proc |-> Fate(work[q])][p] # "none"
          BY <3>1
        <5> QED BY <3>1, <5>1, <5>2, <5>3 DEF Promise!Drop, Fate
      <4> QED BY <4>1 DEF Promise!Next
    <3>4. CASE Answer(p)
      <4>1. told' = [told EXCEPT ![p] = work[p].at] /\ work[p].at \in {"ok", "conflict", "error"}
        BY <3>4 DEF Answer
      <4>2. /\ work[p].at = "ok" => Fate(work[p]) = "applied"
            /\ work[p].at = "conflict" => Fate(work[p]) = "asked"
        BY <2>1 DEF Sound, Fate
      <4>3. PICK a \in {"ok", "conflict", "error"} : a = work[p].at
        BY <4>1
      <4>4. Promise!Answer(p, a)
        BY <3>1, <3>2, <4>1, <4>2, <4>3 DEF Promise!Answer, Fate
      <4> QED BY <4>4 DEF Promise!Next
    <3> QED BY <2>6, <3>3, <3>4
  <2> QED BY <1>4, <2>2, <2>3, <2>4, <2>5, <2>6 DEF WriterStep, WriteStep, Promise!Next
<1> QED BY <1>1, <1>2, <1>3, <1>4 DEF DeskStep

LEMMA PromiseInit == Init => Promise!Init
  BY DEF Init, DeskInit, Idle, Promise!Init

LEMMA DeskInductive == (IssuesTyped /\ DeskInv) /\ [Next]_vars => (IssuesTyped /\ DeskInv)'
  BY IssuesTypedStep, StepsOfTheDesk, DeskInvStep

LEMMA DeskRefines == (IssuesTyped /\ DeskInv) /\ [Next]_vars => [Promise!Next]_(Promise!vars)
  BY StepsOfTheDesk, PromiseStep

\* KeepsDesk, for every number of writers, cards, attempts and failures: a write
\* that is confirmed is applied once, to the board of that moment; one that ends
\* in a conflict is not.
THEOREM KeepsDeskHolds == Spec => KeepsDesk
  BY IssuesTypedInit, DeskInvInit, PromiseInit, DeskInductive, DeskRefines, PTL
     DEF Spec, KeepsDesk, Promise!Spec
-----------------------------------------------------------------------------
(* One issue per fingerprint.  While nothing goes wrong, whoever is about to   *)
(* file an error is alone, holds its row without a number, and finds no issue. *)

Filing(p) == report[p].at \in {"create", "remember"}

OneFiler ==
  /\ \A p, q \in Proc : Filing(p) /\ Filing(q) /\ report[p].print = report[q].print => p = q
  /\ \A p \in Proc : Filing(p) => marks[report[p].print].there /\ marks[report[p].print].number = 0
  /\ \A p \in Proc : report[p].at = "create" =>
        \A n \in DOMAIN issues : issues[n].print # report[p].print

Filed ==
  /\ \A n \in DOMAIN issues : issues[n].open /\ marks[issues[n].print].there
  /\ \A m, n \in DOMAIN issues : issues[m].print = issues[n].print => m = n

Numbered ==
  /\ \A e \in Fingerprint : marks[e].number <= Len(issues)
  /\ \A p \in Proc : /\ report[p].number <= Len(issues)
                     /\ report[p].at = "check" => report[p].number > 0

Claims == OneFiler /\ Filed /\ Numbered
IssueInv == IssuesTyped /\ faults \in Nat /\ (calm /\ faults = 0 => Claims)

LEMMA PrintKnown ==
  ASSUME IssuesTyped, NEW n \in DOMAIN issues
  PROVE  issues[n] \in Issues /\ issues[n].print \in Fingerprint
<1>1. issues \in Seq(Issues) /\ n \in 1..Len(issues)
  BY DEF IssuesTyped
<1>2. issues[n] \in Issues
  BY <1>1, ElementOfSeq
<1> QED BY <1>2 DEF Issues

\* Nothing that went wrong is forgotten.
LEMMA StillCalm ==
  ASSUME IssueInv, [Next]_vars
  PROVE  faults' \in Nat /\ (calm' /\ faults' = 0 => calm /\ faults = 0)
<1>1. CASE UNCHANGED vars
  BY <1>1 DEF vars, issueVars, deskVars, IssueInv
<1>2. CASE Desk
  <2>1. calm' = calm
    BY <1>2 DEF Desk, issueVars
  <2>2. CASE Ticks \/ Clear
    BY <2>1, <2>2 DEF Ticks, Clear, IssueInv
  <2>3. ASSUME NEW p \in Proc, WriteStep(p) \/ Die(p) PROVE faults' \in {faults, faults + 1}
    BY <2>3 DEF WriteStep, Read, Swap, Broadcast, Answer, Die, Fault, NoFault
  <2> QED BY <1>2, <2>1, <2>2, <2>3 DEF Desk, IssueInv
<1>3. ASSUME NEW p \in Proc, WriteElsewhere(p) \/ ReportStep(p) \/ \E e \in Fingerprint : Report(p, e)
      PROVE  faults' \in Nat /\ (calm' /\ faults' = 0 => calm /\ faults = 0)
  <2>1. CASE WriteElsewhere(p)
    BY <2>1 DEF WriteElsewhere, BeginWrite, issueVars, IssueInv
  <2>2. CASE \E e \in Fingerprint : Report(p, e)
    BY <2>2 DEF Report, deskVars, IssueInv
  <2>3. CASE ReportStep(p)
    BY <2>3 DEF ReportStep, Claim, Look, CheckOpen, AwaitNumber, StopWaiting, Touch, Create, Remember,
                DieReporting, BeginWrite, Quiet, Fault, NoFault, IssueInv
  <2> QED BY <1>3, <2>1, <2>2, <2>3
<1>4. CASE (\E e \in Fingerprint : Age(e)) \/ \E n \in DOMAIN issues : CloseIssue(n)
  BY <1>4 DEF Age, CloseIssue, Quiet, NoFault, IssueInv
<1> QED BY <1>1, <1>2, <1>3, <1>4 DEF Next

\* The request p goes on, the rows change at most for its error.
Onward(p, step, n) ==
  /\ report'[p].at = step /\ report'[p].number = n /\ report'[p].print = report[p].print
  /\ \A q \in Proc \ {p} : report'[q] = report[q]

LEMMA OnwardTo ==
  ASSUME IssuesTyped, NEW p \in Proc, NEW step, NEW n
  PROVE  /\ report' = [report EXCEPT ![p].at = step] => Onward(p, step, report[p].number)
         /\ report' = [report EXCEPT ![p] = [@ EXCEPT !.at = step, !.number = n]] => Onward(p, step, n)
<1>1. ASSUME report' = [report EXCEPT ![p].at = step] PROVE Onward(p, step, report[p].number)
  BY <1>1 DEF IssuesTyped, Reports, Onward
<1>2. ASSUME report' = [report EXCEPT ![p] = [@ EXCEPT !.at = step, !.number = n]] PROVE Onward(p, step, n)
  <2>1. report'[p] = [report[p] EXCEPT !.at = step, !.number = n]
    BY <1>2 DEF IssuesTyped
  <2>2. report[p] \in Reports
    BY DEF IssuesTyped
  <2>3. report'[p].at = step /\ report'[p].number = n /\ report'[p].print = report[p].print
    BY <2>1, <2>2 DEF Reports
  <2> QED BY <1>2, <2>3 DEF IssuesTyped, Onward
<1> QED BY <1>1, <1>2

\* A request that ends takes nothing from the others.
LEMMA EndedClaims ==
  ASSUME IssuesTyped, Claims, NEW p \in Proc, report' = [report EXCEPT ![p] = IdleReport],
         UNCHANGED <<marks, issues>>
  PROVE  Claims'
<1>1. report'[p] = IdleReport /\ \A q \in Proc \ {p} : report'[q] = report[q]
  BY DEF IssuesTyped
<1>2. Len(issues) \in Nat
  BY DEF IssuesTyped
<1> QED BY <1>1, <1>2 DEF Claims, OneFiler, Filed, Numbered, Filing, IdleReport

\* The steps of a request that has nothing to file.
LEMMA QuietClaims ==
  ASSUME IssuesTyped, Claims, NEW p \in Proc, NEW step \in {"look", "wait", "touch"},
         Onward(p, step, report[p].number), UNCHANGED <<marks, issues>>
  PROVE  Claims'
<1>2. Len(issues) \in Nat
  BY DEF IssuesTyped
<1> QED BY <1>2 DEF Claims, OneFiler, Filed, Numbered, Filing, Onward

\* The steps of a request that files.
LEMMA ClaimClaims ==
  ASSUME IssueInv, Claims, NEW p \in Proc, Claim(p)
  PROVE  Claims'
<1>1. report[p].print \in Fingerprint /\ report[p].at = "claim"
  BY DEF IssueInv, IssuesTyped, Claim, ReportAt
<1>2. issues' = issues /\ Len(issues) \in Nat /\ IssuesTyped
  BY DEF Claim, IssueInv, IssuesTyped
<1>3. CASE Mark(p).there
  <2>1. marks' = marks /\ report' = [report EXCEPT ![p].at = "look"]
    BY <1>3 DEF Claim, ReportTo
  <2> QED BY <1>2, <2>1, OnwardTo, QuietClaims
<1>4. CASE ~Mark(p).there
  <2>1. marks' = [marks EXCEPT ![report[p].print] = [number |-> 0, recent |-> TRUE, there |-> TRUE]]
    BY <1>4 DEF Claim
  <2>2. report' = [report EXCEPT ![p].at = "create"]
    BY <1>4 DEF Claim, ReportTo
  <2>3. Onward(p, "create", report[p].number)
    BY <1>2, <2>2, OnwardTo
  <2>4. \A e \in Fingerprint : marks'[e] = IF e = report[p].print
                                        THEN [number |-> 0, recent |-> TRUE, there |-> TRUE] ELSE marks[e]
    BY <1>1, <1>2, <2>1 DEF IssuesTyped
  <2>5. ~marks[report[p].print].there
    BY <1>4 DEF Mark
  <2>6. /\ \A q \in Proc : Filing(q) => report[q].print # report[p].print /\ report[q].print \in Fingerprint
        /\ \A n \in DOMAIN issues : issues[n].print # report[p].print /\ issues[n].print \in Fingerprint
    BY <1>2, <2>5, PrintKnown DEF Claims, OneFiler, Filed, Filing, IssuesTyped
  <2>7. OneFiler'
    BY <1>1, <1>2, <2>3, <2>4, <2>6 DEF Claims, OneFiler, Filing, Onward
  <2>8. Filed'
    BY <1>2, <2>4, <2>6 DEF Claims, Filed
  <2>9. Numbered'
    BY <1>2, <2>3, <2>4 DEF Claims, Numbered, Onward
  <2> QED BY <2>7, <2>8, <2>9 DEF Claims
<1> QED BY <1>3, <1>4

LEMMA LookClaims ==
  ASSUME IssueInv, Claims, NEW p \in Proc, Look(p) \/ AwaitNumber(p)
  PROVE  Claims'
<1>1. marks' = marks /\ issues' = issues /\ Len(issues) \in Nat /\ IssuesTyped
  BY DEF IssueInv, IssuesTyped, Look, AwaitNumber
<1>2. report[p].print \in Fingerprint
  BY DEF IssueInv, IssuesTyped, Look, AwaitNumber, ReportAt
<1>3. CASE report' = [report EXCEPT ![p].at = "wait"]
  BY <1>1, <1>3, OnwardTo, QuietClaims
<1>4. ASSUME NEW step \in {"check", "touch"}, Mark(p).number > 0,
             report' = [report EXCEPT ![p] = [@ EXCEPT !.at = step, !.number = Mark(p).number]]
      PROVE  Claims'
  <2>1. Onward(p, step, Mark(p).number)
    BY <1>1, <1>4, OnwardTo
  <2>2. Mark(p).number <= Len(issues)
    BY <1>2 DEF Claims, Numbered, Mark
  <2> QED BY <1>1, <1>4, <2>1, <2>2 DEF Claims, OneFiler, Filed, Numbered, Filing, Onward
<1> QED BY <1>3, <1>4 DEF Look, AwaitNumber, ReportTo

LEMMA CheckClaims ==
  ASSUME IssueInv, Claims, NEW p \in Proc, CheckOpen(p), faults' = faults
  PROVE  Claims'
<1>1. marks' = marks /\ issues' = issues /\ Len(issues) \in Nat /\ IssuesTyped
  BY DEF IssueInv, IssuesTyped, CheckOpen
<1>2. report[p].number \in DOMAIN issues
  BY <1>1 DEF IssuesTyped, Reports, CheckOpen, ReportAt, Claims, Numbered
<1>3. issues[report[p].number].open
  BY <1>2 DEF Claims, Filed
<1>4. report' = [report EXCEPT ![p].at = "touch"]
  BY <1>3 DEF CheckOpen, Fault, ReportTo, IssueInv
<1> QED BY <1>1, <1>4, OnwardTo, QuietClaims

LEMMA TouchClaims ==
  ASSUME IssueInv, Claims, NEW p \in Proc, Touch(p)
  PROVE  Claims'
<1>1. report[p].print \in Fingerprint
  BY DEF IssueInv, IssuesTyped, Touch, ReportAt
<1>2. issues' = issues /\ Len(issues) \in Nat /\ IssuesTyped
  BY DEF Touch, IssueInv, IssuesTyped
<1>3. \A e \in Fingerprint : marks'[e].number = marks[e].number /\ marks'[e].there = marks[e].there
  BY <1>1, <1>2 DEF Touch, IssuesTyped, Marks
<1>4. report'[p] = IdleReport /\ \A q \in Proc \ {p} : report'[q] = report[q]
  BY <1>2 DEF IssuesTyped, Touch
<1>5. \A n \in DOMAIN issues : issues[n].print \in Fingerprint
  BY <1>2, PrintKnown
<1>6. \A q \in Proc : Filing(q) => report[q].print \in Fingerprint
  BY <1>2 DEF IssuesTyped, Filing
<1> QED BY <1>2, <1>3, <1>4, <1>5, <1>6 DEF Claims, OneFiler, Filed, Numbered, Filing, IdleReport

LEMMA AgeClaims ==
  ASSUME IssueInv, Claims, NEW e \in Fingerprint, Age(e)
  PROVE  Claims'
<1>1. UNCHANGED <<issues, report>> /\ IssuesTyped
  BY DEF Age, IssueInv
<1>2. \A f \in Fingerprint : marks'[f].number = marks[f].number /\ marks'[f].there = marks[f].there
  BY <1>1 DEF Age, IssuesTyped, Marks
<1>3. \A n \in DOMAIN issues : issues[n].print \in Fingerprint
  BY <1>1, PrintKnown
<1>4. \A q \in Proc : Filing(q) => report[q].print \in Fingerprint
  BY <1>1 DEF IssuesTyped, Filing
<1> QED BY <1>1, <1>2, <1>3, <1>4 DEF Claims, OneFiler, Filed, Numbered, Filing

\* The issue of a request that files is the first of its error.
LEMMA CreateClaims ==
  ASSUME IssueInv, Claims, NEW p \in Proc, Create(p), faults' = faults
  PROVE  Claims'
<1>1. marks' = marks /\ Len(issues) \in Nat /\ IssuesTyped /\ issues \in Seq(Issues)
  BY DEF Create, IssueInv, IssuesTyped
<1>2. report[p].print \in Fingerprint /\ report[p].at = "create"
  BY DEF IssueInv, IssuesTyped, Create, ReportAt
<1>3. /\ issues' = Append(issues, [print |-> report[p].print, open |-> TRUE])
      /\ report' = [report EXCEPT ![p] = [@ EXCEPT !.at = "remember", !.number = Len(issues')]]
  BY DEF Create, Fault, IssueInv
<1>4. [print |-> report[p].print, open |-> TRUE] \in Issues
  BY <1>2 DEF Issues
<1>5. /\ Len(issues') = Len(issues) + 1 /\ DOMAIN issues' = 1..(Len(issues) + 1)
      /\ \A n \in 1..Len(issues) : issues'[n] = issues[n]
      /\ issues'[Len(issues) + 1] = [print |-> report[p].print, open |-> TRUE]
  <2>1. issues' \in Seq(Issues)
    BY <1>1, <1>3, <1>4, AppendProperties
  <2> QED BY <1>1, <1>3, <1>4, <2>1, AppendProperties
<1>6. Onward(p, "remember", Len(issues'))
  BY <1>1, <1>3, OnwardTo
<1>7. \A q \in Proc \ {p} : Filing(q) => report[q].print # report[p].print
  BY <1>2 DEF Claims, OneFiler, Filing
<1>8. OneFiler'
  BY <1>1, <1>2, <1>5, <1>6, <1>7 DEF Claims, OneFiler, Filing, Onward
<1>9. Filed'
  BY <1>1, <1>2, <1>5 DEF Claims, Filed, OneFiler, Filing
<1>10. Numbered'
  <2>1. /\ \A e \in Fingerprint : marks[e].number \in Nat
        /\ \A q \in Proc : report[q].number \in Nat
    BY <1>1 DEF IssuesTyped, Marks, Reports
  <2>2. /\ \A e \in Fingerprint : marks'[e].number <= Len(issues) + 1
        /\ \A q \in Proc \ {p} : report'[q].number <= Len(issues) + 1
    BY <1>1, <1>6, <2>1 DEF Claims, Numbered, Onward
  <2>3. \A q \in Proc \ {p} : report'[q].at = "check" => report'[q].number > 0
    BY <1>6 DEF Claims, Numbered, Onward
  <2> QED BY <1>1, <1>5, <1>6, <2>2, <2>3 DEF Numbered, Onward
<1> QED BY <1>8, <1>9, <1>10 DEF Claims

LEMMA RememberClaims ==
  ASSUME IssueInv, Claims, NEW p \in Proc, Remember(p), faults' = faults
  PROVE  Claims'
<1>1. issues' = issues /\ Len(issues) \in Nat /\ IssuesTyped
  BY DEF Remember, IssueInv, IssuesTyped
<1>2. report[p].print \in Fingerprint /\ report[p].at = "remember"
  BY DEF IssueInv, IssuesTyped, Remember, ReportAt
<1>3. /\ marks' = [marks EXCEPT ![report[p].print] =
                     [number |-> report[p].number, recent |-> TRUE, there |-> TRUE]]
      /\ report' = [report EXCEPT ![p] = IdleReport]
  BY DEF Remember, Fault, IssueInv
<1>4. report'[p] = IdleReport /\ \A q \in Proc \ {p} : report'[q] = report[q]
  BY <1>1, <1>3 DEF IssuesTyped
<1>5. \A e \in Fingerprint : marks'[e] = IF e = report[p].print
         THEN [number |-> report[p].number, recent |-> TRUE, there |-> TRUE] ELSE marks[e]
  BY <1>1, <1>2, <1>3 DEF IssuesTyped
<1>6. \A q \in Proc \ {p} : Filing(q) => report[q].print # report[p].print /\ report[q].print \in Fingerprint
  BY <1>1, <1>2 DEF Claims, OneFiler, Filing, IssuesTyped
<1>7. \A n \in DOMAIN issues : issues[n].print \in Fingerprint
  BY <1>1, PrintKnown
<1>8. OneFiler'
  BY <1>1, <1>4, <1>5, <1>6 DEF Claims, OneFiler, Filing, IdleReport
<1>9. Filed'
  BY <1>1, <1>5, <1>7 DEF Claims, Filed
<1>10. Numbered'
  BY <1>1, <1>4, <1>5 DEF Claims, Numbered, IdleReport
<1> QED BY <1>8, <1>9, <1>10 DEF Claims

LEMMA IssueInvInit == Init => IssueInv
  BY IssuesTypedInit DEF Init, DeskInit, IssueInv, Claims, OneFiler, Filed, Numbered, Filing, NoMark, IdleReport

LEMMA IssueInvStep == IssueInv /\ [Next]_vars => IssueInv'
<1> SUFFICES ASSUME IssueInv, [Next]_vars PROVE IssueInv'
  OBVIOUS
<1>1. IssuesTyped'
  BY IssuesTypedStep DEF IssueInv
<1>2. faults' \in Nat
  BY StillCalm
<1>3. ASSUME calm', faults' = 0 PROVE Claims'
  <2>1. calm /\ faults = 0 /\ faults' = faults /\ Claims
    BY <1>3, StillCalm DEF IssueInv
  <2>2. CASE UNCHANGED issueVars
    BY <2>1, <2>2 DEF issueVars, Claims, OneFiler, Filed, Numbered, Filing
  <2>3. CASE UNCHANGED vars \/ Desk
    BY <2>2, <2>3 DEF vars, Desk
  <2>4. ASSUME NEW p \in Proc, WriteElsewhere(p) \/ ReportStep(p) \/ \E e \in Fingerprint : Report(p, e)
        PROVE  Claims'
    <3>1. CASE WriteElsewhere(p)
      BY <2>2, <3>1 DEF WriteElsewhere
    <3>2. ASSUME NEW e \in Fingerprint, Report(p, e) PROVE Claims'
      <4>1. UNCHANGED <<marks, issues>> /\ IssuesTyped /\ Len(issues) \in Nat
        BY <3>2 DEF Report, IssueInv, IssuesTyped
      <4>2. /\ report'[p] = [at |-> "claim", print |-> e, number |-> 0]
            /\ \A q \in Proc \ {p} : report'[q] = report[q]
        BY <3>2, <4>1 DEF Report, IssuesTyped
      <4> QED BY <2>1, <4>1, <4>2 DEF Claims, OneFiler, Filed, Numbered, Filing
    <3>3. CASE StopWaiting(p) \/ DieReporting(p)
      BY <1>3, <2>1, <3>3 DEF StopWaiting, DieReporting, Fault
    <3>4. CASE ReportStep(p)
      BY <2>1, <3>3, <3>4, ClaimClaims, LookClaims, CheckClaims, TouchClaims, CreateClaims, RememberClaims
         DEF ReportStep
    <3> QED BY <2>4, <3>1, <3>2, <3>4
  <2>5. ASSUME NEW e \in Fingerprint, Age(e) PROVE Claims'
    BY <2>1, <2>5, AgeClaims
  <2>6. ASSUME NEW n \in DOMAIN issues, CloseIssue(n) PROVE Claims'
    BY <1>3, <2>6 DEF CloseIssue
  <2> QED BY <2>3, <2>4, <2>5, <2>6 DEF Next
<1> QED BY <1>1, <1>2, <1>3 DEF IssueInv

\* OneIssuePerFingerprint, for every number of requests, errors and issues: as
\* long as nobody runs out of patience and nothing fails, whoever files an error
\* is the only one to.
THEOREM OneIssueHolds == Spec => []OneIssuePerFingerprint
<1>1. IssueInv => OneIssuePerFingerprint
  BY DEF IssueInv, Claims, Filed, OneIssuePerFingerprint
<1> QED BY IssueInvInit, IssueInvStep, <1>1, PTL DEF Spec
-----------------------------------------------------------------------------
(* Types.  What a write makes of a board is a board: no card twice, and not    *)
(* more of them than the desk has room for.                                    *)

GoodBoard(b) ==
  /\ b \in Board
  /\ Len(b.cards) <= MaxCards
  /\ \A i, j \in DOMAIN b.cards : b.cards[i].id = b.cards[j].id => i = j

LEMMA EmptyGood == ASSUME NEW t \in Nat PROVE GoodBoard(Empty(t))
<1>1. <<>> \in Seq(Cards) /\ Len(<<>>) = 0
  BY EmptySeq
<1> QED BY <1>1, DeskAssumption DEF GoodBoard, Board, Empty

LEMMA OthersGood ==
  ASSUME NEW b, GoodBoard(b), NEW id
  PROVE  /\ Others(b, id) \in Seq(Cards) /\ Len(Others(b, id)) <= Len(b.cards)
         /\ \A i, j \in 1..Len(Others(b, id)) : Others(b, id)[i].id = Others(b, id)[j].id => i = j
         /\ \A i \in 1..Len(Others(b, id)) : Others(b, id)[i].id # id
<1> DEFINE r == Others(b, id)
           S == {card \in Cards : card.id # id}
<1>1. b.cards \in Seq(Cards) /\ Len(b.cards) \in Nat /\ DOMAIN b.cards = 1..Len(b.cards)
  BY LenProperties DEF GoodBoard, Board
<1>2. r = Kept(b.cards, S)
  BY DEF Others
<1> HIDE DEF r
<1>3. r \in Seq(Cards) /\ Len(r) <= Len(b.cards)
      /\ \E from : IsSelection(r, b.cards, Len(b.cards), S, from)
  BY <1>1, <1>2, KeptProperties
<1>4. PICK from : IsSelection(r, b.cards, Len(b.cards), S, from)
  BY <1>3
<1>5. \A i \in 1..Len(r) : from[i] \in 1..Len(b.cards) /\ r[i] = b.cards[from[i]] /\ r[i].id # id
  BY <1>4 DEF IsSelection
<1>6. ASSUME NEW i \in 1..Len(r), NEW j \in 1..Len(r), r[i].id = r[j].id PROVE i = j
  <2>1. from[i] = from[j]
    <3>1. from[i] \in DOMAIN b.cards /\ from[j] \in DOMAIN b.cards
      BY <1>1, <1>5
    <3>2. b.cards[from[i]].id = b.cards[from[j]].id
      BY <1>5, <1>6
    <3> QED BY <3>1, <3>2 DEF GoodBoard
  <2>2. \A m, n \in 1..Len(r) : m < n => from[m] < from[n]
    BY <1>4 DEF IsSelection
  <2>3. from[i] \in Nat /\ i \in Nat /\ j \in Nat
    BY <1>3, <1>5, LenProperties
  <2>4. ~(i < j) /\ ~(j < i)
    BY <2>1, <2>2, <2>3
  <2> QED BY <2>3, <2>4
<1>7. r \in Seq(Cards) /\ Len(r) <= Len(b.cards)
      /\ (\A i, j \in 1..Len(r) : r[i].id = r[j].id => i = j) /\ \A i \in 1..Len(r) : r[i].id # id
  BY <1>3, <1>5, <1>6
<1> QED BY <1>7 DEF r

LEMMA StatusOfCard ==
  ASSUME NEW b, GoodBoard(b), NEW id
  PROVE  StatusOf(b, id) \in Status
<1>1. b.cards \in Seq(Cards) /\ DOMAIN b.cards = 1..Len(b.cards)
  BY LenProperties DEF GoodBoard, Board
<1>2. \A i \in DOMAIN b.cards : b.cards[i].status \in Status
  <2>1. \A i \in 1..Len(b.cards) : b.cards[i] \in Cards
    BY <1>1, ElementOfSeq
  <2> QED BY <1>1, <2>1 DEF Cards
<1> QED BY <1>2 DEF StatusOf, Status

LEMMA UpsertedGood ==
  ASSUME NEW b, GoodBoard(b), NEW w \in Write, w.kind = "upsert"
  PROVE  /\ Upserted(b, w) \in Seq(Cards) /\ Len(Upserted(b, w)) <= MaxCards
         /\ \A i, j \in DOMAIN Upserted(b, w) : Upserted(b, w)[i].id = Upserted(b, w)[j].id => i = j
<1> DEFINE card == [id |-> w.id, title |-> w.title,
                    status |-> IF w.status = None THEN StatusOf(b, w.id) ELSE w.status]
           rest == Others(b, w.id)
           all == <<card>> \o rest
           most == IF Len(all) > MaxCards THEN SubSeq(all, 1, MaxCards) ELSE all
<1>1. w.id \in Card /\ w.title \in Title /\ w.status \in Status \union {None}
  BY DEF Write
<1>2. card \in Cards /\ card.id = w.id
  BY <1>1, StatusOfCard DEF Cards
<1>3. /\ rest \in Seq(Cards) /\ Len(rest) \in Nat
      /\ \A i, j \in 1..Len(rest) : rest[i].id = rest[j].id => i = j
      /\ \A i \in 1..Len(rest) : rest[i].id # w.id
  BY OthersGood, LenProperties
<1>4. Upserted(b, w) = most
  BY DEF Upserted
<1> HIDE DEF card, rest
<1>5. /\ all \in Seq(Cards) /\ Len(all) = Len(rest) + 1
      /\ all[1] = card /\ \A i \in 1..Len(rest) : all[i + 1] = rest[i]
  <2>1. <<card>> \in Seq(Cards) /\ Len(<<card>>) = 1 /\ <<card>>[1] = card
    BY <1>2
  <2>2. /\ all \in Seq(Cards) /\ Len(all) = 1 + Len(rest)
        /\ \A i \in 1..(1 + Len(rest)) : all[i] = IF i <= 1 THEN <<card>>[i] ELSE rest[i - 1]
    BY <1>3, <2>1, ConcatProperties
  <2> HIDE DEF all
  <2>3. 1 \in 1..(1 + Len(rest)) /\ \A i \in 1..Len(rest) : i + 1 \in 1..(1 + Len(rest)) /\ i + 1 > 1 /\ (i + 1) - 1 = i
    BY <1>3
  <2>4. \A i \in 1..Len(rest) : all[i + 1] = rest[i]
    BY <1>3, <2>2, <2>3
  <2>5. all[1] = card
    BY <2>1, <2>2, <2>3
  <2> QED BY <1>3, <2>2, <2>4, <2>5
<1> HIDE DEF all
<1>6. ASSUME NEW i \in 1..Len(all), NEW j \in 1..Len(all), all[i].id = all[j].id PROVE i = j
  <2>1. \A k \in 2..Len(all) : k - 1 \in 1..Len(rest) /\ all[k] = rest[k - 1]
    <3>1. ASSUME NEW k \in 2..Len(all) PROVE k - 1 \in 1..Len(rest) /\ all[k] = rest[k - 1]
      <4>1. k - 1 \in 1..Len(rest) /\ (k - 1) + 1 = k
        BY <1>3, <1>5
      <4> QED BY <1>5, <4>1
    <3> QED BY <3>1
  <2>2. CASE i = 1 /\ j = 1
    BY <2>2
  <2>0. \A k \in 2..Len(all) : all[k].id # all[1].id
    BY <1>2, <1>3, <1>5, <2>1
  <2>3. CASE i = 1 /\ j \in 2..Len(all)
    BY <1>6, <2>0, <2>3
  <2>4. CASE i \in 2..Len(all) /\ j = 1
    BY <1>6, <2>0, <2>4
  <2>5. CASE i \in 2..Len(all) /\ j \in 2..Len(all)
    <3>1. i - 1 \in 1..Len(rest) /\ j - 1 \in 1..Len(rest) /\ rest[i - 1].id = rest[j - 1].id
      BY <1>6, <2>1, <2>5
    <3>2. i - 1 = j - 1
      BY <1>3, <3>1
    <3> QED BY <2>5, <3>2
  <2> QED BY <1>3, <1>5, <2>2, <2>3, <2>4, <2>5
<1>7. MaxCards \in Nat \ {0} /\ Len(all) \in Nat \ {0}
  BY <1>3, <1>5, DeskAssumption
<1>8. CASE Len(all) > MaxCards
  <2>1. 1 \in 1..(Len(all) + 1) /\ MaxCards \in 0..Len(all) /\ 1 <= MaxCards
    BY <1>7, <1>8
  <2>2. \A i \in 1..MaxCards : i \in 1..Len(all)
    BY <1>7, <1>8
  <2>3. /\ SubSeq(all, 1, MaxCards) \in Seq(Cards)
        /\ Len(SubSeq(all, 1, MaxCards)) = MaxCards
        /\ \A i \in 1..MaxCards : SubSeq(all, 1, MaxCards)[i] = all[i]
    BY <1>5, <1>7, <2>1, <2>2, SubSeqProperties
  <2>4. DOMAIN SubSeq(all, 1, MaxCards) = 1..MaxCards
    BY <2>3, LenProperties
  <2>5. most = SubSeq(all, 1, MaxCards)
    BY <1>8
  <2>6. \A i, j \in DOMAIN most : most[i].id = most[j].id => i = j
    BY <1>6, <2>2, <2>3, <2>4, <2>5
  <2> HIDE DEF most
  <2>7. most \in Seq(Cards) /\ Len(most) <= MaxCards
    <3>1. most \in Seq(Cards) /\ Len(most) = MaxCards
      BY <2>3, <2>5
    <3> QED BY <3>1, <1>7
  <2> QED BY <1>4, <2>6, <2>7
<1>9. CASE ~(Len(all) > MaxCards)
  <2>1. most = all /\ Len(all) <= MaxCards /\ DOMAIN all = 1..Len(all)
    BY <1>5, <1>7, <1>9, LenProperties
  <2> QED BY <1>4, <1>5, <1>6, <2>1
<1> QED BY <1>8, <1>9

\* A write makes of a desk a desk: no card is on it twice, and there are no more
\* of them than it has room for (upsertDeskCard and removeDeskCard of
\* desk-board.ts).
THEOREM AppliedGood ==
  ASSUME NEW b, GoodBoard(b), NEW w \in Write, NEW t \in Nat
  PROVE  GoodBoard(Applied(b, w, t))
<1>1. CASE w.kind = "upsert"
  <2>1. Applied(b, w, t) = [cards |-> Upserted(b, w), at |-> t]
    BY <1>1 DEF Applied
  <2> QED BY <1>1, <2>1, UpsertedGood DEF GoodBoard, Board
<1>2. CASE w.kind # "upsert"
  <2>1. Applied(b, w, t) = [cards |-> Others(b, w.id), at |-> t]
    BY <1>2 DEF Applied
  <2>2. /\ Others(b, w.id) \in Seq(Cards) /\ Len(Others(b, w.id)) <= Len(b.cards)
        /\ DOMAIN Others(b, w.id) = 1..Len(Others(b, w.id))
        /\ \A i, j \in 1..Len(Others(b, w.id)) :
             Others(b, w.id)[i].id = Others(b, w.id)[j].id => i = j
    BY OthersGood, LenProperties
  <2>3. Len(Others(b, w.id)) <= MaxCards
    BY <2>2, LenProperties, DeskAssumption DEF GoodBoard, Board
  <2> QED BY <2>1, <2>2, <2>3 DEF GoodBoard, Board
<1> QED BY <1>1, <1>2

\* The work of a writer: its write is one of the desk's, its attempts are not
\* used up while it tries, and what it will swap in is a board.
WorkTyped(w) ==
  /\ w.at # "idle" => w.write \in Write
  /\ w.tries \in 0..MaxAttempts
  /\ w.at \in {"read", "swap"} => w.tries < MaxAttempts
  /\ w.at = "swap" => GoodBoard(w.next)

DeskTyped ==
  /\ row # None => GoodBoard(row)
  /\ \A p \in Proc : WorkTyped(work[p])
  /\ told \in [Proc -> {"nothing", "ok", "conflict", "error"}]
  /\ clock \in 0..MaxClock

LEMMA IdleTyped == WorkTyped(Idle)
  BY AttemptsAssumption DEF WorkTyped, Idle

LEMMA GotoTyped ==
  ASSUME DeskInv, NEW p \in Proc, WorkTyped(work[p]), work[p].at # "idle",
         NEW step \in {"ok", "error"}, Goto(p, step)
  PROVE  WorkTyped(work'[p])
<1>1. work'[p] = [work[p] EXCEPT !.at = step]
  BY DEF Goto, DeskInv
<1>2. work'[p] = [at |-> step, write |-> work[p].write, seen |-> work[p].seen, next |-> work[p].next,
                  tries |-> work[p].tries, landed |-> work[p].landed]
  BY <1>1 DEF DeskInv, Sound, WorkRecord
<1> QED BY <1>2 DEF WorkTyped

\* What is left of a work that has swapped, or was refused.
LEMMA LeaveTyped ==
  ASSUME DeskInv, NEW p \in Proc, WorkTyped(work[p]), work[p].at # "idle",
         NEW step \in {"read", "conflict", "tell", "error"}, NEW n \in 0..MaxAttempts, NEW l \in BOOLEAN,
         step = "read" => n < MaxAttempts,
         work'[p] = [Idle EXCEPT !.at = step, !.write = work[p].write, !.tries = n, !.landed = l]
  PROVE  WorkTyped(work'[p])
<1>1. work'[p] = [at |-> step, write |-> work[p].write, seen |-> None, next |-> Empty(0), tries |-> n,
                  landed |-> l]
  BY DEF Idle
<1> QED BY <1>1 DEF WorkTyped

LEMMA ReadTyped ==
  ASSUME DeskInv, DeskTyped, NEW p \in Proc, Read(p)
  PROVE  WorkTyped(work'[p])
<1>1. Sound(work[p]) /\ work = [q \in Proc |-> work[q]] /\ work[p].at = "read" /\ WorkTyped(work[p])
  BY DEF DeskInv, DeskTyped, Read
<1>2. CASE Goto(p, "error")
  BY <1>1, <1>2, GotoTyped
<1>3. CASE work' = [work EXCEPT
             ![p].at = "swap", ![p].seen = row,
             ![p].next = Applied(BoardOf(row, clock), work[p].write, clock)]
  <2>1. work'[p] = [at |-> "swap", write |-> work[p].write, seen |-> row,
                    next |-> Applied(BoardOf(row, clock), work[p].write, clock),
                    tries |-> work[p].tries, landed |-> work[p].landed]
    BY <1>1, <1>3 DEF Sound, WorkRecord
  <2>2. clock \in Nat
    BY DEF DeskInv
  <2>3. GoodBoard(BoardOf(row, clock))
    BY <2>2, EmptyGood DEF BoardOf, DeskTyped
  <2>4. work[p].write \in Write
    BY <1>1 DEF WorkTyped
  <2>5. GoodBoard(Applied(BoardOf(row, clock), work[p].write, clock))
    BY <2>2, <2>3, <2>4, AppliedGood
  <2> QED BY <1>1, <2>1, <2>5 DEF WorkTyped
<1> QED BY <1>2, <1>3 DEF Read

LEMMA SwapTyped ==
  ASSUME DeskInv, DeskTyped, NEW p \in Proc, Swap(p)
  PROVE  WorkTyped(work'[p]) /\ (row' = row \/ GoodBoard(row'))
<1>1. Sound(work[p]) /\ work = [q \in Proc |-> work[q]] /\ work[p].at = "swap" /\ WorkTyped(work[p])
  BY DEF DeskInv, DeskTyped, Swap
<1>2. row' = row \/ GoodBoard(row')
  <2>1. row' = row \/ row' = work[p].next
    BY DEF Swap
  <2> QED BY <1>1, <2>1 DEF WorkTyped
<1>3. MaxAttempts \in Nat \ {0} /\ work[p].tries \in Nat /\ work[p].tries < MaxAttempts
  BY <1>1, AttemptsAssumption DEF WorkTyped
<1>4. ASSUME NEW step \in {"tell", "error"}, NEW l \in BOOLEAN, Leave(p, step, l) PROVE WorkTyped(work'[p])
  <2>1. work'[p] = [Idle EXCEPT !.at = step, !.write = work[p].write, !.landed = l]
    BY <1>1, <1>4 DEF Leave
  <2>2. work'[p] = [Idle EXCEPT !.at = step, !.write = work[p].write, !.tries = 0, !.landed = l]
    BY <2>1 DEF Idle
  <2>3. /\ 0 \in 0..MaxAttempts /\ (step = "read" => 0 < MaxAttempts)
        /\ step \in {"read", "conflict", "tell", "error"} /\ work[p].at # "idle"
    BY <1>1, <1>3
  <2> QED BY <1>1, <2>2, <2>3, LeaveTyped
<1>5. ASSUME work' = [work EXCEPT ![p] = [Idle EXCEPT !.at = AfterRefusal(p), !.write = work[p].write,
                                                    !.tries = work[p].tries + 1]]
      PROVE  WorkTyped(work'[p])
  <2>1. work'[p] = [Idle EXCEPT !.at = AfterRefusal(p), !.write = work[p].write,
                                !.tries = work[p].tries + 1, !.landed = FALSE]
    <3>1. work'[p] = [Idle EXCEPT !.at = AfterRefusal(p), !.write = work[p].write,
                                  !.tries = work[p].tries + 1]
      BY <1>1, <1>5
    <3> QED BY <3>1 DEF Idle
  <2>2. AfterRefusal(p) \in {"read", "conflict"} /\ work[p].tries + 1 \in 0..MaxAttempts
        /\ (AfterRefusal(p) = "read" => work[p].tries + 1 < MaxAttempts)
    BY <1>3 DEF AfterRefusal
  <2> HIDE DEF AfterRefusal
  <2>3. AfterRefusal(p) \in {"read", "conflict", "tell", "error"}
    BY <2>2
  <2> QED BY <1>1, <2>1, <2>2, <2>3, LeaveTyped
<1>6. WorkTyped(work'[p])
  BY <1>4, <1>5 DEF Swap
<1> QED BY <1>2, <1>6

LEMMA WriterTyped ==
  ASSUME DeskInv, DeskTyped, NEW p \in Proc, WriterStep(p)
  PROVE  /\ WorkTyped(work'[p])
         /\ row' = row \/ GoodBoard(row')
         /\ told' \in [Proc -> {"nothing", "ok", "conflict", "error"}]
<1>0. told \in [Proc -> {"nothing", "ok", "conflict", "error"}] /\ WorkTyped(work[p])
  BY DEF DeskTyped
<1>1. CASE Read(p)
  BY <1>0, <1>1, ReadTyped DEF Read
<1>2. CASE Swap(p)
  BY <1>0, <1>2, SwapTyped DEF Swap
<1>3. CASE Broadcast(p)
  BY <1>0, <1>3, GotoTyped DEF Broadcast
<1>4. CASE Answer(p) \/ Die(p)
  <2>1. row' = row /\ told' \in [Proc -> {"nothing", "ok", "conflict", "error"}]
    BY <1>0, <1>4 DEF Answer, Die
  <2> QED BY <1>4, <2>1, LeaveMakes, IdleTyped
<1>5. ASSUME NEW w \in Write, BeginWrite(p, w) PROVE WorkTyped(work'[p]) /\ row' = row /\ told' = told
  <2>1. work'[p] = [at |-> "read", write |-> w, seen |-> None, next |-> Empty(0), tries |-> 0,
                    landed |-> FALSE]
    BY <1>5 DEF DeskInv, BeginWrite, Idle
  <2>2. 0 \in 0..MaxAttempts /\ 0 < MaxAttempts
    BY AttemptsAssumption
  <2>3. WorkTyped(work'[p])
    BY <2>1, <2>2 DEF WorkTyped
  <2> QED BY <1>5, <2>3 DEF BeginWrite
<1> QED BY <1>0, <1>1, <1>2, <1>3, <1>4, <1>5 DEF WriterStep, WriteStep

LEMMA DeskTypedStep ==
  ASSUME DeskInv, DeskTyped, DeskStep \/ UNCHANGED DeskView PROVE DeskTyped'
<1>1. CASE UNCHANGED DeskView
  BY <1>1 DEF DeskView, DeskTyped, WorkTyped, GoodBoard
<1>2. CASE Ticks
  BY <1>2, AttemptsAssumption DEF Ticks, DeskTyped, WorkTyped, GoodBoard
<1>3. CASE Clear
  <2>1. row' = Empty(clock) /\ GoodBoard(Empty(clock)) /\ UNCHANGED <<work, told, clock>>
    BY <1>3, EmptyGood DEF Clear, DeskInv
  <2>2. GoodBoard(row')
    BY <2>1
  <2> QED BY <2>1, <2>2 DEF DeskTyped, WorkTyped, GoodBoard
<1>4. ASSUME NEW p \in Proc, WriterStep(p) PROVE DeskTyped'
  <2>1. /\ WorkTyped(work'[p]) /\ (row' = row \/ GoodBoard(row')) /\ clock' = clock
        /\ told' \in [Proc -> {"nothing", "ok", "conflict", "error"}]
        /\ \A q \in Proc \ {p} : work'[q] = work[q]
    BY <1>4, WriterTyped, OwnWork
  <2>2. \A q \in Proc : WorkTyped(work'[q])
    BY <2>1 DEF DeskTyped
  <2>3. row' # None => GoodBoard(row')
    BY <2>1 DEF DeskTyped
  <2>4. \A q \in Proc : WorkTyped(work[q])'
    BY <2>2 DEF WorkTyped, GoodBoard
  <2>5. (row # None => GoodBoard(row))'
    BY <2>3 DEF GoodBoard
  <2> QED BY <2>1, <2>4, <2>5 DEF DeskTyped
<1> QED BY <1>1, <1>2, <1>3, <1>4 DEF DeskStep

\* No number is given that no issue has.
NumbersInv ==
  /\ \A e \in Fingerprint : marks[e].number <= Len(issues)
  /\ \A p \in Proc : report[p].number <= Len(issues)

\* A step that gives nothing but numbers there are.
LEMMA NumbersKept ==
  ASSUME IssuesTyped, NumbersInv, Len(issues') \in Nat, Len(issues') >= Len(issues),
         \A e \in Fingerprint : marks'[e].number = marks[e].number \/ marks'[e].number <= Len(issues'),
         \A p \in Proc : report'[p].number = report[p].number \/ report'[p].number <= Len(issues')
  PROVE  NumbersInv'
<1>1. /\ Len(issues) \in Nat /\ \A e \in Fingerprint : marks[e].number \in Nat
      /\ \A p \in Proc : report[p].number \in Nat
  BY DEF IssuesTyped, Marks, Reports
<1>2. \A e \in Fingerprint : marks'[e].number <= Len(issues')
  BY <1>1 DEF NumbersInv
<1>3. \A p \in Proc : report'[p].number <= Len(issues')
  BY <1>1 DEF NumbersInv
<1> QED BY <1>2, <1>3 DEF NumbersInv

LEMMA ReportNumbers ==
  ASSUME IssuesTyped, NumbersInv, NEW p \in Proc, ReportStep(p) PROVE NumbersInv'
<1>0. /\ report[p].print \in Fingerprint /\ Len(issues) \in Nat
      /\ report = [q \in Proc |-> report[q]] /\ marks = [e \in Fingerprint |-> marks[e]]
      /\ report[p] \in Reports /\ \A e \in Fingerprint : marks[e] \in Marks
  BY DEF ReportStep, Claim, Look, CheckOpen, AwaitNumber, StopWaiting, Touch, Create, Remember,
         DieReporting, ReportAt, IssuesTyped
<1>1. IdleReport.number = 0
  BY DEF IdleReport
<1>2. CASE Claim(p) \/ Touch(p)
  <2>1. issues' = issues
        /\ \A q \in Proc : report'[q].number = report[q].number \/ report'[q].number = 0
    BY <1>0, <1>1, <1>2 DEF Claim, Touch, ReportTo, Reports
  <2>2. \A e \in Fingerprint : marks'[e].number = marks[e].number \/ marks'[e].number = 0
    BY <1>0, <1>2 DEF Claim, Touch, Marks
  <2> QED BY <1>0, <2>1, <2>2, NumbersKept
<1>3. CASE CheckOpen(p) \/ StopWaiting(p) \/ DieReporting(p)
  <2>1. issues' = issues /\ marks' = marks
        /\ \A q \in Proc : report'[q].number = report[q].number \/ report'[q].number = 0
    BY <1>0, <1>1, <1>3 DEF CheckOpen, StopWaiting, DieReporting, ReportTo, Reports
  <2> QED BY <1>0, <2>1, NumbersKept
<1>4. CASE Look(p) \/ AwaitNumber(p)
  <2>1. issues' = issues /\ marks' = marks
        /\ \A q \in Proc : report'[q].number = report[q].number \/ report'[q].number = Mark(p).number
    <3>1. \/ \E step : report' = [report EXCEPT ![p].at = step]
          \/ \E step : report' = [report EXCEPT ![p] = [@ EXCEPT !.at = step, !.number = Mark(p).number]]
      BY <1>4 DEF Look, AwaitNumber, ReportTo
    <3>2. \A q \in Proc : report'[q].number = report[q].number \/ report'[q].number = Mark(p).number
      <4>1. \E step : Onward(p, step, report[p].number) \/ Onward(p, step, Mark(p).number)
        BY <3>1, OnwardTo
      <4> QED BY <4>1 DEF Onward
    <3>3. issues' = issues /\ marks' = marks
      BY <1>4 DEF Look, AwaitNumber
    <3> QED BY <3>2, <3>3
  <2>2. Mark(p).number <= Len(issues)
    BY <1>0 DEF NumbersInv, Mark
  <2> QED BY <1>0, <2>1, <2>2, NumbersKept
<1>5. CASE Create(p)
  <2>1. Len(issues') \in {Len(issues), Len(issues) + 1} /\ marks' = marks
    <3>1. issues' = issues \/ issues' = Append(issues, [print |-> report[p].print, open |-> TRUE])
      BY <1>5 DEF Create
    <3>2. issues \in Seq(Issues) /\ [print |-> report[p].print, open |-> TRUE] \in Issues
      BY <1>0 DEF IssuesTyped, Issues
    <3> QED BY <1>5, <3>1, <3>2, AppendProperties DEF Create
  <2>2. \A q \in Proc : report'[q].number = report[q].number \/ report'[q].number \in {0, Len(issues')}
    BY <1>0, <1>1, <1>5 DEF Create, Reports
  <2> QED BY <1>0, <2>1, <2>2, NumbersKept
<1>6. CASE Remember(p)
  <2>1. issues' = issues
        /\ \A q \in Proc : report'[q].number = report[q].number \/ report'[q].number = 0
    BY <1>0, <1>1, <1>6 DEF Remember
  <2>2. \A e \in Fingerprint : marks'[e].number \in {marks[e].number, report[p].number}
    BY <1>0, <1>6 DEF Remember, Marks
  <2>3. report[p].number <= Len(issues)
    BY DEF NumbersInv
  <2> QED BY <1>0, <2>1, <2>2, <2>3, NumbersKept
<1> QED BY <1>2, <1>3, <1>4, <1>5, <1>6 DEF ReportStep

LEMMA NumbersStep == ASSUME IssuesTyped, NumbersInv, [Next]_vars PROVE NumbersInv'
<1>0. Len(issues) \in Nat
  BY DEF IssuesTyped
<1>1. CASE UNCHANGED vars \/ Desk \/ \E p \in Proc : WriteElsewhere(p)
  BY <1>1 DEF vars, Desk, WriteElsewhere, issueVars, NumbersInv
<1>2. ASSUME NEW p \in Proc, NEW e \in Fingerprint, Report(p, e) PROVE NumbersInv'
  <2>1. /\ UNCHANGED <<marks, issues>>
        /\ \A q \in Proc : report'[q].number = report[q].number \/ report'[q].number = 0
    BY <1>2 DEF Report, IssuesTyped, Reports
  <2> QED BY <1>0, <2>1, NumbersKept
<1>3. ASSUME NEW e \in Fingerprint, Age(e) PROVE NumbersInv'
  <2>1. UNCHANGED <<issues, report>> /\ \A f \in Fingerprint : marks'[f].number = marks[f].number
    BY <1>3 DEF Age, IssuesTyped, Marks
  <2> QED BY <1>0, <2>1, NumbersKept
<1>4. ASSUME NEW n \in DOMAIN issues, CloseIssue(n) PROVE NumbersInv'
  <2>1. UNCHANGED <<marks, report>> /\ issues' = [issues EXCEPT ![n].open = FALSE]
    BY <1>4 DEF CloseIssue
  <2>2. issues' \in Seq(Issues)
    BY <1>4, IssuesTypedStep DEF IssuesTyped
  <2>3. DOMAIN issues' = DOMAIN issues
    BY <2>1
  <2>4. Len(issues') = Len(issues)
    BY <2>2, <2>3, LenProperties, <1>0 DEF IssuesTyped
  <2> QED BY <1>0, <2>1, <2>4, NumbersKept
<1> QED BY <1>1, <1>2, <1>3, <1>4, ReportNumbers DEF Next

\* The counters, and whether anything went wrong.
CountsInv ==
  /\ clears \in 0..MaxClears /\ faults \in 0..MaxFaults
  /\ reports \in 0..MaxReports /\ writes \in 0..MaxWrites
  /\ calm \in BOOLEAN

LEMMA CountsStep == ASSUME CountsInv, [Next]_vars PROVE CountsInv'
<1>0. MaxClears \in Nat /\ MaxFaults \in Nat /\ MaxReports \in Nat /\ MaxWrites \in Nat
  BY AttemptsAssumption, IssuesAssumption
<1>1. CASE UNCHANGED vars
  BY <1>1 DEF vars, deskVars, issueVars, CountsInv
<1>2. faults' \in 0..MaxFaults /\ clears' \in 0..MaxClears
  <2>1. CASE Desk
    <3>1. CASE Ticks \/ Clear
      BY <1>0, <3>1 DEF Ticks, Clear, CountsInv
    <3>2. ASSUME NEW p \in Proc, WriteStep(p) \/ Die(p) PROVE faults' \in 0..MaxFaults /\ clears' = clears
      <4>1. clears' = clears /\ (faults' = faults \/ Fault)
        <5>1. CASE Read(p) \/ Swap(p)
          BY <5>1 DEF Read, Swap, NoFault
        <5>2. CASE Broadcast(p) \/ Answer(p) \/ Die(p)
          BY <5>2 DEF Broadcast, Answer, Die, NoFault
        <5> QED BY <3>2, <5>1, <5>2 DEF WriteStep
      <4> QED BY <1>0, <4>1 DEF Fault, CountsInv
    <3> QED BY <2>1, <3>1, <3>2 DEF Desk, CountsInv
  <2>2. ASSUME NEW p \in Proc, WriteElsewhere(p) \/ ReportStep(p) \/ \E e \in Fingerprint : Report(p, e)
        PROVE  faults' \in 0..MaxFaults /\ clears' = clears
    <3>1. CASE WriteElsewhere(p)
      BY <3>1 DEF WriteElsewhere, BeginWrite, CountsInv
    <3>2. CASE \E e \in Fingerprint : Report(p, e)
      BY <3>2 DEF Report, deskVars, CountsInv
    <3>3. CASE ReportStep(p)
      <4>1. clears' = clears
        BY <3>3 DEF ReportStep, Claim, Look, CheckOpen, AwaitNumber, StopWaiting, Touch, Create, Remember,
                    DieReporting, BeginWrite, Quiet, DeskIdle
      <4>2. faults' = faults \/ Fault
        <5>1. CASE CheckOpen(p) \/ Touch(p) \/ Create(p) \/ DieReporting(p)
          BY <5>1 DEF CheckOpen, Touch, Create, DieReporting, NoFault
        <5>2. CASE Remember(p)
          BY <5>2 DEF Remember, BeginWrite
        <5>3. CASE Claim(p) \/ Look(p) \/ AwaitNumber(p) \/ StopWaiting(p)
          BY <5>3 DEF Claim, Look, AwaitNumber, StopWaiting, Quiet, NoFault
        <5> QED BY <3>3, <5>1, <5>2, <5>3 DEF ReportStep
      <4> QED BY <1>0, <4>1, <4>2 DEF Fault, CountsInv
    <3> QED BY <2>2, <3>1, <3>2, <3>3
  <2>3. CASE (\E e \in Fingerprint : Age(e)) \/ \E n \in DOMAIN issues : CloseIssue(n)
    BY <2>3 DEF Age, CloseIssue, Quiet, DeskIdle, NoFault, CountsInv
  <2> QED BY <1>1, <2>1, <2>2, <2>3 DEF Next, CountsInv
<1>3. reports' \in 0..MaxReports /\ writes' \in 0..MaxWrites /\ calm' \in BOOLEAN
  <2>1. CASE Desk
    BY <2>1 DEF Desk, issueVars, CountsInv
  <2>2. ASSUME NEW p \in Proc, WriteElsewhere(p)
        PROVE  reports' = reports /\ writes' \in 0..MaxWrites /\ calm' = calm
    BY <1>0, <2>2 DEF WriteElsewhere, issueVars, CountsInv
  <2>3. ASSUME NEW p \in Proc, ReportStep(p)
        PROVE  reports' = reports /\ writes' = writes /\ calm' \in {calm, FALSE}
    BY <2>3 DEF ReportStep, Claim, Look, CheckOpen, AwaitNumber, StopWaiting, Touch, Create, Remember,
                DieReporting, Quiet
  <2>4. ASSUME NEW p \in Proc, NEW e \in Fingerprint, Report(p, e)
        PROVE  reports' \in 0..MaxReports /\ writes' = writes /\ calm' = calm
    BY <1>0, <2>4 DEF Report, CountsInv
  <2>5. CASE (\E e \in Fingerprint : Age(e)) \/ \E n \in DOMAIN issues : CloseIssue(n)
    BY <2>5 DEF Age, CloseIssue, Quiet, CountsInv
  <2> QED BY <1>1, <2>1, <2>2, <2>3, <2>4, <2>5 DEF Next, CountsInv
<1> QED BY <1>2, <1>3 DEF CountsInv

TypeInv == IssuesTyped /\ DeskInv /\ DeskTyped /\ NumbersInv /\ CountsInv

LEMMA TypeInvInit == Init => TypeInv
<1> SUFFICES ASSUME Init PROVE TypeInv
  OBVIOUS
<1>1. DeskTyped
  <2>1. row = None /\ work = [p \in Proc |-> Idle] /\ told = [p \in Proc |-> "nothing"] /\ clock = 0
    BY DEF Init, DeskInit
  <2> QED BY <2>1, IdleTyped, AttemptsAssumption DEF DeskTyped
<1>2. NumbersInv
  <2>1. Len(issues) = 0
    BY DEF Init
  <2> QED BY <2>1 DEF Init, NumbersInv, NoMark, IdleReport
<1>3. CountsInv
  BY AttemptsAssumption, IssuesAssumption DEF Init, DeskInit, CountsInv
<1> QED BY <1>1, <1>2, <1>3, IssuesTypedInit, DeskInvInit DEF TypeInv

LEMMA TypeInvStep == TypeInv /\ [Next]_vars => TypeInv'
  BY IssuesTypedStep, StepsOfTheDesk, DeskInvStep, DeskTypedStep, NumbersStep, CountsStep DEF TypeInv

LEMMA TypesAre == TypeInv => TypeOK
<1> SUFFICES ASSUME TypeInv PROVE TypeOK
  OBVIOUS
<1>1. DeskTypeOK
  <2>1. WorkTypeOK
    BY DEF TypeInv, DeskTyped, WorkTyped, DeskInv, Sound, WorkTypeOK
  <2> QED BY <2>1 DEF TypeInv, DeskTyped, CountsInv, GoodBoard, DeskTypeOK
<1>2. Len(issues) \in Nat
  BY DEF TypeInv, IssuesTyped
<1>3. marks \in [Fingerprint -> [number : 0..Len(issues), recent : BOOLEAN, there : BOOLEAN]]
  <2>1. \A e \in Fingerprint : marks[e] \in [number : 0..Len(issues), recent : BOOLEAN, there : BOOLEAN]
    BY <1>2 DEF TypeInv, IssuesTyped, Marks, NumbersInv
  <2> QED BY <2>1 DEF TypeInv, IssuesTyped
<1>4. report \in [Proc -> [at : ReportSteps, print : Fingerprint \union {None}, number : 0..Len(issues)]]
  <2>1. \A p \in Proc : report[p] \in [at : ReportSteps, print : Fingerprint \union {None},
                                       number : 0..Len(issues)]
    BY <1>2 DEF TypeInv, IssuesTyped, Reports, NumbersInv
  <2> QED BY <2>1 DEF TypeInv, IssuesTyped
<1>5. issues \in Seq([print : Fingerprint, open : BOOLEAN])
  BY DEF TypeInv, IssuesTyped, Issues
<1> QED BY <1>1, <1>3, <1>4, <1>5 DEF TypeOK, TypeInv, CountsInv, ReportSteps

\* TypeOK: whatever is written side by side, a board holds a card once and never
\* more than the desk has room for, a writer stays within its attempts, and no
\* row and no request has a number that no issue has.
THEOREM TypeCorrect == Spec => []TypeOK
  BY TypeInvInit, TypeInvStep, TypesAre, PTL DEF Spec
=============================================================================
