----------------------------- MODULE ErrorIssues -----------------------------
(* Live errors filed as GitHub issues.  Requests that report the same error    *)
(* agree through a row per fingerprint on who files it: the one that inserts   *)
(* the row files, the others take the number it leaves there, or wait for it a *)
(* while and then file themselves.  Who filed puts a card on the owner's desk, *)
(* among all the other writers of the desk.                                    *)
EXTENDS DeskBoard, FiniteSets

CONSTANTS
  Fingerprint, \* fingerprints of errors
  CardOf(_),  \* the write that puts the card of a fingerprint on the desk
  Writes,     \* bound: the writes of the other writers
  MaxIssues,  \* bound: issues on GitHub
  MaxReports, \* bound: reports
  MaxWrites   \* bound: writes of the other writers

ASSUME IssuesAssumption ==
  /\ \A e \in Fingerprint : CardOf(e) \in Write
  /\ Writes \subseteq Write
  /\ MaxIssues \in Nat /\ MaxReports \in Nat /\ MaxWrites \in Nat

VARIABLES
  marks,    \* the rows of error_issue_fingerprints: number, 0 when claimed, and its age
  issues,   \* GitHub: of each number filed, its fingerprint and whether it is open
  report,   \* of each request: its step in fileOwnerErrorIssue
  reports, writes,
  calm      \* history: no waiter gave up and no issue was closed

issueVars == <<marks, issues, report, calm>>
vars == <<deskVars, issueVars, reports, writes>>

NoMark == [number |-> 0, recent |-> FALSE, there |-> FALSE]
IdleReport == [at |-> "idle", print |-> None, number |-> 0]

ReportAt(p, step) == report[p].at = step
ReportTo(p, step) == report' = [report EXCEPT ![p].at = step]
Mark(p) == marks[report[p].print]

DeskIdle == UNCHANGED <<row, work, told, clock, clears>>
Quiet == DeskIdle /\ NoFault /\ UNCHANGED <<reports, writes>>

Report(p, e) ==
  /\ reports < MaxReports /\ reports' = reports + 1
  /\ ReportAt(p, "idle") /\ work[p].at = "idle"
  /\ report' = [report EXCEPT ![p] = [at |-> "claim", print |-> e, number |-> 0]]
  /\ UNCHANGED <<deskVars, marks, issues, calm, writes>>

BugClaimAlways(p) ==
  /\ ReportAt(p, "claim")
  /\ marks' = [marks EXCEPT ![report[p].print] = [@ EXCEPT !.recent = TRUE, !.there = TRUE]]
  /\ ReportTo(p, "create")
  /\ Quiet /\ UNCHANGED <<issues, calm>>
\* INSERT OR IGNORE: who inserts the row files the issue.
Claim(p) ==
  /\ ReportAt(p, "claim")
  /\ IF Mark(p).there
     THEN ReportTo(p, "look") /\ UNCHANGED marks
     ELSE /\ marks' = [marks EXCEPT ![report[p].print] =
                         [number |-> 0, recent |-> TRUE, there |-> TRUE]]
          /\ ReportTo(p, "create")
  /\ Quiet /\ UNCHANGED <<issues, calm>>

\* The SELECT of a row seen within ISSUE_WINDOW_MS: without a number there, the
\* report waits.
Look(p) ==
  /\ ReportAt(p, "look")
  /\ IF Mark(p).recent /\ Mark(p).number > 0
     THEN report' = [report EXCEPT ![p] = [@ EXCEPT !.at = "check", !.number = Mark(p).number]]
     ELSE ReportTo(p, "wait")
  /\ Quiet /\ UNCHANGED <<marks, issues, calm>>

\* githubIssueIsOpen: an issue that is closed, or that GitHub does not show, is
\* filed again.
CheckOpen(p) ==
  /\ ReportAt(p, "check")
  /\ \/ issues[report[p].number].open /\ ReportTo(p, "touch") /\ NoFault
     \/ ~issues[report[p].number].open /\ ReportTo(p, "create") /\ NoFault
     \/ Fault /\ ReportTo(p, "create")
  /\ DeskIdle /\ UNCHANGED <<marks, issues, calm, reports, writes>>

\* awaitClaimedIssue takes any number, however old the row.
AwaitNumber(p) ==
  /\ ReportAt(p, "wait") /\ Mark(p).number > 0
  /\ report' = [report EXCEPT ![p] = [@ EXCEPT !.at = "touch", !.number = Mark(p).number]]
  /\ Quiet /\ UNCHANGED <<marks, issues, calm>>

\* After its attempts it files the issue itself.
StopWaiting(p) ==
  /\ ReportAt(p, "wait") /\ Mark(p).number = 0
  /\ ReportTo(p, "create")
  /\ calm' = FALSE
  /\ Quiet /\ UNCHANGED <<marks, issues>>

\* touchFingerprint, whose failure is swallowed.
Touch(p) ==
  /\ ReportAt(p, "touch")
  /\ \/ marks' = [marks EXCEPT ![report[p].print].recent = TRUE] /\ NoFault
     \/ Fault /\ UNCHANGED marks
  /\ report' = [report EXCEPT ![p] = IdleReport]
  /\ DeskIdle /\ UNCHANGED <<issues, calm, reports, writes>>

\* createGithubIssue: a call that fails, with or without its effect, ends the
\* report; the claim stays.
Create(p) ==
  /\ ReportAt(p, "create")
  /\ \/ /\ Len(issues) < MaxIssues
        /\ issues' = Append(issues, [print |-> report[p].print, open |-> TRUE])
        /\ \/ /\ report' = [report EXCEPT ![p] = [@ EXCEPT !.at = "remember", !.number = Len(issues')]]
              /\ NoFault
           \/ report' = [report EXCEPT ![p] = IdleReport] /\ Fault
     \/ report' = [report EXCEPT ![p] = IdleReport] /\ Fault /\ UNCHANGED issues
  /\ DeskIdle /\ UNCHANGED <<marks, calm, reports, writes>>

\* rememberFingerprint, and then the card: ownerDeskUpsert, whose failure is
\* swallowed.
Remember(p) ==
  /\ ReportAt(p, "remember")
  /\ \/ /\ marks' = [marks EXCEPT ![report[p].print] =
                       [number |-> report[p].number, recent |-> TRUE, there |-> TRUE]]
        /\ BeginWrite(p, CardOf(report[p].print))
     \/ Fault /\ UNCHANGED <<marks, row, work, told, clock, clears>>
  /\ report' = [report EXCEPT ![p] = IdleReport]
  /\ UNCHANGED <<issues, calm, reports, writes>>

\* The request dies, or a statement of D1 throws.
DieReporting(p) ==
  /\ report[p].at # "idle"
  /\ report' = [report EXCEPT ![p] = IdleReport]
  /\ Fault
  /\ DeskIdle /\ UNCHANGED <<marks, issues, calm, reports, writes>>

\* A day passes without the error.
Age(e) ==
  /\ marks[e].recent
  /\ marks' = [marks EXCEPT ![e].recent = FALSE]
  /\ Quiet /\ UNCHANGED <<issues, report, calm>>

CloseIssue(n) ==
  /\ issues[n].open
  /\ issues' = [issues EXCEPT ![n].open = FALSE]
  /\ calm' = FALSE
  /\ Quiet /\ UNCHANGED <<marks, report>>
-----------------------------------------------------------------------------
Init ==
  /\ DeskInit
  /\ marks = [e \in Fingerprint |-> NoMark]
  /\ issues = <<>>
  /\ report = [p \in Proc |-> IdleReport]
  /\ reports = 0 /\ writes = 0
  /\ calm = TRUE

ReportStep(p) ==
  \/ Claim(p) \/ Look(p) \/ CheckOpen(p) \/ AwaitNumber(p) \/ StopWaiting(p)
  \/ Touch(p) \/ Create(p) \/ Remember(p) \/ DieReporting(p)

\* Another writer of the desk: the owner, an agent, a tool.
WriteElsewhere(p) ==
  /\ writes < MaxWrites /\ writes' = writes + 1
  /\ ReportAt(p, "idle")
  /\ \E w \in Writes : BeginWrite(p, w)
  /\ UNCHANGED <<issueVars, reports>>

Desk ==
  /\ \/ Ticks \/ Clear
     \/ \E p \in Proc : WriteStep(p) \/ Die(p)
  /\ UNCHANGED <<issueVars, reports, writes>>

Next ==
  \/ Desk
  \/ \E p \in Proc : WriteElsewhere(p) \/ ReportStep(p) \/ \E e \in Fingerprint : Report(p, e)
  \/ \E e \in Fingerprint : Age(e)
  \/ \E n \in DOMAIN issues : CloseIssue(n)

Spec == Init /\ [][Next]_vars
-----------------------------------------------------------------------------
TypeOK ==
  /\ DeskTypeOK
  /\ marks \in [Fingerprint -> [number : 0..Len(issues), recent : BOOLEAN, there : BOOLEAN]]
  /\ issues \in Seq([print : Fingerprint, open : BOOLEAN])
  /\ report \in [Proc -> [at : {"idle", "claim", "look", "check", "wait", "touch", "create",
                                "remember"},
                          print : Fingerprint \union {None}, number : 0..Len(issues)]]
  /\ reports \in 0..MaxReports /\ writes \in 0..MaxWrites /\ calm \in BOOLEAN

\* One fingerprint is one issue, whoever reports it at the same time and at
\* whatever step of the others, however long ago it was filed: as long as no
\* waiter runs out of patience, no call fails and no request dies, and the issue
\* is not closed.
OneIssuePerFingerprint ==
  calm /\ faults = 0 =>
    \A m, n \in DOMAIN issues : issues[m].print = issues[n].print => m = n
=============================================================================
