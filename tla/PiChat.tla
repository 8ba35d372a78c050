------------------------------- MODULE PiChat -------------------------------
(* One chat of the Pi engine.  The harness runs what the owner submits and    *)
(* keeps the entries of the conversation; the agent around it tells D1        *)
(* whether the chat is running, through a chain of publications that skips    *)
(* what was published last, copies the entries into D1 for the search,        *)
(* through a chain of its own, and looks every minute whether a run makes     *)
(* progress.  The harness is external: a run and its entries survive the      *)
(* death of the isolate, chains and caches do not.                            *)
EXTENDS Naturals, Sequences

CONSTANTS
  MaxEntries,  \* bound: entries of the conversation
  MaxOpens,    \* bound: times the owner opens the chat
  MaxFaults,   \* bound: calls that fail
  MaxCrashes   \* bound: deaths of the isolate

ASSUME PiAssumption ==
  MaxEntries \in Nat /\ MaxOpens \in Nat /\ MaxFaults \in Nat /\ MaxCrashes \in Nat

VARIABLES
  \* the harness
  busy,      \* a run is under way
  hung,      \* it has made no progress for longer than the limits allow
  entries,   \* number of entries; their ids are 1..entries
  failed,    \* lastTurnFailed(entries)
  \* D1
  status,    \* sessions.status
  rows,      \* ids of the entries copied to conversation_entries, oldest first
  \* storage of the Durable Object
  through,   \* kv "indexed-through"
  watch,     \* checkTurnProgress is scheduled
  \* memory of the isolate
  published, \* publishedRunning
  stream,    \* eventStream is attached
  jobs,      \* the rest of the chain "publishing": for each the entries it was given
  pub,       \* the publication under way
  wanted,    \* indexConversation was called and its turn has not come
  poisoned,  \* the chain "indexing" is rejected
  index,     \* the copy under way
  submit,    \* the submission under way
  check,     \* the watchdog's look under way
  crossed,   \* history: the watchdog wrote the row while a publication was about to
  opens, faults, crashes

harness == <<busy, hung, entries, failed>>
publishing == <<published, jobs, pub, status>>
indexing == <<wanted, poisoned, index, rows, through>>
bounds == <<opens, faults, crashes>>
piVars == <<harness, publishing, indexing, watch, stream, submit, check, crossed, bounds>>

Fault == faults < MaxFaults /\ faults' = faults + 1 /\ UNCHANGED <<opens, crashes>>

IdlePub == [at |-> "idle", status |-> "active"]
IdleIndex == [at |-> "idle", next |-> 0, last |-> 0]
IdleCheck == [at |-> "idle", verdict |-> "healthy", status |-> "active"]

Settled(f) == IF f THEN "error" ELSE "active"
----------------------------------------------------------------------------
(* The chain of publications.  A publication that is queued behind one that   *)
(* will read the same is not kept apart from it.                              *)

\* publishCurrentRunStatus, given the entries of a view or ("now") none.
Enqueue(job) == IF jobs # <<>> /\ jobs[Len(jobs)] = job THEN jobs ELSE Append(jobs, job)

BugCacheByRun ==
  /\ pub.at = "idle" /\ jobs # <<>>
  /\ jobs' = Tail(jobs)
  /\ IF published = "running"
     THEN UNCHANGED <<published, pub>>
     ELSE /\ published' = IF busy THEN "running" ELSE "idle"
          /\ pub' = IF busy THEN [at |-> "update", status |-> "running"]
                    ELSE [at |-> "entries", status |-> "active"]
  /\ UNCHANGED <<crossed, harness, status, indexing, watch, stream, submit, check, bounds>>

\* publishRunStatus up to its first await: the cache runs ahead of the row.
PubRead ==
  /\ pub.at = "idle" /\ jobs # <<>>
  /\ jobs' = Tail(jobs)
  /\ \/ /\ published = (IF busy THEN "running" ELSE "idle")
        /\ UNCHANGED <<published, pub, bounds>>
     \/ /\ published # (IF busy THEN "running" ELSE "idle")
        /\ published' = IF busy THEN "running" ELSE "idle"
        /\ pub' = IF busy THEN [at |-> "update", status |-> "running"]
                  ELSE IF Head(jobs) = "now" THEN [at |-> "entries", status |-> "active"]
                  ELSE [at |-> "update", status |-> Head(jobs)]
        /\ UNCHANGED bounds
     \/ Fault /\ UNCHANGED <<published, pub>>
  /\ UNCHANGED <<crossed, harness, status, indexing, watch, stream, submit, check>>

\* currentEntries
PubEntries ==
  /\ pub.at = "entries"
  /\ \/ pub' = [at |-> "update", status |-> Settled(failed)] /\ UNCHANGED bounds
     \/ Fault /\ pub' = IdlePub
  /\ UNCHANGED <<crossed, harness, published, jobs, status, indexing, watch, stream, submit, check>>

\* The UPDATE; its failure is swallowed.
WriteStatus(s) ==
  \/ status' = s /\ UNCHANGED bounds
  \/ Fault /\ UNCHANGED status

PubUpdate ==
  /\ pub.at = "update"
  /\ WriteStatus(pub.status)
  /\ pub' = IdlePub
  /\ UNCHANGED <<crossed, harness, published, jobs, indexing, watch, stream, submit, check>>

----------------------------------------------------------------------------
(* The harness *)

\* Events reach the agent while its stream is attached.
Emit == IF stream THEN jobs' = Enqueue("now") /\ wanted' = TRUE
        ELSE UNCHANGED <<jobs, wanted>>

Progress ==
  /\ busy /\ entries < MaxEntries
  /\ entries' = entries + 1
  /\ hung' = FALSE /\ failed' = FALSE
  /\ Emit
  /\ UNCHANGED <<crossed, busy, published, pub, status, poisoned, index, rows, through,
                 watch, stream, submit, check, bounds>>

Finish(f) ==
  /\ busy /\ entries < MaxEntries
  /\ entries' = entries + 1
  /\ failed' = f /\ busy' = FALSE /\ hung' = FALSE
  /\ Emit
  /\ UNCHANGED <<crossed, published, pub, status, poisoned, index, rows, through,
                 watch, stream, submit, check, bounds>>

\* It falls silent for longer than the limits, and may go on later.
Hang ==
  /\ busy /\ ~hung
  /\ hung' = TRUE
  /\ UNCHANGED <<crossed, busy, entries, failed, publishing, indexing, watch, stream, submit, check,
                 bounds>>

\* harness.abort, by the owner or by the watchdog.
AbortRun ==
  /\ busy' = FALSE /\ hung' = FALSE
  /\ IF busy THEN Emit ELSE UNCHANGED <<jobs, wanted>>
  /\ UNCHANGED <<entries, failed>>

Abort ==
  /\ busy
  /\ AbortRun
  /\ UNCHANGED <<crossed, published, pub, status, poisoned, index, rows, through, watch, stream,
                 submit, check, bounds>>

----------------------------------------------------------------------------
(* submitInput *)

\* The stream is attached, the harness takes the message (one whose run is under
\* way as a follow-up), and the status is published.
Submit ==
  /\ submit = "idle" /\ entries + 1 < MaxEntries
  /\ stream' = TRUE
  /\ entries' = entries + 1 /\ busy' = TRUE /\ failed' = FALSE
  /\ jobs' = Enqueue("now") /\ wanted' = TRUE
  /\ submit' = "publish"
  /\ UNCHANGED <<crossed, hung, published, pub, status, poisoned, index, rows, through, watch,
                 check, bounds>>

\* Its publication and those before it are over.
SubmitPublished ==
  /\ submit = "publish" /\ jobs = <<>> /\ pub.at = "idle"
  /\ submit' = "list"
  /\ UNCHANGED <<crossed, harness, publishing, indexing, watch, stream, check, bounds>>

\* armTurnWatchdog: a schedule that exists is kept.  The failure of the list
\* reaches the owner, that of the schedule is swallowed.
SubmitList ==
  /\ submit = "list"
  /\ \/ submit' = (IF watch THEN "idle" ELSE "arm") /\ UNCHANGED bounds
     \/ Fault /\ submit' = "idle"
  /\ UNCHANGED <<crossed, harness, publishing, indexing, watch, stream, check>>

SubmitArm ==
  /\ submit = "arm"
  /\ submit' = "idle"
  /\ \/ watch' = TRUE /\ UNCHANGED bounds
     \/ Fault /\ UNCHANGED watch
  /\ UNCHANGED <<crossed, harness, publishing, indexing, stream, check>>

\* onConnect: a new view carries the entries of this moment, a cached one none.
Open ==
  /\ opens < MaxOpens
  /\ opens' = opens + 1
  /\ stream' = TRUE
  /\ \E job \in {"now", Settled(failed)} : jobs' = Enqueue(job)
  /\ UNCHANGED <<crossed, harness, published, pub, status, indexing, watch, submit, check,
                 faults, crashes>>

----------------------------------------------------------------------------
(* indexConversation *)

BugMarkBeforeCopy ==
  /\ wanted /\ ~poisoned /\ index.at = "idle"
  /\ wanted' = FALSE
  /\ index' = [at |-> "copy", next |-> through + 1, last |-> entries]
  /\ through' = entries
  /\ UNCHANGED <<crossed, harness, publishing, poisoned, rows, watch, stream, submit, check, bounds>>

\* indexNewEntries starts from what is stored and takes the entries there are.
IndexBegin ==
  /\ wanted /\ ~poisoned /\ index.at = "idle"
  /\ wanted' = FALSE
  /\ \/ /\ index' = [at |-> "copy", next |-> through + 1, last |-> entries]
        /\ UNCHANGED <<poisoned, bounds>>
     \/ Fault /\ poisoned' = TRUE /\ UNCHANGED index
  /\ UNCHANGED <<crossed, harness, publishing, rows, through, watch, stream, submit, check>>

BugNoDedupe(e) == TRUE

\* INSERT ... WHERE NOT EXISTS
IsNew(e) == \A i \in DOMAIN rows : rows[i] # e

IndexInsert ==
  /\ index.at = "copy" /\ index.next <= index.last
  /\ \/ /\ rows' = IF IsNew(index.next) THEN Append(rows, index.next) ELSE rows
        /\ index' = [index EXCEPT !.next = @ + 1]
        /\ UNCHANGED <<poisoned, bounds>>
     \/ Fault /\ poisoned' = TRUE /\ index' = IdleIndex /\ UNCHANGED rows
  /\ UNCHANGED <<crossed, harness, publishing, wanted, through, watch, stream, submit, check>>

BugMarkNextEntry ==
  /\ index.at = "copy" /\ index.next > index.last
  /\ through' = index.next
  /\ index' = IdleIndex
  /\ UNCHANGED <<crossed, harness, publishing, wanted, poisoned, rows, watch, stream, submit, check,
                 bounds>>

IndexEnd ==
  /\ index.at = "copy" /\ index.next > index.last
  /\ through' = index.last
  /\ index' = IdleIndex
  /\ UNCHANGED <<crossed, harness, publishing, wanted, poisoned, rows, watch, stream, submit, check,
                 bounds>>

\* On a rejected chain a call is rejected at once.
IndexRejected ==
  /\ wanted /\ poisoned
  /\ wanted' = FALSE
  /\ UNCHANGED <<crossed, harness, publishing, poisoned, index, rows, through, watch, stream, submit,
                 check, bounds>>

----------------------------------------------------------------------------
(* checkTurnProgress *)

JudgeTurn == IF ~busy THEN "idle" ELSE IF hung THEN "stuck" ELSE "healthy"

\* live() publishes what it saw, the run is judged and the index is asked for.
Tick ==
  /\ watch /\ check.at = "idle"
  /\ check' = [at |-> "index", verdict |-> JudgeTurn, status |-> Settled(failed)]
  /\ jobs' = Enqueue(Settled(failed))
  /\ wanted' = TRUE
  /\ UNCHANGED <<crossed, harness, published, pub, status, poisoned, index, rows, through, watch,
                 stream, submit, bounds>>

CheckIndexed ==
  /\ check.at = "index"
  /\ ~wanted /\ index.at = "idle"
  /\ check' = IF check.verdict = "healthy" THEN IdleCheck ELSE [check EXCEPT !.at = "disarm"]
  /\ UNCHANGED <<crossed, harness, publishing, indexing, watch, stream, submit, bounds>>

\* The watchdog of an idle chat pretends that 'running' was published last.
CheckDisarm ==
  /\ check.at = "disarm"
  /\ \/ /\ watch' = FALSE
        /\ IF check.verdict = "idle"
           THEN check' = [check EXCEPT !.at = "update"] /\ published' = "idle"
           ELSE check' = [check EXCEPT !.at = "abort"] /\ UNCHANGED published
        /\ UNCHANGED bounds
     \/ Fault /\ check' = IdleCheck /\ UNCHANGED <<watch, published>>
  /\ UNCHANGED <<crossed, harness, jobs, pub, status, indexing, stream, submit>>

CheckUpdate ==
  /\ check.at = "update"
  /\ WriteStatus(check.status)
  /\ check' = IdleCheck
  /\ crossed' = (crossed \/ pub.at = "update")
  /\ UNCHANGED <<harness, published, jobs, pub, indexing, watch, stream, submit>>

CheckAbort ==
  /\ check.at = "abort"
  /\ AbortRun
  /\ check' = IdleCheck
  /\ UNCHANGED <<crossed, published, pub, status, poisoned, index, rows, through, watch, stream,
                 submit, bounds>>

----------------------------------------------------------------------------
(* The isolate dies.  The harness resumes its run; nobody is connected. *)
Crash ==
  /\ crashes < MaxCrashes /\ crashes' = crashes + 1
  /\ hung' = FALSE
  /\ published' = "unknown" /\ jobs' = <<>> /\ pub' = IdlePub
  /\ stream' = FALSE
  /\ wanted' = FALSE /\ poisoned' = FALSE /\ index' = IdleIndex
  /\ submit' = "idle" /\ check' = IdleCheck
  /\ UNCHANGED <<crossed, busy, entries, failed, status, rows, through, watch, opens, faults>>

----------------------------------------------------------------------------
PiInit ==
  /\ busy = FALSE /\ hung = FALSE /\ entries = 0 /\ failed = FALSE
  /\ status = "active" /\ rows = <<>>
  /\ through = 0 /\ watch = FALSE
  /\ published = "unknown" /\ stream = FALSE /\ jobs = <<>> /\ pub = IdlePub
  /\ wanted = FALSE /\ poisoned = FALSE /\ index = IdleIndex
  /\ submit = "idle" /\ check = IdleCheck /\ crossed = FALSE
  /\ opens = 0 /\ faults = 0 /\ crashes = 0

PubStep == PubRead \/ PubEntries \/ PubUpdate
IndexStep == IndexBegin \/ IndexInsert \/ IndexEnd \/ IndexRejected
SubmitStep == SubmitPublished \/ SubmitList \/ SubmitArm
CheckStep == Tick \/ CheckIndexed \/ CheckDisarm \/ CheckUpdate \/ CheckAbort
RunStep == Progress \/ \E f \in BOOLEAN : Finish(f)

PiNext ==
  \/ PubStep \/ IndexStep \/ SubmitStep \/ CheckStep \/ RunStep
  \/ Hang \/ Abort \/ Submit \/ Open \/ Crash

\* The chains go on, the alarm comes.  Runs, the owner, faults and deaths are free.
Fairness == WF_piVars(PubStep) /\ WF_piVars(IndexStep) /\ WF_piVars(SubmitStep) /\ WF_piVars(CheckStep)

PiSpec == PiInit /\ [][PiNext]_piVars /\ Fairness
----------------------------------------------------------------------------
Statuses == {"active", "running", "error"}

PiTypeOK ==
  /\ busy \in BOOLEAN /\ hung \in BOOLEAN /\ failed \in BOOLEAN
  /\ entries \in 0..MaxEntries
  /\ status \in Statuses
  /\ rows \in Seq(1..MaxEntries)
  /\ through \in 0..entries
  /\ watch \in BOOLEAN /\ stream \in BOOLEAN
  /\ published \in {"unknown", "running", "idle"}
  /\ jobs \in Seq({"now", "active", "error"})
  /\ pub \in [at : {"idle", "entries", "update"}, status : Statuses]
  /\ wanted \in BOOLEAN /\ poisoned \in BOOLEAN
  /\ index \in [at : {"idle", "copy"}, next : 0..(MaxEntries + 1), last : 0..MaxEntries]
  /\ submit \in {"idle", "publish", "list", "arm"}
  /\ check \in [at : {"idle", "index", "disarm", "update", "abort"},
                verdict : {"idle", "stuck", "healthy"}, status : Statuses]
  /\ crossed \in BOOLEAN
  /\ opens \in 0..MaxOpens /\ faults \in 0..MaxFaults /\ crashes \in 0..MaxCrashes

\* The copy for the search is a prefix of the conversation, once and in order,
\* whatever fails or dies between two inserts; and what the stored mark says is
\* copied is copied.
CopyIsPrefix ==
  /\ \A i \in DOMAIN rows : rows[i] = i
  /\ through <= Len(rows)

\* The drawer does not show a chat as running for ever: once its run is over,
\* the row says so, whatever the chain, the watchdog and the owner do at the same
\* time.  Not promised after a failed call, for the cache runs ahead of the row;
\* after the watchdog's UPDATE, which is outside the chain, crossed one of the
\* chain; nor while nothing looks: after a restart neither events nor the
\* watchdog may be left, until the chat is opened.
StatusSettles ==
  (status = "running" /\ ~busy)
    ~> (status # "running" \/ busy \/ faults > 0 \/ crossed \/ (~stream /\ ~watch))

\* Every chat is indexed in full-text search: what is in the conversation is
\* copied in the end.
EveryEntryIndexed == (entries > Len(rows)) ~> (entries = Len(rows))
=============================================================================
