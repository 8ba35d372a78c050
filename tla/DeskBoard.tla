------------------------------ MODULE DeskBoard ------------------------------
(* The desk as the routes and tools write it: a row of owner_preferences that  *)
(* each writer reads, changes and stores only if it still holds what it read,  *)
(* again and again up to a number of attempts; the owner clears it whatever it *)
(* holds.                                                                      *)
EXTENDS DeskCards

CONSTANTS
  Proc,         \* requests under way at the same time
  MaxAttempts,  \* DESK_WRITE_MAX_ATTEMPTS
  MaxClock,     \* bound: times at which boards are written
  MaxClears,    \* bound: times the owner clears the desk
  MaxFaults     \* bound: calls that fail and requests that die

ASSUME AttemptsAssumption ==
  /\ MaxAttempts \in Nat \ {0}
  /\ MaxClock \in Nat /\ MaxClears \in Nat /\ MaxFaults \in Nat

VARIABLES
  row,     \* value_json of desk.board, or None when there is no row
  work,    \* of each request: its step in writeWithCompareAndSet
  told,    \* of each request: the answer to its last write
  clock, clears, faults

deskVars == <<row, work, told, clock, clears, faults>>

Idle == [at |-> "idle", write |-> None, seen |-> None, next |-> Empty(0), tries |-> 0,
         landed |-> FALSE]

Fault == faults < MaxFaults /\ faults' = faults + 1
NoFault == UNCHANGED faults

Goto(p, step) == work' = [work EXCEPT ![p].at = step]

Ticks ==
  /\ clock < MaxClock /\ clock' = clock + 1
  /\ UNCHANGED <<row, work, told, clears, faults>>

\* ownerDeskUpsert, ownerDeskRemove
BeginWrite(p, w) ==
  /\ work[p].at = "idle"
  /\ work' = [work EXCEPT ![p] = [Idle EXCEPT !.at = "read", !.write = w]]
  /\ UNCHANGED <<row, told, clock, clears, faults>>

\* readVersionedBoard, and what the write makes of it.
Read(p) ==
  /\ work[p].at = "read"
  /\ \/ /\ work' = [work EXCEPT
             ![p].at = "swap", ![p].seen = row,
             ![p].next = Applied(BoardOf(row, clock), work[p].write, clock)]
        /\ NoFault
     \/ Fault /\ Goto(p, "error")
  /\ UNCHANGED <<row, told, clock, clears>>

BugNoCompare(p) == TRUE
\* The row compareAndSetBoard accepts: the one that was read, byte for byte.
Unchanged(p) == row = work[p].seen

BugOneTryMore(p) == IF work[p].tries < MaxAttempts THEN "read" ELSE "conflict"
\* After a refusal: again, until the attempts are used up.
AfterRefusal(p) == IF work[p].tries + 1 < MaxAttempts THEN "read" ELSE "conflict"

\* What the loop read and made is gone with the attempt.
Leave(p, step, landed) ==
  work' = [work EXCEPT ![p] = [Idle EXCEPT !.at = step, !.write = work[p].write,
                                           !.landed = landed]]

\* compareAndSetBoard.  An answer that is lost is an error, whether the write
\* landed or not.
Swap(p) ==
  /\ work[p].at = "swap"
  /\ \/ /\ Unchanged(p)
        /\ row' = work[p].next
        /\ (Leave(p, "tell", TRUE) /\ NoFault) \/ (Leave(p, "error", TRUE) /\ Fault)
     \/ /\ ~Unchanged(p)
        /\ work' = [work EXCEPT ![p] = [Idle EXCEPT !.at = AfterRefusal(p), !.write = work[p].write,
                                                    !.tries = work[p].tries + 1]]
        /\ NoFault /\ UNCHANGED row
     \/ Fault /\ Leave(p, "error", FALSE) /\ UNCHANGED row
  /\ UNCHANGED <<told, clock, clears>>

\* broadcastBoard: the writer is told only after it.
Broadcast(p) ==
  /\ work[p].at = "tell"
  /\ \/ Goto(p, "ok") /\ NoFault
     \/ Goto(p, "error") /\ Fault
  /\ UNCHANGED <<row, told, clock, clears>>

Answer(p) ==
  /\ work[p].at \in {"ok", "conflict", "error"}
  /\ told' = [told EXCEPT ![p] = work[p].at]
  /\ work' = [work EXCEPT ![p] = Idle]
  /\ UNCHANGED <<row, clock, clears, faults>>

\* The request dies with its isolate.
Die(p) ==
  /\ work[p].at # "idle"
  /\ work' = [work EXCEPT ![p] = Idle]
  /\ Fault
  /\ UNCHANGED <<row, told, clock, clears>>

\* ownerDeskClear: the row is replaced whatever it holds.
Clear ==
  /\ clears < MaxClears /\ clears' = clears + 1
  /\ row' = Empty(clock)
  /\ UNCHANGED <<work, told, clock, faults>>

DeskInit ==
  /\ row = None
  /\ work = [p \in Proc |-> Idle]
  /\ told = [p \in Proc |-> "nothing"]
  /\ clock = 0 /\ clears = 0 /\ faults = 0

WriteStep(p) == Read(p) \/ Swap(p) \/ Broadcast(p) \/ Answer(p)

DeskNext ==
  \/ Ticks \/ Clear
  \/ \E p \in Proc : WriteStep(p) \/ Die(p) \/ \E w \in Write : BeginWrite(p, w)

DeskSpec == DeskInit /\ [][DeskNext]_deskVars
-----------------------------------------------------------------------------
WorkSteps == {"idle", "read", "swap", "tell", "ok", "conflict", "error"}

WorkTypeOK ==
  \A p \in Proc :
    /\ work[p].at \in WorkSteps
    /\ work[p].at # "idle" => work[p].write \in Write
    /\ work[p].tries \in 0..MaxAttempts
    /\ work[p].at \in {"read", "swap"} => work[p].tries < MaxAttempts
    /\ work[p].landed \in BOOLEAN

\* A board holds a card once and never more than MaxCards; the attempts stay
\* within their number.
DeskTypeOK ==
  /\ row # None => /\ row \in Board
                   /\ Len(row.cards) <= MaxCards
                   /\ \A i, j \in DOMAIN row.cards :
                        row.cards[i].id = row.cards[j].id => i = j
  /\ WorkTypeOK
  /\ told \in [Proc -> {"nothing", "ok", "conflict", "error"}]
  /\ clock \in 0..MaxClock /\ clears \in 0..MaxClears /\ faults \in 0..MaxFaults

\* Every write that is confirmed was applied, once, to the board of that moment,
\* whatever other writers and the owner did between its read and its swap; one
\* that ends in a conflict was not.
Promise == INSTANCE DeskPromise WITH
  want <- [p \in Proc |-> work[p].write],
  fate <- [p \in Proc |-> IF work[p].at = "idle" THEN "none"
                          ELSE IF work[p].landed THEN "applied" ELSE "asked"]

KeepsDesk == Promise!Spec
=============================================================================
