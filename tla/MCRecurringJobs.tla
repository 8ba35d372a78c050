-------------------------- MODULE MCRecurringJobs --------------------------
(* Small instances of RecurringJobs for TLC. *)
EXTENDS RecurringJobs, TLC

CONSTANTS j1, j2, p1, p2, p3, s1, s2, k1

Symmetry == Permutations(Proc) \cup Permutations(Job)

\* The three corners of the state space that the questions are about: limits,
\* crashes and deletions; runs under one key with failures; compensations.
Unkeyed ==
  /\ \A p \in Proc : proc[p].key = None
  /\ \A e \in Job \X RunKey : events[e] = "none"
Purging(p) == proc[p].at \in {"purge.cancel", "purge.jobs", "purge.session"}

LimitsCorner == Unkeyed /\ faults = 0 /\ lastAlarm <= 2
KeysCorner ==
  /\ crashes = 0 /\ lastAlarm <= 1
  /\ \A j \in Job : rows[j].key = None /\ rows[j].limit # 1
  /\ \A p \in Proc : ~Purging(p)
CompensationCorner ==
  /\ Unkeyed /\ crashes = 0 /\ ~drifted
  /\ \A j \in Job : rows[j].runs <= 1
  /\ \A p \in Proc : ~Purging(p)

Corners == LimitsCorner \/ KeysCorner \/ CompensationCorner
=============================================================================
