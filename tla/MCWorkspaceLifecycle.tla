------------------------ MODULE MCWorkspaceLifecycle ------------------------
(* Small instances of WorkspaceLifecycle for TLC. *)
EXTENDS WorkspaceLifecycle

CONSTANTS u1, u2, u3

\* Any three of the mishaps, each once.
Troubled == [m \in Mishaps \cup {"any"} |-> IF m = "any" THEN 3 ELSE 1]
\* One container that hangs, and nothing else goes wrong.
OneHang == [m \in Mishaps \cup {"any"} |-> IF m \in {"hang", "any"} THEN 1 ELSE 0]
=============================================================================
