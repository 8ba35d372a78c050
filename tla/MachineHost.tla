----------------------------- MODULE MachineHost -----------------------------
(***************************************************************************)
(* The relay between callers and one laptop that is connected outbound     *)
(* (the Durable Object MachineHost, machinectl-host.ts).                   *)
(*                                                                         *)
(* Handlers wait for storage only, and while a storage operation is under  *)
(* way the object receives no event: a handler is one step, up to the wait *)
(* of a call for its result.  Sockets are as the object sees them; a frame *)
(* of the laptop is in flight until its handler runs, in order.            *)
(***************************************************************************)
EXTENDS Naturals, Sequences, FiniteSets

CONSTANTS
  Conn,         \* connections; each has its own generation (randomUUID)
  Call,         \* tool calls (randomUUID), from /invoke and /mcp alike
  Tool,         \* tool names
  Catalogs,     \* catalogs a laptop may publish
  None,         \* absence of a generation, of a catalog or of a call
  MaxPending,   \* MAX_PENDING_CALLS
  MaxFrames,    \* bound: frames the laptop sends
  MaxFaults,    \* bound: sends that fail
  MaxRestarts   \* bound: restarts of the object

ASSUME NoneAssumption ==
  None \notin Conn \cup Call /\ \A s \in SUBSET Tool : s # None
ASSUME CatalogAssumption == Catalogs \subseteq SUBSET Tool
ASSUME FiniteAssumption == IsFiniteSet(Conn) /\ IsFiniteSet(Call)
ASSUME BoundAssumption ==
  MaxPending \in Nat \ {0} /\ MaxFrames \in Nat /\ MaxFaults \in Nat /\ MaxRestarts \in Nat

VARIABLES
  socket,       \* readyState of each connection
  since,        \* connectedAt of its attachment
  inbound,      \* frames of the laptop on their way
  generation,   \* storage: socketGeneration
  storedTools,  \* storage: tools (machineName and user go with it)
  cachedTools,  \* this.cachedTools
  pending,      \* this.pending: calls with a live timer
  sentOn,       \* the connection a call was forwarded on
  outcome,      \* what the caller has been told
  answeredOn,   \* the connection whose result answered a call
  published,    \* the last catalog accepted from a connection
  frames, faults, restarts

storage == <<generation, storedTools>>
calls == <<pending, sentOn, outcome, answeredOn>>
laptop == <<inbound, published, frames>>
relayVars == <<socket, since, inbound, generation, storedTools, cachedTools, pending,
          sentOn, outcome, answeredOn, published, frames, faults, restarts>>
-----------------------------------------------------------------------------
\* A hello carries a catalog, or None where it is not valid; a result (ok or
\* error) names its call.
Frame == [type : {"hello"}, tools : Catalogs \cup {None}]
           \cup [type : {"result"}, call : Call]

RelayInit ==
  /\ socket = [k \in Conn |-> "unborn"]
  /\ since = [k \in Conn |-> 0]
  /\ inbound = [k \in Conn |-> <<>>]
  /\ generation = None
  /\ storedTools = None
  /\ cachedTools = None
  /\ pending = {}
  /\ sentOn = [c \in Call |-> None]
  /\ outcome = [c \in Call |-> "none"]
  /\ answeredOn = [c \in Call |-> None]
  /\ published = [k \in Conn |-> None]
  /\ frames = 0
  /\ faults = 0
  /\ restarts = 0
-----------------------------------------------------------------------------
Alive(k) == socket[k] \in {"open", "closing"}

\* The newest socket that is still open.
Selected(k) ==
  /\ socket[k] = "open"
  /\ \A m \in Conn : socket[m] = "open" => since[m] <= since[k]

\* What the catalog reads: the cache, else storage, else nothing.
Served ==
  CASE cachedTools # None -> cachedTools
    [] cachedTools = None /\ storedTools # None -> storedTools
    [] OTHER -> {}

BugForgetPending == pending' = {} /\ UNCHANGED outcome
BugRejectByName ==
  /\ pending' = {}
  /\ outcome' = [c \in Call |-> IF c \in pending THEN "replaced" ELSE outcome[c]]
\* Every pending call is answered with the error, and its timer cleared.
RejectPending ==
  /\ pending' = {}
  /\ outcome' = [c \in Call |-> IF c \in pending THEN "failed" ELSE outcome[c]]

BugClearAnyGeneration(k) == TRUE
\* A superseded socket is not active.
IsActive(k) == generation = k
-----------------------------------------------------------------------------
(* The laptop *)

BugConnectKeepsPending(k) ==
  /\ socket[k] = "unborn"
  /\ socket' = [m \in Conn |-> IF m = k THEN "open"
                               ELSE IF Alive(m) THEN "closing" ELSE socket[m]]
  /\ since' = [since EXCEPT ![k] = 1 + Cardinality({m \in Conn : socket[m] # "unborn"})]
  /\ generation' = k
  /\ cachedTools' = None
  /\ UNCHANGED <<storedTools, calls, laptop, faults, restarts>>
BugConnectBesideOld(k) ==
  /\ socket[k] = "unborn"
  /\ socket' = [socket EXCEPT ![k] = "open"]
  /\ since' = [since EXCEPT ![k] = 1 + Cardinality({m \in Conn : socket[m] # "unborn"})]
  /\ generation' = k
  /\ cachedTools' = None
  /\ RejectPending
  /\ UNCHANGED <<storedTools, sentOn, answeredOn, laptop, faults, restarts>>
\* acceptLaptopConnection: the latest connection wins.
Connect(k) ==
  /\ socket[k] = "unborn"
  /\ socket' = [m \in Conn |-> IF m = k THEN "open"
                               ELSE IF Alive(m) THEN "closing" ELSE socket[m]]
  /\ since' = [since EXCEPT ![k] = 1 + Cardinality({m \in Conn : socket[m] # "unborn"})]
  /\ generation' = k
  /\ cachedTools' = None
  /\ RejectPending
  /\ UNCHANGED <<storedTools, sentOn, answeredOn, laptop, faults, restarts>>

\* The laptop publishes a catalog, or answers a call it was sent, over any
\* connection of its own: a companion that reconnects may answer there.
LaptopSends(k, f) ==
  /\ Alive(k)
  /\ frames < MaxFrames
  /\ f.type = "result" => sentOn[f.call] # None
  /\ inbound' = [inbound EXCEPT ![k] = Append(@, f)]
  /\ frames' = frames + 1
  /\ UNCHANGED <<socket, since, storage, cachedTools, calls, published, faults, restarts>>

Accept(k, f) ==
  \/ /\ f.type = "hello" /\ f.tools # None
     /\ cachedTools' = f.tools
     /\ storedTools' = f.tools
     /\ published' = [published EXCEPT ![k] = f.tools]
     /\ UNCHANGED <<socket, calls>>
  \/ /\ f.type = "hello" /\ f.tools = None
     /\ socket' = [socket EXCEPT ![k] = "closing"]
     /\ UNCHANGED <<cachedTools, storedTools, published, calls>>
  \/ /\ f.type = "result" /\ f.call \in pending
     /\ pending' = pending \ {f.call}
     /\ outcome' = [outcome EXCEPT ![f.call] = "answered"]
     /\ answeredOn' = [answeredOn EXCEPT ![f.call] = k]
     /\ UNCHANGED <<socket, cachedTools, storedTools, published, sentOn>>
  \/ /\ f.type = "result" /\ f.call \notin pending
     /\ UNCHANGED <<socket, cachedTools, storedTools, published, calls>>

\* webSocketMessage: frames of another generation are dropped.
Message(k) ==
  /\ Alive(k) /\ inbound[k] # <<>>
  /\ inbound' = [inbound EXCEPT ![k] = Tail(@)]
  /\ IF IsActive(k) THEN Accept(k, Head(inbound[k]))
     ELSE UNCHANGED <<socket, cachedTools, storedTools, published, calls>>
  /\ UNCHANGED <<since, generation, frames, faults, restarts>>

\* webSocketClose, webSocketError: what was in flight is lost.  Only the
\* active socket clears the advertised state.
Close(k) ==
  /\ Alive(k)
  /\ socket' = [socket EXCEPT ![k] = "closed"]
  /\ inbound' = [inbound EXCEPT ![k] = <<>>]
  /\ IF IsActive(k)
     THEN /\ generation' = None /\ storedTools' = None /\ cachedTools' = None
          /\ RejectPending
     ELSE UNCHANGED <<storage, cachedTools, pending, outcome>>
  /\ UNCHANGED <<since, sentOn, answeredOn, published, frames, faults, restarts>>
-----------------------------------------------------------------------------
(* The callers *)

\* tools(): a read fills the cache.
ReadTools == cachedTools' = Served

\* /status and tools/list, while a laptop is connected.
List ==
  /\ \E k \in Conn : Selected(k)
  /\ ReadTools
  /\ UNCHANGED <<socket, since, storage, calls, laptop, faults, restarts>>

BugOneMorePending == Cardinality(pending) <= MaxPending
HasRoom == Cardinality(pending) < MaxPending

\* No laptop, no such tool, or too many calls in flight.
Refuse(c, t) ==
  /\ outcome[c] = "none"
  /\ \/ /\ \A k \in Conn : ~Selected(k)
        /\ UNCHANGED cachedTools
     \/ /\ \E k \in Conn : Selected(k)
        /\ t \notin Served \/ ~HasRoom
        /\ ReadTools
  /\ outcome' = [outcome EXCEPT ![c] = "refused"]
  /\ UNCHANGED <<socket, since, storage, pending, sentOn, answeredOn, laptop, faults, restarts>>

Forward(c, t, k) ==
  /\ outcome[c] = "none"
  /\ Selected(k) /\ t \in Served /\ HasRoom
  /\ ReadTools
  /\ pending' = pending \cup {c}
  /\ sentOn' = [sentOn EXCEPT ![c] = k]
  /\ outcome' = [outcome EXCEPT ![c] = "waiting"]
  /\ UNCHANGED <<socket, since, storage, answeredOn, laptop, faults, restarts>>

\* send() throws: the caller is told, the socket is closed and, where it is
\* the active one, its state is cleared at once.
ForwardFails(c, t, k) ==
  /\ outcome[c] = "none"
  /\ Selected(k) /\ t \in Served /\ HasRoom
  /\ faults < MaxFaults
  /\ faults' = faults + 1
  /\ socket' = [socket EXCEPT ![k] = "closing"]
  /\ IF IsActive(k)
     THEN /\ generation' = None /\ storedTools' = None /\ cachedTools' = None
          /\ pending' = {}
          /\ outcome' = [x \in Call |-> IF x = c \/ x \in pending THEN "failed" ELSE outcome[x]]
     ELSE /\ ReadTools
          /\ outcome' = [outcome EXCEPT ![c] = "failed"]
          /\ UNCHANGED <<storage, pending>>
  /\ UNCHANGED <<since, sentOn, answeredOn, laptop, restarts>>

\* The timer of a call, which lives as long as its entry in `pending`.
Timeout(c) ==
  /\ c \in pending
  /\ pending' = pending \ {c}
  /\ outcome' = [outcome EXCEPT ![c] = "failed"]
  /\ UNCHANGED <<socket, since, storage, cachedTools, sentOn, answeredOn, laptop, faults, restarts>>
-----------------------------------------------------------------------------
(* The platform *)

\* An object without requests or timers is put to sleep; its sockets stay.
Hibernate ==
  /\ pending = {} /\ cachedTools # None
  /\ cachedTools' = None
  /\ UNCHANGED <<socket, since, storage, calls, laptop, faults, restarts>>

\* A deploy or a failure: memory and sockets go, the callers' requests fail,
\* no close handler runs, and storage stays as it is.
Restart ==
  /\ restarts < MaxRestarts
  /\ restarts' = restarts + 1
  /\ socket' = [k \in Conn |-> IF Alive(k) THEN "closed" ELSE socket[k]]
  /\ inbound' = [k \in Conn |-> <<>>]
  /\ cachedTools' = None
  /\ RejectPending
  /\ UNCHANGED <<since, storage, sentOn, answeredOn, published, frames, faults>>
-----------------------------------------------------------------------------
RelayNext ==
  \/ \E k \in Conn : Connect(k) \/ Message(k) \/ Close(k)
  \/ \E k \in Conn, f \in Frame : LaptopSends(k, f)
  \/ \E c \in Call, t \in Tool : Refuse(c, t)
  \/ \E c \in Call, t \in Tool, k \in Conn : Forward(c, t, k) \/ ForwardFails(c, t, k)
  \/ \E c \in Call : Timeout(c)
  \/ List \/ Hibernate \/ Restart

RelaySpec == RelayInit /\ [][RelayNext]_relayVars

\* Timers fire; the laptop and the network owe nothing.
FairRelaySpec == RelaySpec /\ \A c \in Call : WF_relayVars(Timeout(c))
-----------------------------------------------------------------------------
(***************************************************************************)
(* Properties.                                                             *)
(***************************************************************************)

\* Every variable has its type.
RelayTypeOK ==
  /\ socket \in [Conn -> {"unborn", "open", "closing", "closed"}]
  /\ since \in [Conn -> Nat]
  /\ inbound \in [Conn -> Seq(Frame)]
  /\ generation \in Conn \cup {None}
  /\ storedTools \in Catalogs \cup {None}
  /\ cachedTools \in Catalogs \cup {{}, None}
  /\ pending \subseteq Call
  /\ sentOn \in [Call -> Conn \cup {None}]
  /\ outcome \in [Call -> {"none", "waiting", "answered", "failed", "refused"}]
  /\ answeredOn \in [Call -> Conn \cup {None}]
  /\ published \in [Conn -> Catalogs \cup {None}]
  /\ frames \in Nat /\ faults \in Nat /\ restarts \in Nat

\* An open socket is the active one, so there is at most one: frames of the
\* selected laptop are never dropped as stale.
OpenIsActive == \A k \in Conn : socket[k] = "open" => generation = k

\* No caller is forgotten, and none waits on a connection that is gone: the
\* calls without an answer are those with a timer, at most MaxPending, and
\* each was forwarded on the connection that is active now.
WaitingAccounted ==
  /\ pending = {c \in Call : outcome[c] = "waiting"}
  /\ \A c \in pending : generation = sentOn[c] /\ sentOn[c] \in Conn
  /\ Cardinality(pending) <= MaxPending

\* A result is taken from the connection its call was forwarded on, though a
\* companion that reconnects may answer old calls over the new socket.
AnswersStayHome ==
  \A c \in Call : outcome[c] = "answered" => answeredOn[c] = sentOn[c]

\* What a laptop has published is served as long as its socket is open: late
\* closes, errors and frames of superseded sockets, sleep and reads between
\* never bring back or erase a catalog (clearActiveSocket).
CatalogKept ==
  \A k \in Conn : socket[k] = "open" /\ published[k] # None => Served = published[k]

\* Why it is kept: the cache agrees with storage, so nothing depends on when
\* the object slept, and a connection publishes nothing before it exists.
CacheAgrees ==
  cachedTools # None => cachedTools = IF storedTools = None THEN {} ELSE storedTools
UnbornIsSilent == \A k \in Conn : socket[k] = "unborn" => published[k] = None

\* The inductive invariant.
RelayInv ==
  RelayTypeOK /\ OpenIsActive /\ WaitingAccounted /\ AnswersStayHome
    /\ CacheAgrees /\ UnbornIsSilent /\ CatalogKept

\* Every call that was forwarded is answered, whatever happens to the laptop.
EveryCallAnswered ==
  \A c \in Call : outcome[c] = "waiting" ~> outcome[c] \in {"answered", "failed"}
=============================================================================
