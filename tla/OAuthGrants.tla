----------------------------- MODULE OAuthGrants -----------------------------
(* The tokens of one connector the owner added, in the owner's store.  The    *)
(* owner adds and removes the connector, authorizes it in flows that may run   *)
(* side by side, imports tokens and disconnects, while callers ask for an      *)
(* access token and refresh it when it is about to expire.  Calls to the       *)
(* provider are outside the store, and anything may happen while one is under  *)
(* way.  The provider is external: it may give a new refresh token with every  *)
(* refresh and then takes only the newest, and only from the client it was     *)
(* issued to.                                                                  *)
EXTENDS Naturals, FiniteSets

CONSTANTS
  Flow,      \* authorization flows, each started at most once
  Caller,    \* requests for an access token under way at the same time
  None,
  MaxGrants, \* bound: grants the provider issues
  MaxTurns,  \* bound: refresh tokens of one grant
  MaxAdds,   \* bound: times the connector is added
  MaxFaults  \* bound: answers of the provider that are lost, and deaths of the store

Grant == 1..MaxGrants
Turn == 1..MaxTurns
Static == "static"    \* the client id of a connector registered in advance
Client == Flow \union {Static}

ASSUME OAuthAssumption ==
  /\ None \notin Flow \union {Static, "dcr"} /\ Static \notin Flow
  /\ MaxGrants \in Nat /\ MaxTurns \in Nat \ {0} /\ MaxAdds \in Nat /\ MaxFaults \in Nat

VARIABLES
  \* the provider
  rotates,   \* a refresh gives a new refresh token
  issued,    \* grants so far
  client,    \* the client each grant was issued to
  newest,    \* the refresh token of each grant that is accepted
  codes,     \* flows whose code was exchanged
  \* the storage of the object
  mcp,       \* the connector: None, or Static, or "dcr" when it registers clients
  tokens,    \* the token set, or None
  pending,   \* flows whose PendingAuthorization is stored
  \* requests under way
  flow,      \* of each flow: its steps and the client it uses
  call,      \* of each caller: its step and the token set it works with
  \* history and bounds
  adds, faults,
  returned   \* tokens of a removed or disconnected connector were written back

provider == <<rotates, issued, client, newest, codes>>
store == <<mcp, tokens, pending>>
vars == <<provider, store, flow, call, adds, faults, returned>>

TokenSet == [grant : Grant, turn : Turn, dyn : Flow \union {None}, fresh : BOOLEAN]

\* Requests remember here whether the owner took the tokens away meanwhile.
IdleFlow == [at |-> "new", dyn |-> None, grant |-> 0, late |-> FALSE]
IdleCall == [at |-> "idle", set |-> None, late |-> FALSE]

Fault == faults < MaxFaults /\ faults' = faults + 1

\* stored dynamic_client_id ?? auth.clientId, which is empty for "dcr".
ClientOf(dyn) == IF dyn # None THEN dyn ELSE IF mcp = Static THEN Static ELSE None

\* The owner took the tokens away: what is under way does not notice.
Late ==
  /\ flow' = [f \in Flow |-> [flow[f] EXCEPT !.late = @ \/ flow[f].at \in {"exchange", "granted"}]]
  /\ call' = [c \in Caller |-> [call[c] EXCEPT !.late = call[c].at # "idle"]]
-----------------------------------------------------------------------------
(* The provider *)

\* A new grant, issued to a client.
Issue(c) ==
  /\ issued < MaxGrants
  /\ issued' = issued + 1
  /\ client' = [client EXCEPT ![issued + 1] = c]
  /\ newest' = [newest EXCEPT ![issued + 1] = 1]

Accepts(set, c) ==
  /\ client[set.grant] = c
  /\ newest[set.grant] = set.turn
  /\ rotates => set.turn < MaxTurns

\* What it answers to a refresh it accepts: a turn further if it rotates.
Successor(set) == IF rotates THEN set.turn + 1 ELSE set.turn
-----------------------------------------------------------------------------
(* The connector *)

AddMcp(kind) ==
  /\ mcp = None /\ adds < MaxAdds
  /\ mcp' = kind /\ adds' = adds + 1
  /\ UNCHANGED <<provider, tokens, pending, flow, call, faults, returned>>

\* removeUserMcpInternal
RemoveMcp ==
  /\ mcp # None
  /\ mcp' = None /\ tokens' = None /\ pending' = {}
  /\ Late
  /\ UNCHANGED <<provider, adds, faults, returned>>

\* disconnectInternal
Disconnect ==
  /\ mcp # None
  /\ tokens' = None /\ pending' = {}
  /\ Late
  /\ UNCHANGED <<provider, mcp, adds, faults, returned>>

\* The access token comes within its last minute.
Expire ==
  /\ tokens # None
  /\ tokens.fresh
  /\ tokens' = [tokens EXCEPT !.fresh = FALSE]
  /\ UNCHANGED <<provider, mcp, pending, flow, call, adds, faults, returned>>
-----------------------------------------------------------------------------
(* Authorization *)

BugAlwaysDynamic(f) ==
  /\ flow[f].at = "new" /\ mcp # None
  /\ flow' = [flow EXCEPT ![f] = [at |-> "register", dyn |-> IF mcp = Static THEN Static ELSE f,
                                  grant |-> 0, late |-> FALSE]]
  /\ UNCHANGED <<provider, store, call, adds, faults, returned>>

\* startAuthorizationInternal up to the registration of a client.
Start(f) ==
  /\ flow[f].at = "new" /\ mcp # None
  /\ flow' = [flow EXCEPT ![f] = [at |-> "register", dyn |-> IF mcp = Static THEN None ELSE f,
                                  grant |-> 0, late |-> FALSE]]
  /\ UNCHANGED <<provider, store, call, adds, faults, returned>>

\* The registration is answered, or fails.
StartPut(f) ==
  /\ flow[f].at = "register"
  /\ \/ pending' = pending \union {f} /\ flow' = [flow EXCEPT ![f].at = "started"]
     \/ flow' = [flow EXCEPT ![f].at = "over"] /\ UNCHANGED pending
  /\ UNCHANGED <<provider, mcp, tokens, call, adds, faults, returned>>

\* completeAuthorizationInternal up to the exchange.  The callback may come again.
Complete(f) ==
  /\ flow[f].at = "started" /\ f \in pending /\ mcp # None
  /\ flow' = [flow EXCEPT ![f] = [@ EXCEPT
                 !.at = IF ClientOf(flow[f].dyn) = None THEN "started" ELSE "exchange",
                 !.late = FALSE]]
  /\ UNCHANGED <<provider, store, call, adds, faults, returned>>

\* The five minutes of the state are over.
StateExpired(f) ==
  /\ flow[f].at = "started" /\ f \in pending
  /\ pending' = pending \ {f}
  /\ UNCHANGED <<provider, mcp, tokens, flow, call, adds, faults, returned>>

\* The exchange: a code is taken once, from the client of the flow.  An answer
\* that does not come leaves the state pending.
Exchange(f) ==
  /\ flow[f].at = "exchange"
  /\ \/ /\ f \notin codes
        /\ codes' = codes \union {f}
        /\ Issue(IF flow[f].dyn # None THEN flow[f].dyn ELSE Static)
        /\ \/ flow' = [flow EXCEPT ![f] = [@ EXCEPT !.at = "granted", !.grant = issued']]
              /\ UNCHANGED faults
           \/ flow' = [flow EXCEPT ![f].at = "started"] /\ Fault
     \/ flow' = [flow EXCEPT ![f].at = "started"]
        /\ UNCHANGED <<issued, client, newest, codes, faults>>
  /\ UNCHANGED <<rotates, store, call, adds, returned>>

BugDropClient(f) ==
  /\ flow[f].at = "granted"
  /\ tokens' = [grant |-> flow[f].grant, turn |-> 1, dyn |-> None, fresh |-> TRUE]
  /\ pending' = pending \ {f}
  /\ flow' = [flow EXCEPT ![f].at = "started"]
  /\ returned' = (returned \/ flow[f].late)
  /\ UNCHANGED <<provider, mcp, call, adds, faults>>

CompletePut(f) ==
  /\ flow[f].at = "granted"
  /\ tokens' = [grant |-> flow[f].grant, turn |-> 1, dyn |-> flow[f].dyn, fresh |-> TRUE]
  /\ pending' = pending \ {f}
  /\ flow' = [flow EXCEPT ![f].at = "started"]
  /\ returned' = (returned \/ flow[f].late)
  /\ UNCHANGED <<provider, mcp, call, adds, faults>>

\* importTokenInternal: tokens of a flow the owner completed elsewhere, with the
\* client id it registered there.
ImportToken(f) ==
  /\ mcp # None /\ flow[f].at = "new"
  /\ Issue(IF mcp = Static THEN Static ELSE f)
  /\ tokens' = [grant |-> issued', turn |-> 1, dyn |-> IF mcp = Static THEN None ELSE f,
                fresh |-> TRUE]
  /\ flow' = [flow EXCEPT ![f].at = "over"]
  /\ UNCHANGED <<rotates, codes, mcp, pending, call, adds, faults, returned>>
-----------------------------------------------------------------------------
(* getValidAccessTokenInternal *)

\* A token that is not about to expire is returned at once, which changes
\* nothing; otherwise the caller goes to the provider with what it read.
TokenRead(c) ==
  /\ call[c].at = "idle"
  /\ tokens # None
  /\ ~tokens.fresh
  /\ ClientOf(tokens.dyn) # None
  /\ call' = [call EXCEPT ![c] = [at |-> "refresh", set |-> tokens, late |-> FALSE]]
  /\ UNCHANGED <<provider, store, flow, adds, faults, returned>>

\* The client id it sends was read with the connector, before the call.
RefreshClient(set) == IF set.dyn # None THEN set.dyn ELSE Static

BugKeepOldRefreshToken(c) ==
  /\ call[c].at = "refresh"
  /\ Accepts(call[c].set, RefreshClient(call[c].set))
  /\ newest' = [newest EXCEPT ![call[c].set.grant] = Successor(call[c].set)]
  /\ call' = [call EXCEPT ![c].at = "refreshed", ![c].set.fresh = TRUE]
  /\ UNCHANGED <<rotates, issued, client, codes, store, flow, adds, faults, returned>>

\* The answer: the set read, with the new access token and the new refresh
\* token, or the old one when none came.
RefreshAccepted(c) ==
  LET set == call[c].set IN
  /\ call[c].at = "refresh"
  /\ Accepts(set, RefreshClient(set))
  /\ newest' = [newest EXCEPT ![set.grant] = Successor(set)]
  /\ call' = [call EXCEPT ![c] = [@ EXCEPT !.at = "refreshed",
                 !.set = [set EXCEPT !.turn = Successor(set), !.fresh = TRUE]]]
  /\ UNCHANGED <<rotates, issued, client, codes, store, flow, adds, faults, returned>>

\* The answer is lost on the way: resilientTokenFetch asks again with the same
\* refresh token.
RefreshLost(c) ==
  LET set == call[c].set IN
  /\ call[c].at = "refresh"
  /\ Accepts(set, RefreshClient(set))
  /\ newest' = [newest EXCEPT ![set.grant] = Successor(set)]
  /\ Fault
  /\ UNCHANGED <<rotates, issued, client, codes, store, flow, call, adds, returned>>

\* A refusal, or no answer after the retries: null, and the tokens are kept.
RefreshFailed(c) ==
  /\ call[c].at = "refresh"
  /\ call' = [call EXCEPT ![c] = IdleCall]
  /\ UNCHANGED <<provider, store, flow, adds, faults, returned>>

RefreshPut(c) ==
  /\ call[c].at = "refreshed"
  /\ tokens' = call[c].set
  /\ returned' = (returned \/ call[c].late)
  /\ call' = [call EXCEPT ![c] = IdleCall]
  /\ UNCHANGED <<provider, mcp, pending, flow, adds, faults>>

\* The object dies: requests under way are gone.
Crash ==
  /\ Fault
  /\ call' = [c \in Caller |-> IdleCall]
  /\ flow' = [f \in Flow |-> CASE flow[f].at = "register" -> [flow[f] EXCEPT !.at = "over"]
                               [] flow[f].at \in {"exchange", "granted"} -> [flow[f] EXCEPT !.at = "started"]
                               [] OTHER -> flow[f]]
  /\ UNCHANGED <<provider, store, adds, returned>>
-----------------------------------------------------------------------------
Init ==
  /\ rotates \in BOOLEAN
  /\ issued = 0 /\ codes = {}
  /\ client = [g \in Grant |-> Static] /\ newest = [g \in Grant |-> 1]
  /\ mcp = None /\ tokens = None /\ pending = {}
  /\ flow = [f \in Flow |-> IdleFlow] /\ call = [c \in Caller |-> IdleCall]
  /\ adds = 0 /\ faults = 0 /\ returned = FALSE

Next ==
  \/ \E kind \in {Static, "dcr"} : AddMcp(kind)
  \/ RemoveMcp \/ Disconnect \/ Expire \/ Crash
  \/ \E f \in Flow : \/ Start(f) \/ StartPut(f) \/ Complete(f) \/ StateExpired(f)
                     \/ Exchange(f) \/ CompletePut(f) \/ ImportToken(f)
  \/ \E c \in Caller : \/ TokenRead(c) \/ RefreshAccepted(c) \/ RefreshLost(c)
                       \/ RefreshFailed(c) \/ RefreshPut(c)

Spec == Init /\ [][Next]_vars
-----------------------------------------------------------------------------
FlowSteps == {"new", "register", "started", "exchange", "granted", "over"}

TypeOK ==
  /\ rotates \in BOOLEAN
  /\ issued \in 0..MaxGrants /\ codes \subseteq Flow
  /\ client \in [Grant -> Client] /\ newest \in [Grant -> Turn]
  /\ mcp \in {None, Static, "dcr"}
  /\ tokens \in TokenSet \union {None}
  /\ pending \subseteq Flow
  /\ flow \in [Flow -> [at : FlowSteps, dyn : Flow \union {None}, grant : 0..MaxGrants,
                        late : BOOLEAN]]
  /\ call \in [Caller -> [at : {"idle", "refresh", "refreshed"},
                          set : TokenSet \union {None}, late : BOOLEAN]]
  /\ adds \in 0..MaxAdds /\ faults \in 0..MaxFaults /\ returned \in BOOLEAN

\* The provider will take the refresh token that is stored, or its successor is
\* on its way to storage: requests that refresh at the same time, an
\* authorization that completes meanwhile and tokens written over others never
\* leave one that was used up.  Not promised when an answer is lost or the
\* object dies after the provider rotated.
RefreshTokenCurrent ==
  tokens # None /\ faults = 0 =>
    \/ newest[tokens.grant] = tokens.turn
    \/ \E c \in Caller : /\ call[c].at = "refreshed"
                         /\ call[c].set.grant = tokens.grant
                         /\ call[c].set.turn = newest[tokens.grant]

\* The next refresh presents the client id the refresh token is bound to, however
\* many clients were registered by flows side by side; a connector removed and
\* added again does not inherit tokens of another client.  Not promised once
\* tokens that were taken away came back.
ClientIdMatches ==
  tokens # None /\ ~returned => ClientOf(tokens.dyn) = client[tokens.grant]
=============================================================================
