-------------------------- MODULE OAuthGrantsProofs --------------------------
(***************************************************************************)
(* Proofs about OAuthGrants, for every number of flows and callers, every  *)
(* bound and every provider, whether it rotates refresh tokens or not.     *)
(***************************************************************************)
EXTENDS OAuthGrants, TLAPS

Flows == [at : FlowSteps, dyn : Flow \union {None}, grant : 0..MaxGrants, late : BOOLEAN]
Calls == [at : {"idle", "refresh", "refreshed"}, set : TokenSet \union {None}, late : BOOLEAN]

LEMMA IdleTyped == IdleFlow \in Flows /\ IdleCall \in Calls
BY OAuthAssumption DEF IdleFlow, IdleCall, Flows, Calls, FlowSteps

LEMMA GrantedTyped ==
  ASSUME NEW r \in Flows, NEW step \in FlowSteps, NEW g \in 0..MaxGrants
  PROVE  [r EXCEPT !.at = step, !.grant = g] \in Flows
BY DEF Flows

LEMMA MovedTyped ==
  ASSUME NEW r \in Flows, NEW step \in FlowSteps, NEW l \in BOOLEAN
  PROVE  [r EXCEPT !.at = step, !.late = l] \in Flows
BY DEF Flows

LEMMA RefreshedTyped ==
  ASSUME NEW set \in TokenSet, NEW t \in Turn
  PROVE  [set EXCEPT !.turn = t, !.fresh = TRUE] \in TokenSet
BY DEF TokenSet

LEMMA InitTyped == Init => TypeOK
<1> SUFFICES ASSUME Init PROVE TypeOK
  OBVIOUS
<1>1. flow \in [Flow -> Flows] /\ call \in [Caller -> Calls]
  BY IdleTyped DEF Init
<1>2. client \in [Grant -> Client] /\ newest \in [Grant -> Turn]
  BY OAuthAssumption DEF Init, Client, Turn
<1>3. issued \in 0..MaxGrants /\ adds \in 0..MaxAdds /\ faults \in 0..MaxFaults
  BY OAuthAssumption DEF Init
<1> QED BY <1>1, <1>2, <1>3 DEF Init, TypeOK, Flows, Calls

\* A caller at work has a token set.
AtWork == \A c \in Caller : call[c].at # "idle" => call[c].set \in TokenSet

\* What is stored, in the hands of a caller or on its way to storage is of a
\* grant that was issued.
KnownGrants ==
  /\ tokens # None => tokens.grant <= issued
  /\ \A c \in Caller : call[c].at # "idle" => call[c].set.grant <= issued
  /\ \A f \in Flow : flow[f].at = "granted" => flow[f].grant \in 1..issued

Typed == TypeOK /\ AtWork /\ KnownGrants

\* A grant that is issued, and nothing else, keeps what the provider holds.
LEMMA IssueTyped ==
  ASSUME TypeOK, NEW c \in Client, Issue(c)
  PROVE  /\ issued' \in 0..MaxGrants /\ issued' \in Grant /\ issued' = issued + 1
         /\ client' \in [Grant -> Client] /\ newest' \in [Grant -> Turn]
         /\ client'[issued'] = c /\ newest'[issued'] = 1
         /\ \A g \in Grant : g # issued' => client'[g] = client[g] /\ newest'[g] = newest[g]
BY OAuthAssumption DEF TypeOK, Issue, Grant, Turn

LEMMA LateTyped ==
  ASSUME TypeOK, Late
  PROVE  flow' \in [Flow -> Flows] /\ call' \in [Caller -> Calls]
BY DEF TypeOK, Late, Flows, Calls

LEMMA SuccessorTyped ==
  ASSUME TypeOK, NEW set \in TokenSet, NEW c, Accepts(set, c)
  PROVE  Successor(set) \in Turn
BY OAuthAssumption DEF TypeOK, Accepts, Successor, TokenSet, Turn

LEMMA FlowTyped ==
  ASSUME TypeOK, Next
  PROVE  flow' \in [Flow -> Flows]
<1> USE OAuthAssumption DEF TypeOK, Flows, FlowSteps
<1>1. CASE \E kind \in {Static, "dcr"} : AddMcp(kind)
  BY <1>1 DEF AddMcp
<1>2. CASE RemoveMcp \/ Disconnect
  BY <1>2, LateTyped DEF RemoveMcp, Disconnect
<1>3. CASE Expire
  BY <1>3 DEF Expire
<1>4. CASE Crash
  BY <1>4 DEF Crash
<1>5. ASSUME NEW f \in Flow, Start(f) PROVE flow' \in [Flow -> Flows]
  BY <1>5 DEF Start
<1>6. ASSUME NEW f \in Flow, StartPut(f) \/ StateExpired(f) \/ CompletePut(f)
      PROVE  flow' \in [Flow -> Flows]
  BY <1>6 DEF StartPut, StateExpired, CompletePut
<1>10. ASSUME NEW f \in Flow, Complete(f) PROVE flow' \in [Flow -> Flows]
  <2>1. PICK step \in FlowSteps : flow' = [flow EXCEPT ![f] = [@ EXCEPT !.at = step, !.late = FALSE]]
    BY <1>10 DEF Complete
  <2>2. flow \in [Flow -> Flows]
    OBVIOUS
  <2> HIDE DEF TypeOK, Flows, FlowSteps
  <2>3. [flow[f] EXCEPT !.at = step, !.late = FALSE] \in Flows
    BY <2>2, MovedTyped
  <2> QED BY <2>1, <2>2, <2>3
<1>7. ASSUME NEW f \in Flow, Exchange(f) PROVE flow' \in [Flow -> Flows]
  <2>1. CASE flow' = [flow EXCEPT ![f].at = "started"]
    BY <2>1
  <2>2. CASE flow' = [flow EXCEPT ![f] = [@ EXCEPT !.at = "granted", !.grant = issued']]
            /\ issued' = issued + 1 /\ issued < MaxGrants
    <3>1. flow \in [Flow -> Flows] /\ issued' \in 0..MaxGrants /\ "granted" \in FlowSteps
      BY <2>2
    <3> HIDE DEF TypeOK, Flows, FlowSteps
    <3>2. [flow[f] EXCEPT !.at = "granted", !.grant = issued'] \in Flows
      BY <3>1, GrantedTyped
    <3> QED BY <3>1, <3>2, <2>2
  <2>3. \/ flow' = [flow EXCEPT ![f].at = "started"]
        \/ /\ flow' = [flow EXCEPT ![f] = [@ EXCEPT !.at = "granted", !.grant = issued']]
           /\ issued' = issued + 1 /\ issued < MaxGrants
    BY <1>7 DEF Exchange, Issue
  <2> QED BY <2>1, <2>2, <2>3
<1>8. ASSUME NEW f \in Flow, ImportToken(f) PROVE flow' \in [Flow -> Flows]
  BY <1>8 DEF ImportToken
<1>9. ASSUME NEW c \in Caller,
             TokenRead(c) \/ RefreshAccepted(c) \/ RefreshLost(c) \/ RefreshFailed(c) \/ RefreshPut(c)
      PROVE  flow' \in [Flow -> Flows]
  BY <1>9 DEF TokenRead, RefreshAccepted, RefreshLost, RefreshFailed, RefreshPut
<1> QED BY <1>1, <1>2, <1>3, <1>4, <1>5, <1>6, <1>7, <1>8, <1>9, <1>10 DEF Next

LEMMA CallTyped ==
  ASSUME Typed, Next
  PROVE  call' \in [Caller -> Calls] /\ AtWork'
<1> DEFINE Goal == call' \in [Caller -> Calls] /\ AtWork'
<1> USE DEF Typed, TypeOK, Calls, AtWork
<1>1. CASE \E kind \in {Static, "dcr"} : AddMcp(kind)
  BY <1>1 DEF AddMcp
<1>2. CASE RemoveMcp \/ Disconnect
  BY <1>2, LateTyped DEF RemoveMcp, Disconnect, Late
<1>3. CASE Expire
  BY <1>3 DEF Expire
<1>4. CASE Crash
  BY <1>4, IdleTyped DEF Crash, IdleCall
<1>5. ASSUME NEW f \in Flow,
             \/ Start(f) \/ StartPut(f) \/ Complete(f) \/ StateExpired(f)
             \/ Exchange(f) \/ CompletePut(f) \/ ImportToken(f)
      PROVE  Goal
  BY <1>5 DEF Start, StartPut, Complete, StateExpired, Exchange, CompletePut, ImportToken
<1>6. ASSUME NEW c \in Caller, TokenRead(c) PROVE  Goal
  BY <1>6 DEF TokenRead
<1>7. ASSUME NEW c \in Caller, RefreshAccepted(c)
      PROVE  Goal
  <2>1. Successor(call[c].set) \in Turn
    BY <1>7, SuccessorTyped DEF RefreshAccepted
  <2>2. [call[c].set EXCEPT !.turn = Successor(call[c].set), !.fresh = TRUE] \in TokenSet
    BY <2>1, <1>7, RefreshedTyped DEF RefreshAccepted
  <2>3. call' = [call EXCEPT ![c] = [@ EXCEPT !.at = "refreshed",
                   !.set = [call[c].set EXCEPT !.turn = Successor(call[c].set), !.fresh = TRUE]]]
    BY <1>7 DEF RefreshAccepted
  <2> QED BY <2>2, <2>3
<1>8. ASSUME NEW c \in Caller, RefreshLost(c) \/ RefreshFailed(c) \/ RefreshPut(c)
      PROVE  Goal
  BY <1>8, IdleTyped DEF RefreshLost, RefreshFailed, RefreshPut, IdleCall
<1> QED BY <1>1, <1>2, <1>3, <1>4, <1>5, <1>6, <1>7, <1>8 DEF Next

\* The steps in groups: those of the owner and the platform, of a flow before it
\* reaches the provider, of a flow with a grant, of a caller.
OwnerStep == (\E kind \in {Static, "dcr"} : AddMcp(kind)) \/ RemoveMcp \/ Disconnect \/ Expire \/ Crash
EarlyStep == \E f \in Flow : Start(f) \/ StartPut(f) \/ Complete(f) \/ StateExpired(f)
GrantStep == \E f \in Flow : Exchange(f) \/ CompletePut(f) \/ ImportToken(f)
CallStep == \E c \in Caller : \/ TokenRead(c) \/ RefreshAccepted(c) \/ RefreshLost(c)
                             \/ RefreshFailed(c) \/ RefreshPut(c)

LEMMA Grouped == Next => OwnerStep \/ EarlyStep \/ GrantStep \/ CallStep
BY DEF Next, OwnerStep, EarlyStep, GrantStep, CallStep

LEMMA KnownStep ==
  ASSUME Typed, Next
  PROVE  KnownGrants'
<1>1. issued' = issued \/ issued' = issued + 1
  <2>10. CASE OwnerStep
    BY <2>10 DEF OwnerStep, AddMcp, RemoveMcp, Disconnect, Late, Expire, Crash, provider, store
  <2>11. CASE EarlyStep
    BY <2>11 DEF EarlyStep, Start, StartPut, Complete, StateExpired, provider, store
  <2>12. CASE GrantStep
    BY <2>12 DEF GrantStep, Exchange, Issue, CompletePut, ImportToken, provider, store
  <2>13. CASE CallStep
    BY <2>13 DEF CallStep, TokenRead, RefreshAccepted, RefreshLost, RefreshFailed, RefreshPut, IdleCall, provider, store
  <2> QED BY <2>10, <2>11, <2>12, <2>13, Grouped
<1>6. issued \in Nat /\ issued' \in Nat /\ issued <= issued'
  BY <1>1, OAuthAssumption DEF Typed, TypeOK
<1>2. \A set \in TokenSet : set.grant \in Nat
  BY OAuthAssumption DEF TokenSet, Grant
<1>7. flow \in [Flow -> Flows] /\ call \in [Caller -> Calls] /\ (tokens # None => tokens \in TokenSet)
  BY DEF Typed, TypeOK, Flows, Calls
<1>8. \A c \in Caller : call[c].at # "idle" => call[c].set \in TokenSet
  BY DEF Typed, AtWork
<1>3. ASSUME NEW f \in Flow, flow'[f].at = "granted" PROVE flow'[f].grant \in 1..issued'
  <2>1. CASE flow[f].at = "granted" /\ flow'[f].grant = flow[f].grant
    BY <1>6, <1>3, <2>1 DEF Typed, KnownGrants
  <2>2. CASE flow'[f].grant = issued' /\ issued' = issued + 1
    BY <1>6, <2>2
  <2>3. \/ flow[f].at = "granted" /\ flow'[f].grant = flow[f].grant
        \/ flow'[f].grant = issued' /\ issued' = issued + 1
    <3>10. CASE OwnerStep
      <4>1. CASE (\E kind \in {Static, "dcr"} : AddMcp(kind)) \/ Expire
        BY <4>1, <1>7, <1>3 DEF AddMcp, Expire
      <4>2. CASE RemoveMcp \/ Disconnect
        BY <4>2, <1>7, <1>3 DEF RemoveMcp, Disconnect, Late, Flows
      <4>3. CASE Crash
        BY <4>3, <1>7, <1>3 DEF Crash, IdleCall, Flows
      <4> QED BY <3>10, <4>1, <4>2, <4>3 DEF OwnerStep
    <3>11. CASE EarlyStep
      <4>1. PICK g \in Flow : Start(g) \/ StartPut(g) \/ Complete(g) \/ StateExpired(g)
        BY <3>11 DEF EarlyStep
      <4>2. CASE Start(g) \/ StartPut(g) \/ StateExpired(g)
        BY <4>2, <1>7, <1>3 DEF Start, StartPut, StateExpired, Flows
      <4>3. CASE Complete(g)
        BY <4>3, <1>7, <1>3 DEF Complete, Flows
      <4> QED BY <4>1, <4>2, <4>3
    <3>12. CASE GrantStep
      <4>1. PICK g \in Flow : Exchange(g) \/ CompletePut(g) \/ ImportToken(g)
        BY <3>12 DEF GrantStep
      <4>2. CASE Exchange(g)
        BY <4>2, <1>7, <1>3 DEF Exchange, Issue, Flows
      <4>3. CASE CompletePut(g) \/ ImportToken(g)
        BY <4>3, <1>7, <1>3 DEF CompletePut, ImportToken, Flows
      <4> QED BY <4>1, <4>2, <4>3
    <3>13. CASE CallStep
      <4>1. PICK g \in Caller : \/ TokenRead(g) \/ RefreshAccepted(g) \/ RefreshLost(g)
                              \/ RefreshFailed(g) \/ RefreshPut(g)
        BY <3>13 DEF CallStep
      <4>2. CASE RefreshAccepted(g)
        BY <4>2, <1>7, <1>3 DEF RefreshAccepted, Flows
      <4>3. CASE TokenRead(g) \/ RefreshLost(g) \/ RefreshFailed(g) \/ RefreshPut(g)
        BY <4>3, <1>7, <1>3 DEF TokenRead, RefreshLost, RefreshFailed, RefreshPut, IdleCall, Flows
      <4> QED BY <4>1, <4>2, <4>3
    <3> QED BY <3>10, <3>11, <3>12, <3>13, Grouped
  <2> QED BY <2>1, <2>2, <2>3
<1>4. ASSUME NEW c \in Caller, call'[c].at # "idle" PROVE call'[c].set.grant <= issued'
  <2>1. CASE call[c].at # "idle" /\ call'[c].set.grant = call[c].set.grant
    BY <1>6, <1>2, <1>8, <2>1 DEF Typed, KnownGrants
  <2>2. CASE tokens # None /\ call'[c].set = tokens
    BY <1>6, <1>2, <1>7, <2>2 DEF Typed, KnownGrants
  <2>3. \/ call[c].at # "idle" /\ call'[c].set.grant = call[c].set.grant
        \/ tokens # None /\ call'[c].set = tokens
    <3>10. CASE OwnerStep
      <4>1. CASE (\E kind \in {Static, "dcr"} : AddMcp(kind)) \/ Expire
        BY <4>1, <1>7, <1>8, <1>4 DEF AddMcp, Expire
      <4>2. CASE RemoveMcp \/ Disconnect
        BY <4>2, <1>7, <1>8, <1>4 DEF RemoveMcp, Disconnect, Late, Calls, TokenSet
      <4>3. CASE Crash
        BY <4>3, <1>7, <1>8, <1>4 DEF Crash, IdleCall, Calls, TokenSet
      <4> QED BY <3>10, <4>1, <4>2, <4>3 DEF OwnerStep
    <3>11. CASE EarlyStep
      <4>1. PICK g \in Flow : Start(g) \/ StartPut(g) \/ Complete(g) \/ StateExpired(g)
        BY <3>11 DEF EarlyStep
      <4>2. CASE Start(g) \/ StartPut(g) \/ StateExpired(g)
        BY <4>2, <1>7, <1>8, <1>4 DEF Start, StartPut, StateExpired, Calls, TokenSet
      <4>3. CASE Complete(g)
        BY <4>3, <1>7, <1>8, <1>4 DEF Complete, Calls, TokenSet
      <4> QED BY <4>1, <4>2, <4>3
    <3>12. CASE GrantStep
      <4>1. PICK g \in Flow : Exchange(g) \/ CompletePut(g) \/ ImportToken(g)
        BY <3>12 DEF GrantStep
      <4>2. CASE Exchange(g)
        BY <4>2, <1>7, <1>8, <1>4 DEF Exchange, Issue, Calls, TokenSet
      <4>3. CASE CompletePut(g) \/ ImportToken(g)
        BY <4>3, <1>7, <1>8, <1>4 DEF CompletePut, ImportToken, Calls, TokenSet
      <4> QED BY <4>1, <4>2, <4>3
    <3>13. CASE CallStep
      <4>1. PICK g \in Caller : \/ TokenRead(g) \/ RefreshAccepted(g) \/ RefreshLost(g)
                              \/ RefreshFailed(g) \/ RefreshPut(g)
        BY <3>13 DEF CallStep
      <4>2. CASE RefreshAccepted(g)
        BY <4>2, <1>7, <1>8, <1>4 DEF RefreshAccepted, Calls, TokenSet
      <4>3. CASE TokenRead(g) \/ RefreshLost(g) \/ RefreshFailed(g) \/ RefreshPut(g)
        BY <4>3, <1>7, <1>8, <1>4 DEF TokenRead, RefreshLost, RefreshFailed, RefreshPut, IdleCall, Calls, TokenSet
      <4> QED BY <4>1, <4>2, <4>3
    <3> QED BY <3>10, <3>11, <3>12, <3>13, Grouped
  <2> QED BY <2>1, <2>2, <2>3
<1>5. ASSUME tokens' # None PROVE tokens'.grant <= issued'
  <2>1. CASE tokens # None /\ tokens'.grant = tokens.grant
    BY <1>6, <1>2, <1>7, <2>1 DEF Typed, KnownGrants
  <2>2. CASE tokens'.grant = issued'
    BY <1>6, <2>2
  <2>3. ASSUME NEW f \in Flow, flow[f].at = "granted", tokens'.grant = flow[f].grant
        PROVE  tokens'.grant <= issued'
    BY <1>6, <2>3 DEF Typed, KnownGrants
  <2>4. ASSUME NEW c \in Caller, call[c].at # "idle", tokens' = call[c].set
        PROVE  tokens'.grant <= issued'
    BY <1>6, <1>2, <1>8, <2>4 DEF Typed, KnownGrants
  <2>10. CASE OwnerStep
    BY <2>10, <1>7, <1>5, <2>1, <2>2, <2>3, <2>4 DEF OwnerStep, AddMcp, RemoveMcp, Disconnect, Late, Expire, Crash, provider, store, TokenSet
  <2>11. CASE EarlyStep
    BY <2>11, <1>7, <1>5, <2>1, <2>2, <2>3, <2>4 DEF EarlyStep, Start, StartPut, Complete, StateExpired, provider, store, TokenSet
  <2>12. CASE GrantStep
    BY <2>12, <1>7, <1>5, <2>1, <2>2, <2>3, <2>4 DEF GrantStep, Exchange, Issue, CompletePut, ImportToken, provider, store, TokenSet
  <2>13. CASE CallStep
    BY <2>13, <1>7, <1>5, <2>1, <2>2, <2>3, <2>4 DEF CallStep, TokenRead, RefreshAccepted, RefreshLost, RefreshFailed, RefreshPut, IdleCall, provider, store, TokenSet
  <2> QED BY <2>10, <2>11, <2>12, <2>13, Grouped
<1> QED BY <1>3, <1>4, <1>5 DEF KnownGrants

LEMMA TypedStep ==
  ASSUME Typed, [Next]_vars
  PROVE  Typed'
<1>1. CASE UNCHANGED vars
  BY <1>1 DEF vars, provider, store, Typed, TypeOK, AtWork, KnownGrants
<1>2. CASE Next
  <2> USE OAuthAssumption DEF Typed, TypeOK
  <2>1. flow' \in [Flow -> Flows]
    BY <1>2, FlowTyped
  <2>2. call' \in [Caller -> Calls] /\ AtWork'
    BY <1>2, CallTyped
  <2>3. /\ rotates' \in BOOLEAN /\ codes' \subseteq Flow /\ mcp' \in {None, Static, "dcr"}
        /\ pending' \subseteq Flow /\ returned' \in BOOLEAN
    <3> HIDE DEF TypeOK
    <3>1. rotates' = rotates /\ (codes' = codes \/ \E f \in Flow : codes' = codes \union {f})
      <4>10. CASE OwnerStep
        BY <4>10, <1>2 DEF OwnerStep, AddMcp, RemoveMcp, Disconnect, Late, Expire, Crash, provider, store
      <4>11. CASE EarlyStep
        BY <4>11, <1>2 DEF EarlyStep, Start, StartPut, Complete, StateExpired, provider, store
      <4>12. CASE GrantStep
        BY <4>12, <1>2 DEF GrantStep, Exchange, Issue, CompletePut, ImportToken, provider, store
      <4>13. CASE CallStep
        BY <4>13, <1>2 DEF CallStep, TokenRead, RefreshAccepted, RefreshLost, RefreshFailed, RefreshPut, IdleCall, provider, store
      <4> QED BY <1>2, <4>10, <4>11, <4>12, <4>13, Grouped
    <3>2. mcp' = mcp \/ mcp' \in {None, Static, "dcr"}
      <4>10. CASE OwnerStep
        BY <4>10, <1>2 DEF OwnerStep, AddMcp, RemoveMcp, Disconnect, Late, Expire, Crash, provider, store
      <4>11. CASE EarlyStep
        BY <4>11, <1>2 DEF EarlyStep, Start, StartPut, Complete, StateExpired, provider, store
      <4>12. CASE GrantStep
        BY <4>12, <1>2 DEF GrantStep, Exchange, Issue, CompletePut, ImportToken, provider, store
      <4>13. CASE CallStep
        BY <4>13, <1>2 DEF CallStep, TokenRead, RefreshAccepted, RefreshLost, RefreshFailed, RefreshPut, IdleCall, provider, store
      <4> QED BY <1>2, <4>10, <4>11, <4>12, <4>13, Grouped
    <3>3. \/ pending' \subseteq pending \/ (\E f \in Flow : pending' = pending \union {f})
      <4>10. CASE OwnerStep
        BY <4>10, <1>2 DEF OwnerStep, AddMcp, RemoveMcp, Disconnect, Late, Expire, Crash, provider, store
      <4>11. CASE EarlyStep
        BY <4>11, <1>2 DEF EarlyStep, Start, StartPut, Complete, StateExpired, provider, store
      <4>12. CASE GrantStep
        BY <4>12, <1>2 DEF GrantStep, Exchange, Issue, CompletePut, ImportToken, provider, store
      <4>13. CASE CallStep
        BY <4>13, <1>2 DEF CallStep, TokenRead, RefreshAccepted, RefreshLost, RefreshFailed, RefreshPut, IdleCall, provider, store
      <4> QED BY <1>2, <4>10, <4>11, <4>12, <4>13, Grouped
    <3>4. returned' \in BOOLEAN
      <4>10. CASE OwnerStep
        BY <4>10, <1>2 DEF OwnerStep, AddMcp, RemoveMcp, Disconnect, Late, Expire, Crash, provider, store, TypeOK
      <4>11. CASE EarlyStep
        BY <4>11, <1>2 DEF EarlyStep, Start, StartPut, Complete, StateExpired, provider, store, TypeOK
      <4>12. CASE GrantStep
        BY <4>12, <1>2 DEF GrantStep, Exchange, Issue, CompletePut, ImportToken, provider, store, TypeOK
      <4>13. CASE CallStep
        BY <4>13, <1>2 DEF CallStep, TokenRead, RefreshAccepted, RefreshLost, RefreshFailed, RefreshPut, IdleCall, provider, store, TypeOK
      <4> QED BY <1>2, <4>10, <4>11, <4>12, <4>13, Grouped
    <3> QED BY <3>1, <3>2, <3>3, <3>4 DEF TypeOK
  <2>4. /\ adds' = adds \/ (adds < MaxAdds /\ adds' = adds + 1)
        /\ faults' = faults \/ (faults < MaxFaults /\ faults' = faults + 1)
    BY <1>2 DEF Next, AddMcp, RemoveMcp, Disconnect, Expire, Crash, Start, StartPut, Complete,
         StateExpired, Exchange, CompletePut, ImportToken, TokenRead, RefreshAccepted, RefreshLost,
         RefreshFailed, RefreshPut, Fault
  <2>5. adds' \in 0..MaxAdds /\ faults' \in 0..MaxFaults
    BY <2>4
  <2>6. /\ issued' \in 0..MaxGrants /\ client' \in [Grant -> Client] /\ newest' \in [Grant -> Turn]
        /\ tokens' \in TokenSet \union {None}
    <3> HIDE DEF TypeOK
    <3> DEFINE Goal == /\ issued' \in 0..MaxGrants /\ client' \in [Grant -> Client]
                       /\ newest' \in [Grant -> Turn] /\ tokens' \in TokenSet \union {None}
    <3>1. ASSUME UNCHANGED <<issued, client, newest, tokens>> PROVE Goal
      BY <3>1 DEF TypeOK
    <3>2. ASSUME tokens' = None, UNCHANGED <<issued, client, newest>> PROVE Goal
      BY <3>2 DEF TypeOK
    <3>3. ASSUME Expire PROVE Goal
      BY <3>3 DEF Expire, provider, TypeOK, TokenSet
    <3>4. ASSUME NEW f \in Flow, Exchange(f), Issue(IF flow[f].dyn # None THEN flow[f].dyn ELSE Static)
          PROVE  Goal
      <4>1. (IF flow[f].dyn # None THEN flow[f].dyn ELSE Static) \in Client
        BY DEF TypeOK, Client
      <4> QED BY <3>4, <4>1, IssueTyped DEF Exchange, store, TypeOK
    <3>5. ASSUME NEW f \in Flow, CompletePut(f) PROVE Goal
      <4>1. flow[f].grant \in Grant
        BY <3>5 DEF CompletePut, KnownGrants, TypeOK, Grant
      <4>2. flow[f].dyn \in Flow \union {None} /\ 1 \in Turn
        BY OAuthAssumption DEF TypeOK, Turn
      <4>3. tokens' \in TokenSet /\ UNCHANGED <<issued, client, newest>>
        BY <3>5, <4>1, <4>2 DEF CompletePut, provider, TokenSet
      <4> QED BY <4>3 DEF TypeOK
    <3>6. ASSUME NEW f \in Flow, ImportToken(f) PROVE Goal
      BY <3>6, IssueTyped DEF ImportToken, Client, TokenSet, Turn
    <3>7. ASSUME NEW c \in Caller, RefreshAccepted(c) \/ RefreshLost(c) PROVE Goal
      <4>1. Successor(call[c].set) \in Turn /\ call[c].set \in TokenSet
        BY <3>7, SuccessorTyped DEF RefreshAccepted, RefreshLost, AtWork
      <4>2. /\ newest' = [newest EXCEPT ![call[c].set.grant] = Successor(call[c].set)]
            /\ UNCHANGED <<issued, client, tokens>>
        BY <3>7 DEF RefreshAccepted, RefreshLost, store
      <4> QED BY <4>1, <4>2 DEF TypeOK
    <3>8. ASSUME NEW c \in Caller, RefreshPut(c) PROVE Goal
      BY <3>8 DEF RefreshPut, provider, TypeOK
    <3> HIDE DEF Goal
    <3>10. ASSUME OwnerStep PROVE Goal
      BY <3>10, <3>1, <3>2, <3>3 DEF OwnerStep, AddMcp, RemoveMcp, Disconnect, Crash, provider, store
    <3>11. ASSUME EarlyStep PROVE Goal
      BY <3>11, <3>1 DEF EarlyStep, Start, StartPut, Complete, StateExpired, provider, store
    <3>12. ASSUME GrantStep PROVE Goal
      BY <3>12, <3>1, <3>4, <3>5, <3>6 DEF GrantStep, Exchange, store
    <3>13. ASSUME CallStep PROVE Goal
      BY <3>13, <3>1, <3>7, <3>8 DEF CallStep, TokenRead, RefreshFailed, provider, store
    <3>14. Goal
      BY <1>2, <3>10, <3>11, <3>12, <3>13, Grouped
    <3> QED BY <3>14 DEF Goal
  <2>7. KnownGrants'
    BY <1>2, KnownStep
  <2> QED BY <2>1, <2>2, <2>3, <2>5, <2>6, <2>7 DEF Flows, Calls
<1> QED BY <1>1, <1>2
-----------------------------------------------------------------------------
(* Refresh tokens.  While no answer is lost and nothing dies: what a caller    *)
(* got is the newest, nothing is ahead of the provider, who refreshed at a     *)
(* provider that rotates is alone with what it got, and a grant on its way to  *)
(* storage has not been used.                                                  *)

Ahead == \A c \in Caller : call[c].at = "refreshed" => call[c].set.turn = newest[call[c].set.grant]

Behind ==
  /\ tokens # None => tokens.turn <= newest[tokens.grant]
  /\ \A c \in Caller : call[c].at # "idle" => call[c].set.turn <= newest[call[c].set.grant]

Alone ==
  rotates => \A c \in Caller : call[c].at = "refreshed" =>
    /\ tokens # None /\ tokens.grant = call[c].set.grant => tokens.turn < call[c].set.turn
    /\ \A d \in Caller \ {c} :
         call[d].at # "idle" /\ call[d].set.grant = call[c].set.grant
           => call[d].set.turn < call[c].set.turn

Unused ==
  \A f \in Flow : flow[f].at = "granted" =>
    /\ newest[flow[f].grant] = 1
    /\ tokens # None => tokens.grant # flow[f].grant
    /\ \A c \in Caller : call[c].at # "idle" => call[c].set.grant # flow[f].grant
    /\ \A g \in Flow \ {f} : flow[g].at = "granted" => flow[g].grant # flow[f].grant

Current == Ahead /\ Behind /\ Alone /\ Unused /\ RefreshTokenCurrent

\* What is in order stays in order while the provider gives nothing and nothing
\* is stored that was not.
LEMMA StillCurrent ==
  ASSUME Typed, Typed', faults = 0, faults' = 0, Current,
         newest' = newest, rotates' = rotates,
         tokens' # None => /\ tokens # None
                           /\ tokens'.grant = tokens.grant /\ tokens'.turn = tokens.turn,
         \A c \in Caller :
           /\ call'[c].at # "idle" => call'[c].at = call[c].at /\ call'[c].set = call[c].set
           /\ call[c].at = "refreshed" => call'[c].at = "refreshed",
         \A f \in Flow : flow'[f].at = "granted" =>
           flow[f].at = "granted" /\ flow'[f].grant = flow[f].grant
  PROVE  Current'
<1>1. Ahead' /\ Behind'
  BY DEF Current, Ahead, Behind
<1>2. Alone'
  BY DEF Current, Alone
<1>3. Unused'
  BY DEF Current, Unused
<1>4. RefreshTokenCurrent'
  BY DEF Current, RefreshTokenCurrent
<1> QED BY <1>1, <1>2, <1>3, <1>4 DEF Current

LEMMA Numbers ==
  ASSUME NEW set \in TokenSet
  PROVE  set.grant \in Grant /\ set.grant \in Nat /\ set.turn \in Nat
BY OAuthAssumption DEF TokenSet, Grant, Turn

LEMMA Facts ==
  ASSUME Typed
  PROVE  /\ \A g \in Grant : newest[g] \in Nat
         /\ \A c \in Caller : call[c].at # "idle" => call[c].set \in TokenSet /\ call[c].set.grant <= issued
         /\ tokens # None => tokens \in TokenSet /\ tokens.grant <= issued
         /\ flow \in [Flow -> Flows] /\ call \in [Caller -> Calls]
         /\ issued \in Nat
BY OAuthAssumption DEF Typed, TypeOK, AtWork, KnownGrants, Turn, Flows, Calls

\* A grant that is new is on no set.
LEMMA ExchangeCurrent ==
  ASSUME Typed, Typed', faults = 0, faults' = 0, Current, NEW f \in Flow, NEW c \in Client, Issue(c),
         UNCHANGED <<rotates, tokens, call>>,
         flow' = [flow EXCEPT ![f] = [@ EXCEPT !.at = "granted", !.grant = issued']]
  PROVE  Current'
<1>1. /\ issued' = issued + 1 /\ issued' \in Grant /\ newest'[issued'] = 1
      /\ \A g \in Grant : g # issued' => newest'[g] = newest[g]
  BY IssueTyped DEF Typed
<1>2. \A d \in Caller : call[d].at # "idle" =>
        call[d].set.grant # issued' /\ newest'[call[d].set.grant] = newest[call[d].set.grant]
  BY <1>1, Facts, Numbers
<1>3. tokens # None => tokens.grant # issued' /\ newest'[tokens.grant] = newest[tokens.grant]
  BY <1>1, Facts, Numbers
<1>4. \A g \in Flow : flow[g].at = "granted" =>
        flow[g].grant # issued' /\ newest'[flow[g].grant] = newest[flow[g].grant]
  BY <1>1 DEF Typed, KnownGrants, TypeOK, Grant
<1>5. /\ flow'[f].at = "granted" /\ flow'[f].grant = issued'
      /\ \A g \in Flow \ {f} : flow'[g] = flow[g]
  BY Facts DEF Flows
<1>6. Ahead' /\ Behind'
  BY <1>2, <1>3 DEF Current, Ahead, Behind
<1>7. Alone'
  BY DEF Current, Alone
<1>8. Unused'
  BY <1>1, <1>2, <1>3, <1>4, <1>5 DEF Current, Unused
<1>9. RefreshTokenCurrent'
  BY <1>2, <1>3 DEF Current, RefreshTokenCurrent
<1> QED BY <1>6, <1>7, <1>8, <1>9 DEF Current

LEMMA CompleteCurrent ==
  ASSUME Typed, Typed', faults = 0, faults' = 0, Current, NEW f \in Flow, CompletePut(f)
  PROVE  Current'
<1>1. /\ tokens'.grant = flow[f].grant /\ tokens'.turn = 1 /\ UNCHANGED <<newest, rotates, call>>
      /\ flow[f].at = "granted"
  BY DEF CompletePut, provider
<1>2. /\ flow'[f].at # "granted" /\ \A g \in Flow \ {f} : flow'[g] = flow[g]
  BY Facts DEF CompletePut, Flows
<1>3. newest[flow[f].grant] = 1
  BY <1>1 DEF Current, Unused
<1>4. Ahead' /\ Behind'
  BY <1>1, <1>3 DEF Current, Ahead, Behind
<1>5. Alone'
  BY <1>1 DEF Current, Alone, Unused
<1>6. Unused'
  BY <1>1, <1>2 DEF Current, Unused
<1>7. RefreshTokenCurrent'
  BY <1>1, <1>3 DEF RefreshTokenCurrent
<1> QED BY <1>4, <1>5, <1>6, <1>7 DEF Current

LEMMA ImportCurrent ==
  ASSUME Typed, Typed', faults = 0, faults' = 0, Current, NEW f \in Flow, ImportToken(f)
  PROVE  Current'
<1>0. PICK c \in Client : Issue(c)
  BY DEF ImportToken, Client
<1>1. /\ issued' = issued + 1 /\ issued' \in Grant /\ newest'[issued'] = 1
      /\ \A g \in Grant : g # issued' => newest'[g] = newest[g]
  BY <1>0, IssueTyped DEF Typed
<1>2. \A d \in Caller : call[d].at # "idle" =>
        call[d].set.grant # issued' /\ newest'[call[d].set.grant] = newest[call[d].set.grant]
  BY <1>1, Facts, Numbers
<1>4. \A g \in Flow : flow[g].at = "granted" =>
        flow[g].grant # issued' /\ newest'[flow[g].grant] = newest[flow[g].grant]
  BY <1>1 DEF Typed, KnownGrants, TypeOK, Grant
<1>5. /\ tokens'.grant = issued' /\ tokens'.turn = 1 /\ UNCHANGED <<rotates, call>>
      /\ \A g \in Flow : flow'[g].at = "granted" => g # f /\ flow'[g] = flow[g]
  BY Facts DEF ImportToken, Flows
<1>6. Ahead' /\ Behind'
  BY <1>1, <1>2, <1>5 DEF Current, Ahead, Behind
<1>7. Alone'
  BY <1>2, <1>5 DEF Current, Alone
<1>8. Unused'
  BY <1>1, <1>2, <1>4, <1>5 DEF Current, Unused
<1>9. RefreshTokenCurrent'
  BY <1>1, <1>5 DEF RefreshTokenCurrent
<1> QED BY <1>6, <1>7, <1>8, <1>9 DEF Current

LEMMA ReadCurrent ==
  ASSUME Typed, Typed', faults = 0, faults' = 0, Current, NEW c \in Caller, TokenRead(c)
  PROVE  Current'
<1>1. /\ tokens # None /\ UNCHANGED <<newest, rotates, tokens, flow>> /\ call[c].at = "idle"
      /\ call'[c].at = "refresh" /\ call'[c].set = tokens
      /\ \A d \in Caller \ {c} : call'[d] = call[d]
  BY Facts DEF TokenRead, provider, store
<1>2. Ahead' /\ Behind'
  BY <1>1 DEF Current, Ahead, Behind
<1>3. Alone'
  BY <1>1 DEF Current, Alone
<1>4. Unused'
  BY <1>1 DEF Current, Unused
<1>5. RefreshTokenCurrent'
  BY <1>1 DEF Current, RefreshTokenCurrent
<1> QED BY <1>2, <1>3, <1>4, <1>5 DEF Current

\* The provider took the newest refresh token, so no other caller has an answer
\* for that grant; all others are behind now.
LEMMA AcceptedCurrent ==
  ASSUME Typed, Typed', faults = 0, faults' = 0, Current, NEW c \in Caller, RefreshAccepted(c)
  PROVE  Current'
<1> DEFINE set == call[c].set
<1>1. set \in TokenSet /\ set.grant \in Grant /\ set.turn \in Nat /\ set.grant \in Nat
  BY Facts, Numbers DEF RefreshAccepted
<1>2. /\ call[c].at = "refresh" /\ newest[set.grant] = set.turn
      /\ UNCHANGED <<rotates, tokens, flow>>
  BY DEF RefreshAccepted, Accepts, store
<1>3. /\ newest'[set.grant] = Successor(set)
      /\ \A g \in Grant : g # set.grant => newest'[g] = newest[g]
  BY <1>1 DEF RefreshAccepted, Typed, TypeOK
<1>4. /\ call'[c].at = "refreshed" /\ call'[c].set.turn = Successor(set)
      /\ call'[c].set.grant = set.grant /\ \A d \in Caller \ {c} : call'[d] = call[d]
  BY <1>1, Facts DEF RefreshAccepted, Calls, TokenSet
<1>5. /\ Successor(set) = IF rotates THEN set.turn + 1 ELSE set.turn
      /\ Successor(set) \in Nat
  BY <1>1 DEF Successor
<1>6. \A d \in Caller \ {c} : call[d].at # "idle" =>
        /\ call[d].set.grant \in Grant /\ call[d].set.turn \in Nat
        /\ call[d].set.turn <= newest[call[d].set.grant]
  BY Facts, Numbers DEF Current, Behind
<1>7. rotates => \A d \in Caller \ {c} : call[d].at = "refreshed" => call[d].set.grant # set.grant
  BY <1>1, <1>2, <1>6 DEF Current, Alone, Ahead
<1>8. tokens # None => /\ tokens.grant \in Grant /\ tokens.turn \in Nat
                       /\ tokens.turn <= newest[tokens.grant]
  BY Facts, Numbers DEF Current, Behind
<1>9. Ahead'
  <2> SUFFICES ASSUME NEW d \in Caller, call'[d].at = "refreshed"
               PROVE  call'[d].set.turn = newest'[call'[d].set.grant]
    BY DEF Ahead
  <2>1. CASE d = c
    BY <2>1, <1>3, <1>4
  <2>2. CASE d # c /\ call[d].set.grant # set.grant
    BY <2>2, <1>3, <1>4, <1>6 DEF Current, Ahead
  <2>3. CASE d # c /\ call[d].set.grant = set.grant
    BY <2>3, <1>2, <1>3, <1>4, <1>5, <1>7 DEF Current, Ahead
  <2> QED BY <2>1, <2>2, <2>3
<1>10. \A g \in Grant : newest[g] \in Nat /\ newest'[g] \in Nat /\ newest[g] <= newest'[g]
  BY <1>1, <1>2, <1>3, <1>5, Facts
<1>11. Behind'
  <2>1. \A d \in Caller : call'[d].at # "idle" => call'[d].set.turn <= newest'[call'[d].set.grant]
    <3> TAKE d \in Caller
    <3>1. CASE d = c
      BY <3>1, <1>3, <1>4, <1>5
    <3>2. CASE d # c
      BY <3>2, <1>4, <1>6, <1>10
    <3> QED BY <3>1, <3>2
  <2> QED BY <2>1, <1>2, <1>8, <1>10 DEF Behind
<1>12. Alone'
  <2> SUFFICES ASSUME rotates, NEW e \in Caller, call'[e].at = "refreshed"
               PROVE  /\ tokens # None /\ tokens.grant = call'[e].set.grant => tokens.turn < call'[e].set.turn
                      /\ \A d \in Caller \ {e} :
                           call'[d].at # "idle" /\ call'[d].set.grant = call'[e].set.grant
                             => call'[d].set.turn < call'[e].set.turn
    BY <1>2 DEF Alone
  <2>1. CASE e = c
    BY <2>1, <1>1, <1>2, <1>4, <1>5, <1>6, <1>8
  <2>2. CASE e # c
    BY <2>2, <1>4, <1>7 DEF Current, Alone
  <2> QED BY <2>1, <2>2
<1>13. Unused'
  <2>1. \A f \in Flow : flow[f].at = "granted" => flow[f].grant # set.grant /\ flow[f].grant \in Grant
    BY <1>2 DEF Current, Unused, Typed, KnownGrants, TypeOK, Grant
  <2> QED BY <2>1, <1>2, <1>3, <1>4 DEF Current, Unused
<1>14. RefreshTokenCurrent'
  <2> SUFFICES ASSUME tokens # None
               PROVE  \/ newest'[tokens.grant] = tokens.turn
                      \/ \E d \in Caller : /\ call'[d].at = "refreshed"
                                           /\ call'[d].set.grant = tokens.grant
                                           /\ call'[d].set.turn = newest'[tokens.grant]
    BY <1>2 DEF RefreshTokenCurrent
  <2>1. CASE tokens.grant = set.grant
    BY <2>1, <1>3, <1>4
  <2>2. CASE tokens.grant # set.grant
    BY <2>2, <1>3, <1>4, <1>8, <1>2 DEF Current, RefreshTokenCurrent
  <2> QED BY <2>1, <2>2
<1> QED BY <1>9, <1>11, <1>12, <1>13, <1>14 DEF Current

LEMMA PutCurrent ==
  ASSUME Typed, Typed', faults = 0, faults' = 0, Current, NEW c \in Caller, RefreshPut(c)
  PROVE  Current'
<1>1. /\ call[c].at = "refreshed" /\ tokens' = call[c].set /\ UNCHANGED <<newest, rotates, flow>>
      /\ call'[c].at = "idle" /\ \A d \in Caller \ {c} : call'[d] = call[d]
  BY Facts DEF RefreshPut, provider, IdleCall
<1>2. tokens'.turn = newest[tokens'.grant] /\ tokens' \in TokenSet
  BY <1>1, Facts DEF Current, Ahead
<1>3. \A d \in Caller : call[d].at # "idle" => call[d].set.turn \in Nat
  BY Facts, Numbers
<1>4. newest[tokens'.grant] \in Nat
  BY <1>2, Facts, Numbers
<1>5. Ahead' /\ Behind'
  BY <1>1, <1>2, <1>4 DEF Current, Ahead, Behind
<1>6. Alone'
  BY <1>1, <1>2, <1>3, <1>4 DEF Current, Alone, Ahead
<1>7. Unused'
  BY <1>1 DEF Current, Unused
<1>8. RefreshTokenCurrent'
  BY <1>1, <1>2 DEF RefreshTokenCurrent
<1> QED BY <1>5, <1>6, <1>7, <1>8 DEF Current
LEMMA RotationStep ==
  ASSUME Typed, Typed', faults = 0, faults' = 0, Current, Next
  PROVE  Current'
<1>1. CASE OwnerStep
  <2>1. ~Crash
    BY DEF Crash, Fault
  <2>2. CASE (\E kind \in {Static, "dcr"} : AddMcp(kind)) \/ Expire
    <3>1. tokens # None => tokens \in TokenSet
      BY Facts
    <3>2. UNCHANGED <<rotates, newest, call, flow>>
      BY <2>2 DEF AddMcp, Expire, provider
    <3>3. tokens' # None => tokens # None /\ tokens'.grant = tokens.grant /\ tokens'.turn = tokens.turn
      BY <2>2, <3>1 DEF AddMcp, Expire, TokenSet
    <3> QED BY <3>2, <3>3, StillCurrent
  <2>3. CASE RemoveMcp \/ Disconnect
    <3>1. UNCHANGED <<rotates, newest>> /\ tokens' = None
      BY <2>3 DEF RemoveMcp, Disconnect, provider
    <3>2. /\ \A c \in Caller : call'[c].at = call[c].at /\ call'[c].set = call[c].set
          /\ \A f \in Flow : flow'[f].at = flow[f].at /\ flow'[f].grant = flow[f].grant
      BY <2>3, Facts DEF RemoveMcp, Disconnect, Late, Flows, Calls
    <3> QED BY <3>1, <3>2, StillCurrent
  <2> QED BY <1>1, <2>1, <2>2, <2>3 DEF OwnerStep
<1>2. CASE EarlyStep
  <2>1. UNCHANGED <<rotates, newest, tokens, call>>
    BY <1>2 DEF EarlyStep, Start, StartPut, Complete, StateExpired, provider, store
  <2>2. PICK f \in Flow : Start(f) \/ StartPut(f) \/ Complete(f) \/ StateExpired(f)
    BY <1>2 DEF EarlyStep
  <2>3. flow'[f].at = "granted" => flow'[f] = flow[f]
    <3>1. CASE Complete(f)
      <4>1. flow'[f].at \in {"started", "exchange"}
        BY <3>1, Facts DEF Complete, Flows
      <4> QED BY <4>1
    <3>2. CASE Start(f) \/ StartPut(f)
      <4>1. flow'[f].at \in {"register", "started", "over"}
        BY <3>2, Facts DEF Start, StartPut, Flows
      <4> QED BY <4>1
    <3>3. CASE StateExpired(f)
      BY <3>3 DEF StateExpired
    <3> QED BY <2>2, <3>1, <3>2, <3>3
  <2>4. \A g \in Flow \ {f} : flow'[g] = flow[g]
    BY <2>2, Facts DEF Start, StartPut, Complete, StateExpired
  <2> QED BY <2>1, <2>3, <2>4, StillCurrent
<1>3. CASE GrantStep
  <2>1. PICK f \in Flow : Exchange(f) \/ CompletePut(f) \/ ImportToken(f)
    BY <1>3 DEF GrantStep
  <2>2. CASE Exchange(f)
    <3>1. UNCHANGED <<rotates, tokens, call>>
      BY <2>2 DEF Exchange, store
    <3>2. CASE UNCHANGED newest /\ flow' = [flow EXCEPT ![f].at = "started"]
      <4>1. \A g \in Flow : flow'[g].at = "granted" => flow'[g] = flow[g]
        BY <3>2, Facts DEF Flows
      <4> QED BY <3>1, <3>2, <4>1, StillCurrent
    <3>3. ASSUME Issue(IF flow[f].dyn # None THEN flow[f].dyn ELSE Static),
                 flow' = [flow EXCEPT ![f] = [@ EXCEPT !.at = "granted", !.grant = issued']]
          PROVE  Current'
      <4>1. (IF flow[f].dyn # None THEN flow[f].dyn ELSE Static) \in Client
        BY Facts DEF Flows, Client
      <4> QED BY <3>1, <3>3, <4>1, ExchangeCurrent
    <3>4. \/ UNCHANGED newest /\ flow' = [flow EXCEPT ![f].at = "started"]
          \/ /\ Issue(IF flow[f].dyn # None THEN flow[f].dyn ELSE Static)
             /\ flow' = [flow EXCEPT ![f] = [@ EXCEPT !.at = "granted", !.grant = issued']]
      BY <2>2 DEF Exchange, Fault
    <3> QED BY <3>2, <3>3, <3>4
  <2> QED BY <2>1, <2>2, CompleteCurrent, ImportCurrent
<1>4. CASE CallStep
  <2>1. PICK c \in Caller : \/ TokenRead(c) \/ RefreshAccepted(c) \/ RefreshLost(c)
                          \/ RefreshFailed(c) \/ RefreshPut(c)
    BY <1>4 DEF CallStep
  <2>2. ~RefreshLost(c)
    BY DEF RefreshLost, Fault
  <2>3. CASE RefreshFailed(c)
    <3>1. /\ UNCHANGED <<rotates, newest, tokens, flow>> /\ call[c].at = "refresh"
          /\ call'[c].at = "idle" /\ \A d \in Caller \ {c} : call'[d] = call[d]
      BY <2>3, Facts DEF RefreshFailed, provider, store, IdleCall
    <3> QED BY <3>1, StillCurrent
  <2> QED BY <2>1, <2>2, <2>3, ReadCurrent, AcceptedCurrent, PutCurrent
<1> QED BY <1>1, <1>2, <1>3, <1>4, Grouped

\* The tokens and what is under way, with the order of refresh tokens as long as
\* nothing was lost.
RotationInv == Typed /\ (faults = 0 => Current)

LEMMA FaultsGrow == ASSUME Typed, [Next]_vars, faults' = 0 PROVE faults = 0
<1>1. faults' = faults \/ (faults \in Nat /\ faults' = faults + 1)
  <2>1. CASE OwnerStep
    BY <2>1 DEF OwnerStep, AddMcp, RemoveMcp, Disconnect, Expire, Crash, Fault, Typed, TypeOK
  <2>2. CASE EarlyStep
    BY <2>2 DEF EarlyStep, Start, StartPut, Complete, StateExpired
  <2>3. CASE GrantStep
    BY <2>3 DEF GrantStep, Exchange, CompletePut, ImportToken, Fault, Typed, TypeOK
  <2>4. CASE CallStep
    BY <2>4 DEF CallStep, TokenRead, RefreshAccepted, RefreshLost, RefreshFailed, RefreshPut, Fault,
                Typed, TypeOK
  <2> QED BY <2>1, <2>2, <2>3, <2>4, Grouped DEF vars
<1> QED BY <1>1

LEMMA InitRotation == Init => RotationInv
<1> SUFFICES ASSUME Init PROVE RotationInv
  OBVIOUS
<1>1. (\A f \in Flow : flow[f].at = "new") /\ (\A c \in Caller : call[c].at = "idle") /\ tokens = None
  BY DEF Init, IdleFlow, IdleCall
<1>2. Typed
  BY <1>1, InitTyped DEF Typed, AtWork, KnownGrants
<1>3. Current
  BY <1>1 DEF Current, Ahead, Behind, Alone, Unused, RefreshTokenCurrent
<1> QED BY <1>2, <1>3 DEF RotationInv

LEMMA InductiveRotation == RotationInv /\ [Next]_vars => RotationInv'
<1> SUFFICES ASSUME RotationInv, [Next]_vars PROVE RotationInv'
  OBVIOUS
<1>1. Typed'
  BY TypedStep DEF RotationInv
<1>2. ASSUME faults' = 0 PROVE Current'
  <2>1. faults = 0 /\ Current
    BY <1>2, FaultsGrow DEF RotationInv
  <2>2. CASE Next
    BY <1>1, <1>2, <2>1, <2>2, RotationStep DEF RotationInv
  <2>3. CASE UNCHANGED vars
    BY <1>1, <1>2, <2>1, <2>3, StillCurrent DEF RotationInv, vars, provider, store
  <2> QED BY <2>2, <2>3
<1> QED BY <1>1, <1>2 DEF RotationInv

\* The tokens, the flows and the callers are always well formed.
THEOREM TypeCorrect == Spec => []TypeOK
<1>1. RotationInv => TypeOK
  BY DEF RotationInv, Typed
<1> QED BY InitRotation, InductiveRotation, <1>1, PTL DEF Spec

\* Whoever refreshes at the same time, authorizes, imports, disconnects or adds the
\* connector again: the refresh token in storage is one the provider takes, or
\* the one it gave for it is on its way, unless an answer was lost.
THEOREM RefreshTokenCurrentHolds == Spec => []RefreshTokenCurrent
<1>1. RotationInv => RefreshTokenCurrent
  BY DEF RotationInv, Current, RefreshTokenCurrent
<1> QED BY InitRotation, InductiveRotation, <1>1, PTL DEF Spec
-----------------------------------------------------------------------------
(* Clients.  A set in storage, in the hands of a caller or on its way is kept  *)
(* with the client its grant was issued to; one that needs the client of the   *)
(* connector finds it there until the owner takes the tokens away.             *)

Bound(set) == client[set.grant] = RefreshClient(set)
Static_(dyn, late) == dyn = None /\ ~late => mcp = Static

ClientsBound ==
  /\ tokens # None => Bound(tokens)
  /\ \A c \in Caller : call[c].at # "idle" => Bound(call[c].set)
  /\ \A f \in Flow : flow[f].at = "granted" => Bound(flow[f])

StaticThere ==
  /\ tokens # None => Static_(tokens.dyn, returned)
  /\ \A c \in Caller : call[c].at # "idle" => Static_(call[c].set.dyn, call[c].late)
  /\ \A f \in Flow : flow[f].at \in {"exchange", "granted"} => Static_(flow[f].dyn, flow[f].late)

ClientInv == Typed /\ ClientsBound /\ StaticThere

\* Known clients stay with their grants.
LEMMA ClientsKept ==
  ASSUME Typed, client' = client \/ \E c \in Client : Issue(c)
  PROVE  \A g \in 1..issued : client'[g] = client[g]
<1>1. CASE client' = client
  BY <1>1
<1>2. ASSUME NEW c \in Client, Issue(c) PROVE \A g \in 1..issued : client'[g] = client[g]
  BY <1>2, OAuthAssumption DEF Issue, Typed, TypeOK, Grant
<1> QED BY <1>1, <1>2

LEMMA ClientsStep ==
  ASSUME ClientInv, Typed', Next
  PROVE  ClientsBound'
<1>1. client' = client \/ \E c \in Client : Issue(c)
  <2>1. CASE OwnerStep
    BY <2>1 DEF OwnerStep, AddMcp, RemoveMcp, Disconnect, Expire, Crash, provider
  <2>2. CASE EarlyStep
    BY <2>2 DEF EarlyStep, Start, StartPut, Complete, StateExpired, provider
  <2>3. CASE GrantStep
    <3>1. PICK f \in Flow : Exchange(f) \/ CompletePut(f) \/ ImportToken(f)
      BY <2>3 DEF GrantStep
    <3>2. (IF flow[f].dyn # None THEN flow[f].dyn ELSE Static) \in Client /\ f \in Client /\ Static \in Client
      BY Facts DEF Flows, Client, ClientInv
    <3> QED BY <3>1, <3>2 DEF Exchange, CompletePut, ImportToken, provider
  <2>4. CASE CallStep
    BY <2>4 DEF CallStep, TokenRead, RefreshAccepted, RefreshLost, RefreshFailed, RefreshPut, provider
  <2> QED BY <2>1, <2>2, <2>3, <2>4, Grouped
<1>2. \A g \in 1..issued : client'[g] = client[g]
  BY <1>1, ClientsKept DEF ClientInv
<1>3. /\ tokens # None => tokens.grant \in 1..issued
      /\ \A c \in Caller : call[c].at # "idle" => call[c].set.grant \in 1..issued
      /\ \A f \in Flow : flow[f].at = "granted" => flow[f].grant \in 1..issued
  <2>1. \A set \in TokenSet : set.grant <= issued => set.grant \in 1..issued
    BY Facts, OAuthAssumption DEF ClientInv, TokenSet, Grant
  <2> QED BY <2>1, Facts DEF ClientInv, Typed, KnownGrants
<1>7. flow \in [Flow -> Flows] /\ call \in [Caller -> Calls] /\ (tokens # None => tokens \in TokenSet)
  BY Facts DEF ClientInv
<1>8. \A c \in Caller : call[c].at # "idle" => call[c].set \in TokenSet
  BY Facts DEF ClientInv
<1>4. ASSUME NEW f \in Flow, flow'[f].at = "granted"
      PROVE  client'[flow'[f].grant] = RefreshClient(flow'[f])
  <2>1. CASE flow[f].at = "granted" /\ flow'[f].grant = flow[f].grant /\ flow'[f].dyn = flow[f].dyn
    BY <1>2, <1>3, <2>1 DEF Bound, RefreshClient, ClientInv, ClientsBound
  <2>2. CASE Issue(RefreshClient(flow[f])) /\ flow'[f].grant = issued' /\ flow'[f].dyn = flow[f].dyn
    <3>1. RefreshClient(flow[f]) \in Client
      BY <1>7 DEF RefreshClient, Client, Flows
    <3>2. client'[issued'] = RefreshClient(flow[f])
      BY <2>2, <3>1, IssueTyped DEF ClientInv, Typed
    <3> QED BY <2>2, <3>2 DEF Bound, RefreshClient
  <2>3. \/ flow[f].at = "granted" /\ flow'[f].grant = flow[f].grant /\ flow'[f].dyn = flow[f].dyn
        \/ Issue(RefreshClient(flow[f])) /\ flow'[f].grant = issued' /\ flow'[f].dyn = flow[f].dyn
    <3>10. CASE OwnerStep
      <4>1. CASE (\E kind \in {Static, "dcr"} : AddMcp(kind)) \/ Expire
        BY <4>1, <1>7, <1>4 DEF AddMcp, Expire
      <4>2. CASE RemoveMcp \/ Disconnect
        BY <4>2, <1>7, <1>4 DEF RemoveMcp, Disconnect, Late, Flows
      <4>3. CASE Crash
        BY <4>3, <1>7, <1>4 DEF Crash, IdleCall, Flows
      <4> QED BY <3>10, <4>1, <4>2, <4>3 DEF OwnerStep
    <3>11. CASE EarlyStep
      <4>1. PICK g \in Flow : Start(g) \/ StartPut(g) \/ Complete(g) \/ StateExpired(g)
        BY <3>11 DEF EarlyStep
      <4>2. CASE Start(g) \/ StartPut(g) \/ StateExpired(g)
        BY <4>2, <1>7, <1>4 DEF Start, StartPut, StateExpired, Flows
      <4>3. CASE Complete(g)
        BY <4>3, <1>7, <1>4 DEF Complete, Flows
      <4> QED BY <4>1, <4>2, <4>3
    <3>12. CASE GrantStep
      <4>1. PICK g \in Flow : Exchange(g) \/ CompletePut(g) \/ ImportToken(g)
        BY <3>12 DEF GrantStep
      <4>2. CASE Exchange(g)
        <5>1. CASE f = g
          <6>1. CASE flow' = [flow EXCEPT ![g].at = "started"]
            BY <6>1, <5>1, <1>7, <1>4 DEF Flows
          <6>2. ASSUME Issue(RefreshClient(flow[g])),
                       flow' = [flow EXCEPT ![g] = [@ EXCEPT !.at = "granted", !.grant = issued']]
                PROVE  /\ Issue(RefreshClient(flow[f])) /\ flow'[f].grant = issued'
                       /\ flow'[f].dyn = flow[f].dyn
            BY <6>2, <5>1, <1>7 DEF Flows
          <6>3. \/ flow' = [flow EXCEPT ![g].at = "started"]
                \/ /\ Issue(RefreshClient(flow[g]))
                   /\ flow' = [flow EXCEPT ![g] = [@ EXCEPT !.at = "granted", !.grant = issued']]
            BY <4>2 DEF Exchange, RefreshClient
          <6> QED BY <6>1, <6>2, <6>3
        <5>2. CASE f # g
          BY <4>2, <5>2, <1>7, <1>4 DEF Exchange, Flows
        <5> QED BY <5>1, <5>2
      <4>3. CASE CompletePut(g) \/ ImportToken(g)
        BY <4>3, <1>7, <1>4 DEF CompletePut, ImportToken, Flows
      <4> QED BY <4>1, <4>2, <4>3
    <3>13. CASE CallStep
      <4>1. PICK g \in Caller : \/ TokenRead(g) \/ RefreshAccepted(g) \/ RefreshLost(g)
                              \/ RefreshFailed(g) \/ RefreshPut(g)
        BY <3>13 DEF CallStep
      <4>2. CASE RefreshAccepted(g)
        BY <4>2, <1>7, <1>4 DEF RefreshAccepted, Flows
      <4>3. CASE TokenRead(g) \/ RefreshLost(g) \/ RefreshFailed(g) \/ RefreshPut(g)
        BY <4>3, <1>7, <1>4 DEF TokenRead, RefreshLost, RefreshFailed, RefreshPut, IdleCall, Flows
      <4> QED BY <4>1, <4>2, <4>3
    <3> QED BY <3>10, <3>11, <3>12, <3>13, Grouped
  <2> QED BY <2>1, <2>2, <2>3
<1>5. ASSUME NEW c \in Caller, call'[c].at # "idle"
      PROVE  client'[call'[c].set.grant] = RefreshClient(call'[c].set)
  <2>1. CASE call[c].at # "idle" /\ call'[c].set.grant = call[c].set.grant /\ call'[c].set.dyn = call[c].set.dyn
    BY <1>2, <1>3, <2>1 DEF Bound, RefreshClient, ClientInv, ClientsBound
  <2>2. CASE tokens # None /\ call'[c].set = tokens
    BY <1>2, <1>3, <2>2 DEF Bound, RefreshClient, ClientInv, ClientsBound
  <2>3. \/ /\ call[c].at # "idle"
           /\ call'[c].set.grant = call[c].set.grant /\ call'[c].set.dyn = call[c].set.dyn
        \/ tokens # None /\ call'[c].set = tokens
    <3>10. CASE OwnerStep
      <4>1. CASE (\E kind \in {Static, "dcr"} : AddMcp(kind)) \/ Expire
        BY <4>1, <1>7, <1>8, <1>5 DEF AddMcp, Expire
      <4>2. CASE RemoveMcp \/ Disconnect
        BY <4>2, <1>7, <1>8, <1>5 DEF RemoveMcp, Disconnect, Late, Calls, TokenSet
      <4>3. CASE Crash
        BY <4>3, <1>7, <1>8, <1>5 DEF Crash, IdleCall, Calls, TokenSet
      <4> QED BY <3>10, <4>1, <4>2, <4>3 DEF OwnerStep
    <3>11. CASE EarlyStep
      <4>1. PICK g \in Flow : Start(g) \/ StartPut(g) \/ Complete(g) \/ StateExpired(g)
        BY <3>11 DEF EarlyStep
      <4>2. CASE Start(g) \/ StartPut(g) \/ StateExpired(g)
        BY <4>2, <1>7, <1>8, <1>5 DEF Start, StartPut, StateExpired, Calls, TokenSet
      <4>3. CASE Complete(g)
        BY <4>3, <1>7, <1>8, <1>5 DEF Complete, Calls, TokenSet
      <4> QED BY <4>1, <4>2, <4>3
    <3>12. CASE GrantStep
      <4>1. PICK g \in Flow : Exchange(g) \/ CompletePut(g) \/ ImportToken(g)
        BY <3>12 DEF GrantStep
      <4>2. CASE Exchange(g)
        BY <4>2, <1>7, <1>8, <1>5 DEF Exchange, Calls, TokenSet
      <4>3. CASE CompletePut(g) \/ ImportToken(g)
        BY <4>3, <1>7, <1>8, <1>5 DEF CompletePut, ImportToken, Calls, TokenSet
      <4> QED BY <4>1, <4>2, <4>3
    <3>13. CASE CallStep
      <4>1. PICK g \in Caller : \/ TokenRead(g) \/ RefreshAccepted(g) \/ RefreshLost(g)
                              \/ RefreshFailed(g) \/ RefreshPut(g)
        BY <3>13 DEF CallStep
      <4>2. CASE RefreshAccepted(g)
        BY <4>2, <1>7, <1>8, <1>5 DEF RefreshAccepted, Calls, TokenSet
      <4>3. CASE TokenRead(g) \/ RefreshLost(g) \/ RefreshFailed(g) \/ RefreshPut(g)
        BY <4>3, <1>7, <1>8, <1>5 DEF TokenRead, RefreshLost, RefreshFailed, RefreshPut, IdleCall, Calls, TokenSet
      <4> QED BY <4>1, <4>2, <4>3
    <3> QED BY <3>10, <3>11, <3>12, <3>13, Grouped
  <2> QED BY <2>1, <2>2, <2>3
<1>6. ASSUME tokens' # None PROVE Bound(tokens)'
  <2>1. CASE tokens # None /\ tokens'.grant = tokens.grant /\ tokens'.dyn = tokens.dyn
    BY <1>2, <1>3, <2>1 DEF Bound, RefreshClient, ClientInv, ClientsBound
  <2>2. ASSUME NEW f \in Flow, flow[f].at = "granted", tokens'.grant = flow[f].grant, tokens'.dyn = flow[f].dyn
        PROVE  Bound(tokens)'
    BY <1>2, <1>3, <2>2 DEF Bound, RefreshClient, ClientInv, ClientsBound
  <2>3. ASSUME NEW c \in Caller, call[c].at # "idle", tokens' = call[c].set PROVE Bound(tokens)'
    BY <1>2, <1>3, <2>3 DEF Bound, RefreshClient, ClientInv, ClientsBound
  <2>4. ASSUME NEW f \in Flow, ImportToken(f) PROVE Bound(tokens)'
    <3>1. f \in Client /\ Static \in Client /\ f # None
      BY OAuthAssumption DEF Client
    <3>2. client'[issued'] = IF mcp = Static THEN Static ELSE f
      BY <2>4, <3>1, IssueTyped DEF ImportToken, ClientInv, Typed
    <3> QED BY <2>4, <3>1, <3>2 DEF ImportToken, Bound, RefreshClient
  <2>10. CASE OwnerStep
    BY <2>10, <1>6, <1>7, <2>1 DEF OwnerStep, AddMcp, RemoveMcp, Disconnect, Expire, Crash, store, TokenSet
  <2>11. CASE EarlyStep
    BY <2>11, <1>6, <2>1 DEF EarlyStep, Start, StartPut, Complete, StateExpired, store
  <2>12. CASE GrantStep
    BY <2>12, <1>6, <2>1, <2>2, <2>4 DEF GrantStep, Exchange, CompletePut, store
  <2>13. CASE CallStep
    BY <2>13, <1>6, <2>1, <2>3 DEF CallStep, TokenRead, RefreshAccepted, RefreshLost, RefreshFailed,
                                   RefreshPut, store
  <2> QED BY <2>10, <2>11, <2>12, <2>13, Grouped
<1> QED BY <1>4, <1>5, <1>6 DEF ClientsBound, Bound

LEMMA StaticStep ==
  ASSUME ClientInv, Typed', Next
  PROVE  StaticThere'
<1>7. flow \in [Flow -> Flows] /\ call \in [Caller -> Calls] /\ (tokens # None => tokens \in TokenSet)
  BY Facts DEF ClientInv
<1>8. \A c \in Caller : call[c].at # "idle" => call[c].set \in TokenSet
  BY Facts DEF ClientInv
<1>1. mcp' = mcp \/ mcp = None \/ RemoveMcp
  <2>10. CASE OwnerStep
    BY <2>10 DEF OwnerStep, AddMcp, Disconnect, Expire, Crash, store
  <2>11. CASE EarlyStep
    BY <2>11 DEF EarlyStep, Start, StartPut, Complete, StateExpired, store
  <2>12. CASE GrantStep
    BY <2>12 DEF GrantStep, Exchange, CompletePut, ImportToken, store
  <2>13. CASE CallStep
    BY <2>13 DEF CallStep, TokenRead, RefreshAccepted, RefreshLost, RefreshFailed, RefreshPut, store
  <2> QED BY <2>10, <2>11, <2>12, <2>13, Grouped
<1>2. Static # None
  BY OAuthAssumption
<1>3. \A f \in Flow : flow[f].at \in {"exchange", "granted"} /\ flow[f].dyn = None /\ ~flow[f].late => mcp = Static
  BY DEF ClientInv, StaticThere, Static_
<1>4. \A c \in Caller : call[c].at # "idle" /\ call[c].set.dyn = None /\ ~call[c].late => mcp = Static
  BY DEF ClientInv, StaticThere, Static_
<1>5. tokens # None /\ tokens.dyn = None /\ ~returned => mcp = Static
  BY DEF ClientInv, StaticThere, Static_
<1>10. ASSUME NEW f \in Flow, flow'[f].at \in {"exchange", "granted"}, flow'[f].dyn = None, ~flow'[f].late
      PROVE  mcp' = Static
  <2>10. CASE OwnerStep
    <3>1. CASE (\E kind \in {Static, "dcr"} : AddMcp(kind)) \/ Expire
      BY <3>1, <1>2, <1>3, <1>10, <1>7, <1>8 DEF AddMcp, Expire
    <3>2. CASE RemoveMcp \/ Disconnect
      <4>1. flow' = [g \in Flow |-> [flow[g] EXCEPT !.late = @ \/ flow[g].at \in {"exchange", "granted"}]]
        BY <3>2 DEF RemoveMcp, Disconnect, Late
      <4>2. flow'[f] = [flow[f] EXCEPT !.late = @ \/ flow[f].at \in {"exchange", "granted"}] /\ flow[f] \in Flows
        BY <4>1, <1>7
      <4>3. flow'[f].at = flow[f].at /\ flow'[f].late = (flow[f].late \/ flow[f].at \in {"exchange", "granted"})
        BY <4>2, Zenon DEF Flows
      <4> QED BY <4>3, <1>10
    <3>3. CASE Crash
      BY <3>3, <1>2, <1>3, <1>10, <1>7, <1>8 DEF Crash, IdleCall, Flows, ClientOf, store
    <3> QED BY <2>10, <3>1, <3>2, <3>3 DEF OwnerStep
  <2>11. CASE EarlyStep
    <3>1. PICK g \in Flow : Start(g) \/ StartPut(g) \/ Complete(g) \/ StateExpired(g)
      BY <2>11 DEF EarlyStep
    <3>2. CASE Start(g) \/ StartPut(g) \/ StateExpired(g)
      BY <3>2, <1>2, <1>3, <1>10, <1>7, <1>8 DEF Start, StartPut, StateExpired, Flows, ClientOf, store
    <3>3. CASE Complete(g)
      BY <3>3, <1>2, <1>3, <1>10, <1>7, <1>8 DEF Complete, Flows, ClientOf, store
    <3> QED BY <3>1, <3>2, <3>3
  <2>12. CASE GrantStep
    <3>1. PICK g \in Flow : Exchange(g) \/ CompletePut(g) \/ ImportToken(g)
      BY <2>12 DEF GrantStep
    <3>2. CASE Exchange(g)
      <4>1. mcp' = mcp
        BY <3>2 DEF Exchange, store
      <4>2. CASE f = g
        <5>1. flow[f].at = "exchange" /\ flow[f].dyn = flow'[f].dyn /\ flow[f].late = flow'[f].late
          <6>1. flow[f] \in Flows /\ flow[f].at = "exchange" /\ flow \in [Flow -> Flows]
            BY <3>2, <4>2, <1>7 DEF Exchange
          <6>2. \/ flow'[f] = [flow[f] EXCEPT !.at = "started"]
                \/ flow'[f] = [flow[f] EXCEPT !.at = "granted", !.grant = issued']
            BY <3>2, <4>2, <6>1 DEF Exchange
          <6>3. flow'[f].dyn = flow[f].dyn /\ flow'[f].late = flow[f].late
            BY <6>1, <6>2 DEF Flows
          <6> QED BY <6>1, <6>3
        <5> QED BY <5>1, <4>1, <1>3, <1>10
      <4>3. CASE f # g
        <5>1. flow'[f] = flow[f]
          BY <3>2, <4>3, <1>7 DEF Exchange
        <5> QED BY <5>1, <4>1, <1>3, <1>10
      <4> QED BY <4>2, <4>3
    <3>3. CASE CompletePut(g) \/ ImportToken(g)
      BY <3>3, <1>2, <1>3, <1>10, <1>7, <1>8 DEF CompletePut, ImportToken, Flows, ClientOf, store
    <3> QED BY <3>1, <3>2, <3>3
  <2>13. CASE CallStep
    <3>1. PICK g \in Caller : \/ TokenRead(g) \/ RefreshAccepted(g) \/ RefreshLost(g)
                            \/ RefreshFailed(g) \/ RefreshPut(g)
      BY <2>13 DEF CallStep
    <3>2. CASE RefreshAccepted(g)
      BY <3>2, <1>2, <1>3, <1>10, <1>7, <1>8 DEF RefreshAccepted, Flows, ClientOf, store
    <3>3. CASE TokenRead(g) \/ RefreshLost(g) \/ RefreshFailed(g) \/ RefreshPut(g)
      BY <3>3, <1>2, <1>3, <1>10, <1>7, <1>8 DEF TokenRead, RefreshLost, RefreshFailed, RefreshPut, IdleCall, Flows, ClientOf, store
    <3> QED BY <3>1, <3>2, <3>3
  <2> QED BY <2>10, <2>11, <2>12, <2>13, Grouped
<1>11. ASSUME NEW c \in Caller, call'[c].at # "idle", call'[c].set.dyn = None, ~call'[c].late
      PROVE  mcp' = Static
  <2>10. CASE OwnerStep
    <3>1. CASE (\E kind \in {Static, "dcr"} : AddMcp(kind)) \/ Expire
      BY <3>1, <1>2, <1>4, <1>5, <1>11, <1>7, <1>8 DEF AddMcp, Expire
    <3>2. CASE RemoveMcp \/ Disconnect
      <4>1. call' = [d \in Caller |-> [call[d] EXCEPT !.late = call[d].at # "idle"]]
        BY <3>2 DEF RemoveMcp, Disconnect, Late
      <4>2. call'[c] = [call[c] EXCEPT !.late = call[c].at # "idle"] /\ call[c] \in Calls
        BY <4>1, <1>7
      <4>3. call'[c].at = call[c].at /\ call'[c].late = (call[c].at # "idle")
        BY <4>2, Zenon DEF Calls
      <4> QED BY <4>3, <1>11
    <3>3. CASE Crash
      BY <3>3, <1>2, <1>4, <1>5, <1>11, <1>7, <1>8 DEF Crash, IdleCall, Calls, TokenSet, ClientOf, store
    <3> QED BY <2>10, <3>1, <3>2, <3>3 DEF OwnerStep
  <2>11. CASE EarlyStep
    <3>1. PICK g \in Flow : Start(g) \/ StartPut(g) \/ Complete(g) \/ StateExpired(g)
      BY <2>11 DEF EarlyStep
    <3>2. CASE Start(g) \/ StartPut(g) \/ StateExpired(g)
      BY <3>2, <1>2, <1>4, <1>5, <1>11, <1>7, <1>8 DEF Start, StartPut, StateExpired, Calls, TokenSet, ClientOf, store
    <3>3. CASE Complete(g)
      BY <3>3, <1>2, <1>4, <1>5, <1>11, <1>7, <1>8 DEF Complete, Calls, TokenSet, ClientOf, store
    <3> QED BY <3>1, <3>2, <3>3
  <2>12. CASE GrantStep
    <3>1. PICK g \in Flow : Exchange(g) \/ CompletePut(g) \/ ImportToken(g)
      BY <2>12 DEF GrantStep
    <3>2. CASE Exchange(g)
      BY <3>2, <1>2, <1>4, <1>5, <1>11, <1>7, <1>8 DEF Exchange, Calls, TokenSet, ClientOf, store
    <3>3. CASE CompletePut(g) \/ ImportToken(g)
      BY <3>3, <1>2, <1>4, <1>5, <1>11, <1>7, <1>8 DEF CompletePut, ImportToken, Calls, TokenSet, ClientOf, store
    <3> QED BY <3>1, <3>2, <3>3
  <2>13. CASE CallStep
    <3>1. PICK g \in Caller : \/ TokenRead(g) \/ RefreshAccepted(g) \/ RefreshLost(g)
                            \/ RefreshFailed(g) \/ RefreshPut(g)
      BY <2>13 DEF CallStep
    <3>2. CASE RefreshAccepted(g)
      BY <3>2, <1>2, <1>4, <1>5, <1>11, <1>7, <1>8 DEF RefreshAccepted, Calls, TokenSet, ClientOf, store
    <3>3. CASE TokenRead(g) \/ RefreshLost(g) \/ RefreshFailed(g) \/ RefreshPut(g)
      BY <3>3, <1>2, <1>4, <1>5, <1>11, <1>7, <1>8 DEF TokenRead, RefreshLost, RefreshFailed, RefreshPut, IdleCall, Calls, TokenSet, ClientOf, store
    <3> QED BY <3>1, <3>2, <3>3
  <2> QED BY <2>10, <2>11, <2>12, <2>13, Grouped
<1>12. ASSUME tokens' # None, tokens'.dyn = None, ~returned'
      PROVE  mcp' = Static
  <2>10. CASE OwnerStep
    <3>1. CASE (\E kind \in {Static, "dcr"} : AddMcp(kind)) \/ Expire
      BY <3>1, <1>2, <1>5, <1>12, <1>7 DEF AddMcp, Expire, TokenSet
    <3>2. CASE RemoveMcp \/ Disconnect
      BY <3>2, <1>2, <1>3, <1>4, <1>5, <1>12, <1>7, <1>8 DEF RemoveMcp, Disconnect, Late, Flows, Calls, TokenSet, ClientOf, store
    <3>3. CASE Crash
      BY <3>3, <1>2, <1>3, <1>4, <1>5, <1>12, <1>7, <1>8 DEF Crash, IdleCall, Flows, Calls, TokenSet, ClientOf, store
    <3> QED BY <2>10, <3>1, <3>2, <3>3 DEF OwnerStep
  <2>11. CASE EarlyStep
    <3>1. PICK g \in Flow : Start(g) \/ StartPut(g) \/ Complete(g) \/ StateExpired(g)
      BY <2>11 DEF EarlyStep
    <3>2. CASE Start(g) \/ StartPut(g) \/ StateExpired(g)
      BY <3>2, <1>2, <1>3, <1>4, <1>5, <1>12, <1>7, <1>8 DEF Start, StartPut, StateExpired, Flows, Calls, TokenSet, ClientOf, store
    <3>3. CASE Complete(g)
      BY <3>3, <1>2, <1>3, <1>4, <1>5, <1>12, <1>7, <1>8 DEF Complete, Flows, Calls, TokenSet, ClientOf, store
    <3> QED BY <3>1, <3>2, <3>3
  <2>12. CASE GrantStep
    <3>1. PICK g \in Flow : Exchange(g) \/ CompletePut(g) \/ ImportToken(g)
      BY <2>12 DEF GrantStep
    <3>2. CASE Exchange(g)
      BY <3>2, <1>2, <1>3, <1>4, <1>5, <1>12, <1>7, <1>8 DEF Exchange, Flows, Calls, TokenSet, ClientOf, store
    <3>3. CASE CompletePut(g) \/ ImportToken(g)
      <4>1. CASE CompletePut(g)
        BY <4>1, <1>3, <1>12, <1>7 DEF CompletePut
      <4>2. CASE ImportToken(g)
        BY <4>2, <1>12, OAuthAssumption DEF ImportToken
      <4> QED BY <3>3, <4>1, <4>2
    <3> QED BY <3>1, <3>2, <3>3
  <2>13. CASE CallStep
    <3>1. PICK g \in Caller : \/ TokenRead(g) \/ RefreshAccepted(g) \/ RefreshLost(g)
                            \/ RefreshFailed(g) \/ RefreshPut(g)
      BY <2>13 DEF CallStep
    <3>2. CASE RefreshAccepted(g)
      BY <3>2, <1>2, <1>3, <1>4, <1>5, <1>12, <1>7, <1>8 DEF RefreshAccepted, Flows, Calls, TokenSet, ClientOf, store
    <3>3. CASE TokenRead(g) \/ RefreshLost(g) \/ RefreshFailed(g) \/ RefreshPut(g)
      BY <3>3, <1>2, <1>3, <1>4, <1>5, <1>12, <1>7, <1>8 DEF TokenRead, RefreshLost, RefreshFailed, RefreshPut, IdleCall, Flows, Calls, TokenSet, ClientOf, store
    <3> QED BY <3>1, <3>2, <3>3
  <2> QED BY <2>10, <2>11, <2>12, <2>13, Grouped
<1> QED BY <1>10, <1>11, <1>12 DEF StaticThere, Static_

LEMMA InitClient == Init => ClientInv
  BY InitTyped, OAuthAssumption DEF Init, ClientInv, Typed, AtWork, KnownGrants, ClientsBound,
     StaticThere, IdleFlow, IdleCall

LEMMA InductiveClient == ClientInv /\ [Next]_vars => ClientInv'
<1>1. CASE UNCHANGED vars
  BY <1>1 DEF vars, provider, store, ClientInv, Typed, TypeOK, AtWork, KnownGrants, ClientsBound,
     StaticThere, Bound, Static_, RefreshClient
<1>2. CASE Next
  BY <1>2, TypedStep, ClientsStep, StaticStep DEF ClientInv
<1> QED BY <1>1, <1>2

\* ClientIdMatches, for every number of flows, callers and grants: what is kept
\* with a set is the client its grant was issued to, wherever the set is.
THEOREM ClientIdMatchesHolds == Spec => []ClientIdMatches
<1>1. ClientInv => ClientIdMatches
  BY DEF ClientInv, ClientsBound, StaticThere, Static_, Bound, RefreshClient, ClientOf, ClientIdMatches
<1> QED BY InitClient, InductiveClient, <1>1, PTL DEF Spec
=============================================================================
