--------------------------- MODULE RegistryProofs ---------------------------
(***************************************************************************)
(* Proofs about Registry.  The inductive invariant adds to the types what  *)
(* a request in flight still knows:                                        *)
(*   - a request that has found the row finds it for good: no step takes a *)
(*     row away, so that what it caches is a registered agent;             *)
(*   - the token of a trigger is on the deny-list or expired, and stays so *)
(*     while somebody carries it or it is on record; a request that came   *)
(*     with it and has passed the deny-list has passed it with an expired  *)
(*     token.                                                              *)
(***************************************************************************)
EXTENDS Registry, TLAPS

\* Token j is of no use to a call that comes now.
Spent(j) == j \in denied \/ token[j] = "expired"

\* A request that has passed the deny-list and is not yet answered.
Passed(r) == req[r].pc \in {"verified", "select", "found", "absent", "admitted"}

TriggersOK ==
    /\ \A t \in Sentinels : sentinel[t].pc = "revoked" => Spent(sentinel[t].token)
    /\ \A j \in triggers : Spent(j)
    /\ \A r \in Requests :
          Passed(r) /\ req[r].late => token[req[r].token] = "expired"

\* A request that came late carries the token of a trigger.
LateOK == \A r \in Requests : req[r] # Idle /\ req[r].late => req[r].token \in triggers

FoundOK == \A r \in Requests : req[r].pc = "found" => registry # "NONE"

IInv == TypeOK /\ FoundOK /\ LateOK /\ TriggersOK /\ IncidentKeepsInactive

-----------------------------------------------------------------------------

\* A request in flight, and a task at work, have all their fields.
LEMMA InFlight ==
    ASSUME TypeOK, NEW r \in Requests, req[r] # Idle
    PROVE  /\ req[r] \in Request
           /\ req[r].pc # "idle"
BY DEF TypeOK, Idle, Request

LEMMA AtWork ==
    ASSUME TypeOK, NEW t \in Sentinels, sentinel[t] # Idle
    PROVE  sentinel[t] \in SentinelTask /\ sentinel[t].pc # "idle"
BY DEF TypeOK, Idle, SentinelTask

\* The steps of one request or one task keep the others' places well typed.
LEMMA RequestSet ==
    ASSUME TypeOK, NEW r \in Requests, NEW q \in {Idle} \cup Request,
           req' = [req EXCEPT ![r] = q]
    PROVE  req' \in [Requests -> {Idle} \cup Request]
BY DEF TypeOK

LEMMA SentinelSet ==
    ASSUME TypeOK, NEW t \in Sentinels, NEW q \in {Idle} \cup SentinelTask,
           sentinel' = [sentinel EXCEPT ![t] = q]
    PROVE  sentinel' \in [Sentinels -> {Idle} \cup SentinelTask]
BY DEF TypeOK

\* Types.
LEMMA TypeStep == TypeOK /\ FoundOK /\ [Next]_vars => TypeOK'
<1> SUFFICES ASSUME TypeOK, FoundOK, [Next]_vars PROVE TypeOK'
  OBVIOUS
<1> USE CacheTTLAssumption
<1>1. ASSUME NEW j \in Tokens, IssueJwt(j) \/ ExpireJwt(j) \/ ExpireKey(j)
      PROVE  TypeOK'
  BY <1>1 DEF TypeOK, IssueJwt, ExpireJwt, ExpireKey, Fresh
<1>2. ASSUME NEW r \in Requests, NEW e \in Endpoints, NEW j \in Tokens,
             Arrive(r, e, j)
      PROVE  TypeOK'
  <2>1. [pc |-> "decoded", endpoint |-> e, token |-> j, late |-> j \in triggers]
           \in Request
    BY DEF Request
  <2> QED
    BY <1>2, <2>1, RequestSet DEF TypeOK, Arrive, Fresh
<1>3. ASSUME NEW r \in Requests, CheckDenyList(r)  PROVE TypeOK'
  <2>1. req[r] # Idle
    BY <1>3 DEF CheckDenyList, Idle
  <2>2. \A pc \in {"rejected", "verified"} : [req[r] EXCEPT !.pc = pc] \in Request
    BY <2>1, InFlight DEF Request
  <2> DEFINE q == [req[r] EXCEPT !.pc =
                      IF req[r].token \in denied THEN "rejected" ELSE "verified"]
  <2>3. q \in {Idle} \cup Request /\ req' = [req EXCEPT ![r] = q]
    BY <1>3, <2>2 DEF CheckDenyList
  <2> QED
    BY <1>3, <2>3, RequestSet DEF TypeOK, CheckDenyList, Fresh
<1>4. ASSUME NEW r \in Requests, Lookup(r) \/ Select(r)  PROVE TypeOK'
  <2>1. req[r] # Idle
    BY <1>4 DEF Lookup, Select, Idle
  <2>2. \A pc \in {"error", "select", "found", "absent"} :
           [req[r] EXCEPT !.pc = pc] \in Request
    BY <2>1, InFlight DEF Request
  <2>3. \E pc \in {"error", "select", "found", "absent"} :
           req' = [req EXCEPT ![r].pc = pc]
    BY <1>4 DEF Lookup, Select
  <2>4. req' \in [Requests -> {Idle} \cup Request]
    BY <2>2, <2>3, RequestSet
  <2> QED
    BY <1>4, <2>4 DEF TypeOK, Lookup, Select, Fresh
<1>5. ASSUME NEW r \in Requests, Fill(r)  PROVE TypeOK'
  <2>1. req[r] # Idle
    BY <1>5 DEF Fill, Idle
  <2>2. \A pc \in {"error", "refused"} : [req[r] EXCEPT !.pc = pc] \in Request
    BY <2>1, InFlight DEF Request
  <2>3. req' \in [Requests -> {Idle} \cup Request]
    BY <1>5, <2>2, RequestSet DEF Fill
  <2>4. CASE req[r].pc = "found"
    <3>1. registry # "NONE" /\ cache' \in 0 .. CacheTTL
      BY <1>5, <2>4 DEF Fill, FoundOK
    <3> QED
      BY <1>5, <2>3, <2>4, <3>1 DEF TypeOK, Fill
  <2>5. CASE req[r].pc = "absent"
    BY <1>5, <2>3, <2>5 DEF TypeOK, Fill, Fresh
  <2> QED
    BY <1>5, <2>4, <2>5 DEF Fill
<1>6. ASSUME NEW r \in Requests, ToolExecute(r)  PROVE TypeOK'
  <2>1. req[r] # Idle
    BY <1>6 DEF ToolExecute, Idle
  <2>2. [req[r] EXCEPT !.pc = "admitted"] \in Request
    BY <2>1, InFlight DEF Request
  <2>3. req' \in [Requests -> {Idle} \cup Request]
    BY <1>6, <2>2 DEF ToolExecute, TypeOK
  <2> QED
    BY <1>6, <2>3 DEF TypeOK, ToolExecute, Fresh
<1>7. ASSUME NEW r \in Requests, Leave(r)  PROVE TypeOK'
  BY <1>7, RequestSet DEF TypeOK, Leave, Fresh
<1>8. ASSUME NEW r \in Requests, NEW t \in Sentinels, Convict(r, t)
      PROVE  TypeOK'
  <2>1. req[r] # Idle
    BY <1>8 DEF Convict, Idle
  <2>2. [pc |-> "convicted", token |-> req[r].token] \in SentinelTask
    BY <2>1, InFlight DEF Request, SentinelTask
  <2>3. /\ req' \in [Requests -> {Idle} \cup Request]
        /\ sentinel' \in [Sentinels -> {Idle} \cup SentinelTask]
    BY <1>8, <2>2, RequestSet, SentinelSet DEF Convict
  <2> QED
    BY <1>8, <2>3 DEF TypeOK, Convict, Fresh
<1>9. ASSUME NEW t \in Sentinels,
              Deactivate(t) \/ RevokeToken(t) \/ Commit(t)
       PROVE  TypeOK'
  <2>1. sentinel[t] # Idle
    BY <1>9 DEF Deactivate, RevokeToken, Commit, Idle
  <2>2. /\ sentinel[t].token \in Tokens
        /\ \A pc \in {"deactivated", "revoked", "committed"} :
              [sentinel[t] EXCEPT !.pc = pc] \in SentinelTask
    BY <2>1, AtWork DEF SentinelTask
  <2>3. sentinel' \in [Sentinels -> {Idle} \cup SentinelTask]
    BY <1>9, <2>2, SentinelSet DEF Deactivate, RevokeToken, Commit
  <2>4. CASE Deactivate(t)
    BY <2>3, <2>4 DEF TypeOK, Deactivate, Fresh
  <2>5. CASE RevokeToken(t)
    BY <2>2, <2>3, <2>5 DEF TypeOK, RevokeToken, Fresh
  <2>6. CASE Commit(t)
    BY <2>2, <2>3, <2>6 DEF TypeOK, Commit, Fresh, Rows
  <2> QED
    BY <1>9, <2>4, <2>5, <2>6
<1>10. ASSUME NEW t \in Sentinels, Invalidate(t) \/ QuarantineFails(t)
       PROVE  TypeOK'
  BY <1>10, SentinelSet
     DEF TypeOK, Invalidate, QuarantineFails, Fresh, NoEntry, Rows
<1>11. ASSUME Tick  PROVE TypeOK'
  BY <1>11 DEF TypeOK, Tick, Fresh
<1>12. ASSUME Restart  PROVE TypeOK'
  BY <1>12 DEF TypeOK, Restart, Fresh, NoEntry, Rows
<1>13. CASE UNCHANGED vars
  BY <1>13 DEF TypeOK, vars, Fresh
<1> QED
  BY <1>1, <1>2, <1>3, <1>4, <1>5, <1>6, <1>7, <1>8, <1>9, <1>10, <1>11, <1>12,
     <1>13 DEF Next

\* A row stays, a trigger too, and a request keeps its token and whether it is late.
LEMMA FoundStep == TypeOK /\ FoundOK /\ [Next]_vars => FoundOK'
<1> SUFFICES ASSUME TypeOK, FoundOK, [Next]_vars, NEW q \in Requests,
                    req'[q].pc = "found"
             PROVE  registry' # "NONE"
  BY DEF FoundOK
<1>i. Idle.pc = "idle"
  BY DEF Idle
<1>1. registry # "NONE" => registry' # "NONE"
  BY DEF Next, vars, IssueJwt, ExpireJwt, ExpireKey, Arrive, CheckDenyList, Lookup,
         Select, Fill, ToolExecute, Leave, Convict, Deactivate, RevokeToken, Commit,
         Invalidate, QuarantineFails, Tick, Restart
<1>2. CASE req'[q] = req[q]
  BY <1>1, <1>2 DEF FoundOK
<1>3. ASSUME NEW r \in Requests, NEW x, req' = [req EXCEPT ![r] = x],
             x.pc # "found" \/ registry # "NONE"
      PROVE  registry' # "NONE"
  BY <1>1, <1>2, <1>3 DEF TypeOK
<1>4. ASSUME NEW r \in Requests, NEW pc, req' = [req EXCEPT ![r].pc = pc],
             req[r] # Idle, pc # "found" \/ registry # "NONE"
      PROVE  registry' # "NONE"
  <2>1. [req[r] EXCEPT !.pc = pc].pc = pc
    BY <1>4, InFlight DEF Request
  <2> QED
    BY <1>4, <1>3, <2>1
<1>5. ASSUME NEW r \in Requests, NEW e \in Endpoints, NEW j \in Tokens,
             Arrive(r, e, j)
      PROVE  registry' # "NONE"
  BY <1>5, <1>3 DEF Arrive
<1>6. ASSUME NEW r \in Requests,
             CheckDenyList(r) \/ Lookup(r) \/ Select(r) \/ Fill(r) \/ ToolExecute(r)
      PROVE  registry' # "NONE"
  <2>1. req[r] # Idle
    BY <1>6 DEF CheckDenyList, Lookup, Select, Fill, ToolExecute, Idle
  <2> QED
    BY <1>6, <2>1, <1>4 DEF CheckDenyList, Lookup, Select, Fill, ToolExecute
<1>7. ASSUME NEW r \in Requests, Leave(r) \/ \E t \in Sentinels : Convict(r, t)
      PROVE  registry' # "NONE"
  BY <1>7, <1>i, <1>3 DEF Leave, Convict
<1>8. ~Restart
  BY <1>i DEF Restart
<1>9. CASE UNCHANGED req
  BY <1>2, <1>9
<1> QED
  BY <1>5, <1>6, <1>7, <1>8, <1>9
     DEF Next, vars, IssueJwt, ExpireJwt, ExpireKey, Deactivate, RevokeToken, Commit,
         Invalidate, QuarantineFails, Tick

LEMMA KeepsItsToken ==
    ASSUME TypeOK, [Next]_vars, NEW q \in Requests, req'[q] # Idle
    PROVE  \/ req[q] # Idle /\ req'[q].token = req[q].token /\ req'[q].late = req[q].late
           \/ \E e \in Endpoints, j \in Tokens : Arrive(q, e, j)
<1>1. CASE req'[q] = req[q]
  BY <1>1
<1>2. ASSUME NEW r \in Requests, NEW x, req' = [req EXCEPT ![r] = x], r # q
      PROVE  req'[q] = req[q]
  BY <1>2 DEF TypeOK
<1>3. ASSUME CheckDenyList(q) \/ Lookup(q) \/ Select(q) \/ Fill(q) \/ ToolExecute(q)
      PROVE  req[q] # Idle /\ req'[q].token = req[q].token /\ req'[q].late = req[q].late
  <2>1. req[q] # Idle
    BY <1>3 DEF CheckDenyList, Lookup, Select, Fill, ToolExecute, Idle
  <2>2. req[q] \in Request
    BY <2>1, InFlight
  <2> QED
    BY <1>3, <2>1, <2>2 DEF CheckDenyList, Lookup, Select, Fill, ToolExecute, TypeOK,
       Request
<1>4. ~(Leave(q) \/ \E t \in Sentinels : Convict(q, t)) /\ ~Restart
  BY DEF Leave, Convict, Restart, TypeOK
<1>5. ASSUME NEW r \in Requests,
             \/ \E e \in Endpoints, j \in Tokens : Arrive(r, e, j)
             \/ CheckDenyList(r) \/ Lookup(r) \/ Select(r) \/ Fill(r)
             \/ ToolExecute(r) \/ Leave(r) \/ \E t \in Sentinels : Convict(r, t)
      PROVE  \/ req[q] # Idle /\ req'[q].token = req[q].token /\ req'[q].late = req[q].late
             \/ \E e \in Endpoints, j \in Tokens : Arrive(q, e, j)
  <2>1. CASE r = q
    BY <1>3, <1>4, <1>5, <2>1
  <2>2. CASE r # q
    BY <1>1, <1>2, <1>5, <2>2 DEF Arrive, CheckDenyList, Lookup, Select, Fill,
       ToolExecute, Leave, Convict
  <2> QED
    BY <2>1, <2>2
<1>6. CASE UNCHANGED req
  BY <1>1, <1>6
<1> QED
  BY <1>4, <1>5, <1>6
     DEF Next, vars, IssueJwt, ExpireJwt, ExpireKey, Deactivate, RevokeToken, Commit,
         Invalidate, QuarantineFails, Tick

LEMMA LateStep == TypeOK /\ LateOK /\ [Next]_vars => LateOK'
<1> SUFFICES ASSUME TypeOK, LateOK, [Next]_vars, NEW q \in Requests,
                    req'[q] # Idle, req'[q].late
             PROVE  req'[q].token \in triggers'
  BY DEF LateOK, Idle
<1>1. triggers \subseteq triggers'
  BY DEF Next, vars, IssueJwt, ExpireJwt, ExpireKey, Arrive, CheckDenyList, Lookup,
         Select, Fill, ToolExecute, Leave, Convict, Deactivate, RevokeToken, Commit,
         Invalidate, QuarantineFails, Tick, Restart
<1>2. ASSUME NEW e \in Endpoints, NEW j \in Tokens, Arrive(q, e, j)
      PROVE  req'[q].token \in triggers'
  BY <1>1, <1>2 DEF Arrive, TypeOK
<1>3. CASE req[q] # Idle /\ req'[q].token = req[q].token /\ req'[q].late = req[q].late
  BY <1>1, <1>3 DEF LateOK
<1> QED
  BY <1>2, <1>3, KeepsItsToken

\* A spent token stays spent while it is a trigger's or somebody carries it.
LEMMA SpentStays ==
    ASSUME TypeOK, [Next]_vars, NEW j \in Tokens,
           Carried(j) \/ j \in triggers
    PROVE  /\ token[j] = "expired" => token'[j] = "expired"
           /\ Spent(j) => Spent(j)'
<1> USE DEF Spent
<1>1. ASSUME NEW i \in Tokens, IssueJwt(i)
      PROVE  /\ token[j] = "expired" => token'[j] = "expired"
             /\ Spent(j) => Spent(j)'
  BY <1>1 DEF IssueJwt, TypeOK
<1>2. ASSUME NEW i \in Tokens, ExpireJwt(i) \/ ExpireKey(i)
      PROVE  /\ token[j] = "expired" => token'[j] = "expired"
             /\ Spent(j) => Spent(j)'
  BY <1>2 DEF ExpireJwt, ExpireKey, TypeOK
<1>3. ASSUME UNCHANGED token, denied \subseteq denied'
      PROVE  /\ token[j] = "expired" => token'[j] = "expired"
             /\ Spent(j) => Spent(j)'
  BY <1>3
<1> QED
  BY <1>1, <1>2, <1>3
     DEF Next, vars, Arrive, CheckDenyList, Lookup, Select, Fill, ToolExecute,
         Leave, Convict, Deactivate, RevokeToken, Commit, Invalidate,
         QuarantineFails, Tick, Restart

\* What holds of a Sentinel task, of a trigger and of a request.
LEMMA TaskSpent ==
    ASSUME TypeOK, TriggersOK, [Next]_vars, NEW t \in Sentinels,
           sentinel'[t].pc = "revoked"
    PROVE  Spent(sentinel[t].token)'
<1>i. Idle.pc = "idle"
  BY DEF Idle
<1>1. ASSUME sentinel'[t] = sentinel[t]  PROVE Spent(sentinel[t].token)'
  <2>1. sentinel[t] \in SentinelTask /\ sentinel[t] # Idle
    BY <1>1, <1>i, AtWork
  <2>2. sentinel[t].token \in Tokens /\ Carried(sentinel[t].token)
    BY <2>1 DEF SentinelTask, Carried
  <2>3. Spent(sentinel[t].token)
    BY <1>1 DEF TriggersOK
  <2> QED
    BY <1>1, <2>2, <2>3, SpentStays
<1>2. ASSUME RevokeToken(t)  PROVE Spent(sentinel[t].token)'
  <2>1. sentinel[t] \in SentinelTask
    BY <1>2, <1>i, AtWork DEF RevokeToken
  <2>2. sentinel'[t].token = sentinel[t].token
    BY <1>2, <2>1 DEF RevokeToken, SentinelTask, TypeOK
  <2> QED
    BY <1>2, <2>2 DEF RevokeToken, Spent
<1>3. sentinel'[t] = sentinel[t] \/ RevokeToken(t)
  <2>1. ASSUME NEW u \in Sentinels, NEW x,
               sentinel' = [sentinel EXCEPT ![u] = x],
               u = t => x.pc # "revoked"
        PROVE  sentinel'[t] = sentinel[t]
    BY <2>1 DEF TypeOK
  <2>2. ASSUME NEW r \in Requests, NEW u \in Sentinels, Convict(r, u)
        PROVE  sentinel'[t] = sentinel[t]
    BY <2>2, <2>1 DEF Convict
  <2>3. ASSUME NEW u \in Sentinels, Deactivate(u) \/ Commit(u)
        PROVE  sentinel'[t] = sentinel[t]
    <3>1. sentinel[u] \in SentinelTask
      BY <2>3, <1>i, AtWork DEF Deactivate, Commit
    <3>2. \A pc : [sentinel[u] EXCEPT !.pc = pc].pc = pc
      BY <3>1 DEF SentinelTask
    <3>3. \E x : sentinel' = [sentinel EXCEPT ![u] = x] /\ x.pc # "revoked"
      <4>1. PICK x : /\ sentinel' = [sentinel EXCEPT ![u] = x]
                     /\ \/ x = [sentinel[u] EXCEPT !.pc = "deactivated"]
                        \/ x = [sentinel[u] EXCEPT !.pc = "committed"]
                        \/ x = Idle
        BY <2>3 DEF Deactivate, Commit
      <4>2. x.pc \in {"deactivated", "committed", "idle"}
        BY <4>1, <3>2, <1>i
      <4> QED
        BY <4>1, <4>2
    <3> QED
      BY <3>3, <2>1
  <2>4. ASSUME NEW u \in Sentinels, Invalidate(u) \/ QuarantineFails(u)
        PROVE  sentinel'[t] = sentinel[t]
    BY <2>4, <2>1, <1>i DEF Invalidate, QuarantineFails
  <2>5. ASSUME NEW u \in Sentinels, RevokeToken(u)
        PROVE  sentinel'[t] = sentinel[t] \/ RevokeToken(t)
    BY <2>5 DEF RevokeToken, TypeOK
  <2>6. ~Restart
    BY <1>i DEF Restart
  <2> QED
    BY <2>2, <2>3, <2>4, <2>5, <2>6
       DEF Next, vars, IssueJwt, ExpireJwt, ExpireKey, Arrive, CheckDenyList,
           Lookup, Select, Fill, ToolExecute, Leave, Tick
<1> QED
  BY <1>1, <1>2, <1>3

LEMMA TriggerSpent ==
    ASSUME TypeOK, TriggersOK, [Next]_vars, NEW j \in triggers'
    PROVE  Spent(j)'
<1>1. CASE j \in triggers
  <2>1. j \in Tokens /\ Spent(j)
    BY <1>1 DEF TypeOK, TriggersOK
  <2> QED
    BY <1>1, <2>1, SpentStays
<1>2. CASE j \notin triggers
  <2>1. PICK t \in Sentinels : Commit(t)
    BY <1>2 DEF Next, vars, IssueJwt, ExpireJwt, ExpireKey, Arrive,
         CheckDenyList, Lookup, Select, Fill, ToolExecute, Leave, Convict,
         Deactivate, RevokeToken, Invalidate, QuarantineFails, Tick,
         Restart
  <2>2. j = sentinel[t].token /\ Spent(j)
    BY <1>2, <2>1 DEF Commit, TriggersOK
  <2> QED
    BY <2>1, <2>2 DEF Commit, Spent
<1> QED
  BY <1>1, <1>2

LEMMA PassedExpired ==
    ASSUME TypeOK, LateOK, TriggersOK, [Next]_vars, NEW q \in Requests,
           Passed(q)', req'[q].late
    PROVE  token'[req'[q].token] = "expired"
<1>i. Idle.pc = "idle"
  BY DEF Idle
\* The request had passed before, or it is just passing.
<1>a. Passed(q) \/ CheckDenyList(q)
  <2>1. ASSUME req'[q] = req[q]  PROVE Passed(q)
    BY <2>1 DEF Passed
  <2>2. ASSUME NEW r \in Requests, NEW x, req' = [req EXCEPT ![r] = x], r # q
        PROVE  Passed(q)
    <3>1. req'[q] = req[q]
      BY <2>2 DEF TypeOK
    <3> QED
      BY <2>1, <3>1
  <2>3. ASSUME NEW r \in Requests, NEW e \in Endpoints, NEW j \in Tokens,
               Arrive(r, e, j)
        PROVE  Passed(q)
    <3>1. req'[r].pc = "decoded"
      BY <2>3 DEF Arrive, TypeOK
    <3>2. r # q
      BY <3>1 DEF Passed
    <3>3. req'[q] = req[q]
      BY <2>3, <3>2 DEF Arrive, TypeOK
    <3> QED
      BY <2>1, <3>3
  <2>4. ASSUME NEW r \in Requests,
               CheckDenyList(r) \/ Lookup(r) \/ Select(r) \/ Fill(r) \/ ToolExecute(r)
        PROVE  Passed(q) \/ CheckDenyList(q)
    <3>1. CASE r # q
      BY <2>4, <3>1, <2>2 DEF CheckDenyList, Lookup, Select, Fill, ToolExecute
    <3>2. CASE r = q
      BY <2>4, <3>2 DEF Lookup, Select, Fill, ToolExecute, Passed
    <3> QED
      BY <3>1, <3>2
  <2>5. ASSUME NEW r \in Requests, Leave(r) \/ \E t \in Sentinels : Convict(r, t)
        PROVE  Passed(q)
    BY <2>5, <2>1, <1>i DEF Leave, Convict, TypeOK, Passed
  <2>6. ~Restart
    BY <1>i DEF Restart, Passed
  <2> QED
    BY <2>1, <2>3, <2>4, <2>5, <2>6
       DEF Next, vars, IssueJwt, ExpireJwt, ExpireKey, Deactivate, RevokeToken,
           Commit, Invalidate, QuarantineFails, Tick
<1>b. /\ req[q] \in Request /\ req[q] # Idle
      /\ req'[q].token = req[q].token /\ req'[q].late = req[q].late
  <2>1. req[q] # Idle /\ req'[q] # Idle
    BY <1>a, <1>i DEF Passed, CheckDenyList
  <2> QED
    BY <2>1, InFlight, KeepsItsToken DEF Arrive
<1>c. req[q].token \in Tokens /\ req[q].token \in triggers /\ Carried(req[q].token)
  BY <1>b DEF LateOK, Request, Carried
<1>1. CASE Passed(q)
  BY <1>1, <1>b, <1>c, SpentStays DEF TriggersOK
<1>2. CASE CheckDenyList(q)
  <2>1. req'[q].pc = IF req[q].token \in denied THEN "rejected" ELSE "verified"
    BY <1>2, <1>b DEF CheckDenyList, TypeOK, Request
  <2>2. req[q].token \notin denied /\ Spent(req[q].token)
    BY <1>c, <2>1 DEF Passed, TriggersOK
  <2> QED
    BY <1>b, <1>2, <2>2 DEF Spent, CheckDenyList
<1> QED
  BY <1>a, <1>1, <1>2

\* A commit deactivates, and what else sets the row, the seeding at a restart,
\* finds none where an incident is on record.
LEMMA InactiveStep ==
    TypeOK /\ IncidentKeepsInactive /\ [Next]_vars => IncidentKeepsInactive'
BY DEF TypeOK, IncidentKeepsInactive, Next, vars, IssueJwt, ExpireJwt, ExpireKey,
       Arrive, CheckDenyList, Lookup, Select, Fill, ToolExecute, Leave, Convict,
       Deactivate, RevokeToken, Commit, Invalidate, QuarantineFails, Tick, Restart

-----------------------------------------------------------------------------

LEMMA InitIInv == Init => IInv
<1>1. ASSUME Init  PROVE TypeOK
  BY <1>1, CacheTTLAssumption DEF Init, TypeOK, Fresh, NoEntry, Rows
<1>2. Idle.pc = "idle"
  BY DEF Idle
<1> QED
  BY <1>1, <1>2 DEF Init, IInv, FoundOK, LateOK, TriggersOK, Passed, IncidentKeepsInactive

LEMMA NextIInv == IInv /\ [Next]_vars => IInv'
<1> SUFFICES ASSUME IInv, [Next]_vars PROVE IInv'
  OBVIOUS
<1>1. TypeOK /\ FoundOK /\ LateOK /\ TriggersOK /\ IncidentKeepsInactive
  BY DEF IInv
<1>2. TypeOK' /\ FoundOK' /\ LateOK'
  BY <1>1, TypeStep, FoundStep, LateStep
<1>3. TriggersOK'
  BY <1>1, TaskSpent, TriggerSpent, PassedExpired DEF TriggersOK
<1>4. IncidentKeepsInactive'
  BY <1>1, InactiveStep
<1> QED
  BY <1>2, <1>3, <1>4 DEF IInv

LEMMA IInvAlways == Spec => []IInv
BY InitIInv, NextIInv, PTL DEF Spec

\* Every reachable state of registry, cache, tokens, requests and Sentinel
\* tasks is well typed (gateway.py, auth.py, quarantine_manager.py).
THEOREM RegistryTypes == Spec => []TypeOK
<1>1. IInv => TypeOK
  BY DEF IInv
<1> QED
  BY <1>1, IInvAlways, PTL

\* The token that triggered an incident on record admits no call that comes after
\* it, on any endpoint, up to the token's expiry.
THEOREM TriggersShutOut == Spec => []TriggerShutOut
<1>1. IInv => TriggerShutOut
  BY DEF IInv, TriggersOK, TriggerShutOut, Passed
<1> QED
  BY <1>1, IInvAlways, PTL

\* Once an incident of the agent is on record the agent is inactive for good: no
\* other task, no failure, no restart and no seeding makes it active (main.py,
\* quarantine_manager.py).
THEOREM QuarantineOutlivesProcess == Spec => []IncidentKeepsInactive
<1>1. IInv => IncidentKeepsInactive
  BY DEF IInv
<1> QED
  BY <1>1, IInvAlways, PTL

-----------------------------------------------------------------------------
(* The tokens here are those of TokensAbs.                                 *)

\* Whoever carries a token carries one that was issued.
CarriedIssued ==
    /\ \A r \in Requests : req[r] # Idle => token[req[r].token] # "unissued"
    /\ \A t \in Sentinels :
          sentinel[t] # Idle => token[sentinel[t].token] # "unissued"

LEMMA CarriedIssuedStep ==
    TypeOK /\ TypeOK' /\ CarriedIssued /\ [Next]_vars => CarriedIssued'
<1> SUFFICES ASSUME TypeOK, TypeOK', CarriedIssued, [Next]_vars PROVE CarriedIssued'
  OBVIOUS
<1>1. ASSUME NEW j \in Tokens, token[j] # "unissued" PROVE token'[j] # "unissued"
  BY <1>1 DEF Next, vars, IssueJwt, ExpireJwt, ExpireKey, Arrive, CheckDenyList, Lookup,
       Select, Fill, ToolExecute, Leave, Convict, Deactivate, RevokeToken, Commit,
       Invalidate, QuarantineFails, Tick, Restart, TypeOK
\* The token of a request is its own all along, or comes with it.
<1>2. ASSUME NEW r \in Requests, req'[r] # Idle
      PROVE  /\ req'[r].token \in Tokens
             /\ \/ req[r] # Idle /\ req'[r].token = req[r].token
                \/ token[req'[r].token] = "live"
  <2>1. req'[r].token \in Tokens
    BY <1>2 DEF TypeOK, Request
  <2>2. ASSUME NEW e \in Endpoints, NEW j \in Tokens, Arrive(r, e, j)
        PROVE  token[req'[r].token] = "live"
    BY <2>2 DEF Arrive, TypeOK
  <2> QED
    BY <1>2, <2>1, <2>2, KeepsItsToken
<1>3. ASSUME NEW t \in Sentinels, sentinel'[t] # Idle
      PROVE  /\ sentinel'[t].token \in Tokens
             /\ \/ sentinel[t] # Idle /\ sentinel'[t].token = sentinel[t].token
                \/ \E r \in Requests :
                      req[r] # Idle /\ sentinel'[t].token = req[r].token
  <2>1. sentinel'[t] \in SentinelTask /\ sentinel'[t].token \in Tokens
    BY <1>3 DEF TypeOK, SentinelTask
  <2>2. CASE sentinel'[t] = sentinel[t]
    BY <1>3, <2>1, <2>2
  <2>3. ASSUME NEW r \in Requests, Convict(r, t)
        PROVE  req[r] # Idle /\ sentinel'[t].token = req[r].token
    BY <2>3 DEF Convict, TypeOK, Idle
  <2>4. ASSUME Deactivate(t) \/ RevokeToken(t) \/ Commit(t)
        PROVE  sentinel[t] # Idle /\ sentinel'[t].token = sentinel[t].token
    <3>1. sentinel[t] # Idle
      BY <2>4 DEF Deactivate, RevokeToken, Commit, Idle
    <3>2. sentinel[t] \in SentinelTask
      BY <3>1, AtWork
    <3>3. sentinel'[t] # Idle => \E pc : sentinel' = [sentinel EXCEPT ![t].pc = pc]
      BY <2>4 DEF Deactivate, RevokeToken, Commit, TypeOK
    <3> QED
      BY <1>3, <3>1, <3>2, <3>3 DEF TypeOK, SentinelTask
  <2>5. ASSUME NEW u \in Sentinels \ {t},
               \/ \E r \in Requests : Convict(r, u)
               \/ Deactivate(u) \/ RevokeToken(u) \/ Commit(u) \/ Invalidate(u)
               \/ QuarantineFails(u)
        PROVE  sentinel'[t] = sentinel[t]
    BY <2>5 DEF Convict, Deactivate, RevokeToken, Commit, Invalidate, QuarantineFails,
       TypeOK
  <2>6. ~(Invalidate(t) \/ QuarantineFails(t)) /\ ~Restart
    BY <1>3 DEF Invalidate, QuarantineFails, Restart, TypeOK
  <2>7. ASSUME NEW u \in Sentinels,
               \/ \E r \in Requests : Convict(r, u)
               \/ Deactivate(u) \/ RevokeToken(u) \/ Commit(u) \/ Invalidate(u)
               \/ QuarantineFails(u)
        PROVE  \/ sentinel'[t] = sentinel[t]
               \/ sentinel[t] # Idle /\ sentinel'[t].token = sentinel[t].token
               \/ \E r \in Requests :
                     req[r] # Idle /\ sentinel'[t].token = req[r].token
    <3>1. CASE u = t
      BY <2>3, <2>4, <2>6, <2>7, <3>1
    <3>2. CASE u # t
      BY <2>5, <2>7, <3>2
    <3> QED
      BY <3>1, <3>2
  <2>8. CASE UNCHANGED sentinel
    BY <2>2, <2>8
  <2>9. \/ UNCHANGED sentinel \/ Restart
        \/ \E u \in Sentinels :
               \/ \E r \in Requests : Convict(r, u)
               \/ Deactivate(u) \/ RevokeToken(u) \/ Commit(u) \/ Invalidate(u)
               \/ QuarantineFails(u)
    BY DEF Next, vars, IssueJwt, ExpireJwt, ExpireKey, Arrive, CheckDenyList, Lookup,
           Select, Fill, ToolExecute, Leave, Tick
  <2> QED
    BY <2>1, <2>2, <2>6, <2>7, <2>8, <2>9
<1>4. \A r \in Requests : req'[r] # Idle => token'[req'[r].token] # "unissued"
  BY <1>1, <1>2 DEF CarriedIssued
<1>5. \A t \in Sentinels : sentinel'[t] # Idle => token'[sentinel'[t].token] # "unissued"
  BY <1>1, <1>3 DEF CarriedIssued
<1> QED
  BY <1>4, <1>5 DEF CarriedIssued

LEMMA CarriedIssuedAlways == Spec => []CarriedIssued
<1>1. Init => CarriedIssued
  BY DEF Init, CarriedIssued
<1>2. IInv /\ IInv' /\ CarriedIssued /\ [Next]_vars => CarriedIssued'
  BY CarriedIssuedStep DEF IInv
<1> QED
  BY <1>1, <1>2, IInvAlways, PTL DEF Spec

\* What TokensAbs sees of the requests.
verified == [r \in Requests |-> Verification(r)]

\* A step of request r is one of its verification, or none.
LEMMA OneVerification ==
    ASSUME TypeOK, NEW r \in Requests, NEW x, req' = [req EXCEPT ![r] = x]
    PROVE  verified' = [verified EXCEPT ![r] = Verification(r)']
BY DEF TypeOK, verified, Verification

\* After the lookup in the deny-list nothing changes a verification.
LEMMA AcceptedStays ==
    ASSUME TypeOK, NEW r \in Requests,
           Lookup(r) \/ Select(r) \/ Fill(r) \/ ToolExecute(r)
    PROVE  verified' = verified
<1>i. Idle.pc = "idle"
  BY DEF Idle
<1>1. req[r] # Idle /\ req[r] \in Request
  BY <1>i, InFlight DEF Lookup, Select, Fill, ToolExecute
<1>2. PICK pc \in {"select", "found", "absent", "admitted", "refused", "error"} :
         req' = [req EXCEPT ![r].pc = pc]
  BY DEF Lookup, Select, Fill, ToolExecute
<1>3. req'[r].pc = pc /\ req'[r].token = req[r].token
  BY <1>1, <1>2 DEF TypeOK, Request
<1>4. Verification(r)' = [pc |-> "accepted", jti |-> req[r].token]
  BY <1>i, <1>2, <1>3 DEF Verification
<1>5. Verification(r) = [pc |-> "accepted", jti |-> req[r].token]
  BY <1>1 DEF Lookup, Select, Fill, ToolExecute, Verification
<1> QED
  BY <1>2, <1>4, <1>5, OneVerification DEF verified

LEMMA ArriveDecodes ==
    ASSUME TypeOK, NEW r \in Requests, NEW e \in Endpoints, NEW j \in Tokens,
           Arrive(r, e, j)
    PROVE  Abs!Decode(r, j)
<1>i. Idle.pc = "idle"
  BY DEF Idle
<1>1. verified[r] = Idle
  BY DEF Arrive, verified, Verification
<1>2. req'[r].pc = "decoded" /\ req'[r].token = j
  BY DEF Arrive, TypeOK
<1>3. Verification(r)' = [pc |-> "decoded", jti |-> j]
  BY <1>i, <1>2 DEF Verification
<1>4. verified' = [verified EXCEPT ![r] = [pc |-> "decoded", jti |-> j]]
  BY <1>3, OneVerification DEF Arrive
<1> QED
  BY <1>1, <1>4 DEF Arrive, Abs!Decode, Abs!Idle, Idle, verified

LEMMA CheckChecks ==
    ASSUME TypeOK, NEW r \in Requests, CheckDenyList(r)
    PROVE  Abs!CheckDenyList(r)
<1>i. Idle.pc = "idle"
  BY DEF Idle
<1>1. req[r] # Idle /\ req[r] \in Request
  BY <1>i, InFlight DEF CheckDenyList
<1>2. verified[r] = [pc |-> "decoded", jti |-> req[r].token]
  BY <1>1 DEF CheckDenyList, verified, Verification
<1>3. /\ req'[r].pc = IF req[r].token \in denied THEN "rejected" ELSE "verified"
      /\ req'[r].token = req[r].token
  BY <1>1 DEF CheckDenyList, TypeOK, Request
<1>4. Verification(r)' =
         [pc |-> IF req[r].token \in denied THEN "refused" ELSE "accepted",
          jti |-> req[r].token]
  BY <1>i, <1>3 DEF Verification
<1>5. verified' = [verified EXCEPT ![r] = Verification(r)']
  BY OneVerification DEF CheckDenyList
<1>6. verified' = [verified EXCEPT ![r].pc =
                      IF verified[r].jti \in denied THEN "refused" ELSE "accepted"]
  <2> DEFINE answer == IF req[r].token \in denied THEN "refused" ELSE "accepted"
  <2>1. answer = IF verified[r].jti \in denied THEN "refused" ELSE "accepted"
    BY <1>2
  <2>2. [verified[r] EXCEPT !.pc = answer] = [pc |-> answer, jti |-> req[r].token]
    <3> HIDE DEF answer
    <3> QED
      BY <1>2
  <2>3. verified' = [verified EXCEPT ![r] = [verified[r] EXCEPT !.pc = answer]]
    BY <1>4, <1>5, <2>2
  <2> QED
    BY <2>1, <2>3
<1> QED
  BY <1>2, <1>6 DEF CheckDenyList, Abs!CheckDenyList, verified

\* Requests that end, alone, with a conviction or with the process.
LEMMA EndingLeaves ==
    ASSUME TypeOK, UNCHANGED <<token, denied>>,
           \/ \E r \in Requests : req' = [req EXCEPT ![r] = Idle]
           \/ req' = [r \in Requests |-> Idle]
    PROVE  Abs!Next
<1>1. CASE \E r \in Requests : req' = [req EXCEPT ![r] = Idle]
  <2>1. PICK r \in Requests : req' = [req EXCEPT ![r] = Idle]
    BY <1>1
  <2>2. verified' = [q \in Requests |-> IF q \in {r} THEN Idle ELSE verified[q]]
    BY <2>1 DEF TypeOK, verified, Verification
  <2>3. Abs!Leave({r})
    BY <2>2 DEF Abs!Leave, Abs!Idle, Idle, verified
  <2> QED
    BY <2>3 DEF Abs!Next
<1>2. CASE req' = [r \in Requests |-> Idle]
  <2>1. verified' = [q \in Requests |-> IF q \in Requests THEN Idle ELSE verified[q]]
    BY <1>2 DEF verified, Verification
  <2>2. Abs!Leave(Requests)
    BY <2>1 DEF Abs!Leave, Abs!Idle, Idle, verified
  <2> QED
    BY <2>2 DEF Abs!Next
<1> QED
  BY <1>1, <1>2

LEMMA TokenSteps ==
    ASSUME TypeOK, NEW j \in Tokens, IssueJwt(j) \/ ExpireJwt(j) \/ ExpireKey(j)
    PROVE  Abs!Next
<1>1. verified' = verified
  BY DEF IssueJwt, ExpireJwt, ExpireKey, verified, Verification
<1>2. CASE IssueJwt(j)
  <2>1. \A r \in Requests : verified[r] # Idle => verified[r].jti # j
    BY <1>2 DEF IssueJwt, Carried, verified, Verification
  <2>2. Abs!Issue(j)
    BY <1>1, <1>2, <2>1 DEF IssueJwt, Abs!Issue, Abs!Idle, Idle, verified
  <2> QED
    BY <2>2 DEF Abs!Next
<1>3. CASE ExpireJwt(j)
  <2>1. /\ {j} \in SUBSET Tokens /\ {} \in SUBSET denied
        /\ \A i \in {j} : token[i] = "live"
        /\ token' = [i \in Tokens |-> IF i \in {j} THEN "expired" ELSE token[i]]
        /\ denied' = denied \ {}
    BY <1>3 DEF ExpireJwt, TypeOK
  <2>2. Abs!Expire
    BY <1>1, <2>1 DEF Abs!Expire, verified
  <2> QED
    BY <2>2 DEF Abs!Next
<1>4. CASE ExpireKey(j)
  <2>1. /\ {} \in SUBSET Tokens /\ {j} \in SUBSET denied
        /\ token' = [i \in Tokens |-> IF i \in {} THEN "expired" ELSE token[i]]
        /\ \A i \in {j} : token'[i] = "expired"
        /\ denied' = denied \ {j}
    BY <1>4 DEF ExpireKey, TypeOK
  <2>2. Abs!Expire
    BY <1>1, <2>1 DEF Abs!Expire, verified
  <2> QED
    BY <2>2 DEF Abs!Next
<1> QED
  BY <1>2, <1>3, <1>4

LEMMA RevokeRevokes ==
    ASSUME TypeOK, CarriedIssued, NEW t \in Sentinels, RevokeToken(t) PROVE Abs!Next
<1>1. sentinel[t] # Idle
  BY DEF RevokeToken, Idle
<1>2. sentinel[t].token \in Tokens /\ token[sentinel[t].token] # "unissued"
  BY <1>1, AtWork DEF SentinelTask, CarriedIssued
<1>3. verified' = verified
  BY DEF RevokeToken, verified, Verification
<1>4. Abs!Revoke(sentinel[t].token)
  BY <1>2, <1>3 DEF RevokeToken, Abs!Revoke, verified
<1> QED
  BY <1>2, <1>4 DEF Abs!Next

\* What this module assumes of tokens is what TokensAbs promises.
THEOREM UsesTokens == Spec => TokensSpec
<1>1. Init => Abs!Init
  BY DEF Init, Abs!Init, Abs!Idle, Idle, Verification
<1>2. IInv /\ CarriedIssued /\ [Next]_vars => [Abs!Next]_(Abs!vars)
  <2> SUFFICES ASSUME IInv, CarriedIssued, [Next]_vars PROVE [Abs!Next]_(Abs!vars)
    OBVIOUS
  <2>0. TypeOK
    BY DEF IInv
  <2>1. ASSUME UNCHANGED <<token, denied>>, verified' = verified PROVE UNCHANGED Abs!vars
    BY <2>1 DEF Abs!vars, verified
  <2>2. ASSUME NEW j \in Tokens, IssueJwt(j) \/ ExpireJwt(j) \/ ExpireKey(j)
        PROVE  Abs!Next
    BY <2>0, <2>2, TokenSteps
  <2>3. ASSUME NEW r \in Requests,
               (\E e \in Endpoints, j \in Tokens : Arrive(r, e, j)) \/ CheckDenyList(r)
        PROVE  Abs!Next
    BY <2>0, <2>3, ArriveDecodes, CheckChecks DEF Abs!Next
  <2>4. ASSUME NEW r \in Requests, Lookup(r) \/ Select(r) \/ Fill(r) \/ ToolExecute(r)
        PROVE  UNCHANGED Abs!vars
    <3>1. verified' = verified
      BY <2>0, <2>4, AcceptedStays
    <3>2. UNCHANGED <<token, denied>>
      BY <2>4 DEF Lookup, Select, Fill, ToolExecute
    <3> QED
      BY <2>1, <3>1, <3>2
  <2>5. ASSUME \/ \E r \in Requests :
                     Leave(r) \/ \E t \in Sentinels : Convict(r, t)
               \/ Restart
        PROVE  Abs!Next
    BY <2>0, <2>5, EndingLeaves DEF Leave, Convict, Restart
  <2>6. ASSUME NEW t \in Sentinels, RevokeToken(t) PROVE Abs!Next
    BY <2>0, <2>6, RevokeRevokes
  <2>7. ASSUME \/ Tick \/ UNCHANGED vars
               \/ \E t \in Sentinels :
                     Deactivate(t) \/ Commit(t) \/ Invalidate(t) \/ QuarantineFails(t)
        PROVE  UNCHANGED Abs!vars
    <3>1. UNCHANGED <<token, denied, req>>
      BY <2>7 DEF vars, Tick, Deactivate, Commit, Invalidate, QuarantineFails
    <3> QED
      BY <2>1, <3>1 DEF verified, Verification
  <2> QED
    BY <2>2, <2>3, <2>4, <2>5, <2>6, <2>7 DEF Next
<1> QED
  BY <1>1, <1>2, IInvAlways, CarriedIssuedAlways, PTL DEF Spec, TokensSpec, Abs!Spec
=============================================================================
