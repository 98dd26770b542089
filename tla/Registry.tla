------------------------------ MODULE Registry ------------------------------
(***************************************************************************)
(* Who gets through the gateway: the registry row of one agent, the cache  *)
(* of it in the backend process, the agent's tokens, and the requests and  *)
(* Sentinel tasks that use them (gateway.py, with auth.py and              *)
(* quarantine_manager.py as far as they decide about it).  Agents share    *)
(* neither rows nor cache entries, so one is enough.                       *)
(*                                                                         *)
(* Every await is a boundary between actions.  Of a quarantine this module *)
(* keeps what concerns the agent; the rest is in Quarantine.  Of the call  *)
(* itself it keeps only that it has been admitted: whether the armor lets  *)
(* the tool run is in ToolSafety.                                          *)
(*                                                                         *)
(* The row is read through a Core connection, so that what the code caches *)
(* and asks for `is_active` is the first column of the row, its agent_id:  *)
(* the call of a registered agent ends in an AttributeError.               *)
(*                                                                         *)
(* The age of the cache entry is counted in ticks.  Tokens expire at any   *)
(* time and deny-list keys at any time after their token, as TokensAbs     *)
(* says, which Auth implements.  A place in Tokens is given to a new token *)
(* when nobody carries the old one any more.                               *)
(***************************************************************************)
EXTENDS Naturals

CONSTANTS
    Requests,   \* requests in flight
    Sentinels,  \* Sentinel tasks that run at once
    Tokens,     \* tokens of the agent that exist at once
    CacheTTL    \* _AGENT_CACHE_TTL_SECONDS, in ticks

ASSUME CacheTTLAssumption == CacheTTL \in Nat \ {0}

VARIABLES
    registry,  \* is_active of the committed row, or "NONE" without a row
    cache,     \* the age of the entry of _AGENT_REGISTRY_CACHE
    token,     \* token[j]: "unissued", "live" or "expired"
    denied,    \* tokens on the deny-list
    triggers,  \* the jti of each incident of the agent that is on record
    req,       \* req[r]: one request
    sentinel   \* sentinel[t]: one Sentinel task, from its verdict on

vars == <<registry, cache, token, denied, triggers, req, sentinel>>

Rows      == {"NONE", "ACTIVE", "INACTIVE"}
Endpoints == {"invoke", "execute"}

\* No entry, and none that is fresh: both are a miss.
NoEntry == CacheTTL

Idle == [pc |-> "idle"]

\* "rejected" is the 401 of a revoked token, "refused" the 403 of an agent that
\* is not registered, "error" a 500.  `late` is an observation: when the request
\* came, its token had already triggered an incident that is on record.
Request == [pc : {"decoded", "rejected", "verified", "select", "found", "absent",
                  "admitted", "refused", "error"},
            endpoint : Endpoints, token : Tokens, late : BOOLEAN]

SentinelTask == [pc : {"convicted", "deactivated", "revoked", "committed"},
                 token : Tokens]

Init ==
    /\ registry \in Rows
    /\ cache = NoEntry
    /\ token = [j \in Tokens |-> "unissued"]
    /\ denied = {}
    /\ triggers = {}
    /\ req = [r \in Requests |-> Idle]
    /\ sentinel = [t \in Sentinels |-> Idle]

-----------------------------------------------------------------------------
(* Tokens.                                                                 *)

Carried(j) == \/ \E r \in Requests : req[r] # Idle /\ req[r].token = j
              \/ \E t \in Sentinels : sentinel[t] # Idle /\ sentinel[t].token = j

\* issue_jwt asks nobody whether the agent is active.
IssueJwt(j) ==
    /\ token[j] # "live"
    /\ j \notin denied \cup triggers
    /\ ~Carried(j)
    /\ token' = [token EXCEPT ![j] = "live"]
    /\ UNCHANGED <<registry, cache, denied, triggers, req, sentinel>>

ExpireJwt(j) ==
    /\ token[j] = "live"
    /\ token' = [token EXCEPT ![j] = "expired"]
    /\ UNCHANGED <<registry, cache, denied, triggers, req, sentinel>>

\* Faulty variant: the key does not live as long as the token.
ExpireKeyEarly(j) ==
    /\ j \in denied
    /\ denied' = denied \ {j}
    /\ UNCHANGED <<registry, cache, token, triggers, req, sentinel>>

ExpireKey(j) ==
    /\ token[j] = "expired"
    /\ j \in denied
    /\ denied' = denied \ {j}
    /\ UNCHANGED <<registry, cache, token, triggers, req, sentinel>>

-----------------------------------------------------------------------------
(* Requests.                                                               *)

\* verify_jwt up to its await.
Arrive(r, e, j) ==
    /\ req[r] = Idle
    /\ token[j] = "live"
    /\ req' = [req EXCEPT ![r] = [pc |-> "decoded", endpoint |-> e, token |-> j,
                                  late |-> j \in triggers]]
    /\ UNCHANGED <<registry, cache, token, denied, triggers, sentinel>>

CheckDenyList(r) ==
    /\ req[r].pc = "decoded"
    /\ req' = [req EXCEPT ![r].pc =
                  IF req[r].token \in denied THEN "rejected" ELSE "verified"]
    /\ UNCHANGED <<registry, cache, token, denied, triggers, sentinel>>

Fresh == cache < CacheTTL

\* /invoke: _get_cached_agent.  The string that a hit returns has no is_active.
Lookup(r) ==
    /\ req[r].pc = "verified"
    /\ req[r].endpoint = "invoke"
    /\ req' = [req EXCEPT ![r].pc = IF Fresh THEN "error" ELSE "select"]
    /\ UNCHANGED <<registry, cache, token, denied, triggers, sentinel>>

\* The database evaluates the SELECT.
Select(r) ==
    /\ req[r].pc = "select"
    /\ req' = [req EXCEPT ![r].pc = IF registry = "NONE" THEN "absent" ELSE "found"]
    /\ UNCHANGED <<registry, cache, token, denied, triggers, sentinel>>

\* Faulty variant: the absence of the agent is cached too.
FillAlways(r) ==
    /\ req[r].pc \in {"found", "absent"}
    /\ cache' = 0
    /\ req' = [req EXCEPT ![r].pc =
                  IF req[r].pc = "found" THEN "error" ELSE "refused"]
    /\ UNCHANGED <<registry, token, denied, triggers, sentinel>>

\* The request resumes with the agent_id, puts it into the cache and asks it for
\* is_active; or with None, which is not cached: "not registered or inactive".
Fill(r) ==
    \/ /\ req[r].pc = "found"
       /\ cache' = 0
       /\ req' = [req EXCEPT ![r].pc = "error"]
       /\ UNCHANGED <<registry, token, denied, triggers, sentinel>>
    \/ /\ req[r].pc = "absent"
       /\ req' = [req EXCEPT ![r].pc = "refused"]
       /\ UNCHANGED <<registry, cache, token, denied, triggers, sentinel>>

\* /tool/execute: no look at the registry.
ToolExecute(r) ==
    /\ req[r].pc = "verified"
    /\ req[r].endpoint = "execute"
    /\ req' = [req EXCEPT ![r].pc = "admitted"]
    /\ UNCHANGED <<registry, cache, token, denied, triggers, sentinel>>

\* The response is sent, or the request fails on the way.
Leave(r) ==
    /\ req[r] # Idle
    /\ req' = [req EXCEPT ![r] = Idle]
    /\ UNCHANGED <<registry, cache, token, denied, triggers, sentinel>>

-----------------------------------------------------------------------------
(* Quarantine.                                                             *)

\* The response is sent, and the Sentinel will find the call malicious and
\* find its patient zero.
Convict(r, t) ==
    /\ req[r].pc = "admitted"
    /\ sentinel[t] = Idle
    /\ sentinel' = [sentinel EXCEPT ![t] = [pc |-> "convicted",
                                            token |-> req[r].token]]
    /\ req' = [req EXCEPT ![r] = Idle]
    /\ UNCHANGED <<registry, cache, token, denied, triggers>>

\* No transaction holds the agent's row; no row, nothing to hold.
RowFree ==
    registry # "NONE" =>
        \A t \in Sentinels : sentinel[t].pc \notin {"deactivated", "revoked"}

\* UPDATE agent_registry, in the transaction.
Deactivate(t) ==
    /\ sentinel[t].pc = "convicted"
    /\ RowFree
    /\ sentinel' = [sentinel EXCEPT ![t].pc = "deactivated"]
    /\ UNCHANGED <<registry, cache, token, denied, triggers, req>>

\* Faulty variant: the call is scheduled as a task of its own, which may be lost.
RevokeTokenUnawaited(t) ==
    /\ sentinel[t].pc = "deactivated"
    /\ denied' \in {denied, denied \cup {sentinel[t].token}}
    /\ sentinel' = [sentinel EXCEPT ![t].pc = "revoked"]
    /\ UNCHANGED <<registry, cache, token, triggers, req>>

RevokeToken(t) ==
    /\ sentinel[t].pc = "deactivated"
    /\ denied' = denied \cup {sentinel[t].token}
    /\ sentinel' = [sentinel EXCEPT ![t].pc = "revoked"]
    /\ UNCHANGED <<registry, cache, token, triggers, req>>

\* The database commits.  The incident's foreign key needs the agent's row.  The
\* task resumes, or the reply is lost and it ends with an exception.
Commit(t) ==
    /\ sentinel[t].pc = "revoked"
    /\ registry # "NONE"
    /\ registry' = "INACTIVE"
    /\ triggers' = triggers \cup {sentinel[t].token}
    /\ \/ sentinel' = [sentinel EXCEPT ![t].pc = "committed"]
       \/ sentinel' = [sentinel EXCEPT ![t] = Idle]
    /\ UNCHANGED <<cache, token, denied, req>>

\* The task resumes after the commit: _invalidate_agent_cache.
Invalidate(t) ==
    /\ sentinel[t].pc = "committed"
    /\ cache' = NoEntry
    /\ sentinel' = [sentinel EXCEPT ![t] = Idle]
    /\ UNCHANGED <<registry, token, denied, triggers, req>>

\* An exception on the way: the transaction rolls back, the task ends.
QuarantineFails(t) ==
    /\ sentinel[t].pc \in {"convicted", "deactivated", "revoked"}
    /\ sentinel' = [sentinel EXCEPT ![t] = Idle]
    /\ UNCHANGED <<registry, cache, token, denied, triggers, req>>

-----------------------------------------------------------------------------

Tick ==
    /\ Fresh
    /\ cache' = cache + 1
    /\ UNCHANGED <<registry, token, denied, triggers, req, sentinel>>

\* Faulty variant: the seeding writes the row of a demo agent anew, active.
RestartAndReseed ==
    /\ registry' \in {registry, "ACTIVE"}
    /\ cache' = NoEntry
    /\ req' = [r \in Requests |-> Idle]
    /\ sentinel' = [t \in Sentinels |-> Idle]
    /\ UNCHANGED <<token, denied, triggers>>

\* The backend process ends and starts again.  What it kept in memory is gone,
\* open transactions roll back, and _seed_agent_registry inserts the agent,
\* active, if it is one of the demo agents and has no row.
Restart ==
    /\ registry' \in IF registry = "NONE" THEN {"NONE", "ACTIVE"} ELSE {registry}
    /\ cache' = NoEntry
    /\ req' = [r \in Requests |-> Idle]
    /\ sentinel' = [t \in Sentinels |-> Idle]
    /\ UNCHANGED <<token, denied, triggers>>

Next ==
    \/ \E j \in Tokens : IssueJwt(j) \/ ExpireJwt(j) \/ ExpireKey(j)
    \/ \E r \in Requests :
          \/ \E e \in Endpoints, j \in Tokens : Arrive(r, e, j)
          \/ CheckDenyList(r) \/ Lookup(r) \/ Select(r) \/ Fill(r)
          \/ ToolExecute(r) \/ Leave(r)
          \/ \E t \in Sentinels : Convict(r, t)
    \/ \E t \in Sentinels :
          \/ Deactivate(t) \/ RevokeToken(t) \/ Commit(t) \/ Invalidate(t)
          \/ QuarantineFails(t)
    \/ Tick \/ Restart

Spec == Init /\ [][Next]_vars

-----------------------------------------------------------------------------

\* Types; only a registered agent is cached, its absence is not.
TypeOK ==
    /\ registry \in Rows
    /\ cache \in 0 .. CacheTTL
    /\ Fresh => registry # "NONE"
    /\ token \in [Tokens -> {"unissued", "live", "expired"}]
    /\ denied \in SUBSET Tokens
    /\ triggers \in SUBSET Tokens
    /\ req \in [Requests -> {Idle} \cup Request]
    /\ sentinel \in [Sentinels -> {Idle} \cup SentinelTask]

\* The token that triggered an incident admits no call that comes after it, on
\* either endpoint: the revocation is in place before the incident is, and the
\* deny-list key is there for the rest of the token's life.  A call may still
\* slip in at the token's end, between its checks.
TriggerShutOut ==
    \A r \in Requests :
        req[r].pc = "admitted" /\ req[r].late => token[req[r].token] = "expired"

\* A quarantine outlives the process: once an incident of the agent is on record,
\* no other task, no restart and no seeding makes the agent active.
IncidentKeepsInactive == triggers # {} => registry = "INACTIVE"

\* What a request here has of its verification.
Verification(r) ==
    IF req[r] = Idle THEN Idle
    ELSE [pc |-> CASE req[r].pc = "decoded"  -> "decoded"
                   [] req[r].pc = "rejected" -> "refused"
                   [] OTHER                  -> "accepted",
          jti |-> req[r].token]

\* The tokens of this module are those of TokensAbs, which Auth implements.
Abs == INSTANCE TokensAbs WITH
    Jtis <- Tokens, life <- token, req <- [r \in Requests |-> Verification(r)]
TokensSpec == Abs!Spec

-----------------------------------------------------------------------------
(* What the source says of itself and the code does not do.                *)

\* responses={200: "authorized tool call", 403: "forbidden"} (gateway.py:380): a
\* call of /invoke with a valid token is authorized or forbidden.
InvokeDecides == \A r \in Requests : req[r].pc # "error"
=============================================================================
