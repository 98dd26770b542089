# ImmunoAgent in TLA+

ImmunoAgent is a zero-trust gateway for LLM agents. Every tool call is checked by a *model armor*, executed,
recorded in a provenance DAG and examined in the background by a *Sentinel*, which traces a malicious call to its
source ("patient zero") and quarantines everything that source has reached. An operator may ask for a quarantine to be
rolled back.

This directory holds the TLA+ modules for that system, the TLC configurations that check them on small instances,
and proofs, checked by TLAPS, of the properties that matter most. Paths such as `gateway.py:407` are relative to
`src/backend/` and its subdirectories; `qm` is `sentinel/quarantine_manager.py`.

## 1. Inventory

### Components

| Component | State | Operations | Correct when |
|---|---|---|---|
| Model armor (`core/model_armor.py`) | none | `evaluate_tool_safety` | what it lets through obeys tier, amount, payee and PII rules; it agrees with the tool on what an amount means |
| Tools and dispatch (`tools/tool_definitions.py`) | none (mocks) | `call_tool` and the five tools | each legal call answers, each illegal one is refused |
| Anomaly detector (`sentinel/anomaly_detector.py`) | none (a memo) | `score_anomaly` | a rule that fires is never ignored, and its judgement fits the armor's |
| Token authority (`core/auth.py`) | deny-list keys in Redis; claims in the token | `issue_jwt`, `verify_jwt`, `revoke_jwt` | a revoked token is refused for as long as it would live |
| Gateway (`core/gateway.py`) | agent cache (30 s); nodes and edges of each trace in Redis; background tasks | `/invoke`, `/tool/execute`, `/memory/write`, `/memory/query`, `_run_sentinel_async` | a call is analysed only with its provenance on record; the token that triggered an incident is shut out; a search finds nothing that an incident has blamed |
| Causal analyzer (`sentinel/causal_analyzer.py`) | adjacency cache of each trace (60 s) | both walks, patient zero by Gemini or by rule | candidates lie upstream of the trigger; the quarantine set holds what is downstream of patient zero |
| Quarantine manager (`qm`) | rows of four tables; deny-list; telemetry stream | `execute_quarantine`, `rollback_quarantine` | a quarantine takes effect whole and holds; a rollback restores (it never does: section 6) |
| Memory bank (`memory/`) | `agent_memory_bank` rows | insert, similarity search, excise | an excised memory is not found; no unrelated memory is excised |
| Telemetry (`api/websocket.py`) | stream position, list of connections | consume, broadcast, connect, disconnect | clients are told of what happened, in order and once; the consumer outlives errors and nothing else |
| REST router (`api/router.py`) | none | rollback endpoint; reads | each request is one transaction |
| Startup (`main.py`) | registry rows; the consumer task | seed, start, stop | a restart changes no row that is there; a shutdown ends |
| Schema (`database/`) | tables and their foreign keys | - | - |
| Agents, MCP server, embeddings, tracing, settings | none that anything depends on | - | - |

### How they interact

An agent's request carries a token; `get_current_agent` verifies it (signature and expiry, then the awaited deny-list
lookup). `/invoke` then looks the agent up in the registry, `/tool/execute` does not. `_execute_tool_call` runs the armor,
then the tool, then records node and edge in Redis, and only then schedules `_run_sentinel_async` and answers. The Sentinel
scores the call; if it is malicious it records the node again, walks the DAG upstream through the adjacency cache, chooses
patient zero, walks downstream through the *same* cache, and opens a database transaction in which `execute_quarantine`
deactivates the agent, revokes the token (Redis), excises memories and provenance rows, inserts the incident and publishes an
event (Redis). The router opens a transaction of its own for `rollback_quarantine`. Agents search the memory bank beside all
this. One background task reads the events and sends them to every WebSocket connection; it is started and cancelled by
`main.py`. Shared state: the four tables, the deny-list, the DAG, the adjacency cache, the agent cache, the stream, the list
of connections.

**Rows read through a Core connection.** Every module passes `select(Model)` to an `AsyncConnection`. Such a statement yields
the *columns* of the model: `scalar_one_or_none()` and `scalars()` give the first of them, never an object with attributes. In three places
the code goes on with that scalar as if it were the object, and the modules model what happens then:

* `/invoke` takes the `agent_id` for the agent (`gateway.py:405`), caches it, and raises at `.is_active` (`gateway.py:409`);
* `rollback_quarantine` takes the `incident_id` for the incident (`qm:234`) and raises at `.status` (`qm:238`);
* `semantic_search` takes each `memory_id` for a memory (`memory_bank.py:105`) and raises at the first (`memory_bank.py:111`).

### What is hard here

* Any number of Sentinel tasks and requests interleave at every `await` in one event loop, and their transactions
  interleave statement by statement in PostgreSQL.
* State is read before an `await` and used after it: the decoded token, edges, registry rows.
* Redis acts inside database transactions but is not part of them; each may fail without the other, and each may
  have done what it reports as failed.
* The adjacency cache outlives the facts it holds, and is used for two directions of one relation.
* A list of connections is iterated with an `await` in the loop's body, while other coroutines change it.
* Amounts have two names and two units.

`PROJECT.json` lists the hazards with their lines and the properties that cover them; those without a property say why.

## 2. The modules

| Module | Models | Composes or refines |
|---|---|---|
| `ToolSafety` | armor, tool dispatch, recording and Sentinel scoring of one call | - |
| `TokensAbs` | the promise: a token's key outlives it, and a verification ends with a look for the key | - |
| `Auth` | tokens, deny-list, verification in two steps, on a clock | implements `TokensAbs` |
| `QuarantineAbs` | the promise: a quarantine in one step | - |
| `Quarantine` | the transactions of `execute_quarantine`, row by row; `rollback_quarantine` | implements `QuarantineAbs` |
| `Causal` | DAG recording, both walks, adjacency cache, Sentinel tasks | - |
| `Containment` | from the analysis to what a memory search finds | composes `Causal` (EXTENDS) with `QuarantineAbs` (INSTANCE) and the searches |
| `Registry` | admission to the gateway: registry row, agent cache, tokens, both endpoints | keeps to `TokensAbs`; sees `Quarantine` from one agent's side |
| `Telemetry` | the stream's consumer, its broadcasts, connections, start and stop of the process | receives what `Quarantine` broadcasts |
| `ToolSafetyProofs`, `AuthProofs`, `QuarantineProofs`, `CausalProofs`, `ContainmentProofs`, `RegistryProofs`, `TelemetryProofs` | theorems | extend the module they are about (`ContainmentProofs` also `CausalProofs`) |
| `MCToolSafety`, `MCAuth`, `MCQuarantine`, `MCCausal`, `MCContainment`, `MCRegistry` | the instances TLC checks | extend the module they check |

The modules meet where the code passes a value on: a call that `ToolSafety` brings to stage `"scored"` is one that
`Causal` may `Flag` or find `Benign`, and one that ends `"lost"` there is `"lost"` here; a task that ends as `"handedOver"` in `Causal`,
with its `zero` and `spans`, is a `StartQuarantine(t, a, zero, spans)` of `Quarantine` (a walk always visits its own start, which is that
action's guard `z \in D`), and `Containment` takes the step from one to the other, with the quarantine as the one step that `Quarantine` is
shown to implement; a `Broadcast` of `Quarantine` is a `Publish` of `Telemetry`; `RevokeToken` of `Quarantine` and of `Registry` is `RevokeJwt`
of `Auth`; `Deactivate`, `RevokeToken` and `Commit` of `Registry` are the steps of `Quarantine` that concern the agent; `admitted` in
`Registry` is the stage `"received"` of `ToolSafety`. Each module admits more at its boundary than its neighbour
delivers: `Quarantine` lets any set with its patient zero be quarantined for any agent, which is also what the flaws
of the cached walks (section 6) require.

### Faulty variants

Some definitions are preceded by an operator commented "Faulty variant". They are not part of any specification. Each is
the next definition with a plausible bug, and the property named for it in `PROJECT.json` is violated when the variant
takes its place: they document that each property can fail.

### ToolSafety: one call

`call` is the request, `stage` how far `_execute_tool_call` and the Sentinel are, `answer` the HTTP status.
`ModelArmor`, `CallTool` and `ScoreCall` are the three decisions, `RecordCall` the recording between the last two: when Redis fails there,
the tool has run, the caller gets a 500 and nothing is ever scored (`"lost"`). The arguments are abstracted to what the rules
test: an amount (under each of its two names) is absent, null, text or a number; the regular expressions are Booleans, of which every
combination is possible since the armor and the scoring read different argument values. `Beneficiaries` are the classes that the code
tells apart, the falsy ones and those without a hash among them: a non-empty list makes the armor raise (it is looked up in a set), an empty
one passes it and makes the memo of the scoring raise, so that the call ends `"unscored"`. `ResolvedCents` and `ScoredAmount`
show how differently the tool and the scoring read the same amounts. Scores are in hundredths.

### Auth: tokens in time

`now` is a clock in ticks; claims are rounded down to seconds (`int(time.time())`), deny-list keys are timed from the
moment they are written. `Decode` is `verify_jwt` up to its await, `CheckDenyList` the rest. `issue_jwt` does not
look at the registry, so neither does `IssueJwt`. External: PyJWT's check of `exp`, Redis `setex`/`exists`.

`TokensAbs` is what is left when the clock is taken away: a token is unissued, live or expired (`Life`), its key may go only once it
has expired, and a request takes what it decoded to the deny-list. That is all that another part of the system relies on. A token may
be issued already expired, when it lives for less than a second; `LifeAssumption` (a token lives for at least the second that `exp` is
rounded to, 300 in the code) excludes that.

### Quarantine: transactions row by row

A task `t` is one `engine.begin()` block of `_run_sentinel_async`. Its `pc` names where it is:

| pc | Next action | Code |
|---|---|---|
| idle | `StartQuarantine` | the Sentinel's call (`gateway.py:235`) |
| deactivate | `Deactivate` | UPDATE `agent_registry` |
| revoke | `RevokeToken`, `RevokeFails` | `revoke_jwt` (`qm:148`), in no `try`: its failure ends the task and the transaction |
| excise | `Excise` | UPDATE `agent_memory_bank` is sent |
| excising | `ExciseRow`; then `Mark` | it visits a row; UPDATE `provenance_nodes` is sent |
| marking | `MarkRow`; then `RecordIncident` | it visits a row; INSERT INTO `security_incidents` |
| broadcast | `Broadcast` | `xadd`, whose failure is swallowed |
| commit | `CommitQuarantine` | the end of the block |
| done, failed | - | the block has ended without or with an exception |

`Abort` stands for a failing statement, a failing commit, a lost connection and a crash of the process: PostgreSQL
keeps nothing, Redis keeps what it has. A COMMIT that was applied may report an error all the same, when its reply is lost:
then `CommitQuarantine` ends in `failed`, with everything written. External (modelled from how `src/` uses it): PostgreSQL at READ COMMITTED. An
UPDATE finds the committed rows that match its WHERE clause when it is sent (`Find`: they become `task[t].todo`) and visits them one after
the other in any order (`VisitMemory`, `VisitNode`). A visit waits for the open transaction that has locked the row and locks it until the
task ends (`task[t].mem`, `task[t].nodes`); PostgreSQL then looks at the WHERE clause again, and changes the row if it still holds. Nobody
else changes a locked row, so that this second look is made at the commit, where the changes come to be seen (`Written`). Rows that come
to match after the statement was sent are neither seen nor locked. Transactions about different agents visit common rows in different
orders and may wait for each other in a circle (`Deadlock`); PostgreSQL finds that out and ends one of them (`Victim`, which is an `Abort`). A
quarantine that is ended so is lost, and nothing repeats it.

`Rollback(k, i)` is the whole of `rollback_quarantine` that is ever reached: without an incident it raises ValueError, with one
AttributeError (above), and it changes nothing. (The endpoint does not even come so far: its `request` has no annotation, so that FastAPI
takes it for a query parameter, `router.py:166`, and a string has no `app`.) The rest of the function, `qm:241-299`, is not modelled: no
execution reaches it.

Simplifications: a span has at most one memory and one provenance row; rows are there from the start
(the gateway inserts them long before the walk that finds them). `taint` "CLEAN" stands for every status but EXCISED.

### Causal: one trace

`node` and `edges` are the Redis keys `dag:nodes` and `dag:edges` of one trace, `cache` its entry in
`_TRACE_ADJACENCY_CACHE`, `call[c]` a request with the Sentinel task it schedules. What runs between two awaits is one
action: hset (`Call`), sadd (`RecordEdge`, or `LoseEdge`), the scoring (`Benign`, `Flag`), the cache lookup (`Walk`), smembers
(`ReadEdges`), building and caching the map and walking it (`InstallUp`), fetching and filtering nodes (`Fetch`),
choosing patient zero and looking into the cache again (`Choose`), the second map (`InstallDown`).
`Expire` ends an entry's minute at any time, `SentinelFails` ends a task at any await or with the process. The reply to an hset or sadd
may be lost: then it is done, and the request fails all the same.

The parent of a call is what its `X-Parent-Span-Id` header says, unchecked. Span ids are fresh UUIDs that a client learns from the
response to their call, so the header names a span of the trace that is `Known`, or none of the trace (`Strangers`). An edge is stored as
`parent:child` and split at the first colon (`Edge`): a parent with a colon in it is cut there, and what is left of it stays with the child
(`Torn`), which is then a name that nobody can send.

Gemini is external: its answer is any member of `GeminiAnswers`, as the code does not compare the answer with the
candidates. The rule-based fallback takes a closest candidate; which one of several is an accident of set order in the
code and a choice in the model. A walk is given by what its loop computes, the least set that holds its start and is closed under the map
(`Reached`). `Ingest` is the recording at the end of `memory_write`, with no parent, and that of INPUT_INGEST nodes, whose writer is not in
the repository and which may have one. (`memory_write` itself fails before it comes so far: it passes `metadata_=` to a function that
names the parameter `metadata`.)

### Containment: from the analysis to the search

`Containment` extends `Causal` with the tables of `QuarantineAbs` and one search of the memory bank; `Trace` is any step of `Causal`.
`Quarantine(c)` takes what the task of `c` has handed over, whatever it is, and records it for some agent; `taint[zero] # "NONE"` is the
incident's foreign key to the provenance row of patient zero. `Ask`, `Search` and `Leave` are `/memory/query`: the request, the SELECT
of `semantic_search` with its ACTIVE filter and its limit, and the answer. `query.found` are the rows that the database returns; if there is one
the request ends in an error (`Answered`). `query.after` is an observation that no guard reads: the incidents on record when the
search came. Which of the active memories a search finds (their distance, the optional filter by agent, the number asked for) is left open. A
source stands for a memory with its provenance row, both there from the start; a stranger may be a span of another trace and has them
too; a call has neither.

### Registry: who gets in

`registry` is the committed row of one agent, `cache` the age of its entry in `_AGENT_REGISTRY_CACHE`, `req[r]` a request,
`sentinel[t]` a Sentinel task from its verdict on. A request to `/invoke` goes through `Arrive` (decoding), `CheckDenyList`, `Lookup`,
and on a miss `Select` (the database evaluates the query) and `Fill` (the request resumes): without a row it is refused, with one the
agent's id is cached and the request ends in an error, as it does on a hit. One to `/tool/execute` goes through `Arrive`,
`CheckDenyList` and `ToolExecute`, and is admitted. A task goes through `Deactivate`, `RevokeToken`, `Commit` and, when the coroutine
resumes, `Invalidate`; it may fail before the commit, and may lose the reply to the commit, in which case the invalidation is skipped. `Restart`
empties the cache, ends requests and tasks, and seeds: `_seed_agent_registry` inserts the row of a demo agent if there is none, and touches
no other. `late` is an observation that no guard reads. A token's place in `Tokens` is used again for a new token, so that runs do not
end. Tokens and keys expire at any time, a key after its token: `Registry` keeps to `TokensAbs` (its requests, up to the deny-list, are
those of `Verification`), and `Auth` shows that the times in the code do too.

### Telemetry: the fan-out

The events of `stream:telemetry_events` are numbered; `Publish` is the `xadd` of `execute_quarantine`, the only one that is ever reached. `active` is `manager.active_connections`. A
connection is appended at its end and never comes back (another connection does), so the list is the set of its members in the order of
their numbers, and `Index` is a member's position. `consumer` is where the background task is suspended:

| pc | Suspended in | Resumes with |
|---|---|---|
| read | `xread` (`websocket.py:75`) | `Read` (up to `Count` events), `ReadFails` |
| send | one `send_json` (`websocket.py:55`), to the element at index `pos` | `Send`, `SendToClosed` |
| pause | `asyncio.sleep(1)` (`websocket.py:100`) | `Wake` |

Between two awaits nothing else runs, so `Continue` (the next element by its index in the list as it is *now*, or the removal of the dead
ones and the next event) is part of the step that resumes the task. `Connect` and `Disconnect` are the two ends of the endpoint.
`Drain`, `Shutdown`, `Stop` and `ClosePools` are the end of a process: uvicorn closes the connections, the endpoints return, `on_shutdown` cancels
the consumer, awaits it and closes the pools; `Exit` is a process that exits or dies at any point. External: uvicorn (it
accepts nothing while it shuts down, and closes a connection whose peer does not answer its pings), Redis, the clients. A send to
a connection that has been closed raises or is dropped without a word, depending on what the server knows of it: both are outcomes.

## 3. The runs

| Run | Shows | Bounds, and why they are enough |
|---|---|---|
| `tool_safety` | `SentinelSeesOnlyTheRest`, `OneRuleSuffices`, `ClampNeverActs`: what passes the armor leaves at most three rules to the Sentinel, any one of which suffices; the clamp of the score never acts | a threshold of 300 and the numbers -5, 0, 3, 4, 300, 301: below, on and above it, in cents and in dollars; every class of every other argument |
| `auth` | `DenyCoversLife`, `RevokedRefusedWhileLive`, and the refinement `TokensSpec` | 2 tokens, 2 requests; a life of 4 ticks, 2 per second; the clock runs to 9, so a token issued at any offset in a second lives, is revoked at any time, and expires |
| `quarantine` | `Contained`, `RecordedMeansRevoked`, `OneEventAhead`, `DeadlocksCrossAgents`, the refinement `AbsSpec`, and `TasksFinish` | 2 agents, 2 spans, 2 quarantines: incidents sharing the agent, a span, both or neither; a rollback of either. Every property relates at most two incidents; two transactions and two rows make a deadlock. One agent and one span have all their rows, the others may lack theirs (`MCSpec`) |
| `containment` | `OwnEdgeRecorded`, `CacheOneDirection`, `KinOnly`, `SoundWithoutCache` of the analysis; `ExcisedAreKin`, `PatientZeroNotFound` of what follows from it | 2 sources, 2 calls: chains, forks, joins of up to four spans; 1 stranger, for a parent that is none, and one torn name; two analyses share the cache; Gemini answers any span; two incidents that may share spans; searches for 1 memory, so that any active one may be found; 1 agent, since the properties are about memories |
| `registry` | `TriggerShutOut`, `IncidentKeepsInactive`, and the refinement `TokensSpec` | 2 requests and 2 Sentinel tasks at a time, any number in sequence; 2 places for tokens, given to one token after the other, so that a request with an old token meets a trigger with a new one; an entry lives 2 ticks |
| `telemetry` | `InOrderOnce`, `MissedByDepartures`, `EventsConsumed`, `ShutdownEnds` | 3 connections: one before, at and behind the iterator; 3 events, read 2 at a time: within a batch and across batches; any number of errors, shutdowns and restarts |
| `tool_safety_dollars`, `quarantine_best_effort`, `quarantine_rollback`, `causal_descendants`, `registry_invoke`, `telemetry_skip` | one disagreement each (section 6) | the smallest instance that shows it |

Each passing run also checks its module's type invariant. Model values that play the same part are symmetric where only safety
is checked (sources, calls, requests, tasks, tokens); no symmetry is used for liveness. `CHECK_DEADLOCK` is off where the
modules describe finitely many tasks that end (`Quarantine`, `ToolSafety`, `Causal` alone), and in `Auth`, whose clock has a bound
(`MaxTime`). In `Containment`, where agents search for ever, in `Registry`, where tokens are issued for ever, and in `Telemetry`, where
processes start again for ever, it is left on. What could be a deadlock of the code, transactions that wait for each
other, is `DeadlocksCrossAgents` and `TasksFinish`.

Bounds: `MaxTime` of `Auth`; `MaxClients` and `MaxEvents` of `Telemetry`; everything else is bounded by its finite constants.

### What the properties say

* `Contained`: from its commit on, and for good, the agent of an incident is inactive and every row that it covers is out of use, also a row
  that another transaction had locked when the UPDATE came to it. There is no way back in the code.
* `RecordedMeansRevoked` relates the two stores: the deny-list is not part of the transaction, yet no incident is on record
  without it. The docstring promises something else (`quarantine_best_effort`, section 6): an incident even when the revocation fails.
* `OneEventAhead` relates a third, the stream: an event is published before its commit, and stays when there is none. But of the events of
  one agent only the latest can be ahead of its commit, since the transaction holds the agent's row: the events of one agent are on the stream in the
  order in which its incidents came on record.
* `AbsSpec`: seen from the tables, every interleaving is a sequence of whole quarantines.
* `DeadlocksCrossAgents`: the rows of a set of spans have no order, so transactions over common rows may wait for each other in a circle;
  but not those about one agent, because its registry row is the first lock that each takes. The exception is an agent that has no row.
  `TasksFinish`: each transaction ends all the same.
* `OwnEdgeRecorded`: a task that analyses a call finds the call's own edge. `CacheOneDirection`: the shared map is either
  recorded edges or inverted ones, never a mixture. `KinOnly`: what is quarantined are ancestors or descendants of patient
  zero, nothing unrelated, whatever the caches did and whatever a client or Gemini named. `SoundWithoutCache`: a walk that had no cache hit
  blames only sources upstream of the call, ends without a candidate only if there is none, and has the trigger among the descendants of a
  patient zero upstream of it; it is exact although calls are recorded all the time, because edges lead only into spans that are not
  recorded yet.
* `ExcisedAreKin`: a memory is lost only to an incident it is related to, in the DAG as recorded: the flaws of the cached walks
  confuse ancestors with descendants, but never reach an unrelated document. `PatientZeroNotFound`: no search that comes after an incident
  finds a row of the source it blames, however long after. A search that is asked before the commit may (`query.after`).
* `DenyCoversLife`: the key outlives the token at any sub-second offset. `RevokedRefusedWhileLive`: a lookup made while a
  token is revoked and alive refuses it, whatever the request has seen before. `TokensSpec`, of `Auth`: the arithmetic of the two lifetimes,
  whatever the resolution of the clock, never shows. Of `Registry`: what admission counts on in tokens and keys is no more than that,
  across restarts too.
* `IncidentKeepsInactive`: once an incident of the agent is on record the agent stays inactive, through crashes, restarts and the seeding at
  each start. `TriggerShutOut`: no call that comes after an incident is admitted with the token that triggered it, on either endpoint,
  because the revocation precedes the commit; at the very end of the token's life the key may be gone between decoding and lookup.
* `InOrderOnce`: one connection never receives an event twice or late, although the list moves under the iterator and every process reads
  the stream from its beginning. `MissedByDepartures` says what the moving list costs: all open connections together miss no more events between
  their first and their last than connections have left. `EventsConsumed`: no error and no dead connection stops the consumer.
  `ShutdownEnds`: a shutdown ends, wherever the consumer is suspended.

### Fairness

`Fairness` of `Quarantine` (in `MCSpec`) is weak fairness of `Statement(t)` for each transaction and of `Victim`, nothing else: not of starts,
failures or other aborts. The event loop resumes every coroutine whose statement was answered (FIFO ready queue), PostgreSQL answers every
statement that does not wait for a lock, and its deadlock detection is on unless it is configured away. `Statement` is disabled while other
transactions hold all the rows still to be visited, and a lock once free may be taken by another task; since each task runs once, weak fairness
is enough.

`FairSpec` of `Telemetry` assumes weak fairness of what the event loop resumes: an endpoint whose connection has ended (`Disconnect`), a
send or a pause (`Send \/ SendToClosed \/ Wake`), the cancelled task (`Stop`) and the shutdown handler (`Shutdown`, `ClosePools`); and strong
fairness of `Read`: Redis may fail again and again, but not at every attempt for ever. That a send ends is not the code's doing: `websocket.py:55`
has no timeout, and a send to a peer that answers nothing ends because uvicorn closes a connection whose pings are not answered. Nothing is
assumed of clients, events, failures, exits or restarts. No other run assumes fairness.

## 4. What is proved

TLAPS proves the following for every value of the constants that satisfies the named assumptions (`LifeAssumption`, `SpansAssumption`,
`SearchAssumption`, `CacheTTLAssumption`, `TTLAssumption`, `SecondAssumption`, `TimeAssumption`, `ThresholdAssumption`,
`NumbersAssumption`, `TelemetryAssumption`). No fact is taken on trust.

| Theorem | Statement |
|---|---|
| `ToolSafetyProofs!OneRuleAlwaysSuffices`, `SentinelScoresTheRest`, `ClampIsIdle`, `PipelineTypes` | for any threshold and amounts |
| `AuthProofs!AuthTypes`, `DenyListCovers`, `RevocationImmediate` | for any lifetime, resolution, number of tokens and requests |
| `AuthProofs!ImplementsTokens`, `RegistryProofs!UsesTokens` | `Spec => TokensAbs!Spec` of both |
| `QuarantineProofs!QuarantineTypes`, `QuarantineContains`, `RecordedRevoked`, `EventsInCommitOrder` | `TypeOK`, `Contained`, `RecordedMeansRevoked`, `OneEventAhead`, for any number of transactions, agents and spans |
| `QuarantineProofs!ImplementsAbstract` | `Spec => Abs!Spec` |
| `QuarantineProofs!DeadlocksOnlyAcross` | `DeadlocksCrossAgents` |
| `CausalProofs!CausalTypes`, `EdgeBeforeAnalysis`, `CacheDirection`, `KinQuarantined`, `UncachedWalksSound` | types; own edge; one direction; only kin; exact walks, for any DAG |
| `ContainmentProofs!ContainmentTypes`, `OnlyKinExcised`, `BlamedSourceHidden` | `MeshTypeOK`, `ExcisedAreKin`, `PatientZeroNotFound` |
| `RegistryProofs!RegistryTypes`, `TriggersShutOut`, `QuarantineOutlivesProcess` | for any number of requests, tasks and tokens, and any life of an entry |
| `TelemetryProofs!TelemetryTypes`, `EventsInOrder`, `MissedBounded` | for any number of connections and events, and any size of a read |

Every invariant, every action property and every refinement that a passing run checks is proved.

**ToolSafety.** What passes the armor triggers at most three rules (`Passed`, which needs that an unlisted beneficiary stops there). The amount
rule and the policy rule never fire together (`RulesOfOneTool`), and without one of them the weights add up to 90 at most (`ScoreOfOneTool`), so
the clamp has nothing to do.

**Auth.** `DenyCoversLife` needs that `exp` of an issued token is at most the time of its issue plus TTL (rounding is downwards),
and that a key, written later, expires TTL after that; both are conjuncts of the invariant. The action property follows: a
token alive and revoked has its key. For `ImplementsTokens` two facts are added (`KeysAndRequests`: a key belongs to a revoked token, a request carries an
issued one). A tick of the clock is then an `Expire`: whatever key goes has a token that has expired (`TickExpires`), which is where the
bounds on `exp` and on the key's time meet.

**Quarantine.** `Contained` speaks of committed rows, and what a commit writes was decided statements earlier. `IInv` adds what an open
transaction knows (`TaskOK`): from `excise` on its token is on the deny-list, from `broadcast` on its agent has a row, and a row that its UPDATE is through
with (its spans, less `todo` within the statement: `MemoriesDone`, `NodesDone`) is either locked by it or out of use (`DoneOK`). A row
out of use stays so, because every commit only takes rows out of use (`Advance`), and a row that another transaction has locked is waited for, so that a
visit ends with the row locked. At the commit, then, the rows that are written are exactly those of its spans that are in use (`AtCommit`,
`WritesExactly`): the commit is one step of `QuarantineAbs`, and every other step changes no table (`ImplementsAbstract`). The last conjunct,
`AgentsApart`, is that two open transactions hold the same agent's row only if there is none. It gives `DeadlocksCrossAgents` (who still has rows
to visit holds its agent's row, so that tasks that wait for each other hold different ones) and, with `EventOK` (a task whose event is
on the stream is at its commit or has ended), `OneEventAhead`.

**Causal.** Pairs a task has read are a subset of `edges`, which only grow (`ReadsOK`); an install replaces the whole map by those pairs or by their
inverse (`InverseInverse`), hence the map is a subset of the edges or of their inverse. A call leaves the recording states only through
`RecordEdge`, or without a parent; nothing removes an edge. With the types and that a walk down has a patient zero (`ZeroChosen`) this is `IInv`. For the
walks no induction is needed: what is reached is the least closed set, so that a subset of the edges reaches no more than the edges do
(`ReachedMonotone`, which gives `KinOnly`). A new edge leads into a span that nobody has been told of, or into the torn rest of one (`GrowsAt`);
neither is `Named` as a parent, so that the edge adds nothing to what is upstream of a recorded call (`UpstreamFrozen`) and no
new way down to one (`DownstreamFrozen`). So a walk over the pairs that a task has read itself stays exact while other calls are recorded
(`JInv` = `ParentsKnown`, `CallsNoSource` and `Sound`).

**Containment.** Every behaviour of the composition is one of `Causal` with more variables (`MeshIsCausal`), so `Causal`'s theorems hold of it. A
task that has handed over its spans never changes them (`HandedOverStays`). The invariant `MInv` adds that whatever is excised is
covered by an incident on record (`ExcisedCovered`), which with `KinOnly` gives `ExcisedAreKin`; that no row that an incident covers is active
(`HeldBack`); and that a search comes after incidents that are on record (`AskedAfter`), so that it finds none of their rows.

**Registry.** `IInv` adds to the types that a request that has found the row finds it for good (`FoundOK`: no step takes a row away, so that only a
registered agent is cached), that a request that came late carries a trigger's token (`LateOK`), and `TriggersOK`: the token of a task that has revoked, and
of every trigger, is on the deny-list or expired, which stays so because a place is given to a new token only when nobody carries the old one
(`SpentStays`); hence a late request that has passed the deny-list has passed it with an expired token. `IncidentKeepsInactive` is inductive by itself: a
restart inserts a row only where there is none (`InactiveStep`). For `UsesTokens`, whoever carries a token carries an issued one (`CarriedIssued`), and
every step of a request after its deny-list lookup is a stutter of its verification (`AcceptedStays`).

**Telemetry.** The connection that is sent to, and whoever is listed behind the iterator's index, has received nothing from the event at hand
on (`NextBehind`). A removal lowers indices only (`RemovalLowers`), so nobody moves behind the iterator; a new connection goes to the end, with
nothing received; and the next event begins when every listed connection is at most at the last one (`ListedBehind`).

`MissedBounded` counts. `Owed` are the pairs of a connection and an event that it has missed or will miss: a later one has reached it, or the iterator
has passed it by. The invariant says that there are no more of them than connections that have gone. When a connection goes, indices behind it fall by one
at most (`RemovalByOne`), so the one listed connection that comes to stand at the iterator's index is the only one passed by (`IndexInjective`), which adds
one pair (`DisconnectOwes`), and one connection more has gone. All other steps add none (`OwedShrinks`, `SendOwes`): the iterator passes only whom it
has sent to, or who is not open any more.

**Only model-checked.** `TasksFinish`, `EventsConsumed` and `ShutdownEnds`: liveness is outside the proof system's reach.

## 5. What is not modelled, and why

* What `rollback_quarantine` would do with an incident (`qm:241-299`): no execution reaches it (section 2, Quarantine).
* The INSERTs of `/memory/write`: no call of it comes that far (section 2, Causal), so the rows of a memory are taken as given. Were the
  keyword corrected, the memory row would still be inserted before the provenance row that its foreign key names.
* `excise_memories` has no caller.
* Amounts that are no integers: a fraction is compared as its neighbours are; NaN, which Python's JSON parser accepts, is above no threshold and
  would pass both checks.
* Agents: HTTP clients of the gateway; the fields they keep are read by nothing, and their requests carry no token, so that the gateway
  answers 401 to each. What any client may do is in `Causal`, `Registry` and `Containment` all the same.
* Embeddings, the MCP server, tracing, configuration, the read endpoints of the router: no state the properties could depend on. (Those
  that read objects go through Core connections too, and fail as described in section 1.)
* The creation of extensions and tables at a start: idempotent statements that change no row.
* Signatures, network formats, prompts, logging; loss of the deny-list when Redis restarts, which depends on settings the
  repository leaves to the image; several backend processes (the deployment runs one; the caches are per process).

## 6. Disagreements the runs show

* `tool_safety_dollars`: the armor's threshold is in cents (`model_armor.py:53`), but it is compared with `amount`, which the
  tool takes as dollars when there is no `amount_cents`. In the run the threshold is 300, and 4 dollars, 400 cents, are transferred unflagged: any
  amount above a hundredth of the threshold and up to it is, so that up to a hundred times the threshold is moved. (The comment beside the number
  also says $100 000 where the number is $10 000 in cents.)
* `quarantine_best_effort`: "Redis operations (revocation, stream) are best-effort ... if they fail, the incident is still recorded"
  (`qm:122-123`) holds of the stream only: `revoke_jwt` is in no `try`, and its failure ends the transaction (`RevokeFails`).
* `quarantine_rollback`: "Rollback a quarantine: reactivate agent, restore memories to ACTIVE" (`qm:224`). Of an incident that exists the code
  gets the id for the incident and raises at `qm:238`, so that the agent stays inactive.
* `causal_descendants`: the downstream walk takes the map the upstream walk has just cached, and collects ancestors. In the
  usual case the quarantine does not reach the span that triggered it.
* `registry_invoke`: `/invoke` documents 200 and 403 (`gateway.py:380`). A registered agent gets neither: the code gets the agent's id
  for the agent and raises at `gateway.py:409`, on a cache hit as on a miss.
* `telemetry_skip`: "Send message to all connected clients" (`websocket.py:49`) fails when a connection at or before the iterator is removed
  during a send: the next one moves into its place and is passed over.

The modules have these behaviours too; they are visible in the actions, shape the properties above, and have no run of their own:

* a search of the memory bank that finds a row ends in an error (`Answered`, `memory_bank.py:111`);
* an event is published before its transaction commits and stays when it does not (`Broadcast`, `Abort`), although `QUARANTINE_EXECUTED` is said to
  mean "agent quarantined, memories excised" (`websocket.py:7`); `OneEventAhead` is what remains;
* a call whose recording fails has run and is never examined (`RecordCall`, `LoseEdge`), and neither is one whose `beneficiary` is an empty list or
  object (`ScoreCall`);
* a map cached before a call was recorded does not have the call's edge, so that its analysis finds no candidate, and a map cached
  downstream, after an expiry between the walks, turns the next upstream walk around. This is why `SoundWithoutCache`
  speaks of walks without a hit, and `KinOnly` of ancestors *or* descendants;
* `/tool/execute` "maps onto the same logic" as `/invoke` (`gateway.py:424`) but does not look at the registry (`ToolExecute`), and so is
  the only endpoint that a tool call comes through;
* "Agent deactivation (step 1) blocks future token issuance" (`qm:145`), but `issue_jwt` does not look at the registry (`IssueJwt`).

## 7. Plan

Done, in this order: `ToolSafety`, `Auth`, `QuarantineAbs` with `Quarantine`, `Causal`, `Registry`, `Telemetry`, `Containment`, `TokensAbs`; their theorems. What
is left, and why:

1. That the registry's history in `Registry` is one of `QuarantineAbs` seen from one agent: `Registry` keeps the triggers of incidents
   where `QuarantineAbs` keeps incidents with spans.
2. `Containment` with the statements of `Quarantine` in place of its promise: `ImplementsAbstract` makes it unnecessary for safety, and TLC's
   state space does not allow it.
3. Rollbacks, the writing of memories and the verdict of `/invoke`, when the code comes so far: then a rollback beside another
   incident over the same rows, and an entry of the agent cache from before a deactivation, are what to look at.
4. That the row-by-row transactions make progress whenever no set of them is in a `Deadlock`: it needs induction over the waiting
   tasks and ENABLED, so that it stays with `TasksFinish`.
