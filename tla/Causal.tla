------------------------------- MODULE Causal -------------------------------
(***************************************************************************)
(* From a tool call to the set of spans that is quarantined for it, within *)
(* one trace: the provenance DAG the gateway records in Redis, and the     *)
(* causal analysis of the Sentinel tasks, which run beside each other and  *)
(* beside the recording of further calls (gateway.py, causal_analyzer.py,  *)
(* _collect_descendant_spans of quarantine_manager.py).                    *)
(*                                                                         *)
(* Every await of Redis or Gemini is a boundary between actions; what a    *)
(* coroutine does between two awaits is one action.  The traces share      *)
(* nothing, so one is enough.  The adjacency cache is a module variable of *)
(* the one backend process.                                                *)
(*                                                                         *)
(* A candidate node is an INPUT_INGEST or a MEMORY_WRITE node; the code    *)
(* treats both alike and here both are "INPUT_INGEST".  A node's payload,  *)
(* its scores and the copy of its parent in the JSON, which nothing reads, *)
(* are left out.                                                           *)
(*                                                                         *)
(* The parent of a call is what the client's X-Parent-Span-Id header says, *)
(* unchecked.  Ids of spans are fresh UUIDs, so the header names a span of *)
(* the trace that the client has been told of, or no span of the trace at  *)
(* all.                                                                    *)
(***************************************************************************)
EXTENDS Naturals, FiniteSets

CONSTANTS
    Sources,        \* spans of ingested documents and memory writes
    Calls,          \* spans of tool calls, each with its Sentinel task
    Strangers,      \* names that are no span of this trace
    Torn,           \* what the split at ':' leaves of a child, see Edge
    GeminiAnswers,  \* what Gemini may answer; {} when no API key is set
    NoSpan

Spans == Sources \cup Calls
Names == Spans \cup Strangers \cup {Torn}

ASSUME SpansAssumption ==
    /\ Sources \cap Calls = {}
    /\ Spans \cap Strangers = {}
    /\ Torn \notin Spans \cup Strangers
    /\ NoSpan \notin Names
    /\ GeminiAnswers \subseteq Names

VARIABLES
    node,   \* node[s]: type of the entry of s in dag:nodes, or "NONE"
    edges,  \* dag:edges: pairs <<parent, child>>
    cache,  \* the trace's entry of _TRACE_ADJACENCY_CACHE
    call    \* call[c]: the request and the Sentinel task of c

vars == <<node, edges, cache, call>>

\* Recording, then the Sentinel, then how it ended.
Recording == {"idle", "edge", "lost"}
Analysing == {"scheduled", "walk", "upEdges", "upInstall", "fetch", "choose",
              "downEdges", "downInstall"}
Ended     == {"benign", "none", "handedOver", "gone"}

Pairs == Names \X Names

\* `edge` holds the edge of the call, or nothing, `pairs` is what smembers answered, `map`
\* the map that is walked, `near` the candidates the rule-based fallback may take,
\* `origin` where the map of the present walk came from.
CallType == [pc : Recording \cup Analysing \cup Ended,
             edge : SUBSET Pairs, pairs : SUBSET Pairs,
             map : SUBSET Pairs, near : SUBSET Names,
             zero : Names \cup {NoSpan}, spans : SUBSET Names,
             origin : {"redis", "cache"}]

NotCalled == [pc |-> "idle", edge |-> {}, pairs |-> {}, map |-> {},
              near |-> {}, zero |-> NoSpan, spans |-> {}, origin |-> "redis"]

Init ==
    /\ node = [s \in Names |-> "NONE"]
    /\ edges = {}
    /\ cache = [map |-> {}, fresh |-> FALSE]
    /\ call = [c \in Calls |-> NotCalled]

-----------------------------------------------------------------------------
(* Walks.                                                                  *)

Inverse(R) == {<<e[2], e[1]>> : e \in R}

\* A walk is over when the spans it has visited lead nowhere else.
Closed(map, C) == \A e \in map : e[1] \in C => e[2] \in C

\* The visited set of a walk along the map from s: what the map leads to and no
\* walk from s can leave out.
Reached(map, s) ==
    LET Heads == {e[2] : e \in map} IN
    {s} \cup {x \in Heads : \A C \in SUBSET Heads : Closed(map, C \cup {s}) => x \in C}

\* Within(map, s)[n]: the spans at most n steps of the map from s.
Within(map, s) ==
    LET W[n \in 0 .. Cardinality(Names)] ==
            IF n = 0 THEN {s}
            ELSE LET V == W[n-1]
                 IN  V \cup {x \in Names : \E y \in V : <<y, x>> \in map}
    IN  W

\* Breadth-first order: the first of the candidates C is one of the closest.
Nearest(map, s, C) ==
    LET W == Within(map, s)
    IN  {x \in C : \A n \in 0 .. Cardinality(Names) :
                      W[n] \cap C # {} => x \in W[n]}

-----------------------------------------------------------------------------
(* Recording.                                                              *)

\* Agents learn the id of a call's span from the response to it.
Known == {s \in Sources : node[s] # "NONE"}
            \cup {c \in Calls : call[c].pc \notin Recording}

\* The pair that smembers and split(":", 1) give back of the edge that goes into c:
\* none without a parent, <<parent, c>> with one; a parent with a ':' in it is cut
\* there, and the rest of it stays with the child, which then is nothing that
\* anybody can name as a parent.
Edge(c) == {{}} \cup {{<<p, x>>} : p \in Known \cup Strangers, x \in {c, Torn}}

\* The recording of a source.  memory_write would record a MEMORY_WRITE node, with
\* no parent; who records INPUT_INGEST nodes is not in the repository, and they
\* may have one.
Ingest(s, p) ==
    /\ node[s] = "NONE"
    /\ p \in Known \cup {NoSpan}
    /\ node' = [node EXCEPT ![s] = "INPUT_INGEST"]
    /\ edges' = edges \cup IF p = NoSpan THEN {} ELSE {<<p, s>>}
    /\ UNCHANGED <<cache, call>>

\* Faulty variant: the Sentinel is scheduled before the edge is recorded.
CallScheduledFirst(c, E) ==
    /\ call[c].pc = "idle"
    /\ node' = [node EXCEPT ![c] = "TOOL_CALL"]
    /\ call' = [call EXCEPT ![c].pc = "scheduled", ![c].edge = E]
    /\ UNCHANGED <<edges, cache>>

\* Faulty variant: an absent parent is recorded as an empty one.
CallWithEmptyParent(c, E) ==
    /\ call[c].pc = "idle"
    /\ node' = [node EXCEPT ![c] = "TOOL_CALL"]
    /\ call' = [call EXCEPT ![c].pc = "edge",
                            ![c].edge = IF E = {} THEN {<<NoSpan, c>>} ELSE E]
    /\ UNCHANGED <<edges, cache>>

\* A call that passed the armor and was executed: hset of its node, whose reply
\* may be lost; without a parent the Sentinel is scheduled at once.
Call(c, E) ==
    /\ call[c].pc = "idle"
    /\ node' = [node EXCEPT ![c] = "TOOL_CALL"]
    /\ \E pc \in {IF E = {} THEN "scheduled" ELSE "edge", "lost"} :
          call' = [call EXCEPT ![c].pc = pc, ![c].edge = E]
    /\ UNCHANGED <<edges, cache>>

\* sadd of its edge; then the Sentinel is scheduled and the response sent.
RecordEdge(c) ==
    /\ call[c].pc = "edge"
    /\ edges' = edges \cup call[c].edge
    /\ call' = [call EXCEPT ![c].pc = "scheduled"]
    /\ UNCHANGED <<node, cache>>

\* Redis does not answer, and may have done the sadd or not: the request fails and
\* no Sentinel is scheduled.
LoseEdge(c) ==
    /\ call[c].pc = "edge"
    /\ edges' \in {edges, edges \cup call[c].edge}
    /\ call' = [call EXCEPT ![c].pc = "lost"]
    /\ UNCHANGED <<node, cache>>

-----------------------------------------------------------------------------
(* The Sentinel.                                                           *)

\* score_anomaly finds nothing.
Benign(c) ==
    /\ call[c].pc = "scheduled"
    /\ call' = [call EXCEPT ![c].pc = "benign"]
    /\ UNCHANGED <<node, edges, cache>>

\* The node is recorded again as suspicious, without parent: no edge is added.
Flag(c) ==
    /\ call[c].pc = "scheduled"
    /\ node' = [node EXCEPT ![c] = "TOOL_CALL"]
    /\ call' = [call EXCEPT ![c].pc = "walk"]
    /\ UNCHANGED <<edges, cache>>

\* An empty cached map is no hit: `if not parents_of`.
CacheHit == cache.fresh /\ cache.map # {}

\* _collect_upstream_nodes looks into the cache.
Walk(c) ==
    /\ call[c].pc = "walk"
    /\ call' = IF CacheHit
               THEN [call EXCEPT ![c].pc = "fetch", ![c].map = cache.map,
                                 ![c].origin = "cache"]
               ELSE [call EXCEPT ![c].pc = "upEdges"]
    /\ UNCHANGED <<node, edges, cache>>

\* smembers, of either walk.
ReadEdges(c) ==
    /\ \/ call[c].pc = "upEdges"
          /\ call' = [call EXCEPT ![c].pc = "upInstall", ![c].pairs = edges]
       \/ call[c].pc = "downEdges"
          /\ call' = [call EXCEPT ![c].pc = "downInstall", ![c].pairs = edges]
    /\ UNCHANGED <<node, edges, cache>>

\* Faulty variant: a map that another task has installed meanwhile is kept and
\* used, as setdefault would.
InstallUpIfMissing(c) ==
    LET parents_of == IF CacheHit THEN cache.map ELSE Inverse(call[c].pairs) IN
    /\ call[c].pc = "upInstall"
    /\ cache' = [map |-> parents_of, fresh |-> TRUE]
    /\ call' = [call EXCEPT ![c].pc = "fetch", ![c].pairs = {},
                            ![c].map = parents_of]
    /\ UNCHANGED <<node, edges>>

\* _build_adjacency_map: the map from child to parents, cached for a minute.
InstallUp(c) ==
    LET parents_of == Inverse(call[c].pairs) IN
    /\ call[c].pc = "upInstall"
    /\ cache' = [map |-> parents_of, fresh |-> TRUE]
    /\ call' = [call EXCEPT ![c].pc = "fetch", ![c].pairs = {},
                            ![c].map = parents_of]
    /\ UNCHANGED <<node, edges>>

\* The nodes of all spans the walk visits are fetched and filtered; none left
\* is the end of the task.
Fetch(c) ==
    LET candidates == {s \in Reached(call[c].map, c) : node[s] = "INPUT_INGEST"} IN
    /\ call[c].pc = "fetch"
    /\ call' = IF candidates = {}
               THEN [call EXCEPT ![c].pc = "none", ![c].map = {}]
               ELSE [call EXCEPT ![c].pc = "choose", ![c].map = {},
                                 ![c].near = Nearest(call[c].map, c, candidates)]
    /\ UNCHANGED <<node, edges, cache>>

\* Patient zero is what Gemini answers with enough confidence, whatever that
\* is, or else the closest candidate.  _collect_descendant_spans then takes
\* the same cache entry for a map from parent to children.
Choose(c, z) ==
    /\ call[c].pc = "choose"
    /\ z \in call[c].near \cup GeminiAnswers
    /\ call' = IF CacheHit
               THEN [call EXCEPT ![c].pc = "handedOver", ![c].near = {},
                                 ![c].zero = z, ![c].spans = Reached(cache.map, z),
                                 ![c].origin = "cache"]
               ELSE [call EXCEPT ![c].pc = "downEdges", ![c].near = {},
                                 ![c].zero = z, ![c].origin = "redis"]
    /\ UNCHANGED <<node, edges, cache>>

\* Faulty variant: the new pairs are added to the map that is in the cache.
InstallDownIntoMap(c) ==
    LET children_of == call[c].pairs \cup cache.map IN
    /\ call[c].pc = "downInstall"
    /\ cache' = [map |-> children_of, fresh |-> TRUE]
    /\ call' = [call EXCEPT ![c].pc = "handedOver", ![c].pairs = {},
                            ![c].spans = Reached(children_of, call[c].zero)]
    /\ UNCHANGED <<node, edges>>

\* The map from parent to children, put into the same cache.
InstallDown(c) ==
    LET children_of == call[c].pairs IN
    /\ call[c].pc = "downInstall"
    /\ cache' = [map |-> children_of, fresh |-> TRUE]
    /\ call' = [call EXCEPT ![c].pc = "handedOver", ![c].pairs = {},
                            ![c].spans = Reached(children_of, call[c].zero)]
    /\ UNCHANGED <<node, edges>>

\* Redis fails, or the process restarts: the task ends without a word.
SentinelFails(c) ==
    /\ call[c].pc \in Analysing
    /\ call' = [call EXCEPT ![c] = [NotCalled EXCEPT !.pc = "gone",
                                                     !.edge = call[c].edge]]
    /\ UNCHANGED <<node, edges, cache>>

\* _ADJACENCY_TTL_SECONDS have passed: nothing reads the old map any more.
Expire ==
    /\ cache.fresh
    /\ cache' = [map |-> {}, fresh |-> FALSE]
    /\ UNCHANGED <<node, edges, call>>

-----------------------------------------------------------------------------

Next ==
    \/ \E s \in Sources, p \in Spans \cup {NoSpan} : Ingest(s, p)
    \/ \E c \in Calls :
          \/ \E E \in Edge(c) : Call(c, E)
          \/ RecordEdge(c) \/ LoseEdge(c)
          \/ Benign(c) \/ Flag(c) \/ Walk(c)
          \/ ReadEdges(c) \/ InstallUp(c) \/ Fetch(c)
          \/ \E z \in Names : Choose(c, z)
          \/ InstallDown(c) \/ SentinelFails(c)
    \/ Expire

Spec == Init /\ [][Next]_vars

-----------------------------------------------------------------------------

\* Types.  In particular an edge is a pair of names: no parent, no edge.
TypeOK ==
    /\ node \in [Names -> {"NONE", "INPUT_INGEST", "TOOL_CALL"}]
    /\ edges \in SUBSET Pairs
    /\ cache \in [map : SUBSET Pairs, fresh : BOOLEAN]
    /\ call \in [Calls -> CallType]

\* A call is analysed only when its own edge, if it has one, is in the DAG.
OwnEdgeRecorded ==
    \A c \in Calls :
        call[c].pc \in Analysing => call[c].edge \subseteq edges

\* Whatever the tasks that share the cache do, and however old it is, the map
\* in it has one direction and holds only edges of the trace.
CacheOneDirection == cache.map \subseteq edges \/ Inverse(cache.map) \subseteq edges

\* What is quarantined with patient zero is its kin, ancestors or descendants:
\* never a span that only shares an ancestor or a descendant with it.
KinOnly ==
    \A c \in Calls : call[c].pc = "handedOver" =>
        /\ call[c].zero \in call[c].spans
        /\ call[c].spans \subseteq Reached(edges, call[c].zero)
                                      \cup Reached(Inverse(edges), call[c].zero)

Upstream(c) == {s \in Reached(Inverse(edges), c) : node[s] = "INPUT_INGEST"}

\* A walk that reads the edges itself is exact, although calls are recorded
\* all the time: it blames only what is upstream of the call and ends with
\* "none" only when nothing upstream is a source; and it finds the trigger
\* among the descendants of an upstream patient zero.
SoundWithoutCache ==
    \A c \in Calls :
        /\ call[c].pc = "choose" /\ call[c].origin = "redis" =>
              call[c].near \subseteq Upstream(c)
        /\ call[c].pc = "none" /\ call[c].origin = "redis" => Upstream(c) = {}
        /\ call[c].pc = "handedOver" /\ call[c].origin = "redis" =>
              (c \in Reached(edges, call[c].zero) => c \in call[c].spans)

-----------------------------------------------------------------------------
(* What the source says of itself and the code does not do.                *)

\* "Return the set of all span_ids reachable from patient_zero (inclusive)":
\* a trigger that is reachable from patient zero is in the set.
DescendantsReachable ==
    \A c \in Calls : call[c].pc = "handedOver" =>
        (c \in Reached(edges, call[c].zero) => c \in call[c].spans)
=============================================================================
