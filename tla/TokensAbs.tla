----------------------------- MODULE TokensAbs -----------------------------
(***************************************************************************)
(* What the token authority promises, without a clock: a token lives until *)
(* it expires; its deny-list key, once set, is there for the rest of that  *)
(* life; and a verification looks for the key at its end, so that what     *)
(* counts is the state of the deny-list then.                              *)
(*                                                                         *)
(* Auth implements this with times, Registry builds on it.                 *)
(***************************************************************************)
CONSTANTS Jtis, Requests

VARIABLES
    life,    \* life[j]: "unissued", "live" or "expired"
    denied,  \* the tokens whose deny-list key exists
    req      \* req[r]: one request in get_current_agent

vars == <<life, denied, req>>

Idle == [pc |-> "idle"]

Init ==
    /\ life = [j \in Jtis |-> "unissued"]
    /\ denied = {}
    /\ req = [r \in Requests |-> Idle]

\* A place in Jtis may be used again for a new token, when nothing is left of
\* the old one.
Issue(j) ==
    /\ life[j] # "live"
    /\ j \notin denied
    /\ \A r \in Requests : req[r] # Idle => req[r].jti # j
    /\ life' = [life EXCEPT ![j] = "live"]
    /\ UNCHANGED <<denied, req>>

Revoke(j) ==
    /\ life[j] # "unissued"
    /\ denied' = denied \cup {j}
    /\ UNCHANGED <<life, req>>

\* Time passes: tokens expire, and so do keys, each after its token.
Expire ==
    \E T \in SUBSET Jtis, K \in SUBSET denied :
        /\ \A j \in T : life[j] = "live"
        /\ life' = [j \in Jtis |-> IF j \in T THEN "expired" ELSE life[j]]
        /\ \A j \in K : life'[j] = "expired"
        /\ denied' = denied \ K
        /\ UNCHANGED req

Decode(r, j) ==
    /\ req[r] = Idle
    /\ life[j] # "unissued"
    /\ req' = [req EXCEPT ![r] =
                  [pc |-> IF life[j] = "live" THEN "decoded" ELSE "refused",
                   jti |-> j]]
    /\ UNCHANGED <<life, denied>>

CheckDenyList(r) ==
    /\ req[r].pc = "decoded"
    /\ req' = [req EXCEPT ![r].pc =
                  IF req[r].jti \in denied THEN "refused" ELSE "accepted"]
    /\ UNCHANGED <<life, denied>>

\* Requests end, one by one or with the process.
Leave(R) ==
    /\ req' = [r \in Requests |-> IF r \in R THEN Idle ELSE req[r]]
    /\ UNCHANGED <<life, denied>>

Next ==
    \/ \E j \in Jtis : Issue(j) \/ Revoke(j)
    \/ Expire
    \/ \E r \in Requests :
          CheckDenyList(r) \/ \E j \in Jtis : Decode(r, j)
    \/ \E R \in SUBSET Requests : Leave(R)

Spec == Init /\ [][Next]_vars
=============================================================================
