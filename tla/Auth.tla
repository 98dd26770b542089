-------------------------------- MODULE Auth --------------------------------
(***************************************************************************)
(* auth.py: ephemeral tokens, the deny-list in Redis, and the two-step     *)
(* verification that gateway.get_current_agent runs for every request.     *)
(*                                                                         *)
(* Time is a natural number of ticks.  The token's claims are whole        *)
(* seconds, `int(time.time())`, so they are rounded down to a multiple of  *)
(* SecondTicks; a deny-list key lives exactly TTL ticks from the moment it *)
(* is written.  The gateway and Redis are taken to count time alike.       *)
(*                                                                         *)
(* A token stands for its jti: uuid4 makes them distinct.  Signatures are  *)
(* not modelled (every token presented was issued here), and neither is    *)
(* the loss of the deny-list when Redis restarts.                          *)
(***************************************************************************)
EXTENDS Naturals

CONSTANTS
    Jtis,         \* token identifiers
    Requests,     \* requests in flight
    TTL,          \* 300 seconds, in ticks: exp_offset and the deny-list TTL
    SecondTicks,  \* ticks per second
    MaxTime       \* bound on the clock, for model checking

ASSUME TTLAssumption    == TTL \in Nat
ASSUME SecondAssumption == SecondTicks \in Nat \ {0}
ASSUME TimeAssumption   == MaxTime \in Nat

\* A token outlives the second of its issue.
ASSUME LifeAssumption == SecondTicks <= TTL

VARIABLES
    now,        \* the clock
    issued,     \* tokens handed out
    exp,        \* exp[j]: the "exp" claim of token j
    denyUntil,  \* denyUntil[j]: when the deny-list key j expires (0: no key)
    revoked,    \* tokens revoke_jwt has returned for
    req         \* req[r]: one request in get_current_agent

vars == <<now, issued, exp, denyUntil, revoked, req>>

Idle == [pc |-> "idle"]

ReqStates == {Idle} \cup [pc : {"decoded", "accepted", "refused"}, jti : Jtis]

Init ==
    /\ now = 0
    /\ issued = {}
    /\ exp = [j \in Jtis |-> 0]
    /\ denyUntil = [j \in Jtis |-> 0]
    /\ revoked = {}
    /\ req = [r \in Requests |-> Idle]

-----------------------------------------------------------------------------

Tick ==
    /\ now < MaxTime
    /\ now' = now + 1
    /\ UNCHANGED <<issued, exp, denyUntil, revoked, req>>

\* Faulty variant: the issue time is rounded up to the next second.
IssuedAtRoundedUp == now + SecondTicks - 1 - ((now + SecondTicks - 1) % SecondTicks)

\* now = int(time.time())
IssuedAt == now - (now % SecondTicks)

\* issue_jwt: nothing is written to Redis, and the registry is not asked
\* whether the agent is active.
IssueJwt(j) ==
    /\ j \notin issued
    /\ issued' = issued \cup {j}
    /\ exp' = [exp EXCEPT ![j] = IssuedAt + TTL]
    /\ UNCHANGED <<now, denyUntil, revoked, req>>

\* Faulty variant: a jti may be deny-listed that no token carries yet.
RevokeAnyJwt(j) ==
    /\ denyUntil' = [denyUntil EXCEPT ![j] = now + TTL]
    /\ revoked' = revoked \cup {j}
    /\ UNCHANGED <<now, issued, exp, req>>

\* revoke_jwt: setex(jti, 300, "revoked"); a second call starts the TTL again.
\* The only caller takes the jti from a payload that verify_jwt returned.
RevokeJwt(j) ==
    /\ j \in issued
    /\ denyUntil' = [denyUntil EXCEPT ![j] = now + TTL]
    /\ revoked' = revoked \cup {j}
    /\ UNCHANGED <<now, issued, exp, req>>

Expired(j) == exp[j] <= now

OnDenyList(j) == now < denyUntil[j]

\* verify_jwt up to its await: jwt.decode checks "exp" (the signature holds).
Decode(r, j) ==
    /\ req[r] = Idle
    /\ j \in issued
    /\ req' = [req EXCEPT ![r] =
                  [pc |-> IF Expired(j) THEN "refused" ELSE "decoded", jti |-> j]]
    /\ UNCHANGED <<now, issued, exp, denyUntil, revoked>>

\* Faulty variant: the answer of `exists` is not looked at.
CheckNothing(r) ==
    /\ req[r].pc = "decoded"
    /\ req' = [req EXCEPT ![r].pc = "accepted"]
    /\ UNCHANGED <<now, issued, exp, denyUntil, revoked>>

\* The awaited `exists(jti)`, evaluated by Redis at some later time; "exp" is
\* not looked at again.
CheckDenyList(r) ==
    /\ req[r].pc = "decoded"
    /\ req' = [req EXCEPT ![r].pc =
                  IF OnDenyList(req[r].jti) THEN "refused" ELSE "accepted"]
    /\ UNCHANGED <<now, issued, exp, denyUntil, revoked>>

\* The request leaves, the next one takes its place.
Leave(r) ==
    /\ req[r].pc \in {"accepted", "refused"}
    /\ req' = [req EXCEPT ![r] = Idle]
    /\ UNCHANGED <<now, issued, exp, denyUntil, revoked>>

Next ==
    \/ Tick
    \/ \E j \in Jtis : IssueJwt(j) \/ RevokeJwt(j)
    \/ \E r \in Requests :
          \/ \E j \in Jtis : Decode(r, j)
          \/ CheckDenyList(r)
          \/ Leave(r)

Spec == Init /\ [][Next]_vars

-----------------------------------------------------------------------------

\* Types; a token is revoked only after it was issued.
TypeOK ==
    /\ now \in Nat
    /\ issued \in SUBSET Jtis
    /\ exp \in [Jtis -> Nat]
    /\ denyUntil \in [Jtis -> Nat]
    /\ revoked \in SUBSET issued
    /\ req \in [Requests -> ReqStates]

\* "A 5-minute TTL matching the token lifetime": the deny-list entry of a
\* revoked token outlives the token, whenever in a second it was issued and
\* however soon after it was revoked.
DenyCoversLife == \A j \in revoked : ~Expired(j) => OnDenyList(j)

\* Revocation is immediate: a verification that ends while the token is both
\* revoked and unexpired refuses it, even one that began before the revocation.
RevokedRefusedWhileLive ==
    [][\A r \in Requests :
          (req[r].pc = "decoded" /\ req'[r].pc = "accepted")
              => (req[r].jti \notin revoked \/ Expired(req[r].jti))]_vars

Life(j) == IF j \notin issued THEN "unissued"
           ELSE IF Expired(j) THEN "expired" ELSE "live"

\* Seen without the clock, tokens, keys and verifications are those of
\* TokensAbs: the arithmetic of the two lifetimes never lets a key go before
\* its token.
Abs == INSTANCE TokensAbs WITH
    life <- [j \in Jtis |-> Life(j)],
    denied <- {j \in Jtis : OnDenyList(j)}
TokensSpec == Abs!Spec
=============================================================================
