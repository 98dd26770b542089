----------------------------- MODULE AuthProofs -----------------------------
(***************************************************************************)
(* The deny-list covers every revoked token for the rest of its life, for  *)
(* every lifetime, every length of a second and any number of tokens and   *)
(* requests.                                                               *)
(***************************************************************************)
EXTENDS Auth, TLAPS

\* A claim is never further ahead than a full lifetime, and a deny-list entry
\* never ends before the claim.  The first conjunct is what a revocation needs
\* to establish the second.
EntryOutlivesToken ==
    /\ \A j \in issued : exp[j] <= now + TTL
    /\ \A j \in revoked : exp[j] <= denyUntil[j]

IInv == TypeOK /\ EntryOutlivesToken

LEMMA IssuedAtBound ==
    ASSUME now \in Nat
    PROVE  IssuedAt \in Nat /\ IssuedAt <= now
BY SecondAssumption DEF IssuedAt

LEMMA InitIInv == Init => IInv
BY DEF Init, IInv, TypeOK, EntryOutlivesToken, ReqStates, Idle

LEMMA NextIInv == IInv /\ [Next]_vars => IInv'
<1> SUFFICES ASSUME IInv, [Next]_vars
             PROVE  IInv'
  OBVIOUS
<1> USE TTLAssumption DEF IInv, TypeOK, EntryOutlivesToken
<1>1. CASE Tick
  BY <1>1 DEF Tick
<1>2. ASSUME NEW j \in Jtis, IssueJwt(j)
      PROVE  IInv'
  BY <1>2, IssuedAtBound DEF IssueJwt
<1>3. ASSUME NEW j \in Jtis, RevokeJwt(j)
      PROVE  IInv'
  BY <1>3 DEF RevokeJwt
<1>4. ASSUME NEW r \in Requests, NEW j \in Jtis, Decode(r, j)
      PROVE  IInv'
  <2>1. req' \in [Requests -> ReqStates]
    BY <1>4 DEF Decode, ReqStates
  <2> QED
    BY <1>4, <2>1 DEF Decode
<1>5. ASSUME NEW r \in Requests, CheckDenyList(r)
      PROVE  IInv'
  <2>1. req[r] # Idle
    BY <1>5 DEF CheckDenyList, Idle
  <2>2. req' \in [Requests -> ReqStates]
    BY <1>5, <2>1 DEF CheckDenyList, ReqStates
  <2> QED
    BY <1>5, <2>2 DEF CheckDenyList
<1>6. ASSUME NEW r \in Requests, Leave(r)
      PROVE  IInv'
  BY <1>6 DEF Leave, ReqStates
<1>7. CASE UNCHANGED vars
  BY <1>7 DEF vars
<1> QED
  BY <1>1, <1>2, <1>3, <1>4, <1>5, <1>6, <1>7 DEF Next

\* The invariant holds of every behaviour.
LEMMA IInvariant == Spec => []IInv
BY InitIInv, NextIInv, PTL DEF Spec

\* Every state of auth.py has its types, and only issued tokens are revoked.
THEOREM AuthTypes == Spec => []TypeOK
<1>1. IInv => TypeOK
  BY DEF IInv
<1> QED
  BY <1>1, IInvariant, PTL

\* The deny-list entry of a revoked token outlives the token.
THEOREM DenyListCovers == Spec => []DenyCoversLife
<1>1. IInv => DenyCoversLife
  BY DEF IInv, TypeOK, EntryOutlivesToken, DenyCoversLife, Expired, OnDenyList
<1> QED
  BY <1>1, IInvariant, PTL

\* No verification accepts a token that is revoked and has not expired, even
\* when it decoded the token before the revocation.
THEOREM RevocationImmediate == Spec => RevokedRefusedWhileLive
<1> DEFINE Refused == \A r \in Requests :
                         (req[r].pc = "decoded" /\ req'[r].pc = "accepted")
                            => (req[r].jti \notin revoked \/ Expired(req[r].jti))
<1>1. IInv /\ [Next]_vars => [Refused]_vars
  <2> SUFFICES ASSUME IInv, Next, NEW r \in Requests,
                      req[r].pc = "decoded", req'[r].pc = "accepted",
                      req[r].jti \in revoked
               PROVE  Expired(req[r].jti)
    OBVIOUS
  <2> USE DEF IInv, TypeOK
  <2>1. CASE Tick \/ \E j \in Jtis : IssueJwt(j) \/ RevokeJwt(j)
    BY <2>1 DEF Tick, IssueJwt, RevokeJwt
  <2>2. ASSUME NEW q \in Requests, NEW j \in Jtis, Decode(q, j)
        PROVE  Expired(req[r].jti)
    BY <2>2 DEF Decode, Idle
  <2>3. ASSUME NEW q \in Requests, CheckDenyList(q)
        PROVE  Expired(req[r].jti)
    <3>1. CASE q # r
      BY <2>3, <3>1 DEF CheckDenyList
    <3>2. CASE q = r
      <4>1. ~OnDenyList(req[r].jti)
        BY <2>3, <3>2 DEF CheckDenyList
      <4>2. DenyCoversLife
        BY DEF EntryOutlivesToken, DenyCoversLife, Expired, OnDenyList
      <4> QED
        BY <4>1, <4>2 DEF DenyCoversLife
    <3> QED
      BY <3>1, <3>2
  <2>4. ASSUME NEW q \in Requests, Leave(q)
        PROVE  Expired(req[r].jti)
    BY <2>4 DEF Leave, Idle
  <2> QED
    BY <2>1, <2>2, <2>3, <2>4 DEF Next
<1>2. Spec => [][Refused]_vars
  BY <1>1, IInvariant, PTL DEF Spec
<1> QED
  BY <1>2 DEF RevokedRefusedWhileLive

-----------------------------------------------------------------------------
(* Auth implements TokensAbs.                                              *)

\* A key belongs to a revoked token, a request carries an issued one.
KeysAndRequests ==
    /\ \A j \in Jtis : j \notin revoked => denyUntil[j] = 0
    /\ \A r \in Requests : req[r] # Idle => req[r].jti \in issued

LEMMA NextKeysAndRequests == IInv /\ KeysAndRequests /\ [Next]_vars => KeysAndRequests'
<1> SUFFICES ASSUME IInv, KeysAndRequests, [Next]_vars
             PROVE  KeysAndRequests'
  OBVIOUS
<1> USE DEF IInv, TypeOK, KeysAndRequests
<1>1. CASE Tick \/ \E j \in Jtis : IssueJwt(j) \/ RevokeJwt(j)
  BY <1>1 DEF Tick, IssueJwt, RevokeJwt
<1>2. ASSUME NEW r \in Requests, NEW j \in Jtis, Decode(r, j)
      PROVE  KeysAndRequests'
  BY <1>2 DEF Decode
<1>3. ASSUME NEW r \in Requests, CheckDenyList(r) \/ Leave(r)
      PROVE  KeysAndRequests'
  <2>1. req[r] # Idle
    BY <1>3 DEF CheckDenyList, Leave, Idle
  <2> QED
    BY <1>3, <2>1 DEF CheckDenyList, Leave, ReqStates, Idle
<1>4. CASE UNCHANGED vars
  BY <1>4 DEF vars
<1> QED
  BY <1>1, <1>2, <1>3, <1>4 DEF Next

LEMMA KeysInvariant == Spec => []KeysAndRequests
<1>1. Init => KeysAndRequests
  BY DEF Init, KeysAndRequests
<1> QED
  BY <1>1, IInvariant, NextKeysAndRequests, PTL DEF Spec

\* What TokensAbs sees of the tokens and the keys.
lives  == [j \in Jtis |-> Life(j)]
listed == {j \in Jtis : OnDenyList(j)}

\* The clock: tokens and keys expire, no key before its token.
LEMMA TickExpires == IInv /\ KeysAndRequests /\ Tick => Abs!Expire
<1> SUFFICES ASSUME IInv, KeysAndRequests, Tick PROVE Abs!Expire
  OBVIOUS
<1> DEFINE T == {j \in Jtis : Life(j) = "live" /\ Life(j)' = "expired"}
           K == {j \in Jtis : OnDenyList(j) /\ ~OnDenyList(j)'}
<1>1. /\ now \in Nat /\ now' = now + 1 /\ UNCHANGED <<issued, exp, denyUntil, revoked, req>>
      /\ exp \in [Jtis -> Nat] /\ denyUntil \in [Jtis -> Nat]
  BY DEF Tick, IInv, TypeOK
<1>2. lives' = [j \in Jtis |-> IF j \in T THEN "expired" ELSE lives[j]]
  <2>1. ASSUME NEW j \in Jtis PROVE Life(j)' = IF j \in T THEN "expired" ELSE Life(j)
    BY <1>1 DEF Life, Expired
  <2> QED
    BY <2>1 DEF lives
<1>3. ASSUME NEW j \in K PROVE lives'[j] = "expired"
  <2>1. denyUntil[j] # 0 /\ denyUntil[j] <= now + 1
    BY <1>1 DEF OnDenyList
  <2>2. j \in revoked /\ j \in issued /\ exp[j] <= denyUntil[j]
    BY <2>1 DEF KeysAndRequests, IInv, TypeOK, EntryOutlivesToken
  <2> QED
    BY <1>1, <2>1, <2>2 DEF lives, Life, Expired
<1>4. listed' = listed \ K
  BY <1>1 DEF listed, OnDenyList
<1>5. T \in SUBSET Jtis /\ K \in SUBSET listed /\ \A j \in T : lives[j] = "live"
  BY DEF lives, listed
<1> HIDE DEF T, K
<1> QED
  BY <1>1, <1>2, <1>3, <1>4, <1>5 DEF Abs!Expire, lives, listed

\* A new token lives: its claim is rounded down by less than its life.
LEMMA IssueIssues ==
    ASSUME IInv, KeysAndRequests, NEW j \in Jtis, IssueJwt(j) PROVE Abs!Issue(j)
<1>1. /\ now \in Nat /\ j \notin issued /\ issued' = issued \cup {j}
      /\ exp' = [exp EXCEPT ![j] = IssuedAt + TTL]
      /\ UNCHANGED <<now, denyUntil, revoked, req>>
      /\ exp \in [Jtis -> Nat] /\ denyUntil \in [Jtis -> Nat] /\ revoked \in SUBSET issued
  BY DEF IssueJwt, IInv, TypeOK
<1>2. IssuedAt \in Nat /\ ~(IssuedAt + TTL <= now)
  <2>1. now % SecondTicks \in Nat /\ now % SecondTicks < SecondTicks
    BY <1>1, SecondAssumption
  <2>2. now % SecondTicks <= now
    BY <1>1, <2>1, IssuedAtBound DEF IssuedAt
  <2> QED
    BY <1>1, <2>1, <2>2, SecondAssumption, TTLAssumption, LifeAssumption DEF IssuedAt
<1>3. lives[j] = "unissued" /\ lives' = [lives EXCEPT ![j] = "live"]
  BY <1>1, <1>2 DEF lives, Life, Expired
<1>4. j \notin listed /\ listed' = listed
  BY <1>1 DEF listed, OnDenyList, KeysAndRequests
<1>5. \A r \in Requests : req[r] # Idle => req[r].jti # j
  BY <1>1 DEF KeysAndRequests
<1> QED
  BY <1>1, <1>3, <1>4, <1>5 DEF Abs!Issue, Abs!Idle, Idle, lives, listed

LEMMA RevokeRevokes ==
    ASSUME IInv, NEW j \in Jtis, RevokeJwt(j) PROVE Abs!Revoke(j)
<1>1. /\ now \in Nat /\ j \in issued /\ denyUntil' = [denyUntil EXCEPT ![j] = now + TTL]
      /\ UNCHANGED <<now, issued, exp, req>> /\ denyUntil \in [Jtis -> Nat]
  BY DEF RevokeJwt, IInv, TypeOK
<1>2. now < now + TTL
  BY <1>1, SecondAssumption, TTLAssumption, LifeAssumption
<1>3. listed' = listed \cup {j}
  BY <1>1, <1>2 DEF listed, OnDenyList
<1>4. lives' = lives /\ lives[j] # "unissued"
  BY <1>1 DEF lives, Life, Expired
<1> QED
  BY <1>1, <1>3, <1>4 DEF Abs!Revoke, lives, listed

\* The steps of a request.
LEMMA RequestSteps ==
    ASSUME IInv, NEW r \in Requests,
           \/ \E j \in Jtis : Decode(r, j)
           \/ CheckDenyList(r) \/ Leave(r)
    PROVE  Abs!Next
<1>1. lives' = lives /\ listed' = listed
  BY DEF Decode, CheckDenyList, Leave, lives, listed, Life, Expired, OnDenyList
<1>2. ASSUME NEW j \in Jtis, Decode(r, j) PROVE Abs!Decode(r, j)
  <2>1. lives[j] # "unissued" /\ (lives[j] = "live" <=> ~Expired(j))
    BY <1>2 DEF Decode, lives, Life
  <2> QED
    BY <1>1, <1>2, <2>1 DEF Decode, Abs!Decode, Abs!Idle, Idle, lives, listed
<1>3. CASE CheckDenyList(r)
  <2>1. req[r] # Idle
    BY <1>3 DEF CheckDenyList, Idle
  <2>2. req[r].jti \in Jtis
    BY <2>1 DEF IInv, TypeOK, ReqStates
  <2>3. OnDenyList(req[r].jti) <=> req[r].jti \in listed
    BY <2>2 DEF listed
  <2>4. Abs!CheckDenyList(r)
    BY <1>1, <1>3, <2>3 DEF CheckDenyList, Abs!CheckDenyList, lives, listed
  <2> QED
    BY <2>4 DEF Abs!Next
<1>4. CASE Leave(r)
  <2>1. req' = [q \in Requests |-> IF q \in {r} THEN Idle ELSE req[q]]
    BY <1>4 DEF Leave, IInv, TypeOK
  <2>2. Abs!Leave({r})
    BY <1>1, <2>1 DEF Abs!Leave, Abs!Idle, Idle, lives, listed
  <2> QED
    BY <2>2 DEF Abs!Next
<1> QED
  BY <1>2, <1>3, <1>4 DEF Abs!Next

\* The times of auth.py keep the promise of TokensAbs.
THEOREM ImplementsTokens == Spec => TokensSpec
<1>1. Init => Abs!Init
  <2> SUFFICES ASSUME Init PROVE Abs!Init
    OBVIOUS
  <2>1. lives = [j \in Jtis |-> "unissued"] /\ listed = {}
    BY DEF Init, lives, Life, listed, OnDenyList
  <2> QED
    BY <2>1 DEF Init, Abs!Init, Abs!Idle, Idle, lives, listed
<1>2. IInv /\ KeysAndRequests /\ [Next]_vars => [Abs!Next]_(Abs!vars)
  <2> SUFFICES ASSUME IInv, KeysAndRequests, [Next]_vars PROVE [Abs!Next]_(Abs!vars)
    OBVIOUS
  <2>1. CASE Tick
    BY <2>1, TickExpires DEF Abs!Next
  <2>2. ASSUME NEW j \in Jtis, IssueJwt(j) \/ RevokeJwt(j) PROVE Abs!Next
    BY <2>2, IssueIssues, RevokeRevokes DEF Abs!Next
  <2>3. ASSUME NEW r \in Requests,
               (\E j \in Jtis : Decode(r, j)) \/ CheckDenyList(r) \/ Leave(r)
        PROVE  Abs!Next
    BY <2>3, RequestSteps
  <2>4. CASE UNCHANGED vars
    BY <2>4 DEF vars, Abs!vars, Life, Expired, OnDenyList
  <2> QED
    BY <2>1, <2>2, <2>3, <2>4 DEF Next
<1> QED
  BY <1>1, <1>2, IInvariant, KeysInvariant, PTL DEF Spec, TokensSpec, Abs!Spec
=============================================================================
