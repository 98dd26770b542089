-------------------------- MODULE ToolSafetyProofs --------------------------
(***************************************************************************)
(* What the rules of ToolSafety do for every threshold and every amount.   *)
(***************************************************************************)
EXTENDS ToolSafety, TLAPS

\* Every subset of the rules crosses the threshold unless it is empty: the
\* arithmetic of RULE_WEIGHTS against MALICIOUS_THRESHOLD, clamp included.
LEMMA SomeRuleCrosses ==
    ASSUME NEW S \in SUBSET Rules
    PROVE  IsMalicious(Score(S)) <=> S # {}
<1>1. ASSUME NEW r \in Rules
      PROVE  /\ WeightIn(S, r) \in Nat
             /\ r \in S => WeightIn(S, r) >= 15
             /\ r \notin S => WeightIn(S, r) = 0
  BY DEF Rules, WeightIn, Weight
<1>2. /\ "out_of_tier_tool" \in Rules /\ "excessive_amount" \in Rules
      /\ "unknown_beneficiary" \in Rules /\ "hex_address_recipient" \in Rules
      /\ "policy_mutation" \in Rules
  BY DEF Rules
<1>3. /\ WeightIn(S, "out_of_tier_tool") \in Nat
      /\ WeightIn(S, "excessive_amount") \in Nat
      /\ WeightIn(S, "unknown_beneficiary") \in Nat
      /\ WeightIn(S, "hex_address_recipient") \in Nat
      /\ WeightIn(S, "policy_mutation") \in Nat
  BY <1>1, <1>2
<1>4. CASE S = {}
  <2>1. RawScore(S) = 0
    BY <1>4 DEF RawScore, WeightIn
  <2> QED
    BY <2>1, <1>4 DEF Score, IsMalicious, MaliciousThreshold
<1>5. CASE S # {}
  <2>1. PICK r \in Rules : r \in S
    BY <1>5
  <2>2. WeightIn(S, r) >= 15
    BY <1>1, <2>1
  <2>3. RawScore(S) >= WeightIn(S, r) /\ RawScore(S) \in Nat
    BY <1>3, <2>1 DEF RawScore, Rules
  <2>4. RawScore(S) >= 15
    BY <1>1, <2>2, <2>3
  <2> QED
    BY <2>3, <2>4, <1>5 DEF Score, IsMalicious, MaliciousThreshold
<1> QED
  BY <1>4, <1>5

\* The scoring of one call touches nothing but `call`, so "any single rule
\* triggers quarantine" holds of every call in every state.
THEOREM OneRuleAlwaysSuffices == Spec => []OneRuleSuffices
<1>1. OneRuleSuffices
  <2>1. Triggered(call) \in SUBSET Rules
    BY DEF Triggered
  <2> QED
    BY <2>1, SomeRuleCrosses DEF OneRuleSuffices
<1> QED
  BY <1>1, PTL

-----------------------------------------------------------------------------

\* What the armor let through: no rule of the armor objects to the call.
Passed ==
    stage \in {"armored", "executed", "recorded", "scored", "unscored"} =>
        ArmorReasons(call) = {}

\* The pipeline scores no call that the armor has not let through.
LEMMA PassedInvariant == Spec => []Passed
<1>1. Init => Passed
  BY DEF Init, Passed
<1>2. Passed /\ [Next]_vars => Passed'
  <2> SUFFICES ASSUME Passed, [Next]_vars
               PROVE  Passed'
    OBVIOUS
  <2>1. CASE ModelArmor
    BY <2>1 DEF ModelArmor, Passed
  <2>2. CASE CallTool
    BY <2>2 DEF CallTool, Passed
  <2>3. CASE RecordCall
    BY <2>3 DEF RecordCall, Passed
  <2>4. CASE ScoreCall
    BY <2>4 DEF ScoreCall, Passed
  <2>5. CASE UNCHANGED vars
    BY <2>5 DEF vars, Passed
  <2> QED
    BY <2>1, <2>2, <2>3, <2>4, <2>5 DEF Next
<1> QED
  BY <1>1, <1>2, PTL DEF Spec

\* Of the five scoring rules the tier and the beneficiary rule never fire in
\* the pipeline, and the amount rule fires only behind "amount_cents", for
\* every threshold and every amount.
THEOREM SentinelScoresTheRest == Spec => []SentinelSeesOnlyTheRest
<1>1. Passed => SentinelSeesOnlyTheRest
  <2> SUFFICES ASSUME Passed, stage = "scored"
               PROVE  /\ Triggered(call) \subseteq
                            {"excessive_amount", "hex_address_recipient",
                             "policy_mutation"}
                      /\ "excessive_amount" \in Triggered(call) =>
                            call.amount.kind = "absent" /\ Exceeds(call.cents)
    BY DEF SentinelSeesOnlyTheRest
  <2>1. ArmorReasons(call) = {}
    BY DEF Passed
  <2>2. call.tool \in TierAllows(call.tier)
    BY <2>1 DEF ArmorReasons
  <2>3. ~UnknownBeneficiary(call)
    BY <2>1 DEF ArmorReasons
  <2>4. IsWire(call) => ~Exceeds(call.amount)
    BY <2>1 DEF ArmorReasons
  <2>5. Triggered(call) \subseteq
           {"excessive_amount", "hex_address_recipient", "policy_mutation"}
    BY <2>2, <2>3 DEF Triggered, Rules
  <2>6. "excessive_amount" \in Triggered(call) =>
           call.amount.kind = "absent" /\ Exceeds(call.cents)
    BY <2>4 DEF Triggered, ScoredAmount
  <2> QED
    BY <2>5, <2>6
<1> QED
  BY <1>1, PassedInvariant, PTL

-----------------------------------------------------------------------------

\* The amount rule looks at transfers only and the policy rule at updates only.
LEMMA RulesOfOneTool ==
    ASSUME NEW c
    PROVE  ~({"excessive_amount", "policy_mutation"} \subseteq Triggered(c))
<1> SUFFICES ASSUME {"excessive_amount", "policy_mutation"} \subseteq Triggered(c)
             PROVE  FALSE
  OBVIOUS
<1>1. IsWire(c)
  BY DEF Triggered
<1>2. c.tool = "update_policy"
  BY DEF Triggered
<1> QED
  BY <1>1, <1>2 DEF IsWire

\* Without one of the two the weights add up to 90 at most.
LEMMA ScoreOfOneTool ==
    ASSUME NEW S \in SUBSET Rules, ~({"excessive_amount", "policy_mutation"} \subseteq S)
    PROVE  RawScore(S) \in 0 .. 90
<1>1. /\ WeightIn(S, "out_of_tier_tool") \in {0, 30}
      /\ WeightIn(S, "excessive_amount") \in {0, 25}
      /\ WeightIn(S, "unknown_beneficiary") \in {0, 20}
      /\ WeightIn(S, "hex_address_recipient") \in {0, 15}
      /\ WeightIn(S, "policy_mutation") \in {0, 15}
  BY DEF WeightIn, Weight
<1>2. WeightIn(S, "excessive_amount") = 0 \/ WeightIn(S, "policy_mutation") = 0
  BY DEF WeightIn
<1> QED
  BY <1>1, <1>2 DEF RawScore

\* Although the weights add up to 1.05, the clamp is never needed: no call can
\* trigger all five rules.
THEOREM ClampIsIdle == Spec => []ClampNeverActs
<1>1. ClampNeverActs
  <2>1. Triggered(call) \in SUBSET Rules
    BY DEF Triggered
  <2>2. RawScore(Triggered(call)) \in 0 .. 90
    BY <2>1, RulesOfOneTool, ScoreOfOneTool
  <2> QED
    BY <2>2 DEF ClampNeverActs
<1> QED
  BY <1>1, PTL

\* A call keeps its type in the pipeline; its caller gets 200, 400, 423 or 500, and
\* 200 exactly when the call is recorded (gateway.py, _execute_tool_call).
THEOREM PipelineTypes == Spec => []TypeOK
<1>1. Init => TypeOK
  BY DEF Init, TypeOK
<1>2. TypeOK /\ [Next]_vars => TypeOK'
  <2> SUFFICES ASSUME TypeOK, [Next]_vars
               PROVE  TypeOK'
    OBVIOUS
  <2>1. CASE ModelArmor
    BY <2>1 DEF ModelArmor, TypeOK
  <2>2. CASE CallTool
    <3>1. ToolAnswer(call) \in {200, 400, 500}
      BY DEF ToolAnswer
    <3> QED
      BY <2>2, <3>1 DEF CallTool, TypeOK
  <2>3. CASE RecordCall
    BY <2>3 DEF RecordCall, TypeOK
  <2>4. CASE ScoreCall
    BY <2>4 DEF ScoreCall, TypeOK
  <2>5. CASE UNCHANGED vars
    BY <2>5 DEF vars, TypeOK
  <2> QED
    BY <2>1, <2>2, <2>3, <2>4, <2>5 DEF Next
<1> QED
  BY <1>1, <1>2, PTL DEF Spec
=============================================================================
