----------------------------- MODULE ToolSafety -----------------------------
(***************************************************************************)
(* The rules that decide what happens to one tool call:                    *)
(*   - model_armor.evaluate_tool_safety, before the tool runs;             *)
(*   - tool_definitions.call_tool and execute_wire_transfer, the tool;     *)
(*   - anomaly_detector.score_anomaly, in the Sentinel, after it.          *)
(* Each rule looks at the same JSON arguments, but not at the same fields  *)
(* of them, and the properties say how the three decisions fit together.   *)
(*                                                                         *)
(* An argument is abstracted to what the rules tell apart: an amount is    *)
(* absent, null, not a number or a number (an integer: JSON's NaN and      *)
(* fractions are left out); of the beneficiary the rules ask whether it is *)
(* truthy, whether it is on the allowlist and, without knowing it, whether *)
(* it can be hashed; the regular expressions for PII and for hex addresses *)
(* are two Booleans; `binds` says whether a tool takes the arguments that  *)
(* it names itself.  Scores are counted in hundredths, so that 0.15 is 15. *)
(***************************************************************************)
EXTENDS Integers

CONSTANTS
    Threshold,  \* WIRE_AMOUNT_THRESHOLD, 1 000 000 in the source
    Numbers     \* the numbers a caller may pass as an amount

ASSUME ThresholdAssumption == Threshold \in Nat
ASSUME NumbersAssumption   == Numbers \subseteq Int

-----------------------------------------------------------------------------
(* A call as it reaches the gateway.                                       *)

Tiers == {"READ_ONLY", "INTERNAL_WRITE", "CRITICAL_EXEC", "other"}

ToolNames == {"read_file", "view_policy", "update_policy",
              "execute_wire_transfer", "fetch_vendor_invoice", "other"}

NumberArg == [kind : {"absent", "null", "text"}, value : {0}]
                \cup [kind : {"number"}, value : Numbers]

\* Null counts as absent.  "zero" is any falsy value that can be hashed and is not a
\* string, "emptyList" an empty list or object, "list" one that is not empty; every
\* other value that is not on the allowlist is "unlisted".
Beneficiaries == {"absent", "empty", "zero", "emptyList", "listed", "unlisted", "list"}

Calls == [tier        : Tiers,
          tool        : ToolNames,
          amount      : NumberArg,
          cents       : NumberArg,     \* the argument "amount_cents"
          beneficiary : Beneficiaries,
          pii         : BOOLEAN,       \* PII_RE matches a string argument
          hex         : BOOLEAN,       \* _HEX_ADDRESS_RE matches one
          binds       : BOOLEAN]

IsWire(c) == c.tool = "execute_wire_transfer"

Exceeds(arg) == arg.kind = "number" /\ arg.value > Threshold

-----------------------------------------------------------------------------
(* Model armor.                                                            *)

\* TOOL_TIER_ALLOWLIST; a tier that is not a key allows nothing.
TierAllows(tier) ==
    CASE tier = "READ_ONLY"      -> {"read_file", "view_policy"}
      [] tier = "INTERNAL_WRITE" -> {"read_file", "view_policy", "update_policy"}
      [] tier = "CRITICAL_EXEC"  -> ToolNames \ {"other"}
      [] OTHER                   -> {}

\* `if beneficiary and ...`: what is falsy is not looked up.
UnknownBeneficiary(c) == c.beneficiary = "unlisted"

\* Faulty variant: the beneficiary allowlist is not consulted.
ArmorReasonsWithoutPayees(c) ==
    {r \in {"tier", "amount", "pii"} :
        \/ r = "tier"   /\ c.tool \notin TierAllows(c.tier)
        \/ r = "amount" /\ IsWire(c) /\ Exceeds(c.amount)
        \/ r = "pii"    /\ c.pii}

ArmorReasons(c) ==
    {r \in {"tier", "amount", "beneficiary", "pii"} :
        \/ r = "tier"        /\ c.tool \notin TierAllows(c.tier)
        \/ r = "amount"      /\ IsWire(c) /\ Exceeds(c.amount)
        \/ r = "beneficiary" /\ UnknownBeneficiary(c)
        \/ r = "pii"         /\ c.pii}

-----------------------------------------------------------------------------
(* The tool.  A KeyError is the caller's fault (400); any other exception  *)
(* leaves the handler (500).                                               *)

Registered == {"fetch_vendor_invoice", "execute_wire_transfer",
               "read_file", "update_policy"}

\* The alias is resolved once: amount_cents wins, else amount is dollars.
ResolvedCents(c) ==
    IF c.cents.kind \in {"absent", "null"}
    THEN [kind |-> c.amount.kind, value |-> c.amount.value * 100]
    ELSE c.cents

\* Faulty variant: arguments that do not fit are answered 422.
ToolAnswerUnprocessable(c) ==
    CASE c.tool \notin Registered -> 400
      [] ~c.binds                 -> 422
      [] OTHER                    -> 200

\* A transfer names its beneficiary in its id, with replace(): a string.
ToolAnswer(c) ==
    CASE c.tool \notin Registered -> 400
      [] ~c.binds                 -> 500
      [] IsWire(c) /\ c.beneficiary \in {"absent", "zero", "emptyList", "list"} -> 500
      [] IsWire(c) /\ ResolvedCents(c).kind # "number" -> 500
      [] OTHER -> 200

-----------------------------------------------------------------------------
(* Sentinel scoring.                                                       *)

Rules == {"out_of_tier_tool", "excessive_amount", "unknown_beneficiary",
          "hex_address_recipient", "policy_mutation"}

\* tool_args.get("amount", tool_args.get("amount_cents", 0))
ScoredAmount(c) == IF c.amount.kind = "absent" THEN c.cents ELSE c.amount

\* Faulty variant: any tool with a large amount triggers the amount rule.
TriggeredByAnyAmount(c) ==
    {r \in Rules :
        \/ r = "out_of_tier_tool"      /\ c.tool \notin TierAllows(c.tier)
        \/ r = "excessive_amount"      /\ Exceeds(ScoredAmount(c))
        \/ r = "unknown_beneficiary"   /\ UnknownBeneficiary(c)
        \/ r = "hex_address_recipient" /\ c.hex
        \/ r = "policy_mutation"       /\ c.tool = "update_policy"}

Triggered(c) ==
    {r \in Rules :
        \/ r = "out_of_tier_tool"      /\ c.tool \notin TierAllows(c.tier)
        \/ r = "excessive_amount"      /\ IsWire(c) /\ Exceeds(ScoredAmount(c))
        \/ r = "unknown_beneficiary"   /\ UnknownBeneficiary(c)
        \/ r = "hex_address_recipient" /\ c.hex
        \/ r = "policy_mutation"       /\ c.tool = "update_policy"}

\* Faulty variant: policy_mutation with the weight it had before it was raised.
WeightBeforeRaise(r) ==
    CASE r = "out_of_tier_tool"      -> 30
      [] r = "excessive_amount"      -> 25
      [] r = "unknown_beneficiary"   -> 20
      [] r = "hex_address_recipient" -> 15
      [] r = "policy_mutation"       -> 10

\* RULE_WEIGHTS
Weight(r) ==
    CASE r = "out_of_tier_tool"      -> 30
      [] r = "excessive_amount"      -> 25
      [] r = "unknown_beneficiary"   -> 20
      [] r = "hex_address_recipient" -> 15
      [] r = "policy_mutation"       -> 15

WeightIn(S, r) == IF r \in S THEN Weight(r) ELSE 0

RawScore(S) ==
    WeightIn(S, "out_of_tier_tool") + WeightIn(S, "excessive_amount")
      + WeightIn(S, "unknown_beneficiary")
      + WeightIn(S, "hex_address_recipient") + WeightIn(S, "policy_mutation")

\* min(max(score, 0.0), 1.0)
Score(S) == IF RawScore(S) > 100 THEN 100
            ELSE IF RawScore(S) < 0 THEN 0 ELSE RawScore(S)

MaliciousThreshold == 15

IsMalicious(score) == score >= MaliciousThreshold

-----------------------------------------------------------------------------
(* One call through gateway._execute_tool_call and the scoring that        *)
(* _run_sentinel_async starts with.                                        *)

VARIABLES
    call,    \* the call, chosen by the client
    stage,   \* "received" -> "armored" -> "executed" -> "recorded" -> "scored", or
             \* where it ended before: "refused", "lost" or "unscored"
    answer   \* the HTTP status, 0 while there is none

vars == <<call, stage, answer>>

Init ==
    /\ call \in Calls
    /\ stage = "received"
    /\ answer = 0

\* A list cannot be looked up in the allowlist, which is a set: the armor raises,
\* whatever its other rules say.
ModelArmor ==
    /\ stage = "received"
    /\ \/ /\ call.beneficiary = "list"
          /\ stage' = "refused"
          /\ answer' = 500
       \/ /\ call.beneficiary # "list"
          /\ ArmorReasons(call) = {}
          /\ stage' = "armored"
          /\ UNCHANGED answer
       \/ /\ call.beneficiary # "list"
          /\ ArmorReasons(call) # {}
          /\ stage' = "refused"
          /\ answer' = 423
    /\ UNCHANGED call

CallTool ==
    /\ stage = "armored"
    /\ IF ToolAnswer(call) = 200
       THEN stage' = "executed" /\ UNCHANGED answer
       ELSE stage' = "refused" /\ answer' = ToolAnswer(call)
    /\ UNCHANGED call

\* The DAG node is recorded, the Sentinel scheduled and the response sent; or Redis
\* fails, and the caller of a tool that has run gets an error and no Sentinel.
RecordCall ==
    /\ stage = "executed"
    /\ \/ stage' = "recorded" /\ answer' = 200
       \/ stage' = "lost" /\ answer' = 500
    /\ UNCHANGED call

\* The background task scores a call that has run and is recorded.  The beneficiary is
\* part of the key of an lru_cache: one that cannot be hashed raises, and the task
\* ends without a word.
ScoreCall ==
    /\ stage = "recorded"
    /\ stage' = IF call.beneficiary \in {"emptyList", "list"} THEN "unscored" ELSE "scored"
    /\ UNCHANGED <<call, answer>>

Next == ModelArmor \/ CallTool \/ RecordCall \/ ScoreCall

Spec == Init /\ [][Next]_vars

-----------------------------------------------------------------------------

\* The call keeps its type, a caller gets 200, 400, 423 or 500, and 200 only for a
\* call that is recorded.
TypeOK ==
    /\ call \in Calls
    /\ stage \in {"received", "armored", "executed", "recorded", "scored",
                  "refused", "lost", "unscored"}
    /\ answer \in {0, 200, 400, 423, 500}
    /\ answer = 200 <=> stage \in {"recorded", "scored", "unscored"}

\* The Sentinel only ever scores what the armor let through, and the two
\* share the tier and the beneficiary rule: of the five scoring rules two can
\* never fire in the running pipeline, and the amount rule can fire only for a
\* caller that used "amount_cents" and left "amount" out.
SentinelSeesOnlyTheRest ==
    stage = "scored" =>
        /\ Triggered(call) \subseteq
              {"excessive_amount", "hex_address_recipient", "policy_mutation"}
        /\ "excessive_amount" \in Triggered(call) =>
              call.amount.kind = "absent" /\ Exceeds(call.cents)

\* "ANY single rule can trigger quarantine": the weighted sum crosses the
\* threshold exactly when at least one rule fired, for every possible call.
OneRuleSuffices == IsMalicious(Score(Triggered(call))) <=> Triggered(call) # {}

\* The weights add up to 1.05, yet the score of a call never needs the clamp:
\* the amount rule and the policy rule look at different tools.
ClampNeverActs == RawScore(Triggered(call)) <= 100

\* "Amount threshold above which a wire-transfer is flagged (cents)": a transfer
\* of an amount in dollars that ran and was not flagged moves at most the threshold.
TransfersUnderThreshold ==
    (/\ stage = "scored" /\ IsWire(call)
     /\ call.amount.kind = "number" /\ call.cents.kind \in {"absent", "null"}
     /\ ~IsMalicious(Score(Triggered(call))))
        => ResolvedCents(call).value <= Threshold

=============================================================================
