---------------------------------- MODULE Pdp ----------------------------------
(***************************************************************************)
(* The policy decision points: the built-in rules of StaticPdpEngine, the  *)
(* rules of policy bundles and the engine that puts both together.         *)
(*                                                                         *)
(* A context is what the matchers look at: whether the intent names        *)
(* resources, the requested rollback class, whether the risk is critical,  *)
(* the approval mode, whether the taint score reaches 70, and whether the  *)
(* inferred effect is one of the forbidden outcomes.                       *)
(***************************************************************************)
EXTENDS Integers, Sequences, FiniteSetsExt, Functions

CONSTANTS
  Top,        \* i32::MAX
  Policies    \* the lists of rules of the bundles considered

VARIABLE answer    \* the latest evaluation: by whom, of which bundles and context

Context ==
  [scoped : BOOLEAN, class : {"R0", "R1", "R3"}, critical : BOOLEAN,
   approval : {"None", "Required", "DraftOnly"}, tainted : BOOLEAN, forbidden : BOOLEAN]

NoDecision == "none"
Strictness == <<"Allow", "AllowDraftOnly", "RequireApproval", "Quarantine", "Deny">>
Decisions == Range(Strictness)
Rank(d) == CHOOSE r \in DOMAIN Strictness : Strictness[r] = d
StricterDecision(a, b) == IF Rank(a) >= Rank(b) THEN a ELSE b

IsMutation(x) == x.class # "R0"

\* The built-in rules come before those of the shipped bundle.
ASSUME PdpAssumption ==
  /\ Top \in Int /\ Top > 6
  /\ \A rules \in Policies :
       /\ rules \in Seq(Range(rules))
       /\ \A r \in Range(rules) : r.decision \in Decisions /\ r.priority \in Int

EvaluateMatcher(m, x) ==
  CASE m = "scope_mismatch" -> ~x.scoped /\ IsMutation(x)
    [] m = "taint_at_least_70" -> x.tainted
    [] m = "action_is_mutation" -> IsMutation(x)
    [] m = "rollback_class_r3" -> x.class = "R3"
    [] m = "critical_risk_no_approval" -> x.critical /\ x.approval = "None"
    [] m = "approval_mode_draft_only" -> x.approval = "DraftOnly"
    [] OTHER -> FALSE

EvaluateRuleMatchers(rule, x) == \A m \in rule.matchers : EvaluateMatcher(m, x)

---------------------------------------------------------------------------
\* The rules of a bundle by descending priority; the sort is stable.
ByPriority(rules) ==
  LET before(i, j) == \/ rules[i].priority > rules[j].priority
                      \/ rules[i].priority = rules[j].priority /\ i < j
      place(i) == Cardinality({j \in DOMAIN rules : before(j, i)}) + 1
  IN [k \in DOMAIN rules |-> rules[CHOOSE i \in DOMAIN rules : place(i) = k]]

Undecided == [decision |-> NoDecision, priority |-> 0]

\* Mutant: later groups of rules still have a say.
LooseStep(x, found, rule) ==
  IF ~EvaluateRuleMatchers(rule, x) THEN found
  ELSE [priority |-> rule.priority,
        decision |-> IF found.decision = NoDecision THEN rule.decision
                     ELSE StricterDecision(found.decision, rule.decision)]

\* One turn of the loop of evaluate_bundle_rules: once a rule has matched, only rules of
\* its priority are looked at, and the strictest of them decides.
RuleStep(x, found, rule) ==
  IF \/ found.decision # NoDecision /\ found.priority # rule.priority
     \/ ~EvaluateRuleMatchers(rule, x)
  THEN found
  ELSE [priority |-> rule.priority,
        decision |-> IF found.decision = NoDecision THEN rule.decision
                     ELSE StricterDecision(found.decision, rule.decision)]

EvaluateBundleRules(rules, x) ==
  LET sorted == ByPriority(rules)
      found[k \in 0..Len(rules)] ==
        IF k = 0 THEN Undecided ELSE RuleStep(x, found[k - 1], sorted[k])
  IN found[Len(rules)].decision

\* Mutant: one of the built-in rules has an ordinary priority.
InvariantRulesLow ==
  << [decision |-> "Deny", priority |-> Top, matchers |-> {"scope_mismatch"}],
     [decision |-> "RequireApproval", priority |-> 1,
      matchers |-> {"critical_risk_no_approval"}] >>

\* The rules that PolicyBundlePdpEngine adds to every bundle
InvariantRules ==
  << [decision |-> "Deny", priority |-> Top, matchers |-> {"scope_mismatch"}],
     [decision |-> "RequireApproval", priority |-> Top - 1,
      matchers |-> {"critical_risk_no_approval"}] >>

\* Mutant: taint quarantines reads as well.
StaticDefaultTaint ==
  << [decision |-> "Quarantine", priority |-> 5, matchers |-> {"taint_at_least_70"}],
     [decision |-> "RequireApproval", priority |-> 4, matchers |-> {"rollback_class_r3"}],
     [decision |-> "AllowDraftOnly", priority |-> 3, matchers |-> {"approval_mode_draft_only"}],
     [decision |-> "Allow", priority |-> 0, matchers |-> {}] >>

\* configs/policy-bundles/static-default.yaml
StaticDefault ==
  << [decision |-> "Quarantine", priority |-> 5,
      matchers |-> {"taint_at_least_70", "action_is_mutation"}],
     [decision |-> "RequireApproval", priority |-> 4, matchers |-> {"rollback_class_r3"}],
     [decision |-> "AllowDraftOnly", priority |-> 3, matchers |-> {"approval_mode_draft_only"}],
     [decision |-> "Allow", priority |-> 0, matchers |-> {}] >>

\* The outcome checks come last and only tell on an Allow.
OutcomePass(decision, x) == IF decision = "Allow" /\ x.forbidden THEN "Deny" ELSE decision

\* The loop over the bundles: the first with a match decides.
FirstDecision(said) ==
  LET found[i \in 0..Len(said)] ==
        IF i = 0 THEN NoDecision
        ELSE IF found[i - 1] # NoDecision THEN found[i - 1] ELSE said[i]
  IN found[Len(said)]

\* PolicyBundlePdpEngine over a sequence of bundles
BundleEngine(bundles, x) ==
  LET decision == FirstDecision([i \in 1..Len(bundles) |->
                                   EvaluateBundleRules(bundles[i] \o InvariantRules, x)])
  IN OutcomePass(IF decision = NoDecision THEN "Allow" ELSE decision, x)

\* StaticPdpEngine
StaticEngine(x) ==
  CASE ~x.scoped /\ IsMutation(x) -> "Deny"
    [] ~(~x.scoped /\ IsMutation(x)) /\ x.critical /\ x.approval = "None" -> "RequireApproval"
    [] OTHER -> IF x.tainted /\ IsMutation(x) THEN "Quarantine"
                ELSE IF x.class = "R3" THEN "RequireApproval"
                ELSE IF x.approval = "DraftOnly" THEN "AllowDraftOnly"
                ELSE OutcomePass("Allow", x)

---------------------------------------------------------------------------
\* evaluate_active_policy_bundles: the bundles as they are, without the added rules; none
\* when the store cannot be read
ActiveBundles(bundles, x) ==
  FirstDecision([i \in 1..Len(bundles) |-> EvaluateBundleRules(bundles[i], x)])

\* evaluate_proposal_decision
EvaluateProposalDecision(mode, bundles, x) ==
  LET active == ActiveBundles(bundles, x) IN
  CASE mode = "Static" -> StaticEngine(x)
    [] mode = "Bundles" -> IF active = NoDecision THEN "Allow" ELSE active
    [] mode = "Dual" -> IF active = NoDecision THEN StaticEngine(x) ELSE active

---------------------------------------------------------------------------
NoAnswer == [by |-> "nobody"]
PdpInit == answer = NoAnswer

\* simulate_policy_bundle: the rules of one bundle; Allow when none matches
Simulate(rules, x) ==
  LET decision == EvaluateBundleRules(rules, x) IN
  answer' = [by |-> "simulate", bundles |-> <<rules>>, context |-> x,
             decision |-> IF decision = NoDecision THEN "Allow" ELSE decision]

\* PolicyBundlePdpEngine::evaluate
Judge(bundles, x) ==
  answer' = [by |-> "engine", bundles |-> bundles, context |-> x,
             decision |-> BundleEngine(bundles, x)]

\* evaluate_proposal_decision; the bundles cannot be read when the store fails
Evaluate(mode, bundles, x) ==
  \E read \in {bundles, <<>>} :
    answer' = [by |-> mode, bundles |-> read, context |-> x,
               decision |-> EvaluateProposalDecision(mode, read, x)]

PdpNext ==
  /\ answer = NoAnswer
  /\ \E x \in Context :
       \/ \E rules \in Policies : Simulate(rules, x) \/ Judge(<<rules>>, x)
       \/ \E mode \in {"Static", "Bundles", "Dual"}, rules \in Policies :
            Evaluate(mode, <<rules, StaticDefault>>, x)

---------------------------------------------------------------------------
(* Reference definitions. *)

\* What a bundle says: the strictest decision among the matching rules of the highest
\* priority at which a rule matches.
Matching(rules, x) == {r \in Range(rules) : EvaluateRuleMatchers(r, x)}
Leading(rules, x) ==
  {r \in Matching(rules, x) : \A s \in Matching(rules, x) : s.priority <= r.priority}
BundleMeaning(rules, x) ==
  IF Matching(rules, x) = {} THEN NoDecision
  ELSE CHOOSE d \in {r.decision : r \in Leading(rules, x)} :
         \A r \in Leading(rules, x) : Rank(r.decision) <= Rank(d)

---------------------------------------------------------------------------
(* Properties. *)

\* The bundles that have something to say
Meaning(i) == BundleMeaning(answer.bundles[i], answer.context)
Deciding == {i \in DOMAIN answer.bundles : Meaning(i) # NoDecision}

\* Whatever the order and the priorities of its rules, a bundle decides by the strictest
\* matching rule of the highest priority that matches (evaluate_bundle_rules); of the
\* active bundles the first that decides wins, and the built-in rules come after them.
StrictestOfTopGroup ==
  LET fallback == IF answer.by = "Dual" THEN StaticEngine(answer.context) ELSE "Allow"
  IN answer.by \in {"simulate", "Bundles", "Dual"} =>
       answer.decision = IF Deciding = {} THEN fallback ELSE Meaning(Min(Deciding))

\* The bundle shipped as static-default.yaml decides every context as the built-in engine
\* does (PolicyBundlePdpEngine::evaluate, StaticPdpEngine::evaluate).
StaticParity ==
  answer.by = "engine" /\ answer.bundles = <<StaticDefault>> =>
    answer.decision = StaticEngine(answer.context)

\* Where the built-in rules have a say: in mode Static, in mode Dual when no bundle
\* decides, and in PolicyBundlePdpEngine when no rule has one of the reserved priorities.
\* The gateway does not build that engine, and in the modes Bundles and Dual a bundle
\* that decides does so without them.
BuiltInRulesApply ==
  \/ answer.by = "Static"
  \/ answer.by = "Dual" /\ Deciding = {}
  \/ /\ answer.by = "engine"
     /\ \A i \in DOMAIN answer.bundles : \A r \in Range(answer.bundles[i]) : r.priority < Top - 1

\* There a mutation without resources is denied, and a critical one without approval mode
\* is not allowed (invariant_rules, StaticPdpEngine::evaluate).
InvariantRulesHold ==
  LET x == answer.context IN
  BuiltInRulesApply =>
  /\ ~x.scoped /\ IsMutation(x) => answer.decision = "Deny"
  /\ x.critical /\ x.approval = "None" => Rank(answer.decision) >= Rank("RequireApproval")

\* Decisions are what the rules say: the meaning of bundles, agreement of the two engines
\* on the shipped bundle, and the built-in rules where they apply.
DecisionsHold == StrictestOfTopGroup /\ StaticParity /\ InvariantRulesHold
=============================================================================
