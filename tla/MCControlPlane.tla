----------------------------- MODULE MCControlPlane -----------------------------
EXTENDS ControlPlane

CONSTANTS c1, c2

\* One caller with many requests, and two with a few
MCCallers == {[who |-> {c1}, requests |-> 6], [who |-> {c1, c2}, requests |-> 3]}

MCScopeSets == {{"*"}, {"x"}, {"admin:tokens", "x"}}
MCFounders == <<{"*"}, {"admin:tokens", "x"}>>

\* The wall clock may be set back by a second.
MCSettings == {-1, 0}

\* The shipped bundle, and every bundle of two rules over a few matchers
MCRules ==
  [decision : {"Allow", "RequireApproval", "Deny"}, priority : {1, 2},
   matchers : {{}, {"action_is_mutation"}, {"critical_risk_no_approval"}}]
MCPolicies == {<<r, s>> : r, s \in MCRules} \cup {StaticDefault}

\* Two tables of the store; only bundles, the last, are ever deleted
MCSource == << <<<<1, 0>>, <<2, 0>>>>, <<<<1, 0>>, <<2, 0>>, <<3, 0>>>> >>
=============================================================================
