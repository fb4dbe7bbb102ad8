----------------------------- MODULE MCAgentNode -----------------------------
(* Instances of AgentNode for TLC.                                          *)
EXTENDS AgentNode

CONSTANTS b1, b2, r1, r2

(* A rule with a standby. *)
OneList == {<<b1, b2>>}

TwoLists == {<<b1, b2>>, <<b2>>}

(* Everything the panel can say about RuleIds. *)
AnyRules == UNION {[R -> E!RuleSpec] : R \in SUBSET RuleIds}

Spec(t) == [tool |-> t, backends |-> <<b1, b2>>]

(* No rule; two of one tool; one of each. *)
FewRules ==
  {<< >>, [r \in {r1, r2} |-> Spec("gost")],
   [r \in {r1, r2} |-> Spec(IF r = r1 THEN "gost" ELSE "realm")]}
=============================================================================
