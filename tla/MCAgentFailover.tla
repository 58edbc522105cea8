--------------------------- MODULE MCAgentFailover ---------------------------
(* Two loops that serve the same session: a primary model whose provider    *)
(* has up to two auth profiles, and a fallback model of another provider.   *)
EXTENDS AgentFailover, TLC

Symmetry == Permutations(Loop)

MCModels == <<"m1", "m2">>
MCProviderOf == [m \in {"m1", "m2"} |-> IF m = "m1" THEN "p1" ELSE "p2"]
MCSessionOf == [l \in Loop |-> CHOOSE s \in Session : TRUE]
MCProfileLists ==
  [p \in {"p1", "p2"} |-> IF p = "p1" THEN {<<"a", "b">>, <<"b">>} ELSE {<<>>}]
MCPriorityOf == [id \in Profile |-> 0]
=============================================================================
