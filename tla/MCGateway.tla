------------------------------ MODULE MCGateway ------------------------------
(* One GatewayClient and one other program, which may be refused.           *)
EXTENDS Gateway, TLC

MCPeerRequests ==
  {Hello(0, TRUE, {}), Hello(0, FALSE, {"operator.read"}),
   Hello(0, TRUE, {"operator.read"}),
   Request(0, "gateway.status"), Request(0, "config.set"),
   Request(0, "config.apply"), Request(0, "no.such"),
   [type |-> "res", id |-> 0, method |-> "none", good |-> FALSE, scopes |-> {}]}
Callers == Permutations(Caller)
MCCallMethods == {"gateway.status", "agent.request"}
=============================================================================
