--------------------------- MODULE MCAgentProcess ----------------------------
EXTENDS AgentProcess, MCQueryTunnel

CONSTANTS r1, r2, domain, none

E1 == [tenant |-> TRUE, pinned |-> {}, wanted |-> {"grpc", "tempo"}]
E2 == [tenant |-> TRUE, pinned |-> {"grpc"}, wanted |-> {"grpc", "tempo"}]
E3 == [tenant |-> TRUE, pinned |-> {"region"}, wanted |-> {"grpc", "typo"}]
E4 == [tenant |-> FALSE, pinned |-> {"grpc", "tempo"}, wanted |-> {"grpc", "tempo"}]
E5 == [tenant |-> FALSE, pinned |-> {"region"}, wanted |-> {"grpc"}]
SomeEnvs == {E1, E2, E3, E4, E5}
TwoRegions == {r1, r2}

=============================================================================
