---------------------------- MODULE MCForwarding ----------------------------
(* Queries of clients that differ in their upstreams or in their subnet,    *)
(* with a refresh queue of one job and a cache that may be warm.            *)
EXTENDS Forwarding

CONSTANTS q1, q2, r1, name, own, s1, s2

TwoQueries == {q1, q2}
OneRefresh == {r1}
MCNames == {name}

Client(upstreams, subnet) == [upstreams |-> upstreams, subnet |-> subnet]
TwoSubnets == {Client(Global, s1), Client(Global, s2)}
OwnUpstreams == {Client(Global, s1), Client(own, s1)}
ThreeClients == TwoSubnets \cup OwnUpstreams
OneClient == {Client(Global, s1)}

MCTasks == Queries \cup Refreshes
MCKeys == [key : CacheKeys, subnet : Subnets]
MCAnswers == Messages
=============================================================================
