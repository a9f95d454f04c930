--------------------------- MODULE MCConnections ---------------------------
(* Two queries through one upstream's connections. *)
EXTENDS Connections
CONSTANTS q1, q2

Asked == {[id |-> 1, question |-> "a"], [id |-> 1, question |-> "b"]}

\* The preferred family has no address and the other one; or its first server
\* is silent and its second has two.
One == [order |-> <<"v4", "v6">>, replies |-> [v4 |-> <<{<<>>}, {<<"x">>}>>, v6 |-> <<{<<"y">>}>>]]
Two == [order |-> <<"v6", "v4">>, replies |-> [v6 |-> <<{}, {<<"x", "y">>}>>, v4 |-> <<{<<"z">>}>>]]
Known == [transport : {"udp", "https"}, boot : {One}] \union [transport : {"quic"}, boot : {Two}]
WithHttp3 == [transport : {"tcp", "http3"}, boot : {One}]
=============================================================================
