------------------------------ MODULE MCPools ------------------------------
(* Two settings, of which one balances and one asks all at once, a rebuild  *)
(* or two, and queries for names that domains of several lines match.       *)
EXTENDS Pools
CONSTANTS r1, r2, r3, u1, u2, u3, c1, c2

Line(form, domains, up) == [form |-> form, domains |-> domains, up |-> up]
Corp == <<"corp">>
SubCorp == <<"lab", "corp">>

Balanced ==
    [lines |-> <<Line("blank", <<>>, ""), Line("literal", <<>>, "a"), Line("literal", <<>>, "b"),
                 Line("host", <<Corp>>, "c"), Line("stamp", <<>>, "s")>>,
     fallback |-> <<Line("literal", <<>>, "f")>>, mode |-> "load_balance",
     clients |-> <<>>, private |-> TRUE, local |-> <<>>]
AllAtOnce ==
    [lines |-> <<Line("host", <<Corp, <<>>>>, "c"), Line("bad", <<>>, ""), Line("literal", <<>>, "a"),
                 Line("default", <<SubCorp>>, ""), Line("literal", <<Corp, <<>>>>, "d")>>,
     fallback |-> <<Line("literal", <<>>, "f")>>, mode |-> "parallel",
     clients |-> <<Line("literal", <<>>, "g")>>, private |-> FALSE, local |-> <<Line("literal", <<>>, "l")>>]
Fastest == [AllAtOnce EXCEPT !.mode = "fastest_addr"]

MCSettings == [u \in {u1, u2, u3} |-> CASE u = u1 -> Balanced [] u = u2 -> AllAtOnce [] OTHER -> Fastest]
MCSystem == <<Line("literal", <<>>, "y")>>
MCHostnames == {<<"x", "lab", "corp">>, <<"x", "corp">>}
MCOffers == {{1}, {2}}
OneOffer == {{1}}
=============================================================================
