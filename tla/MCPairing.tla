------------------------------- MODULE MCPairing -------------------------------
(***************************************************************************)
(* A small instance of Pairing.  c1 works forward; c2 reduces two targets  *)
(* to one source value and makes of that value what no target has.         *)
(***************************************************************************)
EXTENDS Pairing

MCProviders == <<"primary", "other">>
MCYield ==
  [k \in Chains |-> [v \in Sources \union Targets \union Ghosts |->
     CASE k = "c1" /\ v = "a" -> "x"
       [] k = "c1" /\ v = "b" -> "y"
       [] k = "c2" /\ v = "b" -> "g"
       [] k = "c2" /\ v \in {"x", "y"} -> "b"
       [] OTHER -> None]]
MCClaim(v, t, k) == [value |-> v, target |-> t, chain |-> k]
MCClaims == {MCClaim("a", "x", "c1"), MCClaim("b", "x", "c2"), MCClaim("b", "g", "c2"),
             MCClaim("a", "y", "c1")}
MCLayouts ==
  {<<Targets, Targets>>, <<{"x"}, {"a"}>>, <<{"y"}, {"x"}>>, <<{}, {"x", "y"}>>}
MCLibrary == {<<"a", "x">>, <<"b", "g">>}

==============================================================================
