---------------------------- MODULE MCAutoPlanning ----------------------------
(***************************************************************************)
(* Small connectors and sheets for AutoPlanning.                           *)
(***************************************************************************)
EXTENDS AutoPlanning

Fields == {"id", "mat", "plant", "day", "made", "amount", "mark"}

MCAreaOf == [e \in {"item", "line", "plan1", "plan2"} |->
               IF e = "plan1" THEN "A" ELSE IF e = "plan2" THEN "B" ELSE "none"]
MCRoleOf == [f \in Fields |->
               IF f = "mat" THEN "product" ELSE IF f = "plant" THEN "location"
               ELSE IF f = "day" THEN "date" ELSE "none"]
MCContentOf == [f \in Fields |->
                  IF f \in {"day", "made"} THEN "date"
                  ELSE IF f \in {"amount", "id"} THEN "number" ELSE "text"]
MCKeyFields == {"id", "mark"}

\* The entities before and after a change of the service.
Items == [item |-> {"id", "mat", "plant", "amount"}, line |-> {"id", "day"}]
Linked == [item |-> {"id", "mat", "plant"}, line |-> {"id", "day", "amount"}]
Unlinked == [item |-> {"mat", "plant", "id"}, line |-> {"mark", "day", "made"}]
Plans == [plan1 |-> {"mat", "plant", "made", "amount", "mark"},
          plan2 |-> {"mat", "plant", "made", "amount", "mark"}]
OnePlan == [plan2 |-> {"mat", "plant", "made", "id"}]

MCRelated == {Linked}
MCSchemas == [source |-> {Items, Linked, Unlinked}, target |-> {Plans, OnePlan}]

Claim(named, mentioned, area, fields, keys) ==
  [kind |-> TRUE, named |-> named, mentioned |-> mentioned, area |-> area,
   fields |-> fields, typed |-> keys # {}, keys |-> keys]

AllFields == {"mat", "plant", "day", "made", "amount"}
MCClaims ==
  [source |-> {Claim(n, m, "none", f, {}) :
                 n \in {<<"item">>, <<"old">>},
                 m \in {{}, {"line", "plan1"}}, f \in {AllFields, {"mark"}}}
                \union {Claim(<<"item", "line">>, {}, "none", AllFields,
                              {<<"id", "mark">>, <<"mark", "id">>}),
                        [Claim(<<>>, {"item"}, "none", {}, {}) EXCEPT !.kind = FALSE]}
                \union {[Claim(<<>>, {"line"}, "none", {}, {}) EXCEPT !.typed = t] :
                          t \in BOOLEAN},
   target |-> {Claim(n, {}, a, f, {}) :
                 n \in {<<>>, <<"plan1">>}, a \in {"none", "A"},
                 f \in {AllFields \union {"A"}, {"mark", "A"}}}]

==============================================================================
