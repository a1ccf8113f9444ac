------------------------------ MODULE MCEngine ------------------------------
(***************************************************************************)
(* Recipes of up to two operations over frames of up to three rows.        *)
(***************************************************************************)
EXTENDS Engine

On(name, field) == [op |-> name, field |-> field, enabled |-> TRUE]

MCOps ==
  { [op |-> "exclude_value", field |-> "K", values |-> {"a"}, enabled |-> TRUE],
    [op |-> "exclude_value", field |-> "K", values |-> {"b"}, enabled |-> FALSE],
    [op |-> "exclude_value", field |-> "N", values |-> {2}, enabled |-> TRUE],
    On("reject_null", "D"),
    [op |-> "value_mapping", field |-> "K", from |-> "b", to |-> "a", enabled |-> TRUE],
    [op |-> "calculated_column", field |-> "Q", to |-> "N", enabled |-> TRUE],
    [op |-> "rename_field", field |-> "C", to |-> "M", enabled |-> TRUE],
    [op |-> "sum_aggregate", field |-> "Q", by |-> <<"K", "D">>, enabled |-> TRUE],
    [op |-> "sum_aggregate", field |-> "Q", by |-> <<"K">>, enabled |-> TRUE],
    [op |-> "deduplicate", by |-> <<"K">>, keep |-> "last", enabled |-> TRUE] }

Match(s, t, conf) == [source |-> s, target |-> t, confidence |-> conf, pair |-> "p"]

MCMatches ==
  { <<>>,
    [f \in {"K"} |-> <<Match("a", "x", "high"), Match("b", "y", "very_high")>>],
    [f \in {"K"} |-> <<Match("a", "x", "high"), Match("a", "y", "high"), Match("b", "y", "high")>>],
    [f \in {"K"} |-> <<Match("a", "x", "medium"), Match("a", "y", "high"), Match("2", "x", "high")>>] }

MCRules ==
  { {}, {[kind |-> "period", field |-> "D"], [kind |-> "sum", field |-> "Q"]} }

MCCompare ==
  { <<[source |-> "Q", target |-> "TQ", tolerance |-> t]>> : t \in {{}, {1}} }

MCKeys == <<[source |-> "K", target |-> "TK"], [source |-> "D", target |-> "TD"]>>

MCContracts ==
  { [ops |-> o, keys |-> MCKeys, matches |-> m, rules |-> r, compare |-> f] :
      o \in UNION {[1 .. n -> MCOps] : n \in 0 .. 2}, m \in MCMatches, r \in MCRules, f \in MCCompare }

Row(k, d, q) == [K |-> k, D |-> d, Q |-> q, C |-> q]
MCRows == {Row("a", "d1", 1), Row("a", "d2", 2), Row("b", "d1", 1), Row("", "d1", 1), Row("a", "", 1),
           Row("a", Null, 1), Row("a", "soon", 2), Row("inf", "d1", 1)}
MCSources ==
  {<<>>} \union {<<r>> : r \in MCRows}
    \union {<<p, r>> : p \in {Row("a", "d1", 1), Row("b", "d1", 1)}, r \in MCRows}
    \union {<<r, Row("a", "d1", 2), Row("b", "d1", 1)>> : r \in MCRows}
    \union {<<Row("1", "d1", 1), Row("1", "d2", 1), Row("2", "d1", 1)>>,
             <<Row("a", "d1", 1), Row("b", "d1", 1), Row("inf", "d1", 1)>>}

TRow(k, d, q) == [TK |-> k, TD |-> d, TQ |-> q]
\* The keys of groups with a null in them, of two columns in either order.
MCUnfound ==
  {key \in {"a", "b", "x", "y", "d1", Null} \X {"a", "b", "x", "y", "d1", Null} : Null \in ToSet(key)}

\* An infinite number as a key, and a matched text written among whole numbers.
MCRaisesOn(c, step, table) ==
  \/ /\ step = "join"
     /\ \E i \in DOMAIN table : \E col \in DOMAIN table[i].cell \cap {"K", "TK"} :
          table[i].cell[col] = "inf"
  \/ /\ step = "value_mappings" /\ table # <<>> /\ Mapped(c, "K")
     /\ \A i \in DOMAIN table : table[i].cell["K"] \in {"1", "2"}
     /\ \E i \in DOMAIN table : Accepted(c, "K", table[i].cell["K"]) # <<>>

MCTargets ==
  { <<>>, <<TRow("x", "d1", 3), TRow("y", "d1", 1)>>,
    <<TRow("X", "d1", 2), TRow("x", "d1", 1)>>, <<TRow("a", "d1", 2), TRow("b", "d2", 1)>> }
=============================================================================
