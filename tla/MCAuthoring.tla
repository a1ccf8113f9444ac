------------------------------ MODULE MCAuthoring ------------------------------
(* A small instance of Authoring: four workbooks (a usable index, none,    *)
(* one without the record column, a single sheet), three worksheets.       *)
EXTENDS Authoring

Name(norm, form) == [norm |-> norm, form |-> form]
Entry(record, declared) == [record |-> record, declared |-> declared]

Stock == Name(<<"stock">>, 0)
StockDot == Name(<<"stock">>, 1)
StockList == Name(<<"stock", "list">>, 0)
Orders == Name(<<"orders">>, 0)
Divider == Name(<<>>, 1)
X == Name(<<"x">>, 0)
X2 == Name(<<"x", "2">>, 0)
XDot == Name(<<"x">>, 1)

MCRoles == {"source", "target", "technical", "transformation", "filter"}
MCClassify == [h \in {"Source", "Technical", "Target", "Rule", "Filter"} |->
    CASE h = "Source" -> "source" [] h = "Technical" -> "technical" [] h = "Target" -> "target"
      [] h = "Rule" -> "transformation" [] h = "Filter" -> "filter"]
MCGeneric == {"Key"}
MCNumerals == <<"1", "2", "3", "4", "5", "6", "7">>

(* A banner with a condition, a blank line among the rows.                 *)
Full == << <<"Filter", "date = now", "", "">>,
           <<"Source", "Technical", "Rule", "Key">>,
           <<"day", "date", "trim", "">>,
           <<"", "", "", "">>,
           <<"qty", "", "sum it", "k">>,
           <<"", "", "remark", "">> >>
(* Nothing but rows; the source names no column.                           *)
Plain == << <<"Source", "Target">>, <<"nowhere", "there">> >>
Notes == << <<"Key", "words">>, <<"a", "b">> >>
Bare == << <<"Source", "Target">> >>
Empty == <<>>

Book(sheets, header, entries, grids) ==
    [sheets |-> sheets, header |-> header, entries |-> entries,
     grids |-> [i \in Range(sheets) |-> grids[CHOOSE k \in DOMAIN sheets : sheets[k] = i]]]

MCBooks ==
    {Book(<<IndexName, Stock, StockDot, StockList, Orders, Divider>>, TRUE,
          <<Entry(Stock, NoName), Entry(Orders, NoName), Entry(Orders, StockList),
            Entry(NoName, Orders), Entry(StockList, NoName), Entry(X, Name(<<"orders">>, 3))>>,
          <<Notes, Plain, Plain, Empty, Full, Empty>>),
     Book(<<X, X2, XDot>>, FALSE, <<>>, <<Full, Bare, Notes>>),
     Book(<<IndexName, Orders, Divider>>, FALSE, <<Entry(Stock, NoName)>>, <<Notes, Notes, Plain>>),
     Book(<<IndexName>>, TRUE, <<>>, <<Full>>)}

(* The conditions of the only preamble cell with one, whole and in part,   *)
(* and with the word in the cell before it.                                *)
MCAppearsIn(text, preamble) ==
    /\ text \in {"date = now", "now", "Filter", "Filter date"}
    /\ \E line \in Range(preamble) : "date = now" \in Range(line)

Item(text, field) == [text |-> text, field |-> field]
MCHeaderAnswers ==
    {<<Item("date = now", "date"), Item("date = now", "date"), Item("qty > 1", "qty")>>,
     <<Item("date = now", "when"), Item("Filter date", "qty"), Item("now", "date")>>}

MCRowAnswers == SeqOf({-1, 0, 1, 7}, 2) \cup {<<-1, 0, 1, -2, 0>>, <<1, -2>>}

Place(row, column) == [row |-> row, column |-> column]
MCFieldAnswers ==
    {<<Place(0, "date"), Place(1, "qty"), Place(-1, "date")>>,
     <<Place(1, "plant"), Place(1, "qty"), Place(0, "nosuch")>>, <<Place(-2, "qty")>>}

Node(intent, rows) == [intent |-> intent, rows |-> rows]
MCChainAnswers ==
    {<<Node("aggregate", <<1, 0>>), Node("date_rebucket", <<0>>), Node("filter", <<-1>>)>>,
     <<Node("value_crosswalk", <<1, 7>>), Node("rename", <<0>>)>>,
     <<Node("value_crosswalk", <<0, 1>>)>>}

Op(op, field, by, measures, sound) ==
    [op |-> op, field |-> field, by |-> by, measures |-> measures, sound |-> sound]
MCOperationAnswers ==
    {[operations |-> <<Op("aggregate_group", "", {"plant"}, {"qty"}, TRUE),
                       Op("date_bucket", "date", {}, {}, sound), other>>,
      proposed |-> proposed] :
        sound \in BOOLEAN,
        other \in {Op("date_bucket", "qty", {}, {}, TRUE), Op("trim", "nosuch", {}, {}, TRUE),
                   Op("conjure", "qty", {}, {}, TRUE),
                   Op("aggregate_group", "", {"date"}, {"plant"}, TRUE)},
        proposed \in {<<>>, <<[name |-> "trim", rows |-> {0}], [name |-> "shift", rows |-> {-1}]>>}}

Rule(field, instruction) == [field |-> field, instruction |-> instruction]
MCRuleSheets ==
    [transformation : {<<>>, <<Rule("qty", <<"trim", "guess">>), Rule("day", <<"upper">>)>>,
                       <<Rule("", <<"trim">>), Rule("date", <<>>)>>},
     other : {<<>>, <<Rule("qty", <<"equal">>)>>}]

(* What follows reads the parsed sheet alone: it is explored from the sheet *)
(* of a single pick, whose answer landed.                                  *)
MCFromOnePick == step' = "picking" \/ (Len(picks) = 1 /\ requests = {} /\ ~mishap)

MCModelBodies ==
    {[compiler |-> "llm", operations |-> <<>>, notes |-> {},
      owned |-> [f \in Owned |-> IF f \in invented THEN "model" ELSE "empty"]] :
        invented \in {{}, {"aggregation_rules"}, {"business_key", "value_mappings"}}}
=============================================================================
