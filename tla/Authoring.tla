------------------------------- MODULE Authoring -------------------------------
(***************************************************************************)
(* From a mapping workbook to a recipe or a draft contract                 *)
(* (mapping_resolution.py, service.compile_draft, compiler/*.py): the user *)
(* picks interfaces, whose worksheets are parsed by requests that answer   *)
(* in any order; then the wizard either resolves the sheet it holds in     *)
(* five model calls, each gated against what the previous one left, or     *)
(* compiles it into a draft contract.  The model may answer anything of    *)
(* the answer sets, and every call may fail.                               *)
(***************************************************************************)
EXTENDS MappingSheet

CONSTANTS Books,            \* workbooks that are uploaded
          Columns,          \* the real source columns
          Operations,       \* the registry's names (`is_allowed`)
          Recognised,       \* instructions `compile_instruction_to_ops` knows
          HeaderAnswers, RowAnswers, FieldAnswers, ChainAnswers, OperationAnswers,
          RuleSheets,       \* what the Business Rules Builder may hold
          ModelBodies,      \* contract bodies the model may write
          AppearsIn(_, _),  \* a text, and the preamble whose cells it is copied from
          MaxPicks          \* bound: interfaces picked of one workbook

(* A workbook has cells of text, and no more sheets or index rows than     *)
(* there are numerals to number them with.                                 *)
ASSUME BooksAssumption ==
    \A b \in Books :
        /\ b.sheets \in Seq(SheetName) /\ Len(b.sheets) <= Len(Numerals)
        /\ b.entries \in Seq([record : SheetName, declared : SheetName])
        /\ Len(b.entries) <= Len(Numerals)
        /\ b.grids \in [Range(b.sheets) -> Seq(Seq(STRING))]

(* What the model may answer has the shape the code reads out of its JSON, *)
(* and no column has an empty name.                                        *)
ASSUME AnswersAssumption ==
    /\ NoText \notin Columns
    /\ HeaderAnswers \subseteq Seq([text : STRING, field : STRING])
    /\ RowAnswers \subseteq Seq(Int)
    /\ FieldAnswers \subseteq Seq([row : Int, column : STRING])
    /\ ChainAnswers \subseteq Seq([intent : STRING, rows : Seq(Int)])
    /\ \A a \in OperationAnswers :
          a.operations \in Seq([op : STRING, field : STRING, by : SUBSET STRING,
                               measures : SUBSET STRING, sound : BOOLEAN])

(* What the user wrote, and drafts the model wrote: only the offline       *)
(* compiler signs as "stub".                                               *)
ASSUME DraftsAssumption ==
    /\ RuleSheets \subseteq [transformation : Seq([field : STRING, instruction : Seq(STRING)]),
                             other : Seq([field : STRING, instruction : Seq(STRING)])]
    /\ \A b \in ModelBodies : b.compiler # "stub"

(* The parts of a contract no compiler may decide.                         *)
Owned == {"business_key", "compare_fields", "value_mappings", "aggregation_rules"}

VARIABLES step, book,
          picks,    \* history: the places of the interfaces the user picked
          requests, \* parse requests under way: the pick and the worksheet sent
          loading,  \* the page waits for the answer to its last pick
          parsed,   \* the parser's payload the wizard holds
          landed,   \* history: the pick whose answer `parsed` is
          mishap,   \* history: an answer failed, or the page was left waiting
          res,      \* what `resolve_mapping` has found so far
          draft     \* the draft `compile_draft` returned

pickVars == <<picks, requests, loading, parsed, landed, mishap>>
authoringVars == <<step, book, pickVars, res, draft>>

NothingFound == [headers |-> <<>>, relevant |-> <<>>, rows |-> <<>>, enriched |-> <<>>,
                 chain |-> <<>>, operations |-> <<>>, proposed |-> <<>>, pairing |-> {},
                 degraded |-> FALSE]
NoSheet == [heads |-> <<>>, rows |-> <<>>, preamble |-> <<>>, candidates |-> <<>>]
NoDraft == [compiler |-> "none", operations |-> <<>>, notes |-> {},
            owned |-> [f \in Owned |-> "empty"], human |-> {}, rules |-> <<>>]

AuthoringInit ==
    /\ step = "picking" /\ book \in Books
    /\ picks = <<>> /\ requests = {} /\ loading = FALSE
    /\ parsed = NoSheet /\ landed = 0 /\ mishap = FALSE
    /\ res = NothingFound /\ draft = NoDraft

-----------------------------------------------------------------------------
(* Picking and parsing                                                     *)

(* mutant: the list stays enabled while the page waits.                    *)
ListIsOpenWaiting == step = "picking"

(* The list is disabled while the page waits for a worksheet.              *)
ListIsOpen == step = "picking" /\ ~loading

(* It offers the interfaces that resolved; the selection keeps the id      *)
(* alone, and the first interface of that id is the one sent to parse.     *)
Pick ==
    /\ ListIsOpen /\ Len(picks) < MaxPicks
    /\ \E i \in DOMAIN Interfaces(book) :
         LET all == Interfaces(book)
             found == all[Min({k \in DOMAIN all : all[k].id = all[i].id})]
         IN /\ all[i].sheet # NoName
            /\ picks' = Append(picks, i)
            /\ loading' = (found.sheet # NoName)
            /\ requests' = requests \cup {[pick |-> Len(picks) + 1, sheet |-> s] : s \in {found.sheet} \ {NoName}}
    /\ UNCHANGED <<step, book, parsed, landed, mishap, res, draft>>

(* The page is left and entered again: it no longer waits, the request     *)
(* goes on.                                                                *)
Revisit ==
    /\ step = "picking" /\ loading
    /\ loading' = FALSE /\ mishap' = TRUE
    /\ UNCHANGED <<step, book, picks, requests, parsed, landed, res, draft>>

(* An answer lands, whichever was asked for since.  An empty worksheet is  *)
(* an error: the sheet parsed before, if any, stays.                       *)
Parse ==
    /\ step = "picking"
    /\ \E r \in requests :
         /\ requests' = requests \ {r}
         /\ loading' = (loading /\ r.pick # Len(picks))
         /\ \/ /\ book.grids[r.sheet] # <<>>
               /\ parsed' = ParseSheet(book.grids[r.sheet]) /\ landed' = r.pick
               /\ UNCHANGED mishap
            \/ mishap' = TRUE /\ UNCHANGED <<parsed, landed>>
    /\ UNCHANGED <<step, book, picks, res, draft>>

-----------------------------------------------------------------------------
(* `resolve_mapping`                                                       *)

(* A failed call leaves its step empty and the resolution degraded.        *)
Degrade == res' = [res EXCEPT !.degraded = TRUE]

Known(text) == text \in Columns

(* With no provider configured nothing is asked.  The request carries the  *)
(* sheet the wizard holds; what lands later is not of this resolution.     *)
StartResolution ==
    /\ step = "picking" /\ landed # 0
    /\ \/ step' = "filters" /\ UNCHANGED res
       \/ step' = "resolved" /\ Degrade
    /\ UNCHANGED <<book, pickVars, draft>>

(* Call 0: conditions that stand in the preamble, on a real column, counted *)
(* from -1 down so that they never meet a table row.                       *)
HeaderCandidate(item, index) ==
    [row |-> index,
     texts |-> [r \in Roles |-> CASE r = "technical" -> item.field
                                  [] r = "filter" -> item.text
                                  [] OTHER -> NoText]]

Repeats(answer, i) == \E j \in 1 .. i - 1 : answer[j] = answer[i]

HeaderFilters(sheet, answer) ==
    LET kept == At(answer, {i \in DOMAIN answer :
                               /\ answer[i].text # NoText /\ AppearsIn(answer[i].text, sheet.preamble)
                               /\ Known(answer[i].field)
                               /\ ~Repeats(answer, i)})
    IN [n \in DOMAIN kept |-> HeaderCandidate(kept[n], -n)]

ExtractHeaderFilters ==
    /\ step = "filters" /\ step' = "relevant"
    /\ \/ parsed.preamble = <<>> /\ UNCHANGED res
       \/ /\ parsed.preamble # <<>>
          /\ \/ \E answer \in HeaderAnswers :
                    res' = [res EXCEPT !.headers = HeaderFilters(parsed, answer)]
             \/ Degrade
    /\ UNCHANGED <<book, pickVars, draft>>

(* Call 1: the candidates the model names, once each, with their rows; a   *)
(* condition of the preamble has no row.                                   *)
RelevantOf(candidates, answer) ==
    LET Places(row) == {j \in DOMAIN candidates : candidates[j].row = row}
        named == At(answer, {i \in DOMAIN answer : Places(answer[i]) # {} /\ ~Repeats(answer, i)})
    IN [k \in DOMAIN named |-> candidates[Max(Places(named[k]))]]

(* mutant: a negative index reaches the end of the rows.                   *)
RowAtAny(rows, i) ==
    IF i < Len(rows) THEN rows[IF i < 0 THEN Len(rows) + i + 1 ELSE i + 1] ELSE <<>>

RowAt(rows, i) == IF 0 <= i /\ i < Len(rows) THEN rows[i + 1] ELSE <<>>

SelectRelevantFields ==
    /\ step = "relevant" /\ step' = "enrich"
    /\ LET candidates == parsed.candidates \o res.headers IN
       \/ candidates = <<>> /\ UNCHANGED res
       \/ /\ candidates # <<>>
          /\ \/ \E answer \in RowAnswers :
                    LET kept == RelevantOf(candidates, answer)
                    IN res' = [res EXCEPT !.relevant = kept,
                                   !.rows = [k \in DOMAIN kept |-> RowAt(parsed.rows, kept[k].row)]]
             \/ Degrade
    /\ UNCHANGED <<book, pickVars, draft>>

(* Call 2: a real source column for a relevant row.                        *)
Fits(relevant, item) == (\E c \in Range(relevant) : c.row = item.row) /\ Known(item.column)

EnrichRelevantFields ==
    /\ step = "enrich" /\ step' = "chain"
    /\ \/ res.relevant = <<>> /\ UNCHANGED res
       \/ /\ res.relevant # <<>>
          /\ \/ \E answer \in FieldAnswers :
                    res' = [res EXCEPT !.enriched =
                                At(answer, {i \in DOMAIN answer : Fits(res.relevant, answer[i])})]
             \/ Degrade
    /\ UNCHANGED <<book, pickVars, draft>>

(* Call 3: the nodes on enriched rows, stably sorted by intent; an intent  *)
(* outside the list counts as a transformation.                            *)
TierOf(intent) ==
    CASE intent = "filter" -> 1 [] intent = "date_rebucket" -> 2 [] intent = "aggregate" -> 4
      [] intent = "value_crosswalk" -> 5 [] OTHER -> 3

ChainOf(enriched, answer) ==
    LET rows == {x.row : x \in Range(enriched)}
        nodes == [k \in DOMAIN answer |->
                     [answer[k] EXCEPT !.rows = At(@, {i \in DOMAIN @ : @[i] \in rows})]]
    IN FlattenSeq([t \in 1 .. 5 |-> At(nodes, {k \in DOMAIN nodes : TierOf(nodes[k].intent) = t})])

Annotated(relevant) ==
    \E c \in Range(relevant) : \E r \in Roles \cap {"transformation", "filter", "join_condition"} : c.texts[r] # NoText

BuildTransformationChain ==
    /\ step = "chain" /\ step' = "compile"
    /\ \/ (res.enriched = <<>> \/ ~Annotated(res.relevant)) /\ UNCHANGED res
       \/ /\ res.enriched # <<>> /\ Annotated(res.relevant)
          /\ \/ \E answer \in ChainAnswers :
                    res' = [res EXCEPT !.chain = ChainOf(res.enriched, answer)]
             \/ Degrade
    /\ UNCHANGED <<book, pickVars, draft>>

(* Call 4.  A crosswalk never reaches the model: the columns it touches    *)
(* are left to value pairing.                                              *)
LastPlace(enriched, i) ==
    enriched[Max({k \in DOMAIN enriched : enriched[k].row = i})].column

Crosswalks(chain, enriched) ==
    {LastPlace(enriched, i) :
         i \in UNION {Range(n.rows) : n \in {x \in Range(chain) : x.intent = "value_crosswalk"}}}

(* Every surviving name's field is resolved or null; then every group of   *)
(* the answer, wherever it stands, groups by every bucketed field.         *)
Named(answer) ==
    LET known == At(answer, {i \in DOMAIN answer : answer[i].op \in Operations})
    IN [k \in DOMAIN known |->
           [known[k] EXCEPT !.field = IF Known(@) THEN @ ELSE NoText]]

BucketFields(ops) == {o.field : o \in {x \in Range(ops) : x.op = "date_bucket" /\ x.field # NoText}}

(* mutant: only the groupings after a bucket.                              *)
BondLater(ops) ==
    [k \in DOMAIN ops |-> IF ops[k].op = "aggregate_group"
                          THEN [ops[k] EXCEPT !.by = @ \cup BucketFields(SubSeq(ops, 1, k))]
                          ELSE ops[k]]

Bond(ops) ==
    [k \in DOMAIN ops |-> IF ops[k].op = "aggregate_group"
                          THEN [ops[k] EXCEPT !.by = @ \cup BucketFields(ops)] ELSE ops[k]]

(* The registry's own check; `sound` stands for the parameters that name   *)
(* no column.                                                              *)
Valid(o) ==
    /\ o.sound
    /\ IF o.op = "aggregate_group"
       THEN /\ o.by \subseteq Columns /\ o.measures # {} /\ o.measures \subseteq Columns
            /\ o.by \cap o.measures = {}
       ELSE o.field \in Columns

Usable(ops) == At(ops, {k \in DOMAIN ops : Valid(ops[k])})

(* A proposal for a registry entry is kept for review, and flagged when it *)
(* comes from a condition of the preamble.                                 *)
Proposals(answer, headers) ==
    LET new == At(answer, {i \in DOMAIN answer : answer[i].name \notin Operations})
    IN [k \in DOMAIN new |->
           [name |-> new[k].name,
            flagged |-> \E c \in Range(headers) : c.row \in new[k].rows]]

CompileOperations ==
    /\ step = "compile" /\ step' = "resolved"
    /\ LET pairing == Crosswalks(res.chain, res.enriched)
           asked == {n \in Range(res.chain) : n.intent # "value_crosswalk"} IN
       \/ asked = {} /\ res' = [res EXCEPT !.pairing = pairing]
       \/ /\ asked # {}
          /\ \/ \E answer \in OperationAnswers :
                    res' = [res EXCEPT
                        !.pairing = pairing,
                        !.operations = Usable(Bond(Named(answer.operations))),
                        !.proposed = Proposals(answer.proposed, res.headers)]
             \/ res' = [res EXCEPT !.pairing = pairing, !.degraded = TRUE]
    /\ UNCHANGED <<book, pickVars, draft>>

-----------------------------------------------------------------------------
(* `compile_draft`                                                         *)

(* `normalize_business_rules`; free text counts only without them.         *)
Clean(rules) ==
    At(rules, {i \in DOMAIN rules : rules[i].field # NoText /\ rules[i].instruction # <<>>})

(* `_resolve_field`: the field as named, else the technical name.          *)
FieldOf(primary, technical) ==
    IF Known(primary) THEN primary ELSE IF Known(technical) THEN technical ELSE NoText

(* `_compile_directives`: what is recognised runs, the rest is noted; an    *)
(* unresolved field has no operations.                                     *)
Compiled(field, instruction) ==
    LET known == At(instruction, {i \in DOMAIN instruction :
                                     field # NoText /\ instruction[i] \in Recognised})
    IN [k \in DOMAIN known |-> [op |-> known[k], field |-> field]]

Leftover(label, instruction) ==
    {<<label, d>> : d \in Range(instruction) \ Recognised}

RowField(c) == FieldOf(c.texts["source"], c.texts["technical"])
RowInstruction(c) ==
    LET text == c.texts["transformation"] IN IF text = NoText THEN <<>> ELSE <<text>>

(* The stub reads a row that names a source, and every rule; matching and  *)
(* filter rules and free text go to the notes as they are.                 *)
SourceRows(sheet) ==
    At(sheet.candidates, {i \in DOMAIN sheet.candidates : sheet.candidates[i].texts["source"] # NoText})
RuleField(r) == FieldOf(r.field, NoText)

StubOperations(sheet, rules) ==
    LET rows == SourceRows(sheet)
        rule == rules.transformation
    IN FlattenSeq([k \in DOMAIN rows |-> Compiled(RowField(rows[k]), RowInstruction(rows[k]))])
       \o FlattenSeq([k \in DOMAIN rule |-> Compiled(RuleField(rule[k]), rule[k].instruction)])

RowNotes(c) ==
    IF RowField(c) = NoText THEN {<<"skipped", c.texts["source"]>>}
    ELSE Leftover(RowField(c), RowInstruction(c))

Verbatim(r) == {<<r.field, d>> : d \in Range(r.instruction)}

(* mutant: of an unresolved rule only the field's name.                    *)
RuleNotesNameOnly(r) ==
    IF RuleField(r) = NoText THEN {<<r.field, "skipped">>} ELSE Leftover(r.field, r.instruction)

RuleNotes(r) ==
    IF RuleField(r) = NoText THEN Verbatim(r) ELSE Leftover(r.field, r.instruction)

StubNotes(sheet, rules) ==
    UNION ({RowNotes(c) : c \in Range(SourceRows(sheet))}
           \cup {RuleNotes(r) : r \in Range(rules.transformation)}
           \cup {Verbatim(r) : r \in Range(rules.other)})

(* Neither candidates nor rows: the stub has nothing to compile.           *)
NothingToCompile(sheet) == sheet.candidates = <<>> /\ sheet.rows = <<>>

StubBody(sheet, rules) ==
    [compiler |-> "stub", operations |-> StubOperations(sheet, rules),
     notes |-> StubNotes(sheet, rules), owned |-> [f \in Owned |-> "empty"]]

(* What the caller confirmed replaces what the body holds, part by part.   *)
Attach(body, human) ==
    [f \in Owned |-> IF f \in human THEN "human" ELSE body.owned[f]]

Drafted(body, human, rules) ==
    draft' = [compiler |-> body.compiler, operations |-> body.operations, notes |-> body.notes,
              owned |-> Attach(body, human), human |-> human, rules |-> rules]

(* The model's draft when it answers in the contract's schema, else the    *)
(* stub's.  An empty sheet is refused by the stub, a failed call by the    *)
(* strict mode.                                                            *)
CompileDraft ==
    /\ step = "picking" /\ landed # 0
    /\ \E sheet \in RuleSheets, human \in SUBSET Owned :
         LET rules == [transformation |-> Clean(sheet.transformation), other |-> Clean(sheet.other)] IN
         \/ \E body \in ModelBodies : Drafted(body, human, rules) /\ step' = "drafted"
         \/ /\ ~NothingToCompile(parsed)
            /\ Drafted(StubBody(parsed, rules), human, rules) /\ step' = "drafted"
         \/ step' = "refused" /\ UNCHANGED draft
    /\ UNCHANGED <<book, pickVars, res>>

(* The last clause is the bound's: no pick is left and none was parsed.    *)
Done ==
    /\ \/ step \in {"resolved", "drafted", "refused"}
       \/ Len(picks) = MaxPicks /\ requests = {} /\ landed = 0
    /\ UNCHANGED authoringVars

AuthoringNext ==
    \/ Pick \/ Revisit \/ Parse \/ CompileDraft
    \/ StartResolution \/ ExtractHeaderFilters \/ SelectRelevantFields
    \/ EnrichRelevantFields \/ BuildTransformationChain \/ CompileOperations
    \/ Done

AuthoringSpec == AuthoringInit /\ [][AuthoringNext]_authoringVars

-----------------------------------------------------------------------------
(* Properties                                                              *)

(* The sheet the wizard holds is the worksheet of an interface the user    *)
(* picked, although it passes ids around and two names may slug alike:     *)
(* that of the pick whose answer landed last.  It is the last pick's, or   *)
(* that one is awaited, until an answer fails or the page is left waiting; *)
(* from then on an earlier pick's may stay, or land after it.              *)
PickedIsParsed ==
    /\ landed # 0 => parsed = ParseSheet(book.grids[Interfaces(book)[picks[landed]].sheet])
    /\ landed = Len(picks) \/ loading \/ mishap

(* Whatever the model answers, a resolution speaks of the sheet and of the *)
(* real columns: every relevant candidate is the sheet's or a condition of *)
(* its preamble, travels with the row it was read from, and every later    *)
(* step stays inside the one before it.                                    *)
AnswersAreGrounded ==
    /\ \A k \in DOMAIN res.relevant :
         LET c == res.relevant[k] IN
         \/ c \in Range(parsed.candidates) /\ CandidateOf(parsed.heads, res.rows[k], c.row) = c
         \/ c \in Range(res.headers) /\ res.rows[k] = <<>>
    /\ \A x \in Range(res.enriched) :
         x.column \in Columns /\ x.row \in {c.row : c \in Range(res.relevant)}
    /\ \A n \in Range(res.chain) : Range(n.rows) \subseteq {x.row : x \in Range(res.enriched)}
    /\ res.pairing \subseteq {x.column : x \in Range(res.enriched)}

(* A date bucketed for a grouping is what the grouping groups by: of the   *)
(* operations that survive, every aggregation has every bucketed field     *)
(* among its keys, in whatever order the model emitted them.               *)
BucketedGroupsAreBonded ==
    \A b, g \in Range(res.operations) :
        (b.op = "date_bucket" /\ g.op = "aggregate_group") => b.field \in g.by

(* The offline compiler loses none of the user's rules: each instruction   *)
(* is an operation on the field it names or stands in the notes.           *)
InstructionsKept ==
    (draft.compiler = "stub") =>
        /\ \A r \in Range(draft.rules.transformation) : \A d \in Range(r.instruction) :
             \/ \E o \in Range(draft.operations) : o.op = d /\ o.field = r.field
             \/ <<r.field, d>> \in draft.notes
        /\ \A r \in Range(draft.rules.other) : \A d \in Range(r.instruction) :
             <<r.field, d>> \in draft.notes

=============================================================================
