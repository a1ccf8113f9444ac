------------------------------- MODULE Engine -------------------------------
(***************************************************************************)
(* From an approved contract to the downloaded workbook: the two gates     *)
(* (validation/), the executor that derives Shadow_Source from Raw_Source  *)
(* (engine/executor.py with operations/), the outer join with Raw_Target   *)
(* (engine/reconciler.py), and what the export says about the rows         *)
(* (service.attach_field_values, _compute_operation_outcomes).             *)
(*                                                                         *)
(* A frame is a set of columns and a sequence of rows; a row carries the   *)
(* ids of the raw rows it derives from.  One step is one operation of the  *)
(* recipe or one stage; frames are read when the code first loads them.    *)
(***************************************************************************)
EXTENDS Positions, SequencesExt

CONSTANTS
  Contracts,  \* contracts that may be submitted
  Sources,    \* raw source frames: sequences of cells by column
  Targets,    \* raw target frames
  SampleMin,  \* replay_sample_min
  SampleMax,  \* replay_sample_max
  Unfound,    \* group keys that pandas does not find again by their value
  RaisesOn(_, _, _)  \* whether a step of a contract raises on the values of these rows

VARIABLES
  stage,     \* what the service does next
  contract,  \* ops, keys, matches by key field, rules, compare
  source,    \* Raw_Source, never written
  target,    \* Raw_Target
  todo,      \* steps of the executor still to run
  build,     \* what the executor has derived so far (ShadowBuildResult)
  detail,    \* the detail records
  outcomes   \* what the workbook says of each operation

engineVars == <<stage, contract, source, target, todo, build, detail, outcomes>>

None == "none"
Blank == ""
Null == "null"  \* None, NaN and NaT alike
Empty == {Blank, Null}
SourceColumns == {"K", "D", "Q", "C"}
PairColumn == "pair_K"
Kept == {"very_high", "high"}

-----------------------------------------------------------------------------
(* The registry of operations.                                             *)

Registry ==
  {"exclude_value", "reject_null", "value_mapping", "calculated_column", "rename_field",
   "sum_aggregate", "deduplicate"}

Kind(o) ==
  CASE o.op \in {"exclude_value", "reject_null"} -> "filter"
    [] o.op \in {"value_mapping", "calculated_column", "rename_field"} -> "transform"
    [] o.op \in {"sum_aggregate", "deduplicate"} -> "aggregate"

(* Lists are lists, every operation is one the registry has, and none sums  *)
(* a column that it also groups by.                                        *)
ASSUME ContractsAssumption ==
  \A c \in Contracts :
    /\ c.ops \in Seq(ToSet(c.ops)) /\ c.keys \in Seq(ToSet(c.keys))
    /\ \A o \in ToSet(c.ops) : o.op \in Registry
    /\ \A o \in ToSet(c.ops) : o.op = "sum_aggregate" => o.field \notin ToSet(o.by)
    /\ \A field \in DOMAIN c.matches : c.matches[field] \in Seq(ToSet(c.matches[field]))

ASSUME FramesAssumption ==
  \A rows \in Sources \union Targets : rows \in Seq(ToSet(rows))

ASSUME SampleAssumption == SampleMin \in Nat /\ SampleMax \in Nat

(* A group is looked up by the key that the aggregation returned.  Which    *)
(* keys with a null in them an index finds depends on the version of pandas *)
(* and on the number of columns; one without is always found.              *)
ASSUME UnfoundAssumption == \A key \in Unfound : \E i \in DOMAIN key : key[i] = Null

\* Columns an operation reads.
Reads(o) ==
  CASE o.op = "sum_aggregate" -> ToSet(o.by) \union {o.field}
    [] o.op = "deduplicate" -> ToSet(o.by)
    [] OTHER -> {o.field}

\* The columns Gate 1 believes there are after an operation.
ColumnsAfter(columns, o) ==
  CASE o.op = "rename_field" /\ o.field \in columns -> (columns \ {o.field}) \union {o.to}
    [] o.op = "calculated_column" -> columns \union {o.to}
    [] OTHER -> columns

\* The period a date falls in, named by its start; a value that is no date becomes a null.
PeriodStart(d) == IF d \in {"d1", "d2"} THEN "d1" ELSE Null

\* A key value as the join compares it: trimmed and case-folded, a null as a blank.
Normalised(v) ==
  CASE v = "X" -> "x"
    [] v = Null -> Blank
    [] OTHER -> v

Enabled(ops) == SelectSeq(ops, LAMBDA o : o.enabled)
OfKind(ops, kind) == At(ops, {i \in DOMAIN ops : ops[i].enabled /\ Kind(ops[i]) = kind})

SourceKeys(c) == [i \in DOMAIN c.keys |-> c.keys[i].source]
TargetKeys(c) == [i \in DOMAIN c.keys |-> c.keys[i].target]

(* Gate 1 follows the columns through the operations in the order they were *)
(* authored and checks every name against them.                            *)
GateOne(c) ==
  LET walk == FoldLeft(LAMBDA seen, o :
                [columns |-> ColumnsAfter(seen.columns, o),
                 ok |-> seen.ok /\ Reads(o) \subseteq seen.columns],
                [columns |-> SourceColumns, ok |-> TRUE], Enabled(c.ops))
      live == walk.columns
  IN  /\ walk.ok
      /\ c.keys # <<>>
      /\ ToSet(SourceKeys(c)) \subseteq live
      /\ \A i \in DOMAIN c.compare : c.compare[i].source \in live
      /\ \A r \in c.rules : r.field \in live

-----------------------------------------------------------------------------
(* The executor.                                                           *)

RawFrame(rows) ==
  [columns |-> SourceColumns,
   rows |-> [i \in DOMAIN rows |-> [cell |-> rows[i], ids |-> <<i>>]]]

\* The stages in their fixed order, whatever order the recipe has.
Pipeline(c) ==
  OfKind(c.ops, "filter") \o OfKind(c.ops, "transform")
    \o <<[op |-> "value_mappings"]>> \o OfKind(c.ops, "aggregate")
    \o <<[op |-> "aggregation_rules"]>>

IdsOf(f) == UNION {ToSet(f.rows[i].ids) : i \in DOMAIN f.rows}
Cell(row, col) == row.cell[col]
WithCell(row, col, v) ==
  [row EXCEPT !.cell = [k \in DOMAIN row.cell \union {col} |-> IF k = col THEN v ELSE row.cell[k]]]
MapRows(f, Change(_)) == [i \in DOMAIN f.rows |-> Change(f.rows[i])]

Rejects(o, row) ==
  IF o.op = "reject_null" THEN Cell(row, o.field) \in Empty
                          ELSE Cell(row, o.field) \in o.values

Filtered(f, o) ==
  [f EXCEPT !.rows = At(f.rows, {i \in DOMAIN f.rows : ~Rejects(o, f.rows[i])})]

Transformed(f, o) ==
  CASE o.op = "value_mapping" ->
         [f EXCEPT !.rows = MapRows(f, LAMBDA row :
            IF Cell(row, o.field) = o.from THEN WithCell(row, o.field, o.to) ELSE row)]
    [] o.op = "calculated_column" ->
         [columns |-> f.columns \union {o.to},
          rows |-> MapRows(f, LAMBDA row : WithCell(row, o.to, 2 * Cell(row, o.field)))]
    [] o.op = "rename_field" -> f  \* of a column that is not there

\* Raw rows whose tracked column changed; all of them for a new column.
Changed(f, g, o) ==
  LET col == IF o.op = "calculated_column" THEN o.to ELSE o.field
  IN  IF col \notin f.columns THEN IdsOf(f)
      ELSE UNION {ToSet(f.rows[i].ids) : i \in
             {j \in DOMAIN f.rows : col \in g.columns
                                      /\ Cell(f.rows[j], col) # Cell(g.rows[j], col)}}

GroupKey(row, by) == [i \in DOMAIN by |-> Cell(row, by[i])]
SameGroup(f, by, i) == {j \in DOMAIN f.rows : GroupKey(f.rows[j], by) = GroupKey(f.rows[i], by)}
SumOf(f, col, places) == FoldLeft(LAMBDA n, i : n + Cell(f.rows[i], col), 0, SetToSeq(places))

\* Mutant: a collapsed row keeps the lineage of its first row only.
IdsOfFirst(f, places) == f.rows[CHOOSE i \in places : \A j \in places : i <= j].ids

IdsIn(f, places) == FlattenSeq(At([i \in DOMAIN f.rows |-> f.rows[i].ids], places))

\* The lineage of a group: none at all if its key is not found again.
Lineage(f, by, i) ==
  IF GroupKey(f.rows[i], by) \in Unfound THEN <<>> ELSE IdsIn(f, SameGroup(f, by, i))

(* Rows collapse to one per group, with the lineage of the group.  Keep(i)  *)
(* tells the row that stands for its group, Row(i) what it becomes.        *)
Grouped(f, by, columns, Keep(_), Row(_)) ==
  LET kept == InOrder({i \in DOMAIN f.rows : Keep(i)})
  IN  [columns |-> columns,
       rows |-> [n \in DOMAIN kept |->
                  [cell |-> Row(kept[n]), ids |-> Lineage(f, by, kept[n])]]]

FirstOfGroup(f, by, i) == \A j \in SameGroup(f, by, i) : i <= j
LastOfGroup(f, by, i) == \A j \in SameGroup(f, by, i) : j <= i

Aggregated(f, o) ==
  IF o.op = "deduplicate"
  THEN Grouped(f, o.by, f.columns,
         LAMBDA i : IF o.keep = "last" THEN LastOfGroup(f, o.by, i) ELSE FirstOfGroup(f, o.by, i),
         LAMBDA i : f.rows[i].cell)
  ELSE Grouped(f, o.by, ToSet(o.by) \union {o.field},
         LAMBDA i : FirstOfGroup(f, o.by, i),
         LAMBDA i : [col \in ToSet(o.by) \union {o.field} |->
           IF col = o.field THEN SumOf(f, col, SameGroup(f, o.by, i))
                            ELSE Cell(f.rows[i], col)])

(* Period buckets and the measures of aggregation_rules, grouped by the key *)
(* and the bucketed fields; a compare field keeps its first value.         *)
RuleFields(c, f, kind) == {r.field : r \in {q \in c.rules : q.kind = kind /\ q.field \in f.columns}}
Bucketed(f, fields) ==
  [f EXCEPT !.rows = MapRows(f, LAMBDA row :
     [row EXCEPT !.cell = [col \in DOMAIN row.cell |->
        IF col \in fields THEN PeriodStart(row.cell[col]) ELSE row.cell[col]]])]

RuleKeys(c, f) ==
  SetToSeq((ToSet(SourceKeys(c)) \union RuleFields(c, f, "period")) \cap f.columns)
RuleColumns(c, f) ==
  (ToSet(RuleKeys(c, f)) \union RuleFields(c, f, "sum")
     \union {c.compare[i].source : i \in DOMAIN c.compare}) \cap f.columns

\* The frame with its periods in place, before the rules group it.
InPeriods(c, f) == Bucketed(f, RuleFields(c, f, "period"))

AggregatedByRules(c, f) ==
  LET g == InPeriods(c, f)
      by == RuleKeys(c, f)
      sums == RuleFields(c, f, "sum") \ ToSet(by)
  IN  IF c.rules = {} THEN f
      ELSE IF by = <<>> THEN g
      ELSE Grouped(g, by, RuleColumns(c, f),
             LAMBDA i : FirstOfGroup(g, by, i),
             LAMBDA i : [col \in RuleColumns(c, f) |->
               IF col \in sums THEN SumOf(g, col, SameGroup(g, by, i)) ELSE Cell(g.rows[i], col)])

(* Value mapping and key completeness.  A row becomes one row per accepted  *)
(* candidate of its value; without one it is held out.                     *)
Recorded(c, field, v) ==
  LET all == c.matches[field] IN At(all, {i \in DOMAIN all : all[i].source = v})
Accepted(c, field, v) ==
  LET all == Recorded(c, field, v)
  IN  At(all, {i \in DOMAIN all : all[i].confidence \in Kept /\ all[i].target # None})

Mapped(c, field) == field \in DOMAIN c.matches

HoldRule(c, field, v) ==
  CASE v \in Empty -> "key_completeness"
    [] v \notin Empty /\ ~Mapped(c, field) -> None
    [] v \notin Empty /\ Mapped(c, field) /\ Recorded(c, field, v) = <<>> -> "unclassified"
    [] v \notin Empty /\ Mapped(c, field) /\ Recorded(c, field, v) # <<>> ->
         IF Accepted(c, field, v) = <<>> THEN "not_confident" ELSE None

\* Rows one row becomes for one key field.
Resolved(c, field, row) ==
  LET v == Cell(row, field)
      chosen == Accepted(c, field, v)
  IN  IF HoldRule(c, field, v) # None THEN <<[row EXCEPT !.keep = FALSE]>>
      ELSE IF ~Mapped(c, field) THEN <<row>>
      ELSE [n \in DOMAIN chosen |->
             WithCell(WithCell(row, field, chosen[n].target), PairColumn, chosen[n].pair)]

MapKeyField(c, acc, field) ==
  IF field \notin acc.columns THEN acc
  ELSE LET held == At(acc.rows, {i \in DOMAIN acc.rows :
                                   HoldRule(c, field, Cell(acc.rows[i], field)) # None})
       IN  [columns |-> acc.columns \union (IF Mapped(c, field) THEN {PairColumn} ELSE {}),
            rows |-> FlattenSeq(MapRows(acc, LAMBDA row : Resolved(c, field, row))),
            held |-> acc.held \o [i \in DOMAIN held |->
                       [field |-> field, id |-> Head(held[i].ids),
                        rule |-> HoldRule(c, field, Cell(held[i], field))]]]

\* The key fields in the order of the contract.
Unmapped(f) ==
  [columns |-> f.columns, held |-> <<>>,
   rows |-> MapRows(f, LAMBDA row : [cell |-> row.cell, ids |-> row.ids, keep |-> TRUE])]
MapKeyFields(c, f) ==
  LET after[n \in 0..Len(SourceKeys(c))] ==
        IF n = 0 THEN Unmapped(f) ELSE MapKeyField(c, after[n - 1], SourceKeys(c)[n])
  IN  after[Len(SourceKeys(c))]

KeptRows(acc) ==
  LET kept == At(acc.rows, {i \in DOMAIN acc.rows : acc.rows[i].keep})
  IN  [columns |-> acc.columns,
       rows |-> [i \in DOMAIN kept |-> [cell |-> kept[i].cell, ids |-> kept[i].ids]]]

(* One step of the executor.  It raises when it reads a column that is not  *)
(* there (_changed_row_ids also reads the column a transform was applied   *)
(* to, after the transform), when the aggregation rules have nothing to    *)
(* aggregate, and on values it cannot take: text written into a column of  *)
(* numbers, say.  "nulled" is history and not in the code: the raw rows    *)
(* that were grouped under a key with a null in it.                        *)
NoBuild == [frame |-> [columns |-> {}, rows |-> <<>>], held |-> <<>>, stats |-> <<>>,
            raised |-> None, nulled |-> {}]
FreshBuild(rows) == [NoBuild EXCEPT !.frame = RawFrame(rows)]

WithStat(b, o, f, applied) ==
  [b EXCEPT !.frame = f,
            !.stats = Append(@, [op |-> o.op, kind |-> Kind(o), applied |-> applied])]

ColumnMissing(c, o, f) ==
  CASE o.op = "rename_field" -> o.field \in f.columns
    [] o.op = "value_mappings" -> FALSE
    [] o.op = "aggregation_rules" ->
         c.rules # {} /\ RuleKeys(c, f) # <<>> /\ RuleColumns(c, f) \subseteq ToSet(RuleKeys(c, f))
    [] OTHER -> ~(Reads(o) \subseteq f.columns)

Fault(c, o, f) ==
  CASE ColumnMissing(c, o, f) -> "column"
    [] ~ColumnMissing(c, o, f) /\ RaisesOn(c, o.op, f.rows) -> "value"
    [] OTHER -> None

\* Raw rows of which a row has a null among the columns it is grouped by.
NullKeyed(f, by) ==
  UNION {ToSet(f.rows[i].ids) : i \in
    {j \in DOMAIN f.rows : \E n \in DOMAIN by : GroupKey(f.rows[j], by)[n] = Null}}

Operated(b, o) ==
  LET f == b.frame
  IN  CASE Kind(o) = "filter" -> WithStat(b, o, Filtered(f, o), IdsOf(f) \ IdsOf(Filtered(f, o)))
        [] Kind(o) = "transform" -> WithStat(b, o, Transformed(f, o), Changed(f, Transformed(f, o), o))
        [] Kind(o) = "aggregate" ->
             [WithStat(b, o, Aggregated(f, o), IdsOf(Aggregated(f, o)))
                EXCEPT !.nulled = @ \union NullKeyed(f, o.by)]

ValuesMapped(c, b) ==
  LET acc == MapKeyFields(c, b.frame)
  IN  IF c.keys = <<>> THEN b ELSE [b EXCEPT !.frame = KeptRows(acc), !.held = acc.held]

RulesApplied(c, b) ==
  [b EXCEPT !.frame = AggregatedByRules(c, b.frame),
            !.nulled = @ \union (IF c.rules = {} THEN {}
                                 ELSE NullKeyed(InPeriods(c, b.frame), RuleKeys(c, b.frame)))]

Applied(c, b, o) ==
  IF b.raised # None THEN b
  ELSE IF Fault(c, o, b.frame) # None THEN [b EXCEPT !.raised = Fault(c, o, b.frame)]
  ELSE IF o.op = "value_mappings" THEN ValuesMapped(c, b)
  ELSE IF o.op = "aggregation_rules" THEN RulesApplied(c, b)
  ELSE Operated(b, o)

\* build_shadow_source in one go: what is derived after each step, and at the end.
Derived(c, rows) ==
  LET after[n \in 0..Len(Pipeline(c))] ==
        IF n = 0 THEN FreshBuild(rows) ELSE Applied(c, after[n - 1], Pipeline(c)[n])
  IN  after
Built(c, rows) == Derived(c, rows)[Len(Pipeline(c))]

-----------------------------------------------------------------------------
(* The full outer join.                                                    *)

RowKey(row, fields) == [i \in DOMAIN fields |-> Normalised(row.cell[fields[i]])]
KeysOf(rows, fields) == {RowKey(rows[i], fields) : i \in DOMAIN rows}

\* Mutant: the last row of a key stands for it.
RowOfLast(rows, fields, key) ==
  rows[CHOOSE i \in DOMAIN rows :
         /\ RowKey(rows[i], fields) = key
         /\ \A j \in DOMAIN rows : RowKey(rows[j], fields) = key => j <= i]

\* The row that stands for a key: the first one.
RowOf(rows, fields, key) ==
  rows[CHOOSE i \in DOMAIN rows :
         /\ RowKey(rows[i], fields) = key
         /\ \A j \in DOMAIN rows : RowKey(rows[j], fields) = key => i <= j]

TargetRows(rows) == [i \in DOMAIN rows |-> [cell |-> rows[i]]]

Gap(a, b) == IF a > b THEN a - b ELSE b - a

\* A field that is absent or has no tolerance set cannot be verified.
Verified(f, s, t) ==
  /\ f.source \in DOMAIN s.cell
  /\ \E most \in f.tolerance : Gap(s.cell[f.source], t.cell[f.target]) <= most

Differing(c, s, t) == {i \in DOMAIN c.compare : ~Verified(c.compare[i], s, t)}

BothSides(c, rows, tgt, key) ==
  LET s == RowOf(rows, SourceKeys(c), key)
      t == RowOf(tgt, TargetKeys(c), key)
  IN  [key |-> key, ids |-> s.ids,
       class |-> IF Differing(c, s, t) = {} THEN "match" ELSE "mismatch"]

OneSide(c, rows, key, class) ==
  [key |-> key, class |-> class,
   ids |-> IF class = "missing_in_target" THEN RowOf(rows, SourceKeys(c), key).ids ELSE <<>>]

\* The records in the order they are appended; the keys of a set come in any order.
Joined(c, rows, tgt, order) ==
  [i \in DOMAIN order.both |-> BothSides(c, rows, tgt, order.both[i])]
    \o [i \in DOMAIN order.source |-> OneSide(c, rows, order.source[i], "missing_in_target")]
    \o [i \in DOMAIN order.target |-> OneSide(c, rows, order.target[i], "missing_in_source")]

\* Every detail the join of these rows may return.
Details(c, rows, tgt) ==
  LET S == KeysOf(rows, SourceKeys(c))
      T == KeysOf(tgt, TargetKeys(c))
  IN  {Joined(c, rows, tgt, order) :
         order \in [both : SetToSeqs(S \cap T), source : SetToSeqs(S \ T), target : SetToSeqs(T \ S)]}

-----------------------------------------------------------------------------
(* What the export shows: the values behind each record, and how the raw    *)
(* rows each operation applied to came out.                                *)

\* The row of a key, if that side has one.
RowsOf(rows, fields, key) ==
  IF key \in KeysOf(rows, fields) THEN {RowOf(rows, fields, key)} ELSE {}

\* A mapped key shows the raw value of the first row of the lineage.
SourceValue(c, src, row, field) ==
  CASE ~Mapped(c, field) -> row.cell[field]
    [] Mapped(c, field) /\ row.ids # <<>> -> src[Head(row.ids)][field]
    [] OTHER -> None

\* A side without a row, or without the column, counts as 0.
Amount(side, col) ==
  FoldSet(LAMBDA row, n : n + (IF col \in DOMAIN row.cell THEN row.cell[col] ELSE 0), 0, side)

FieldValues(c, src, rows, tgt, record) ==
  LET s == RowsOf(rows, SourceKeys(c), record.key)
      t == RowsOf(tgt, TargetKeys(c), record.key)
  IN  [keys |-> [i \in DOMAIN c.keys |-> {SourceValue(c, src, row, c.keys[i].source) : row \in s}],
       deltas |-> [i \in DOMAIN c.compare |->
                    Amount(s, c.compare[i].source) - Amount(t, c.compare[i].target)]]

WithValues(c, src, rows, tgt, records) ==
  [i \in DOMAIN records |->
     [key |-> records[i].key, class |-> records[i].class, ids |-> records[i].ids,
      values |-> FieldValues(c, src, rows, tgt, records[i])]]

\* The class of a raw row is that of the first record whose lineage has it.
ClassOf(records, id) ==
  LET with == {i \in DOMAIN records : id \in ToSet(records[i].ids)}
  IN  IF with = {} THEN None ELSE records[CHOOSE i \in with : \A j \in with : i <= j].class

\* Raw rows with a known reason for not being classified.
Explained(b) ==
  {b.held[i].id : i \in DOMAIN b.held}
    \union UNION {b.stats[i].applied : i \in {j \in DOMAIN b.stats : b.stats[j].kind = "filter"}}

Outcome(records, b, op, applied) ==
  LET matched == {id \in applied : ClassOf(records, id) = "match"}
      known == {id \in applied : ClassOf(records, id) # None \/ id \in Explained(b)}
  IN  [op |-> op, match |-> matched, mismatch |-> known \ matched, unresolved |-> applied \ known]

FilteredOut(b) ==
  UNION {b.stats[i].applied : i \in {j \in DOMAIN b.stats : b.stats[j].kind = "filter"}}

\* One entry per operation, and one per value-mapped field for the rows that reached it.
Outcomes(c, src, records, b) ==
  [i \in DOMAIN b.stats |-> Outcome(records, b, b.stats[i].op, b.stats[i].applied)]
    \o SetToSeq({Outcome(records, b, "value_pairing", DOMAIN src \ FilteredOut(b))
                   : field \in DOMAIN c.matches})

-----------------------------------------------------------------------------
(* The service.                                                            *)

EngineInit ==
  /\ stage = "submitted"
  /\ contract \in Contracts
  /\ source = <<>> /\ target = <<>>
  /\ todo = <<>>
  /\ build = NoBuild
  /\ detail = <<>> /\ outcomes = <<>>

Structural ==
  /\ stage = "submitted"
  /\ stage' = IF GateOne(contract) THEN "sampled" ELSE "rejected"
  /\ UNCHANGED <<contract, source, target, todo, build, detail, outcomes>>

(* Gate 2 replays the recipe on the head of the source.  Its warnings do    *)
(* not block; what blocks is an exception, in the executor or when it       *)
(* builds the keys, an empty result that no filter and no thin sample       *)
(* explains, and keys that are gone or all empty.                          *)
Sample(rows) == SubSeq(rows, 1, IF Len(rows) < SampleMax THEN Len(rows) ELSE SampleMax)

\* Mutant: the gate does not look for the key fields.
GateTwoNoKeys(c, rows, b) == b.raised = None

GateTwo(c, rows, b) ==
  LET f == b.frame
      keys == KeysOf(f.rows, SourceKeys(c))
      empty == {k \in keys : \A i \in DOMAIN k : k[i] = Blank}
  IN  /\ b.raised = None
      /\ \/ rows = <<>> \/ f.rows # <<>>
         \/ Len(rows) < SampleMin \/ OfKind(c.ops, "filter") # <<>>
      /\ ToSet(SourceKeys(c)) \subseteq f.columns
      /\ ~RaisesOn(c, "join", f.rows)
      /\ keys = {} \/ empty # keys

Replay ==
  /\ stage = "sampled"
  /\ \E rows \in Sources :
       LET b == Built(contract, Sample(rows))
       IN  /\ source' = rows
           /\ build' = b
           /\ stage' = IF GateTwo(contract, Sample(rows), b) THEN "approved" ELSE "rejected"
  /\ UNCHANGED <<contract, target, todo, detail, outcomes>>

StartBuild ==
  /\ stage = "approved"
  /\ stage' = "build"
  /\ build' = FreshBuild(source)
  /\ todo' = Pipeline(contract)
  /\ UNCHANGED <<contract, source, target, detail, outcomes>>

Apply(kind) ==
  /\ stage = "build" /\ todo # <<>>
  /\ IF Head(todo).op \in {"value_mappings", "aggregation_rules"}
     THEN kind = Head(todo).op ELSE kind = Kind(Head(todo))
  /\ build' = Applied(contract, build, Head(todo))
  /\ todo' = Tail(todo)
  /\ stage' = IF build'.raised # None THEN "failed" ELSE "build"
  /\ UNCHANGED <<contract, source, target, detail, outcomes>>

ApplyFilter == Apply("filter")
ApplyTransform == Apply("transform")
ApplyValueMappings == Apply("value_mappings")
ApplyAggregate == Apply("aggregate")
ApplyAggregationRules == Apply("aggregation_rules")

\* The join reads the key columns of a shadow that has rows, and the keys of both
\* sides: an infinite number among them raises.
JoinFault(c, f, tgt) ==
  CASE f.rows # <<>> /\ ~(ToSet(SourceKeys(c)) \subseteq f.columns) -> "column"
    [] OTHER -> IF RaisesOn(c, "join", f.rows) \/ RaisesOn(c, "join", tgt) THEN "value" ELSE None

Reconcile ==
  /\ stage = "build" /\ todo = <<>>
  /\ \E rows \in Targets :
       LET tgt == TargetRows(rows)
           fault == JoinFault(contract, build.frame, tgt)
       IN  /\ build' = [build EXCEPT !.raised = fault]
           /\ target' = rows
           /\ IF fault # None
              THEN stage' = "failed" /\ UNCHANGED detail
              ELSE stage' = "reconciled" /\ detail' \in Details(contract, build.frame.rows, tgt)
  /\ UNCHANGED <<contract, source, todo, outcomes>>

AttachFieldValues ==
  /\ stage = "reconciled"
  /\ stage' = "attached"
  /\ detail' = WithValues(contract, source, build.frame.rows, TargetRows(target), detail)
  /\ UNCHANGED <<contract, source, target, todo, build, outcomes>>

\* The workbook replays the recipe on the raw snapshot and reads the stored detail.
Export ==
  /\ stage = "attached"
  /\ stage' = "exported"
  /\ outcomes' = Outcomes(contract, source, detail, Built(contract, source))
  /\ UNCHANGED <<contract, source, target, todo, build, detail>>

EngineNext ==
  \/ Structural \/ Replay \/ StartBuild
  \/ ApplyFilter \/ ApplyTransform \/ ApplyValueMappings
  \/ ApplyAggregate \/ ApplyAggregationRules
  \/ Reconcile \/ AttachFieldValues \/ Export

EngineSpec == EngineInit /\ [][EngineNext]_engineVars

-----------------------------------------------------------------------------
(* Properties.                                                             *)

Executing == stage \in {"build", "reconciled", "attached", "exported"}
RawIds == DOMAIN source

\* No raw row is lost on the way without a null in a key: after every step of
\* the executor each one was dropped by a filter, held out by the value mapping,
\* is in the lineage of a row, or was grouped under a key with a null in it
\* (whose group the executor may not find again, and leaves without a lineage);
\* and no row that a filter dropped comes back.
RowsAccounted ==
  Executing =>
    /\ RawIds = IdsOf(build.frame) \union Explained(build) \union build.nulled
    /\ IdsOf(build.frame) \cap FilteredOut(build) = {}

\* A contract that passed both gates on a sample never makes the run raise for
\* want of a column, although the gates saw part of the rows and Gate 1 follows
\* the columns in an order that is not the executor's: a run fails on a value.
FailsOnlyOnValues == stage = "failed" => build.raised = "value"

\* Every key of either side is in exactly one record, and the record says
\* which sides have it and whether their first rows agree.
FirstWith(rows, fields, key, i) ==
  RowKey(rows[i], fields) = key /\ \A j \in 1 .. i - 1 : RowKey(rows[j], fields) # key

JoinIsExact ==
  stage \in {"reconciled", "attached", "exported"} =>
    LET rows == build.frame.rows
        tgt == TargetRows(target)
        S == KeysOf(rows, SourceKeys(contract))
        T == KeysOf(tgt, TargetKeys(contract))
    IN  /\ {detail[i].key : i \in DOMAIN detail} = S \union T
        /\ Len(detail) = Cardinality(S \union T)
        /\ \A n \in DOMAIN detail :
             detail[n].class = "match" <=>
               \E i \in DOMAIN rows, j \in DOMAIN tgt :
                 /\ FirstWith(rows, SourceKeys(contract), detail[n].key, i)
                 /\ FirstWith(tgt, TargetKeys(contract), detail[n].key, j)
                 /\ Differing(contract, rows[i], tgt[j]) = {}

=============================================================================
