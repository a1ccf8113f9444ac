----------------------------- MODULE AutoPlanning -----------------------------
(***************************************************************************)
(* From the mapping sheet to an approved contract: the nodes of an Auto    *)
(* run before its batches (auto_pipeline/nodes.py), the questions they ask *)
(* the user (interrupts.py) and the metadata both read.                    *)
(*                                                                         *)
(* The source is an S/4 join of at most two entities, the target one IBP   *)
(* entity.  LangGraph runs the node that asked from its start again with   *)
(* every answer so far, matched to its questions by their order.           *)
(***************************************************************************)
EXTENDS SheetIdentification

CONSTANTS
  Schemas,      \* metadata a connector may have: side -> set of metadata
  Claims,       \* what the model may read from a sheet: side -> set of claims
  KeyFields,    \* fields that are keys of the entities that have them
  RoleOf,       \* field -> the role its name is an alias of, or "none"
  ContentOf,    \* field -> what its sampled values look like
  Related,      \* source metadata whose entities have a navigation property
  MaxAnswers, MaxChanges, MaxRestarts

Sides == {"source", "target"}

\* The entities of an OData service have a key.
ASSUME KeysAssumption ==
  \A s \in Sides : \A m \in Schemas[s] : \A e \in DOMAIN m : m[e] \intersect KeyFields # {}

\* A claim is of finitely many names and fields.
ASSUME ClaimsAssumption ==
  \A s \in Sides : \A c \in Claims[s] :
    c.named \in Seq(Range(c.named)) /\ IsFiniteSet(c.mentioned) /\ IsFiniteSet(c.fields)

NoEntity == "none"
NoName == "none"

Resolvers ==
  <<[side |-> "source", asks |-> "entity"], [side |-> "source", asks |-> "joined"],
    [side |-> "source", asks |-> "field"], [side |-> "source", asks |-> "key"],
    [side |-> "target", asks |-> "entity"], [side |-> "target", asks |-> "field"]>>
Resolved == Len(Resolvers) + 1

VARIABLES
  service,    \* the connectors' metadata now
  cache,      \* the process's parsed copy of it (_METADATA_CACHE)
  sheet,      \* what the model read, per side
  identified, \* the identification the run starts with
  step,       \* node of the graph
  status,     \* of the run
  at,         \* resolver the execution of resolve_schema stands at
  candidate,  \* name it tries there
  names,      \* what this execution has resolved: side -> record
  taken,      \* questions this execution has answered from answers
  asked,      \* the question the run waits with, and the process that asked
  answers,    \* answers of the user: question, process and value
  roles,      \* field roles: side -> role -> column
  contracts,  \* contracts approved for the run
  changes, restarts

world == <<service, cache, changes, restarts>>
execution == <<at, candidate, names, taken>>
outcome == <<roles, contracts>>
vars == <<world, execution, sheet, identified, step, status, asked, answers, outcome>>

NoNames == [s \in Sides |-> [entity |-> NoEntity, joined |-> NoEntity,
                             fields |-> {}, keys |-> {}]]
NoQuestion == <<>>
NoRoles == [s \in Sides |-> <<>>]

Init ==
  /\ service \in [Sides -> UNION {Schemas[s] : s \in Sides}]
  /\ \A s \in Sides : service[s] \in Schemas[s]
  /\ cache = [s \in Sides |-> NoMetadata]
  /\ sheet \in [Sides -> UNION {Claims[s] : s \in Sides}]
  /\ \A s \in Sides : sheet[s] \in Claims[s]
  /\ identified = [s \in Sides |-> NoMetadata]
  /\ step = "identify" /\ status = "created"
  /\ at = 1 /\ candidate = NoName /\ names = NoNames /\ taken = <<>>
  /\ asked = NoQuestion /\ answers = <<>>
  /\ roles = NoRoles /\ contracts = 0
  /\ changes = 0 /\ restarts = 0

\* _parse_metadata: parsed once in the life of the process.
Metadata(s) == IF cache[s] = NoMetadata THEN service[s] ELSE cache[s]

Fail == status' = "failed" /\ UNCHANGED <<step, outcome>>

------------------------------------------------------------------------------
(* The connectors and the process.                                          *)

\* The SAP service is changed.
Change(s) ==
  /\ changes < MaxChanges
  /\ service' \in {[service EXCEPT ![s] = m] : m \in Schemas[s] \ {service[s]}}
  /\ changes' = changes + 1
  /\ UNCHANGED <<cache, restarts, execution, sheet, identified, step, status,
                 asked, answers, outcome>>

\* The process dies; at the next boot a run that was RUNNING is failed, one that
\* waits for an answer is not.
Restart ==
  /\ restarts < MaxRestarts
  /\ restarts' = restarts + 1
  /\ cache' = [s \in Sides |-> NoMetadata]
  /\ status' = IF status = "running" THEN "failed" ELSE status
  /\ UNCHANGED <<service, changes, execution, sheet, identified, step, asked, answers,
                 outcome>>

------------------------------------------------------------------------------
(* Before the run: the sheet is identified against the live catalog.  A     *)
(* connector that cannot be reached has no catalog.                         *)

IdentifySystems ==
  /\ step = "identify"
  /\ \E loaded \in SUBSET Sides :
       LET catalog == [s \in Sides |-> IF s \in loaded THEN Metadata(s) ELSE NoMetadata]
       IN /\ cache' = [s \in Sides |-> IF s \in loaded THEN Metadata(s) ELSE cache[s]]
          /\ identified' = [s \in Sides |-> Identify(s, sheet[s], catalog[s])]
  /\ step' = "select_source"
  /\ UNCHANGED <<service, changes, restarts, execution, sheet, status, asked, answers,
                 outcome>>

\* The wizard and the chat start a run only when both connectors are known.
StartRun ==
  /\ status = "created" /\ step = "select_source"
  /\ \A s \in Sides : identified[s].kind
  /\ status' = "running"
  /\ UNCHANGED <<world, execution, sheet, identified, step, asked, answers, outcome>>

------------------------------------------------------------------------------
(* select_source and select_target                                          *)

Joins == Len(identified["source"].entities) > 1

\* The name the resolver tries before it asks.
FirstTry(r) ==
  CASE r.asks = "entity" -> identified[r.side].entities[1]
    [] r.asks = "joined" /\ Joins -> identified["source"].entities[2]
    [] OTHER -> NoName

SelectSide(node, s, next) ==
  /\ status = "running" /\ step = node
  /\ IF identified[s].entities = <<>> THEN Fail /\ UNCHANGED candidate
     ELSE /\ step' = next
          /\ candidate' = FirstTry(Resolvers[1])
          /\ UNCHANGED <<status, outcome>>
  /\ UNCHANGED <<world, at, names, taken, sheet, identified, asked, answers>>

SelectSource == SelectSide("select_source", "source", "select_target")
SelectTarget == SelectSide("select_target", "target", "resolve_schema")

------------------------------------------------------------------------------
(* resolve_schema: one step is one resolver of the node.                    *)

Resolver == Resolvers[at]
Side == Resolver.side
PropertiesOf(s, e) == Metadata(s)[e]
SourceProperties == PropertiesOf("source", names["source"].entity)
JoinedProperties ==
  IF names["source"].joined = NoEntity THEN {}
  ELSE PropertiesOf("source", names["source"].joined)
Shared == SourceProperties \intersect JoinedProperties

\* _suggest_keys: shared keys, or shared properties.
Suggested ==
  IF Metadata("source") \notin Related THEN {}
  ELSE IF Shared \intersect KeyFields # {} THEN Shared \intersect KeyFields
  ELSE Shared

\* The keys of the sheet whose left name exists on the one entity and whose right
\* name exists on the other.
Joinable == SourceProperties \X JoinedProperties
VerifiedKeys == identified["source"].keys \intersect Joinable
SameName(ks) == {<<k, k>> : k \in ks}

\* match_proposed_to_schema
Matched(s, properties) == identified[s].fields \intersect properties

\* Names a question can be answered with.
Options ==
  CASE Resolver.asks \in {"entity", "joined"} -> Entities(Metadata(Side))
    [] Resolver.asks = "field" -> PropertiesOf(Side, names[Side].entity)
    [] Resolver.asks = "key" -> Shared

\* Whether the resolver has to find a name at all.
Needed ==
  CASE Resolver.asks = "entity" -> TRUE
    [] Resolver.asks = "joined" -> Joins
    [] Resolver.asks = "field" ->
         /\ Matched(Side, PropertiesOf(Side, names[Side].entity)) = {}
         /\ Side = "source" => Matched("source", JoinedProperties) = {}
    [] Resolver.asks = "key" -> Joins /\ VerifiedKeys = {} /\ Suggested = {}

\* Mutant: an answer is taken on faith.
AcceptedOnFaith == candidate \in Options \/ taken # <<>>

\* "The SAME existence check the node itself uses."
Accepted == candidate \in Options

\* What the resolver leaves in the specification.
Settled ==
  CASE Resolver.asks = "entity" -> [names EXCEPT ![Side].entity = candidate]
    [] Resolver.asks = "joined" ->
         [names EXCEPT ![Side].joined = IF Needed THEN candidate ELSE NoEntity]
    [] Resolver.asks = "field" ->
         [names EXCEPT ![Side].fields =
            IF Needed THEN {candidate}
            ELSE Matched(Side, PropertiesOf(Side, names[Side].entity))]
    [] Resolver.asks = "key" ->
         [names EXCEPT ![Side].keys =
            IF ~Joins THEN {}
            ELSE IF VerifiedKeys # {} THEN VerifiedKeys
            ELSE SameName(IF Suggested # {} THEN Suggested ELSE {candidate})]

Resolving == status = "running" /\ step = "resolve_schema" /\ at < Resolved

\* The sheet gave no field of this side: nothing to ask, nothing to fetch.
NothingToFetch == Resolver.asks \in {"joined", "field"} /\ identified[Side].fields = {}

Settle ==
  /\ Resolving /\ ~NothingToFetch
  /\ ~Needed \/ Accepted
  /\ names' = Settled
  /\ at' = at + 1
  /\ candidate' = IF at + 1 = Resolved THEN NoName ELSE FirstTry(Resolvers[at + 1])
  /\ cache' = [cache EXCEPT ![Side] = Metadata(Side)]
  /\ UNCHANGED <<service, changes, restarts, taken, sheet, identified, step, status,
                 asked, answers, outcome>>

Unsettled == Resolving /\ ~NothingToFetch /\ Needed /\ ~Accepted /\ Options # {}

\* interrupt() returns the next of the answers at once.
Replay ==
  /\ Unsettled
  /\ Len(taken) < Len(answers)
  /\ candidate' = answers[Len(taken) + 1].value
  /\ taken' = Append(taken, Resolver)
  /\ cache' = [cache EXCEPT ![Side] = Metadata(Side)]
  /\ UNCHANGED <<service, changes, restarts, at, names, sheet, identified, step, status,
                 asked, answers, outcome>>

\* interrupt() pauses the graph.
Pause ==
  /\ Unsettled
  /\ Len(taken) = Len(answers) /\ Len(answers) < MaxAnswers
  /\ status' = "waiting_for_input"
  /\ asked' = [question |-> Resolver, boot |-> restarts]
  /\ cache' = [cache EXCEPT ![Side] = Metadata(Side)]
  /\ UNCHANGED <<service, changes, restarts, execution, sheet, identified, step, answers,
                 outcome>>

\* The answer v to the question the run waits with.
Given(v) == [question |-> asked.question, boot |-> asked.boot, value |-> v]

\* Mutant: the node goes on where it paused, and the answers start over.
AnswerInPlace(v) ==
  /\ status = "waiting_for_input"
  /\ status' = "running"
  /\ answers' = Append(answers, Given(v))
  /\ asked' = NoQuestion
  /\ taken' = <<>>
  /\ UNCHANGED <<world, at, candidate, names, sheet, identified, step, outcome>>

\* POST /resolve with a suggestion or with any other text: the node runs again
\* from its start.
Answer(v) ==
  /\ status = "waiting_for_input"
  /\ status' = "running"
  /\ answers' = Append(answers, Given(v))
  /\ asked' = NoQuestion
  /\ at' = 1
  /\ candidate' = FirstTry(Resolvers[1])
  /\ names' = NoNames
  /\ taken' = <<>>
  /\ UNCHANGED <<world, sheet, identified, step, outcome>>

\* Nothing a single answer can fix.
GiveUp ==
  /\ Resolving
  /\ NothingToFetch \/ (Needed /\ ~Accepted /\ Options = {})
  /\ Fail
  /\ cache' = [cache EXCEPT ![Side] = Metadata(Side)]
  /\ UNCHANGED <<service, changes, restarts, execution, sheet, identified, asked, answers>>

------------------------------------------------------------------------------
(* The preview's columns and their roles.                                   *)

KeysOf(s, e) == PropertiesOf(s, e) \intersect KeyFields

\* An entity that has none of the fields is read by its own keys.
PrimaryColumns(s) ==
  IF names[s].fields # {} THEN names[s].fields ELSE KeysOf(s, names[s].entity)
JoinedColumns ==
  IF names["source"].joined = NoEntity THEN {}
  ELSE IF Matched("source", JoinedProperties) # {} THEN Matched("source", JoinedProperties)
  ELSE KeysOf("source", names["source"].joined)
Columns(s) == PrimaryColumns(s) \union (IF s = "source" THEN JoinedColumns ELSE {})

\* detect_roles_for_columns: by the names of the columns.
ByName(columns) ==
  [r \in {RoleOf[c] : c \in columns} \ {"none"} |-> CHOOSE c \in columns : RoleOf[c] = r]

Free(columns, keys, byName) == columns \ (Range(keys) \union Range(byName))

\* detect_roles_from_sample: a column of numbers, then one of dates.
BySample(free) ==
  LET looks(content) == {c \in free : ContentOf[c] = content}
      found == {p \in {<<"quantity", "number">>, <<"date", "date">>} : looks(p[2]) # {}}
  IN [r \in {p[1] : p \in found} |->
        CHOOSE c \in free : <<r, ContentOf[c]>> \in found]

\* What the sample shows replaces what the names said, of both roles.
Detected(columns, keys) ==
  LET byName == ByName(columns)
  IN IF {"date", "quantity"} \subseteq DOMAIN byName THEN byName
     ELSE BySample(Free(columns, keys, byName)) @@ byName

\* _gate_side: for each of the two roles one of the columns, or none.
CandidateKeys(columns) == [{"product", "location"} -> columns \union {NoName}]

RolesWith(columns, keys) ==
  [r \in {"product", "location"} |-> keys[r]] @@ Detected(columns, keys)

Complete(fieldRoles) ==
  /\ {"product", "location", "date", "quantity"} \subseteq DOMAIN fieldRoles
  /\ NoName \notin Range(fieldRoles)

\* The language model may fail, or find no key.
ResolveRoles ==
  /\ status = "running" /\ step = "resolve_schema" /\ at = Resolved
  /\ \/ \E ks \in CandidateKeys(Columns("source")), kt \in CandidateKeys(Columns("target")) :
          LET found == [s \in Sides |-> RolesWith(Columns(s), IF s = "source" THEN ks ELSE kt)]
          IN /\ \A s \in Sides : Complete(found[s])
             /\ roles' = found
             /\ step' = "compile_contract"
             /\ UNCHANGED <<status, contracts>>
     \/ Fail
  /\ UNCHANGED <<world, execution, sheet, identified, asked, answers>>

------------------------------------------------------------------------------
(* compile_contract and plan_date_batches                                   *)

\* A contract the deterministic stub compiled is refused.
CompileContract ==
  /\ status = "running" /\ step = "compile_contract"
  /\ \/ contracts' = contracts + 1 /\ step' = "plan_date_batches" /\ UNCHANGED <<status, roles>>
     \/ Fail
  /\ UNCHANGED <<world, execution, sheet, identified, asked, answers>>

\* BatchPlan makes the plan; without any date there is none.
PlanDateBatches ==
  /\ status = "running" /\ step = "plan_date_batches"
  /\ \/ step' = "run_batches" /\ UNCHANGED <<status, outcome>>
     \/ Fail
  /\ UNCHANGED <<world, execution, sheet, identified, asked, answers>>

Next ==
  \/ \E s \in Sides : Change(s)
  \/ Restart
  \/ IdentifySystems \/ StartRun \/ SelectSource \/ SelectTarget
  \/ Settle \/ Replay \/ Pause \/ GiveUp
  \/ \E v \in UNION {UNION ({DOMAIN m} \union Range(m)) : m \in UNION Range(Schemas)} : Answer(v)
  \/ ResolveRoles \/ CompileContract \/ PlanDateBatches

Spec == Init /\ [][Next]_vars

------------------------------------------------------------------------------
(* Properties.                                                             *)

\* An entity of a side was named in the sheet for it, or is literally in its
\* text, or is the one entity in scope that has most of the fields of a sheet
\* that names none; and it is one of that side's connector.  What the sheet does
\* not say is never guessed, least of all the planning area.
EntitiesAreEvidenced ==
  step # "identify" =>
    \A s \in Sides : \A e \in ToSet(identified[s].entities) :
      /\ e \in UNION {DOMAIN m : m \in Schemas[s]}
      /\ \/ e \in ToSet(sheet[s].named) \union sheet[s].mentioned
         \/ /\ sheet[s].named = <<>>
            /\ restarts = 0 =>
                 \A f \in Entities(cache[s]) \ {e} :
                   InScope(f, PlanningArea(sheet[s], cache[s])) =>
                     Matches(f, sheet[s], cache[s]) < Matches(e, sheet[s], cache[s])

\* What resolve_schema settles exists in the metadata it ran with, whoever gave
\* the name, and each entity is read by columns of its own: the services never
\* get to choose default columns.
ResolvedIsLive ==
  status = "running" /\ at = Resolved =>
    /\ \A s \in Sides :
         /\ names[s].entity \in Entities(cache[s])
         /\ PrimaryColumns(s) # {} /\ PrimaryColumns(s) \subseteq cache[s][names[s].entity]
    /\ names["source"].joined # NoEntity =>
         /\ names["source"].joined \in Entities(cache["source"])
         /\ JoinedColumns # {}
         /\ names["source"].keys # {} /\ names["source"].keys \subseteq Joinable

\* An answer is given to the question it was asked for, however often the node
\* runs again, as long as the process that asked still runs: its metadata does
\* not change under it.
AnswersFitQuestions ==
  \A i \in DOMAIN taken :
    (\A j \in 1..i : answers[j].boot = restarts) => taken[i] = answers[i].question

==============================================================================
