------------------------ MODULE SheetIdentification ------------------------
(***************************************************************************)
(* What a mapping sheet says about one side of a reconciliation, gated     *)
(* against the live metadata of that side's connector                      *)
(* (sheet_identifier._side_result, entity_join_parser).                    *)
(*                                                                         *)
(* A claim is what the language model read from the sheet: the entities    *)
(* it names, a planning area, fields, whether there is a join type (typed) *)
(* and pairs of names as join keys; mentioned is what the text of the      *)
(* sheet literally contains.  Names are compared as the code compares      *)
(* them, without case and punctuation.                                     *)
(***************************************************************************)
EXTENDS Integers, Sequences, FiniteSets, SequencesExt

CONSTANTS
  AreaOf,      \* entity -> the planning area in its name
  MinMatches   \* min_matches of resolve_entity_from_fields

NoArea == "none"
NoMetadata == <<>>  \* a connector whose list could not be loaded

\* Metadata: entity -> its properties.
Entities(metadata) == DOMAIN metadata

\* resolve_planning_area: an area no live entity belongs to is dropped.
PlanningArea(claim, metadata) ==
  IF \E e \in Entities(metadata) : AreaOf[e] = claim.area THEN claim.area ELSE NoArea

InScope(e, area) == area \in {NoArea, AreaOf[e]}

\* The claimed names that exist, each once.
Live(named, metadata) ==
  LET kept[i \in 0..Len(named)] ==
        IF i = 0 THEN <<>>
        ELSE IF named[i] \in Entities(metadata) \ ToSet(kept[i - 1])
             THEN Append(kept[i - 1], named[i]) ELSE kept[i - 1]
  IN kept[Len(named)]

\* resolve_entity_join: an IBP side keeps the first.
Gated(side, claim, metadata) ==
  LET live == Live(claim.named, metadata)
  IN IF side = "target" /\ live # <<>> THEN <<Head(live)>> ELSE live

\* entities_present_in_sheet
Mentioned(claim, metadata) == claim.mentioned \intersect Entities(metadata)

\* A planning area in a field's place is not a field.
FieldsOf(claim, metadata) == claim.fields \ {PlanningArea(claim, metadata)}

Matches(e, claim, metadata) == Cardinality(FieldsOf(claim, metadata) \intersect metadata[e])

\* Mutant: a tie is broken.
LeadersAnyOf(claim, metadata) ==
  LET scoped == {e \in Entities(metadata) : InScope(e, PlanningArea(claim, metadata))}
      best == {e \in scoped : \A f \in scoped :
                 Matches(f, claim, metadata) <= Matches(e, claim, metadata)}
  IN IF best = {} THEN {} ELSE {CHOOSE e \in best : TRUE}

\* resolve_entity_from_fields: the entities in scope that have most of the fields.
Leaders(claim, metadata) ==
  LET scoped == {e \in Entities(metadata) : InScope(e, PlanningArea(claim, metadata))}
  IN {e \in scoped : \A f \in scoped :
        Matches(f, claim, metadata) <= Matches(e, claim, metadata)}

\* The only leader, if it has enough of the fields.
FromFields(claim, metadata) ==
  LET only == {e \in Leaders(claim, metadata) :
                 /\ Leaders(claim, metadata) = {e}
                 /\ Matches(e, claim, metadata) >= MinMatches
                 /\ 2 * Matches(e, claim, metadata) >= Cardinality(FieldsOf(claim, metadata))}
  IN SetToSeq(only)

\* mentions_entity_join, and no fields either: the sheet says nothing of the side.
Silent(claim) ==
  claim.named = <<>> /\ ~claim.typed /\ claim.keys = {} /\ claim.fields = {}

\* _attach_entity_join: the first entity is the primary one; the fields are asked
\* only for a sheet that names no entity at all.
IdentifiedEntities(side, claim, metadata) ==
  LET gated == Gated(side, claim, metadata)
      found == gated \o SetToSeq(Mentioned(claim, metadata) \ ToSet(gated))
  IN IF Silent(claim) THEN <<>>
     ELSE IF found = <<>> /\ claim.named = <<>> THEN FromFields(claim, metadata)
     ELSE found

\* _side_result: nothing is identified without a configured connector.
Identify(side, claim, metadata) ==
  [kind |-> claim.kind,
   entities |-> IF claim.kind THEN IdentifiedEntities(side, claim, metadata) ELSE <<>>,
   fields |-> IF claim.kind THEN FieldsOf(claim, metadata) ELSE claim.fields,
   keys |-> IF side = "target" THEN {} ELSE claim.keys]

==============================================================================
