---------------------------- MODULE WizardProofs ----------------------------
(***************************************************************************)
(* An automatic approval never goes without the steps of the sheet, and    *)
(* no re-resolve overwrites the recipe the user edited, for any number of  *)
(* requests under way and any number of changes by the user.               *)
(*                                                                         *)
(* Every handler ends in one Commit.  What a state that is committed has   *)
(* to satisfy is stated once (Good, Ready), each reducer operator is       *)
(* shown to keep it, and CommitKeeps carries it over a step.               *)
(***************************************************************************)
EXTENDS Wizard, FiniteSetTheorems, TLAPS

Signatures == {"infer", "resolve", "pair", "auto"}
AutoRuns == [phase : Phases, polling : {"off", "on", "leaked"}]

\* The type invariant without the bound on the user's changes.
StateOK ==
  /\ wizard \in WizardState
  /\ calls \subseteq Call /\ Cardinality(calls) <= MaxCalls
  /\ fired \subseteq Signatures
  /\ autoRun \in AutoRuns
  /\ flow \in {"contract", "script", "auto"}

\* A resolution with operations beside an empty recipe came late: it was asked
\* for before the wizard was started over.
RecipeFine(w) == w.operations /\ w.recipe = "empty" => "mappingResolution" \in w.late

\* A request for a resolution that will not seed the recipe found one, and one
\* that waits for the catalogue found none; an approval without the steps is
\* known to be old.
CallFine(c, w) ==
  /\ c.kind = "resolve" /\ c.stage = "ask" /\ ~c.old /\ ~c.blank => w.recipe # "empty"
  /\ c.kind = "resolve" /\ c.stage = "catalogue" => c.blank
  /\ c.kind = "auto" /\ ~c.old => ~c.blank

\* A state of the reducer that may be committed ...
Good(w) == w \in WizardState /\ RecipeFine(w)

\* The steps that may take the user's recipe away.
Replaced == StartOver \/ \E c \in calls : c.blank /\ ReceiveCatalogue(c, TRUE)

\* ... when it has emptied the recipe only with the whole wizard, and keeps what
\* the user edited.
Ready(w, ins) ==
  /\ Good(w)
  /\ w.recipe = "empty" => wizard.recipe = "empty" \/ "restart" \in ins
  /\ wizard.recipe = "edited" /\ w.recipe \notin {"edited", "emptied"} => Replaced

WizardInv ==
  /\ StateOK
  /\ RecipeFine(wizard)
  /\ \A c \in calls : CallFine(c, wizard)

EditKept == wizard.recipe = "edited" /\ wizard'.recipe \notin {"edited", "emptied"} => Replaced

\* What every step is shown to do.
Kept == WizardInv' /\ EditKept

------------------------------------------------------------------------------
(* The reducer.                                                            *)

\* v has the artifacts and the recipe of w.
Agrees(v, w) ==
  /\ v \in WizardState
  /\ v.has = w.has /\ v.late = w.late
  /\ v.recipe = w.recipe /\ (v.operations => w.operations)

\* v is good if w is, with the same recipe.
Leaves(v, w) == Good(w) => Good(v) /\ v.recipe = w.recipe

\* v is w without the artifacts as ...
Drops(v, w, as) ==
  /\ v \in WizardState
  /\ v.has = w.has \ as /\ v.late = w.late \ as
  /\ v.recipe = w.recipe
  /\ v.operations => w.operations /\ "mappingResolution" \notin as

\* ... or with the artifact a, too.
Gains(v, w, a, late) ==
  /\ v \in WizardState
  /\ v.has = w.has \union {a}
  /\ v.late = IF late THEN w.late \union {a} ELSE w.late \ {a}
  /\ v.recipe = w.recipe
  /\ v.operations => w.operations

\* Clear, with its flags dropped by cases.
Cleared(w, as) ==
  [w EXCEPT !.has = @ \ as, !.late = @ \ as,
            !.keys = IF "mapping" \in as THEN FALSE ELSE @,
            !.operations = IF "mappingResolution" \in as THEN FALSE ELSE @,
            !.rejected = IF "scriptPreview" \in as THEN FALSE ELSE @]

LEMMA ClearEffect ==
  ASSUME NEW w \in WizardState, NEW as
  PROVE  Drops(Clear(w, as), w, as)
<1>1. Cleared(w, as) \in WizardState
  BY DEF WizardState, Cleared
<1>2. Clear(w, as) = Cleared(w, as)
  <2>1. CASE "mapping" \in as
    BY <2>1 DEF WizardState, Cleared, Clear
  <2>2. CASE "mapping" \notin as
    BY <2>2 DEF WizardState, Cleared, Clear
  <2> QED
    BY <2>1, <2>2
<1>3. (Clear(w, as).operations => w.operations /\ "mappingResolution" \notin as)
  BY DEF WizardState, Clear
<1>4. /\ Clear(w, as).has = w.has \ as
      /\ Clear(w, as).late = w.late \ as
      /\ Clear(w, as).recipe = w.recipe
  BY DEF WizardState, Clear
<1> QED
  BY <1>1, <1>2, <1>3, <1>4 DEF Drops

LEMMA StoreEffect ==
  ASSUME NEW w \in WizardState, NEW a \in Artifacts, NEW late
  PROVE  Gains(Store(w, a, late), w, a, late)
  BY DEF WizardState, Store, Gains

LEMMA SetStatusEffect ==
  ASSUME NEW w \in WizardState, NEW s \in StepKeys,
         NEW status \in {"locked", "available", "complete"}
  PROVE  Agrees(SetStatus(w, s, status), w)
  BY DEF WizardState, SetStatus, Agrees

LEMMA CompleteStepEffect ==
  ASSUME NEW w \in WizardState, NEW s \in StepKeys
  PROVE  Agrees(CompleteStep(w, s), w)
<1>1. [t \in StepKeys |->
     CASE t = s -> "complete"
       [] t \in After(s) /\ w.stepStatus[t] = "locked" -> "available"
       [] OTHER -> w.stepStatus[t]] \in [StepKeys -> {"locked", "available", "complete"}]
  BY DEF WizardState
<1> QED
  BY <1>1 DEF WizardState, CompleteStep, Agrees

LEMMA GoToStepEffect ==
  ASSUME NEW w \in WizardState, NEW s \in StepKeys
  PROVE  Agrees(GoToStep(w, s), w)
  BY DEF WizardState, GoToStep, Agrees

LEMMA AgreesLeaves ==
  ASSUME NEW w, NEW v, Good(w) => Agrees(v, w)
  PROVE  Leaves(v, w)
  BY DEF Agrees, Leaves, Good, RecipeFine

LEMMA DropsLeaves ==
  ASSUME NEW w, NEW v, NEW as, Good(w) => Drops(v, w, as)
  PROVE  Leaves(v, w)
  BY DEF Drops, Leaves, Good, RecipeFine

LEMMA GainsLeaves ==
  ASSUME NEW w, NEW v, NEW a \in Artifacts \ {"mappingResolution"}, NEW late,
         Good(w) => Gains(v, w, a, late)
  PROVE  Leaves(v, w)
  BY DEF Gains, Leaves, Good, RecipeFine

LEMMA ClearLeaves ==
  ASSUME NEW w, NEW as
  PROVE  Leaves(Clear(w, as), w)
<1>1. Good(w) => Drops(Clear(w, as), w, as)
  BY ClearEffect DEF Good
<1> QED
  BY <1>1, DropsLeaves

LEMMA StoreLeaves ==
  ASSUME NEW w, NEW a \in Artifacts \ {"mappingResolution"}, NEW late
  PROVE  Leaves(Store(w, a, late), w)
<1>1. Good(w) => Gains(Store(w, a, late), w, a, late)
  BY StoreEffect DEF Good
<1> QED
  BY <1>1, GainsLeaves

LEMMA SetStatusLeaves ==
  ASSUME NEW w, NEW s \in StepKeys, NEW status \in {"locked", "available", "complete"}
  PROVE  Leaves(SetStatus(w, s, status), w)
<1>1. Good(w) => Agrees(SetStatus(w, s, status), w)
  BY SetStatusEffect DEF Good
<1> QED
  BY <1>1, AgreesLeaves

LEMMA CompleteStepLeaves ==
  ASSUME NEW w, NEW s \in StepKeys
  PROVE  Leaves(CompleteStep(w, s), w)
<1>1. Good(w) => Agrees(CompleteStep(w, s), w)
  BY CompleteStepEffect DEF Good
<1> QED
  BY <1>1, AgreesLeaves

LEMMA GoToStepLeaves ==
  ASSUME NEW w, NEW s \in StepKeys
  PROVE  Leaves(GoToStep(w, s), w)
<1>1. Good(w) => Agrees(GoToStep(w, s), w)
  BY GoToStepEffect DEF Good
<1> QED
  BY <1>1, AgreesLeaves

\* The fields that hold no artifact.
LEMMA FieldLeaves ==
  ASSUME NEW w, NEW b \in BOOLEAN, NEW r \in Roles, NEW d \in Data
  PROVE  /\ Leaves([w EXCEPT !.chosen = b], w)
         /\ Leaves([w EXCEPT !.index = b], w)
         /\ Leaves([w EXCEPT !.useData = b], w)
         /\ Leaves([w EXCEPT !.keys = b], w)
         /\ Leaves([w EXCEPT !.rejected = b], w)
         /\ Leaves([w EXCEPT !.data[r] = d], w)
<1>1. Good(w) => Agrees([w EXCEPT !.chosen = b], w)
  BY DEF Good, WizardState, Agrees
<1>2. Good(w) => Agrees([w EXCEPT !.index = b], w)
  BY DEF Good, WizardState, Agrees
<1>3. Good(w) => Agrees([w EXCEPT !.useData = b], w)
  BY DEF Good, WizardState, Agrees
<1>4. Good(w) => Agrees([w EXCEPT !.keys = b], w)
  BY DEF Good, WizardState, Agrees
<1>5. Good(w) => Agrees([w EXCEPT !.rejected = b], w)
  BY DEF Good, WizardState, Agrees
<1>6. Good(w) => Agrees([w EXCEPT !.data[r] = d], w)
  BY DEF Good, WizardState, Agrees
<1> QED
  BY <1>1, <1>2, <1>3, <1>4, <1>5, <1>6, AgreesLeaves

\* One after the other.
LEMMA LeavesTwice ==
  ASSUME NEW u, NEW v, NEW w, Leaves(v, w), Leaves(u, v)
  PROVE  Leaves(u, w)
  BY DEF Leaves

\* What is left of a good state.
LEMMA LeavesGood ==
  ASSUME NEW v, NEW w, Good(w), Leaves(v, w)
  PROVE  Good(v) /\ v.recipe = w.recipe
  BY DEF Leaves

LEMMA SettingLeaves ==
  ASSUME NEW w, NEW late, NEW r \in Roles, NEW d \in Data, NEW b \in BOOLEAN
  PROVE  /\ Leaves(InvalidateDerived(w), w)
         /\ Leaves(SetConnector(w, r), w)
         /\ Leaves(SetDataset(w, r, d), w)
         /\ Leaves(SetMappingSheet(w), w)
         /\ Leaves(SetParsedMappingSheet(w, late), w)
         /\ Leaves(SetTransformationMapping(w, late, b), w)
         /\ Leaves(SetValueMappings(w, late), w)
         /\ Leaves(SetDraftContract(w), w)
         /\ Leaves(SetApprovedContract(w, late), w)
         /\ Leaves(SetDeterministicContract(w, late), w)
         /\ Leaves(SetGeneratedScript(w, late), w)
         /\ Leaves(SetScriptPreview(w, late), w)
<1> DEFINE ready(w1) == SetStatus(w1, "reconciliation", "locked")
           first(w1, s) == SetStatus(w1, "transformationSpec", s)
<1>1. ASSUME NEW w1 PROVE Leaves(ready(w1), w1)
  BY SetStatusLeaves DEF StepKeys, StepOrder
<1>2. ASSUME NEW w1 PROVE Leaves(InvalidateDerived(w1), w1)
  <2>1. PICK s \in {"locked", "available", "complete"} : InvalidateDerived(w1) = ready(first(Clear(w1, Derived), s))
    BY DEF InvalidateDerived
  <2>2. Leaves(first(Clear(w1, Derived), s), Clear(w1, Derived))
    BY SetStatusLeaves DEF StepKeys, StepOrder
  <2>3. Leaves(Clear(w1, Derived), w1)
    BY ClearLeaves
  <2>4. Leaves(first(Clear(w1, Derived), s), w1)
    BY <2>2, <2>3, LeavesTwice
  <2> QED
    BY <1>1, <2>1, <2>4, LeavesTwice
<1>3. Leaves(SetConnector(w, r), w)
  <2>1. Leaves([w EXCEPT !.data[r] = "none"], w)
    BY FieldLeaves DEF Data
  <2> QED
    BY <1>2, <2>1, LeavesTwice DEF SetConnector
<1>4. Leaves(SetDataset(w, r, d), w)
  <2>1. Leaves([w EXCEPT !.data[r] = d], w)
    BY FieldLeaves
  <2> QED
    BY <1>2, <2>1, LeavesTwice DEF SetDataset
<1>5. Leaves(SetMappingSheet(w), w)
  BY ClearLeaves DEF SetMappingSheet
<1>6. ASSUME NEW as, NEW a \in Artifacts \ {"mappingResolution"}
      PROVE  Leaves(Store(Clear(w, as), a, late), w)
  <2>1. Leaves(Clear(w, as), w)
    BY ClearLeaves
  <2>2. Leaves(Store(Clear(w, as), a, late), Clear(w, as))
    BY StoreLeaves
  <2> QED
    BY <2>1, <2>2, LeavesTwice
<1>7. Leaves(SetParsedMappingSheet(w, late), w)
  BY <1>6 DEF SetParsedMappingSheet, Artifacts
<1>8. Leaves(SetTransformationMapping(w, late, b), w)
  <2> DEFINE v == Store(Clear(w, {"valueMappings", "deterministicContract"}), "mapping", late)
  <2>1. Leaves(v, w)
    BY <1>6 DEF Artifacts, Derived
  <2>2. Leaves([v EXCEPT !.keys = b], v)
    BY FieldLeaves, "source" \in Roles, "none" \in Data DEF Roles, Data
  <2> QED
    BY <2>1, <2>2, LeavesTwice DEF SetTransformationMapping
<1>9. Leaves(SetValueMappings(w, late), w)
  BY <1>6 DEF SetValueMappings, Artifacts, Derived
<1>10. Leaves(SetDraftContract(w), w)
  BY <1>1, ClearLeaves, LeavesTwice DEF SetDraftContract
<1>11. Leaves(SetApprovedContract(w, late), w)
  <2>1. Leaves(Store(w, "contract", late), w)
    BY StoreLeaves DEF Artifacts, Derived
  <2> QED
    BY <1>1, <2>1, LeavesTwice DEF SetApprovedContract
<1>12. Leaves(SetDeterministicContract(w, late), w)
  <2> DEFINE v == Store(w, "deterministicContract", late)
  <2>1. Leaves(v, w)
    BY StoreLeaves DEF Artifacts, Derived
  <2>2. Leaves(SetStatus(v, "reconciliation", "available"), v)
    BY SetStatusLeaves DEF StepKeys, StepOrder
  <2> QED
    BY <2>1, <2>2, LeavesTwice DEF SetDeterministicContract
<1>13. Leaves(SetGeneratedScript(w, late), w)
  BY <1>6 DEF SetGeneratedScript, Artifacts, Derived, ScriptChain
<1>14. Leaves(SetScriptPreview(w, late), w)
  <2> DEFINE v == Store(Clear(w, {"scriptApproval"}), "scriptPreview", late)
  <2>1. Leaves(v, w)
    BY <1>6 DEF Artifacts, Derived, ScriptChain
  <2>2. Leaves([v EXCEPT !.rejected = FALSE], v)
    BY FieldLeaves, "source" \in Roles, "none" \in Data DEF Roles, Data
  <2> QED
    BY <2>1, <2>2, LeavesTwice DEF SetScriptPreview
<1> QED
  BY <1>2, <1>3, <1>4, <1>5, <1>7, <1>8, <1>9, <1>10, <1>11, <1>12, <1>13, <1>14

------------------------------------------------------------------------------
(* A step.                                                                 *)

\* d is the request c, a step later.
Later(d, c, ins) ==
  /\ d \in Call
  /\ d.kind = c.kind /\ d.stage = c.stage /\ d.blank = c.blank
  /\ c.old => d.old
  /\ "restart" \in ins => d.old

LEMMA OvertakeEffect ==
  ASSUME NEW cs, cs \subseteq Call, NEW ins, NEW d \in Overtake(cs, ins)
  PROVE  \E c \in cs : Later(d, c, ins)
<1>1. PICK c \in cs : d = [c EXCEPT !.old = @ \/ ins \intersect Uses[c.kind] # {} \/ "restart" \in ins]
  BY DEF Overtake, Cancel
<1> DEFINE now == IF c.old \/ ins \intersect Uses[c.kind] # {} \/ "restart" \in ins THEN TRUE ELSE FALSE
<1>2. d = [c EXCEPT !.old = now]
  <2>1. CASE c.old \/ ins \intersect Uses[c.kind] # {} \/ "restart" \in ins
    BY <1>1, <2>1
  <2>2. CASE ~(c.old \/ ins \intersect Uses[c.kind] # {} \/ "restart" \in ins)
    BY <1>1, <2>2
  <2> QED
    BY <2>1, <2>2
<1>3. c \in Call
  OBVIOUS
<1>4. d \in Call /\ d.kind = c.kind /\ d.stage = c.stage /\ d.blank = c.blank /\ d.old = now
  BY <1>2, <1>3 DEF Call
<1> QED
  BY <1>3, <1>4 DEF Later

LEMMA UnmountEffect ==
  ASSUME NEW cs, cs \subseteq Call, NEW d \in Unmount(cs)
  PROVE  \E c \in cs : Later(d, c, {})
  BY DEF Unmount, Cancel, Call, Later

LEMMA LaterFine ==
  ASSUME NEW c, NEW d, NEW ins, NEW w, NEW u,
         Later(d, c, ins), CallFine(c, u),
         w.recipe = "empty" => u.recipe = "empty" \/ "restart" \in ins
  PROVE  CallFine(d, w)
  BY DEF Later, CallFine

\* A commit keeps the invariant if what it commits, and what it sends, is fine.
LEMMA CommitKeeps ==
  ASSUME WizardInv, NEW w, NEW cs, NEW ins, NEW new, NEW refs, NEW run,
         cs \subseteq calls, Ready(w, ins),
         new \subseteq Call, \A c \in new : CallFine(c, w),
         refs \subseteq Signatures, run \in AutoRuns,
         Commit(w, cs, ins, new, refs, run)
  PROVE  Kept
<1>1. wizard' = w /\ Good(w)
  BY DEF Commit, Ready
<1>2. wizard'.recipe = "empty" => wizard.recipe = "empty" \/ "restart" \in ins
  BY <1>1 DEF Ready
<1>3. calls \subseteq Call
  BY DEF WizardInv, StateOK
<1>4. ASSUME NEW d \in Overtake(cs, ins)
      PROVE  \E c \in cs : Later(d, c, ins)
  BY <1>3, OvertakeEffect
<1>5. Overtake(cs, ins) \subseteq Call
  BY <1>4 DEF Later
<1>6. ASSUME NEW d \in Unmount(Overtake(cs, ins))
      PROVE  \E c \in cs : Later(d, c, ins)
  <2>1. PICK e \in Overtake(cs, ins) : Later(d, e, {})
    BY <1>5, UnmountEffect
  <2>2. PICK c \in cs : Later(e, c, ins)
    BY <1>4
  <2> QED
    BY <2>1, <2>2 DEF Later
<1>7. ASSUME NEW d \in calls'
      PROVE  d \in Call /\ CallFine(d, wizard')
  <2>1. CASE d \in new
    BY <1>1, <2>1 DEF CallFine
  <2>2. CASE d \notin new
    <3>1. PICK c \in cs : Later(d, c, ins)
      BY <1>4, <1>6, <2>2 DEF Commit
    <3>2. CallFine(c, wizard)
      BY DEF WizardInv
    <3>3. CallFine(d, wizard')
      BY <1>2, <3>1, <3>2, LaterFine
    <3> QED
      BY <3>1, <3>3 DEF Later
  <2> QED
    BY <2>1, <2>2
<1>8. fired' \subseteq Signatures
  BY DEF Commit, WizardInv, StateOK
<1>9. autoRun' \in AutoRuns
  BY DEF Commit, AutoRuns
<1>10. flow' \in {"contract", "script", "auto"} /\ Cardinality(calls') <= MaxCalls
  BY DEF Commit, WizardInv, StateOK
<1>11. wizard' \in WizardState /\ RecipeFine(wizard')
  BY <1>1 DEF Good
<1>12. WizardInv'
  BY <1>7, <1>8, <1>9, <1>10, <1>11 DEF WizardInv, StateOK
<1>13. EditKept
  BY <1>1 DEF Ready, EditKept
<1> QED
  BY <1>12, <1>13 DEF Kept

\* What a reducer operator leaves may be committed with the changes it cleans up.
LEMMA LeavesReady ==
  ASSUME WizardInv, NEW w, NEW ins, Leaves(w, wizard)
  PROVE  Ready(w, ins)
<1>1. Good(wizard)
  BY DEF WizardInv, StateOK, Good
<1>2. Good(w) /\ w.recipe = wizard.recipe
  BY <1>1, LeavesGood
<1> QED
  BY <1>2 DEF Ready

LEMMA SameReady == WizardInv => Ready(wizard, {})
  BY DEF WizardInv, StateOK, Good, Ready

LEMMA AskFine ==
  ASSUME NEW kind \in Kinds \ {"resolve"}, NEW old \in BOOLEAN, NEW w
  PROVE  Ask(kind, old) \in Call /\ CallFine(Ask(kind, old), w)
  BY DEF Ask, Call, CallFine

LEMMA LateIsBoolean == \A as : MadeLate(as) \in BOOLEAN
  BY DEF MadeLate

LEMMA SendKeeps ==
  ASSUME WizardInv, NEW w, NEW call \in Call, NEW refs,
         Ready(w, {}), CallFine(call, w), refs \subseteq Signatures, Send(w, call, refs)
  PROVE  Kept
<1>1. autoRun \in AutoRuns /\ Commit(w, calls, {}, {call}, refs, autoRun)
  BY DEF WizardInv, StateOK, Send
<1> QED
  BY <1>1, CommitKeeps

LEMMA LandKeeps ==
  ASSUME WizardInv, NEW c, NEW w, NEW ins, NEW next, Ready(w, ins),
         next \subseteq Call, \A d \in next : CallFine(d, w), Land(c, w, ins, next)
  PROVE  Kept
<1>1. autoRun \in AutoRuns /\ Commit(w, calls \ {c}, ins, next, {}, autoRun)
  BY DEF WizardInv, StateOK, Land
<1> QED
  BY <1>1, CommitKeeps

LEMMA ChangeKeeps ==
  ASSUME WizardInv, NEW w, NEW ins, NEW new, Ready(w, ins),
         new \subseteq Call, \A d \in new : CallFine(d, w), Change(w, ins, new)
  PROVE  Kept
<1>1. autoRun \in AutoRuns /\ Commit(w, calls, ins, new, {}, autoRun)
  BY DEF WizardInv, StateOK, Change
<1> QED
  BY <1>1, CommitKeeps

------------------------------------------------------------------------------
(* The user.                                                               *)

LEMMA NavigationKeeps ==
  ASSUME WizardInv, NEW s \in StepKeys
  PROVE  /\ Visit(s) => Kept
         /\ Continue(s) => Kept
<1>1. ASSUME Visit(s) PROVE Kept
  <2>1. Ready(GoToStep(wizard, s), {})
    BY GoToStepLeaves, LeavesReady
  <2>2. Change(GoToStep(wizard, s), {}, {})
    BY <1>1 DEF Visit
  <2> QED
    BY <2>1, <2>2, ChangeKeeps
<1>2. ASSUME Continue(s) PROVE Kept
  <2>1. PICK n \in After(s) : Commit(GoToStep(CompleteStep(wizard, s), n), calls, {}, {}, {}, autoRun)
    BY <1>2 DEF Continue
  <2>2. n \in StepKeys
    BY DEF After, StepKeys, StepOrder
  <2>3. Leaves(CompleteStep(wizard, s), wizard)
    BY CompleteStepLeaves
  <2>4. Leaves(GoToStep(CompleteStep(wizard, s), n), CompleteStep(wizard, s))
    BY <2>2, GoToStepLeaves
  <2>5. Leaves(GoToStep(CompleteStep(wizard, s), n), wizard)
    BY <2>3, <2>4, LeavesTwice
  <2>6. Ready(GoToStep(CompleteStep(wizard, s), n), {})
    BY <2>5, LeavesReady
  <2>7. autoRun \in AutoRuns
    BY DEF WizardInv, StateOK
  <2> QED
    BY <2>1, <2>6, <2>7, CommitKeeps
<1> QED
  BY <1>1, <1>2

\* Start Over empties the recipe, and makes every request under way an old one.
LEMMA StartOverKeeps == WizardInv /\ StartOver => Kept
<1> SUFFICES ASSUME WizardInv, StartOver PROVE Kept
  OBVIOUS
<1>1. InitialWizard \in WizardState
  BY DEF InitialWizard, WizardState, StepKeys, StepOrder, Data
<1>2. InitialWizard.operations = FALSE
  BY DEF InitialWizard
<1>3. Ready(InitialWizard, {"restart"})
  BY <1>1, <1>2 DEF Ready, Good, RecipeFine, Replaced
<1> QED
  BY <1>3, ChangeKeeps DEF StartOver

\* No request outlives the page that sent it.
LEMMA ReloadKeeps == WizardInv /\ Reload => Kept
<1> SUFFICES ASSUME WizardInv, Reload PROVE Kept
  OBVIOUS
<1>1. calls' = {} /\ Cardinality(calls') <= MaxCalls /\ fired' = {}
  BY FS_EmptySet, BoundsAssumption DEF Reload
<1>2. Agrees(wizard', wizard)
  BY DEF WizardInv, StateOK, Reload, WizardState, Data, Agrees
<1>3. autoRun' \in AutoRuns /\ flow' = flow
  BY DEF WizardInv, StateOK, Reload, AutoRuns
<1>4. WizardInv'
  BY <1>1, <1>2, <1>3 DEF WizardInv, StateOK, RecipeFine, Agrees
<1> QED
  BY <1>2, <1>4 DEF Kept, EditKept, Agrees

LEMMA WorkbookKeeps ==
  ASSUME WizardInv
  PROVE  /\ UploadWorkbook => Kept
         /\ SelectInterface => Kept
         /\ UnselectInterface => Kept
         /\ ClearSheet => Kept
         /\ ToggleUseData => Kept
<1>1. Roles # {} /\ Data # {}
  BY DEF Roles, Data
<1>2. ASSUME NEW b \in BOOLEAN
      PROVE  Ready(Clear([wizard EXCEPT !.chosen = b], {"sheetIdentification"}), {"choice"})
  <2>1. Leaves([wizard EXCEPT !.chosen = b], wizard)
    BY <1>1, FieldLeaves
  <2>2. Leaves(Clear([wizard EXCEPT !.chosen = b], {"sheetIdentification"}),
               [wizard EXCEPT !.chosen = b])
    BY ClearLeaves
  <2>3. Leaves(Clear([wizard EXCEPT !.chosen = b], {"sheetIdentification"}), wizard)
    BY <2>1, <2>2, LeavesTwice
  <2> QED
    BY <1>1, <2>3, LeavesReady
<1>3. ASSUME NEW kind \in {"interfaces", "parse"}, NEW w
      PROVE  Ask(kind, FALSE) \in Call /\ CallFine(Ask(kind, FALSE), w)
  BY AskFine DEF Kinds
<1> DEFINE chosen == Clear([wizard EXCEPT !.chosen = TRUE], {"sheetIdentification"})
           unchosen == Clear([wizard EXCEPT !.chosen = FALSE], {"sheetIdentification"})
<1>9. Ready(chosen, {"choice"}) /\ Ready(unchosen, {"choice"})
  BY <1>2
<1>4. ASSUME UploadWorkbook PROVE Kept
  <2>1. Change(unchosen, {"choice"}, {Ask("interfaces", FALSE)})
    BY <1>4 DEF UploadWorkbook
  <2> DEFINE call == Ask("interfaces", FALSE)
  <2>2. call \in Call /\ CallFine(call, unchosen)
    BY <1>3
  <2> HIDE DEF unchosen, call
  <2>3. {call} \subseteq Call /\ \A d \in {call} : CallFine(d, unchosen)
    BY <2>2
  <2>4. Change(unchosen, {"choice"}, {call})
    BY <2>1 DEF call
  <2> QED
    BY <1>9, <2>3, <2>4, ChangeKeeps
<1>5. ASSUME SelectInterface PROVE Kept
  <2>1. Change(chosen, {"choice"}, {Ask("parse", FALSE)})
    BY <1>5 DEF SelectInterface
  <2> DEFINE call == Ask("parse", FALSE)
  <2>2. call \in Call /\ CallFine(call, chosen)
    BY <1>3
  <2> HIDE DEF chosen, call
  <2>3. {call} \subseteq Call /\ \A d \in {call} : CallFine(d, chosen)
    BY <2>2
  <2>4. Change(chosen, {"choice"}, {call})
    BY <2>1 DEF call
  <2> QED
    BY <1>9, <2>3, <2>4, ChangeKeeps
<1>6. ASSUME UnselectInterface PROVE Kept
  <2>1. Change(unchosen, {"choice"}, {})
    BY <1>6 DEF UnselectInterface
  <2> HIDE DEF unchosen
  <2> QED
    BY <1>9, <2>1, ChangeKeeps
<1>7. ASSUME ClearSheet PROVE Kept
  <2> DEFINE u == [wizard EXCEPT !.index = FALSE]
             v == [u EXCEPT !.chosen = FALSE]
             x == Clear(v, {"sheetIdentification"})
  <2>1. v = [wizard EXCEPT !.index = FALSE, !.chosen = FALSE]
    BY DEF WizardInv, StateOK, WizardState
  <2>2. Leaves(u, wizard)
    BY <1>1, FieldLeaves
  <2>3. Leaves(v, u)
    BY <1>1, FieldLeaves
  <2>4. Leaves(x, v)
    BY ClearLeaves
  <2>5. Leaves(SetMappingSheet(x), x)
    BY <1>1, SettingLeaves
  <2> HIDE DEF u, v, x
  <2>6. Leaves(v, wizard)
    BY <2>2, <2>3, LeavesTwice
  <2>7. Leaves(x, wizard)
    BY <2>4, <2>6, LeavesTwice
  <2>8. Leaves(SetMappingSheet(x), wizard)
    BY <2>5, <2>7, LeavesTwice
  <2>9. Ready(SetMappingSheet(x), {"workbook", "choice"})
    BY <1>1, <2>8, LeavesReady
  <2>10. Change(SetMappingSheet(x), {"workbook", "choice"}, {})
    BY <1>7, <2>1 DEF ClearSheet, x
  <2> QED
    BY <2>9, <2>10, ChangeKeeps
<1>8. ASSUME ToggleUseData PROVE Kept
  <2>1. PICK b \in BOOLEAN : [wizard EXCEPT !.useData = ~@] = [wizard EXCEPT !.useData = b]
    <3>1. CASE wizard.useData
      BY <3>1
    <3>2. CASE ~wizard.useData
      BY <3>2
    <3> QED
      BY <3>1, <3>2
  <2> DEFINE w == [wizard EXCEPT !.useData = b]
  <2>2. Leaves(w, wizard)
    BY <1>1, FieldLeaves
  <2>3. Change(w, {}, {})
    BY <1>8, <2>1 DEF ToggleUseData
  <2> HIDE DEF w
  <2>4. Ready(w, {})
    BY <2>2, LeavesReady
  <2> QED
    BY <2>3, <2>4, ChangeKeeps
<1> QED
  BY <1>4, <1>5, <1>6, <1>7, <1>8

LEMMA DatasetKeeps ==
  ASSUME WizardInv, NEW r \in Roles
  PROVE  /\ DropDataset(r) => Kept
         /\ LoadDataset(r) => Kept
<1>1. "live" \in Data
  BY DEF Data
<1>2. Ready(SetConnector(wizard, r), {"data"})
  <2>1. Leaves(SetConnector(wizard, r), wizard)
    BY <1>1, SettingLeaves
  <2> QED
    BY <1>1, <2>1, LeavesReady
<1>3. Ready(SetDataset(wizard, r, "live"), {"data"})
  <2>1. Leaves(SetDataset(wizard, r, "live"), wizard)
    BY <1>1, SettingLeaves
  <2> QED
    BY <1>1, <2>1, LeavesReady
<1> QED
  BY <1>2, <1>3, ChangeKeeps DEF DropDataset, LoadDataset

LEMMA DraftReady == WizardInv => Ready(SetDraftContract(wizard), {})
<1>1. Leaves(SetDraftContract(wizard), wizard)
  BY "source" \in Roles, "none" \in Data, SettingLeaves DEF Roles, Data
<1> QED
  BY <1>1, LeavesReady

\* A page that asks for something other than the resolution.
LEMMA AskKeeps ==
  ASSUME WizardInv, NEW w, NEW call, NEW refs, Ready(w, {}), refs \subseteq Signatures,
         call \in Call /\ call.kind # "resolve" /\ (call.kind = "auto" => call.old \/ ~call.blank),
         Send(w, call, refs)
  PROVE  Kept
<1>1. CallFine(call, w)
  BY DEF CallFine
<1> QED
  BY <1>1, SendKeeps

LEMMA AskType ==
  ASSUME NEW kind \in Kinds \ {"resolve"}, NEW as
  PROVE  /\ Ask(kind, MadeLate(as)) \in Call
         /\ Ask(kind, MadeLate(as)).kind # "resolve"
         /\ ~Ask(kind, MadeLate(as)).blank
         /\ Ask(kind, FALSE) \in Call
         /\ Ask(kind, FALSE).kind # "resolve"
         /\ ~Ask(kind, FALSE).blank
  BY LateIsBoolean DEF Ask, Call

LEMMA AskingKeeps ==
  ASSUME WizardInv
  PROVE  /\ ResolveConnections => Kept
         /\ ApproveTransformations => Kept
         /\ RunReconciliation => Kept
         /\ Generate => Kept
         /\ Preview => Kept
         /\ Decide("approveScript") => Kept
         /\ Decide("reject") => Kept
         /\ SendPrepass => Kept
<1>1. Ready(wizard, {}) /\ {} \subseteq Signatures
  BY SameReady
<1>2. ASSUME ResolveConnections PROVE Kept
  <2> DEFINE call == Ask("identify", MadeLate({"parsedMappingSheet"}))
  <2>1. call \in Call /\ call.kind # "resolve" /\ ~call.blank
    BY AskType DEF Kinds
  <2>2. Send(wizard, call, {})
    BY <1>2 DEF ResolveConnections
  <2> HIDE DEF call
  <2> QED
    BY <1>1, <2>1, <2>2, AskKeeps
<1>3. ASSUME ApproveTransformations PROVE Kept
  <2> DEFINE call == Ask("approve", MadeLate(DraftInputs))
  <2>1. call \in Call /\ call.kind # "resolve" /\ ~call.blank
    BY AskType DEF Kinds
  <2>2. Send(SetDraftContract(wizard), call, {})
    BY <1>3 DEF ApproveTransformations
  <2>3. Ready(SetDraftContract(wizard), {})
    BY DraftReady
  <2> HIDE DEF call
  <2> QED
    BY <1>1, <2>1, <2>2, <2>3, AskKeeps
<1>4. ASSUME RunReconciliation PROVE Kept
  <2> DEFINE call == Ask("run", MadeLate(RunInputs))
  <2>1. call \in Call /\ call.kind # "resolve" /\ ~call.blank
    BY AskType DEF Kinds
  <2>2. Send(wizard, call, {})
    BY <1>4 DEF RunReconciliation
  <2> HIDE DEF call
  <2> QED
    BY <1>1, <2>1, <2>2, AskKeeps
<1>5. ASSUME Generate PROVE Kept
  <2> DEFINE call == Ask("generate", MadeLate({"parsedMappingSheet", "mapping"}))
  <2>1. call \in Call /\ call.kind # "resolve" /\ ~call.blank
    BY AskType DEF Kinds
  <2>2. Send(wizard, call, {})
    BY <1>5 DEF Generate
  <2> HIDE DEF call
  <2> QED
    BY <1>1, <2>1, <2>2, AskKeeps
<1>6. ASSUME Preview PROVE Kept
  <2> DEFINE call == Ask("preview", MadeLate({"generatedScript"}))
  <2>1. call \in Call /\ call.kind # "resolve" /\ ~call.blank
    BY AskType DEF Kinds
  <2>2. Send(wizard, call, {})
    BY <1>6 DEF Preview
  <2> HIDE DEF call
  <2> QED
    BY <1>1, <2>1, <2>2, AskKeeps
<1>7. ASSUME NEW kind \in {"approveScript", "reject"}, Decide(kind) PROVE Kept
  <2> DEFINE call == Ask(kind, MadeLate({"scriptPreview"}))
  <2>1. call \in Call /\ call.kind # "resolve" /\ ~call.blank
    BY AskType DEF Kinds
  <2>2. Send(wizard, call, {})
    BY <1>7 DEF Decide
  <2> HIDE DEF call
  <2> QED
    BY <1>1, <2>1, <2>2, AskKeeps
<1>8. ASSUME SendPrepass PROVE Kept
  <2> DEFINE call == Ask("prepass", FALSE)
  <2>1. call \in Call /\ call.kind # "resolve" /\ ~call.blank
    BY AskType DEF Kinds
  <2>2. Send(wizard, call, {})
    BY <1>8 DEF SendPrepass
  <2> HIDE DEF call
  <2> QED
    BY <1>1, <2>1, <2>2, AskKeeps
<1> QED
  BY <1>2, <1>3, <1>4, <1>5, <1>6, <1>7, <1>8

\* The effects that ask once, or note that there are no rows to ask with.
LEMMA OnceKeeps ==
  ASSUME WizardInv
  PROVE  /\ AutoInfer => Kept
         /\ AutoPair => Kept
         /\ Regenerate => Kept
<1>1. Ready(wizard, {}) /\ autoRun \in AutoRuns
  BY SameReady DEF WizardInv, StateOK
<1>2. {"infer"} \subseteq Signatures /\ {"pair"} \subseteq Signatures
  BY DEF Signatures
<1>3. ASSUME NEW refs, refs \subseteq Signatures, Commit(wizard, calls, {}, {}, refs, autoRun)
      PROVE  Kept
  BY <1>1, <1>3, CommitKeeps
<1> DEFINE infer == Ask("infer", FALSE)
           pair == Ask("pair", MadeLate({"mapping"}))
<1>4. infer \in Call /\ infer.kind # "resolve" /\ ~infer.blank
  BY AskType DEF Kinds
<1>5. pair \in Call /\ pair.kind # "resolve" /\ ~pair.blank
  BY AskType DEF Kinds
<1>6. ASSUME AutoInfer PROVE Kept
  <2>1. Send(wizard, infer, {"infer"}) \/ Commit(wizard, calls, {}, {}, {"infer"}, autoRun)
    BY <1>6 DEF AutoInfer
  <2> HIDE DEF infer
  <2> QED
    BY <1>1, <1>2, <1>3, <1>4, <2>1, AskKeeps
<1>7. ASSUME AutoPair PROVE Kept
  <2>1. Send(wizard, pair, {"pair"}) \/ Commit(wizard, calls, {}, {}, {"pair"}, autoRun)
    BY <1>7 DEF AutoPair
  <2> HIDE DEF pair
  <2> QED
    BY <1>1, <1>2, <1>3, <1>5, <2>1, AskKeeps
<1>8. ASSUME Regenerate PROVE Kept
  <2>1. Commit(wizard, calls, {}, {infer}, {"infer"}, autoRun)
    BY <1>8 DEF Regenerate
  <2>2. CallFine(infer, wizard)
    BY <1>4 DEF CallFine
  <2> HIDE DEF infer
  <2> QED
    BY <1>1, <1>2, <1>4, <2>1, <2>2, CommitKeeps
<1> QED
  BY <1>6, <1>7, <1>8

\* The resolution is asked for as blank when the recipe has no steps.
LEMMA AutoResolveKeeps == WizardInv /\ AutoResolve => Kept
<1> SUFFICES ASSUME WizardInv, AutoResolve PROVE Kept
  OBVIOUS
<1> DEFINE late == MadeLate({"parsedMappingSheet"})
           call == [Ask("resolve", late) EXCEPT !.blank = NoSteps(wizard)]
<1>1. call \in Call /\ call.kind = "resolve" /\ call.stage = "ask"
      /\ (wizard.recipe = "empty" => call.blank)
  <2>1. late \in BOOLEAN
    BY LateIsBoolean
  <2> HIDE DEF late
  <2>2. CASE NoSteps(wizard)
    <3>1. NoSteps(wizard) = TRUE
      BY <2>2 DEF NoSteps
    <3>2. call = [Ask("resolve", late) EXCEPT !.blank = TRUE]
      BY <3>1
    <3> QED
      BY <2>1, <3>2 DEF Ask, Call, Kinds
  <2>3. CASE ~NoSteps(wizard)
    <3>1. wizard.recipe # "empty" /\ NoSteps(wizard) = FALSE
      BY <2>3 DEF NoSteps
    <3>2. call = [Ask("resolve", late) EXCEPT !.blank = FALSE]
      BY <3>1
    <3> QED
      BY <2>1, <3>1, <3>2 DEF Ask, Call, Kinds
  <2> QED
    BY <2>2, <2>3
<1>2. Send(wizard, call, {"resolve"})
  BY DEF AutoResolve
<1> HIDE DEF call
<1>3. CallFine(call, wizard)
  BY <1>1 DEF CallFine
<1>4. Ready(wizard, {}) /\ {"resolve"} \subseteq Signatures
  BY SameReady DEF Signatures
<1> QED
  BY <1>1, <1>2, <1>3, <1>4, SendKeeps

\* With operations on screen an empty recipe means that the resolution is late,
\* and then so is the approval.
LEMMA AutoApproveKeeps == WizardInv /\ AutoApproveAndRun => Kept
<1> SUFFICES ASSUME WizardInv, AutoApproveAndRun PROVE Kept
  OBVIOUS
<1> DEFINE late == MadeLate(DraftInputs)
           bare == wizard.recipe = "empty" /\ wizard.operations
           call == [Ask("auto", late) EXCEPT !.blank = bare]
<1>1. bare => late
  BY DEF WizardInv, RecipeFine, MadeLate, DraftInputs
<1>2. late \in BOOLEAN
  BY LateIsBoolean
<1>3. Send(SetDraftContract(wizard), call, {"auto"})
  BY DEF AutoApproveAndRun
<1> HIDE DEF late
<1>4. call \in Call /\ call.kind = "auto" /\ (call.old \/ ~call.blank)
  <2>1. CASE bare
    BY <1>1, <1>2, <2>1 DEF Ask, Call, Kinds
  <2>2. CASE ~bare
    BY <1>2, <2>2 DEF Ask, Call, Kinds
  <2> QED
    BY <2>1, <2>2
<1> HIDE DEF call
<1>5. Ready(SetDraftContract(wizard), {}) /\ {"auto"} \subseteq Signatures
  BY DraftReady DEF Signatures
<1> QED
  BY <1>3, <1>4, <1>5, AskKeeps

LEMMA EditMappingKeeps ==
  ASSUME WizardInv, NEW keys \in BOOLEAN, EditMapping(keys)
  PROVE  Kept
<1> DEFINE w == SetTransformationMapping(wizard, MadeLate({"mapping"}), keys)
<1>1. Leaves(w, wizard)
  BY "source" \in Roles, "none" \in Data, SettingLeaves DEF Roles, Data
<1>3. Change(w, {"mapping"}, {})
  BY DEF EditMapping
<1> HIDE DEF w
<1>4. Ready(w, {"mapping"})
  BY <1>1, LeavesReady
<1> QED
  BY <1>3, <1>4, ChangeKeeps

LEMMA EditRecipeKeeps ==
  ASSUME WizardInv, NEW to \in {"edited", "emptied"}, EditRecipe(to)
  PROVE  Kept
<1> DEFINE u == [wizard EXCEPT !.recipe = to]
           w == IF Has(u, "contract") THEN SetDraftContract(u) ELSE u
<1>1. Change(w, {"recipe"}, {})
  BY DEF EditRecipe
<1>2. Good(u) /\ u.recipe = to
  BY DEF WizardInv, StateOK, WizardState, Good, RecipeFine
<1> HIDE DEF u
<1>3. Good(w) /\ w.recipe = to
  <2>1. CASE Has(u, "contract")
    <3>1. Leaves(SetDraftContract(u), u)
      BY "source" \in Roles, "none" \in Data, SettingLeaves DEF Roles, Data
    <3> QED
      BY <1>2, <2>1, <3>1, LeavesGood
  <2>2. CASE ~Has(u, "contract")
    BY <1>2, <2>2
  <2> QED
    BY <2>1, <2>2
<1> HIDE DEF w
<1>4. Ready(w, {"recipe"})
  BY <1>3 DEF Ready
<1> QED
  BY <1>1, <1>4, ChangeKeeps

\* The Auto run moves on, and the first page asks for its status.
LEMMA AutoRunKeeps ==
  ASSUME WizardInv
  PROVE  /\ StartAutoRun => Kept
         /\ Poll => Kept
         /\ (\E phase \in Phases : AdvanceAutoRun(phase)) => Kept
<1>1. Ready(wizard, {}) /\ {} \subseteq Signatures
  BY SameReady
<1>2. autoRun \in AutoRuns
  BY DEF WizardInv, StateOK
<1>3. ASSUME StartAutoRun PROVE Kept
  <2> DEFINE call == Ask("start", FALSE)
             run == [autoRun EXCEPT !.phase = "running"]
  <2>1. call \in Call /\ call.kind # "resolve" /\ ~call.blank
    BY AskType DEF Kinds
  <2>2. run \in AutoRuns
    BY <1>2 DEF AutoRuns, Phases
  <2>3. Commit(wizard, calls, {}, {call}, {}, run)
    BY <1>3 DEF StartAutoRun
  <2>4. CallFine(call, wizard)
    BY <2>1 DEF CallFine
  <2> HIDE DEF call, run
  <2> QED
    BY <1>1, <2>1, <2>2, <2>3, <2>4, CommitKeeps
<1>4. ASSUME Poll PROVE Kept
  <2> DEFINE seen == IF autoRun.phase = "running" THEN "none" ELSE autoRun.phase
             call == [Ask("poll", FALSE) EXCEPT !.seen = seen]
  <2>1. seen \in {"none", "completed", "stopped"}
    BY <1>2 DEF AutoRuns, Phases
  <2>2. Send(wizard, call, {})
    BY <1>4 DEF Poll
  <2> HIDE DEF seen
  <2>3. call \in Call /\ call.kind # "resolve" /\ ~call.blank
    BY <2>1 DEF Ask, Call, Kinds
  <2> HIDE DEF call
  <2> QED
    BY <1>1, <2>2, <2>3, AskKeeps DEF Call
<1>5. ASSUME NEW phase \in Phases, AdvanceAutoRun(phase) PROVE Kept
  <2>1. autoRun' \in AutoRuns /\ UNCHANGED <<wizard, calls, fired, flow>>
    BY <1>2, <1>5 DEF AdvanceAutoRun, AutoRuns
  <2> QED
    BY <2>1 DEF WizardInv, StateOK, Kept, EditKept
<1> QED
  BY <1>3, <1>4, <1>5

------------------------------------------------------------------------------
(* The answers.                                                            *)

\* An answer that sends nothing.
LEMMA LandQuiet ==
  ASSUME WizardInv, NEW c, NEW w, NEW ins, Ready(w, ins), Land(c, w, ins, {})
  PROVE  Kept
  BY LandKeeps

LEMMA FailKeeps == ASSUME WizardInv, NEW c, Fail(c) PROVE Kept
<1>1. Land(c, wizard, {}, {})
  BY DEF Fail, Land
<1> QED
  BY <1>1, SameReady, LandQuiet

LEMMA ReceiveInterfacesKeeps ==
  ASSUME WizardInv, NEW c \in calls, NEW single \in BOOLEAN, ReceiveInterfaces(c, single)
  PROVE  Kept
<1> DEFINE u == [wizard EXCEPT !.index = TRUE]
           v == SetMappingSheet(u)
           x == [v EXCEPT !.chosen = TRUE]
           y == Clear(x, {"sheetIdentification"})
           call == [Ask("parse", FALSE) EXCEPT !.here = c.here]
<1>1. "source" \in Roles /\ "none" \in Data
  BY DEF Roles, Data
<1>2. c \in Call
  BY DEF WizardInv, StateOK
<1>3. call \in Call /\ call.kind = "parse"
  BY <1>2 DEF Ask, Call, Kinds
<1>4. Land(c, y, {"workbook", "choice"}, {call}) \/ Land(c, v, {"workbook"}, {})
  BY DEF ReceiveInterfaces
<1>5. Leaves(u, wizard)
  BY <1>1, FieldLeaves
<1>6. Leaves(v, u)
  BY <1>1, SettingLeaves
<1>7. Leaves(x, v)
  BY <1>1, FieldLeaves
<1>8. Leaves(y, x)
  BY ClearLeaves
<1> HIDE DEF u, v, x, y, call
<1>9. Leaves(v, wizard)
  BY <1>5, <1>6, LeavesTwice
<1>10. Leaves(x, wizard)
  BY <1>7, <1>9, LeavesTwice
<1>11. Leaves(y, wizard)
  BY <1>8, <1>10, LeavesTwice
<1>12. Ready(v, {"workbook"})
  BY <1>9, LeavesReady
<1>13. Ready(y, {"workbook", "choice"})
  BY <1>1, <1>11, LeavesReady
<1>14. CallFine(call, y)
  BY <1>3 DEF CallFine
<1> QED
  BY <1>3, <1>4, <1>12, <1>13, <1>14, LandKeeps, LandQuiet

\* The answers that store an artifact, and what it replaces.
LEMMA StoringKeeps ==
  ASSUME WizardInv, NEW c \in calls
  PROVE  /\ ReceiveSlice(c) => Kept
         /\ ReceiveIdentification(c) => Kept
         /\ ReceivePairs(c) => Kept
         /\ ReceivePrepass(c) => Kept
         /\ ReceiveScript(c) => Kept
         /\ ReceivePreview(c) => Kept
         /\ ReceiveScriptApproval(c) => Kept
         /\ ReceiveRejection(c) => Kept
         /\ ReceiveResult(c) => Kept
<1>1. "source" \in Roles /\ "none" \in Data
  BY DEF Roles, Data
<1>3. ASSUME ReceiveSlice(c) PROVE Kept
  <2> DEFINE w == SetParsedMappingSheet(wizard, c.old)
  <2>1. Leaves(w, wizard)
    BY <1>1, SettingLeaves
  <2>2. Land(c, w, {"sheet"}, {})
    BY <1>3 DEF ReceiveSlice
  <2> HIDE DEF w
  <2>3. Ready(w, {"sheet"})
    BY <2>1, LeavesReady
  <2> QED
    BY <2>2, <2>3, LandQuiet
<1>4. ASSUME ReceiveIdentification(c) PROVE Kept
  <2> DEFINE w == Store(wizard, "sheetIdentification", c.old)
  <2>1. Leaves(w, wizard)
    BY StoreLeaves DEF Artifacts
  <2>2. Land(c, w, {}, {})
    BY <1>4 DEF ReceiveIdentification
  <2> HIDE DEF w
  <2> QED
    BY <2>1, <2>2, LeavesReady, LandQuiet
<1>5. ASSUME ReceivePairs(c) PROVE Kept
  <2> DEFINE w == SetValueMappings(wizard, c.old)
  <2>1. Leaves(w, wizard)
    BY <1>1, SettingLeaves
  <2>2. Land(c, w, {}, {})
    BY <1>5 DEF ReceivePairs
  <2> HIDE DEF w
  <2> QED
    BY <2>1, <2>2, LeavesReady, LandQuiet
<1>6. ASSUME ReceivePrepass(c) PROVE Kept
  <2> DEFINE w == SetValueMappings(wizard, MadeLate({"mapping", "valueMappings"}))
  <2>1. Leaves(w, wizard)
    BY <1>1, SettingLeaves
  <2>2. Land(c, w, {}, {})
    BY <1>6 DEF ReceivePrepass
  <2> HIDE DEF w
  <2> QED
    BY <2>1, <2>2, LeavesReady, LandQuiet
<1>7. ASSUME ReceiveScript(c) PROVE Kept
  <2> DEFINE w == SetGeneratedScript(wizard, c.old)
  <2>1. Leaves(w, wizard)
    BY <1>1, SettingLeaves
  <2>2. Land(c, w, {"script"}, {})
    BY <1>7 DEF ReceiveScript
  <2> HIDE DEF w
  <2>3. Ready(w, {"script"})
    BY <2>1, LeavesReady
  <2> QED
    BY <2>2, <2>3, LandQuiet
<1>8. ASSUME ReceivePreview(c) PROVE Kept
  <2> DEFINE w == SetScriptPreview(wizard, c.old)
  <2>1. Leaves(w, wizard)
    BY <1>1, SettingLeaves
  <2>2. Land(c, w, {"preview"}, {})
    BY <1>8 DEF ReceivePreview
  <2> HIDE DEF w
  <2>3. Ready(w, {"preview"})
    BY <2>1, LeavesReady
  <2> QED
    BY <2>2, <2>3, LandQuiet
<1>9. ASSUME ReceiveScriptApproval(c) PROVE Kept
  <2> DEFINE w == Store(wizard, "scriptApproval", c.old)
  <2>1. Leaves(w, wizard)
    BY StoreLeaves DEF Artifacts, Derived, ScriptChain
  <2>2. Land(c, w, {}, {})
    BY <1>9 DEF ReceiveScriptApproval
  <2> HIDE DEF w
  <2> QED
    BY <2>1, <2>2, LeavesReady, LandQuiet
<1>10. ASSUME ReceiveRejection(c) PROVE Kept
  <2> DEFINE v == SetScriptPreview(wizard, c.old)
             w == [v EXCEPT !.rejected = TRUE]
  <2>1. Leaves(v, wizard)
    BY <1>1, SettingLeaves
  <2>2. Leaves(w, v)
    BY <1>1, FieldLeaves
  <2>3. Land(c, w, {"preview"}, {})
    BY <1>10 DEF ReceiveRejection
  <2> HIDE DEF v, w
  <2>4. Leaves(w, wizard)
    BY <2>1, <2>2, LeavesTwice
  <2>5. Ready(w, {"preview"})
    BY <2>4, LeavesReady
  <2> QED
    BY <2>3, <2>5, LandQuiet
<1>11. ASSUME ReceiveResult(c) PROVE Kept
  <2> DEFINE v == Store(wizard, "reconciliation", c.old)
             w == CompleteStep(v, "reconciliation")
  <2>1. Leaves(v, wizard)
    BY StoreLeaves DEF Artifacts, Derived
  <2>2. Leaves(w, v)
    BY CompleteStepLeaves DEF StepKeys, StepOrder
  <2>3. Land(c, w, {}, {})
    BY <1>11 DEF ReceiveResult
  <2> HIDE DEF v, w
  <2>4. Leaves(w, wizard)
    BY <2>1, <2>2, LeavesTwice
  <2> QED
    BY <2>3, <2>4, LeavesReady, LandQuiet
<1> QED
  BY <1>3, <1>4, <1>5, <1>6, <1>7, <1>8, <1>9, <1>10, <1>11

LEMMA ReceiveMappingKeeps ==
  ASSUME WizardInv, NEW c \in calls, NEW keys \in BOOLEAN, ReceiveMapping(c, keys)
  PROVE  Kept
<1> DEFINE w == SetTransformationMapping(wizard, c.old, keys)
<1>1. Leaves(w, wizard)
  BY "source" \in Roles, "none" \in Data, SettingLeaves DEF Roles, Data
<1>3. Land(c, w, {"mapping"}, {})
  BY DEF ReceiveMapping
<1> HIDE DEF w
<1>4. Ready(w, {"mapping"})
  BY <1>1, LeavesReady
<1> QED
  BY <1>3, <1>4, LandQuiet

\* A resolution may be shown beside an empty recipe only if it has no steps, or
\* is known to be late.
LEMMA ResolutionShown ==
  ASSUME NEW w, NEW late \in BOOLEAN, NEW operations \in BOOLEAN, Good(w),
         operations /\ w.recipe = "empty" => late
  PROVE  /\ Good(SetMappingResolution(w, late, operations))
         /\ SetMappingResolution(w, late, operations).recipe = w.recipe
<1> DEFINE v == Store(w, "mappingResolution", late)
           x == [v EXCEPT !.operations = operations]
<1>1. Gains(v, w, "mappingResolution", late)
  BY StoreEffect DEF Good, Artifacts, Derived
<1> HIDE DEF v
<1>2. v \in WizardState /\ v.recipe = w.recipe
      /\ (late => "mappingResolution" \in v.late)
  BY <1>1 DEF Gains, Good
<1>3. x \in WizardState /\ x.recipe = w.recipe
      /\ x.late = v.late /\ x.operations = operations
  BY <1>2 DEF WizardState
<1>4. Good(x)
  BY <1>2, <1>3 DEF Good, RecipeFine
<1> QED
  BY <1>3, <1>4 DEF SetMappingResolution, v

LEMMA ReceiveResolutionKeeps ==
  ASSUME WizardInv, NEW c \in calls, NEW operations \in BOOLEAN, ReceiveResolution(c, operations)
  PROVE  Kept
<1>1. c \in Call /\ CallFine(c, wizard) /\ c.kind = "resolve" /\ c.stage = "ask"
  BY DEF WizardInv, StateOK, ReceiveResolution, Asking
<1>2. Good(wizard)
  BY SameReady DEF Ready
<1>3. CASE c.blank /\ operations
  <2> DEFINE call == [c EXCEPT !.stage = "catalogue"]
  <2>1. call \in Call /\ CallFine(call, wizard)
    BY <1>1, <1>3 DEF Call, CallFine
  <2>2. Land(c, wizard, {}, {call})
    BY <1>3 DEF ReceiveResolution
  <2> HIDE DEF call
  <2> QED
    BY <2>1, <2>2, SameReady, LandKeeps
<1>4. CASE ~(c.blank /\ operations)
  <2> DEFINE w == SetMappingResolution(wizard, c.old, operations)
  <2>1. operations /\ wizard.recipe = "empty" => c.old
    BY <1>1, <1>4 DEF CallFine
  <2>2. c.old \in BOOLEAN
    BY <1>1 DEF Call
  <2>3. Good(w) /\ w.recipe = wizard.recipe
    BY <1>2, <2>1, <2>2, ResolutionShown
  <2>4. Land(c, w, {}, {})
    BY <1>4 DEF ReceiveResolution
  <2> HIDE DEF w
  <2>5. Ready(w, {})
    BY <2>3 DEF Ready
  <2> QED
    BY <2>4, <2>5, LandQuiet
<1> QED
  BY <1>3, <1>4

\* The recipe is seeded in the step that shows the resolution, or there is
\* nothing to seed it with.
LEMMA ReceiveCatalogueKeeps ==
  ASSUME WizardInv, NEW c \in calls, NEW steps \in BOOLEAN, ReceiveCatalogue(c, steps)
  PROVE  Kept
<1>1. c \in Call /\ c.blank
  BY DEF WizardInv, StateOK, ReceiveCatalogue, CallFine
<1>2. Good(wizard)
  BY SameReady DEF Ready
<1>3. CASE steps
  <2> DEFINE v == Store(wizard, "mappingResolution", c.old)
             w == [SetMappingResolution(wizard, c.old, TRUE) EXCEPT !.recipe = "seeded"]
  <2>1. Land(c, w, {"recipe"}, {})
    BY <1>3 DEF ReceiveCatalogue
  <2>2. Gains(v, wizard, "mappingResolution", c.old)
    BY <1>2, StoreEffect DEF Good, Artifacts, Derived
  <2>3. w = [[v EXCEPT !.operations = TRUE] EXCEPT !.recipe = "seeded"]
    BY DEF SetMappingResolution
  <2> HIDE DEF v
  <2>4. v \in WizardState
    BY <2>2 DEF Gains
  <2>5. w \in WizardState /\ w.recipe = "seeded"
    BY <2>3, <2>4 DEF WizardState
  <2> HIDE DEF w
  <2>6. steps = TRUE
    BY <1>3
  <2>7. Replaced
    BY <1>1, <2>6 DEF Replaced
  <2>8. Ready(w, {"recipe"})
    BY <2>5, <2>7 DEF Ready, Good, RecipeFine
  <2> QED
    BY <2>1, <2>8, LandQuiet
<1>4. CASE ~steps
  <2> DEFINE w == SetMappingResolution(wizard, c.old, FALSE)
  <2>1. Land(c, w, {}, {})
    BY <1>4 DEF ReceiveCatalogue
  <2>2. c.old \in BOOLEAN
    BY <1>1 DEF Call
  <2>3. Good(w) /\ w.recipe = wizard.recipe
    BY <1>2, <2>2, ResolutionShown
  <2> HIDE DEF w
  <2>4. Ready(w, {})
    BY <2>3 DEF Ready
  <2> QED
    BY <2>1, <2>4, LandQuiet
<1> QED
  BY <1>3, <1>4

\* An approval goes through its stages as old, and as blank, as it was.
LEMMA ApprovalKeeps ==
  ASSUME WizardInv, NEW c \in calls
  PROVE  /\ ReceiveReport(c) => Kept
         /\ ReceiveContract(c) => Kept
         /\ ReceiveAutoResult(c) => Kept
<1>1. c \in Call /\ CallFine(c, wizard)
  BY DEF WizardInv, StateOK
<1>2. ASSUME NEW stage \in {"approve", "run"}, NEW w, c.kind # "resolve"
      PROVE  [c EXCEPT !.stage = stage] \in Call /\ CallFine([c EXCEPT !.stage = stage], w)
  BY <1>1, <1>2 DEF Call, CallFine
<1>3. ASSUME ReceiveReport(c) PROVE Kept
  <2> DEFINE call == [c EXCEPT !.stage = "approve"]
  <2>1. c.kind # "resolve"
    BY <1>3 DEF ReceiveReport, Asking
  <2>2. call \in Call /\ CallFine(call, wizard)
    BY <1>2, <2>1
  <2>3. Land(c, wizard, {}, {call})
    BY <1>3 DEF ReceiveReport
  <2> HIDE DEF call
  <2> QED
    BY <2>2, <2>3, SameReady, LandKeeps
<1>4. ASSUME ReceiveContract(c) PROVE Kept
  <2> DEFINE w == SetApprovedContract(wizard, c.old)
             call == [c EXCEPT !.stage = "run"]
  <2>1. Leaves(w, wizard)
    BY "source" \in Roles, "none" \in Data, SettingLeaves DEF Roles, Data
  <2>2. Land(c, w, {}, IF c.kind = "auto" THEN {call} ELSE {})
    BY <1>4 DEF ReceiveContract
  <2> HIDE DEF w
  <2>3. Ready(w, {})
    BY <2>1, LeavesReady
  <2>4. CASE c.kind = "auto"
    <3>1. call \in Call /\ CallFine(call, w)
      BY <1>2, <2>4
    <3> HIDE DEF call
    <3> QED
      BY <2>2, <2>3, <2>4, <3>1, LandKeeps
  <2>5. CASE c.kind # "auto"
    BY <2>2, <2>3, <2>5, LandQuiet
  <2> QED
    BY <2>4, <2>5
<1>5. ASSUME ReceiveAutoResult(c) PROVE Kept
  <2> DEFINE u == Store(wizard, "reconciliation", c.old)
             v == CompleteStep(u, "transformationSpec")
             x == CompleteStep(v, "reconciliation")
             w == GoToStep(x, "reconciliation")
  <2>1. "transformationSpec" \in StepKeys /\ "reconciliation" \in StepKeys
    BY DEF StepKeys, StepOrder
  <2>2. Leaves(u, wizard)
    BY StoreLeaves DEF Artifacts, Derived
  <2>3. Leaves(v, u) /\ Leaves(x, v) /\ Leaves(w, x)
    BY <2>1, CompleteStepLeaves, GoToStepLeaves
  <2>4. Land(c, w, {}, {})
    BY <1>5 DEF ReceiveAutoResult
  <2> HIDE DEF u, v, x, w
  <2>5. Leaves(v, wizard)
    BY <2>2, <2>3, LeavesTwice
  <2>6. Leaves(x, wizard)
    BY <2>3, <2>5, LeavesTwice
  <2>7. Leaves(w, wizard)
    BY <2>3, <2>6, LeavesTwice
  <2> QED
    BY <2>4, <2>7, LeavesReady, LandQuiet
<1> QED
  BY <1>3, <1>4, <1>5

LEMMA ReceiveRunIdKeeps ==
  ASSUME WizardInv, NEW c \in calls, ReceiveRunId(c)
  PROVE  Kept
<1> DEFINE run == [autoRun EXCEPT !.polling = IF c.here THEN "on" ELSE "leaked"]
<1>1. run \in AutoRuns
  BY DEF WizardInv, StateOK, AutoRuns
<1>2. Commit(wizard, calls \ {c}, {}, {}, {}, run)
  BY DEF ReceiveRunId
<1> HIDE DEF run
<1> QED
  BY <1>1, <1>2, SameReady, CommitKeeps

\* A run that is seen completed is finished, once for each answer that says so.
LEMMA ReceivePollKeeps ==
  ASSUME WizardInv, NEW c \in calls, ReceivePoll(c)
  PROVE  Kept
<1> DEFINE run == [autoRun EXCEPT !.polling = IF c.seen \in {"completed", "stopped"} THEN "off" ELSE @]
           call == Ask("finish", FALSE)
<1>1. Commit(wizard, calls \ {c}, {}, IF c.seen = "completed" THEN {call} ELSE {}, {}, run)
  BY DEF ReceivePoll
<1>2. run \in AutoRuns
  BY DEF WizardInv, StateOK, AutoRuns
<1>3. call \in Call /\ CallFine(call, wizard)
  BY AskFine DEF Kinds
<1> HIDE DEF run, call
<1>4. CASE c.seen = "completed"
  BY <1>1, <1>2, <1>3, <1>4, SameReady, CommitKeeps
<1>5. CASE c.seen # "completed"
  BY <1>1, <1>2, <1>5, SameReady, CommitKeeps
<1> QED
  BY <1>4, <1>5

LEMMA ReceiveFinishKeeps ==
  ASSUME WizardInv, NEW c \in calls, NEW found \in BOOLEAN, ReceiveFinish(c, found)
  PROVE  Kept
<1> DEFINE t == IF found THEN SetDeterministicContract(wizard, c.old) ELSE wizard
           u == Store(t, "reconciliation", c.old)
           v == CompleteStep(u, "comparisonType")
           x == CompleteStep(v, "transformationSpec")
           y == CompleteStep(x, "reconciliation")
           w == GoToStep(y, "reconciliation")
<1>1. {"comparisonType", "transformationSpec", "reconciliation"} \subseteq StepKeys
  BY DEF StepKeys, StepOrder
<1>2. Leaves(u, t)
  BY StoreLeaves DEF Artifacts, Derived
<1>3. Leaves(v, u) /\ Leaves(x, v) /\ Leaves(y, x) /\ Leaves(w, y)
  BY <1>1, CompleteStepLeaves, GoToStepLeaves
<1>4. Good(wizard)
  BY SameReady DEF Ready
<1>5. Good(t) /\ t.recipe = wizard.recipe
  <2>1. Leaves(SetDeterministicContract(wizard, c.old), wizard)
    BY "source" \in Roles, "none" \in Data, SettingLeaves DEF Roles, Data
  <2>2. CASE found
    BY <1>4, <2>1, <2>2, LeavesGood
  <2>3. CASE ~found
    BY <1>4, <2>3
  <2> QED
    BY <2>2, <2>3
<1>6. Land(c, w, {}, {})
  BY DEF ReceiveFinish
<1> HIDE DEF t, u, v, x, y, w
<1>7. Good(u) /\ u.recipe = wizard.recipe
  BY <1>2, <1>5, LeavesGood
<1>8. Good(v) /\ v.recipe = wizard.recipe
  BY <1>3, <1>7, LeavesGood
<1>9. Good(x) /\ x.recipe = wizard.recipe
  BY <1>3, <1>8, LeavesGood
<1>10. Good(y) /\ y.recipe = wizard.recipe
  BY <1>3, <1>9, LeavesGood
<1>11. Good(w) /\ w.recipe = wizard.recipe
  BY <1>3, <1>10, LeavesGood
<1>12. Ready(w, {})
  BY <1>11 DEF Ready
<1> QED
  BY <1>6, <1>12, LandQuiet

------------------------------------------------------------------------------
(* The theorems.                                                           *)

LEMMA InitWizardInv == Init => WizardInv
<1> SUFFICES ASSUME Init PROVE WizardInv
  OBVIOUS
<1> DEFINE fine(w) == w \in WizardState /\ w.operations = FALSE
<1>1. fine(InitialWizard)
  BY DEF InitialWizard, WizardState, StepKeys, StepOrder, Data
<1>2. ASSUME NEW b \in BOOLEAN PROVE fine(WorkbookRead(b))
  BY <1>1 DEF WorkbookRead, WizardState, Artifacts
<1>3. ASSUME NEW w, fine(w) PROVE fine(DatasetsLoaded(w))
  <2> DEFINE status == [s \in StepKeys |->
               CASE s = "transformationSpec" -> "available"
                 [] s = "reconciliation" -> "locked"
                 [] OTHER -> "complete"]
             data == [r \in Roles |-> "live"]
  <2>1. status \in [StepKeys -> {"locked", "available", "complete"}]
    OBVIOUS
  <2>2. data \in [Roles -> Data] /\ "transformationSpec" \in StepKeys
    BY DEF Data, StepKeys, StepOrder
  <2>3. DatasetsLoaded(w) = [w EXCEPT !.step = "transformationSpec", !.stepStatus = status,
                                      !.index = TRUE, !.chosen = TRUE, !.data = data]
    BY DEF DatasetsLoaded
  <2> HIDE DEF status, data
  <2> DEFINE v == [w EXCEPT !.step = "transformationSpec", !.stepStatus = status,
                            !.index = TRUE, !.chosen = TRUE, !.data = data]
  <2>4. w \in WizardState /\ w.operations = FALSE
    BY <1>3
  <2>5. v \in WizardState
    BY <2>1, <2>2, <2>4 DEF WizardState
  <2>6. v.operations = FALSE
    BY <2>4 DEF WizardState
  <2> QED
    BY <2>3, <2>5, <2>6
<1>4. fine(wizard)
  BY <1>1, <1>2, <1>3 DEF Init
<1>5. calls = {} /\ Cardinality(calls) <= MaxCalls
  BY FS_EmptySet, BoundsAssumption DEF Init
<1>6. autoRun \in AutoRuns
  BY DEF Init, AutoRuns, Phases
<1> QED
  BY <1>4, <1>5, <1>6 DEF Init, WizardInv, StateOK, RecipeFine

LEMMA NextWizardInv == WizardInv /\ [Next]_vars => Kept
<1> SUFFICES ASSUME WizardInv, [Next]_vars PROVE Kept
  OBVIOUS
<1>1. ASSUME User PROVE Kept
  <2>1. ASSUME NEW s \in StepKeys, Visit(s) \/ Continue(s) PROVE Kept
    BY <2>1, NavigationKeeps
  <2>2. ASSUME NEW r \in Roles, DropDataset(r) \/ LoadDataset(r) PROVE Kept
    BY <2>2, DatasetKeeps
  <2>3. CASE StartOver \/ Reload
    BY <2>3, StartOverKeeps, ReloadKeeps
  <2>4. CASE UploadWorkbook \/ SelectInterface \/ UnselectInterface \/ ClearSheet \/ ToggleUseData
    BY <2>4, WorkbookKeeps
  <2>5. CASE Regenerate
    BY <2>5, OnceKeeps
  <2>6. CASE \/ ResolveConnections \/ ApproveTransformations \/ RunReconciliation \/ Generate
             \/ Preview \/ Decide("approveScript") \/ Decide("reject")
    BY <2>6, AskingKeeps
  <2>7. CASE StartAutoRun
    BY <2>7, AutoRunKeeps
  <2>8. ASSUME NEW keys \in BOOLEAN, EditMapping(keys) PROVE Kept
    BY <2>8, EditMappingKeeps
  <2>9. ASSUME NEW to \in {"edited", "emptied"}, EditRecipe(to) PROVE Kept
    BY <2>9, EditRecipeKeeps
  <2> QED
    BY <1>1, <2>1, <2>2, <2>3, <2>4, <2>5, <2>6, <2>7, <2>8, <2>9 DEF User
<1>2. ASSUME Effect PROVE Kept
  BY <1>2, OnceKeeps, AutoResolveKeeps, AskingKeeps, AutoApproveKeeps, AutoRunKeeps DEF Effect
<1>3. ASSUME NEW c \in calls, Answer(c) PROVE Kept
  <2>1. CASE Fail(c)
    BY <2>1, FailKeeps
  <2>2. ASSUME NEW yes \in BOOLEAN, ReceiveInterfaces(c, yes) PROVE Kept
    BY <2>2, ReceiveInterfacesKeeps
  <2>3. ASSUME NEW yes \in BOOLEAN, ReceiveMapping(c, yes) PROVE Kept
    BY <2>3, ReceiveMappingKeeps
  <2>4. ASSUME NEW yes \in BOOLEAN, ReceiveResolution(c, yes) PROVE Kept
    BY <2>4, ReceiveResolutionKeeps
  <2>5. ASSUME NEW yes \in BOOLEAN, ReceiveFinish(c, yes) PROVE Kept
    BY <2>5, ReceiveFinishKeeps
  <2>6. CASE \/ ReceiveSlice(c) \/ ReceiveIdentification(c) \/ ReceivePairs(c)
             \/ ReceivePrepass(c) \/ ReceiveScript(c) \/ ReceivePreview(c)
             \/ ReceiveScriptApproval(c) \/ ReceiveRejection(c) \/ ReceiveResult(c)
    BY <2>6, StoringKeeps
  <2>7. CASE ReceiveRunId(c) \/ ReceivePoll(c)
    BY <2>7, ReceiveRunIdKeeps, ReceivePollKeeps
  <2>8. CASE ReceiveReport(c) \/ ReceiveContract(c) \/ ReceiveAutoResult(c)
    BY <2>8, ApprovalKeeps
  <2>9. ASSUME NEW yes \in BOOLEAN, ReceiveCatalogue(c, yes) PROVE Kept
    BY <2>9, ReceiveCatalogueKeeps
  <2> QED
    BY <1>3, <2>1, <2>2, <2>3, <2>4, <2>5, <2>6, <2>7, <2>8, <2>9 DEF Answer
<1>4. ASSUME NEW phase \in Phases, AdvanceAutoRun(phase) PROVE Kept
  BY <1>4, AutoRunKeeps
<1>5. ASSUME UNCHANGED vars PROVE Kept
  BY <1>5 DEF vars, WizardInv, StateOK, Kept, EditKept
<1> QED
  BY <1>1, <1>2, <1>3, <1>4, <1>5 DEF Next

\* The user's changes are counted one by one, up to the bound.
LEMMA NextChanges ==
  ASSUME changes \in 0..MaxChanges, [Next]_vars
  PROVE  changes' \in 0..MaxChanges
<1> DEFINE counted == changes' = changes \/ (changes < MaxChanges /\ changes' = changes + 1)
<1>1. ASSUME NEW w, NEW ins, NEW new, Change(w, ins, new) PROVE counted
  BY <1>1 DEF Change
<1>2. ASSUME NEW w, NEW call, NEW refs, Send(w, call, refs) PROVE counted
  BY <1>2 DEF Send
<1>3. ASSUME NEW c, NEW w, NEW ins, NEW next, Land(c, w, ins, next) PROVE counted
  BY <1>3 DEF Land
<1> HIDE DEF counted
<1>4. ASSUME User PROVE counted
  <2>1. ASSUME NEW s \in StepKeys, Visit(s) PROVE counted
    BY <1>1, <2>1 DEF Visit
  <2>2. ASSUME NEW s \in StepKeys, Continue(s) PROVE counted
    BY <2>2 DEF Continue, counted
  <2>3. ASSUME NEW r \in Roles, DropDataset(r) \/ LoadDataset(r) PROVE counted
    BY <1>1, <2>3 DEF DropDataset, LoadDataset
  <2>4. ASSUME NEW keys \in BOOLEAN, EditMapping(keys) PROVE counted
    BY <1>1, <2>4 DEF EditMapping
  <2>5. CASE StartOver \/ UploadWorkbook \/ SelectInterface \/ UnselectInterface
    BY <1>1, <2>5 DEF StartOver, UploadWorkbook, SelectInterface, UnselectInterface
  <2>6. ASSUME NEW to, ClearSheet \/ ToggleUseData \/ EditRecipe(to) PROVE counted
    BY <1>1, <2>6 DEF ClearSheet, ToggleUseData, EditRecipe
  <2>7. CASE Reload \/ StartAutoRun \/ Regenerate
    BY <2>7 DEF Reload, StartAutoRun, Regenerate, counted
  <2>8. CASE ResolveConnections \/ ApproveTransformations \/ RunReconciliation
    BY <1>2, <2>8 DEF ResolveConnections, ApproveTransformations, RunReconciliation
  <2>9. CASE Generate \/ Preview \/ Decide("approveScript") \/ Decide("reject")
    BY <1>2, <2>9 DEF Generate, Preview, Decide
  <2> QED
    BY <1>4, <2>1, <2>2, <2>3, <2>4, <2>5, <2>6, <2>7, <2>8, <2>9 DEF User
<1>5. ASSUME Effect PROVE counted
  <2>1. CASE AutoInfer \/ AutoPair
    BY <1>2, <2>1 DEF AutoInfer, AutoPair, counted
  <2>2. CASE AutoResolve \/ SendPrepass \/ AutoApproveAndRun \/ Poll
    BY <1>2, <2>2 DEF AutoResolve, SendPrepass, AutoApproveAndRun, Poll
  <2> QED
    BY <1>5, <2>1, <2>2 DEF Effect
<1>6. ASSUME NEW c \in calls, Answer(c) PROVE counted
  <2>1. CASE Fail(c) \/ ReceiveRunId(c) \/ ReceivePoll(c)
    BY <2>1 DEF Fail, ReceiveRunId, ReceivePoll, counted
  <2>2. ASSUME NEW yes \in BOOLEAN, ReceiveInterfaces(c, yes) PROVE counted
    BY <1>3, <2>2 DEF ReceiveInterfaces
  <2>3. ASSUME NEW yes \in BOOLEAN, ReceiveMapping(c, yes) \/ ReceiveResolution(c, yes)
        PROVE  counted
    BY <1>3, <2>3 DEF ReceiveMapping, ReceiveResolution
  <2>4. ASSUME NEW yes \in BOOLEAN, ReceiveFinish(c, yes) PROVE counted
    BY <1>3, <2>4 DEF ReceiveFinish
  <2>5. ASSUME NEW yes \in BOOLEAN,
               \/ ReceiveSlice(c) \/ ReceiveIdentification(c) \/ ReceiveCatalogue(c, yes)
               \/ ReceivePairs(c) \/ ReceivePrepass(c)
        PROVE  counted
    BY <1>3, <2>5 DEF ReceiveSlice, ReceiveIdentification, ReceiveCatalogue, ReceivePairs,
                      ReceivePrepass
  <2>6. CASE ReceiveReport(c) \/ ReceiveContract(c) \/ ReceiveAutoResult(c) \/ ReceiveResult(c)
    BY <1>3, <2>6 DEF ReceiveReport, ReceiveContract, ReceiveAutoResult, ReceiveResult
  <2>7. CASE ReceiveScript(c) \/ ReceivePreview(c) \/ ReceiveScriptApproval(c)
             \/ ReceiveRejection(c)
    BY <1>3, <2>7 DEF ReceiveScript, ReceivePreview, ReceiveScriptApproval, ReceiveRejection
  <2> QED
    BY <1>6, <2>1, <2>2, <2>3, <2>4, <2>5, <2>6, <2>7 DEF Answer
<1>7. ASSUME NEW phase \in Phases, AdvanceAutoRun(phase) PROVE counted
  BY <1>7 DEF AdvanceAutoRun, counted
<1>8. ASSUME UNCHANGED vars PROVE counted
  BY <1>8 DEF vars, counted
<1>9. counted
  BY <1>4, <1>5, <1>6, <1>7, <1>8 DEF Next
<1> QED
  BY <1>9, BoundsAssumption DEF counted

\* Whatever the user and the backend do, the wizard stays in its states, and its
\* recipe, resolution and requests fit together.
THEOREM WizardInvariance == Spec => []WizardInv
<1>1. WizardInv /\ [Next]_vars => WizardInv'
  BY NextWizardInv DEF Kept
<1> QED
  BY <1>1, InitWizardInv, PTL DEF Spec

\* The type invariant of the wizard: no request, and no answer that lands in a
\* wizard that has moved on, takes the reducer out of its states.
THEOREM TypeCorrect == Spec => []TypeOK
<1>1. Init => changes \in 0..MaxChanges
  BY BoundsAssumption DEF Init
<1>2. changes \in 0..MaxChanges /\ [Next]_vars => (changes \in 0..MaxChanges)'
  BY NextChanges
<1>3. WizardInv /\ changes \in 0..MaxChanges => TypeOK
  BY DEF WizardInv, StateOK, TypeOK, Signatures, AutoRuns
<1> QED
  BY <1>1, <1>2, <1>3, WizardInvariance, PTL DEF Spec

\* However late it answers, a resolution that was asked for while the recipe had
\* steps never overwrites the recipe the user edited.
THEOREM EditsAreKeptHolds == Spec => EditsAreKept
<1>1. WizardInv /\ [Next]_vars
        => [wizard.recipe = "edited" /\ wizard'.recipe \notin {"edited", "emptied"}
              => Replaced]_vars
  BY NextWizardInv DEF Kept, EditKept
<1> QED
  BY <1>1, WizardInvariance, PTL DEF Spec, EditsAreKept, Replaced

\* The automatic approval of the mapping page never goes out without the steps
\* that the sheet was resolved to, unless an input of it has changed meanwhile.
THEOREM AutoRunUsesStepsHolds == Spec => []AutoRunUsesSteps
<1>1. WizardInv => AutoRunUsesSteps
  BY DEF WizardInv, CallFine, AutoRunUsesSteps
<1> QED
  BY <1>1, WizardInvariance, PTL

=============================================================================
