------------------------------- MODULE Wizard -------------------------------
(***************************************************************************)
(* The five-step wizard of the web front end: the reducer that holds its    *)
(* state, the pages whose handlers and effects call the backend, and the    *)
(* answers, which land in whatever state the wizard is in by then.          *)
(*                                                                         *)
(* An artifact is late when an input changed while its request was under    *)
(* way, or when it was made from one that is.                               *)
(***************************************************************************)
EXTENDS Integers, Sequences, FiniteSets

CONSTANTS
  MaxCalls,    \* bound: requests under way at a time
  MaxChanges   \* bound: visits, choices, uploads, edits and restarts of the user

ASSUME BoundsAssumption == MaxCalls \in Nat /\ MaxChanges \in Nat

VARIABLES
  wizard,   \* the reducer's state
  calls,    \* requests whose answer has not landed
  fired,    \* signature refs of the mapping page that hold the present inputs
  autoRun,  \* the Auto run: what the backend will answer, and the page's poll
  flow,     \* bound: what the user is after in this behaviour
  changes   \* ghost: how many of these the user made

vars == <<wizard, calls, fired, autoRun, flow, changes>>

------------------------------------------------------------------------------
(* State.                                                                  *)

StepOrder == <<"comparisonType", "source", "target", "transformationSpec", "reconciliation">>
StepKeys == {StepOrder[i] : i \in DOMAIN StepOrder}
Roles == {"source", "target"}
\* "stripped": the draft a reload restores has no file and no rows.
Data == {"none", "live", "stripped"}

ScriptChain == {"generatedScript", "scriptPreview", "scriptApproval"}
Derived == {"mapping", "mappingResolution", "valueMappings", "contract",
            "deterministicContract", "reconciliation"} \union ScriptChain
Artifacts == Derived \union {"parsedMappingSheet", "sheetIdentification"}

Kinds == {"interfaces", "parse", "identify", "infer", "resolve", "pair", "prepass",
          "approve", "auto", "run", "generate", "preview", "approveScript",
          "reject", "start", "poll", "finish"}
Call == [kind : Kinds,
         stage : {"ask", "catalogue", "approve", "run"},
         here : BOOLEAN,       \* the page instance that asked is still mounted
         old : BOOLEAN,        \* ghost: an input it used has changed
         blank : BOOLEAN,      \* the recipe was empty in its closure
         seen : {"none", "completed", "stopped"}]  \* the status it answers

WizardState ==
  [step : StepKeys, stepStatus : [StepKeys -> {"locked", "available", "complete"}],
   data : [Roles -> Data], index : BOOLEAN, chosen : BOOLEAN, useData : BOOLEAN,
   keys : BOOLEAN,
   operations : BOOLEAN,    \* the resolution has operations a recipe can hold
   recipe : {"empty", "seeded", "edited", "emptied"}, rejected : BOOLEAN,
   has : SUBSET Artifacts, late : SUBSET Artifacts]

Phases == {"none", "running", "completed", "stopped"}

TypeOK ==
  /\ wizard \in WizardState
  /\ calls \subseteq Call /\ Cardinality(calls) <= MaxCalls
  /\ fired \subseteq {"infer", "resolve", "pair", "auto"}
  /\ autoRun \in [phase : Phases, polling : {"off", "on", "leaked"}]
  /\ flow \in {"contract", "script", "auto"}
  /\ changes \in 0..MaxChanges

\* createInitialWizardState.
InitialWizard ==
  [step |-> "comparisonType",
   stepStatus |-> [s \in StepKeys |-> IF s = StepOrder[1] THEN "available" ELSE "locked"],
   data |-> [r \in Roles |-> "none"], index |-> FALSE, chosen |-> FALSE,
   useData |-> FALSE, keys |-> FALSE, operations |-> FALSE,
   recipe |-> "empty", rejected |-> FALSE, has |-> {}, late |-> {}]

\* A workbook of one interface is read and chosen.
WorkbookRead(useData) ==
  [InitialWizard EXCEPT !.index = TRUE, !.chosen = TRUE, !.useData = useData,
                        !.has = {"parsedMappingSheet"}]

\* Both datasets are loaded too, and the mapping page is reached.
DatasetsLoaded(w) ==
  [w EXCEPT
     !.step = "transformationSpec",
     !.stepStatus = [s \in StepKeys |->
        CASE s = "transformationSpec" -> "available"
          [] s = "reconciliation" -> "locked"
          [] OTHER -> "complete"],
     !.index = TRUE, !.chosen = TRUE, !.data = [r \in Roles |-> "live"]]

\* Bound: the user's changes are counted from a wizard that is well under way.
Init ==
  /\ flow \in {"contract", "script", "auto"}
  /\ wizard = CASE flow = "auto" -> WorkbookRead(FALSE)
                   [] flow = "contract" -> DatasetsLoaded(WorkbookRead(TRUE))
                   [] OTHER -> DatasetsLoaded(InitialWizard)
  /\ calls = {} /\ fired = {}
  /\ autoRun = [phase |-> "none", polling |-> "off"]
  /\ changes = 0

Has(w, a) == a \in w.has
BothSides(w) == \A r \in Roles : w.data[r] # "none"
BothLive(w) == \A r \in Roles : w.data[r] = "live"
On(s) == wizard.step = s /\ wizard.stepStatus[s] # "locked"

------------------------------------------------------------------------------
(* The reducer: one operator per kind of action, from state to state.       *)

Clear(w, as) ==
  [w EXCEPT !.has = @ \ as, !.late = @ \ as,
            !.keys = @ /\ "mapping" \notin as,
            !.operations = @ /\ "mappingResolution" \notin as,
            !.rejected = @ /\ "scriptPreview" \notin as]
Store(w, a, late) ==
  [w EXCEPT !.has = @ \union {a},
            !.late = IF late THEN @ \union {a} ELSE @ \ {a}]
SetStatus(w, s, status) == [w EXCEPT !.stepStatus[s] = status]

InvalidateDerived(w) ==
  SetStatus(SetStatus(Clear(w, Derived), "transformationSpec",
                      IF w.stepStatus["target"] = "complete" THEN "available" ELSE "locked"),
            "reconciliation", "locked")

SetConnector(w, role) == InvalidateDerived([w EXCEPT !.data[role] = "none"])
SetDataset(w, role, data) == InvalidateDerived([w EXCEPT !.data[role] = data])
SetMappingSheet(w) ==
  Clear(w, {"parsedMappingSheet", "mappingResolution", "contract"} \union ScriptChain)
SetParsedMappingSheet(w, late) ==
  Store(Clear(w, {"mappingResolution"}), "parsedMappingSheet", late)
SetTransformationMapping(w, late, keys) ==
  [Store(Clear(w, {"valueMappings", "deterministicContract"}), "mapping", late)
     EXCEPT !.keys = keys]
SetValueMappings(w, late) == Store(Clear(w, {"deterministicContract"}), "valueMappings", late)
SetDraftContract(w) == SetStatus(Clear(w, {"contract"}), "reconciliation", "locked")
SetApprovedContract(w, late) == SetStatus(Store(w, "contract", late), "reconciliation", "locked")
SetDeterministicContract(w, late) ==
  SetStatus(Store(w, "deterministicContract", late), "reconciliation", "available")
SetGeneratedScript(w, late) ==
  Store(Clear(w, {"scriptPreview", "scriptApproval"}), "generatedScript", late)
SetScriptPreview(w, late) ==
  [Store(Clear(w, {"scriptApproval"}), "scriptPreview", late) EXCEPT !.rejected = FALSE]

After(s) == {StepOrder[i + 1] : i \in {j \in 1..(Len(StepOrder) - 1) : StepOrder[j] = s}}

CompleteStep(w, s) ==
  [w EXCEPT !.stepStatus = [t \in StepKeys |->
     CASE t = s -> "complete"
       [] t \in After(s) /\ w.stepStatus[t] = "locked" -> "available"
       [] OTHER -> w.stepStatus[t]]]

GoToStep(w, s) == IF w.stepStatus[s] = "locked" THEN w ELSE [w EXCEPT !.step = s]

------------------------------------------------------------------------------
(* What is made from what, and what a step does to the requests under way.  *)

Inputs == {"data", "workbook", "sheet", "choice", "mapping", "recipe", "script", "preview"}

\* The inputs each request is built from.
Uses ==
  [k \in Kinds |->
    CASE k \in {"parse", "identify"} -> {"workbook", "choice"}
      [] k = "infer" -> {"data"}
      [] k = "resolve" -> {"data", "workbook", "sheet"}
      [] k = "pair" -> {"data", "mapping"}
      [] k = "prepass" -> {"data", "mapping", "recipe"}
      [] k \in {"approve", "auto"} -> {"data", "workbook", "mapping", "recipe"}
      [] k = "run" -> {"data"}
      [] k = "generate" -> {"data", "workbook", "sheet", "mapping"}
      [] k = "preview" -> {"data", "script"}
      [] k \in {"approveScript", "reject"} -> {"data", "script", "preview"}
      [] OTHER -> {}]

\* The dependencies of the pre-pass effect: a change cancels the one under way.
PrepassDeps == {"data", "mapping", "recipe"}

\* The datasets, and the sheet, a signature ref was set for.
Signature ==
  [f \in {"infer", "pair", "resolve", "auto"} |->
    IF f \in {"infer", "pair"} THEN {"data"} ELSE {"data", "workbook", "sheet"}]

\* The answer of a pre-pass whose effect was cleaned up is thrown away.
Cancel(cs) == {c \in cs : c.kind # "prepass"}
Overtake(cs, ins) ==
  {[c EXCEPT !.old = @ \/ ins \intersect Uses[c.kind] # {} \/ "restart" \in ins]
     : c \in IF ins \intersect PrepassDeps = {} THEN cs ELSE Cancel(cs)}

\* A page that is left keeps its other requests.
Unmount(cs) == {[c EXCEPT !.here = FALSE] : c \in Cancel(cs)}

\* The dispatches of a handler take the reducer to w and change the inputs ins;
\* cs stay under way and new are sent.  Leaving a page forgets its refs, and
\* leaving the first one its poll, unless the poll was set after the page left.
Commit(w, cs, ins, new, refs, run) ==
  LET left == w.step # wizard.step
  IN  /\ wizard' = w
      /\ calls' = (IF left THEN Unmount(Overtake(cs, ins)) ELSE Overtake(cs, ins)) \union new
      /\ Cardinality(calls') <= MaxCalls
      /\ fired' = IF left THEN {} ELSE {f \in fired : ins \intersect Signature[f] = {}} \union refs
      /\ autoRun' = [run EXCEPT !.polling =
                       IF left /\ wizard.step = "comparisonType" /\ @ = "on" THEN "off" ELSE @]
      /\ UNCHANGED flow

Ask(kind, old) ==
  [kind |-> kind, stage |-> "ask", here |-> TRUE, old |-> old,
   blank |-> FALSE, seen |-> "none"]
Asking(kind) == {c \in calls : c.kind = kind /\ c.stage = "ask"}
Loading(kind) == \E c \in calls : c.kind = kind /\ c.here

\* What is made from artifacts that are late is late itself.
MadeLate(as) == as \intersect wizard.late # {}

Send(w, call, refs) ==
  /\ Commit(w, calls, {}, {call}, refs, autoRun)
  /\ UNCHANGED changes

\* The answer of c lands; a call with a next stage goes on as next.
Land(c, w, ins, next) ==
  /\ Commit(w, calls \ {c}, ins, next, {}, autoRun)
  /\ UNCHANGED changes

Fail(c) ==
  /\ Commit(wizard, calls \ {c}, {}, {}, {}, autoRun)
  /\ UNCHANGED changes

\* The user changes something.
Change(w, ins, new) ==
  /\ changes < MaxChanges
  /\ Commit(w, calls, ins, new, {}, autoRun)
  /\ changes' = changes + 1

------------------------------------------------------------------------------
(* Navigation.                                                             *)

\* The step bar, Back, and the browser's history.
Visit(s) ==
  /\ s # wizard.step /\ wizard.stepStatus[s] # "locked"
  /\ Change(GoToStep(wizard, s), {}, {})

CanContinue(s) ==
  CASE s = "comparisonType" -> wizard.chosen /\ wizard.index
    [] s \in Roles -> wizard.data[s] # "none"
    [] s = "transformationSpec" -> flow = "script" \/ Has(wizard, "contract")
    [] OTHER -> FALSE

Continue(s) ==
  /\ On(s) /\ CanContinue(s)
  /\ \E n \in After(s) : Commit(GoToStep(CompleteStep(wizard, s), n), calls, {}, {}, {}, autoRun)
  /\ UNCHANGED changes

\* The requests of the discarded wizard are still under way.
StartOver ==
  Change(InitialWizard, {"restart"}, {})

\* The page is loaded again: the draft comes back without files and rows.
Reload ==
  /\ changes < MaxChanges
  /\ wizard' = [wizard EXCEPT !.data = [r \in Roles |->
                  IF @[r] = "none" THEN "none" ELSE "stripped"]]
  /\ calls' = {} /\ fired' = {}
  /\ autoRun' = [autoRun EXCEPT !.polling = "off"]
  /\ changes' = changes + 1
  /\ UNCHANGED flow

------------------------------------------------------------------------------
(* The first page: the workbook, its interfaces and the systems they name.  *)

\* handleSheetFile drops the choice before the list of the new workbook is read.
UploadWorkbook ==
  /\ On("comparisonType") /\ ~Loading("interfaces")
  /\ Change(Clear([wizard EXCEPT !.chosen = FALSE], {"sheetIdentification"}),
            {"choice"}, {Ask("interfaces", FALSE)})

\* A workbook with one interface chooses it at once.
ReceiveInterfaces(c, single) ==
  /\ c \in Asking("interfaces")
  /\ LET w == SetMappingSheet([wizard EXCEPT !.index = TRUE])
     IN  IF single
         THEN Land(c, Clear([w EXCEPT !.chosen = TRUE], {"sheetIdentification"}),
                   {"workbook", "choice"}, {[Ask("parse", FALSE) EXCEPT !.here = c.here]})
         ELSE Land(c, w, {"workbook"}, {})

SelectInterface ==
  /\ On("comparisonType") /\ wizard.index /\ ~Loading("parse")
  /\ Change(Clear([wizard EXCEPT !.chosen = TRUE], {"sheetIdentification"}),
            {"choice"}, {Ask("parse", FALSE)})

UnselectInterface ==
  /\ On("comparisonType") /\ wizard.index /\ ~Loading("parse") /\ wizard.chosen
  /\ Change(Clear([wizard EXCEPT !.chosen = FALSE], {"sheetIdentification"}), {"choice"}, {})

ReceiveSlice(c) ==
  /\ c \in Asking("parse")
  /\ Land(c, SetParsedMappingSheet(wizard, c.old), {"sheet"}, {})

ResolveConnections ==
  /\ On("comparisonType") /\ flow = "auto"
  /\ Has(wizard, "parsedMappingSheet") /\ wizard.chosen
  /\ ~Loading("parse") /\ ~Loading("identify")
  /\ Send(wizard, Ask("identify", MadeLate({"parsedMappingSheet"})), {})

ReceiveIdentification(c) ==
  /\ c \in Asking("identify")
  /\ Land(c, Store(wizard, "sheetIdentification", c.old), {}, {})

ToggleUseData ==
  /\ On("comparisonType")
  /\ Change([wizard EXCEPT !.useData = ~@], {}, {})

ClearSheet ==
  /\ On("comparisonType") /\ wizard.index /\ ~Loading("interfaces")
  /\ Change(SetMappingSheet(Clear([wizard EXCEPT !.index = FALSE, !.chosen = FALSE],
                                  {"sheetIdentification"})),
            {"workbook", "choice"}, {})

------------------------------------------------------------------------------
(* The source and the target page.                                         *)

DropDataset(role) ==
  /\ On(role)
  /\ Change(SetConnector(wizard, role), {"data"}, {})

LoadDataset(role) ==
  /\ On(role)
  /\ Change(SetDataset(wizard, role, "live"), {"data"}, {})

------------------------------------------------------------------------------
(* The mapping page: effects that start by themselves, and the user's edits. *)

\* The effect runs once for a pair of datasets; without rows it shows an error.
AutoInfer ==
  /\ On("transformationSpec")
  /\ ~Has(wizard, "mapping") /\ BothSides(wizard) /\ "infer" \notin fired
  /\ IF BothLive(wizard) THEN Send(wizard, Ask("infer", FALSE), {"infer"})
     ELSE /\ Commit(wizard, calls, {}, {}, {"infer"}, autoRun)
          /\ UNCHANGED changes

Regenerate ==
  /\ On("transformationSpec") /\ ~Loading("infer") /\ BothLive(wizard)
  /\ changes < MaxChanges /\ changes' = changes + 1
  /\ Commit(wizard, calls, {}, {Ask("infer", FALSE)}, {"infer"}, autoRun)

ReceiveMapping(c, keys) ==
  /\ c \in Asking("infer")
  /\ Land(c, SetTransformationMapping(wizard, c.old, keys), {"mapping"}, {})

EditMapping(keys) ==
  /\ On("transformationSpec")
  /\ Change(SetTransformationMapping(wizard, MadeLate({"mapping"}), keys), {"mapping"}, {})

NoSteps(w) == w.recipe \in {"empty", "emptied"}

AutoResolve ==
  /\ On("transformationSpec")
  /\ ~Has(wizard, "mappingResolution") /\ Has(wizard, "parsedMappingSheet") /\ BothSides(wizard)
  /\ "resolve" \notin fired
  /\ Send(wizard, [Ask("resolve", MadeLate({"parsedMappingSheet"}))
                     EXCEPT !.blank = NoSteps(wizard)], {"resolve"})

SetMappingResolution(w, late, operations) ==
  [Store(w, "mappingResolution", late) EXCEPT !.operations = operations]

\* Mutant: the resolution is shown before the steps of the recipe are ready.
ReceiveResolutionFirst(c, operations) ==
  /\ c \in Asking("resolve")
  /\ Land(c, SetMappingResolution(wizard, c.old, operations), {},
          IF c.blank /\ operations THEN {[c EXCEPT !.stage = "catalogue"]} ELSE {})

\* Mutant: whatever recipe there was is seeded again.
ReceiveResolutionAlways(c, operations) ==
  /\ c \in Asking("resolve")
  /\ IF operations
     THEN Land(c, wizard, {}, {[c EXCEPT !.stage = "catalogue"]})
     ELSE Land(c, SetMappingResolution(wizard, c.old, operations), {}, {})

\* An empty recipe is seeded: the catalogue is read before anything is shown.
ReceiveResolution(c, operations) ==
  /\ c \in Asking("resolve")
  /\ IF c.blank /\ operations
     THEN Land(c, wizard, {}, {[c EXCEPT !.stage = "catalogue"]})
     ELSE Land(c, SetMappingResolution(wizard, c.old, operations), {}, {})

\* The recipe was empty in the closure, whatever it is now; if the operations
\* are comparisons, or unknown to the catalogue, there are no steps to seed.
ReceiveCatalogue(c, steps) ==
  /\ c.kind = "resolve" /\ c.stage = "catalogue"
  /\ IF steps
     THEN Land(c, [SetMappingResolution(wizard, c.old, TRUE) EXCEPT !.recipe = "seeded"],
               {"recipe"}, {})
     ELSE Land(c, SetMappingResolution(wizard, c.old, FALSE), {}, {})

\* An edit, which may remove the last step, takes back the approval on screen.
EditRecipe(to) ==
  /\ On("transformationSpec")
  /\ to = "emptied" => ~NoSteps(wizard)
  /\ LET w == [wizard EXCEPT !.recipe = to]
     IN  Change(IF Has(w, "contract") THEN SetDraftContract(w) ELSE w, {"recipe"}, {})

CanPair == wizard.useData /\ wizard.keys /\ BothSides(wizard)

AutoPair ==
  /\ On("transformationSpec")
  /\ Has(wizard, "parsedMappingSheet") /\ ~Has(wizard, "valueMappings") /\ ~Loading("pair")
  /\ CanPair /\ "pair" \notin fired
  /\ IF BothLive(wizard) THEN Send(wizard, Ask("pair", MadeLate({"mapping"})), {"pair"})
     ELSE /\ Commit(wizard, calls, {}, {}, {"pair"}, autoRun)
          /\ UNCHANGED changes

ReceivePairs(c) ==
  /\ c \in Asking("pair")
  /\ Land(c, SetValueMappings(wizard, c.old), {}, {})

\* How long an edit waits for its pre-pass, and how often one is sent, is left out.
SendPrepass ==
  /\ On("transformationSpec") /\ CanPair
  /\ Asking("prepass") = {}
  /\ Send(wizard, Ask("prepass", FALSE), {})

\* Its pairs are merged into those there are.
ReceivePrepass(c) ==
  /\ c \in Asking("prepass")
  /\ Land(c, SetValueMappings(wizard, MadeLate({"mapping", "valueMappings"})), {}, {})

DraftInputs == {"mapping", "valueMappings", "mappingResolution"}

ApproveTransformations ==
  /\ On("transformationSpec") /\ flow # "script"
  /\ BothSides(wizard) /\ wizard.keys /\ ~Has(wizard, "contract")
  /\ ~Loading("approve") /\ ~Loading("auto")
  /\ Send(SetDraftContract(wizard), Ask("approve", MadeLate(DraftInputs)), {})

\* The steps the sheet was resolved to are in the draft, or were before an edit.
AutoApproveAndRun ==
  /\ On("transformationSpec")
  /\ Has(wizard, "parsedMappingSheet") /\ ~Has(wizard, "contract") /\ BothSides(wizard)
  /\ wizard.keys /\ Has(wizard, "mappingResolution")
  /\ ~wizard.useData \/ Has(wizard, "valueMappings")
  /\ "auto" \notin fired
  /\ Send(SetDraftContract(wizard),
          [Ask("auto", MadeLate(DraftInputs))
             EXCEPT !.blank = (wizard.recipe = "empty" /\ wizard.operations)], {"auto"})

\* Both gates pass: the same draft is approved.
ReceiveReport(c) ==
  /\ c \in Asking("approve") \union Asking("auto")
  /\ Land(c, wizard, {}, {[c EXCEPT !.stage = "approve"]})

ReceiveContract(c) ==
  /\ c.stage = "approve"
  /\ Land(c, SetApprovedContract(wizard, c.old), {},
          IF c.kind = "auto" THEN {[c EXCEPT !.stage = "run"]} ELSE {})

\* Snapshots need the rows; the user is taken to the results from any page.
ReceiveAutoResult(c) ==
  /\ c.stage = "run" /\ (c.old \/ BothLive(wizard))
  /\ LET w == CompleteStep(CompleteStep(Store(wizard, "reconciliation", c.old),
                                        "transformationSpec"), "reconciliation")
     IN  Land(c, GoToStep(w, "reconciliation"), {}, {})

------------------------------------------------------------------------------
(* The panel of the script flow.                                           *)

Generate ==
  /\ On("transformationSpec") /\ flow = "script" /\ ~Loading("generate")
  /\ BothSides(wizard) /\ (Has(wizard, "parsedMappingSheet") \/ Has(wizard, "mapping"))
  /\ Send(wizard, Ask("generate", MadeLate({"parsedMappingSheet", "mapping"})), {})

ReceiveScript(c) ==
  /\ c \in Asking("generate")
  /\ Land(c, SetGeneratedScript(wizard, c.old), {"script"}, {})

Preview ==
  /\ On("transformationSpec") /\ flow = "script"
  /\ Has(wizard, "generatedScript") /\ ~Loading("preview")
  /\ Send(wizard, Ask("preview", MadeLate({"generatedScript"})), {})

ReceivePreview(c) ==
  /\ c \in Asking("preview")
  /\ Land(c, SetScriptPreview(wizard, c.old), {"preview"}, {})

Undecided ==
  /\ On("transformationSpec") /\ flow = "script"
  /\ Has(wizard, "scriptPreview") /\ ~Has(wizard, "scriptApproval") /\ ~wizard.rejected
  /\ ~Loading("approveScript") /\ ~Loading("reject")

Decide(kind) ==
  /\ Undecided
  /\ Send(wizard, Ask(kind, MadeLate({"scriptPreview"})), {})

ReceiveScriptApproval(c) ==
  /\ c \in Asking("approveScript")
  /\ Land(c, Store(wizard, "scriptApproval", c.old), {}, {})

\* The preview of the closure comes back, marked.
ReceiveRejection(c) ==
  /\ c \in Asking("reject")
  /\ Land(c, [SetScriptPreview(wizard, c.old) EXCEPT !.rejected = TRUE], {"preview"}, {})

------------------------------------------------------------------------------
(* The results page: contract, else script, else a direct comparison.       *)

RunInputs ==
  CASE Has(wizard, "contract") -> {"contract"}
    [] ~Has(wizard, "contract") /\ Has(wizard, "scriptApproval") -> {"scriptApproval", "mapping"}
    [] OTHER -> {"mapping"}

RunReconciliation ==
  /\ On("reconciliation") /\ ~Loading("run") /\ BothLive(wizard)
  /\ (Has(wizard, "scriptApproval") /\ ~Has(wizard, "contract")) => wizard.keys
  /\ Send(wizard, Ask("run", MadeLate(RunInputs)), {})

ReceiveResult(c) ==
  /\ c \in Asking("run")
  /\ Land(c, CompleteStep(Store(wizard, "reconciliation", c.old), "reconciliation"), {}, {})

------------------------------------------------------------------------------
(* The Auto run, polled by the first page.                                 *)

\* Bound: a run is started when the one before it is over.
StartAutoRun ==
  /\ flow = "auto"
  /\ On("comparisonType") /\ wizard.chosen /\ wizard.index /\ Has(wizard, "sheetIdentification")
  /\ ~Loading("start") /\ autoRun.polling = "off"
  /\ autoRun.phase \in {"none", "completed", "stopped"}
  /\ changes < MaxChanges /\ changes' = changes + 1
  /\ Commit(wizard, calls, {}, {Ask("start", FALSE)}, {},
            [autoRun EXCEPT !.phase = "running"])

\* The poll is set even if the page was left meanwhile; then nothing stops it.
ReceiveRunId(c) ==
  /\ c \in Asking("start")
  /\ Commit(wizard, calls \ {c}, {}, {}, {},
            [autoRun EXCEPT !.polling = IF c.here THEN "on" ELSE "leaked"])
  /\ UNCHANGED changes

AdvanceAutoRun(phase) ==
  /\ autoRun.phase = "running" /\ phase \in {"completed", "stopped"}
  /\ autoRun' = [autoRun EXCEPT !.phase = phase]
  /\ UNCHANGED <<wizard, calls, fired, flow, changes>>

\* The interval does not wait for the answer before; each tells what it saw.
Poll ==
  /\ autoRun.polling # "off"
  /\ Send(wizard, [Ask("poll", FALSE) EXCEPT
                     !.seen = IF autoRun.phase = "running" THEN "none" ELSE autoRun.phase], {})

\* Every status carries what the run has so far, for applyPartialResult; in a run
\* the wizard starts no node sets a snapshot or a mapping, so it applies nothing.
ReceivePoll(c) ==
  /\ c \in Asking("poll")
  /\ Commit(wizard, calls \ {c}, {}, IF c.seen = "completed" THEN {Ask("finish", FALSE)} ELSE {}, {},
            [autoRun EXCEPT !.polling = IF c.seen \in {"completed", "stopped"} THEN "off" ELSE @])
  /\ UNCHANGED changes

\* finishAutoRun: the contract may be missing, the rest is done all the same.
ReceiveFinish(c, found) ==
  /\ c \in Asking("finish")
  /\ LET w == IF found THEN SetDeterministicContract(wizard, c.old) ELSE wizard
         done == CompleteStep(CompleteStep(CompleteStep(Store(w, "reconciliation", c.old),
                   "comparisonType"), "transformationSpec"), "reconciliation")
     IN  Land(c, GoToStep(done, "reconciliation"), {}, {})

------------------------------------------------------------------------------

User ==
  \/ \E s \in StepKeys : Visit(s) \/ Continue(s)
  \/ StartOver \/ Reload
  \/ UploadWorkbook \/ SelectInterface \/ UnselectInterface \/ ClearSheet \/ ToggleUseData
  \/ ResolveConnections \/ StartAutoRun
  \/ \E r \in Roles : DropDataset(r) \/ LoadDataset(r)
  \/ Regenerate \/ ApproveTransformations \/ RunReconciliation
  \/ \E to \in {"edited", "emptied"} : EditRecipe(to)
  \/ \E keys \in BOOLEAN : EditMapping(keys)
  \/ Generate \/ Preview \/ Decide("approveScript") \/ Decide("reject")

Effect == AutoInfer \/ AutoResolve \/ AutoPair \/ SendPrepass \/ AutoApproveAndRun \/ Poll

Answer(c) ==
  \/ c.kind # "start" /\ Fail(c)
  \/ \E yes \in BOOLEAN :
       \/ ReceiveInterfaces(c, yes) \/ ReceiveMapping(c, yes) \/ ReceiveResolution(c, yes)
       \/ ReceiveCatalogue(c, yes) \/ ReceiveFinish(c, yes)
  \/ ReceiveSlice(c) \/ ReceiveIdentification(c)
  \/ ReceivePairs(c) \/ ReceivePrepass(c)
  \/ ReceiveReport(c) \/ ReceiveContract(c) \/ ReceiveAutoResult(c)
  \/ ReceiveScript(c) \/ ReceivePreview(c) \/ ReceiveScriptApproval(c) \/ ReceiveRejection(c)
  \/ ReceiveResult(c) \/ ReceiveRunId(c) \/ ReceivePoll(c)

Next ==
  \/ User \/ Effect
  \/ \E c \in calls : Answer(c)
  \/ \E phase \in Phases : AdvanceAutoRun(phase)

Spec == Init /\ [][Next]_vars

------------------------------------------------------------------------------
(* Properties.                                                             *)

\* An automatic approval whose inputs are current has the steps the sheet was
\* resolved to: nobody sees the resolution before the recipe is seeded.
AutoRunUsesSteps ==
  \A c \in calls : c.kind = "auto" /\ ~c.old => ~c.blank

\* A re-resolve, after a new dataset, a new sheet or a return to the page, never
\* overwrites the recipe the user edited: only a resolution that was asked for
\* while the recipe had no steps does, or the button that starts all over.
EditsAreKept ==
  [][wizard.recipe = "edited" /\ wizard'.recipe \notin {"edited", "emptied"}
       => StartOver \/ \E c \in calls : c.blank /\ ReceiveCatalogue(c, TRUE)]_vars
=============================================================================
