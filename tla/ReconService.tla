---------------------------- MODULE ReconService ----------------------------
(***************************************************************************)
(* The manual workflow: rules are approved as versions of a contract, a    *)
(* shadow is reviewed, a run executes an approved version (or an approved  *)
(* script) against immutable snapshots, and the shadow it leaves is        *)
(* deleted when its time is over (service.py over storage/*_store.py).     *)
(*                                                                         *)
(* Each request runs on a thread of the pool, every store call is a        *)
(* transaction of its own, and a call may raise or the process may die     *)
(* between any two of them.                                                *)
(***************************************************************************)
EXTENDS Integers, FiniteSets

CONSTANTS
  Threads,
  Contracts,    \* contract ids
  Rules,        \* bodies of drafts
  Rolling,      \* the rules whose shadow depends on the run's anchor date
  Anchored,     \* the rolling rules the target's own dates imply an anchor for
  Scripts, Unsafe,  \* scripts, and those that fail the static validation
  Previews, Runs,   \* ids the stores hand out
  Days,         \* the days that pass
  Explicit,     \* the days a caller may name as the anchor
  ImpliedDay,   \* the anchor the target's dates imply for Anchored rules
  Ttl,          \* SHADOW_TTL_DAYS
  MaxVersion,
  None

ASSUME DaysAssumption == Days \subseteq Nat /\ Explicit \subseteq Nat /\ ImpliedDay \in Nat /\ Ttl \in Nat
ASSUME VersionsAssumption == MaxVersion \in Nat \ {0}
ASSUME RulesAssumption == Anchored \subseteq Rolling /\ Rolling \subseteq Rules
ASSUME NoneAssumption ==
  None \notin Contracts \union Rules \union Scripts \union Previews \union Runs \union Nat

VARIABLES
  today,
  contracts,    \* rows of contracts: [id, version, rules], all approved
  previews,     \* script and status of each preview, None before it exists
  approvals,    \* previews with a row in script_approvals
  vetoed,       \* previews rejected before any approval of them began
  runs,         \* rows of runs
  shadowRows,   \* expires_at of each row of shadow_sources (one per run)
  shadowFiles,  \* payload files of shadows
  results,      \* the shadow each row of results was reconciled from
  completedLog, \* runs with a RUN_COMPLETED event in the audit log
  library,      \* the attribute_mappings row of the column sets compared
  calls         \* what each thread is doing

scriptVars == <<previews, approvals, vetoed>>
shadowVars == <<shadowRows, shadowFiles>>
outcomeVars == <<results, completedLog, library>>
runVars == <<runs, shadowVars, outcomeVars>>
vars == <<today, contracts, scriptVars, runVars, calls>>

------------------------------------------------------------------------------
(* Shadows.                                                                *)

Versions == 1..MaxVersion
Anchors == Days \union Explicit \union {ImpliedDay}

\* The shadow, and so its fingerprint, is a function of the rules, of the one
\* source snapshot, and of the anchor where an operation depends on it.
Shadow(rules, anchor) ==
  [rules |-> rules, anchor |-> IF rules \in Rolling THEN anchor ELSE None]
ScriptShadow(script) == [rules |-> script, anchor |-> None]
Shadows == [rules : Rules \union Scripts, anchor : Anchors \union {None}]

\* _resolve_run_anchor: explicit, else implied by the target, else the clock.
ResolveAnchor(rules, explicit, withTarget) ==
  CASE explicit # None -> explicit
    [] explicit = None /\ withTarget /\ rules \in Anchored -> ImpliedDay
    [] OTHER -> today

VersionsOf(id) == {c.version : c \in {d \in contracts : d.id = id}}
NextVersion(id) ==
  IF VersionsOf(id) = {} THEN 1
  ELSE 1 + CHOOSE v \in VersionsOf(id) : \A w \in VersionsOf(id) : w <= v

\* get_latest_approved and get_contract; empty when there is no such row.
Latest(id) == {c \in contracts : c.id = id /\ c.version = NextVersion(id) - 1}
Versioned(id, v) == {c \in contracts : c.id = id /\ c.version = v}
Resolved(id, v) == IF v = None THEN Latest(id) ELSE Versioned(id, v)

------------------------------------------------------------------------------
(* State.                                                                  *)

Idle == [op |-> "idle"]
RunSteps == {"book", "anchor", "build", "insert", "link", "reconcile", "complete",
             "audit", "store", "fail"}
NewRun == [contract : Contracts \union {None}, version : Versions, rules : Rules \union Scripts,
           preview : Previews \union {None}]
ReviewCall == [op : {"review"}, id : Contracts, version : Versions,
               explicit : Anchors \union {None}, shadow : Shadows]
ApproveCall == [op : {"approve"}, id : Contracts, rules : Rules, version : Versions]
PreviewCall == [op : {"approvePreview"}, preview : Previews, step : {"save", "mark"}]
CleanupCall == [op : {"cleanup"}, expired : SUBSET Runs, left : SUBSET Runs]
RunCall == [op : {"run"}, step : RunSteps, run : Runs, of : NewRun,
            explicit : Anchors \union {None}, expected : Shadows \union {None}]
Call == {Idle} \union ReviewCall \union ApproveCall \union PreviewCall \union CleanupCall
          \union RunCall

Statuses == {"running", "completed", "failed"}
RunRow == [of : NewRun, anchor : Anchors \union {None}, status : Statuses,
           shadow : BOOLEAN]
PreviewRow == [script : Scripts \ Unsafe, status : {"pending", "approved", "rejected"}]
ContractRow == [id : Contracts, version : Versions, rules : Rules]

\* No row is the absent one.
ASSUME NullAssumption == None \notin RunRow \union PreviewRow \union Shadows

TypeOK ==
  /\ today \in Days
  /\ contracts \subseteq ContractRow
  /\ previews \in [Previews -> PreviewRow \union {None}]
  /\ approvals \subseteq Previews
  /\ vetoed \subseteq Previews
  /\ runs \in [Runs -> RunRow \union {None}]
  /\ shadowRows \in [Runs -> Nat \union {None}]
  /\ shadowFiles \subseteq Runs
  /\ results \in [Runs -> Shadows \union {None}]
  /\ completedLog \subseteq Runs
  /\ library \in [of : NewRun, run : Runs] \union {None}
  /\ calls \in [Threads -> Call]

Init ==
  /\ today \in {d \in Days : \A e \in Days : d <= e}
  /\ contracts = {}
  /\ previews = [p \in Previews |-> None]
  /\ approvals = {} /\ vetoed = {}
  /\ runs = [r \in Runs |-> None]
  /\ shadowRows = [r \in Runs |-> None] /\ shadowFiles = {}
  /\ results = [r \in Runs |-> None]
  /\ completedLog = {} /\ library = None
  /\ calls = [t \in Threads |-> Idle]

Become(t, call) == calls' = [calls EXCEPT ![t] = call]
Return(t) == Become(t, Idle)
Step(t, step) == calls' = [calls EXCEPT ![t].step = step]
Doing(t, op) == calls[t].op = op

------------------------------------------------------------------------------
(* Contracts: approve_contract takes the next version in one transaction   *)
(* and inserts in another; the review is a read.                           *)

StartApprove(t, id, rules) ==
  /\ Doing(t, "idle")
  /\ NextVersion(id) \in Versions
  /\ Become(t, [op |-> "approve", id |-> id, rules |-> rules, version |-> NextVersion(id)])
  /\ UNCHANGED <<today, contracts, scriptVars, runVars>>

\* The primary key refuses a version taken in between: the approval raises.
SaveContract(t) ==
  /\ Doing(t, "approve")
  /\ LET row == [id |-> calls[t].id, version |-> calls[t].version, rules |-> calls[t].rules]
     IN  contracts' = IF Versioned(row.id, row.version) # {} THEN contracts
                      ELSE contracts \union {row}
  /\ Return(t)
  /\ UNCHANGED <<today, scriptVars, runVars>>

\* build_shadow_preview reads and writes nothing; its caller keeps the version
\* and the fingerprint to start a run with.
ReviewShadow(t, id, v, explicit, withTarget) ==
  /\ Doing(t, "idle")
  /\ \E c \in Resolved(id, v) :
       Become(t, [op |-> "review", id |-> id, version |-> c.version, explicit |-> explicit,
                  shadow |-> Shadow(c.rules, ResolveAnchor(c.rules, explicit, withTarget))])
  /\ UNCHANGED <<today, contracts, scriptVars, runVars>>

------------------------------------------------------------------------------
(* Scripts: generate, preview, approve or reject the previewed data.       *)

\* The row of a script never changes, so its preview stands for both.  A script
\* that fails the static validation is stored too, and raises here.
PreviewScript(t, p, s) ==
  /\ Doing(t, "idle")
  /\ previews[p] = None
  /\ s \notin Unsafe
  /\ previews' = [previews EXCEPT ![p] = [script |-> s, status |-> "pending"]]
  /\ UNCHANGED <<today, contracts, approvals, vetoed, runVars, calls>>

\* Mutant: the status of the preview is not looked at.
StartApprovePreviewAny(t, p) ==
  /\ Doing(t, "idle")
  /\ previews[p] # None
  /\ Become(t, [op |-> "approvePreview", preview |-> p, step |-> "save"])
  /\ UNCHANGED <<today, contracts, scriptVars, runVars>>

StartApprovePreview(t, p) ==
  /\ Doing(t, "idle")
  /\ previews[p] # None /\ previews[p].status # "rejected"
  /\ Become(t, [op |-> "approvePreview", preview |-> p, step |-> "save"])
  /\ UNCHANGED <<today, contracts, scriptVars, runVars>>

SaveApproval(t) ==
  /\ Doing(t, "approvePreview") /\ calls[t].step = "save"
  /\ approvals' = approvals \union {calls[t].preview}
  /\ Step(t, "mark")
  /\ UNCHANGED <<today, contracts, previews, vetoed, runVars>>

SetStatus(p, status) == previews' = [previews EXCEPT ![p].status = status]

\* The status is set without a look at what it has become in the meantime.
MarkApproved(t) ==
  /\ Doing(t, "approvePreview") /\ calls[t].step = "mark"
  /\ SetStatus(calls[t].preview, "approved")
  /\ Return(t)
  /\ UNCHANGED <<today, contracts, approvals, vetoed, runVars>>

Approving(p) == \E t \in Threads : Doing(t, "approvePreview") /\ calls[t].preview = p

\* An approval given before stays in script_approvals.
RejectPreview(t, p) ==
  /\ Doing(t, "idle")
  /\ previews[p] # None
  /\ SetStatus(p, "rejected")
  /\ vetoed' = IF p \in approvals \/ Approving(p) THEN vetoed ELSE vetoed \union {p}
  /\ UNCHANGED <<today, contracts, approvals, runVars, calls>>

------------------------------------------------------------------------------
(* A run: run_reconciliation, and run_reconciliation_with_script, which    *)
(* takes the same steps without an anchor and without a fingerprint.       *)

FreeRun(r) == runs[r] = None /\ \A t \in Threads : Doing(t, "run") => calls[t].run # r

BeginRun(t, id, v, explicit, expected) ==
  /\ \E c \in Resolved(id, v), r \in Runs :
       /\ FreeRun(r)
       /\ Become(t, [op |-> "run", step |-> "book", run |-> r,
                     of |-> [contract |-> id, version |-> c.version, rules |-> c.rules,
                             preview |-> None],
                     explicit |-> explicit, expected |-> expected])
  /\ UNCHANGED <<today, contracts, scriptVars, runVars>>

StartRun(t, id, v, explicit) == Doing(t, "idle") /\ BeginRun(t, id, v, explicit, None)

\* After the review, with its fingerprint; for the version reviewed or for the
\* latest one, which may be another by now.
StartReviewedRun(t) ==
  /\ Doing(t, "review")
  /\ LET c == calls[t]
     IN  \E v \in {c.version, None} : BeginRun(t, c.id, v, c.explicit, c.shadow)

\* The approval and the script of that hash are asked for, not the preview.
StartScriptRun(t, p) ==
  /\ Doing(t, "idle")
  /\ p \in approvals
  /\ \E r \in Runs :
       /\ FreeRun(r)
       /\ Become(t, [op |-> "run", step |-> "book", run |-> r,
                     of |-> [contract |-> None, version |-> 1, rules |-> previews[p].script,
                             preview |-> p],
                     explicit |-> None, expected |-> None])
  /\ UNCHANGED <<today, contracts, scriptVars, runVars>>

At(t, step) == Doing(t, "run") /\ calls[t].step = step
RunOf(t) == calls[t].run
ByScript(of) == of.contract = None

\* The row goes in with a provisional anchor, before anything can fail.
BookRun(t) ==
  /\ At(t, "book")
  /\ LET c == calls[t]
     IN  /\ runs' = [runs EXCEPT ![c.run] =
               [of |-> c.of, status |-> "running", shadow |-> FALSE,
                anchor |-> CASE ByScript(c.of) -> None
                             [] ~ByScript(c.of) /\ c.explicit # None -> c.explicit
                             [] OTHER -> today]]
         /\ Step(t, IF ByScript(c.of) \/ c.explicit # None THEN "build" ELSE "anchor")
  /\ UNCHANGED <<today, contracts, scriptVars, shadowVars, outcomeVars>>

\* Mutant: the anchor found is used and not written back to the run.
ResolveRunAnchorLocally(t) ==
  /\ At(t, "anchor")
  /\ calls' = [calls EXCEPT ![t].step = "build",
                            ![t].explicit = ResolveAnchor(calls[t].of.rules, None, TRUE)]
  /\ UNCHANGED <<today, contracts, scriptVars, runVars>>

\* Both snapshots loaded: the provisional anchor is corrected in the run's row.
ResolveRunAnchor(t) ==
  /\ At(t, "anchor")
  /\ LET anchor == ResolveAnchor(calls[t].of.rules, None, TRUE)
     IN  /\ calls' = [calls EXCEPT ![t].step = "build", ![t].explicit = anchor]
         /\ runs' = [runs EXCEPT ![RunOf(t)].anchor = anchor]
  /\ UNCHANGED <<today, contracts, scriptVars, shadowVars, outcomeVars>>

\* The shadow a call has built; the anchor is in the call by then.
Built(t) ==
  IF ByScript(calls[t].of) THEN ScriptShadow(calls[t].of.rules)
  ELSE Shadow(calls[t].of.rules, calls[t].explicit)

\* Mutant: the row of the shadow is inserted before its payload is written.
BuildRowFirst(t) ==
  /\ At(t, "build")
  /\ shadowRows' = [shadowRows EXCEPT ![RunOf(t)] = today + Ttl]
  /\ Step(t, "insert")
  /\ UNCHANGED <<today, contracts, scriptVars, runs, shadowFiles, outcomeVars>>

\* Mutant: the fingerprint is not compared.
BuildUnchecked(t) ==
  /\ At(t, "build")
  /\ shadowFiles' = shadowFiles \union {RunOf(t)}
  /\ Step(t, "insert")
  /\ UNCHANGED <<today, contracts, scriptVars, runs, shadowRows, outcomeVars>>

\* The shadow must be the reviewed one; create_shadow writes its payload.
BuildShadow(t) ==
  /\ At(t, "build")
  /\ IF calls[t].expected \notin {None, Built(t)}
     THEN Step(t, "fail") /\ UNCHANGED shadowFiles
     ELSE Step(t, "insert") /\ shadowFiles' = shadowFiles \union {RunOf(t)}
  /\ UNCHANGED <<today, contracts, scriptVars, runs, shadowRows, outcomeVars>>

InsertShadow(t) ==
  /\ At(t, "insert")
  /\ shadowRows' = [shadowRows EXCEPT ![RunOf(t)] = today + Ttl]
  /\ Step(t, "link")
  /\ UNCHANGED <<today, contracts, scriptVars, runs, shadowFiles, outcomeVars>>

LinkShadow(t) ==
  /\ At(t, "link")
  /\ runs' = [runs EXCEPT ![RunOf(t)].shadow = TRUE]
  /\ Step(t, "reconcile")
  /\ UNCHANGED <<today, contracts, scriptVars, shadowVars, outcomeVars>>

SaveResult(t) ==
  /\ At(t, "reconcile")
  /\ results' = [results EXCEPT ![RunOf(t)] = Built(t)]
  /\ Step(t, "complete")
  /\ UNCHANGED <<today, contracts, scriptVars, runs, shadowVars, completedLog, library>>

\* Mutant: the audit event is written before the status.
CompleteAfterAudit(t) ==
  /\ At(t, "complete")
  /\ completedLog' = completedLog \union {RunOf(t)}
  /\ Step(t, "audit")
  /\ UNCHANGED <<today, contracts, scriptVars, runs, shadowVars, results, library>>

CompleteRun(t) ==
  /\ At(t, "complete")
  /\ runs' = [runs EXCEPT ![RunOf(t)].status = "completed"]
  /\ Step(t, "audit")
  /\ UNCHANGED <<today, contracts, scriptVars, shadowVars, outcomeVars>>

AuditCompleted(t) ==
  /\ At(t, "audit")
  /\ completedLog' = completedLog \union {RunOf(t)}
  /\ Step(t, "store")
  /\ UNCHANGED <<today, contracts, scriptVars, runs, shadowVars, results, library>>

\* upsert SELECTs the row of the column sets and then updates or inserts it; a
\* row deleted or inserted in between makes it fail, and the error is swallowed.
StoreBack(t) ==
  /\ At(t, "store")
  /\ library' \in {library, [of |-> calls[t].of, run |-> RunOf(t)]}
  /\ Return(t)
  /\ UNCHANGED <<today, contracts, scriptVars, runs, shadowVars, results, completedLog>>

\* delete and flush of the attribute library.
FlushLibrary(t) ==
  /\ Doing(t, "idle")
  /\ library' = None
  /\ UNCHANGED <<today, contracts, scriptVars, runs, shadowVars, results, completedLog,
                 calls>>

------------------------------------------------------------------------------
(* Failure.                                                                *)

\* Before the row exists an exception leaves nothing behind; inside the try
\* block it is recorded; the store-back swallows its own.
Raise(t) ==
  /\ Doing(t, "run")
  /\ CASE calls[t].step \in {"book", "store"} -> Return(t)
       [] calls[t].step \in RunSteps \ {"book", "store", "fail"} -> Step(t, "fail")
       [] OTHER -> FALSE
  /\ UNCHANGED <<today, contracts, scriptVars, runVars>>

RecordFailure(t) ==
  /\ At(t, "fail")
  /\ runs' = [runs EXCEPT ![RunOf(t)].status = "failed"]
  /\ Return(t)
  /\ UNCHANGED <<today, contracts, scriptVars, shadowVars, outcomeVars>>

\* A thread is gone: the process dies, or the call or the write that records its
\* failure raises.  Nothing at boot looks at runs, shadows or previews; a cleanup
\* is rolled back, and the payloads it has unlinked stay gone.
Vanish(t) ==
  /\ ~Doing(t, "idle")
  /\ Return(t)
  /\ UNCHANGED <<today, contracts, scriptVars, runVars>>

------------------------------------------------------------------------------
(* Expiry.                                                                 *)

Tick ==
  /\ today + 1 \in Days
  /\ today' = today + 1
  /\ UNCHANGED <<contracts, scriptVars, runVars, calls>>

Expired(r) == shadowRows[r] # None /\ shadowRows[r] <= today

StartCleanup(t) ==
  /\ Doing(t, "idle")
  /\ LET rows == {r \in Runs : Expired(r)}
     IN  rows # {} /\ Become(t, [op |-> "cleanup", expired |-> rows, left |-> rows])
  /\ UNCHANGED <<today, contracts, scriptVars, runVars>>

\* Payloads go one by one, in any order; the deleted rows are gone when the block commits.
Unlink(t) ==
  /\ Doing(t, "cleanup")
  /\ \E r \in calls[t].left :
       /\ shadowFiles' = shadowFiles \ {r}
       /\ calls' = [calls EXCEPT ![t].left = @ \ {r}]
  /\ UNCHANGED <<today, contracts, scriptVars, runs, shadowRows, outcomeVars>>

CommitCleanup(t) ==
  /\ Doing(t, "cleanup") /\ calls[t].left = {}
  /\ shadowRows' = [r \in Runs |-> IF r \in calls[t].expired THEN None ELSE shadowRows[r]]
  /\ Return(t)
  /\ UNCHANGED <<today, contracts, scriptVars, runs, shadowFiles, outcomeVars>>

------------------------------------------------------------------------------

Request(t) ==
  \/ \E id \in Contracts, rules \in Rules : StartApprove(t, id, rules)
  \/ \E id \in Contracts, v \in Versions \union {None}, explicit \in Explicit \union {None} :
        \/ StartRun(t, id, v, explicit)
        \/ \E withTarget \in BOOLEAN : ReviewShadow(t, id, v, explicit, withTarget)
  \/ StartReviewedRun(t)
  \/ \E p \in Previews, s \in Scripts : PreviewScript(t, p, s)
  \/ \E p \in Previews : StartApprovePreview(t, p) \/ RejectPreview(t, p) \/ StartScriptRun(t, p)
  \/ FlushLibrary(t)
  \/ StartCleanup(t)

RunStep(t) ==
  \/ BookRun(t) \/ ResolveRunAnchor(t) \/ BuildShadow(t) \/ InsertShadow(t) \/ LinkShadow(t)
  \/ SaveResult(t) \/ CompleteRun(t) \/ AuditCompleted(t) \/ StoreBack(t)
  \/ Raise(t) \/ RecordFailure(t)

Work(t) ==
  \/ SaveContract(t) \/ SaveApproval(t) \/ MarkApproved(t)
  \/ Unlink(t) \/ CommitCleanup(t)
  \/ RunStep(t)
  \/ Vanish(t)

Next ==
  \/ \E t \in Threads : Request(t) \/ Work(t)
  \/ Tick

Spec == Init /\ [][Next]_vars

------------------------------------------------------------------------------
(* Properties.                                                             *)

\* A run started from a review reconciles the shadow that was reviewed,
\* whatever was approved and however many days passed in between (the
\* fingerprint guard of run_reconciliation).
ReviewedIsRun ==
  \A t \in Threads : Doing(t, "run") /\ results[RunOf(t)] # None =>
    calls[t].expected \in {None, results[RunOf(t)]}

\* Replaying the version and the anchor in the run's row gives the shadow that
\* was reconciled, so the workbook's replay speaks of the same rows
\* (build_comparison_workbook over run.anchor_date).
ReplayReproduces ==
  \A r \in Runs : results[r] # None /\ ~ByScript(runs[r].of) =>
    \E c \in Versioned(runs[r].of.contract, runs[r].of.version) :
      results[r] = Shadow(c.rules, runs[r].anchor)

\* A completed run has its result and its shadow was on record, and a run that
\* the audit log calls completed is never reported as failed (the order of the
\* writes at the end of run_reconciliation).
CompletionIsTrue ==
  \A r \in Runs :
    /\ runs[r] # None /\ runs[r].status = "completed" => results[r] # None /\ runs[r].shadow
    /\ r \in completedLog => runs[r].status = "completed"

\* A shadow whose time is not over can be read: its row never lacks its
\* payload, at no step of create_shadow, cleanup_expired or a crash.
LiveShadowReadable ==
  \A r \in Runs : shadowRows[r] # None /\ ~Expired(r) => r \in shadowFiles

\* A preview rejected before anyone began to approve it is never approved and
\* its script never runs in its name (approve_transformation_preview).
VetoHolds ==
  \A p \in vetoed : p \notin approvals /\ \A r \in Runs : runs[r] # None => runs[r].of.preview # p
=============================================================================
