------------------------- MODULE ReconServiceProofs -------------------------
(***************************************************************************)
(* ReconService's properties for any threads, rules, scripts, runs, days   *)
(* and time to live.                                                       *)
(*                                                                         *)
(* A step either leaves every run where it is (Quiet) or is one step of a  *)
(* run's own thread (RunProgress); this is shown once, and each property   *)
(* is then an invariant layered on the ones before it: types, who owns     *)
(* which run, what a run reconciles, how it ends, and its shadow.  The     *)
(* veto needs the types alone.                                             *)
(***************************************************************************)
EXTENDS ReconService, TLAPS

\* A run has one thread, and its row exists from its booking on.
CallsOK ==
  /\ \A t, u \in Threads :
       Doing(t, "run") /\ Doing(u, "run") /\ RunOf(t) = RunOf(u) => t = u
  /\ \A t \in Threads : Doing(t, "run") =>
       /\ At(t, "book") <=> runs[RunOf(t)] = None
       /\ ~At(t, "book") => runs[RunOf(t)].of = calls[t].of

\* What is approved, or about to be, is a preview.
PreviewsExist ==
  /\ \A p \in approvals : previews[p] # None
  /\ \A t \in Threads : Doing(t, "approvePreview") => previews[calls[t].preview] # None

TypeInv == TypeOK /\ CallsOK /\ PreviewsExist

RowOf(of) == [id |-> of.contract, version |-> of.version, rules |-> of.rules]
Unreconciled == {"book", "anchor", "build", "insert", "link", "reconcile"}

\* A call and its run's row agree on the rules and, once a shadow is built, on
\* the anchor; there is no result before the step that saves it.
RunReplay(t) ==
  /\ ~ByScript(calls[t].of) => RowOf(calls[t].of) \in contracts
  /\ ~ByScript(calls[t].of) /\ calls[t].step \notin {"book", "anchor", "fail"} =>
       runs[RunOf(t)].anchor = calls[t].explicit
  /\ calls[t].step \in Unreconciled => results[RunOf(t)] = None
  /\ calls[t].step \in {"insert", "link", "reconcile"} =>
       calls[t].expected \in {None, Built(t)}
  /\ results[RunOf(t)] # None => calls[t].expected \in {None, results[RunOf(t)]}
ReplayOf(r) ==
  /\ runs[r] = None => results[r] = None
  /\ results[r] # None /\ ~ByScript(runs[r].of) =>
       \E c \in Versioned(runs[r].of.contract, runs[r].of.version) :
         results[r] = Shadow(c.rules, runs[r].anchor)
ReplayInv ==
  /\ \A t \in Threads : Doing(t, "run") => RunReplay(t)
  /\ \A r \in Runs : ReplayOf(r)

\* What a thread has behind it is in the store; only the last step follows the
\* audit event, and it cannot fail the run.
RunCompletion(t) ==
  /\ calls[t].step \in {"reconcile", "complete", "audit", "store"} => runs[RunOf(t)].shadow
  /\ calls[t].step \in {"complete", "audit", "store"} => results[RunOf(t)] # None
  /\ calls[t].step \in {"audit", "store"} => runs[RunOf(t)].status = "completed"
  /\ calls[t].step # "store" => RunOf(t) \notin completedLog
CompletionOf(r) ==
  /\ runs[r] # None /\ runs[r].status = "completed" => results[r] # None /\ runs[r].shadow
  /\ r \in completedLog => runs[r] # None /\ runs[r].status = "completed"
CompletionInv ==
  /\ \A t \in Threads : Doing(t, "run") => RunCompletion(t)
  /\ \A r \in Runs : CompletionOf(r)

Unused(r) ==
  /\ shadowRows[r] = None
  /\ \A u \in Threads : Doing(u, "cleanup") => r \notin calls[u].expired

\* No cleanup knows of a run whose shadow has no row yet, and what a cleanup is
\* about to delete stays expired or is gone already.
Early == {"book", "anchor", "build", "insert"}
RunShadow(t) ==
  /\ calls[t].step \in Early => Unused(RunOf(t))
  /\ calls[t].step = "insert" => RunOf(t) \in shadowFiles
CleanupOK(t) ==
  /\ calls[t].left \subseteq calls[t].expired
  /\ \A r \in calls[t].expired : shadowRows[r] = None \/ Expired(r)
ShadowInv ==
  /\ \A r \in Runs : runs[r] = None => Unused(r)
  /\ \A t \in Threads : Doing(t, "run") => RunShadow(t)
  /\ \A t \in Threads : Doing(t, "cleanup") => CleanupOK(t)
  /\ LiveShadowReadable

\* A veto is a rejection that no approval, given or under way, contradicts.
VetoInv ==
  /\ \A p \in vetoed : /\ previews[p] # None /\ previews[p].status = "rejected"
                       /\ p \notin approvals /\ ~Approving(p)
  /\ \A t \in Threads : Doing(t, "run") => calls[t].of.preview \in approvals \union {None}
  /\ \A r \in Runs : runs[r] # None => runs[r].of.preview \in approvals \union {None}

------------------------------------------------------------------------------
(* Types.                                                                  *)

\* The operation says which kind of call it is.
LEMMA CallKinds ==
  ASSUME NEW c \in Call
  PROVE  /\ c.op = "review" => c \in ReviewCall
         /\ c.op = "approve" => c \in ApproveCall
         /\ c.op = "approvePreview" => c \in PreviewCall
         /\ c.op = "cleanup" => c \in CleanupCall
         /\ c.op = "run" => c \in RunCall
  BY DEF Call, Idle, ReviewCall, ApproveCall, PreviewCall, CleanupCall, RunCall

\* A call of a thread that changes its calls to one in Call keeps their type.
LEMMA BecomeType ==
  ASSUME TypeOK, NEW t \in Threads, NEW c \in Call, Become(t, c)
  PROVE  calls' \in [Threads -> Call]
  BY DEF TypeOK, Become

LEMMA ReturnType ==
  ASSUME TypeOK, NEW t \in Threads, Return(t)
  PROVE  calls' \in [Threads -> Call]
  BY BecomeType DEF Return, Call

LEMMA RunStepType ==
  ASSUME TypeOK, NEW t \in Threads, Doing(t, "run"), NEW s \in RunSteps, Step(t, s)
  PROVE  calls' \in [Threads -> Call]
<1>1. calls[t] \in RunCall
  BY CallKinds DEF TypeOK, Doing
<1>2. [calls[t] EXCEPT !.step = s] \in RunCall
  BY <1>1 DEF RunCall
<1> QED
  BY <1>2 DEF TypeOK, Step, Call

LEMMA ShadowType ==
  ASSUME NEW rules \in Rules \union Scripts, NEW anchor \in Anchors \union {None}
  PROVE  Shadow(rules, anchor) \in Shadows /\ ScriptShadow(rules) \in Shadows
  BY DEF Shadow, ScriptShadow, Shadows

LEMMA AnchorType ==
  ASSUME TypeOK, NEW rules, NEW explicit \in Anchors \union {None}, NEW withTarget \in BOOLEAN
  PROVE  ResolveAnchor(rules, explicit, withTarget) \in Anchors
  BY DEF TypeOK, ResolveAnchor, Anchors

LEMMA ResolvedType ==
  ASSUME TypeOK, NEW id, NEW v, NEW c \in Resolved(id, v)
  PROVE  c \in ContractRow /\ c \in contracts /\ c.id = id
  BY DEF TypeOK, Resolved, Latest, Versioned

LEMMA BuiltType ==
  ASSUME TypeOK, NEW t \in Threads, Doing(t, "run")
  PROVE  Built(t) \in Shadows
<1>1. calls[t] \in RunCall
  BY CallKinds DEF TypeOK, Doing
<1>2. /\ calls[t].of.rules \in Rules \union Scripts
      /\ calls[t].explicit \in Anchors \union {None}
  BY <1>1 DEF RunCall, NewRun
<1> QED
  BY <1>2, ShadowType DEF Built

\* Starting a run of an approved version, after a review or without one, or of
\* an approved script is the same thing: a thread that has no run takes a free id.
Begins(t, r, of, explicit, expected) ==
  /\ FreeRun(r) /\ ~Doing(t, "run")
  /\ ~ByScript(of) => RowOf(of) \in contracts
  /\ of.preview \in approvals \union {None}
  /\ Become(t, [op |-> "run", step |-> "book", run |-> r, of |-> of,
                explicit |-> explicit, expected |-> expected])
  /\ UNCHANGED <<today, contracts, scriptVars, runVars>>

Begun(t) ==
  \E r \in Runs, of \in NewRun, explicit \in Anchors \union {None},
     expected \in Shadows \union {None} : Begins(t, r, of, explicit, expected)

LEMMA BeginRunIsBegun ==
  ASSUME TypeOK, NEW t \in Threads, ~Doing(t, "run"), NEW id \in Contracts, NEW v,
         NEW explicit \in Anchors \union {None}, NEW expected \in Shadows \union {None},
         BeginRun(t, id, v, explicit, expected)
  PROVE  Begun(t)
<1>1. PICK c \in Resolved(id, v), r \in Runs :
        /\ FreeRun(r)
        /\ Become(t, [op |-> "run", step |-> "book", run |-> r,
                      of |-> [contract |-> id, version |-> c.version, rules |-> c.rules,
                              preview |-> None],
                      explicit |-> explicit, expected |-> expected])
  BY DEF BeginRun
<1> DEFINE of == [contract |-> id, version |-> c.version, rules |-> c.rules, preview |-> None]
<1>2. c \in ContractRow /\ c \in contracts /\ c.id = id
  BY ResolvedType
<1>3. of \in NewRun /\ of.preview = None /\ RowOf(of) = c
  BY <1>2 DEF ContractRow, NewRun, RowOf
<1>4. Begins(t, r, of, explicit, expected)
  BY <1>1, <1>2, <1>3 DEF Begins, BeginRun
<1> QED
  BY <1>3, <1>4 DEF Begun

LEMMA StartRunIsBegun ==
  ASSUME TypeOK, NEW t \in Threads, NEW id \in Contracts, NEW v,
         NEW explicit \in Explicit \union {None}, StartRun(t, id, v, explicit)
  PROVE  Begun(t)
  BY BeginRunIsBegun DEF StartRun, Doing, Anchors

LEMMA StartReviewedRunIsBegun ==
  ASSUME TypeOK, NEW t \in Threads, StartReviewedRun(t)
  PROVE  Begun(t)
<1>1. calls[t] \in ReviewCall
  BY CallKinds DEF TypeOK, StartReviewedRun, Doing
<1>2. PICK v \in {calls[t].version, None} :
        BeginRun(t, calls[t].id, v, calls[t].explicit, calls[t].shadow)
  BY DEF StartReviewedRun
<1>3. /\ calls[t].id \in Contracts /\ calls[t].explicit \in Anchors \union {None}
      /\ calls[t].shadow \in Shadows
  BY <1>1 DEF ReviewCall
<1>4. ~Doing(t, "run")
  BY DEF StartReviewedRun, Doing
<1> QED
  BY <1>2, <1>3, <1>4, BeginRunIsBegun

LEMMA StartScriptRunIsBegun ==
  ASSUME TypeOK, PreviewsExist, NEW t \in Threads, NEW p \in Previews, StartScriptRun(t, p)
  PROVE  Begun(t)
<1> DEFINE of == [contract |-> None, version |-> 1, rules |-> previews[p].script, preview |-> p]
<1>1. PICK r \in Runs :
        /\ FreeRun(r)
        /\ Become(t, [op |-> "run", step |-> "book", run |-> r, of |-> of,
                      explicit |-> None, expected |-> None])
  BY DEF StartScriptRun
<1>2. previews[p] \in PreviewRow /\ 1 \in Versions
  BY VersionsAssumption DEF TypeOK, PreviewsExist, StartScriptRun, Versions
<1>3. of \in NewRun /\ of.preview = p /\ ByScript(of)
  BY <1>2 DEF PreviewRow, NewRun, ByScript
<1>4. Begins(t, r, of, None, None)
  BY <1>1, <1>3 DEF StartScriptRun, Begins, Doing
<1> QED
  BY <1>3, <1>4 DEF Begun

\* No step of a thread stores a value of another type.
LEMMA TypeStep == TypeInv /\ [Next]_vars => TypeOK'
<1> SUFFICES ASSUME TypeInv, [Next]_vars PROVE TypeOK'
  OBVIOUS
<1>0. TypeOK /\ CallsOK /\ PreviewsExist
  BY DEF TypeInv
<1> USE DEF scriptVars, shadowVars, outcomeVars, runVars
<1>1. ASSUME NEW t \in Threads, NEW id \in Contracts, NEW rules \in Rules,
             StartApprove(t, id, rules)
      PROVE  TypeOK'
  <2>1. [op |-> "approve", id |-> id, rules |-> rules, version |-> NextVersion(id)] \in Call
    BY <1>1 DEF StartApprove, Call, ApproveCall
  <2> QED
    BY <1>0, <1>1, <2>1, BecomeType DEF StartApprove, TypeOK
<1>2. ASSUME NEW t \in Threads, SaveContract(t) PROVE TypeOK'
  <2>1. calls[t] \in ApproveCall
    BY <1>0, <1>2, CallKinds DEF SaveContract, TypeOK, Doing
  <2>2. [id |-> calls[t].id, version |-> calls[t].version, rules |-> calls[t].rules]
          \in ContractRow
    BY <2>1 DEF ApproveCall, ContractRow
  <2> QED
    BY <1>0, <1>2, <2>2, ReturnType DEF SaveContract, TypeOK
<1>3. ASSUME NEW t \in Threads, NEW id \in Contracts, NEW v \in Versions \union {None},
             NEW explicit \in Explicit \union {None}, NEW withTarget \in BOOLEAN,
             ReviewShadow(t, id, v, explicit, withTarget)
      PROVE  TypeOK'
  <2>1. PICK c \in Resolved(id, v) :
          Become(t, [op |-> "review", id |-> id, version |-> c.version, explicit |-> explicit,
                     shadow |-> Shadow(c.rules, ResolveAnchor(c.rules, explicit, withTarget))])
    BY <1>3 DEF ReviewShadow
  <2>2. c \in ContractRow
    BY <1>0, ResolvedType
  <2>3. explicit \in Anchors \union {None}
    BY DEF Anchors
  <2>4. Shadow(c.rules, ResolveAnchor(c.rules, explicit, withTarget)) \in Shadows
    BY <1>0, <2>2, <2>3, AnchorType, ShadowType DEF ContractRow
  <2>5. [op |-> "review", id |-> id, version |-> c.version, explicit |-> explicit,
         shadow |-> Shadow(c.rules, ResolveAnchor(c.rules, explicit, withTarget))]
          \in ReviewCall
    BY <2>2, <2>3, <2>4 DEF ContractRow, ReviewCall
  <2> QED
    BY <1>0, <1>3, <2>1, <2>5, BecomeType DEF ReviewShadow, TypeOK, Call
<1>4. ASSUME NEW t \in Threads, NEW p \in Previews, NEW s \in Scripts, PreviewScript(t, p, s)
      PROVE  TypeOK'
  <2>1. [script |-> s, status |-> "pending"] \in PreviewRow
    BY <1>4 DEF PreviewScript, PreviewRow
  <2> QED
    BY <1>0, <1>4, <2>1 DEF PreviewScript, TypeOK
<1>5. ASSUME NEW t \in Threads, NEW p \in Previews, StartApprovePreview(t, p) PROVE TypeOK'
  <2>1. [op |-> "approvePreview", preview |-> p, step |-> "save"] \in Call
    BY DEF Call, PreviewCall
  <2> QED
    BY <1>0, <1>5, <2>1, BecomeType DEF StartApprovePreview, TypeOK
<1>6. ASSUME NEW t \in Threads, SaveApproval(t) PROVE TypeOK'
  <2>1. calls[t] \in PreviewCall
    BY <1>0, <1>6, CallKinds DEF SaveApproval, TypeOK, Doing
  <2>2. calls[t].preview \in Previews /\ [calls[t] EXCEPT !.step = "mark"] \in Call
    BY <2>1 DEF PreviewCall, Call
  <2> QED
    BY <1>0, <1>6, <2>2 DEF SaveApproval, Step, TypeOK
<1>7. \A p \in Previews : previews[p] # None =>
        \A status \in {"pending", "approved", "rejected"} :
          SetStatus(p, status) => previews' \in [Previews -> PreviewRow \union {None}]
  BY <1>0 DEF TypeOK, SetStatus, PreviewRow
<1>8. ASSUME NEW t \in Threads, MarkApproved(t) PROVE TypeOK'
  <2>1. calls[t] \in PreviewCall
    BY <1>0, <1>8, CallKinds DEF MarkApproved, TypeOK, Doing
  <2>2. calls[t].preview \in Previews /\ previews[calls[t].preview] # None
    BY <1>0, <1>8, <2>1 DEF MarkApproved, PreviewsExist, PreviewCall
  <2> QED
    BY <1>0, <1>7, <1>8, <2>2, ReturnType DEF MarkApproved, TypeOK
<1>9. ASSUME NEW t \in Threads, NEW p \in Previews, RejectPreview(t, p) PROVE TypeOK'
  BY <1>0, <1>7, <1>9 DEF RejectPreview, TypeOK
<1>10. ASSUME NEW t \in Threads, Begun(t) PROVE TypeOK'
  <2>1. PICK r \in Runs, of \in NewRun, explicit \in Anchors \union {None},
             expected \in Shadows \union {None} : Begins(t, r, of, explicit, expected)
    BY <1>10 DEF Begun
  <2>2. [op |-> "run", step |-> "book", run |-> r, of |-> of,
         explicit |-> explicit, expected |-> expected] \in Call
    BY DEF Call, RunCall, RunSteps
  <2> QED
    BY <1>0, <2>1, <2>2, BecomeType DEF Begins, TypeOK
<1>11. ASSUME NEW t \in Threads, Doing(t, "run")
       PROVE  /\ calls[t] \in RunCall /\ RunOf(t) \in Runs /\ calls[t].of \in NewRun
              /\ calls[t].explicit \in Anchors \union {None}
  BY <1>0, <1>11, CallKinds DEF TypeOK, Doing, RunCall, RunOf
<1>12. ASSUME NEW r \in Runs, NEW row \in RunRow, runs' = [runs EXCEPT ![r] = row]
       PROVE  runs' \in [Runs -> RunRow \union {None}]
  BY <1>0, <1>12 DEF TypeOK
<1>13. ASSUME NEW t \in Threads, BookRun(t) PROVE TypeOK'
  <2>1. Doing(t, "run")
    BY <1>13 DEF BookRun, At
  <2> DEFINE anchor == CASE ByScript(calls[t].of) -> None
                         [] ~ByScript(calls[t].of) /\ calls[t].explicit # None ->
                              calls[t].explicit
                         [] OTHER -> today
             row == [of |-> calls[t].of, status |-> "running", shadow |-> FALSE,
                     anchor |-> anchor]
  <2>2. anchor \in Anchors \union {None}
    BY <1>0, <1>11, <2>1 DEF TypeOK, Anchors
  <2>3. row \in RunRow
    BY <1>11, <2>1, <2>2 DEF RunRow, Statuses
  <2>4. runs' = [runs EXCEPT ![RunOf(t)] = row]
    BY <1>13 DEF BookRun, RunOf
  <2>5. PICK s \in RunSteps : Step(t, s)
    BY <1>13 DEF BookRun, RunSteps
  <2>6. runs' \in [Runs -> RunRow \union {None}]
    BY <1>11, <1>12, <2>1, <2>3, <2>4
  <2> QED
    BY <1>0, <1>13, <2>1, <2>5, <2>6, RunStepType DEF BookRun, TypeOK
<1>14. ASSUME NEW t \in Threads, Doing(t, "run"), ~At(t, "book")
       PROVE  runs[RunOf(t)] \in RunRow
  BY <1>0, <1>11, <1>14 DEF TypeOK, CallsOK
<1>15. ASSUME NEW t \in Threads, ResolveRunAnchor(t) PROVE TypeOK'
  <2>1. Doing(t, "run") /\ ~At(t, "book")
    BY <1>15 DEF ResolveRunAnchor, At
  <2>2. PICK anchor \in Anchors :
          /\ calls' = [calls EXCEPT ![t].step = "build", ![t].explicit = anchor]
          /\ runs' = [runs EXCEPT ![RunOf(t)].anchor = anchor]
    <3>1. ResolveAnchor(calls[t].of.rules, None, TRUE) \in Anchors
      BY <1>0, AnchorType
    <3> QED
      BY <1>15, <3>1 DEF ResolveRunAnchor
  <2>3. [runs[RunOf(t)] EXCEPT !.anchor = anchor] \in RunRow
    BY <1>14, <2>1 DEF RunRow
  <2>4. [calls[t] EXCEPT !.step = "build", !.explicit = anchor] \in RunCall
    BY <1>11, <2>1 DEF RunCall, RunSteps
  <2>5. calls' = [calls EXCEPT ![t] = [calls[t] EXCEPT !.step = "build", !.explicit = anchor]]
    BY <1>0, <2>2 DEF TypeOK
  <2>6. runs' \in [Runs -> RunRow \union {None}]
    BY <1>11, <1>12, <2>1, <2>2, <2>3
  <2> QED
    BY <1>0, <1>15, <2>4, <2>5, <2>6 DEF ResolveRunAnchor, TypeOK, Call
<1>16. ASSUME NEW t \in Threads, BuildShadow(t) PROVE TypeOK'
  BY <1>0, <1>11, <1>16, RunStepType DEF BuildShadow, At, RunSteps, TypeOK
<1>17. ASSUME NEW t \in Threads, InsertShadow(t) PROVE TypeOK'
  <2>1. today + Ttl \in Nat
    BY <1>0, DaysAssumption DEF TypeOK
  <2> QED
    BY <1>0, <1>11, <1>17, <2>1, RunStepType DEF InsertShadow, At, RunSteps, TypeOK
<1>18. ASSUME NEW t \in Threads, LinkShadow(t) PROVE TypeOK'
  <2>1. Doing(t, "run") /\ ~At(t, "book")
    BY <1>18 DEF LinkShadow, At
  <2>2. [runs[RunOf(t)] EXCEPT !.shadow = TRUE] \in RunRow
    BY <1>14, <2>1 DEF RunRow
  <2>3. runs' \in [Runs -> RunRow \union {None}]
    BY <1>11, <1>12, <1>18, <2>1, <2>2 DEF LinkShadow
  <2> QED
    BY <1>0, <1>18, <2>1, <2>3, RunStepType DEF LinkShadow, RunSteps, TypeOK
<1>19. ASSUME NEW t \in Threads, SaveResult(t) PROVE TypeOK'
  <2>1. Doing(t, "run")
    BY <1>19 DEF SaveResult, At
  <2>2. Built(t) \in Shadows
    BY <1>0, <2>1, BuiltType
  <2> QED
    BY <1>0, <1>11, <1>19, <2>1, <2>2, RunStepType DEF SaveResult, RunSteps, TypeOK
<1>20. ASSUME NEW t \in Threads, CompleteRun(t) PROVE TypeOK'
  <2>1. Doing(t, "run") /\ ~At(t, "book")
    BY <1>20 DEF CompleteRun, At
  <2>2. [runs[RunOf(t)] EXCEPT !.status = "completed"] \in RunRow
    BY <1>14, <2>1 DEF RunRow, Statuses
  <2>3. runs' \in [Runs -> RunRow \union {None}]
    BY <1>11, <1>12, <1>20, <2>1, <2>2 DEF CompleteRun
  <2> QED
    BY <1>0, <1>20, <2>1, <2>3, RunStepType DEF CompleteRun, RunSteps, TypeOK
<1>21. ASSUME NEW t \in Threads, AuditCompleted(t) PROVE TypeOK'
  BY <1>0, <1>11, <1>21, RunStepType DEF AuditCompleted, At, RunSteps, TypeOK
<1>22. ASSUME NEW t \in Threads, StoreBack(t) PROVE TypeOK'
  BY <1>0, <1>11, <1>22, ReturnType DEF StoreBack, At, TypeOK
<1>23. ASSUME NEW t \in Threads, FlushLibrary(t) PROVE TypeOK'
  BY <1>0, <1>23 DEF FlushLibrary, TypeOK
<1>24. ASSUME NEW t \in Threads, Raise(t) PROVE TypeOK'
  <2>1. Return(t) \/ Step(t, "fail")
    BY <1>24 DEF Raise
  <2>2. calls' \in [Threads -> Call]
    BY <1>0, <1>24, <2>1, ReturnType, RunStepType DEF Raise, RunSteps
  <2> QED
    BY <1>0, <1>24, <2>2 DEF Raise, TypeOK
<1>25. ASSUME NEW t \in Threads, RecordFailure(t) PROVE TypeOK'
  <2>1. Doing(t, "run") /\ ~At(t, "book")
    BY <1>25 DEF RecordFailure, At
  <2>2. [runs[RunOf(t)] EXCEPT !.status = "failed"] \in RunRow
    BY <1>14, <2>1 DEF RunRow, Statuses
  <2>3. runs' \in [Runs -> RunRow \union {None}]
    BY <1>11, <1>12, <1>25, <2>1, <2>2 DEF RecordFailure
  <2> QED
    BY <1>0, <1>25, <2>3, ReturnType DEF RecordFailure, TypeOK
<1>26. ASSUME NEW t \in Threads, Vanish(t) PROVE TypeOK'
  BY <1>0, <1>26, ReturnType DEF Vanish, TypeOK
<1>27. CASE Tick
  BY <1>0, <1>27 DEF Tick, TypeOK
<1>28. ASSUME NEW t \in Threads, StartCleanup(t) PROVE TypeOK'
  <2>1. [op |-> "cleanup", expired |-> {r \in Runs : Expired(r)},
         left |-> {r \in Runs : Expired(r)}] \in Call
    BY DEF Call, CleanupCall
  <2> QED
    BY <1>0, <1>28, <2>1, BecomeType DEF StartCleanup, TypeOK
<1>29. ASSUME NEW t \in Threads, Unlink(t) PROVE TypeOK'
  <2>1. calls[t] \in CleanupCall
    BY <1>0, <1>29, CallKinds DEF Unlink, TypeOK, Doing
  <2>2. PICK r \in calls[t].left :
          /\ shadowFiles' = shadowFiles \ {r}
          /\ calls' = [calls EXCEPT ![t].left = @ \ {r}]
    BY <1>29 DEF Unlink
  <2>3. [calls[t] EXCEPT !.left = @ \ {r}] \in CleanupCall
    BY <2>1 DEF CleanupCall
  <2>4. calls' \in [Threads -> Call]
    BY <1>0, <2>2, <2>3 DEF TypeOK, Call
  <2> QED
    BY <1>0, <1>29, <2>2, <2>4 DEF Unlink, TypeOK
<1>30. ASSUME NEW t \in Threads, CommitCleanup(t) PROVE TypeOK'
  BY <1>0, <1>30, ReturnType DEF CommitCleanup, TypeOK
<1>31. CASE UNCHANGED vars
  BY <1>0, <1>31 DEF TypeOK, vars
<1>32. ASSUME NEW t \in Threads, Request(t) PROVE TypeOK'
  BY <1>0, <1>1, <1>3, <1>4, <1>5, <1>9, <1>10, <1>23, <1>28, <1>32, StartRunIsBegun,
     StartReviewedRunIsBegun, StartScriptRunIsBegun DEF Request
<1>33. ASSUME NEW t \in Threads, Work(t) PROVE TypeOK'
  BY <1>2, <1>6, <1>8, <1>13, <1>15, <1>16, <1>17, <1>18, <1>19, <1>20, <1>21, <1>22, <1>24,
     <1>25, <1>26, <1>29, <1>30, <1>33 DEF Work, RunStep
<1> QED
  BY <1>27, <1>31, <1>32, <1>33 DEF Next

------------------------------------------------------------------------------
(* What a step does to the runs.                                           *)

\* No row of a run or a result changes, and a thread that is on a run was on it
\* before, at the same step.
Quiet ==
  /\ contracts \subseteq contracts'
  /\ UNCHANGED <<runs, results, completedLog>>
  /\ \A t \in Threads : Doing(t, "run")' => Doing(t, "run") /\ calls'[t] = calls[t]

\* An exception inside the try block.
FailRun(t) ==
  /\ Doing(t, "run") /\ calls[t].step \in RunSteps \ {"book", "store", "fail"}
  /\ Step(t, "fail")
  /\ UNCHANGED <<today, contracts, scriptVars, runVars>>

RunProgress(t) ==
  \/ Begun(t) \/ BookRun(t) \/ ResolveRunAnchor(t) \/ BuildShadow(t) \/ InsertShadow(t)
  \/ LinkShadow(t) \/ SaveResult(t) \/ CompleteRun(t) \/ AuditCompleted(t)
  \/ FailRun(t) \/ RecordFailure(t)

\* A call that leaves or enters anything but a run is quiet.
LEMMA BecomeQuiet ==
  ASSUME TypeOK, NEW t \in Threads, NEW c, c.op # "run", Become(t, c),
         contracts \subseteq contracts', UNCHANGED <<runs, results, completedLog>>
  PROVE  Quiet
  BY DEF TypeOK, Become, Quiet, Doing

LEMMA ReturnQuiet ==
  ASSUME TypeOK, NEW t \in Threads, Return(t),
         contracts \subseteq contracts', UNCHANGED <<runs, results, completedLog>>
  PROVE  Quiet
  BY BecomeQuiet DEF Return, Idle

\* Everything but the steps of a run is quiet.
LEMMA StepKinds ==
  TypeInv /\ [Next]_vars => Quiet \/ \E t \in Threads : RunProgress(t)
<1> SUFFICES ASSUME TypeInv, [Next]_vars, \A t \in Threads : ~RunProgress(t) PROVE Quiet
  OBVIOUS
<1>0. TypeOK /\ PreviewsExist
  BY DEF TypeInv
<1> USE DEF scriptVars, shadowVars, outcomeVars, runVars
<1>1. ASSUME NEW t \in Threads, NEW id \in Contracts, NEW rules \in Rules,
             StartApprove(t, id, rules)
      PROVE  Quiet
  BY <1>0, <1>1, BecomeQuiet DEF StartApprove
<1>2. ASSUME NEW t \in Threads, NEW id, NEW v, NEW explicit, NEW withTarget,
             ReviewShadow(t, id, v, explicit, withTarget)
      PROVE  Quiet
  BY <1>0, <1>2, BecomeQuiet DEF ReviewShadow
<1>3. ASSUME NEW t \in Threads, NEW p \in Previews,
             \/ \E s \in Scripts : PreviewScript(t, p, s)
             \/ RejectPreview(t, p) \/ FlushLibrary(t)
      PROVE  Quiet
  BY <1>3 DEF PreviewScript, RejectPreview, FlushLibrary, Quiet, Doing
<1>4. ASSUME NEW t \in Threads, NEW p \in Previews, StartApprovePreview(t, p) PROVE Quiet
  BY <1>0, <1>4, BecomeQuiet DEF StartApprovePreview
<1>5. ASSUME NEW t \in Threads, StartCleanup(t) PROVE Quiet
  BY <1>0, <1>5, BecomeQuiet DEF StartCleanup
<1>6. ASSUME NEW t \in Threads, FlushLibrary(t) PROVE Quiet
  BY <1>6 DEF FlushLibrary, Quiet, Doing
<1>7. ASSUME NEW t \in Threads, Request(t) PROVE Quiet
  <2>1. ~Begun(t)
    BY DEF RunProgress
  <2> QED
    BY <1>0, <1>1, <1>2, <1>3, <1>4, <1>5, <1>6, <1>7, <2>1, StartRunIsBegun,
       StartReviewedRunIsBegun, StartScriptRunIsBegun DEF Request
<1>8. ASSUME NEW t \in Threads,
             SaveContract(t) \/ MarkApproved(t) \/ CommitCleanup(t) \/ StoreBack(t) \/ Vanish(t)
      PROVE  Quiet
  BY <1>0, <1>8, ReturnQuiet
     DEF SaveContract, MarkApproved, CommitCleanup, StoreBack, Vanish
<1>9. ASSUME NEW t \in Threads, SaveApproval(t) PROVE Quiet
  BY <1>0, <1>9, CallKinds DEF SaveApproval, Step, Quiet, Doing, TypeOK, PreviewCall
<1>10. ASSUME NEW t \in Threads, Unlink(t) PROVE Quiet
  BY <1>0, <1>10, CallKinds DEF Unlink, Quiet, Doing, TypeOK, CleanupCall
<1>11. ASSUME NEW t \in Threads, Raise(t) PROVE Quiet
  <2>1. Return(t)
    BY <1>11 DEF Raise, RunProgress, FailRun
  <2> QED
    BY <1>0, <1>11, <2>1, ReturnQuiet DEF Raise
<1>12. ASSUME NEW t \in Threads, Work(t) PROVE Quiet
  BY <1>8, <1>9, <1>10, <1>11, <1>12 DEF Work, RunStep, RunProgress
<1>13. CASE Tick \/ UNCHANGED vars
  BY <1>13 DEF Tick, vars, Quiet, Doing
<1> QED
  BY <1>7, <1>12, <1>13 DEF Next

\* A step of a run touches the call of its own thread, which stays on its run
\* or leaves it, and the row of its own run.
Own(t) ==
  /\ Doing(t, "run")
  /\ \A u \in Threads \ {t} : calls'[u] = calls[u]
  /\ \A r \in Runs \ {RunOf(t)} :
       /\ runs'[r] = runs[r] /\ results'[r] = results[r] /\ shadowRows'[r] = shadowRows[r]
       /\ r \in completedLog' <=> r \in completedLog
       /\ r \in shadowFiles => r \in shadowFiles'
  /\ Doing(t, "run")' => /\ calls'[t].run = calls[t].run /\ calls'[t].of = calls[t].of
                         /\ calls'[t].expected = calls[t].expected
                         /\ ~At(t, "anchor") => calls'[t].explicit = calls[t].explicit
  /\ UNCHANGED <<today, contracts, scriptVars, library>>

\* A step to step.
LEMMA StepFields ==
  ASSUME TypeOK, NEW t \in Threads, Doing(t, "run"), NEW s, Step(t, s)
  PROVE  /\ calls[t] \in RunCall
         /\ calls'[t].step = s /\ Doing(t, "run")'
         /\ calls'[t].run = calls[t].run /\ calls'[t].of = calls[t].of
         /\ calls'[t].expected = calls[t].expected /\ calls'[t].explicit = calls[t].explicit
         /\ \A u \in Threads \ {t} : calls'[u] = calls[u]
<1>1. calls[t] \in RunCall
  BY CallKinds DEF TypeOK, Doing
<1>2. calls'[t] = [calls[t] EXCEPT !.step = s]
  BY DEF TypeOK, Step
<1> QED
  BY <1>1, <1>2 DEF TypeOK, Step, RunCall, Doing

Advance(t) ==
  \/ BookRun(t) \/ ResolveRunAnchor(t) \/ BuildShadow(t) \/ InsertShadow(t) \/ LinkShadow(t)
  \/ SaveResult(t) \/ CompleteRun(t) \/ AuditCompleted(t) \/ FailRun(t) \/ RecordFailure(t)

LEMMA OwnStep ==
  ASSUME TypeInv, NEW t \in Threads, Advance(t)
  PROVE  Own(t)
<1>0. TypeOK
  BY DEF TypeInv
<1> USE DEF scriptVars, shadowVars, outcomeVars, runVars, TypeOK, RunOf, At
<1>1. CASE BookRun(t)
  BY <1>0, <1>1, StepFields DEF BookRun, Own
<1>2. CASE ResolveRunAnchor(t)
  <2>1. calls[t] \in RunCall
    BY <1>0, <1>2, CallKinds DEF ResolveRunAnchor, Doing
  <2>2. PICK anchor :
          /\ calls' = [calls EXCEPT ![t].step = "build", ![t].explicit = anchor]
          /\ runs' = [runs EXCEPT ![RunOf(t)].anchor = anchor]
    BY <1>2 DEF ResolveRunAnchor
  <2> QED
    BY <1>0, <1>2, <2>1, <2>2 DEF ResolveRunAnchor, Own, RunCall, Doing
<1>3. CASE BuildShadow(t)
  BY <1>0, <1>3, StepFields DEF BuildShadow, Own
<1>4. CASE InsertShadow(t)
  BY <1>0, <1>4, StepFields DEF InsertShadow, Own
<1>5. CASE LinkShadow(t)
  BY <1>0, <1>5, StepFields DEF LinkShadow, Own
<1>6. CASE SaveResult(t)
  BY <1>0, <1>6, StepFields DEF SaveResult, Own
<1>7. CASE CompleteRun(t)
  BY <1>0, <1>7, StepFields DEF CompleteRun, Own
<1>8. CASE AuditCompleted(t)
  BY <1>0, <1>8, StepFields DEF AuditCompleted, Own
<1>9. CASE FailRun(t)
  BY <1>0, <1>9, StepFields DEF FailRun, Own
<1>10. CASE RecordFailure(t)
  BY <1>0, <1>10 DEF RecordFailure, Return, Become, Idle, Own, Doing
<1> QED
  BY <1>1, <1>2, <1>3, <1>4, <1>5, <1>6, <1>7, <1>8, <1>9, <1>10 DEF Advance

\* What the beginning of a run changes.
LEMMA BeginsFields ==
  ASSUME TypeOK, NEW t \in Threads, NEW r, NEW of, NEW explicit, NEW expected,
         Begins(t, r, of, explicit, expected)
  PROVE  /\ At(t, "book")' /\ Doing(t, "run")' /\ calls'[t].run = r /\ calls'[t].of = of
         /\ calls'[t].expected = expected
         /\ \A u \in Threads \ {t} : calls'[u] = calls[u]
  BY DEF TypeOK, Begins, Become, At, Doing

\* What TypeInv says of a thread on a run.
LEMMA RunFacts ==
  ASSUME TypeInv, NEW t \in Threads, Doing(t, "run")
  PROVE  /\ calls[t] \in RunCall /\ RunOf(t) \in Runs /\ calls[t].of \in NewRun
         /\ calls[t].explicit \in Anchors \union {None}
         /\ calls[t].expected \in Shadows \union {None}
         /\ At(t, "book") <=> runs[RunOf(t)] = None
         /\ ~At(t, "book") => runs[RunOf(t)] \in RunRow /\ runs[RunOf(t)].of = calls[t].of
  BY CallKinds DEF TypeInv, CallsOK, TypeOK, Doing, RunOf, RunCall

\* The row of a run between two of its steps.
LEMMA RowKept ==
  ASSUME TypeInv, NEW t \in Threads, Advance(t)
  PROVE  runs'[RunOf(t)] \in RunRow /\ runs'[RunOf(t)].of = calls[t].of
<1>0. TypeOK
  BY DEF TypeInv
<1>1. Doing(t, "run")
  BY OwnStep DEF Own
<1> DEFINE old == runs[RunOf(t)]
<1> USE DEF scriptVars, shadowVars, outcomeVars, runVars
<1>2. CASE BookRun(t)
  <2> DEFINE anchor == CASE ByScript(calls[t].of) -> None
                         [] ~ByScript(calls[t].of) /\ calls[t].explicit # None ->
                              calls[t].explicit
                         [] OTHER -> today
  <2>1. anchor \in Anchors \union {None}
    BY <1>0, <1>1, RunFacts DEF TypeOK, Anchors
  <2>2. runs'[RunOf(t)] = [of |-> calls[t].of, status |-> "running", shadow |-> FALSE,
                           anchor |-> anchor]
    BY <1>0, <1>1, <1>2, RunFacts DEF BookRun, TypeOK, RunOf
  <2> QED
    BY <1>1, <2>1, <2>2, RunFacts DEF RunRow, Statuses
<1>3. CASE ResolveRunAnchor(t)
  <2>1. PICK anchor \in Anchors : runs' = [runs EXCEPT ![RunOf(t)].anchor = anchor]
    BY <1>0, <1>3, AnchorType DEF ResolveRunAnchor
  <2>2. runs'[RunOf(t)] = [old EXCEPT !.anchor = anchor] /\ ~At(t, "book")
    BY <1>0, <1>1, <1>3, <2>1, RunFacts DEF ResolveRunAnchor, TypeOK, At
  <2> QED
    BY <1>1, <2>2, RunFacts DEF RunRow
<1>4. CASE LinkShadow(t)
  <2>1. runs'[RunOf(t)] = [old EXCEPT !.shadow = TRUE] /\ ~At(t, "book")
    BY <1>0, <1>1, <1>4, RunFacts DEF LinkShadow, TypeOK, At
  <2> QED
    BY <1>1, <2>1, RunFacts DEF RunRow
<1>5. CASE CompleteRun(t)
  <2>1. runs'[RunOf(t)] = [old EXCEPT !.status = "completed"] /\ ~At(t, "book")
    BY <1>0, <1>1, <1>5, RunFacts DEF CompleteRun, TypeOK, At
  <2> QED
    BY <1>1, <2>1, RunFacts DEF RunRow, Statuses
<1>6. CASE RecordFailure(t)
  <2>1. runs'[RunOf(t)] = [old EXCEPT !.status = "failed"] /\ ~At(t, "book")
    BY <1>0, <1>1, <1>6, RunFacts DEF RecordFailure, TypeOK, At
  <2> QED
    BY <1>1, <2>1, RunFacts DEF RunRow, Statuses
<1>7. CASE BuildShadow(t) \/ InsertShadow(t) \/ SaveResult(t) \/ AuditCompleted(t) \/ FailRun(t)
  BY <1>1, <1>7, RunFacts
     DEF BuildShadow, InsertShadow, SaveResult, AuditCompleted, FailRun, At
<1> QED
  BY <1>2, <1>3, <1>4, <1>5, <1>6, <1>7 DEF Advance

\* The step a run's thread is at after one of its own steps, if any.
LEMMA NextStep ==
  ASSUME TypeInv, NEW t \in Threads, Advance(t), Doing(t, "run")'
  PROVE  /\ BookRun(t) => calls'[t].step = IF ByScript(calls[t].of) \/ calls[t].explicit # None
                                           THEN "build" ELSE "anchor"
         /\ ResolveRunAnchor(t) => calls'[t].step = "build"
         /\ BuildShadow(t) => calls'[t].step \in {"insert", "fail"}
         /\ InsertShadow(t) => calls'[t].step = "link"
         /\ LinkShadow(t) => calls'[t].step = "reconcile"
         /\ SaveResult(t) => calls'[t].step = "complete"
         /\ CompleteRun(t) => calls'[t].step = "audit"
         /\ AuditCompleted(t) => calls'[t].step = "store"
         /\ FailRun(t) => calls'[t].step = "fail"
         /\ ~RecordFailure(t)
<1>0. TypeOK
  BY DEF TypeInv
<1>1. Doing(t, "run")
  BY OwnStep DEF Own
<1>2. ASSUME ResolveRunAnchor(t) PROVE calls'[t].step = "build"
  BY <1>0, <1>1, <1>2, RunFacts DEF ResolveRunAnchor, TypeOK, RunCall
<1>3. ASSUME RecordFailure(t) PROVE FALSE
  BY <1>0, <1>3 DEF RecordFailure, Return, Become, Idle, TypeOK, Doing
<1> QED
  BY <1>0, <1>1, <1>2, <1>3, StepFields
     DEF BookRun, BuildShadow, InsertShadow, LinkShadow, SaveResult, CompleteRun,
         AuditCompleted, FailRun

\* A run keeps its one thread and its row.
LEMMA CallsStep == TypeInv /\ [Next]_vars => CallsOK'
<1> SUFFICES ASSUME TypeInv, [Next]_vars PROVE CallsOK'
  OBVIOUS
<1>0. TypeOK /\ CallsOK
  BY DEF TypeInv
<1>1. CASE Quiet
  BY <1>0, <1>1 DEF Quiet, CallsOK, RunOf, At, Doing
<1>2. ASSUME NEW t \in Threads, Begun(t) PROVE CallsOK'
  <2>1. PICK r, of, explicit, expected : r \in Runs /\ Begins(t, r, of, explicit, expected)
    BY <1>2 DEF Begun
  <2>2. UNCHANGED runs /\ runs[r] = None /\ \A u \in Threads : Doing(u, "run") => RunOf(u) # r
    BY <2>1 DEF Begins, FreeRun, runVars, RunOf
  <2> QED
    BY <1>0, <2>1, <2>2, BeginsFields DEF CallsOK, RunOf, At, Doing
<1>3. ASSUME NEW t \in Threads, Advance(t) PROVE CallsOK'
  <2>1. Own(t)
    BY <1>3, OwnStep
  <2>2. \A u \in Threads \ {t} : Doing(u, "run") => RunOf(u) \in Runs \ {RunOf(t)}
    BY <1>0, <2>1, RunFacts DEF CallsOK, Own
  <2>3. Doing(t, "run")' => ~At(t, "book")'
    BY <1>3, NextStep DEF Advance, At
  <2>4. runs'[RunOf(t)] # None /\ runs'[RunOf(t)].of = calls[t].of
    BY <1>3, RowKept, NullAssumption
  <2> QED
    BY <1>0, <2>1, <2>2, <2>3, <2>4 DEF Own, CallsOK, RunOf, At, Doing
<1> QED
  BY <1>1, <1>2, <1>3, StepKinds DEF RunProgress, Advance

------------------------------------------------------------------------------
(* Previews.                                                               *)

\* Nothing of the previews changes, and no approval begins.
NoApproval ==
  /\ UNCHANGED scriptVars
  /\ \A t \in Threads :
       Doing(t, "approvePreview")' => Doing(t, "approvePreview") /\ calls'[t] = calls[t]

ApprovalStep(t, p) ==
  \/ \E s \in Scripts : PreviewScript(t, p, s)
  \/ StartApprovePreview(t, p) \/ RejectPreview(t, p) \/ SaveApproval(t) \/ MarkApproved(t)

LEMMA BecomeNoApproval ==
  ASSUME TypeOK, NEW t \in Threads, NEW c, c.op # "approvePreview", Become(t, c),
         UNCHANGED scriptVars
  PROVE  NoApproval
  BY DEF TypeOK, Become, NoApproval, Doing

\* An operation other than the five on previews leaves them alone.
LEMMA ApprovalSteps ==
  TypeInv /\ [Next]_vars =>
    NoApproval \/ \E t \in Threads, p \in Previews : ApprovalStep(t, p)
<1> SUFFICES ASSUME TypeInv, [Next]_vars,
                    \A t \in Threads, p \in Previews : ~ApprovalStep(t, p)
             PROVE  NoApproval
  OBVIOUS
<1>0. TypeOK /\ PreviewsExist
  BY DEF TypeInv
<1>1. ASSUME NEW t \in Threads, Begun(t) PROVE NoApproval
  BY <1>0, <1>1, BecomeNoApproval DEF Begun, Begins
<1>2. ASSUME NEW t \in Threads, Advance(t) PROVE NoApproval
  <2>1. Own(t)
    BY <1>2, OwnStep
  <2>2. calls'[t].op # "approvePreview"
    <3>1. CASE RecordFailure(t)
      BY <1>0, <3>1 DEF RecordFailure, Return, Become, Idle, TypeOK
    <3>2. CASE ResolveRunAnchor(t)
      BY <1>0, <3>2, RunFacts, <2>1 DEF ResolveRunAnchor, TypeOK, RunCall, Own
    <3>3. CASE ~RecordFailure(t) /\ ~ResolveRunAnchor(t)
      BY <1>0, <1>2, <2>1, <3>3, StepFields
         DEF Advance, BookRun, BuildShadow, InsertShadow, LinkShadow, SaveResult,
             CompleteRun, AuditCompleted, FailRun, Own, Doing
    <3> QED
      BY <3>1, <3>2, <3>3
  <2> QED
    BY <2>1, <2>2 DEF Own, NoApproval, Doing
<1> USE DEF scriptVars, shadowVars, outcomeVars, runVars
<1>3. ASSUME NEW t \in Threads, NEW id, NEW rules, StartApprove(t, id, rules) PROVE NoApproval
  BY <1>0, <1>3, BecomeNoApproval DEF StartApprove
<1>4. ASSUME NEW t \in Threads, NEW id, NEW v, NEW explicit, NEW withTarget,
             ReviewShadow(t, id, v, explicit, withTarget)
      PROVE  NoApproval
  BY <1>0, <1>4, BecomeNoApproval DEF ReviewShadow
<1>5. ASSUME NEW t \in Threads, StartCleanup(t) PROVE NoApproval
  BY <1>0, <1>5, BecomeNoApproval DEF StartCleanup
<1>6. ASSUME NEW t \in Threads, FlushLibrary(t) PROVE NoApproval
  BY <1>6 DEF FlushLibrary, NoApproval, Doing
<1>7. ASSUME NEW t \in Threads, Request(t) PROVE NoApproval
  BY <1>0, <1>1, <1>3, <1>4, <1>5, <1>6, <1>7, StartRunIsBegun, StartReviewedRunIsBegun,
     StartScriptRunIsBegun DEF Request, ApprovalStep
<1>8. ASSUME NEW t \in Threads, Return(t), UNCHANGED scriptVars PROVE NoApproval
  BY <1>0, <1>8, BecomeNoApproval DEF Return, Idle
<1>9. ASSUME NEW t \in Threads,
             SaveContract(t) \/ CommitCleanup(t) \/ StoreBack(t) \/ Vanish(t)
      PROVE  NoApproval
  BY <1>8, <1>9 DEF SaveContract, CommitCleanup, StoreBack, Vanish
<1>10. ASSUME NEW t \in Threads, Unlink(t) PROVE NoApproval
  BY <1>0, <1>10, CallKinds DEF Unlink, NoApproval, Doing, TypeOK, CleanupCall
<1>11. ASSUME NEW t \in Threads, Raise(t) PROVE NoApproval
  BY <1>2, <1>8, <1>11 DEF Raise, Advance, FailRun
<1>12. ASSUME NEW t \in Threads, SaveApproval(t) \/ MarkApproved(t) PROVE FALSE
  <2>1. calls[t].preview \in Previews
    BY <1>0, <1>12, CallKinds DEF SaveApproval, MarkApproved, Doing, TypeOK, PreviewCall
  <2> QED
    BY <1>12, <2>1 DEF ApprovalStep
<1>13. ASSUME NEW t \in Threads, Work(t) PROVE NoApproval
  BY <1>2, <1>9, <1>10, <1>11, <1>12, <1>13 DEF Work, RunStep, Advance
<1>14. CASE Tick \/ UNCHANGED vars
  BY <1>14 DEF Tick, vars, NoApproval, Doing
<1> QED
  BY <1>7, <1>13, <1>14 DEF Next

\* A preview's status changes, its existence does not.
LEMMA SetStatusFacts ==
  ASSUME TypeOK, NEW p \in Previews, previews[p] # None,
         NEW status \in {"pending", "approved", "rejected"}, SetStatus(p, status)
  PROVE  /\ previews'[p].status = status /\ previews'[p] # None
         /\ \A q \in Previews \ {p} : previews'[q] = previews[q]
<1>1. previews[p] \in PreviewRow /\ previews'[p] = [previews[p] EXCEPT !.status = status]
  BY DEF TypeOK, SetStatus
<1>2. previews'[p] \in PreviewRow /\ previews'[p].status = status
  BY <1>1 DEF PreviewRow
<1> QED
  BY <1>2, NullAssumption DEF TypeOK, SetStatus

LEMMA PreviewCallFacts ==
  ASSUME TypeInv, NEW t \in Threads, Doing(t, "approvePreview")
  PROVE  calls[t] \in PreviewCall /\ calls[t].preview \in Previews
         /\ previews[calls[t].preview] # None
  BY CallKinds DEF TypeInv, TypeOK, PreviewsExist, Doing, PreviewCall

\* A preview is never deleted.
LEMMA PreviewsStep == TypeInv /\ [Next]_vars => PreviewsExist'
<1> SUFFICES ASSUME TypeInv, [Next]_vars PROVE PreviewsExist'
  OBVIOUS
<1>0. TypeOK /\ PreviewsExist
  BY DEF TypeInv
<1> USE DEF scriptVars
<1>1. CASE NoApproval
  BY <1>0, <1>1 DEF NoApproval, PreviewsExist, Doing
<1>2. ASSUME NEW t \in Threads, NEW p \in Previews, NEW s \in Scripts, PreviewScript(t, p, s)
      PROVE  PreviewsExist'
  <2>1. [script |-> s, status |-> "pending"] # None
    BY <1>2, NullAssumption DEF PreviewScript, PreviewRow
  <2> QED
    BY <1>0, <1>2, <2>1 DEF PreviewScript, PreviewsExist, TypeOK, Doing
<1>3. ASSUME NEW t \in Threads, NEW p \in Previews, StartApprovePreview(t, p)
      PROVE  PreviewsExist'
  BY <1>0, <1>3 DEF StartApprovePreview, Become, PreviewsExist, TypeOK, Doing
<1>4. ASSUME NEW t \in Threads, SaveApproval(t) PROVE PreviewsExist'
  <2>1. Doing(t, "approvePreview") /\ calls'[t].preview = calls[t].preview
    BY <1>0, <1>4, CallKinds DEF SaveApproval, Step, Doing, TypeOK, PreviewCall
  <2> QED
    BY <1>0, <1>4, <2>1, PreviewCallFacts DEF SaveApproval, Step, PreviewsExist, TypeOK, Doing
<1>5. ASSUME NEW t \in Threads, MarkApproved(t) PROVE PreviewsExist'
  <2>1. Doing(t, "approvePreview")
    BY <1>5 DEF MarkApproved
  <2>2. \A q \in Previews : previews[q] # None => previews'[q] # None
    BY <1>0, <1>5, <2>1, PreviewCallFacts, SetStatusFacts DEF MarkApproved
  <2>3. \A u \in Threads : Doing(u, "approvePreview")' =>
          Doing(u, "approvePreview") /\ calls'[u] = calls[u]
    BY <1>0, <1>5 DEF MarkApproved, Return, Become, Idle, TypeOK, Doing
  <2>4. \A u \in Threads : Doing(u, "approvePreview") => calls[u].preview \in Previews
    BY PreviewCallFacts
  <2> QED
    BY <1>0, <1>5, <2>2, <2>3, <2>4 DEF MarkApproved, PreviewsExist, TypeOK
<1>6. ASSUME NEW t \in Threads, NEW p \in Previews, RejectPreview(t, p) PROVE PreviewsExist'
  <2>1. \A q \in Previews : previews[q] # None => previews'[q] # None
    BY <1>0, <1>6, SetStatusFacts DEF RejectPreview
  <2>2. \A u \in Threads : Doing(u, "approvePreview") => calls[u].preview \in Previews
    BY PreviewCallFacts
  <2> QED
    BY <1>0, <1>6, <2>1, <2>2 DEF RejectPreview, PreviewsExist, TypeOK, Doing
<1> QED
  BY <1>1, <1>2, <1>3, <1>4, <1>5, <1>6, ApprovalSteps DEF ApprovalStep

LEMMA TypeInvStep == TypeInv /\ [Next]_vars => TypeInv'
  BY TypeStep, CallsStep, PreviewsStep DEF TypeInv

LEMMA InitTypeInv == Init => TypeInv
  BY DEF Init, TypeInv, TypeOK, CallsOK, PreviewsExist, Call, Idle, Doing, At

\* Every row, payload list and call keeps its type: in particular no request
\* writes to the row of a run or of a preview that is not there.
THEOREM TypeCorrect == Spec => []TypeOK
<1>1. TypeInv => TypeOK
  BY DEF TypeInv
<1> QED
  BY <1>1, InitTypeInv, TypeInvStep, PTL DEF Spec

------------------------------------------------------------------------------
(* The veto.                                                               *)

\* Every run, begun or booked, is of a preview already approved, and a vetoed
\* preview has no way to become one.
LEMMA VetoStep == TypeInv /\ VetoInv /\ [Next]_vars => VetoInv'
<1> SUFFICES ASSUME TypeInv, VetoInv, [Next]_vars PROVE VetoInv'
  OBVIOUS
<1>0. TypeOK /\ TypeOK' /\ CallsOK
  BY TypeInvStep DEF TypeInv
<1> DEFINE Vetoed == \A p \in vetoed : /\ previews[p] # None /\ previews[p].status = "rejected"
                                       /\ p \notin approvals /\ ~Approving(p)
           RunsApproved ==
             /\ \A t \in Threads : Doing(t, "run") => calls[t].of.preview \in approvals \union {None}
             /\ \A r \in Runs : runs[r] # None => runs[r].of.preview \in approvals \union {None}
<1>1. Vetoed'
  <2> USE DEF scriptVars
  <2>1. CASE NoApproval
    BY <1>0, <2>1 DEF NoApproval, VetoInv, Approving, Doing
  <2>2. ASSUME NEW t \in Threads, NEW p \in Previews, NEW s \in Scripts, PreviewScript(t, p, s)
        PROVE  Vetoed'
    BY <1>0, <2>2 DEF PreviewScript, VetoInv, Approving, TypeOK, Doing
  <2>3. ASSUME NEW t \in Threads, NEW p \in Previews, StartApprovePreview(t, p) PROVE Vetoed'
    BY <1>0, <2>3 DEF StartApprovePreview, Become, VetoInv, Approving, TypeOK, Doing
  <2>4. ASSUME NEW t \in Threads, SaveApproval(t) PROVE Vetoed'
    <3>1. Doing(t, "approvePreview") /\ calls'[t].preview = calls[t].preview
      BY <1>0, <2>4, CallKinds DEF SaveApproval, Step, Doing, TypeOK, PreviewCall
    <3>2. \A p \in vetoed : calls[t].preview # p
      BY <3>1 DEF VetoInv, Approving
    <3>3. \A p : Approving(p)' => Approving(p)
      BY <1>0, <2>4, <3>1 DEF SaveApproval, Step, Approving, TypeOK, Doing
    <3> QED
      BY <2>4, <3>2, <3>3 DEF SaveApproval, VetoInv
  <2>5. ASSUME NEW t \in Threads, MarkApproved(t) PROVE Vetoed'
    <3>1. Doing(t, "approvePreview")
      BY <2>5 DEF MarkApproved
    <3>2. \A p \in vetoed : previews'[p] = previews[p]
      BY <1>0, <2>5, <3>1, PreviewCallFacts, SetStatusFacts
         DEF MarkApproved, VetoInv, Approving, TypeOK
    <3>3. \A p : Approving(p)' => Approving(p)
      BY <1>0, <2>5 DEF MarkApproved, Return, Become, Idle, Approving, TypeOK, Doing
    <3> QED
      BY <2>5, <3>2, <3>3 DEF MarkApproved, VetoInv
  <2>6. ASSUME NEW t \in Threads, NEW p \in Previews, RejectPreview(t, p) PROVE Vetoed'
    <3>1. /\ previews'[p].status = "rejected" /\ previews'[p] # None
          /\ \A q \in Previews \ {p} : previews'[q] = previews[q]
      BY <1>0, <2>6, SetStatusFacts DEF RejectPreview
    <3>2. \A q : Approving(q)' <=> Approving(q)
      BY <2>6 DEF RejectPreview, Approving, Doing
    <3> QED
      BY <1>0, <2>6, <3>1, <3>2 DEF RejectPreview, VetoInv, TypeOK
  <2> QED
    BY <2>1, <2>2, <2>3, <2>4, <2>5, <2>6, ApprovalSteps DEF ApprovalStep
<1>2. approvals \subseteq approvals'
  BY ApprovalSteps DEF NoApproval, scriptVars, ApprovalStep, PreviewScript, StartApprovePreview,
                       RejectPreview, SaveApproval, MarkApproved
<1>3. RunsApproved'
  <2>1. CASE Quiet
    BY <1>2, <2>1 DEF Quiet, VetoInv
  <2>2. ASSUME NEW t \in Threads, Begun(t) PROVE RunsApproved'
    <3>1. PICK r, of, explicit, expected : r \in Runs /\ Begins(t, r, of, explicit, expected)
      BY <2>2 DEF Begun
    <3> QED
      BY <1>0, <1>2, <3>1, BeginsFields DEF Begins, VetoInv, Doing, runVars
  <2>3. ASSUME NEW t \in Threads, Advance(t) PROVE RunsApproved'
    <3>1. Own(t) /\ runs'[RunOf(t)].of = calls[t].of
      BY <2>3, OwnStep, RowKept
    <3>2. \A u \in Threads : Doing(u, "run")' => Doing(u, "run") /\ calls'[u].of = calls[u].of
      BY <3>1 DEF Own, Doing
    <3>3. \A r \in Runs : r # RunOf(t) => runs'[r] = runs[r]
      BY <3>1 DEF Own
    <3> QED
      BY <1>2, <3>1, <3>2, <3>3 DEF Own, VetoInv
  <2> QED
    BY <2>1, <2>2, <2>3, StepKinds DEF RunProgress, Advance
<1> QED
  BY <1>1, <1>3 DEF VetoInv

\* A preview rejected before any approval of it began is never approved, and no
\* run is ever booked in its name, whatever the threads do in between.
THEOREM VetoIsFinal == Spec => []VetoHolds
<1>1. Init => VetoInv
  BY DEF Init, VetoInv, Idle, Doing
<1>2. TypeInv /\ VetoInv => VetoHolds
  BY NoneAssumption DEF TypeInv, TypeOK, VetoInv, VetoHolds
<1> QED
  BY <1>1, <1>2, InitTypeInv, TypeInvStep, VetoStep, PTL DEF Spec

------------------------------------------------------------------------------
(* What a run reconciles.                                                  *)

\* The threads of other runs do not see the step of a run.
LEMMA Others ==
  ASSUME TypeInv, NEW t \in Threads, Own(t)
  PROVE  \A u \in Threads \ {t} : Doing(u, "run") => RunOf(u) \in Runs \ {RunOf(t)}
  BY RunFacts DEF TypeInv, CallsOK, Own

\* The anchor in the row is settled before the shadow is built.
LEMMA AnchorKept ==
  ASSUME TypeInv, NEW t \in Threads, Advance(t), ~At(t, "book"), ~At(t, "anchor")
  PROVE  /\ runs'[RunOf(t)].anchor = runs[RunOf(t)].anchor
         /\ runs'[RunOf(t)].of = runs[RunOf(t)].of
         /\ Doing(t, "run")' => Built(t)' = Built(t)
<1>0. TypeOK
  BY DEF TypeInv
<1>1. Own(t) /\ Doing(t, "run") /\ runs[RunOf(t)] \in RunRow /\ RunOf(t) \in Runs
  BY OwnStep, RunFacts DEF Own
<1>2. runs'[RunOf(t)].of = runs[RunOf(t)].of
  BY <1>1, RowKept, RunFacts
<1>3. Doing(t, "run")' => Built(t)' = Built(t)
  BY <1>1 DEF Own, Built
<1> USE DEF scriptVars, shadowVars, outcomeVars, runVars
<1>4. CASE LinkShadow(t) \/ CompleteRun(t) \/ RecordFailure(t)
  BY <1>0, <1>1, <1>2, <1>3, <1>4
     DEF LinkShadow, CompleteRun, RecordFailure, TypeOK, RunRow
<1>5. CASE BuildShadow(t) \/ InsertShadow(t) \/ SaveResult(t) \/ AuditCompleted(t) \/ FailRun(t)
  BY <1>2, <1>3, <1>5 DEF BuildShadow, InsertShadow, SaveResult, AuditCompleted, FailRun
<1>6. ~BookRun(t) /\ ~ResolveRunAnchor(t)
  BY DEF BookRun, ResolveRunAnchor
<1> QED
  BY <1>4, <1>5, <1>6 DEF Advance

LEMMA ReplayStep == TypeInv /\ ReplayInv /\ [Next]_vars => ReplayInv'
<1> SUFFICES ASSUME TypeInv, ReplayInv, [Next]_vars PROVE ReplayInv'
  OBVIOUS
<1>0. TypeOK /\ TypeInv'
  BY TypeInvStep DEF TypeInv
<1> USE DEF scriptVars, shadowVars, outcomeVars, runVars
<1>1. CASE Quiet
  BY <1>1 DEF Quiet, ReplayInv, RunReplay, ReplayOf, RunOf, Built, Versioned
<1>2. ASSUME NEW t \in Threads, Begun(t) PROVE ReplayInv'
  <2>1. PICK r, of, explicit, expected : r \in Runs /\ Begins(t, r, of, explicit, expected)
    BY <1>2 DEF Begun
  <2>2. runs[r] = None /\ results[r] = None /\ (~ByScript(of) => RowOf(of) \in contracts)
    BY <2>1 DEF Begins, FreeRun, ReplayInv, ReplayOf
  <2>3. UNCHANGED <<contracts, runs, results>>
    BY <2>1 DEF Begins
  <2>4. RunReplay(t)'
    BY <1>0, <2>1, <2>2, <2>3, BeginsFields DEF RunReplay, RunOf, At
  <2>5. \A u \in Threads \ {t} : Doing(u, "run")' => RunReplay(u)'
    BY <1>0, <2>1, <2>3, BeginsFields DEF ReplayInv, RunReplay, RunOf, Built, Doing
  <2> QED
    BY <2>3, <2>4, <2>5 DEF ReplayInv, ReplayOf, Versioned
<1>3. ASSUME NEW t \in Threads, Advance(t), NEW r \in Runs, r = RunOf(t),
             Doing(t, "run")' => RunReplay(t)', ReplayOf(r)'
      PROVE  ReplayInv'
  <2>1. Own(t)
    BY <1>3, OwnStep
  <2>2. \A s \in Runs \ {r} : ReplayOf(s)'
    BY <1>3, <2>1 DEF Own, ReplayInv, ReplayOf, Versioned
  <2>3. \A u \in Threads \ {t} : Doing(u, "run")' => RunReplay(u)'
    BY <2>1, Others DEF Own, ReplayInv, RunReplay, RunOf, Built, Doing
  <2> QED
    BY <1>3, <2>2, <2>3 DEF ReplayInv
<1>4. ASSUME NEW t \in Threads, Advance(t), NEW r \in Runs, r = RunOf(t) PROVE ReplayInv'
  <2>0. /\ Own(t) /\ Doing(t, "run") /\ RunReplay(t) /\ ReplayOf(r) /\ calls[t].run = r
        /\ runs'[r] # None /\ runs'[r].of = calls[t].of
        /\ Doing(t, "run")' => calls'[t].run = r
    BY <1>4, OwnStep, RowKept, RunFacts, NullAssumption DEF Own, ReplayInv, RunOf
  <2> USE DEF RunOf
  <2>1. CASE BookRun(t)
    <3>1. UNCHANGED results /\ results[r] = None /\ ~At(t, "anchor")
      BY <2>0, <2>1 DEF BookRun, At, RunReplay, Unreconciled
    <3>2. Doing(t, "run")' => calls'[t].step \in {"build", "anchor"}
      BY <1>4, <2>1, NextStep
    <3>3. ~ByScript(calls[t].of) /\ calls'[t].step = "build" =>
            runs'[r].anchor = calls[t].explicit
      <4>1. ASSUME ~ByScript(calls[t].of), calls[t].explicit # None
            PROVE  runs'[r].anchor = calls[t].explicit
        BY <1>0, <2>0, <2>1, <4>1 DEF BookRun, TypeOK, RunOf
      <4>2. ~ByScript(calls[t].of) /\ calls[t].explicit = None => calls'[t].step = "anchor"
        BY <1>0, <2>0, <2>1, StepFields DEF BookRun
      <4> QED
        BY <4>1, <4>2
    <3> QED
      BY <1>3, <1>4, <2>0, <3>1, <3>2, <3>3 DEF Own, RunReplay, ReplayOf, RunOf, Built
  <2>2. CASE ResolveRunAnchor(t)
    <3>1. UNCHANGED results /\ results[r] = None
      BY <2>0, <2>2 DEF ResolveRunAnchor, At, RunReplay, Unreconciled
    <3>2. calls'[t].step = "build" /\ runs'[r].anchor = calls'[t].explicit
      BY <1>0, <2>0, <2>2, RunFacts DEF ResolveRunAnchor, TypeOK, RunCall, RunRow, At
    <3> QED
      BY <1>3, <1>4, <2>0, <3>1, <3>2 DEF Own, RunReplay, ReplayOf, RunOf, Built
  <2>3. CASE SaveResult(t)
    <3>1. /\ At(t, "reconcile") /\ results'[r] = Built(t)
          /\ Built(t)' = Built(t) /\ calls'[t].step = "complete" /\ Doing(t, "run")'
          /\ runs' = runs
      BY <1>0, <2>0, <2>3, StepFields DEF SaveResult, TypeOK, Built, Own
    <3>2. RunReplay(t)'
      BY <1>4, <2>0, <3>1, AnchorKept DEF Own, RunReplay, RunOf, At, Unreconciled
    <3>3. ~ByScript(calls[t].of) =>
            \E c \in Versioned(calls[t].of.contract, calls[t].of.version) :
              Built(t) = Shadow(c.rules, runs[r].anchor)
      <4>1. CASE ~ByScript(calls[t].of)
        <5>1. RowOf(calls[t].of) \in Versioned(calls[t].of.contract, calls[t].of.version)
          BY <2>0, <4>1 DEF RunReplay, RowOf, Versioned
        <5>2. Built(t) = Shadow(RowOf(calls[t].of).rules, runs[r].anchor)
          BY <1>4, <2>0, <3>1, <4>1 DEF RunReplay, RowOf, Built, At
        <5> QED
          BY <5>1, <5>2
      <4> QED
        BY <4>1
    <3>4. ReplayOf(r)'
      BY <2>0, <3>1, <3>3 DEF ReplayOf, Own, Versioned, RunOf
    <3> QED
      BY <1>3, <1>4, <3>2, <3>4
  <2>4. CASE BuildShadow(t) \/ InsertShadow(t) \/ LinkShadow(t) \/ CompleteRun(t)
               \/ AuditCompleted(t) \/ FailRun(t) \/ RecordFailure(t)
    <3>1. UNCHANGED results /\ ~At(t, "book")
      BY <2>4 DEF BuildShadow, InsertShadow, LinkShadow, CompleteRun, AuditCompleted, FailRun,
                  RecordFailure, At
    <3>2. CASE At(t, "anchor")
      <4>1. FailRun(t)
        BY <2>4, <3>2 DEF BuildShadow, InsertShadow, LinkShadow, CompleteRun, AuditCompleted,
                          RecordFailure, At
      <4>2. calls'[t].step = "fail" /\ runs' = runs
        BY <1>0, <2>0, <4>1, StepFields DEF FailRun
      <4> QED
        BY <1>3, <1>4, <2>0, <3>1, <4>2 DEF Own, RunReplay, ReplayOf, RunOf, Built, Versioned,
                                             Unreconciled
    <3>3. CASE ~At(t, "anchor")
      <4>1. /\ runs'[r].anchor = runs[r].anchor
            /\ runs'[r].of = runs[r].of
            /\ Doing(t, "run")' => Built(t)' = Built(t) /\ calls'[t].explicit = calls[t].explicit
        BY <1>4, <2>0, <3>1, <3>3, AnchorKept DEF Own, RunOf
      <4>2. ReplayOf(r)'
        BY <2>0, <3>1, <4>1 DEF ReplayOf, Own, Versioned, RunOf
      <4>3. Doing(t, "run")' =>
              /\ calls'[t].step \in Unreconciled => calls[t].step \in Unreconciled
              /\ calls'[t].step \notin {"book", "anchor", "fail"} =>
                   calls[t].step \notin {"book", "anchor", "fail"}
              /\ calls'[t].step \in {"insert", "link", "reconcile"} =>
                   calls[t].expected \in {None, Built(t)}
        <5>1. ASSUME Doing(t, "run")', BuildShadow(t), calls'[t].step = "insert"
              PROVE  calls[t].expected \in {None, Built(t)}
          BY <1>0, <2>0, <5>1, StepFields DEF BuildShadow
        <5>3. CASE BuildShadow(t)
          BY <1>4, <2>0, <5>1, <5>3, NextStep DEF BuildShadow, At, Unreconciled
        <5>4. CASE InsertShadow(t) \/ LinkShadow(t)
          BY <1>4, <2>0, <5>4, NextStep DEF InsertShadow, LinkShadow, At, RunReplay, Unreconciled
        <5>5. CASE CompleteRun(t) \/ AuditCompleted(t) \/ FailRun(t) \/ RecordFailure(t)
          BY <1>4, <2>0, <5>5, NextStep
             DEF CompleteRun, AuditCompleted, FailRun, RecordFailure, At, Unreconciled
        <5> QED
          BY <2>4, <5>3, <5>4, <5>5
      <4> QED
        BY <1>3, <1>4, <2>0, <3>1, <4>1, <4>2, <4>3 DEF Own, RunReplay, RunOf
    <3> QED
      BY <3>2, <3>3
  <2> QED
    BY <1>4, <2>1, <2>2, <2>3, <2>4 DEF Advance
<1>5. ASSUME NEW t \in Threads, Advance(t) PROVE ReplayInv'
  BY <1>4, <1>5, OwnStep, RunFacts DEF Own
<1> QED
  BY <1>1, <1>2, <1>5, StepKinds DEF RunProgress, Advance

LEMMA InitReplay == Init => ReplayInv
  BY DEF Init, ReplayInv, ReplayOf, Idle, Doing

\* What was reviewed is what is reconciled: no approval, day or crash between the
\* review and the end of its run gets another shadow past the fingerprint.
THEOREM ReviewBinds == Spec => []ReviewedIsRun
<1>1. ReplayInv => ReviewedIsRun
  BY DEF ReplayInv, RunReplay, ReviewedIsRun
<1> QED
  BY <1>1, InitTypeInv, TypeInvStep, InitReplay, ReplayStep, PTL DEF Spec

\* The replay of a run's version at its recorded anchor gives the shadow that the
\* run has reconciled, for as long as the run's row exists.
THEOREM ReplayIsFaithful == Spec => []ReplayReproduces
<1>1. ReplayInv => ReplayReproduces
  BY DEF ReplayInv, ReplayOf, ReplayReproduces
<1> QED
  BY <1>1, InitTypeInv, TypeInvStep, InitReplay, ReplayStep, PTL DEF Spec

------------------------------------------------------------------------------
(* How a run ends.                                                         *)

LEMMA CompletionStep == TypeInv /\ CompletionInv /\ [Next]_vars => CompletionInv'
<1> SUFFICES ASSUME TypeInv, CompletionInv, [Next]_vars PROVE CompletionInv'
  OBVIOUS
<1>0. TypeOK
  BY DEF TypeInv
<1> USE DEF scriptVars, shadowVars, outcomeVars, runVars
<1>1. CASE Quiet
  BY <1>1 DEF Quiet, CompletionInv, RunCompletion, CompletionOf, RunOf
<1>2. ASSUME NEW t \in Threads, Begun(t) PROVE CompletionInv'
  <2>1. PICK r, of, explicit, expected : r \in Runs /\ Begins(t, r, of, explicit, expected)
    BY <1>2 DEF Begun
  <2>2. /\ r \notin completedLog
        /\ UNCHANGED <<runs, results, completedLog>>
    BY <2>1 DEF Begins, FreeRun, CompletionInv, CompletionOf
  <2>3. RunCompletion(t)'
    BY <1>0, <2>1, <2>2, BeginsFields DEF RunCompletion, RunOf, At
  <2>4. \A u \in Threads \ {t} : Doing(u, "run")' => RunCompletion(u)'
    BY <1>0, <2>1, <2>2, BeginsFields DEF CompletionInv, RunCompletion, RunOf, Doing
  <2> QED
    BY <2>2, <2>3, <2>4 DEF CompletionInv, CompletionOf
<1>3. ASSUME NEW t \in Threads, Advance(t), NEW r \in Runs, r = RunOf(t),
             Doing(t, "run")' => RunCompletion(t)', CompletionOf(r)'
      PROVE  CompletionInv'
  <2>1. Own(t)
    BY <1>3, OwnStep
  <2>2. \A s \in Runs \ {r} : CompletionOf(s)'
    BY <1>3, <2>1 DEF Own, CompletionInv, CompletionOf
  <2>3. \A u \in Threads \ {t} : Doing(u, "run")' => RunCompletion(u)'
    BY <2>1, Others DEF Own, CompletionInv, RunCompletion, RunOf, Doing
  <2> QED
    BY <1>3, <2>2, <2>3 DEF CompletionInv
<1>4. ASSUME NEW t \in Threads, Advance(t), NEW r \in Runs, r = RunOf(t) PROVE CompletionInv'
  <2>0. /\ Own(t) /\ Doing(t, "run") /\ RunCompletion(t) /\ CompletionOf(r) /\ calls[t].run = r
        /\ runs'[r] \in RunRow /\ runs'[r] # None
        /\ ~At(t, "book") => runs[r] \in RunRow /\ runs[r] # None
        /\ Doing(t, "run")' => calls'[t].run = r
    BY <1>4, OwnStep, RowKept, RunFacts, NullAssumption DEF Own, CompletionInv, RunOf
  <2> USE DEF RunOf
  <2>1. CASE BookRun(t)
    <3>1. runs'[r].status = "running" /\ UNCHANGED <<results, completedLog>>
      BY <1>0, <1>4, <2>0, <2>1 DEF BookRun, TypeOK
    <3>2. r \notin completedLog
      BY <2>0, <2>1 DEF BookRun, RunCompletion, At
    <3>3. Doing(t, "run")' => calls'[t].step \in {"build", "anchor"}
      BY <1>4, <2>1, NextStep
    <3> QED
      BY <1>3, <1>4, <2>0, <3>1, <3>2, <3>3 DEF RunCompletion, CompletionOf
  <2>2. CASE ResolveRunAnchor(t)
    <3>1. /\ runs'[r].status = runs[r].status /\ runs'[r].shadow = runs[r].shadow
          /\ UNCHANGED <<results, completedLog>> /\ calls[t].step = "anchor"
      BY <1>0, <1>4, <2>0, <2>2 DEF ResolveRunAnchor, TypeOK, RunRow, At
    <3>2. Doing(t, "run")' => calls'[t].step = "build"
      BY <1>4, <2>2, NextStep
    <3> QED
      BY <1>3, <1>4, <2>0, <2>2, <3>1, <3>2 DEF RunCompletion, CompletionOf, ResolveRunAnchor, At
  <2>3. CASE BuildShadow(t) \/ InsertShadow(t)
    <3>1. UNCHANGED <<runs, results, completedLog>> /\ calls[t].step \in {"build", "insert"}
      BY <2>3 DEF BuildShadow, InsertShadow, At
    <3>2. Doing(t, "run")' => calls'[t].step \in {"insert", "link", "fail"}
      BY <1>4, <2>3, NextStep
    <3> QED
      BY <1>3, <1>4, <2>0, <3>1, <3>2 DEF RunCompletion, CompletionOf
  <2>4. CASE LinkShadow(t)
    <3>1. /\ runs'[r].status = runs[r].status /\ runs'[r].shadow
          /\ UNCHANGED <<results, completedLog>> /\ calls[t].step = "link"
      BY <1>0, <1>4, <2>0, <2>4 DEF LinkShadow, TypeOK, RunRow, At
    <3>2. Doing(t, "run")' => calls'[t].step = "reconcile"
      BY <1>4, <2>4, NextStep
    <3> QED
      BY <1>3, <1>4, <2>0, <2>4, <3>1, <3>2 DEF RunCompletion, CompletionOf, LinkShadow, At
  <2>5. CASE SaveResult(t)
    <3>1. results'[r] # None
      BY <1>0, <1>4, <2>0, <2>5, BuiltType, NullAssumption DEF SaveResult, TypeOK
    <3>2. UNCHANGED <<runs, completedLog>> /\ calls[t].step = "reconcile"
      BY <2>5 DEF SaveResult, At
    <3>3. Doing(t, "run")' => calls'[t].step = "complete"
      BY <1>4, <2>5, NextStep
    <3> QED
      BY <1>3, <1>4, <2>0, <3>1, <3>2, <3>3 DEF RunCompletion, CompletionOf
  <2>6. CASE CompleteRun(t)
    <3>1. /\ runs'[r].status = "completed" /\ runs'[r].shadow = runs[r].shadow
          /\ UNCHANGED <<results, completedLog>> /\ calls[t].step = "complete"
      BY <1>0, <1>4, <2>0, <2>6 DEF CompleteRun, TypeOK, RunRow, At
    <3>2. Doing(t, "run")' => calls'[t].step = "audit"
      BY <1>4, <2>6, NextStep
    <3> QED
      BY <1>3, <1>4, <2>0, <2>6, <3>1, <3>2 DEF RunCompletion, CompletionOf, CompleteRun, At
  <2>7. CASE AuditCompleted(t)
    <3>1. UNCHANGED <<runs, results>> /\ calls[t].step = "audit"
      BY <2>7 DEF AuditCompleted, At
    <3>2. Doing(t, "run")' => calls'[t].step = "store"
      BY <1>4, <2>7, NextStep
    <3> QED
      BY <1>3, <1>4, <2>0, <3>1, <3>2 DEF RunCompletion, CompletionOf
  <2>8. CASE FailRun(t)
    <3>1. UNCHANGED <<runs, results, completedLog>> /\ calls[t].step # "store"
      BY <2>8 DEF FailRun
    <3>2. Doing(t, "run")' => calls'[t].step = "fail"
      BY <1>4, <2>8, NextStep
    <3> QED
      BY <1>3, <1>4, <2>0, <3>1, <3>2 DEF RunCompletion, CompletionOf
  <2>9. CASE RecordFailure(t)
    <3>1. /\ runs'[r].status = "failed" /\ UNCHANGED <<results, completedLog>>
          /\ calls[t].step = "fail"
      BY <1>0, <1>4, <2>0, <2>9 DEF RecordFailure, TypeOK, RunRow, At
    <3>2. ~Doing(t, "run")'
      BY <1>4, <2>9, NextStep
    <3> QED
      BY <1>3, <1>4, <2>0, <3>1, <3>2 DEF RunCompletion, CompletionOf
  <2> QED
    BY <1>4, <2>1, <2>2, <2>3, <2>4, <2>5, <2>6, <2>7, <2>8, <2>9 DEF Advance
<1>5. ASSUME NEW t \in Threads, Advance(t) PROVE CompletionInv'
  BY <1>4, <1>5, OwnStep, RunFacts DEF Own
<1> QED
  BY <1>1, <1>2, <1>5, StepKinds DEF RunProgress, Advance

\* A run reported completed has its result and had its shadow, and what the audit
\* log calls completed is never turned into a failure.
THEOREM CompletionIsKept == Spec => []CompletionIsTrue
<1>1. Init => CompletionInv
  BY DEF Init, CompletionInv, CompletionOf, Idle, Doing
<1>2. CompletionInv => CompletionIsTrue
  BY DEF CompletionInv, CompletionOf, CompletionIsTrue
<1> QED
  BY <1>1, <1>2, InitTypeInv, TypeInvStep, CompletionStep, PTL DEF Spec

------------------------------------------------------------------------------
(* Shadows.                                                                *)

\* No day passes, no row changes, no payload goes, and no cleanup moves.
Untouched ==
  /\ UNCHANGED <<today, shadowRows>> /\ shadowFiles \subseteq shadowFiles'
  /\ \A t \in Threads : Doing(t, "cleanup")' => Doing(t, "cleanup") /\ calls'[t] = calls[t]

LEMMA BecomeUntouched ==
  ASSUME TypeOK, NEW t \in Threads, NEW c, c.op # "cleanup", Become(t, c),
         UNCHANGED <<today, shadowRows, shadowFiles>>
  PROVE  Untouched
  BY DEF TypeOK, Become, Untouched, Doing

LEMMA AdvanceUntouched ==
  ASSUME TypeInv, NEW t \in Threads, Advance(t), ~InsertShadow(t)
  PROVE  Untouched
<1>0. TypeOK /\ Own(t)
  BY OwnStep DEF TypeInv
<1>1. calls'[t].op # "cleanup"
  <2>1. CASE RecordFailure(t)
    BY <1>0, <2>1 DEF RecordFailure, Return, Become, Idle, TypeOK
  <2>2. CASE ResolveRunAnchor(t)
    BY <1>0, <2>2, RunFacts DEF ResolveRunAnchor, TypeOK, RunCall, Own
  <2>3. CASE ~RecordFailure(t) /\ ~ResolveRunAnchor(t)
    BY <1>0, <2>3, StepFields
       DEF Advance, BookRun, BuildShadow, InsertShadow, LinkShadow, SaveResult,
           CompleteRun, AuditCompleted, FailRun, Own, Doing
  <2> QED
    BY <2>1, <2>2, <2>3
<1>2. shadowRows' = shadowRows /\ shadowFiles \subseteq shadowFiles'
  BY DEF Advance, BookRun, ResolveRunAnchor, BuildShadow, LinkShadow, SaveResult, CompleteRun,
         AuditCompleted, FailRun, RecordFailure, shadowVars, outcomeVars, runVars
<1> QED
  BY <1>0, <1>1, <1>2 DEF Own, Untouched, Doing

\* Time, the three steps of a cleanup and the insert of a row are all there is.
LEMMA ShadowSteps ==
  TypeInv /\ [Next]_vars =>
    \/ Untouched \/ Tick
    \/ \E t \in Threads : StartCleanup(t) \/ Unlink(t) \/ CommitCleanup(t) \/ InsertShadow(t)
<1> SUFFICES ASSUME TypeInv, [Next]_vars, ~Tick,
                    \A t \in Threads : ~StartCleanup(t) /\ ~Unlink(t) /\ ~CommitCleanup(t)
                                         /\ ~InsertShadow(t)
             PROVE  Untouched
  OBVIOUS
<1>0. TypeOK /\ PreviewsExist
  BY DEF TypeInv
<1> USE DEF scriptVars, shadowVars, outcomeVars, runVars
<1>1. ASSUME NEW t \in Threads, Begun(t) PROVE Untouched
  BY <1>0, <1>1, BecomeUntouched DEF Begun, Begins
<1>2. ASSUME NEW t \in Threads, Advance(t) PROVE Untouched
  BY <1>2, AdvanceUntouched
<1>3. ASSUME NEW t \in Threads, NEW id, NEW rules, StartApprove(t, id, rules) PROVE Untouched
  BY <1>0, <1>3, BecomeUntouched DEF StartApprove
<1>4. ASSUME NEW t \in Threads, NEW id, NEW v, NEW explicit, NEW withTarget,
             ReviewShadow(t, id, v, explicit, withTarget)
      PROVE  Untouched
  BY <1>0, <1>4, BecomeUntouched DEF ReviewShadow
<1>5. ASSUME NEW t \in Threads, NEW p, StartApprovePreview(t, p) PROVE Untouched
  BY <1>0, <1>5, BecomeUntouched DEF StartApprovePreview
<1>6. ASSUME NEW t \in Threads, NEW p, NEW s, PreviewScript(t, p, s) PROVE Untouched
  BY <1>6 DEF PreviewScript, Untouched, Doing
<1>7. ASSUME NEW t \in Threads, NEW p, RejectPreview(t, p) PROVE Untouched
  BY <1>7 DEF RejectPreview, Untouched, Doing
<1>8. ASSUME NEW t \in Threads, FlushLibrary(t) PROVE Untouched
  BY <1>8 DEF FlushLibrary, Untouched, Doing
<1>9. ASSUME NEW t \in Threads, Request(t) PROVE Untouched
  BY <1>0, <1>1, <1>3, <1>4, <1>5, <1>6, <1>7, <1>8, <1>9, StartRunIsBegun,
     StartReviewedRunIsBegun, StartScriptRunIsBegun DEF Request
<1>10. ASSUME NEW t \in Threads, Return(t), UNCHANGED <<today, shadowRows, shadowFiles>>
       PROVE  Untouched
  BY <1>0, <1>10, BecomeUntouched DEF Return, Idle
<1>11. ASSUME NEW t \in Threads,
              SaveContract(t) \/ MarkApproved(t) \/ StoreBack(t) \/ Vanish(t)
       PROVE  Untouched
  BY <1>10, <1>11 DEF SaveContract, MarkApproved, StoreBack, Vanish
<1>12. ASSUME NEW t \in Threads, SaveApproval(t) PROVE Untouched
  BY <1>0, <1>12, CallKinds DEF SaveApproval, Step, Untouched, Doing, TypeOK, PreviewCall
<1>13. ASSUME NEW t \in Threads, Raise(t) PROVE Untouched
  BY <1>2, <1>10, <1>13 DEF Raise, Advance, FailRun
<1>14. ASSUME NEW t \in Threads, Work(t) PROVE Untouched
  BY <1>2, <1>11, <1>12, <1>13, <1>14 DEF Work, RunStep, Advance
<1>15. CASE UNCHANGED vars
  BY <1>15 DEF vars, Untouched, Doing
<1> QED
  BY <1>9, <1>14, <1>15 DEF Next

LEMMA CleanupFacts ==
  ASSUME TypeOK, NEW t \in Threads, Doing(t, "cleanup")
  PROVE  calls[t] \in CleanupCall /\ calls[t].expired \subseteq Runs
  BY CallKinds DEF TypeOK, Doing, CleanupCall

LEMMA ShadowStep == TypeInv /\ ShadowInv /\ [Next]_vars => ShadowInv'
<1> SUFFICES ASSUME TypeInv, ShadowInv, [Next]_vars PROVE ShadowInv'
  OBVIOUS
<1>0. TypeOK /\ TypeOK'
  BY TypeInvStep DEF TypeInv
<1> USE DEF scriptVars, shadowVars, outcomeVars, runVars
\* What an untouched store keeps.
<1>1. ASSUME Untouched
      PROVE  /\ \A r : Unused(r) => Unused(r)'
             /\ \A t \in Threads : Doing(t, "cleanup")' => CleanupOK(t)'
             /\ LiveShadowReadable'
  <2>1. \A r : Expired(r)' <=> Expired(r)
    BY <1>1 DEF Untouched, Expired
  <2> QED
    BY <1>1, <2>1 DEF Untouched, Unused, ShadowInv, CleanupOK, LiveShadowReadable
<1>2. CASE Untouched /\ Quiet
  <2>1. \A t \in Threads : Doing(t, "run")' => RunShadow(t)'
    BY <1>1, <1>2 DEF Untouched, Quiet, ShadowInv, RunShadow, RunOf
  <2> QED
    BY <1>1, <1>2, <2>1 DEF Quiet, ShadowInv
<1>3. ASSUME Untouched, NEW t \in Threads, Begun(t) PROVE ShadowInv'
  <2>1. PICK r, of, explicit, expected : r \in Runs /\ Begins(t, r, of, explicit, expected)
    BY <1>3 DEF Begun
  <2>2. Unused(r) /\ UNCHANGED <<runs, shadowFiles>>
    BY <2>1 DEF Begins, FreeRun, ShadowInv
  <2>3. \A u \in Threads : Doing(u, "run")' => RunShadow(u)'
    BY <1>0, <1>1, <1>3, <2>1, <2>2, BeginsFields DEF ShadowInv, RunShadow, RunOf, At, Doing
  <2> QED
    BY <1>1, <1>3, <2>2, <2>3 DEF ShadowInv
<1>4. ASSUME Untouched, NEW t \in Threads, Advance(t) PROVE ShadowInv'
  <2>1. Own(t) /\ Doing(t, "run") /\ RunShadow(t)
    BY <1>4, OwnStep DEF Own, ShadowInv
  <2>2. \A r \in Runs : runs'[r] = None => runs[r] = None
    BY <1>4, <2>1, RowKept, NullAssumption DEF Own
  <2>3. Doing(t, "run")' /\ calls'[t].step \in Early => calls[t].step \in Early
    BY <1>4, NextStep
       DEF Advance, BookRun, ResolveRunAnchor, BuildShadow, InsertShadow, LinkShadow, SaveResult,
           CompleteRun, AuditCompleted, FailRun, At, Early
  <2>4. Doing(t, "run")' /\ calls'[t].step = "insert" => calls[t].run \in shadowFiles'
    <3>1. ASSUME Doing(t, "run")', calls'[t].step = "insert" PROVE BuildShadow(t)
      BY <1>4, <3>1, NextStep DEF Advance
    <3>2. ASSUME BuildShadow(t), calls'[t].step = "insert" PROVE calls[t].run \in shadowFiles'
      BY <1>0, <2>1, <3>2, StepFields DEF BuildShadow, RunOf
    <3> QED
      BY <3>1, <3>2
  <2>5. \A u \in Threads : Doing(u, "run")' => RunShadow(u)'
    <3>1. Doing(t, "run")' => RunShadow(t)'
      BY <1>1, <1>4, <2>1, <2>3, <2>4 DEF Own, RunShadow, RunOf
    <3>2. \A u \in Threads \ {t} : Doing(u, "run")' => RunShadow(u)'
      BY <1>1, <1>4, <2>1 DEF Own, Untouched, ShadowInv, RunShadow, RunOf, Doing
    <3> QED
      BY <3>1, <3>2
  <2> QED
    BY <1>1, <1>4, <2>2, <2>5 DEF ShadowInv
<1>5. ASSUME NEW t \in Threads, InsertShadow(t) PROVE ShadowInv'
  <2>1. PICK r \in Runs : r = RunOf(t)
    BY <1>5, RunFacts DEF InsertShadow, At
  <2>2. Advance(t) /\ Own(t) /\ Doing(t, "run") /\ calls[t].run = r
    BY <1>5, <2>1, OwnStep DEF Advance, Own, RunOf
  <2>3. Unused(r) /\ r \in shadowFiles
    BY <1>5, <2>1, <2>2 DEF InsertShadow, At, ShadowInv, RunShadow, Early
  <2>4. /\ UNCHANGED <<today, runs, shadowFiles>>
        /\ \A s \in Runs \ {r} : shadowRows'[s] = shadowRows[s]
        /\ calls'[t].step = "link" /\ calls'[t].op = "run"
    BY <1>0, <1>5, <2>1, <2>2, StepFields DEF InsertShadow, TypeOK, Doing
  <2>5. \A s \in Runs \ {r} : (Unused(s) => Unused(s)') /\ (Expired(s)' <=> Expired(s))
    BY <2>2, <2>4 DEF Unused, Expired, Own, Doing
  <2>6. \A u \in Threads : Doing(u, "run")' => RunShadow(u)'
    <3>1. RunShadow(t)'
      BY <2>4 DEF RunShadow, Early
    <3>2. \A u \in Threads \ {t} : Doing(u, "run")' => RunShadow(u)'
      BY <2>1, <2>2, <2>4, <2>5, Others DEF Own, ShadowInv, RunShadow, RunOf, Doing
    <3> QED
      BY <3>1, <3>2
  <2>7. \A u \in Threads : Doing(u, "cleanup")' => CleanupOK(u)'
    <3>1. \A u \in Threads : Doing(u, "cleanup")' =>
            Doing(u, "cleanup") /\ calls'[u] = calls[u] /\ r \notin calls[u].expired
      BY <2>2, <2>3, <2>4 DEF Own, Unused, Doing
    <3> QED
      BY <1>0, <2>4, <2>5, <3>1, CleanupFacts DEF ShadowInv, CleanupOK
  <2>8. LiveShadowReadable'
    BY <2>3, <2>4, <2>5 DEF ShadowInv, LiveShadowReadable
  <2>9. runs[r] # None
    BY <1>5, <2>1, <2>2, RunFacts DEF InsertShadow, At
  <2> QED
    BY <2>4, <2>5, <2>6, <2>7, <2>8, <2>9 DEF ShadowInv
<1>6. CASE Tick
  <2>1. \A r \in Runs : Expired(r) => Expired(r)'
    BY <1>0, <1>6, DaysAssumption DEF Tick, Expired, TypeOK
  <2>2. UNCHANGED <<runs, shadowRows, shadowFiles, calls>>
    BY <1>6 DEF Tick
  <2>3. \A t \in Threads : Doing(t, "cleanup")' => CleanupOK(t)'
    BY <1>0, <2>1, <2>2, CleanupFacts DEF ShadowInv, CleanupOK, Doing
  <2> QED
    BY <2>1, <2>2, <2>3 DEF ShadowInv, RunShadow, Unused, LiveShadowReadable, RunOf, Doing
\* The steps of a cleanup leave the runs and the other threads alone.
<1>7. ASSUME NEW t \in Threads, \A u \in Threads \ {t} : calls'[u] = calls[u], ~Doing(t, "run")',
             UNCHANGED <<today, runs>>,
             \A r \in Runs : Unused(r) => Unused(r)' /\ (r \in shadowFiles => r \in shadowFiles'),
             \A u \in Threads : Doing(u, "cleanup")' => CleanupOK(u)', LiveShadowReadable'
      PROVE  ShadowInv'
  <2>1. \A u \in Threads : Doing(u, "run")' => RunShadow(u)'
    BY <1>7, RunFacts DEF ShadowInv, RunShadow, RunOf, Early, Doing
  <2> QED
    BY <1>7, <2>1 DEF ShadowInv
<1>8. ASSUME NEW t \in Threads, StartCleanup(t) PROVE ShadowInv'
  <2> DEFINE rows == {r \in Runs : Expired(r)}
  <2>1. /\ calls'[t] = [op |-> "cleanup", expired |-> rows, left |-> rows]
        /\ \A u \in Threads \ {t} : calls'[u] = calls[u]
        /\ UNCHANGED <<today, runs, shadowRows, shadowFiles>>
    BY <1>0, <1>8 DEF StartCleanup, Become, TypeOK
  <2>2. \A r : Expired(r)' <=> Expired(r)
    BY <2>1 DEF Expired
  <2>3. \A r \in Runs : Unused(r) => Unused(r)'
    BY <2>1 DEF Unused, Expired, Doing
  <2>4. \A u \in Threads : Doing(u, "cleanup")' => CleanupOK(u)'
    BY <2>1, <2>2 DEF ShadowInv, CleanupOK, Doing
  <2>5. LiveShadowReadable'
    BY <2>1, <2>2 DEF ShadowInv, LiveShadowReadable
  <2>6. ~Doing(t, "run")'
    BY <2>1 DEF Doing
  <2> QED
    BY <1>7, <2>1, <2>3, <2>4, <2>5, <2>6
<1>9. ASSUME NEW t \in Threads, Unlink(t) PROVE ShadowInv'
  <2>1. PICK r \in calls[t].left :
          /\ shadowFiles' = shadowFiles \ {r}
          /\ calls' = [calls EXCEPT ![t].left = @ \ {r}]
    BY <1>9 DEF Unlink
  <2>2. Doing(t, "cleanup") /\ CleanupOK(t) /\ UNCHANGED <<today, runs, shadowRows>>
    BY <1>9 DEF Unlink, ShadowInv
  <2>3. /\ calls'[t].op = "cleanup" /\ calls'[t].expired = calls[t].expired
        /\ calls'[t].left \subseteq calls[t].left
        /\ \A u \in Threads \ {t} : calls'[u] = calls[u]
    BY <1>0, <2>1, <2>2, CleanupFacts DEF TypeOK, CleanupCall, Doing
  <2>4. \A s : (Expired(s)' <=> Expired(s)) /\ (Unused(s) => Unused(s)')
    BY <2>2, <2>3 DEF Expired, Unused, Doing
  <2>5. r \in calls[t].expired /\ (shadowRows[r] = None \/ Expired(r)) /\ ~Unused(r)
    BY <2>2 DEF CleanupOK, Unused
  <2>6. \A u \in Threads : Doing(u, "cleanup")' => CleanupOK(u)'
    BY <2>2, <2>3, <2>4 DEF ShadowInv, CleanupOK, Doing
  <2>7. LiveShadowReadable'
    BY <2>1, <2>2, <2>4, <2>5 DEF ShadowInv, LiveShadowReadable
  <2>8. \A s \in Runs : Unused(s) => (s \in shadowFiles => s \in shadowFiles')
    BY <2>1, <2>5
  <2> QED
    BY <1>7, <2>2, <2>3, <2>4, <2>6, <2>7, <2>8 DEF Doing
<1>10. ASSUME NEW t \in Threads, CommitCleanup(t) PROVE ShadowInv'
  <2>1. /\ shadowRows' = [r \in Runs |-> IF r \in calls[t].expired THEN None ELSE shadowRows[r]]
        /\ UNCHANGED <<today, runs, shadowFiles>>
    BY <1>10 DEF CommitCleanup
  <2>2. calls'[t] = Idle /\ \A u \in Threads \ {t} : calls'[u] = calls[u]
    BY <1>0, <1>10 DEF CommitCleanup, Return, Become, TypeOK
  <2>3. \A r \in Runs : shadowRows'[r] = None \/ shadowRows'[r] = shadowRows[r]
    BY <2>1
  <2>4. \A r \in Runs : Unused(r) => Unused(r)'
    BY <2>2, <2>3 DEF Unused, Doing, Idle
  <2>5. \A u \in Threads : Doing(u, "cleanup")' => CleanupOK(u)'
    BY <1>0, <2>1, <2>2, <2>3, CleanupFacts DEF ShadowInv, CleanupOK, Expired, Doing, Idle
  <2>6. LiveShadowReadable'
    BY <2>1, <2>3 DEF ShadowInv, LiveShadowReadable, Expired
  <2>7. ~Doing(t, "run")'
    BY <2>2 DEF Doing, Idle
  <2> QED
    BY <1>7, <2>1, <2>2, <2>4, <2>5, <2>6, <2>7
<1>11. Untouched => ShadowInv'
  BY <1>2, <1>3, <1>4, StepKinds DEF RunProgress, Advance
<1> QED
  BY <1>5, <1>6, <1>8, <1>9, <1>10, <1>11, ShadowSteps

\* A shadow that is not over has its payload, whatever cleanups, crashes and runs
\* do to others meanwhile.
THEOREM ShadowsAreKept == Spec => []LiveShadowReadable
<1>1. Init => ShadowInv
  BY DEF Init, ShadowInv, LiveShadowReadable, Unused, Idle, Doing
<1>2. ShadowInv => LiveShadowReadable
  BY DEF ShadowInv
<1> QED
  BY <1>1, <1>2, InitTypeInv, TypeInvStep, ShadowStep, PTL DEF Spec
=============================================================================
