------------------------------- MODULE AutoRun -------------------------------
(***************************************************************************)
(* One Auto-mode reconciliation run: its rows in the store, the worker     *)
(* threads that stream the seven-node graph, the event loop that serves    *)
(* the start / resolve / retry / suspend / resume / cancel requests, the   *)
(* threadpool request that deletes a stored run, the expiry watchdog, and  *)
(* the process that may stop at any point and sweep orphans when it boots. *)
(*                                                                         *)
(* Every table is keyed by graph_run_id, so one run is modelled.  A step   *)
(* is one database transaction (or one file append); everything the code   *)
(* does between two of them is local to its thread.                        *)
(***************************************************************************)
EXTENDS RunStates, Integers

CONSTANTS
  Threads,      \* worker threads (asyncio.to_thread)
  Deleters,     \* concurrent DELETE requests (FastAPI's threadpool)
  NumBatches,   \* date batches in the plan
  EmptyBatches, \* batches for which both sides return no rows
  MaxFaults,    \* bound: exceptions raised by connectors, LLMs, files, sqlite
  MaxRestarts   \* bound: process deaths

ASSUME NumBatchesAssumption == NumBatches \in Nat \ {0}

Batches == 0 .. NumBatches - 1

ASSUME EmptyBatchesAssumption == EmptyBatches \subseteq Batches

VARIABLES
  \* pipeline_runs
  status, failedStep, interrupt,
  \* run_batch_plan, run_batch_checkpoint (0: no row; n: next_batch_index)
  plan, checkpoint,
  \* the streaming result: appended detail rows, merged summaries, summed
  \* value-mapping counts (how often per batch), completed batch attempts
  rows, summary, mapped, logged,
  \* runs, pipeline_run_suspensions
  booked, suspension,
  \* value_pair_library: this run's provisional and promoted pairs, by the
  \* batch that discovered them
  provisional, promoted,
  \* worker threads
  pc, node, batch, outcome,
  \* the event loop and its request; DELETE requests and the watchdog
  loop, request, discarder,
  \* bounds
  faults, restarts

runRow     == <<failedStep, interrupt>>
batchState == <<plan, checkpoint>>
results    == <<rows, summary, mapped, logged, booked>>
pairs      == <<provisional, promoted>>
threadVars == <<pc, node, batch, outcome>>
actorVars  == <<loop, request, discarder>>
bounds     == <<faults, restarts>>
store      == <<runRow, batchState, results, pairs, suspension>>
vars == <<status, store, threadVars, actorVars, bounds>>

------------------------------------------------------------------------------
(* The graph's nodes, in _NODE_ORDER, and the node that follows each.      *)

NodeName ==
  { "select_source", "select_target", "resolve_schema", "compile_contract",
    "plan_date_batches", "run_batches", "finalize" }

NextNode ==
  [ select_source     |-> "select_target",
    select_target     |-> "resolve_schema",
    resolve_schema    |-> "compile_contract",
    compile_contract  |-> "plan_date_batches",
    plan_date_batches |-> "run_batches",
    run_batches       |-> "finalize",
    finalize          |-> "end" ]

\* No value in a nullable column, and no outcome yet.
Null == "null"

\* How a stream ended, as _finish reads it; "error" is _fail_hard's path.
Outcome ==
  {Null, "paused", "completed", "cancelled", "suspended", "failed", "error"}

\* The status _finish or _fail_hard asks the registry for.
TargetOf(o) ==
  CASE o = "paused"    -> "waiting_for_input"
    [] o = "completed" -> "completed"
    [] o = "cancelled" -> "cancelled"
    [] o = "suspended" -> "suspended"
    [] OTHER           -> "failed"

\* Where a thread stands inside run_batches: set-up, then one batch.
BatchSteps ==
  {"gate", "fetch", "pair", "map", "append", "tally", "save", "skip", "log"}
FinalizeSteps == {"book", "load", "unplan"}
NodeSteps ==
  {"check", "body", "setup", "open", "report"} \union BatchSteps
    \union FinalizeSteps

\* After the stream: the transition, then what _finish does once it is made.
FinishSteps == {"finish", "settle"}
TailSteps == {"wipe", "discard", "forget", "promote", "progress"}

Steps == NodeSteps \union FinishSteps \union TailSteps \union {"idle"}

\* A thread that streams the graph or is about to settle its outcome.
DrivingSteps == NodeSteps \union FinishSteps
Driving(t) == pc[t] \in DrivingSteps

Requests == {"start", "resolve", "retry", "resume", "cancel", "suspend", "park"}

\* The status each request asks the registry for.
RequestTarget(r) ==
  CASE r = "cancel"  -> "cancelling"
    [] r = "suspend" -> "suspending"
    [] r = "park"    -> "suspended"
    [] OTHER         -> "running"

\* DELETE requests and the expiry watchdog discard a run in the same steps.
Discarders == Deleters \union {"watchdog"}
DiscardSteps ==
  {"suspended", "ended", "check", "write", "wipe", "discard", "forget"}

TypeOK ==
  /\ status \in RunState \union {NoRow}
  /\ failedStep \in NodeName \union {Null}
  /\ interrupt \in BOOLEAN
  /\ plan \in BOOLEAN
  /\ checkpoint \in 0 .. NumBatches
  /\ rows \in [Batches -> Nat]
  /\ summary \in [Batches -> Nat]
  /\ mapped \in [Batches -> Nat]
  /\ logged \subseteq Batches
  /\ booked \in BOOLEAN
  /\ suspension \in BOOLEAN
  /\ provisional \subseteq Batches
  /\ promoted \subseteq Batches
  /\ pc \in [Threads -> Steps]
  /\ node \in [Threads -> NodeName]
  /\ batch \in [Threads -> 0 .. NumBatches]
  /\ outcome \in [Threads -> Outcome]
  /\ loop \in {"idle", "check", "write", "spawn", "record"}
  /\ request \in Requests \union {Null}
  /\ discarder \in [Discarders -> DiscardSteps \union {"idle"}]
  /\ faults \in Nat
  /\ restarts \in Nat

Init ==
  /\ status = NoRow
  /\ failedStep = Null
  /\ interrupt = FALSE
  /\ plan = FALSE
  /\ checkpoint = 0
  /\ rows = [b \in Batches |-> 0]
  /\ summary = [b \in Batches |-> 0]
  /\ mapped = [b \in Batches |-> 0]
  /\ logged = {}
  /\ booked = FALSE
  /\ suspension = FALSE
  /\ provisional = {}
  /\ promoted = {}
  /\ pc = [t \in Threads |-> "idle"]
  /\ node = [t \in Threads |-> "select_source"]
  /\ batch = [t \in Threads |-> 0]
  /\ outcome = [t \in Threads |-> Null]
  /\ loop = "idle"
  /\ request = Null
  /\ discarder = [d \in Discarders |-> "idle"]
  /\ faults = 0
  /\ restarts = 0

------------------------------------------------------------------------------
(* Effects shared by several actors, one per store function.               *)

\* pipeline_run_store.update_progress: an omitted column becomes NULL.
UpdateProgress(step, question) == failedStep' = step /\ interrupt' = question

\* pipeline_run_store.clear_run_batch_state.
ClearBatchState == plan' = FALSE /\ checkpoint' = 0

\* value_pair_store.discard_run and promote_run.
DiscardPairs == provisional' = {} /\ UNCHANGED promoted
PromotePairs == promoted' = promoted \union provisional /\ provisional' = {}

Step(t, from, to) == pc[t] = from /\ pc' = [pc EXCEPT ![t] = to]

\* The thread returns to the pool; its local state is gone.
Retire(t) ==
  /\ pc' = [pc EXCEPT ![t] = "idle"]
  /\ node' = [node EXCEPT ![t] = "select_source"]
  /\ batch' = [batch EXCEPT ![t] = 0]
  /\ outcome' = [outcome EXCEPT ![t] = Null]

------------------------------------------------------------------------------
(* The worker thread: _run_step around each node.                          *)

\* Mutant: no cancellation check at the top of a node.
CheckNodeBlind(t) ==
  /\ pc[t] = "check"
  /\ pc' = [pc EXCEPT ![t] = CASE node[t] = "run_batches" -> "setup"
                               [] node[t] = "finalize" -> "book"
                               [] OTHER -> "body"]
  /\ UNCHANGED <<status, store, node, batch, outcome, actorVars, bounds>>

\* The cooperative-cancellation check before a node does any work.  Nothing
\* looks for a suspend request here.
CheckNode(t) ==
  /\ pc[t] = "check"
  /\ IF status = "cancelling"
     THEN /\ outcome' = [outcome EXCEPT ![t] = "cancelled"]
          /\ pc' = [pc EXCEPT ![t] = "report"]
     ELSE /\ pc' = [pc EXCEPT ![t] = CASE node[t] = "run_batches" -> "setup"
                                       [] node[t] = "finalize" -> "book"
                                       [] OTHER -> "body"]
          /\ UNCHANGED outcome
  /\ UNCHANGED <<status, store, node, batch, actorVars, bounds>>

\* The five nodes before run_batches; plan_date_batches saves the plan.
RunNode(t) ==
  /\ Step(t, "body", "report")
  /\ plan' = (plan \/ node[t] = "plan_date_batches")
  /\ UNCHANGED <<status, runRow, checkpoint, results, pairs, suspension, node,
                 batch, outcome, actorVars, bounds>>

\* resolve_schema cannot tell: interrupt() checkpoints the graph and the
\* stream ends with a pending question.
PauseNode(t) ==
  /\ node[t] = "resolve_schema"
  /\ Step(t, "body", "finish")
  /\ outcome' = [outcome EXCEPT ![t] = "paused"]
  /\ UNCHANGED <<status, store, node, batch, actorVars, bounds>>

\* Any exception inside a node: _run_step turns it into a failed update.
FailNode(t) ==
  /\ outcome' = [outcome EXCEPT ![t] = "failed"]
  /\ pc' = [pc EXCEPT ![t] = "report"]
  /\ UNCHANGED <<status, store, node, batch, actorVars>>

NodeFault(t) ==
  /\ faults < MaxFaults
  /\ pc[t] \in NodeSteps \ {"check", "report"}
  /\ FailNode(t)
  /\ faults' = faults + 1
  /\ UNCHANGED restarts

\* Mutant: the per-node callback writes the failure into the status as well.
ReportStepSetsStatus(t) ==
  /\ pc[t] = "report"
  /\ UpdateProgress(IF outcome[t] = "failed" THEN node[t] ELSE Null, FALSE)
  /\ status' = IF outcome[t] = "failed" THEN "failed" ELSE status
  /\ IF outcome[t] = Null
     THEN /\ pc' = [pc EXCEPT ![t] = "check"]
          /\ node' = [node EXCEPT ![t] = NextNode[node[t]]]
     ELSE /\ pc' = [pc EXCEPT ![t] = "finish"]
          /\ UNCHANGED node
  /\ UNCHANGED <<batchState, results, pairs, suspension, batch, outcome,
                 actorVars, bounds>>

\* _on_step after every node; the router then takes the next node or END.
ReportStep(t) ==
  /\ pc[t] = "report"
  /\ UpdateProgress(IF outcome[t] = "failed" THEN node[t] ELSE Null, FALSE)
  /\ IF outcome[t] = Null
     THEN /\ pc' = [pc EXCEPT ![t] = "check"]
          /\ node' = [node EXCEPT ![t] = NextNode[node[t]]]
     ELSE /\ pc' = [pc EXCEPT ![t] = "finish"]
          /\ UNCHANGED node
  /\ UNCHANGED <<status, batchState, results, pairs, suspension, batch,
                 outcome, actorVars, bounds>>

\* An exception outside any node body (the cancellation check, _on_step)
\* ends the stream: _fail_hard takes over.
GraphFault(t) ==
  /\ faults < MaxFaults
  /\ pc[t] \in {"check", "report"}
  /\ pc' = [pc EXCEPT ![t] = "finish"]
  /\ outcome' = [outcome EXCEPT ![t] = "error"]
  /\ faults' = faults + 1
  /\ UNCHANGED <<status, store, node, batch, actorVars, restarts>>

------------------------------------------------------------------------------
(* run_batches: the streaming loop over the plan.                          *)

\* No plan: the node fails.
ReadPlan(t) ==
  /\ pc[t] = "setup"
  /\ UNCHANGED bounds
  /\ \/ /\ plan
        /\ pc' = [pc EXCEPT ![t] = "open"]
        /\ UNCHANGED <<status, store, node, batch, outcome, actorVars>>
     \/ ~plan /\ FailNode(t)

\* Mutant: a resumed loop starts again at batch 0 of the same result.
ReopenFromZero(t) ==
  /\ Step(t, "open", "gate")
  /\ batch' = [batch EXCEPT ![t] = 0]
  /\ UNCHANGED <<status, store, node, outcome, actorVars, bounds>>

\* Mutant: a resumed loop starts a new result at the checkpointed batch.
ReopenEmpty(t) ==
  /\ Step(t, "open", "gate")
  /\ batch' = [batch EXCEPT ![t] = checkpoint]
  /\ rows' = [b \in Batches |-> 0]
  /\ summary' = [b \in Batches |-> 0]
  /\ UNCHANGED <<status, runRow, batchState, mapped, logged, booked, pairs,
                 suspension, node, outcome, actorVars, bounds>>

\* Continue the checkpointed result, or start a new one from batch 0.
OpenResult(t) ==
  /\ Step(t, "open", "gate")
  /\ batch' = [batch EXCEPT ![t] = checkpoint]
  /\ IF checkpoint > 0
     THEN UNCHANGED <<rows, summary>>
     ELSE /\ rows' = [b \in Batches |-> 0]
          /\ summary' = [b \in Batches |-> 0]
  /\ UNCHANGED <<status, runRow, batchState, mapped, logged, booked, pairs,
                 suspension, node, outcome, actorVars, bounds>>

\* Mutant: the gate looks for a cancel only.
PassGateCancelOnly(t) ==
  /\ pc[t] = "gate"
  /\ pc' = [pc EXCEPT ![t] =
       IF batch[t] < NumBatches /\ status # "cancelling" THEN "fetch" ELSE "report"]
  /\ outcome' = [outcome EXCEPT ![t] =
       IF batch[t] < NumBatches /\ status = "cancelling" THEN "cancelled" ELSE @]
  /\ UNCHANGED <<status, store, node, batch, actorVars, bounds>>

\* Between two batches: stop if asked to (a cancel wins), else take the next
\* one; past the last one the node is done.
PassGate(t) ==
  /\ pc[t] = "gate"
  /\ \/ /\ batch[t] = NumBatches
        /\ pc' = [pc EXCEPT ![t] = "report"]
        /\ UNCHANGED outcome
     \/ /\ batch[t] < NumBatches
        /\ status \in {"cancelling", "suspending"}
        /\ outcome' = [outcome EXCEPT ![t] =
                         IF status = "cancelling" THEN "cancelled" ELSE "suspended"]
        /\ pc' = [pc EXCEPT ![t] = "report"]
     \/ /\ batch[t] < NumBatches
        /\ status \notin {"cancelling", "suspending"}
        /\ pc' = [pc EXCEPT ![t] = "fetch"]
        /\ UNCHANGED outcome
  /\ UNCHANGED <<status, store, node, batch, actorVars, bounds>>

Fetch(t) ==
  /\ Step(t, "fetch", IF batch[t] \in EmptyBatches THEN "skip" ELSE "pair")
  /\ UNCHANGED <<status, store, node, batch, outcome, actorVars, bounds>>

\* _pair_field_for_batch, twice: new pairs enter the library as provisional.
PairValues(t) ==
  /\ Step(t, "pair", "map")
  /\ provisional' = provisional \union ({batch[t]} \ promoted)
  /\ UNCHANGED <<status, runRow, batchState, results, promoted, suspension,
                 node, batch, outcome, actorVars, bounds>>

\* Mutant: the checkpoint is saved before the batch's rows are appended.
CheckpointBeforeAppend(t) ==
  /\ Step(t, "map", "append")
  /\ mapped' = [mapped EXCEPT ![batch[t]] = @ + 1]
  /\ checkpoint' = batch[t] + 1
  /\ UNCHANGED <<status, runRow, plan, rows, summary, logged, booked, pairs,
                 suspension, node, batch, outcome, actorVars, bounds>>

\* record_batch_mapping, twice: row counts are added to the prior ones.
RecordMapping(t) ==
  /\ Step(t, "map", "append")
  /\ mapped' = [mapped EXCEPT ![batch[t]] = @ + 1]
  /\ UNCHANGED <<status, runRow, batchState, rows, summary, logged, booked,
                 pairs, suspension, node, batch, outcome, actorVars, bounds>>

\* append_batch_result: first the detail file, then the summary row.
AppendRows(t) ==
  /\ Step(t, "append", "tally")
  /\ rows' = [rows EXCEPT ![batch[t]] = @ + 1]
  /\ UNCHANGED <<status, runRow, batchState, summary, mapped, logged, booked,
                 pairs, suspension, node, batch, outcome, actorVars, bounds>>

MergeSummary(t) ==
  /\ Step(t, "tally", "save")
  /\ summary' = [summary EXCEPT ![batch[t]] = @ + 1]
  /\ UNCHANGED <<status, runRow, batchState, rows, mapped, logged, booked,
                 pairs, suspension, node, batch, outcome, actorVars, bounds>>

\* save_run_batch_checkpoint, on the empty path and on the full one.
SaveCheckpoint(t) ==
  /\ pc[t] \in {"skip", "save"}
  /\ pc' = [pc EXCEPT ![t] = "log"]
  /\ checkpoint' = batch[t] + 1
  /\ UNCHANGED <<status, runRow, plan, results, pairs, suspension, node,
                 batch, outcome, actorVars, bounds>>

\* Mutant: the loop does not move to the next batch.
LogAttemptSameBatch(t) ==
  /\ Step(t, "log", "gate")
  /\ logged' = logged \union {batch[t]}
  /\ UNCHANGED <<status, runRow, batchState, rows, summary, mapped, booked,
                 pairs, suspension, node, batch, outcome, actorVars, bounds>>

\* record_batch_attempt(status="completed").
LogAttempt(t) ==
  /\ Step(t, "log", "gate")
  /\ logged' = logged \union {batch[t]}
  /\ batch' = [batch EXCEPT ![t] = @ + 1]
  /\ UNCHANGED <<status, runRow, batchState, rows, summary, mapped, booked,
                 pairs, suspension, node, outcome, actorVars, bounds>>

------------------------------------------------------------------------------
(* finalize.                                                               *)

\* run_store.save_run is a plain INSERT: a second row for this run_id fails.
BookRun(t) ==
  /\ pc[t] = "book"
  /\ UNCHANGED bounds
  /\ \/ /\ ~booked
        /\ booked' = TRUE
        /\ pc' = [pc EXCEPT ![t] = "load"]
        /\ UNCHANGED <<status, runRow, batchState, rows, summary, mapped,
                       logged, pairs, suspension, node, batch, outcome,
                       actorVars>>
     \/ booked /\ FailNode(t)

\* load_result_frame_jsonl; a damaged file is a NodeFault here.
LoadDetail(t) ==
  /\ Step(t, "load", "unplan")
  /\ UNCHANGED <<status, store, node, batch, outcome, actorVars, bounds>>

\* Only now are the plan and the checkpoint dropped.
ClearPlan(t) ==
  /\ Step(t, "unplan", "report")
  /\ ClearBatchState
  /\ outcome' = [outcome EXCEPT ![t] = "completed"]
  /\ UNCHANGED <<status, runRow, results, pairs, suspension, node, batch,
                 actorVars, bounds>>

\* corroboration_store.clear follows and raises: the node fails without a plan
\* to retry from.
EvidenceFault(t) ==
  /\ faults < MaxFaults
  /\ Step(t, "unplan", "report")
  /\ ClearBatchState
  /\ outcome' = [outcome EXCEPT ![t] = "failed"]
  /\ faults' = faults + 1
  /\ UNCHANGED <<status, runRow, results, pairs, suspension, node, batch,
                 actorVars, restarts>>

------------------------------------------------------------------------------
(* _finish and _fail_hard: the one place a stream's outcome becomes status. *)

\* Mutant: the outcome is written without asking whether the edge is legal.
CheckOutcomeAny(t) ==
  /\ Step(t, "finish", "settle")
  /\ UNCHANGED <<status, store, node, batch, outcome, actorVars, bounds>>

\* The read half of the transition.  An illegal edge raises, and nothing
\* above _finish catches it: the thread ends and the status stays.
CheckOutcome(t) ==
  /\ pc[t] = "finish"
  /\ IF Legal(status, TargetOf(outcome[t]))
     THEN /\ pc' = [pc EXCEPT ![t] = "settle"]
          /\ UNCHANGED <<node, batch, outcome>>
     ELSE Retire(t)
  /\ UNCHANGED <<status, store, actorVars, bounds>>

\* Mutant: every outcome but a cancel promotes the run's pairings.
SettleAndPromote(t) ==
  /\ pc[t] = "settle"
  /\ status' = TargetOf(outcome[t])
  /\ pc' = [pc EXCEPT ![t] = IF outcome[t] = "cancelled" THEN "wipe" ELSE "promote"]
  /\ UNCHANGED <<store, node, batch, outcome, actorVars, bounds>>

\* The write half.
SettleOutcome(t) ==
  /\ pc[t] = "settle"
  /\ status' = TargetOf(outcome[t])
  /\ pc' = [pc EXCEPT ![t] = CASE outcome[t] = "cancelled" -> "wipe"
                                [] outcome[t] = "completed" -> "promote"
                                [] OTHER -> "progress"]
  /\ UNCHANGED <<store, node, batch, outcome, actorVars, bounds>>

\* CANCELLED: cleanup_run_artifacts, three transactions.
WipeCancelled(t) ==
  /\ Step(t, "wipe", "discard")
  /\ ClearBatchState
  /\ UNCHANGED <<status, runRow, results, pairs, suspension, node, batch,
                 outcome, actorVars, bounds>>

DiscardCancelled(t) ==
  /\ Step(t, "discard", "forget")
  /\ DiscardPairs
  /\ UNCHANGED <<status, runRow, batchState, results, suspension, node, batch,
                 outcome, actorVars, bounds>>

ForgetCancelled(t) ==
  /\ Step(t, "forget", "progress")
  /\ suspension' = FALSE
  /\ UNCHANGED <<status, runRow, batchState, results, pairs, node, batch,
                 outcome, actorVars, bounds>>

\* COMPLETED: promote_run.
PromoteCompleted(t) ==
  /\ Step(t, "promote", "progress")
  /\ PromotePairs
  /\ UNCHANGED <<status, runRow, batchState, results, suspension, node, batch,
                 outcome, actorVars, bounds>>

\* The last write of a stream; the thread then returns to the pool.
RecordOutcome(t) ==
  /\ pc[t] = "progress"
  /\ Retire(t)
  /\ UpdateProgress(IF outcome[t] = "failed" THEN node[t] ELSE Null,
                    outcome[t] = "paused")
  /\ UNCHANGED <<status, batchState, results, pairs, suspension, actorVars,
                 bounds>>

\* An exception inside _finish ends the thread where it stands.
FinishFault(t) ==
  /\ faults < MaxFaults
  /\ pc[t] \in FinishSteps \union TailSteps
  /\ Retire(t)
  /\ faults' = faults + 1
  /\ UNCHANGED <<status, store, actorVars, restarts>>

------------------------------------------------------------------------------
(* The event loop: one request handler at a time, none of which awaits      *)
(* between its guard and its last write, so handlers exclude each other but *)
(* not the worker threads, the DELETE requests or the watchdog.             *)

\* _has_resumable_checkpoint.
Resumable == failedStep \in {"run_batches", "finalize"} /\ checkpoint > 0

\* The requests that hand the run to a worker thread.
Spawning == {"start", "resolve", "retry", "resume"}

EndRequest == loop' = "idle" /\ request' = Null
ContinueRequest(at) == loop' = at /\ UNCHANGED request

\* start_auto_run_state inserts the row ...
CreateRun ==
  /\ loop = "idle"
  /\ status = NoRow
  /\ status' = "created"
  /\ request' = "start"
  /\ loop' = "check"
  /\ UNCHANGED <<store, threadVars, discarder, bounds>>

\* ... and then asks for RUNNING.  Nobody else knows the run yet, so the edge
\* is still legal.
CheckStart ==
  /\ loop = "check"
  /\ Legal(status, RequestTarget(request))
  /\ ContinueRequest("write")
  /\ UNCHANGED <<status, store, threadVars, discarder, bounds>>

\* What a route or a chat intent requires before it asks for a transition.
\* trigger_suspend takes its park path for a failed run.
Admissible(r) ==
  \/ r = "resolve" /\ status = "waiting_for_input"
  \/ r = "retry"   /\ status = "failed" /\ Resumable
  \/ r = "resume"  /\ status = "suspended"
  \/ r = "park"    /\ status = "failed" /\ Resumable
  \/ r = "suspend" /\ status # "failed"
  \/ r = "cancel"

\* The handler's guard and the read half of its transition.  No other actor
\* can turn a status that passes the guard into a different one from which
\* the target is still legal, so the two reads are one step.
AcceptRequest(r) ==
  /\ loop = "idle"
  /\ Admissible(r)
  /\ Legal(status, RequestTarget(r))
  /\ request' = r
  /\ loop' = "write"
  /\ UNCHANGED <<status, store, threadVars, discarder, bounds>>

\* Mutant: a resume changes the status but starts no task.
WriteRequestNoTask ==
  /\ loop = "write"
  /\ status' = RequestTarget(request)
  /\ \/ request \in {"cancel", "resume"} /\ EndRequest
     \/ request \in {"suspend", "park"} /\ ContinueRequest("record")
     \/ request \in Spawning \ {"resume"} /\ ContinueRequest("spawn")
  /\ UNCHANGED <<store, threadVars, discarder, bounds>>

\* The write half.
WriteRequest ==
  /\ loop = "write"
  /\ status' = RequestTarget(request)
  /\ \/ request = "cancel" /\ EndRequest
     \/ request \in {"suspend", "park"} /\ ContinueRequest("record")
     \/ request \in Spawning /\ ContinueRequest("spawn")
  /\ UNCHANGED <<store, threadVars, discarder, bounds>>

\* trigger_suspend's save_suspension.
RecordSuspension ==
  /\ loop = "record"
  /\ suspension' = TRUE
  /\ EndRequest
  /\ UNCHANGED <<status, runRow, batchState, results, pairs, threadVars,
                 discarder, bounds>>

\* update_progress(interrupt=None) and create_task(to_thread(...)); a start
\* only creates the task.  The stream begins at START, at the interrupted
\* node, or at the successor of plan_date_batches.
SpawnThread(t) ==
  /\ loop = "spawn"
  /\ pc[t] = "idle"
  /\ IF request = "start" THEN UNCHANGED runRow ELSE UpdateProgress(Null, FALSE)
  /\ pc' = [pc EXCEPT ![t] = "check"]
  /\ node' = [node EXCEPT ![t] = CASE request = "start" -> "select_source"
                                    [] request = "resolve" -> "resolve_schema"
                                    [] OTHER -> "run_batches"]
  /\ EndRequest
  /\ UNCHANGED <<status, batchState, results, pairs, suspension, batch, outcome,
                 discarder, bounds>>

\* An exception ends the handler where it stands, also after the status was
\* written: a resumed run may so be RUNNING without a task, a parked one be
\* SUSPENDED without its row.
RequestFault ==
  /\ faults < MaxFaults
  /\ loop # "idle"
  /\ EndRequest
  /\ faults' = faults + 1
  /\ UNCHANGED <<status, store, threadVars, discarder, restarts>>

------------------------------------------------------------------------------
(* Discarding a stored run: DELETE /{id} in FastAPI's threadpool, and the   *)
(* watchdog's _sweep_expired_suspensions in a worker thread.                *)

DiscardStep(d, from, to) ==
  /\ discarder[d] = from
  /\ discarder' = [discarder EXCEPT ![d] = to]
  /\ UNCHANGED <<threadVars, loop, request>>

\* delete_stored_run reads the run, which must not be active ...
RequestDelete(d) ==
  /\ d \in Deleters
  /\ status \notin ActiveStates \union {NoRow}
  /\ DiscardStep(d, "idle", IF status = "suspended" THEN "suspended" ELSE "ended")
  /\ UNCHANGED <<status, store, bounds>>

\* ... and then its suspension row: without one it is no Stored Runs entry.
\* Only a run that was read as suspended is cancelled before it is wiped.
FindSuspension(d) ==
  /\ \/ suspension /\ DiscardStep(d, "suspended", "check")
     \/ suspension /\ DiscardStep(d, "ended", "wipe")
     \/ ~suspension /\ \E seen \in {"suspended", "ended"} : DiscardStep(d, seen, "idle")
  /\ UNCHANGED <<status, store, bounds>>

\* list_expired_suspensions: the 30 days may have passed for any of them.
ListExpired ==
  /\ suspension
  /\ status = "suspended"
  /\ DiscardStep("watchdog", "idle", "check")
  /\ UNCHANGED <<status, store, bounds>>

\* The read half of the transition to CANCELLED; an illegal edge stops here.
CheckDiscard(d) ==
  /\ DiscardStep(d, "check",
                 IF Legal(status, "cancelled") THEN "write" ELSE "idle")
  /\ UNCHANGED <<status, store, bounds>>

\* The write half.
WriteDiscard(d) ==
  /\ DiscardStep(d, "write", "wipe")
  /\ status' = "cancelled"
  /\ UNCHANGED <<store, bounds>>

\* cleanup_run_artifacts: three transactions.
WipeDiscarded(d) ==
  /\ DiscardStep(d, "wipe", "discard")
  /\ ClearBatchState
  /\ UNCHANGED <<status, runRow, results, pairs, suspension, bounds>>

DiscardDiscarded(d) ==
  /\ DiscardStep(d, "discard", "forget")
  /\ DiscardPairs
  /\ UNCHANGED <<status, runRow, batchState, results, suspension, bounds>>

ForgetDiscarded(d) ==
  /\ DiscardStep(d, "forget", "idle")
  /\ suspension' = FALSE
  /\ UNCHANGED <<status, runRow, batchState, results, pairs, bounds>>

\* An exception ends the request, or the watchdog's tick, where it stands.
DiscardFault(d) ==
  /\ faults < MaxFaults
  /\ discarder[d] # "idle"
  /\ DiscardStep(d, discarder[d], "idle")
  /\ faults' = faults + 1
  /\ UNCHANGED <<status, store, restarts>>

------------------------------------------------------------------------------
(* The process stops: threads, handlers and requests are gone, the store    *)
(* stays, and sweep_orphans runs before anything else at the next boot.     *)

Restart ==
  /\ restarts < MaxRestarts
  /\ status # NoRow
  /\ restarts' = restarts + 1
  /\ status' = IF status \in OrphanStates THEN "failed" ELSE status
  /\ pc' = [t \in Threads |-> "idle"]
  /\ node' = [t \in Threads |-> "select_source"]
  /\ batch' = [t \in Threads |-> 0]
  /\ outcome' = [t \in Threads |-> Null]
  /\ EndRequest
  /\ discarder' = [d \in Discarders |-> "idle"]
  /\ UNCHANGED <<store, faults>>

------------------------------------------------------------------------------

\* What a thread does once it has been given a step.
ThreadStep(t) ==
  \/ CheckNode(t) \/ RunNode(t) \/ ReportStep(t)
  \/ ReadPlan(t) \/ OpenResult(t) \/ PassGate(t) \/ Fetch(t)
  \/ PairValues(t) \/ RecordMapping(t) \/ AppendRows(t) \/ MergeSummary(t)
  \/ SaveCheckpoint(t) \/ LogAttempt(t)
  \/ BookRun(t) \/ LoadDetail(t) \/ ClearPlan(t)
  \/ CheckOutcome(t) \/ SettleOutcome(t)
  \/ WipeCancelled(t) \/ DiscardCancelled(t) \/ ForgetCancelled(t)
  \/ PromoteCompleted(t) \/ RecordOutcome(t)

ThreadFault(t) ==
  NodeFault(t) \/ EvidenceFault(t) \/ GraphFault(t) \/ FinishFault(t)

\* The rest of a handler that has begun.
LoopStep ==
  CheckStart \/ WriteRequest \/ RecordSuspension \/ \E t \in Threads : SpawnThread(t)

DiscarderStep(d) ==
  \/ FindSuspension(d) \/ CheckDiscard(d) \/ WriteDiscard(d)
  \/ WipeDiscarded(d) \/ DiscardDiscarded(d) \/ ForgetDiscarded(d)

Next ==
  \/ \E t \in Threads : ThreadStep(t) \/ PauseNode(t) \/ ThreadFault(t)
  \/ CreateRun \/ LoopStep \/ RequestFault
  \/ \E r \in Requests : AcceptRequest(r)
  \/ ListExpired
  \/ \E d \in Discarders : RequestDelete(d) \/ DiscarderStep(d) \/ DiscardFault(d)
  \/ Restart

Spec == Init /\ [][Next]_vars

\* A thread, a handler or a cleanup that has begun is scheduled until it ends,
\* and the watchdog ticks for ever.  Nobody has to send a request, answer a
\* question, fail or restart.
Fairness ==
  /\ \A t \in Threads : WF_vars(ThreadStep(t) \/ PauseNode(t))
  /\ WF_vars(LoopStep)
  /\ WF_vars(ListExpired)
  /\ \A d \in Discarders : WF_vars(DiscarderStep(d))

FairSpec == Spec /\ Fairness

------------------------------------------------------------------------------
(* Safety: properties of the run as the code keeps it.                      *)

\* At most one worker thread streams the graph, and while one does the status
\* is neither a parked, paused or failed one (from which a second stream could
\* be started) nor COMPLETED.  This rests on _finish being the one place that
\* ends a stream's status, and on resolve, retry and resume each requiring a
\* different status.
SingleDriver ==
  /\ \A t, u \in Threads : Driving(t) /\ Driving(u) => t = u
  /\ (\E t \in Threads : Driving(t)) =>
       status \in {"running", "cancelling", "suspending", "cancelled"}

\* Every batch that the checkpoint counts as done, and that had any data, has
\* its rows in the streaming result: save_run_batch_checkpoint comes after
\* append_batch_result, and only a run without a checkpoint starts a new one.
Covered(n) == \A b \in Batches \ EmptyBatches : b < n => rows[b] > 0
CheckpointCovers == Covered(checkpoint)

\* A COMPLETED run has a runs row and a result with the rows of every batch,
\* whatever suspends, retries, deletes and expiries happened on the way.
CompletedIsComplete == status = "completed" => booked /\ Covered(NumBatches)

\* A pairing leaves 'provisional' for the shared library only when its run has
\* been booked with a complete result.
PromotionNeedsCompletion == promoted # {} => booked /\ Covered(NumBatches)

\* A run that says RUNNING has a worker, or is about to be given one by the
\* handler that just said so, as long as nothing has raised: an exception inside
\* _finish does leave a RUNNING run without a worker.
RunningIsDriven ==
  faults = 0 /\ status = "running" => loop = "spawn" \/ \E t \in Threads : Driving(t)

\* A batch's rows are appended a second time only after an exception, and each
\* further time takes an exception or a process death of its own: suspends,
\* deletes and expiries never duplicate any, and without an exception a process
\* death does not either, for the run it interrupts cannot be retried.
DuplicatesNeedFaults ==
  \A b \in Batches :
    /\ rows[b] <= 1 + faults + restarts
    /\ faults = 0 => rows[b] <= 1

------------------------------------------------------------------------------
(* The inductive invariant behind the theorems of AutoRunProofs.            *)

\* What a thread's position says of its local state.
ThreadOK(t) ==
  /\ pc[t] \in BatchSteps \ {"gate"} => batch[t] < NumBatches
  /\ pc[t] \in (NodeSteps \ {"report"}) \union {"idle"} => outcome[t] = Null
  /\ pc[t] = "body" => node[t] \notin {"run_batches", "finalize"}
  /\ pc[t] \in BatchSteps \union {"setup", "open"} => node[t] = "run_batches"
  /\ pc[t] \in FinalizeSteps => node[t] = "finalize"
  /\ pc[t] = "report" /\ outcome[t] = Null => node[t] # "finalize"

NoDriver == \A t \in Threads : ~Driving(t)

\* A handler that is about to give the run to a thread, or to park it, found a
\* run without a worker, and nobody else starts one meanwhile.
LoopOK ==
  /\ loop = "check" => NoDriver
  /\ loop = "write" /\ request \in Spawning \union {"park"} => NoDriver
  /\ loop = "spawn" => NoDriver /\ status \in {"running", "cancelled"}

\* What a thread's position says of the streaming result.
ResultOK(t) ==
  /\ pc[t] \in BatchSteps => Covered(batch[t])
  /\ pc[t] \in {"tally", "save"} => rows[batch[t]] > 0
  /\ pc[t] = "skip" => batch[t] \in EmptyBatches
  /\ pc[t] = "log" => Covered(batch[t] + 1)
  /\ pc[t] = "report" /\ node[t] = "run_batches" /\ outcome[t] = Null =>
       Covered(NumBatches)
  /\ pc[t] \in NodeSteps /\ node[t] = "finalize" => Covered(NumBatches)
  /\ pc[t] \in {"load", "unplan"} => booked
  /\ pc[t] \in {"report", "finish", "settle"} /\ outcome[t] = "completed" =>
       booked /\ Covered(NumBatches)

DriverInv == TypeOK /\ (\A t \in Threads : ThreadOK(t)) /\ SingleDriver /\ LoopOK

ResultInv ==
  /\ \A t \in Threads : ResultOK(t)
  /\ CheckpointCovers
  /\ CompletedIsComplete

IInv == DriverInv /\ ResultInv

------------------------------------------------------------------------------
(* The run's status is a run registry in which every actor is a caller.     *)

NotMoving == "not_moving"

Actors == Threads \union {"loop"} \union Discarders

ASSUME ActorsAssumption ==
  Threads \intersect Discarders = {} /\ "loop" \notin Threads \union Discarders

pending ==
  [ c \in Actors |->
      CASE c \in Threads /\ pc[c] = "settle" -> TargetOf(outcome[c])
        [] c = "loop" /\ loop = "write" -> RequestTarget(request)
        [] c \in Discarders /\ discarder[c] = "write" -> "cancelled"
        [] OTHER -> NotMoving ]

Registry == INSTANCE RunRegistry WITH Callers <- Actors

\* Every change of the status is run_registry.transition, create or the boot
\* sweep.
RegistrySpec == Registry!Spec

------------------------------------------------------------------------------
(* Liveness, under FairSpec and without faults.                             *)

\* A RUNNING run does not run for ever: it pauses, parks, ends or fails.
RunningEnds == status = "running" ~> status # "running"

InBatchLoop(t) == pc[t] \in BatchSteps

\* A cancel that finds the worker in its batch loop takes effect, and a suspend
\* that finds it in a batch other than the last ("at the next batch boundary").
StopsInLoopHonoured ==
  /\ (status = "cancelling" /\ \E t \in Threads : InBatchLoop(t))
       ~> status # "cancelling"
  /\ (status = "suspending" /\ \E t \in Threads : InBatchLoop(t) /\ batch[t] + 1 < NumBatches)
       ~> status # "suspending"

\* A stored, suspended run that no earlier cleanup is still wiping is resumed
\* or discarded in the end.
SuspendedExpires ==
  (status = "suspended" /\ suspension /\ \A d \in Discarders : discarder[d] = "idle")
    ~> status # "suspended"

=============================================================================
