---------------------------- MODULE AutoRunProofs ----------------------------
(***************************************************************************)
(* Proofs about AutoRun, for any number of threads, DELETE requests,       *)
(* batches, exceptions and restarts.  The inductive invariant is IInv:     *)
(*                                                                         *)
(*   - TypeOK and ThreadOK: what a thread's position says of its locals;   *)
(*   - SingleDriver and LoopOK: a handler that is about to start a stream  *)
(*     found a run without a worker, and no other actor starts one;        *)
(*   - ResultInv: what a thread's position says of the streaming result,   *)
(*     which it may rely on because it is the only driver.                 *)
(*                                                                         *)
(* Each is shown to be preserved by a lemma with one step per action.      *)
(* On IInv rest what is left of workers that are gone, and the refinement  *)
(* of RunRegistry, which ends the module with the registry on its own.     *)
(***************************************************************************)
EXTENDS AutoRun, TLAPS

------------------------------------------------------------------------------
(* Membership facts, so that the sets of names stay folded below.          *)

LEMMA StepNames ==
  {"check", "body", "setup", "open", "report", "gate", "fetch", "pair", "map",
   "append", "tally", "save", "skip", "log", "book", "load", "unplan", "finish",
   "settle", "wipe", "discard", "forget", "promote", "progress", "idle"}
    \subseteq Steps
  BY DEF Steps, NodeSteps, BatchSteps, FinalizeSteps, FinishSteps, TailSteps

LEMMA NodeNames ==
  /\ {"select_source", "resolve_schema", "run_batches"} \subseteq NodeName
  /\ \A n \in NodeName : n # "finalize" => NextNode[n] \in NodeName
  BY DEF NodeName, NextNode

LEMMA OutcomeNames ==
  {Null, "paused", "completed", "cancelled", "suspended", "failed", "error"}
    \subseteq Outcome
  BY DEF Outcome

LEMMA StateNames ==
  /\ {"created", "cancelled", "failed"} \subseteq RunState
  /\ \A o : TargetOf(o) \in RunState
  /\ \A r : RequestTarget(r) \in RunState
  BY DEF RunState, TargetOf, RequestTarget

LEMMA BatchFacts ==
  /\ 0 \in 0 .. NumBatches
  /\ \A b \in 0 .. NumBatches :
       b < NumBatches => b \in Batches /\ b + 1 \in 0 .. NumBatches
  BY NumBatchesAssumption DEF Batches

\* A thread inside a batch is at one of the plan's batches.
LEMMA Working ==
  ASSUME TypeOK, NEW t \in Threads, ThreadOK(t),
         pc[t] \in {"fetch", "pair", "map", "append", "tally", "save", "skip", "log"}
  PROVE  batch[t] \in Batches /\ batch[t] + 1 \in 0 .. NumBatches
  BY BatchFacts DEF TypeOK, ThreadOK, BatchSteps

------------------------------------------------------------------------------
(* Types and thread-local facts.                                           *)

LEMMA TypeStep ==
  TypeOK /\ (\A t \in Threads : ThreadOK(t)) /\ [Next]_vars => TypeOK'
<1> SUFFICES ASSUME TypeOK, \A t \in Threads : ThreadOK(t), [Next]_vars
             PROVE  TypeOK'
  OBVIOUS
<1> USE StepNames DEF TypeOK, store, runRow, batchState, results, pairs,
     threadVars, actorVars, bounds
<1>1. ASSUME NEW t \in Threads, CheckNode(t) PROVE TypeOK'
  BY <1>1, OutcomeNames DEF CheckNode
<1>2. ASSUME NEW t \in Threads, RunNode(t) PROVE TypeOK'
  BY <1>2 DEF RunNode, Step
<1>3. ASSUME NEW t \in Threads, PauseNode(t) PROVE TypeOK'
  BY <1>3, OutcomeNames DEF PauseNode, Step
<1>4. ASSUME NEW t \in Threads, ReportStep(t) PROVE TypeOK'
  <2>1. pc' \in [Threads -> Steps] /\ failedStep' \in NodeName \union {Null}
       /\ interrupt' = FALSE
    BY <1>4 DEF ReportStep, UpdateProgress
  <2>2. node' \in [Threads -> NodeName]
    BY <1>4, NodeNames DEF ReportStep, ThreadOK
  <2> QED
    BY <1>4, <2>1, <2>2 DEF ReportStep
<1>5. ASSUME NEW t \in Threads, ReadPlan(t) PROVE TypeOK'
  BY <1>5, OutcomeNames DEF ReadPlan, FailNode
<1>6. ASSUME NEW t \in Threads, OpenResult(t) PROVE TypeOK'
  BY <1>6, BatchFacts DEF OpenResult, Step
<1>7. ASSUME NEW t \in Threads, PassGate(t) PROVE TypeOK'
  BY <1>7, OutcomeNames DEF PassGate
<1>8. ASSUME NEW t \in Threads, Fetch(t) PROVE TypeOK'
  BY <1>8 DEF Fetch, Step
<1>9. ASSUME NEW t \in Threads, PairValues(t) PROVE TypeOK'
  BY <1>9, Working DEF PairValues, Step
<1>10. ASSUME NEW t \in Threads, RecordMapping(t) PROVE TypeOK'
  BY <1>10, Working DEF RecordMapping, Step
<1>11. ASSUME NEW t \in Threads, AppendRows(t) PROVE TypeOK'
  BY <1>11, Working DEF AppendRows, Step
<1>12. ASSUME NEW t \in Threads, MergeSummary(t) PROVE TypeOK'
  BY <1>12, Working DEF MergeSummary, Step
<1>13. ASSUME NEW t \in Threads, SaveCheckpoint(t) PROVE TypeOK'
  BY <1>13, BatchFacts, Working DEF SaveCheckpoint
<1>14. ASSUME NEW t \in Threads, LogAttempt(t) PROVE TypeOK'
  BY <1>14, Working DEF LogAttempt, Step
<1>15. ASSUME NEW t \in Threads, BookRun(t) PROVE TypeOK'
  <2>1. pc' \in [Threads -> Steps] /\ outcome' \in [Threads -> Outcome]
    BY <1>15, OutcomeNames DEF BookRun, FailNode
  <2>2. booked' \in BOOLEAN
    BY <1>15 DEF BookRun, FailNode
  <2>3. UNCHANGED <<status, store, node, batch, actorVars, bounds>> \/
       UNCHANGED <<status, runRow, rows, summary, mapped, logged, batchState,
       pairs, suspension, node, batch, actorVars, bounds>>
    BY <1>15 DEF BookRun, FailNode
  <2> QED
    BY <2>1, <2>2, <2>3
<1>16. ASSUME NEW t \in Threads, LoadDetail(t) PROVE TypeOK'
  BY <1>16 DEF LoadDetail, Step
<1>17. ASSUME NEW t \in Threads, ClearPlan(t) PROVE TypeOK'
  <2>1. pc' \in [Threads -> Steps] /\ outcome' \in [Threads -> Outcome]
    BY <1>17, OutcomeNames DEF ClearPlan, Step
  <2>2. plan' \in BOOLEAN /\ checkpoint' \in 0 .. NumBatches
    BY <1>17, BatchFacts DEF ClearPlan, ClearBatchState
  <2> QED
    BY <1>17, <2>1, <2>2 DEF ClearPlan
<1>18. ASSUME NEW t \in Threads, CheckOutcome(t) PROVE TypeOK'
  BY <1>18, NodeNames, OutcomeNames, BatchFacts DEF CheckOutcome, Retire
<1>19. ASSUME NEW t \in Threads, SettleOutcome(t) PROVE TypeOK'
  BY <1>19, StateNames DEF SettleOutcome
<1>20. ASSUME NEW t \in Threads, WipeCancelled(t) PROVE TypeOK'
  <2>1. pc' \in [Threads -> Steps]
    BY <1>20 DEF WipeCancelled, Step
  <2>2. plan' \in BOOLEAN /\ checkpoint' \in 0 .. NumBatches
    BY <1>20, BatchFacts DEF WipeCancelled, ClearBatchState
  <2> QED
    BY <1>20, <2>1, <2>2 DEF WipeCancelled
<1>21. ASSUME NEW t \in Threads, DiscardCancelled(t) PROVE TypeOK'
  BY <1>21 DEF DiscardCancelled, DiscardPairs, Step
<1>22. ASSUME NEW t \in Threads, ForgetCancelled(t) PROVE TypeOK'
  <2>1. pc' \in [Threads -> Steps]
    BY <1>22 DEF ForgetCancelled, Step
  <2> QED
    BY <1>22, <2>1 DEF ForgetCancelled
<1>23. ASSUME NEW t \in Threads, PromoteCompleted(t) PROVE TypeOK'
  BY <1>23 DEF PromoteCompleted, PromotePairs, Step
<1>24. ASSUME NEW t \in Threads, RecordOutcome(t) PROVE TypeOK'
  BY <1>24, NodeNames, OutcomeNames, BatchFacts
     DEF RecordOutcome, Retire, UpdateProgress
<1>25. ASSUME NEW t \in Threads, NodeFault(t) PROVE TypeOK'
  BY <1>25, OutcomeNames DEF NodeFault, FailNode
<1>26. ASSUME NEW t \in Threads, GraphFault(t) PROVE TypeOK'
  BY <1>26, OutcomeNames DEF GraphFault
<1>27. ASSUME NEW t \in Threads, FinishFault(t) PROVE TypeOK'
  BY <1>27, NodeNames, OutcomeNames, BatchFacts DEF FinishFault, Retire
<1>28. ASSUME NEW t \in Threads, SpawnThread(t) PROVE TypeOK'
  BY <1>28, NodeNames, OutcomeNames
     DEF SpawnThread, UpdateProgress, EndRequest
<1>29. CASE CreateRun
  BY <1>29, StateNames
     DEF CreateRun, Discarders, DiscardSteps, Requests, OrphanStates
<1>30. CASE CheckStart
  BY <1>30
     DEF CheckStart, ContinueRequest, Discarders, DiscardSteps, Requests,
         OrphanStates
<1>31. CASE WriteRequest
  BY <1>31, StateNames
     DEF WriteRequest, EndRequest, ContinueRequest, Discarders, DiscardSteps,
         Requests, OrphanStates
<1>32. CASE RecordSuspension
  BY <1>32
     DEF RecordSuspension, EndRequest, Discarders, DiscardSteps, Requests,
         OrphanStates
<1>33. CASE ListExpired
  BY <1>33
     DEF ListExpired, DiscardStep, Discarders, DiscardSteps, Requests,
         OrphanStates
<1>34. CASE Restart
  BY <1>34, StateNames, NodeNames, OutcomeNames, BatchFacts
     DEF Restart, EndRequest, Discarders, DiscardSteps, Requests, OrphanStates
<1>35. ASSUME NEW d \in Discarders, RequestDelete(d) PROVE TypeOK'
  BY <1>35 DEF RequestDelete, DiscardStep, DiscardSteps
<1>36. ASSUME NEW d \in Discarders, CheckDiscard(d) PROVE TypeOK'
  BY <1>36 DEF CheckDiscard, DiscardStep, DiscardSteps
<1>37. ASSUME NEW d \in Discarders, WriteDiscard(d) PROVE TypeOK'
  BY <1>37, StateNames DEF WriteDiscard, DiscardStep, DiscardSteps
<1>38. ASSUME NEW d \in Discarders, WipeDiscarded(d) PROVE TypeOK'
  BY <1>38, BatchFacts
     DEF WipeDiscarded, ClearBatchState, DiscardStep, DiscardSteps
<1>39. ASSUME NEW d \in Discarders, DiscardDiscarded(d) PROVE TypeOK'
  BY <1>39 DEF DiscardDiscarded, DiscardPairs, DiscardStep, DiscardSteps
<1>40. ASSUME NEW d \in Discarders, ForgetDiscarded(d) PROVE TypeOK'
  BY <1>40 DEF ForgetDiscarded, DiscardStep, DiscardSteps
<1>41. ASSUME NEW d \in Discarders, DiscardFault(d) PROVE TypeOK'
  BY <1>41 DEF DiscardFault, DiscardStep, DiscardSteps
<1>42. ASSUME NEW r \in Requests, AcceptRequest(r) PROVE TypeOK'
  BY <1>42 DEF AcceptRequest
<1>43. CASE UNCHANGED vars
  BY <1>43 DEF vars
<1>44. ASSUME NEW t \in Threads, EvidenceFault(t) PROVE TypeOK'
  <2>1. pc' \in [Threads -> Steps] /\ outcome' \in [Threads -> Outcome]
    BY <1>44, OutcomeNames DEF EvidenceFault, Step
  <2>2. plan' \in BOOLEAN /\ checkpoint' \in 0 .. NumBatches
    BY <1>44, BatchFacts DEF EvidenceFault, ClearBatchState
  <2> QED
    BY <1>44, <2>1, <2>2 DEF EvidenceFault
<1>45. CASE RequestFault
  BY <1>45 DEF RequestFault, EndRequest, Discarders, DiscardSteps, Requests, OrphanStates
<1>46. ASSUME NEW d \in Discarders, FindSuspension(d) PROVE TypeOK'
  BY <1>46 DEF FindSuspension, DiscardStep, DiscardSteps
<1> QED
  BY <1>1, <1>2, <1>3, <1>4, <1>5, <1>6, <1>7, <1>8, <1>9, <1>10, <1>11,
     <1>12, <1>13, <1>14, <1>15, <1>16, <1>17, <1>18, <1>19, <1>20, <1>21,
     <1>22, <1>23, <1>24, <1>25, <1>26, <1>27, <1>28, <1>29, <1>30, <1>31,
     <1>32, <1>33, <1>34, <1>35, <1>36, <1>37, <1>38, <1>39, <1>40, <1>41,
     <1>42, <1>43, <1>44, <1>45, <1>46
     DEF Next, ThreadStep, ThreadFault, LoopStep, DiscarderStep

\* A thread whose local state does not change keeps its local facts.
LEMMA ThreadFrame ==
  ASSUME NEW u \in Threads, ThreadOK(u),
         pc'[u] = pc[u], node'[u] = node[u], batch'[u] = batch[u],
         outcome'[u] = outcome[u]
  PROVE  ThreadOK(u)'
  BY DEF ThreadOK

LEMMA ThreadStepOK ==
  TypeOK /\ (\A t \in Threads : ThreadOK(t)) /\ [Next]_vars
    => \A t \in Threads : ThreadOK(t)'
<1> SUFFICES ASSUME TypeOK, \A t \in Threads : ThreadOK(t), [Next]_vars,
                    NEW u \in Threads
             PROVE  ThreadOK(u)'
  OBVIOUS
<1> USE DEF TypeOK, ThreadOK, NodeSteps, BatchSteps, FinalizeSteps,
     threadVars, Null
<1>1. ASSUME NEW t \in Threads, CheckNode(t) PROVE ThreadOK(u)'
  <2>1. CASE u # t
    BY <1>1, <2>1, ThreadFrame DEF CheckNode
  <2>2. CASE u = t
    BY <1>1, <2>2 DEF CheckNode
  <2> QED BY <2>1, <2>2
<1>2. ASSUME NEW t \in Threads, RunNode(t) PROVE ThreadOK(u)'
  <2>1. CASE u # t
    BY <1>2, <2>1, ThreadFrame DEF RunNode, Step
  <2>2. CASE u = t
    BY <1>2, <2>2 DEF RunNode, Step
  <2> QED BY <2>1, <2>2
<1>3. ASSUME NEW t \in Threads, PauseNode(t) PROVE ThreadOK(u)'
  <2>1. CASE u # t
    BY <1>3, <2>1, ThreadFrame DEF PauseNode, Step
  <2>2. CASE u = t
    BY <1>3, <2>2 DEF PauseNode, Step
  <2> QED BY <2>1, <2>2
<1>4. ASSUME NEW t \in Threads, ReportStep(t) PROVE ThreadOK(u)'
  <2>1. CASE u # t
    BY <1>4, <2>1, ThreadFrame DEF ReportStep
  <2>2. CASE u = t
    BY <1>4, <2>2 DEF ReportStep, NextNode, NodeName
  <2> QED BY <2>1, <2>2
<1>5. ASSUME NEW t \in Threads, ReadPlan(t) PROVE ThreadOK(u)'
  <2>1. CASE u # t
    BY <1>5, <2>1, ThreadFrame DEF ReadPlan, FailNode
  <2>2. CASE u = t
    BY <1>5, <2>2 DEF ReadPlan, FailNode
  <2> QED BY <2>1, <2>2
<1>6. ASSUME NEW t \in Threads, OpenResult(t) PROVE ThreadOK(u)'
  <2>1. CASE u # t
    BY <1>6, <2>1, ThreadFrame DEF OpenResult, Step
  <2>2. CASE u = t
    BY <1>6, <2>2 DEF OpenResult, Step
  <2> QED BY <2>1, <2>2
<1>7. ASSUME NEW t \in Threads, PassGate(t) PROVE ThreadOK(u)'
  <2>1. CASE u # t
    BY <1>7, <2>1, ThreadFrame DEF PassGate
  <2>2. CASE u = t
    BY <1>7, <2>2 DEF PassGate
  <2> QED BY <2>1, <2>2
<1>8. ASSUME NEW t \in Threads, Fetch(t) PROVE ThreadOK(u)'
  <2>1. CASE u # t
    BY <1>8, <2>1, ThreadFrame DEF Fetch, Step
  <2>2. CASE u = t
    BY <1>8, <2>2 DEF Fetch, Step
  <2> QED BY <2>1, <2>2
<1>9. ASSUME NEW t \in Threads, PairValues(t) PROVE ThreadOK(u)'
  <2>1. CASE u # t
    BY <1>9, <2>1, ThreadFrame DEF PairValues, Step
  <2>2. CASE u = t
    BY <1>9, <2>2 DEF PairValues, Step
  <2> QED BY <2>1, <2>2
<1>10. ASSUME NEW t \in Threads, RecordMapping(t) PROVE ThreadOK(u)'
  <2>1. CASE u # t
    BY <1>10, <2>1, ThreadFrame DEF RecordMapping, Step
  <2>2. CASE u = t
    BY <1>10, <2>2 DEF RecordMapping, Step
  <2> QED BY <2>1, <2>2
<1>11. ASSUME NEW t \in Threads, AppendRows(t) PROVE ThreadOK(u)'
  <2>1. CASE u # t
    BY <1>11, <2>1, ThreadFrame DEF AppendRows, Step
  <2>2. CASE u = t
    BY <1>11, <2>2 DEF AppendRows, Step
  <2> QED BY <2>1, <2>2
<1>12. ASSUME NEW t \in Threads, MergeSummary(t) PROVE ThreadOK(u)'
  <2>1. CASE u # t
    BY <1>12, <2>1, ThreadFrame DEF MergeSummary, Step
  <2>2. CASE u = t
    BY <1>12, <2>2 DEF MergeSummary, Step
  <2> QED BY <2>1, <2>2
<1>13. ASSUME NEW t \in Threads, SaveCheckpoint(t) PROVE ThreadOK(u)'
  <2>1. CASE u # t
    BY <1>13, <2>1, ThreadFrame DEF SaveCheckpoint
  <2>2. CASE u = t
    BY <1>13, <2>2 DEF SaveCheckpoint
  <2> QED BY <2>1, <2>2
<1>14. ASSUME NEW t \in Threads, LogAttempt(t) PROVE ThreadOK(u)'
  <2>1. CASE u # t
    BY <1>14, <2>1, ThreadFrame DEF LogAttempt, Step
  <2>2. CASE u = t
    BY <1>14, <2>2 DEF LogAttempt, Step
  <2> QED BY <2>1, <2>2
<1>15. ASSUME NEW t \in Threads, BookRun(t) PROVE ThreadOK(u)'
  <2>1. CASE u # t
    BY <1>15, <2>1, ThreadFrame DEF BookRun, FailNode
  <2>2. CASE u = t
    BY <1>15, <2>2 DEF BookRun, FailNode
  <2> QED BY <2>1, <2>2
<1>16. ASSUME NEW t \in Threads, LoadDetail(t) PROVE ThreadOK(u)'
  <2>1. CASE u # t
    BY <1>16, <2>1, ThreadFrame DEF LoadDetail, Step
  <2>2. CASE u = t
    BY <1>16, <2>2 DEF LoadDetail, Step
  <2> QED BY <2>1, <2>2
<1>17. ASSUME NEW t \in Threads, ClearPlan(t) PROVE ThreadOK(u)'
  <2>1. CASE u # t
    BY <1>17, <2>1, ThreadFrame DEF ClearPlan, Step
  <2>2. CASE u = t
    BY <1>17, <2>2 DEF ClearPlan, Step
  <2> QED BY <2>1, <2>2
<1>18. ASSUME NEW t \in Threads, CheckOutcome(t) PROVE ThreadOK(u)'
  <2>1. CASE u # t
    BY <1>18, <2>1, ThreadFrame DEF CheckOutcome, Retire
  <2>2. CASE u = t
    BY <1>18, <2>2 DEF CheckOutcome, Retire
  <2> QED BY <2>1, <2>2
<1>19. ASSUME NEW t \in Threads, SettleOutcome(t) PROVE ThreadOK(u)'
  <2>1. CASE u # t
    BY <1>19, <2>1, ThreadFrame DEF SettleOutcome
  <2>2. CASE u = t
    BY <1>19, <2>2 DEF SettleOutcome
  <2> QED BY <2>1, <2>2
<1>20. ASSUME NEW t \in Threads, WipeCancelled(t) PROVE ThreadOK(u)'
  <2>1. CASE u # t
    BY <1>20, <2>1, ThreadFrame DEF WipeCancelled, Step
  <2>2. CASE u = t
    BY <1>20, <2>2 DEF WipeCancelled, Step
  <2> QED BY <2>1, <2>2
<1>21. ASSUME NEW t \in Threads, DiscardCancelled(t) PROVE ThreadOK(u)'
  <2>1. CASE u # t
    BY <1>21, <2>1, ThreadFrame DEF DiscardCancelled, Step
  <2>2. CASE u = t
    BY <1>21, <2>2 DEF DiscardCancelled, Step
  <2> QED BY <2>1, <2>2
<1>22. ASSUME NEW t \in Threads, ForgetCancelled(t) PROVE ThreadOK(u)'
  <2>1. CASE u # t
    BY <1>22, <2>1, ThreadFrame DEF ForgetCancelled, Step
  <2>2. CASE u = t
    BY <1>22, <2>2 DEF ForgetCancelled, Step
  <2> QED BY <2>1, <2>2
<1>23. ASSUME NEW t \in Threads, PromoteCompleted(t) PROVE ThreadOK(u)'
  <2>1. CASE u # t
    BY <1>23, <2>1, ThreadFrame DEF PromoteCompleted, Step
  <2>2. CASE u = t
    BY <1>23, <2>2 DEF PromoteCompleted, Step
  <2> QED BY <2>1, <2>2
<1>24. ASSUME NEW t \in Threads, RecordOutcome(t) PROVE ThreadOK(u)'
  <2>1. CASE u # t
    BY <1>24, <2>1, ThreadFrame DEF RecordOutcome, Retire
  <2>2. CASE u = t
    BY <1>24, <2>2 DEF RecordOutcome, Retire
  <2> QED BY <2>1, <2>2
<1>25. ASSUME NEW t \in Threads, NodeFault(t) PROVE ThreadOK(u)'
  <2>1. CASE u # t
    BY <1>25, <2>1, ThreadFrame DEF NodeFault, FailNode
  <2>2. CASE u = t
    BY <1>25, <2>2 DEF NodeFault, FailNode, FinishSteps, TailSteps
  <2> QED BY <2>1, <2>2
<1>26. ASSUME NEW t \in Threads, GraphFault(t) PROVE ThreadOK(u)'
  <2>1. CASE u # t
    BY <1>26, <2>1, ThreadFrame DEF GraphFault
  <2>2. CASE u = t
    BY <1>26, <2>2 DEF GraphFault, FinishSteps, TailSteps
  <2> QED BY <2>1, <2>2
<1>27. ASSUME NEW t \in Threads, FinishFault(t) PROVE ThreadOK(u)'
  <2>1. CASE u # t
    BY <1>27, <2>1, ThreadFrame DEF FinishFault, Retire
  <2>2. CASE u = t
    BY <1>27, <2>2 DEF FinishFault, Retire, FinishSteps, TailSteps
  <2> QED BY <2>1, <2>2
<1>28. ASSUME NEW t \in Threads, SpawnThread(t) PROVE ThreadOK(u)'
  <2>1. CASE u # t
    BY <1>28, <2>1, ThreadFrame DEF SpawnThread, EndRequest
  <2>2. CASE u = t
    BY <1>28, <2>2 DEF SpawnThread, EndRequest
  <2> QED BY <2>1, <2>2
<1>29. CASE CreateRun
  BY <1>29, ThreadFrame DEF CreateRun
<1>30. CASE CheckStart
  BY <1>30, ThreadFrame DEF CheckStart
<1>31. CASE WriteRequest
  BY <1>31, ThreadFrame DEF WriteRequest
<1>32. CASE RecordSuspension
  BY <1>32, ThreadFrame DEF RecordSuspension
<1>33. CASE ListExpired
  BY <1>33, ThreadFrame DEF ListExpired, DiscardStep
<1>34. ASSUME NEW r \in Requests, AcceptRequest(r) PROVE ThreadOK(u)'
  BY <1>34, ThreadFrame DEF AcceptRequest
<1>35. ASSUME NEW d \in Discarders, RequestDelete(d) PROVE ThreadOK(u)'
  BY <1>35, ThreadFrame DEF RequestDelete, DiscardStep
<1>36. ASSUME NEW d \in Discarders, CheckDiscard(d) PROVE ThreadOK(u)'
  BY <1>36, ThreadFrame DEF CheckDiscard, DiscardStep
<1>37. ASSUME NEW d \in Discarders, WriteDiscard(d) PROVE ThreadOK(u)'
  BY <1>37, ThreadFrame DEF WriteDiscard, DiscardStep
<1>38. ASSUME NEW d \in Discarders, WipeDiscarded(d) PROVE ThreadOK(u)'
  BY <1>38, ThreadFrame DEF WipeDiscarded, DiscardStep
<1>39. ASSUME NEW d \in Discarders, DiscardDiscarded(d) PROVE ThreadOK(u)'
  BY <1>39, ThreadFrame DEF DiscardDiscarded, DiscardStep
<1>40. ASSUME NEW d \in Discarders, ForgetDiscarded(d) PROVE ThreadOK(u)'
  BY <1>40, ThreadFrame DEF ForgetDiscarded, DiscardStep
<1>41. ASSUME NEW d \in Discarders, DiscardFault(d) PROVE ThreadOK(u)'
  BY <1>41, ThreadFrame DEF DiscardFault, DiscardStep
<1>42. CASE Restart
  BY <1>42 DEF Restart
<1>43. CASE UNCHANGED vars
  BY <1>43, ThreadFrame DEF vars
<1>44. ASSUME NEW t \in Threads, EvidenceFault(t) PROVE ThreadOK(u)'
  <2>1. CASE u # t
    BY <1>44, <2>1, ThreadFrame DEF EvidenceFault, Step
  <2>2. CASE u = t
    BY <1>44, <2>2 DEF EvidenceFault, Step
  <2> QED BY <2>1, <2>2
<1>45. CASE RequestFault
  BY <1>45, ThreadFrame DEF RequestFault
<1>46. ASSUME NEW d \in Discarders, FindSuspension(d) PROVE ThreadOK(u)'
  BY <1>46, ThreadFrame DEF FindSuspension, DiscardStep
<1> QED
  BY <1>1, <1>2, <1>3, <1>4, <1>5, <1>6, <1>7, <1>8, <1>9, <1>10, <1>11,
     <1>12, <1>13, <1>14, <1>15, <1>16, <1>17, <1>18, <1>19, <1>20, <1>21,
     <1>22, <1>23, <1>24, <1>25, <1>26, <1>27, <1>28, <1>29, <1>30, <1>31,
     <1>32, <1>33, <1>34, <1>35, <1>36, <1>37, <1>38, <1>39, <1>40, <1>41,
     <1>42, <1>43, <1>44, <1>45, <1>46
     DEF Next, ThreadStep, ThreadFault, LoopStep, DiscarderStep

------------------------------------------------------------------------------
(* One driver at a time.                                                   *)

\* A step that starts no stream and leaves status and loop alone.
LEMMA NoNewDriver ==
  ASSUME SingleDriver, LoopOK, UNCHANGED <<status, loop, request>>,
         \A u \in Threads : Driving(u)' => Driving(u)
  PROVE  SingleDriver' /\ LoopOK'
  BY DEF SingleDriver, LoopOK, NoDriver

LEMMA DrivingFrame ==
  ASSUME NEW u \in Threads,
         \/ pc'[u] = pc[u]
         \/ pc[u] \in DrivingSteps
         \/ pc'[u] \notin DrivingSteps
  PROVE  Driving(u)' => Driving(u)
  BY DEF Driving

LEMMA DriverStep == DriverInv /\ [Next]_vars => SingleDriver' /\ LoopOK'
<1> SUFFICES ASSUME DriverInv, [Next]_vars PROVE SingleDriver' /\ LoopOK'
  OBVIOUS
<1> USE DEF DriverInv, TypeOK, threadVars, actorVars, DrivingSteps, NodeSteps,
     BatchSteps, FinalizeSteps, FinishSteps, TailSteps
<1>1. ASSUME NEW t \in Threads, CheckNode(t) PROVE SingleDriver' /\ LoopOK'
  BY <1>1, NoNewDriver, DrivingFrame DEF CheckNode
<1>2. ASSUME NEW t \in Threads, RunNode(t) PROVE SingleDriver' /\ LoopOK'
  BY <1>2, NoNewDriver, DrivingFrame DEF RunNode, Step
<1>3. ASSUME NEW t \in Threads, PauseNode(t) PROVE SingleDriver' /\ LoopOK'
  BY <1>3, NoNewDriver, DrivingFrame DEF PauseNode, Step
<1>4. ASSUME NEW t \in Threads, ReportStep(t) PROVE SingleDriver' /\ LoopOK'
  BY <1>4, NoNewDriver, DrivingFrame DEF ReportStep
<1>5. ASSUME NEW t \in Threads, ReadPlan(t) PROVE SingleDriver' /\ LoopOK'
  BY <1>5, NoNewDriver, DrivingFrame DEF ReadPlan, FailNode
<1>6. ASSUME NEW t \in Threads, OpenResult(t) PROVE SingleDriver' /\ LoopOK'
  BY <1>6, NoNewDriver, DrivingFrame DEF OpenResult, Step
<1>7. ASSUME NEW t \in Threads, PassGate(t) PROVE SingleDriver' /\ LoopOK'
  BY <1>7, NoNewDriver, DrivingFrame DEF PassGate
<1>8. ASSUME NEW t \in Threads, Fetch(t) PROVE SingleDriver' /\ LoopOK'
  BY <1>8, NoNewDriver, DrivingFrame DEF Fetch, Step
<1>9. ASSUME NEW t \in Threads, PairValues(t) PROVE SingleDriver' /\ LoopOK'
  BY <1>9, NoNewDriver, DrivingFrame DEF PairValues, Step
<1>10. ASSUME NEW t \in Threads, RecordMapping(t) PROVE SingleDriver' /\
     LoopOK'
  BY <1>10, NoNewDriver, DrivingFrame DEF RecordMapping, Step
<1>11. ASSUME NEW t \in Threads, AppendRows(t) PROVE SingleDriver' /\ LoopOK'
  BY <1>11, NoNewDriver, DrivingFrame DEF AppendRows, Step
<1>12. ASSUME NEW t \in Threads, MergeSummary(t) PROVE SingleDriver' /\
     LoopOK'
  BY <1>12, NoNewDriver, DrivingFrame DEF MergeSummary, Step
<1>13. ASSUME NEW t \in Threads, SaveCheckpoint(t) PROVE SingleDriver' /\
     LoopOK'
  BY <1>13, NoNewDriver, DrivingFrame DEF SaveCheckpoint
<1>14. ASSUME NEW t \in Threads, LogAttempt(t) PROVE SingleDriver' /\ LoopOK'
  BY <1>14, NoNewDriver, DrivingFrame DEF LogAttempt, Step
<1>15. ASSUME NEW t \in Threads, BookRun(t) PROVE SingleDriver' /\ LoopOK'
  BY <1>15, NoNewDriver, DrivingFrame DEF BookRun, FailNode
<1>16. ASSUME NEW t \in Threads, LoadDetail(t) PROVE SingleDriver' /\ LoopOK'
  BY <1>16, NoNewDriver, DrivingFrame DEF LoadDetail, Step
<1>17. ASSUME NEW t \in Threads, ClearPlan(t) PROVE SingleDriver' /\ LoopOK'
  BY <1>17, NoNewDriver, DrivingFrame DEF ClearPlan, Step
<1>18. ASSUME NEW t \in Threads, CheckOutcome(t) PROVE SingleDriver' /\
     LoopOK'
  BY <1>18, NoNewDriver, DrivingFrame DEF CheckOutcome, Retire
<1>19. ASSUME NEW t \in Threads, WipeCancelled(t) PROVE SingleDriver' /\
     LoopOK'
  BY <1>19, NoNewDriver, DrivingFrame DEF WipeCancelled, Step
<1>20. ASSUME NEW t \in Threads, DiscardCancelled(t) PROVE SingleDriver' /\
     LoopOK'
  BY <1>20, NoNewDriver, DrivingFrame DEF DiscardCancelled, Step
<1>21. ASSUME NEW t \in Threads, ForgetCancelled(t) PROVE SingleDriver' /\
     LoopOK'
  BY <1>21, NoNewDriver, DrivingFrame DEF ForgetCancelled, Step
<1>22. ASSUME NEW t \in Threads, PromoteCompleted(t) PROVE SingleDriver' /\
     LoopOK'
  BY <1>22, NoNewDriver, DrivingFrame DEF PromoteCompleted, Step
<1>23. ASSUME NEW t \in Threads, RecordOutcome(t) PROVE SingleDriver' /\
     LoopOK'
  BY <1>23, NoNewDriver, DrivingFrame DEF RecordOutcome, Retire
<1>24. ASSUME NEW t \in Threads, NodeFault(t) PROVE SingleDriver' /\ LoopOK'
  BY <1>24, NoNewDriver, DrivingFrame DEF NodeFault, FailNode
<1>25. ASSUME NEW t \in Threads, GraphFault(t) PROVE SingleDriver' /\ LoopOK'
  BY <1>25, NoNewDriver, DrivingFrame DEF GraphFault
<1>26. ASSUME NEW t \in Threads, FinishFault(t) PROVE SingleDriver' /\ LoopOK'
  BY <1>26, NoNewDriver, DrivingFrame DEF FinishFault, Retire
<1>27. ASSUME NEW t \in Threads, SettleOutcome(t) PROVE SingleDriver' /\
     LoopOK'
  <2>1. Driving(t) /\ pc'[t] \notin DrivingSteps
    BY <1>27 DEF SettleOutcome, Driving
  <2>2. NoDriver'
    BY <1>27, <2>1 DEF SettleOutcome, NoDriver, SingleDriver, Driving
  <2>3. loop # "spawn"
    BY <2>1 DEF LoopOK, NoDriver
  <2> QED
    BY <1>27, <2>2, <2>3 DEF SettleOutcome, NoDriver, SingleDriver, LoopOK
<1>28. ASSUME NEW t \in Threads, SpawnThread(t) PROVE SingleDriver' /\ LoopOK'
  <2>1. NoDriver /\ status \in {"running", "cancelled"}
    BY <1>28 DEF SpawnThread, LoopOK
  <2>2. \A u \in Threads : Driving(u)' => u = t
    BY <1>28, <2>1 DEF SpawnThread, NoDriver, Driving
  <2> QED
    BY <1>28, <2>1, <2>2 DEF SpawnThread, EndRequest, SingleDriver, LoopOK
<1>29. CASE CreateRun
  <2>1. NoDriver
    BY <1>29 DEF CreateRun, SingleDriver, NoDriver, NoRow
  <2> QED
    BY <1>29, <2>1 DEF CreateRun, SingleDriver, LoopOK, NoDriver, Driving
<1>30. CASE CheckStart
  BY <1>30
     DEF CheckStart, ContinueRequest, SingleDriver, LoopOK, NoDriver, Driving
<1>31. ASSUME NEW r \in Requests, AcceptRequest(r) PROVE SingleDriver' /\
     LoopOK'
  <2>1. r \in Spawning \union {"park"} => NoDriver
    <3>1. CASE r = "park"
      BY <1>31, <3>1 DEF AcceptRequest, Admissible, SingleDriver, NoDriver
    <3>2. CASE r \in Spawning
      <4>1. Legal(status, "running")
        BY <1>31, <3>2 DEF AcceptRequest, RequestTarget, Spawning
      <4> QED
        BY <4>1 DEF Legal, SingleDriver, NoDriver
    <3> QED BY <3>1, <3>2
  <2> QED
    BY <1>31, <2>1 DEF AcceptRequest, SingleDriver, LoopOK, NoDriver, Driving
<1>32. CASE WriteRequest
  <2>1. CASE request \in Spawning \union {"park"}
    BY <1>32, <2>1
       DEF WriteRequest, EndRequest, ContinueRequest, SingleDriver, LoopOK,
           NoDriver, Driving, RequestTarget, Spawning
  <2>2. CASE request \in {"cancel", "suspend"}
    BY <1>32, <2>2
       DEF WriteRequest, EndRequest, ContinueRequest, SingleDriver, LoopOK,
           Driving, RequestTarget, Spawning
  <2> QED
    BY <1>32, <2>1, <2>2 DEF WriteRequest, Spawning
<1>33. CASE RecordSuspension
  BY <1>33
     DEF RecordSuspension, EndRequest, SingleDriver, LoopOK, NoDriver, Driving
<1>34. CASE Restart
  BY <1>34 DEF Restart, EndRequest, SingleDriver, LoopOK, NoDriver, Driving
<1>35. ASSUME NEW d \in Discarders, RequestDelete(d) PROVE SingleDriver' /\
     LoopOK'
  BY <1>35, NoNewDriver DEF RequestDelete, DiscardStep, Driving
<1>36. ASSUME NEW d \in Discarders, CheckDiscard(d) PROVE SingleDriver' /\
     LoopOK'
  BY <1>36, NoNewDriver DEF CheckDiscard, DiscardStep, Driving
<1>37. ASSUME NEW d \in Discarders, WriteDiscard(d) PROVE SingleDriver' /\
     LoopOK'
  BY <1>37
     DEF WriteDiscard, DiscardStep, SingleDriver, LoopOK, NoDriver, Driving
<1>38. ASSUME NEW d \in Discarders, WipeDiscarded(d) PROVE SingleDriver' /\
     LoopOK'
  BY <1>38, NoNewDriver DEF WipeDiscarded, DiscardStep, Driving
<1>39. ASSUME NEW d \in Discarders, DiscardDiscarded(d) PROVE SingleDriver' /\
     LoopOK'
  BY <1>39, NoNewDriver DEF DiscardDiscarded, DiscardStep, Driving
<1>40. ASSUME NEW d \in Discarders, ForgetDiscarded(d) PROVE SingleDriver' /\
     LoopOK'
  BY <1>40, NoNewDriver DEF ForgetDiscarded, DiscardStep, Driving
<1>41. ASSUME NEW d \in Discarders, DiscardFault(d) PROVE SingleDriver' /\
     LoopOK'
  BY <1>41, NoNewDriver DEF DiscardFault, DiscardStep, Driving
<1>42. CASE ListExpired
  BY <1>42, NoNewDriver DEF ListExpired, DiscardStep, Driving
<1>43. CASE UNCHANGED vars
  BY <1>43, NoNewDriver DEF vars, Driving
<1>44. ASSUME NEW t \in Threads, EvidenceFault(t) PROVE SingleDriver' /\ LoopOK'
  BY <1>44, NoNewDriver, DrivingFrame DEF EvidenceFault, Step
<1>45. CASE RequestFault
  BY <1>45 DEF RequestFault, EndRequest, SingleDriver, LoopOK, NoDriver, Driving
<1>46. ASSUME NEW d \in Discarders, FindSuspension(d) PROVE SingleDriver' /\ LoopOK'
  BY <1>46, NoNewDriver DEF FindSuspension, DiscardStep, Driving
<1> QED
  BY <1>1, <1>2, <1>3, <1>4, <1>5, <1>6, <1>7, <1>8, <1>9, <1>10, <1>11,
     <1>12, <1>13, <1>14, <1>15, <1>16, <1>17, <1>18, <1>19, <1>20, <1>21,
     <1>22, <1>23, <1>24, <1>25, <1>26, <1>27, <1>28, <1>29, <1>30, <1>31,
     <1>32, <1>33, <1>34, <1>35, <1>36, <1>37, <1>38, <1>39, <1>40, <1>41,
     <1>42, <1>43, <1>44, <1>45, <1>46
     DEF Next, ThreadStep, ThreadFault, LoopStep, DiscarderStep

------------------------------------------------------------------------------
(* The streaming result.                                                   *)

\* A step that changes neither rows nor booked, never completes the run and at
\* most drops the checkpoint.
LEMMA StoreFrame ==
  ASSUME ResultInv, UNCHANGED <<rows, booked>>,
         status' = status \/ status' # "completed",
         checkpoint' = checkpoint \/ checkpoint' = 0
  PROVE  CheckpointCovers' /\ CompletedIsComplete'
  BY DEF ResultInv, CheckpointCovers, CompletedIsComplete, Covered, Batches

LEMMA ResultFrame ==
  ASSUME NEW u \in Threads, ResultOK(u), UNCHANGED <<rows, booked>>,
         pc'[u] = pc[u], node'[u] = node[u], batch'[u] = batch[u],
         outcome'[u] = outcome[u]
  PROVE  ResultOK(u)'
  BY DEF ResultOK, Covered

\* A thread that does not drive the run says nothing of the result.
LEMMA Parked ==
  ASSUME NEW u \in Threads, pc'[u] \notin DrivingSteps
  PROVE  ResultOK(u)'
  BY DEF ResultOK, DrivingSteps, NodeSteps, FinishSteps, BatchSteps,
         FinalizeSteps

LEMMA ResultStep == IInv /\ [Next]_vars => ResultInv'
<1> SUFFICES ASSUME DriverInv, ResultInv, [Next]_vars PROVE ResultInv'
  BY DEF IInv
<1> USE DEF DriverInv, TypeOK, ResultInv, ResultOK, Covered, threadVars
<1>1. ASSUME NEW t \in Threads, RunNode(t) PROVE ResultInv'
  <2>1. UNCHANGED <<rows, booked, status>> /\ checkpoint' \in {0, checkpoint}
    BY <1>1 DEF RunNode, Step, store, results, batchState, bounds
  <2>2. ASSUME NEW u \in Threads \ {t} PROVE ResultOK(u)'
    BY <1>1, <2>1, ResultFrame DEF RunNode, Step
  <2>3. ResultOK(t)'
    BY <1>1, <2>1, Working
       DEF RunNode, Step, ThreadOK, NodeSteps, BatchSteps, FinalizeSteps,
           Batches, Null
  <2> QED
    BY <2>1, <2>2, <2>3, StoreFrame
<1>2. ASSUME NEW t \in Threads, PauseNode(t) PROVE ResultInv'
  <2>1. UNCHANGED <<rows, booked, status>> /\ checkpoint' \in {0, checkpoint}
    BY <1>2 DEF PauseNode, Step, store, results, batchState, bounds
  <2>2. ASSUME NEW u \in Threads \ {t} PROVE ResultOK(u)'
    BY <1>2, <2>1, ResultFrame DEF PauseNode, Step
  <2>3. ResultOK(t)'
    BY <1>2, <2>1, Working
       DEF PauseNode, Step, ThreadOK, NodeSteps, BatchSteps, FinalizeSteps,
           Batches, Null
  <2> QED
    BY <2>1, <2>2, <2>3, StoreFrame
<1>3. ASSUME NEW t \in Threads, ReadPlan(t) PROVE ResultInv'
  <2>1. UNCHANGED <<rows, booked, status>> /\ checkpoint' \in {0, checkpoint}
    BY <1>3 DEF ReadPlan, FailNode, store, results, batchState, bounds
  <2>2. ASSUME NEW u \in Threads \ {t} PROVE ResultOK(u)'
    BY <1>3, <2>1, ResultFrame DEF ReadPlan, FailNode
  <2>3. ResultOK(t)'
    BY <1>3, <2>1, Working
       DEF ReadPlan, FailNode, ThreadOK, NodeSteps, BatchSteps, FinalizeSteps,
           Batches, Null
  <2> QED
    BY <2>1, <2>2, <2>3, StoreFrame
<1>4. ASSUME NEW t \in Threads, PassGate(t) PROVE ResultInv'
  <2>1. UNCHANGED <<rows, booked, status>> /\ checkpoint' \in {0, checkpoint}
    BY <1>4 DEF PassGate, store, results, batchState, bounds
  <2>2. ASSUME NEW u \in Threads \ {t} PROVE ResultOK(u)'
    BY <1>4, <2>1, ResultFrame DEF PassGate
  <2>3. ResultOK(t)'
    BY <1>4, <2>1, Working
       DEF PassGate, ThreadOK, NodeSteps, BatchSteps, FinalizeSteps, Batches,
           Null
  <2> QED
    BY <2>1, <2>2, <2>3, StoreFrame
<1>5. ASSUME NEW t \in Threads, Fetch(t) PROVE ResultInv'
  <2>1. UNCHANGED <<rows, booked, status>> /\ checkpoint' \in {0, checkpoint}
    BY <1>5 DEF Fetch, Step, store, results, batchState, bounds
  <2>2. ASSUME NEW u \in Threads \ {t} PROVE ResultOK(u)'
    BY <1>5, <2>1, ResultFrame DEF Fetch, Step
  <2>3. ResultOK(t)'
    BY <1>5, <2>1, Working
       DEF Fetch, Step, ThreadOK, NodeSteps, BatchSteps, FinalizeSteps,
           Batches, Null
  <2> QED
    BY <2>1, <2>2, <2>3, StoreFrame
<1>6. ASSUME NEW t \in Threads, PairValues(t) PROVE ResultInv'
  <2>1. UNCHANGED <<rows, booked, status>> /\ checkpoint' \in {0, checkpoint}
    BY <1>6 DEF PairValues, Step, store, results, batchState, bounds
  <2>2. ASSUME NEW u \in Threads \ {t} PROVE ResultOK(u)'
    BY <1>6, <2>1, ResultFrame DEF PairValues, Step
  <2>3. ResultOK(t)'
    BY <1>6, <2>1, Working
       DEF PairValues, Step, ThreadOK, NodeSteps, BatchSteps, FinalizeSteps,
           Batches, Null
  <2> QED
    BY <2>1, <2>2, <2>3, StoreFrame
<1>7. ASSUME NEW t \in Threads, RecordMapping(t) PROVE ResultInv'
  <2>1. UNCHANGED <<rows, booked, status>> /\ checkpoint' \in {0, checkpoint}
    BY <1>7 DEF RecordMapping, Step, store, results, batchState, bounds
  <2>2. ASSUME NEW u \in Threads \ {t} PROVE ResultOK(u)'
    BY <1>7, <2>1, ResultFrame DEF RecordMapping, Step
  <2>3. ResultOK(t)'
    BY <1>7, <2>1, Working
       DEF RecordMapping, Step, ThreadOK, NodeSteps, BatchSteps,
           FinalizeSteps, Batches, Null
  <2> QED
    BY <2>1, <2>2, <2>3, StoreFrame
<1>8. ASSUME NEW t \in Threads, MergeSummary(t) PROVE ResultInv'
  <2>1. UNCHANGED <<rows, booked, status>> /\ checkpoint' \in {0, checkpoint}
    BY <1>8 DEF MergeSummary, Step, store, results, batchState, bounds
  <2>2. ASSUME NEW u \in Threads \ {t} PROVE ResultOK(u)'
    BY <1>8, <2>1, ResultFrame DEF MergeSummary, Step
  <2>3. ResultOK(t)'
    BY <1>8, <2>1, Working
       DEF MergeSummary, Step, ThreadOK, NodeSteps, BatchSteps, FinalizeSteps,
           Batches, Null
  <2> QED
    BY <2>1, <2>2, <2>3, StoreFrame
<1>9. ASSUME NEW t \in Threads, LogAttempt(t) PROVE ResultInv'
  <2>1. UNCHANGED <<rows, booked, status>> /\ checkpoint' \in {0, checkpoint}
    BY <1>9 DEF LogAttempt, Step, store, results, batchState, bounds
  <2>2. ASSUME NEW u \in Threads \ {t} PROVE ResultOK(u)'
    BY <1>9, <2>1, ResultFrame DEF LogAttempt, Step
  <2>3. ResultOK(t)'
    BY <1>9, <2>1, Working
       DEF LogAttempt, Step, ThreadOK, NodeSteps, BatchSteps, FinalizeSteps,
           Batches, Null
  <2> QED
    BY <2>1, <2>2, <2>3, StoreFrame
<1>10. ASSUME NEW t \in Threads, LoadDetail(t) PROVE ResultInv'
  <2>1. UNCHANGED <<rows, booked, status>> /\ checkpoint' \in {0, checkpoint}
    BY <1>10 DEF LoadDetail, Step, store, results, batchState, bounds
  <2>2. ASSUME NEW u \in Threads \ {t} PROVE ResultOK(u)'
    BY <1>10, <2>1, ResultFrame DEF LoadDetail, Step
  <2>3. ResultOK(t)'
    BY <1>10, <2>1, Working
       DEF LoadDetail, Step, ThreadOK, NodeSteps, BatchSteps, FinalizeSteps,
           Batches, Null
  <2> QED
    BY <2>1, <2>2, <2>3, StoreFrame
<1>11. ASSUME NEW t \in Threads, ClearPlan(t) PROVE ResultInv'
  <2>1. UNCHANGED <<rows, booked, status>> /\ checkpoint' \in {0, checkpoint}
    BY <1>11
       DEF ClearPlan, ClearBatchState, Step, store, results, batchState,
           bounds
  <2>2. ASSUME NEW u \in Threads \ {t} PROVE ResultOK(u)'
    BY <1>11, <2>1, ResultFrame DEF ClearPlan, ClearBatchState, Step
  <2>3. ResultOK(t)'
    BY <1>11, <2>1, Working
       DEF ClearPlan, ClearBatchState, Step, ThreadOK, NodeSteps, BatchSteps,
           FinalizeSteps, Batches, Null
  <2> QED
    BY <2>1, <2>2, <2>3, StoreFrame
<1>12. ASSUME NEW t \in Threads, CheckOutcome(t) PROVE ResultInv'
  <2>1. UNCHANGED <<rows, booked, status>> /\ checkpoint' \in {0, checkpoint}
    BY <1>12 DEF CheckOutcome, Retire, store, results, batchState, bounds
  <2>2. ASSUME NEW u \in Threads \ {t} PROVE ResultOK(u)'
    BY <1>12, <2>1, ResultFrame DEF CheckOutcome, Retire
  <2>3. ResultOK(t)'
    BY <1>12, <2>1, Working
       DEF CheckOutcome, Retire, ThreadOK, NodeSteps, BatchSteps,
           FinalizeSteps, Batches, Null
  <2> QED
    BY <2>1, <2>2, <2>3, StoreFrame
<1>13. ASSUME NEW t \in Threads, WipeCancelled(t) PROVE ResultInv'
  <2>1. UNCHANGED <<rows, booked, status>> /\ checkpoint' \in {0, checkpoint}
    BY <1>13
       DEF WipeCancelled, ClearBatchState, Step, store, results, batchState,
           bounds
  <2>2. ASSUME NEW u \in Threads \ {t} PROVE ResultOK(u)'
    BY <1>13, <2>1, ResultFrame DEF WipeCancelled, ClearBatchState, Step
  <2>3. ResultOK(t)'
    BY <1>13, <2>1, Working
       DEF WipeCancelled, ClearBatchState, Step, ThreadOK, NodeSteps,
           BatchSteps, FinalizeSteps, Batches, Null
  <2> QED
    BY <2>1, <2>2, <2>3, StoreFrame
<1>14. ASSUME NEW t \in Threads, DiscardCancelled(t) PROVE ResultInv'
  <2>1. UNCHANGED <<rows, booked, status>> /\ checkpoint' \in {0, checkpoint}
    BY <1>14 DEF DiscardCancelled, Step, store, results, batchState, bounds
  <2>2. ASSUME NEW u \in Threads \ {t} PROVE ResultOK(u)'
    BY <1>14, <2>1, ResultFrame DEF DiscardCancelled, Step
  <2>3. ResultOK(t)'
    BY <1>14, <2>1, Working
       DEF DiscardCancelled, Step, ThreadOK, NodeSteps, BatchSteps,
           FinalizeSteps, Batches, Null
  <2> QED
    BY <2>1, <2>2, <2>3, StoreFrame
<1>15. ASSUME NEW t \in Threads, ForgetCancelled(t) PROVE ResultInv'
  <2>1. UNCHANGED <<rows, booked, status>> /\ checkpoint' \in {0, checkpoint}
    BY <1>15 DEF ForgetCancelled, Step, store, results, batchState, bounds
  <2>2. ASSUME NEW u \in Threads \ {t} PROVE ResultOK(u)'
    BY <1>15, <2>1, ResultFrame DEF ForgetCancelled, Step
  <2>3. ResultOK(t)'
    BY <1>15, <2>1, Working
       DEF ForgetCancelled, Step, ThreadOK, NodeSteps, BatchSteps,
           FinalizeSteps, Batches, Null
  <2> QED
    BY <2>1, <2>2, <2>3, StoreFrame
<1>16. ASSUME NEW t \in Threads, PromoteCompleted(t) PROVE ResultInv'
  <2>1. UNCHANGED <<rows, booked, status>> /\ checkpoint' \in {0, checkpoint}
    BY <1>16 DEF PromoteCompleted, Step, store, results, batchState, bounds
  <2>2. ASSUME NEW u \in Threads \ {t} PROVE ResultOK(u)'
    BY <1>16, <2>1, ResultFrame DEF PromoteCompleted, Step
  <2>3. ResultOK(t)'
    BY <1>16, <2>1, Working
       DEF PromoteCompleted, Step, ThreadOK, NodeSteps, BatchSteps,
           FinalizeSteps, Batches, Null
  <2> QED
    BY <2>1, <2>2, <2>3, StoreFrame
<1>17. ASSUME NEW t \in Threads, RecordOutcome(t) PROVE ResultInv'
  <2>1. UNCHANGED <<rows, booked, status>> /\ checkpoint' \in {0, checkpoint}
    BY <1>17 DEF RecordOutcome, Retire, store, results, batchState, bounds
  <2>2. ASSUME NEW u \in Threads \ {t} PROVE ResultOK(u)'
    BY <1>17, <2>1, ResultFrame DEF RecordOutcome, Retire
  <2>3. ResultOK(t)'
    BY <1>17, <2>1, Working
       DEF RecordOutcome, Retire, ThreadOK, NodeSteps, BatchSteps,
           FinalizeSteps, Batches, Null
  <2> QED
    BY <2>1, <2>2, <2>3, StoreFrame
<1>18. ASSUME NEW t \in Threads, NodeFault(t) PROVE ResultInv'
  <2>1. UNCHANGED <<rows, booked, status>> /\ checkpoint' \in {0, checkpoint}
    BY <1>18 DEF NodeFault, FailNode, store, results, batchState, bounds
  <2>2. ASSUME NEW u \in Threads \ {t} PROVE ResultOK(u)'
    BY <1>18, <2>1, ResultFrame DEF NodeFault, FailNode
  <2>3. ResultOK(t)'
    BY <1>18, <2>1, Working
       DEF NodeFault, FailNode, ThreadOK, NodeSteps, BatchSteps,
           FinalizeSteps, Batches, Null, FinishSteps, TailSteps
  <2> QED
    BY <2>1, <2>2, <2>3, StoreFrame
<1>19. ASSUME NEW t \in Threads, GraphFault(t) PROVE ResultInv'
  <2>1. UNCHANGED <<rows, booked, status>> /\ checkpoint' \in {0, checkpoint}
    BY <1>19 DEF GraphFault, store, results, batchState, bounds
  <2>2. ASSUME NEW u \in Threads \ {t} PROVE ResultOK(u)'
    BY <1>19, <2>1, ResultFrame DEF GraphFault
  <2>3. ResultOK(t)'
    BY <1>19, <2>1, Working
       DEF GraphFault, ThreadOK, NodeSteps, BatchSteps, FinalizeSteps,
           Batches, Null, FinishSteps, TailSteps
  <2> QED
    BY <2>1, <2>2, <2>3, StoreFrame
<1>20. ASSUME NEW t \in Threads, FinishFault(t) PROVE ResultInv'
  <2>1. UNCHANGED <<rows, booked, status>> /\ checkpoint' \in {0, checkpoint}
    BY <1>20 DEF FinishFault, Retire, store, results, batchState, bounds
  <2>2. ASSUME NEW u \in Threads \ {t} PROVE ResultOK(u)'
    BY <1>20, <2>1, ResultFrame DEF FinishFault, Retire
  <2>3. ResultOK(t)'
    BY <1>20, <2>1, Working
       DEF FinishFault, Retire, ThreadOK, NodeSteps, BatchSteps,
           FinalizeSteps, Batches, Null, FinishSteps, TailSteps
  <2> QED
    BY <2>1, <2>2, <2>3, StoreFrame
<1>21. ASSUME NEW t \in Threads, CheckNode(t) PROVE ResultInv'
  <2>1. UNCHANGED <<rows, booked, status, checkpoint, node, batch>>
    BY <1>21 DEF CheckNode, store, results, batchState
  <2>2. ASSUME NEW u \in Threads \ {t} PROVE ResultOK(u)'
    BY <1>21, <2>1, ResultFrame DEF CheckNode
  <2>3. pc[t] = "check" /\ (node[t] = "finalize" => Covered(NumBatches))
    BY <1>21 DEF CheckNode, NodeSteps
  <2>4. \/ pc'[t] = "report" /\ outcome'[t] = "cancelled"
        \/ pc'[t] \in {"setup", "book", "body"}
    BY <1>21 DEF CheckNode
  <2>5. ResultOK(t)'
    BY <2>1, <2>3, <2>4 DEF NodeSteps, BatchSteps, FinalizeSteps, Null
  <2> QED
    BY <2>1, <2>2, <2>5, StoreFrame
<1>22. ASSUME NEW t \in Threads, OpenResult(t) PROVE ResultInv'
  <2>1. Driving(t) /\ pc[t] = "open" /\ pc'[t] = "gate" /\ batch'[t] =
       checkpoint
    BY <1>22 DEF OpenResult, Step, Driving, DrivingSteps, NodeSteps
  <2>2. checkpoint' = checkpoint /\ status' = status /\ status # "completed"
    BY <1>22, <2>1 DEF OpenResult, batchState, SingleDriver
  <2>3. Covered(checkpoint)'
    <3>1. CASE checkpoint > 0
      BY <1>22, <2>2, <3>1 DEF OpenResult, CheckpointCovers
    <3>2. CASE checkpoint = 0
      BY <2>2, <3>2 DEF Batches
    <3> QED BY <3>1, <3>2
  <2>4. ASSUME NEW u \in Threads \ {t} PROVE ResultOK(u)'
    <3>1. pc'[u] = pc[u] /\ pc[u] \notin DrivingSteps
      BY <1>22, <2>1 DEF OpenResult, Step, SingleDriver, Driving
    <3> QED BY <3>1, Parked
  <2>5. ResultOK(t)'
    BY <1>22, <2>1, <2>2, <2>3
       DEF OpenResult, ThreadOK, NodeSteps, BatchSteps, FinalizeSteps
  <2> QED
    BY <2>2, <2>3, <2>4, <2>5 DEF CheckpointCovers, CompletedIsComplete
<1>23. ASSUME NEW t \in Threads, AppendRows(t) PROVE ResultInv'
  <2>1. UNCHANGED <<booked, status, checkpoint, node, batch, outcome>>
    BY <1>23 DEF AppendRows, results, batchState
  <2>2. batch[t] \in Batches /\ rows' = [rows EXCEPT ![batch[t]] = @ + 1]
    BY <1>23, Working DEF AppendRows, Step
  <2>3. rows'[batch[t]] > 0 /\ \A b \in Batches : rows[b] > 0 => rows'[b] > 0
    BY <2>2
  <2>4. \A n \in Int : Covered(n) => Covered(n)'
    BY <2>3
  <2>5. ASSUME NEW u \in Threads \ {t} PROVE ResultOK(u)'
    <3>1. pc'[u] = pc[u] /\ pc[u] \notin DrivingSteps
      BY <1>23
         DEF AppendRows, Step, SingleDriver, Driving, DrivingSteps, NodeSteps,
             BatchSteps
    <3> QED BY <3>1, Parked
  <2>6. ResultOK(t)'
    <3>1. Covered(batch[t]) /\ node[t] = "run_batches" /\ pc'[t] = "tally"
      BY <1>23 DEF AppendRows, Step, ThreadOK, BatchSteps
    <3>2. Covered(batch[t])'
      BY <2>1, <3>1, <2>3
    <3> QED BY <2>1, <2>3, <3>1, <3>2 DEF NodeSteps, BatchSteps, FinalizeSteps
  <2> QED
    BY <2>1, <2>3, <2>5, <2>6 DEF CheckpointCovers, CompletedIsComplete
<1>24. ASSUME NEW t \in Threads, SaveCheckpoint(t) PROVE ResultInv'
  <2>1. UNCHANGED <<rows, booked, status, node, batch, outcome>> /\ pc'[t] =
       "log"
    BY <1>24 DEF SaveCheckpoint, results
  <2>2. batch[t] \in Batches /\ checkpoint' = batch[t] + 1 /\ node[t] =
       "run_batches"
    BY <1>24, Working DEF SaveCheckpoint, ThreadOK, BatchSteps
  <2>3. Covered(batch[t]) /\ (batch[t] \in EmptyBatches \/ rows[batch[t]] > 0)
    BY <1>24 DEF SaveCheckpoint, BatchSteps
  <2>4. Covered(batch[t] + 1)
    BY <2>2, <2>3 DEF Batches
  <2>5. ASSUME NEW u \in Threads \ {t} PROVE ResultOK(u)'
    BY <1>24, <2>1, ResultFrame DEF SaveCheckpoint
  <2>6. ResultOK(t)'
    BY <2>1, <2>2, <2>3, <2>4 DEF NodeSteps, BatchSteps, FinalizeSteps
  <2> QED
    BY <2>1, <2>2, <2>4, <2>5, <2>6 DEF CheckpointCovers, CompletedIsComplete
<1>25. ASSUME NEW t \in Threads, BookRun(t) PROVE ResultInv'
  <2>1. UNCHANGED <<rows, status, checkpoint, node, batch>> /\ (booked =>
       booked')
    BY <1>25 DEF BookRun, FailNode, store, results, batchState
  <2>2. pc[t] = "book" /\ node[t] = "finalize" /\ Covered(NumBatches)
    BY <1>25 DEF BookRun, ThreadOK, NodeSteps, FinalizeSteps
  <2>3. \/ pc'[t] = "load" /\ booked' /\ outcome'[t] = Null
        \/ pc'[t] = "report" /\ outcome'[t] = "failed"
    BY <1>25 DEF BookRun, FailNode, ThreadOK, NodeSteps, FinalizeSteps
  <2>4. ASSUME NEW u \in Threads \ {t} PROVE ResultOK(u)'
    <3>1. pc'[u] = pc[u] /\ outcome'[u] = outcome[u]
      BY <1>25 DEF BookRun, FailNode
    <3> QED BY <2>1, <3>1
  <2>5. ResultOK(t)'
    BY <2>1, <2>2, <2>3 DEF NodeSteps, BatchSteps, FinalizeSteps, Null
  <2> QED
    BY <2>1, <2>4, <2>5 DEF CheckpointCovers, CompletedIsComplete
<1>26. ASSUME NEW t \in Threads, SettleOutcome(t) PROVE ResultInv'
  <2>1. UNCHANGED <<rows, booked, checkpoint, node, batch, outcome>>
    BY <1>26 DEF SettleOutcome, store, results, batchState
  <2>2. ASSUME NEW u \in Threads \ {t} PROVE ResultOK(u)'
    BY <1>26, <2>1, ResultFrame DEF SettleOutcome
  <2>3. ResultOK(t)'
    BY <1>26, Parked
       DEF SettleOutcome, DrivingSteps, NodeSteps, BatchSteps, FinalizeSteps,
           FinishSteps
  <2>4. status' = "completed" => booked /\ Covered(NumBatches)
    BY <1>26 DEF SettleOutcome, TargetOf
  <2> QED
    BY <2>1, <2>2, <2>3, <2>4 DEF CheckpointCovers, CompletedIsComplete
<1>27. ASSUME NEW t \in Threads, SpawnThread(t) PROVE ResultInv'
  <2>1. UNCHANGED <<rows, booked, status, checkpoint, batch, outcome>>
    BY <1>27 DEF SpawnThread, results, batchState
  <2>2. ASSUME NEW u \in Threads \ {t} PROVE ResultOK(u)'
    BY <1>27, <2>1, ResultFrame DEF SpawnThread
  <2>3. pc'[t] = "check" /\ node'[t] # "finalize"
    BY <1>27 DEF SpawnThread
  <2>4. ResultOK(t)'
    BY <2>1, <2>3 DEF NodeSteps, BatchSteps, FinalizeSteps
  <2> QED
    BY <2>1, <2>2, <2>4, StoreFrame
<1>28. ASSUME NEW t \in Threads, ReportStep(t) PROVE ResultInv'
  <2>1. UNCHANGED <<rows, booked, status, checkpoint, batch, outcome>> /\
       pc[t] = "report"
    BY <1>28 DEF ReportStep, results, batchState
  <2>2. ASSUME NEW u \in Threads \ {t} PROVE ResultOK(u)'
    BY <1>28, <2>1, ResultFrame DEF ReportStep
  <2>3. CASE outcome[t] = Null
    <3>1. pc'[t] = "check" /\ node'[t] = NextNode[node[t]] /\ node[t] #
         "finalize"
      BY <1>28, <2>3 DEF ReportStep, ThreadOK
    <3>2. node'[t] = "finalize" => Covered(NumBatches)
      BY <2>1, <2>3, <3>1 DEF NextNode, NodeName
    <3>3. ResultOK(t)'
      BY <2>1, <3>1, <3>2 DEF NodeSteps, BatchSteps, FinalizeSteps
    <3> QED
      BY <2>1, <2>2, <3>3, StoreFrame
  <2>4. CASE outcome[t] # Null
    <3>1. pc'[t] = "finish"
      BY <1>28, <2>4 DEF ReportStep
    <3>2. ResultOK(t)'
      BY <2>1, <3>1 DEF NodeSteps, BatchSteps, FinalizeSteps
    <3> QED
      BY <2>1, <2>2, <3>2, StoreFrame
  <2> QED
    BY <2>3, <2>4
<1>29. CASE CreateRun
  <2>1. UNCHANGED <<rows, booked, pc, node, batch, outcome>>
    BY <1>29 DEF CreateRun, store, results
  <2>2. (status' = status \/ status' # "completed") /\ checkpoint' \in
       {checkpoint, 0}
    BY <1>29 DEF CreateRun, store, batchState
  <2> QED
    BY <2>1, <2>2, StoreFrame, ResultFrame
<1>30. CASE CheckStart
  <2>1. UNCHANGED <<rows, booked, pc, node, batch, outcome>>
    BY <1>30 DEF CheckStart, store, results
  <2>2. (status' = status \/ status' # "completed") /\ checkpoint' \in
       {checkpoint, 0}
    BY <1>30 DEF CheckStart, store, batchState
  <2> QED
    BY <2>1, <2>2, StoreFrame, ResultFrame
<1>31. CASE WriteRequest
  <2>1. UNCHANGED <<rows, booked, pc, node, batch, outcome>>
    BY <1>31 DEF WriteRequest, store, results
  <2>2. (status' = status \/ status' # "completed") /\ checkpoint' \in
       {checkpoint, 0}
    BY <1>31 DEF WriteRequest, RequestTarget, store, batchState
  <2> QED
    BY <2>1, <2>2, StoreFrame, ResultFrame
<1>32. CASE RecordSuspension
  <2>1. UNCHANGED <<rows, booked, pc, node, batch, outcome>>
    BY <1>32 DEF RecordSuspension, store, results
  <2>2. (status' = status \/ status' # "completed") /\ checkpoint' \in
       {checkpoint, 0}
    BY <1>32 DEF RecordSuspension, store, batchState
  <2> QED
    BY <2>1, <2>2, StoreFrame, ResultFrame
<1>33. ASSUME NEW r \in Requests, AcceptRequest(r) PROVE ResultInv'
  <2>1. UNCHANGED <<rows, booked, pc, node, batch, outcome>>
    BY <1>33 DEF AcceptRequest, store, results
  <2>2. (status' = status \/ status' # "completed") /\ checkpoint' \in
       {checkpoint, 0}
    BY <1>33 DEF AcceptRequest, store, batchState
  <2> QED
    BY <2>1, <2>2, StoreFrame, ResultFrame
<1>34. ASSUME NEW d \in Discarders, RequestDelete(d) PROVE ResultInv'
  <2>1. UNCHANGED <<rows, booked, pc, node, batch, outcome>>
    BY <1>34 DEF RequestDelete, DiscardStep, store, results
  <2>2. (status' = status \/ status' # "completed") /\ checkpoint' \in
       {checkpoint, 0}
    BY <1>34 DEF RequestDelete, DiscardStep, store, batchState
  <2> QED
    BY <2>1, <2>2, StoreFrame, ResultFrame
<1>35. ASSUME NEW d \in Discarders, CheckDiscard(d) PROVE ResultInv'
  <2>1. UNCHANGED <<rows, booked, pc, node, batch, outcome>>
    BY <1>35 DEF CheckDiscard, DiscardStep, store, results
  <2>2. (status' = status \/ status' # "completed") /\ checkpoint' \in
       {checkpoint, 0}
    BY <1>35 DEF CheckDiscard, DiscardStep, store, batchState
  <2> QED
    BY <2>1, <2>2, StoreFrame, ResultFrame
<1>36. ASSUME NEW d \in Discarders, WriteDiscard(d) PROVE ResultInv'
  <2>1. UNCHANGED <<rows, booked, pc, node, batch, outcome>>
    BY <1>36 DEF WriteDiscard, DiscardStep, store, results
  <2>2. (status' = status \/ status' # "completed") /\ checkpoint' \in
       {checkpoint, 0}
    BY <1>36 DEF WriteDiscard, DiscardStep, store, batchState
  <2> QED
    BY <2>1, <2>2, StoreFrame, ResultFrame
<1>37. ASSUME NEW d \in Discarders, WipeDiscarded(d) PROVE ResultInv'
  <2>1. UNCHANGED <<rows, booked, pc, node, batch, outcome>>
    BY <1>37 DEF WipeDiscarded, DiscardStep, ClearBatchState, store, results
  <2>2. (status' = status \/ status' # "completed") /\ checkpoint' \in
       {checkpoint, 0}
    BY <1>37
       DEF WipeDiscarded, DiscardStep, ClearBatchState, store, batchState
  <2> QED
    BY <2>1, <2>2, StoreFrame, ResultFrame
<1>38. ASSUME NEW d \in Discarders, DiscardDiscarded(d) PROVE ResultInv'
  <2>1. UNCHANGED <<rows, booked, pc, node, batch, outcome>>
    BY <1>38 DEF DiscardDiscarded, DiscardStep, store, results
  <2>2. (status' = status \/ status' # "completed") /\ checkpoint' \in
       {checkpoint, 0}
    BY <1>38 DEF DiscardDiscarded, DiscardStep, store, batchState
  <2> QED
    BY <2>1, <2>2, StoreFrame, ResultFrame
<1>39. ASSUME NEW d \in Discarders, ForgetDiscarded(d) PROVE ResultInv'
  <2>1. UNCHANGED <<rows, booked, pc, node, batch, outcome>>
    BY <1>39 DEF ForgetDiscarded, DiscardStep, store, results
  <2>2. (status' = status \/ status' # "completed") /\ checkpoint' \in
       {checkpoint, 0}
    BY <1>39 DEF ForgetDiscarded, DiscardStep, store, batchState
  <2> QED
    BY <2>1, <2>2, StoreFrame, ResultFrame
<1>40. ASSUME NEW d \in Discarders, DiscardFault(d) PROVE ResultInv'
  <2>1. UNCHANGED <<rows, booked, pc, node, batch, outcome>>
    BY <1>40 DEF DiscardFault, DiscardStep, store, results
  <2>2. (status' = status \/ status' # "completed") /\ checkpoint' \in
       {checkpoint, 0}
    BY <1>40 DEF DiscardFault, DiscardStep, store, batchState
  <2> QED
    BY <2>1, <2>2, StoreFrame, ResultFrame
<1>41. CASE ListExpired
  <2>1. UNCHANGED <<rows, booked, pc, node, batch, outcome>>
    BY <1>41 DEF ListExpired, DiscardStep, store, results
  <2>2. (status' = status \/ status' # "completed") /\ checkpoint' \in
       {checkpoint, 0}
    BY <1>41 DEF ListExpired, DiscardStep, store, batchState
  <2> QED
    BY <2>1, <2>2, StoreFrame, ResultFrame
<1>42. CASE UNCHANGED vars
  <2>1. UNCHANGED <<rows, booked, pc, node, batch, outcome>>
    BY <1>42 DEF vars, store, results
  <2>2. (status' = status \/ status' # "completed") /\ checkpoint' \in
       {checkpoint, 0}
    BY <1>42 DEF vars, store, batchState
  <2> QED
    BY <2>1, <2>2, StoreFrame, ResultFrame
<1>43. CASE Restart
  <2>1. UNCHANGED <<rows, booked, checkpoint>> /\ (status' = status \/ status'
       # "completed")
    BY <1>43 DEF Restart, store, results, batchState
  <2>2. ASSUME NEW u \in Threads PROVE ResultOK(u)'
    BY <1>43, Parked
       DEF Restart, DrivingSteps, NodeSteps, BatchSteps, FinalizeSteps,
           FinishSteps
  <2> QED
    BY <2>1, <2>2, StoreFrame
<1>44. ASSUME NEW t \in Threads, EvidenceFault(t) PROVE ResultInv'
  <2>1. UNCHANGED <<rows, booked, status>> /\ checkpoint' \in {0, checkpoint}
    BY <1>44 DEF EvidenceFault, ClearBatchState, Step, store, results, batchState
  <2>2. ASSUME NEW u \in Threads \ {t} PROVE ResultOK(u)'
    BY <1>44, <2>1, ResultFrame DEF EvidenceFault, ClearBatchState, Step
  <2>3. ResultOK(t)'
    BY <1>44, <2>1, Working
       DEF EvidenceFault, ClearBatchState, Step, ThreadOK, NodeSteps, BatchSteps,
           FinalizeSteps, Batches, Null
  <2> QED
    BY <2>1, <2>2, <2>3, StoreFrame
<1>45. CASE RequestFault
  <2>1. UNCHANGED <<rows, booked, pc, node, batch, outcome>>
    BY <1>45 DEF RequestFault, store, results
  <2>2. (status' = status \/ status' # "completed") /\ checkpoint' \in
       {checkpoint, 0}
    BY <1>45 DEF RequestFault, store, batchState
  <2> QED
    BY <2>1, <2>2, StoreFrame, ResultFrame
<1>46. ASSUME NEW d \in Discarders, FindSuspension(d) PROVE ResultInv'
  <2>1. UNCHANGED <<rows, booked, pc, node, batch, outcome>>
    BY <1>46 DEF FindSuspension, DiscardStep, store, results
  <2>2. (status' = status \/ status' # "completed") /\ checkpoint' \in
       {checkpoint, 0}
    BY <1>46 DEF FindSuspension, DiscardStep, store, batchState
  <2> QED
    BY <2>1, <2>2, StoreFrame, ResultFrame
<1> QED
  BY <1>1, <1>2, <1>3, <1>4, <1>5, <1>6, <1>7, <1>8, <1>9, <1>10, <1>11,
     <1>12, <1>13, <1>14, <1>15, <1>16, <1>17, <1>18, <1>19, <1>20, <1>21,
     <1>22, <1>23, <1>24, <1>25, <1>26, <1>27, <1>28, <1>29, <1>30, <1>31,
     <1>32, <1>33, <1>34, <1>35, <1>36, <1>37, <1>38, <1>39, <1>40, <1>41,
     <1>42, <1>43, <1>44, <1>45, <1>46
     DEF Next, ThreadStep, ThreadFault, LoopStep, DiscarderStep

------------------------------------------------------------------------------
(* The theorems.                                                           *)

LEMMA InitIInv == Init => IInv
<1> SUFFICES ASSUME Init PROVE IInv
  OBVIOUS
<1>1. TypeOK
  BY NumBatchesAssumption, StepNames, NodeNames, BatchFacts
     DEF Init, TypeOK, Outcome, NoRow, Null
<1>2. \A t \in Threads : ThreadOK(t) /\ ResultOK(t) /\ ~Driving(t)
  BY DEF Init, ThreadOK, ResultOK, Driving, DrivingSteps, NodeSteps, BatchSteps,
         FinalizeSteps, FinishSteps
<1>3. SingleDriver /\ LoopOK
  BY <1>2 DEF Init, SingleDriver, LoopOK
<1>4. CheckpointCovers /\ CompletedIsComplete
  BY DEF Init, CheckpointCovers, CompletedIsComplete, Covered, Batches, NoRow
<1> QED
  BY <1>1, <1>2, <1>3, <1>4 DEF IInv, DriverInv, ResultInv

LEMMA Inductive == IInv /\ [Next]_vars => IInv'
  BY TypeStep, ThreadStepOK, DriverStep, ResultStep DEF IInv, DriverInv

\* IInv is an invariant of every behaviour of the run.
THEOREM InvariantHolds == Spec => []IInv
  BY InitIInv, Inductive, PTL DEF Spec

\* Every variable keeps its type: in particular the checkpoint and the batch a
\* worker is at never pass the end of the plan.
THEOREM TypeCorrect == Spec => []TypeOK
<1>1. IInv => TypeOK
  BY DEF IInv, DriverInv
<1> QED
  BY <1>1, InvariantHolds, PTL

\* Whatever the interleaving of handlers, worker threads, DELETE requests and
\* the watchdog, at most one worker streams the run, and never while its status
\* would let a second one start.
THEOREM OneDriver == Spec => []SingleDriver
<1>1. IInv => SingleDriver
  BY DEF IInv, DriverInv
<1> QED
  BY <1>1, InvariantHolds, PTL

\* The checkpoint never counts a batch whose rows are not in the result.
THEOREM CheckpointIsCovered == Spec => []CheckpointCovers
<1>1. IInv => CheckpointCovers
  BY DEF IInv, ResultInv
<1> QED
  BY <1>1, InvariantHolds, PTL

\* A COMPLETED run is booked and its result has the rows of every batch.
THEOREM CompletedRunIsComplete == Spec => []CompletedIsComplete
<1>1. IInv => CompletedIsComplete
  BY DEF IInv, ResultInv
<1> QED
  BY <1>1, InvariantHolds, PTL


------------------------------------------------------------------------------
(***************************************************************************)
(* More about AutoRun, for any number of threads, DELETE requests,         *)
(* batches, exceptions and restarts: what is left of workers that are      *)
(* gone.  A RUNNING run has a worker, promoted pairings come from a run    *)
(* that is complete and over, and how often a batch may be appended.       *)
(*                                                                         *)
(* Each rests on IInv (one driver, honest checkpoints) and on an invariant *)
(* of its own.                                                             *)
(***************************************************************************)

------------------------------------------------------------------------------
(* The invariants.                                                         *)

\* A stop that a worker has seen is still asked for: nothing turns the run back
\* to RUNNING under it.
StopInv ==
  \A t \in Threads :
    Driving(t) /\ outcome[t] \in {"cancelled", "suspended"} => status # "running"

\* No worker, no handler about to start one, and no state from which a request
\* could unless the run is resumable.
Closed ==
  /\ NoDriver
  /\ status \in {"completed", "cancelling", "suspending", "cancelled", "failed"}
  /\ loop \notin {"check", "spawn"}
  /\ loop = "write" => request \notin Spawning \union {"park"}

\* Once pairings are promoted, or about to be, the run is over and complete.
PromotionInv ==
  /\ (promoted # {} \/ \E t \in Threads : pc[t] = "promote") =>
       Closed /\ checkpoint = 0 /\ booked /\ Covered(NumBatches)
  /\ \A t \in Threads :
       pc[t] \in {"report", "finish", "settle"} /\ outcome[t] = "completed" =>
         checkpoint = 0

\* No batch from n on has been appended more than k times.
Fresh(n, k) == \A b \in Batches : b >= n => rows[b] <= k

Settled == \A t \in Threads : pc[t] \notin {"tally", "save"}

\* A worker appends a batch for the (k+1)st time at most.
FreshOK(t, k) ==
  /\ pc[t] \in {"gate", "fetch", "pair", "map", "append", "skip"} => Fresh(batch[t], k)
  /\ pc[t] \in {"tally", "save", "log"} => Fresh(batch[t] + 1, k)

\* Between an append and its checkpoint the next worker would append again.
CheckpointFresh(k) == checkpoint > 0 /\ Settled => Fresh(checkpoint, k)

Appends(k) == Fresh(0, 1 + k) /\ \A t \in Threads : FreshOK(t, k)

AppendInv == Appends(faults + restarts) /\ CheckpointFresh(faults + restarts)

\* A worker has failed, or may still report that it has.
Failing == failedStep # Null \/ \E t \in Threads : outcome[t] = "failed"

\* The plan is gone, and a run that is past planning does not make another one:
\* whoever takes the run up fails at once.
Planless ==
  /\ ~plan
  /\ status \notin {NoRow, "created", "waiting_for_input"}
  /\ loop # "check"
  /\ loop \in {"write", "spawn"} => request \notin {"start", "resolve"}
  /\ \A t \in Threads : Driving(t) =>
       \/ pc[t] \in {"check", "setup"} /\ node[t] = "run_batches"
       \/ pc[t] \in {"report", "finish", "settle"} /\ outcome[t] \in {"failed", "cancelled"}

Stuck == Planless \/ (Closed /\ ~Failing)

Finalizing(t) ==
  \/ pc[t] \in {"load", "unplan"}
  \/ pc[t] \in {"report", "finish", "settle"} /\ outcome[t] = "completed"

\* Without exceptions a run that was interrupted between an append and its
\* checkpoint, or after it was booked, is not taken up again.
CleanInv ==
  faults = 0 =>
    /\ Appends(0)
    /\ Failing => Planless
    /\ booked => Stuck \/ \E t \in Threads : Finalizing(t)
    /\ Stuck \/ CheckpointFresh(0)
------------------------------------------------------------------------------
(* A RUNNING run has a worker.                                             *)

\* A step of the one driver: it goes on driving and leaves the status alone.
LEMMA DriverGoesOn ==
  ASSUME RunningIsDriven, NEW t \in Threads, pc'[t] \in DrivingSteps,
         UNCHANGED status
  PROVE  RunningIsDriven'
  BY DEF RunningIsDriven, Driving

\* A step of a thread after the stream, or of another actor.
LEMMA DriversStay ==
  ASSUME RunningIsDriven, UNCHANGED <<status, loop>>, faults' = 0 => faults = 0,
         \A u \in Threads : Driving(u) => Driving(u)'
  PROVE  RunningIsDriven'
  BY DEF RunningIsDriven

DrivenInv == RunningIsDriven /\ StopInv

LEMMA DrivenStep == IInv /\ DrivenInv /\ [Next]_vars => DrivenInv'
<1> SUFFICES ASSUME IInv, DrivenInv, [Next]_vars PROVE DrivenInv'
  OBVIOUS
<1> USE DEF IInv, DriverInv, TypeOK, DrivenInv, StopInv, DrivingSteps, NodeSteps, BatchSteps,
     FinalizeSteps, FinishSteps, TailSteps, threadVars, actorVars
<1>1. ASSUME NEW t \in Threads,
             CheckNode(t) \/ RunNode(t) \/ PauseNode(t) \/ ReportStep(t)
      PROVE  DrivenInv'
  <2>1. CASE CheckNode(t)
    BY <1>1, <2>1, DriverGoesOn DEF CheckNode, Driving, ThreadOK, Null
  <2>2. CASE RunNode(t) \/ PauseNode(t)
    BY <1>1, <2>2, DriverGoesOn DEF RunNode, PauseNode, Step, Driving, Null
  <2>3. CASE ReportStep(t)
    BY <1>1, <2>3, DriverGoesOn DEF ReportStep, Driving
  <2> QED
    BY <1>1, <2>1, <2>2, <2>3
<1>2. ASSUME NEW t \in Threads,
             ReadPlan(t) \/ OpenResult(t) \/ PassGate(t) \/ Fetch(t) \/ PairValues(t)
      PROVE  DrivenInv'
  BY <1>2, DriverGoesOn
     DEF ReadPlan, OpenResult, PassGate, Fetch, PairValues, Step, FailNode, Driving,
         ThreadOK, Null
<1>3. ASSUME NEW t \in Threads,
             RecordMapping(t) \/ AppendRows(t) \/ MergeSummary(t) \/ SaveCheckpoint(t)
               \/ LogAttempt(t)
      PROVE  DrivenInv'
  BY <1>3, DriverGoesOn
     DEF RecordMapping, AppendRows, MergeSummary, SaveCheckpoint, LogAttempt, Step, Driving
<1>4. ASSUME NEW t \in Threads, BookRun(t) \/ LoadDetail(t) \/ ClearPlan(t)
      PROVE  DrivenInv'
  BY <1>4, DriverGoesOn DEF BookRun, LoadDetail, ClearPlan, FailNode, Step, Driving
<1>5. ASSUME NEW t \in Threads, CheckOutcome(t) PROVE DrivenInv'
  <2>1. CASE Legal(status, TargetOf(outcome[t]))
    BY <1>5, <2>1, DriverGoesOn DEF CheckOutcome, Driving
  <2>2. CASE ~Legal(status, TargetOf(outcome[t]))
    <3>1. Driving(t)
      BY <1>5 DEF CheckOutcome, Driving
    <3>2. outcome[t] \in {"cancelled", "suspended"} \/ status # "running"
      BY <2>2 DEF Legal, TargetOf
    <3>3. status # "running"
      BY <3>1, <3>2
    <3> QED
      BY <1>5, <2>2, <3>3 DEF CheckOutcome, Retire, RunningIsDriven, Driving
  <2> QED
    BY <2>1, <2>2
<1>6. ASSUME NEW t \in Threads, SettleOutcome(t) PROVE DrivenInv'
  <2>1. NoDriver'
    BY <1>6 DEF SettleOutcome, NoDriver, SingleDriver, Driving
  <2>2. status' # "running"
    BY <1>6 DEF SettleOutcome, TargetOf
  <2> QED
    BY <2>1, <2>2 DEF RunningIsDriven, NoDriver
<1>7. ASSUME NEW t \in Threads,
             WipeCancelled(t) \/ DiscardCancelled(t) \/ ForgetCancelled(t)
               \/ PromoteCompleted(t) \/ RecordOutcome(t)
      PROVE  DrivenInv'
  <2>1. \A u \in Threads : (Driving(u) <=> Driving(u)') /\ (Driving(u) => outcome'[u] = outcome[u])
    BY <1>7 DEF WipeCancelled, DiscardCancelled, ForgetCancelled, PromoteCompleted,
                RecordOutcome, Step, Retire, Driving
  <2>2. UNCHANGED <<status, loop, faults>>
    BY <1>7 DEF WipeCancelled, DiscardCancelled, ForgetCancelled, PromoteCompleted,
                RecordOutcome, bounds
  <2> QED
    BY <2>1, <2>2, DriversStay
<1>8. ASSUME NEW t \in Threads, ThreadFault(t) PROVE DrivenInv'
  <2>1. faults' # 0
    BY <1>8 DEF ThreadFault, NodeFault, EvidenceFault, GraphFault, FinishFault
  <2>2. UNCHANGED status
    BY <1>8 DEF ThreadFault, NodeFault, EvidenceFault, GraphFault, FinishFault, FailNode
  <2>3. ASSUME NEW u \in Threads, Driving(u)', outcome'[u] \in {"cancelled", "suspended"}
        PROVE  Driving(u) /\ outcome[u] \in {"cancelled", "suspended"}
    BY <1>8, <2>3 DEF ThreadFault, NodeFault, EvidenceFault, GraphFault, FinishFault, FailNode,
                      Step, Retire, Driving, Null
  <2> QED
    BY <2>1, <2>2, <2>3 DEF RunningIsDriven
<1>17. CASE RequestFault
  <2>1. faults' # 0 /\ UNCHANGED <<status, pc, outcome>>
    BY <1>17 DEF RequestFault
  <2> QED
    BY <2>1 DEF RunningIsDriven, Driving
<1>9. ASSUME NEW t \in Threads, SpawnThread(t) PROVE DrivenInv'
  <2>1. ThreadOK(t) /\ pc[t] = "idle"
    BY <1>9 DEF SpawnThread
  <2> QED
    BY <1>9, <2>1, DriverGoesOn DEF SpawnThread, ThreadOK, Driving, Null
<1>10. CASE WriteRequest
  <2>1. CASE request \in Spawning
    <3>1. NoDriver /\ loop' = "spawn" /\ UNCHANGED pc
      BY <1>10, <2>1 DEF WriteRequest, LoopOK, ContinueRequest, Spawning
    <3> QED
      BY <3>1 DEF RunningIsDriven, NoDriver, Driving
  <2>2. CASE request \notin Spawning
    <3>1. status' # "running"
      BY <1>10, <2>2 DEF WriteRequest, RequestTarget, Spawning
    <3> QED
      BY <3>1 DEF RunningIsDriven
  <2> QED
    BY <2>1, <2>2
<1>11. CASE CreateRun \/ \E d \in Discarders : WriteDiscard(d)
  <2>1. status' # "running"
    BY <1>11 DEF CreateRun, WriteDiscard
  <2> QED
    BY <2>1 DEF RunningIsDriven
<1>12. ASSUME UNCHANGED <<status, pc, outcome, loop>>, faults' = 0 => faults = 0 PROVE DrivenInv'
  BY <1>12, DriversStay DEF Driving
<1>13. CASE CheckStart \/ RecordSuspension \/ \E r \in Requests : AcceptRequest(r)
  <2>1. UNCHANGED <<status, pc, outcome, faults>> /\ loop # "spawn"
    BY <1>13 DEF CheckStart, RecordSuspension, AcceptRequest, bounds
  <2> QED
    BY <2>1 DEF RunningIsDriven, Driving
<1>14. ASSUME NEW d \in Discarders,
              RequestDelete(d) \/ FindSuspension(d) \/ CheckDiscard(d) \/ WipeDiscarded(d) \/ DiscardDiscarded(d)
                \/ ForgetDiscarded(d) \/ DiscardFault(d) \/ ListExpired
       PROVE  DrivenInv'
  BY <1>12, <1>14 DEF RequestDelete, FindSuspension, CheckDiscard, WipeDiscarded, DiscardDiscarded,
                      ForgetDiscarded, DiscardFault, ListExpired, DiscardStep, bounds
<1>15. CASE Restart
  <2>1. status' # "running" /\ NoDriver'
    BY <1>15 DEF Restart, OrphanStates, NoDriver, Driving
  <2> QED
    BY <2>1 DEF RunningIsDriven
<1>16. CASE UNCHANGED vars
  BY <1>12, <1>16 DEF vars, bounds
<1> QED
  BY <1>1, <1>2, <1>3, <1>4, <1>5, <1>6, <1>7, <1>8, <1>9, <1>10, <1>11, <1>13, <1>14, <1>15,
     <1>16, <1>17
     DEF Next, ThreadStep, LoopStep, DiscarderStep, Discarders

------------------------------------------------------------------------------
(* A run that is over stays over.                                          *)

LEMMA ClosedStep ==
  ASSUME TypeOK, Closed, ~Resumable, [Next]_vars
  PROVE  /\ Closed'
         /\ UNCHANGED <<rows, booked>> /\ checkpoint' \in {0, checkpoint}
         /\ promoted' # promoted => \E t \in Threads : pc[t] = "promote"
         /\ \A t \in Threads : /\ pc'[t] = "promote" => pc[t] = "promote"
                               /\ outcome'[t] \in {outcome[t], Null}
         /\ \/ failedStep' \in {failedStep, Null}
            \/ \E t \in Threads : outcome[t] = "failed"
<1> USE DEF TypeOK, Closed, NoDriver, Driving, DrivingSteps, NodeSteps, BatchSteps,
     FinalizeSteps, FinishSteps, TailSteps, store, runRow, batchState, results, pairs,
     threadVars, actorVars
<1> DEFINE Over ==
  /\ Closed'
  /\ UNCHANGED <<rows, booked>> /\ checkpoint' \in {0, checkpoint}
  /\ promoted' # promoted => \E t \in Threads : pc[t] = "promote"
  /\ \A t \in Threads : /\ pc'[t] = "promote" => pc[t] = "promote"
                        /\ outcome'[t] \in {outcome[t], Null}
  /\ \/ failedStep' \in {failedStep, Null}
     \/ \E t \in Threads : outcome[t] = "failed"
<1>1. ASSUME NEW t \in Threads PROVE ~Driving(t)
  OBVIOUS
<1>2. ASSUME NEW t \in Threads, WipeCancelled(t) \/ DiscardCancelled(t) \/ ForgetCancelled(t)
      PROVE  Over
  BY <1>2 DEF WipeCancelled, DiscardCancelled, ForgetCancelled, Step, ClearBatchState,
              DiscardPairs
<1>3. ASSUME NEW t \in Threads, PromoteCompleted(t) PROVE Over
  BY <1>3 DEF PromoteCompleted, Step
<1>4. ASSUME NEW t \in Threads, RecordOutcome(t) PROVE Over
  BY <1>4 DEF RecordOutcome, Retire, UpdateProgress
<1>5. ASSUME NEW t \in Threads, FinishFault(t) PROVE Over
  BY <1>5 DEF FinishFault, Retire
<1>6. ASSUME NEW t \in Threads,
             \/ CheckNode(t) \/ RunNode(t) \/ PauseNode(t) \/ ReportStep(t) \/ ReadPlan(t)
             \/ OpenResult(t) \/ PassGate(t) \/ Fetch(t) \/ PairValues(t) \/ RecordMapping(t)
             \/ AppendRows(t) \/ MergeSummary(t) \/ SaveCheckpoint(t) \/ LogAttempt(t)
             \/ BookRun(t) \/ LoadDetail(t) \/ ClearPlan(t) \/ CheckOutcome(t)
             \/ SettleOutcome(t) \/ NodeFault(t) \/ EvidenceFault(t) \/ GraphFault(t)
      PROVE  FALSE
  BY <1>1, <1>6
     DEF CheckNode, RunNode, PauseNode, ReportStep, ReadPlan, OpenResult, PassGate, Fetch,
         PairValues, RecordMapping, AppendRows, MergeSummary, SaveCheckpoint, LogAttempt,
         BookRun, LoadDetail, ClearPlan, CheckOutcome, SettleOutcome, NodeFault,
         EvidenceFault, GraphFault, Step
<1>7. CASE CreateRun \/ CheckStart \/ \E t \in Threads : SpawnThread(t)
  BY <1>7 DEF CreateRun, CheckStart, SpawnThread, NoRow
<1>8. ASSUME NEW r \in Requests, AcceptRequest(r) PROVE Over
  <2>1. r \in {"cancel", "suspend"}
    BY <1>8 DEF AcceptRequest, Admissible, Requests
  <2> QED
    BY <1>8, <2>1 DEF AcceptRequest, Spawning
<1>9. CASE WriteRequest
  BY <1>9 DEF WriteRequest, RequestTarget, EndRequest, ContinueRequest, Spawning
<1>10. CASE RecordSuspension \/ RequestFault
  BY <1>10 DEF RecordSuspension, RequestFault, EndRequest
<1>11. ASSUME NEW d \in Discarders,
              RequestDelete(d) \/ FindSuspension(d) \/ CheckDiscard(d) \/ WriteDiscard(d) \/ ListExpired
       PROVE  Over
  BY <1>11 DEF RequestDelete, FindSuspension, CheckDiscard, WriteDiscard, ListExpired, DiscardStep
<1>12. ASSUME NEW d \in Discarders,
              WipeDiscarded(d) \/ DiscardDiscarded(d) \/ ForgetDiscarded(d) \/ DiscardFault(d)
       PROVE  Over
  BY <1>12 DEF WipeDiscarded, DiscardDiscarded, ForgetDiscarded, DiscardFault, DiscardStep,
               ClearBatchState, DiscardPairs
<1>13. CASE Restart
  BY <1>13 DEF Restart, EndRequest, OrphanStates
<1>14. CASE UNCHANGED vars
  BY <1>14 DEF vars
<1> QED
  BY <1>2, <1>3, <1>4, <1>5, <1>6, <1>7, <1>8, <1>9, <1>10, <1>11, <1>12, <1>13, <1>14
     DEF Next, ThreadStep, ThreadFault, LoopStep, DiscarderStep, Discarders

\* When the one driver ends, and does not leave the run paused, parked or failed,
\* the run is over.
LEMMA DriverEnds ==
  ASSUME SingleDriver, LoopOK, NEW t \in Threads, Driving(t), pc'[t] \notin DrivingSteps,
         \A u \in Threads \ {t} : pc'[u] = pc[u], UNCHANGED actorVars,
         status' \in {"completed", "cancelling", "suspending", "cancelled", "failed"}
  PROVE  Closed'
<1>1. NoDriver'
  BY DEF SingleDriver, NoDriver, Driving
<1>2. loop \notin {"check", "spawn"} /\ (loop = "write" => request \notin Spawning \union {"park"})
  BY DEF LoopOK, NoDriver
<1> QED
  BY <1>1, <1>2 DEF Closed, actorVars

LEMMA PromotionStep == IInv /\ PromotionInv /\ [Next]_vars => PromotionInv'
<1> SUFFICES ASSUME IInv, PromotionInv, [Next]_vars PROVE PromotionInv'
  OBVIOUS
<1> USE DEF IInv, DriverInv, TypeOK
<1> DEFINE Promoting == promoted # {} \/ \E t \in Threads : pc[t] = "promote"
           Reported(t) == pc[t] \in {"report", "finish", "settle"} /\ outcome[t] = "completed"
<1>1. CASE Promoting
  <2>1. Closed /\ checkpoint = 0 /\ booked /\ Covered(NumBatches) /\ ~Resumable
    BY <1>1 DEF PromotionInv, Resumable
  <2>2. Closed' /\ UNCHANGED <<rows, booked>> /\ checkpoint' = 0
    BY <2>1, ClosedStep
  <2>3. Covered(NumBatches)'
    BY <2>1, <2>2 DEF Covered
  <2> QED
    BY <2>1, <2>2, <2>3 DEF PromotionInv
<1>2. CASE ~Promoting
  <2> USE <1>2 DEF store, runRow, batchState, results, pairs, threadVars, actorVars
  <2> DEFINE Still == /\ promoted' = {}
                      /\ \A t \in Threads : pc'[t] # "promote"
                      /\ \A t \in Threads : Reported(t)' => checkpoint' = 0
  <2>0. \A t \in Threads : pc[t] # "promote" /\ (Reported(t) => checkpoint = 0)
    BY DEF PromotionInv
  <2>1. Still => PromotionInv'
    BY DEF PromotionInv
  <2> USE <2>0
  <2>2. ASSUME NEW t \in Threads,
               CheckNode(t) \/ RunNode(t) \/ PauseNode(t) \/ ReportStep(t) \/ ReadPlan(t)
        PROVE  Still
    <3>1. CASE CheckNode(t) \/ ReportStep(t)
      BY <3>1 DEF CheckNode, ReportStep
    <3>2. CASE RunNode(t) \/ PauseNode(t) \/ ReadPlan(t)
      BY <3>2 DEF RunNode, PauseNode, ReadPlan, FailNode, Step, ThreadOK, NodeSteps, Null
    <3> QED
      BY <2>2, <3>1, <3>2
  <2>3. ASSUME NEW t \in Threads,
               \/ OpenResult(t) \/ PassGate(t) \/ Fetch(t) \/ PairValues(t) \/ RecordMapping(t)
               \/ AppendRows(t) \/ MergeSummary(t) \/ LogAttempt(t)
        PROVE  Still
    BY <2>3 DEF OpenResult, PassGate, Fetch, PairValues, RecordMapping, AppendRows, MergeSummary,
                LogAttempt, Step, ThreadOK, NodeSteps, BatchSteps, Null
  <2>4. ASSUME NEW t \in Threads, SaveCheckpoint(t) PROVE Still
    <3>1. \A u \in Threads \ {t} : ~Driving(u)
      BY <2>4 DEF SaveCheckpoint, SingleDriver, Driving, DrivingSteps, NodeSteps, BatchSteps
    <3>2. \A u \in Threads : ~Reported(u)'
      BY <2>4, <3>1 DEF SaveCheckpoint, Driving, DrivingSteps, NodeSteps, FinishSteps
    <3> QED
      BY <2>4, <3>2 DEF SaveCheckpoint
  <2>5. ASSUME NEW t \in Threads, BookRun(t) \/ LoadDetail(t) \/ ClearPlan(t) PROVE Still
    BY <2>5 DEF BookRun, LoadDetail, ClearPlan, ClearBatchState, FailNode, Step, ThreadOK,
                NodeSteps, FinalizeSteps, Null
  <2>6. ASSUME NEW t \in Threads, CheckOutcome(t) PROVE Still
    BY <2>6 DEF CheckOutcome, Retire
  <2>7. ASSUME NEW t \in Threads, SettleOutcome(t) PROVE PromotionInv'
    <3>1. \A u \in Threads : Reported(u)' => checkpoint' = 0
      BY <2>7 DEF SettleOutcome
    <3>2. CASE outcome[t] # "completed"
      BY <2>1, <2>7, <3>1, <3>2 DEF SettleOutcome
    <3>3. CASE outcome[t] = "completed"
      <4>1. status' = "completed" /\ Driving(t) /\ pc'[t] \notin DrivingSteps
        BY <2>7, <3>3 DEF SettleOutcome, TargetOf, Driving, DrivingSteps, NodeSteps, BatchSteps,
                          FinalizeSteps, FinishSteps
      <4>2. Closed'
        BY <2>7, <4>1, DriverEnds DEF SettleOutcome
      <4>3. booked /\ Covered(NumBatches) /\ checkpoint = 0
        BY <2>7, <3>3 DEF SettleOutcome, ResultInv, ResultOK
      <4>4. booked' /\ Covered(NumBatches)' /\ checkpoint' = 0
        BY <2>7, <4>3 DEF SettleOutcome, Covered
      <4> QED
        BY <3>1, <4>2, <4>4 DEF PromotionInv
    <3> QED
      BY <3>2, <3>3
  <2>8. ASSUME NEW t \in Threads,
               WipeCancelled(t) \/ DiscardCancelled(t) \/ ForgetCancelled(t)
                 \/ PromoteCompleted(t) \/ RecordOutcome(t)
        PROVE  Still
    BY <2>8 DEF WipeCancelled, DiscardCancelled, ForgetCancelled, PromoteCompleted,
                RecordOutcome, Step, Retire, ClearBatchState, DiscardPairs
  <2>9. ASSUME NEW t \in Threads, ThreadFault(t) \/ SpawnThread(t) PROVE Still
    BY <2>9 DEF ThreadFault, NodeFault, EvidenceFault, GraphFault, FinishFault, FailNode, Step,
                Retire, ClearBatchState, SpawnThread
  <2>10. ASSUME UNCHANGED <<promoted, pc, outcome>>, checkpoint' \in {0, checkpoint} PROVE Still
    BY <2>10
  <2>11. CASE CreateRun \/ CheckStart \/ WriteRequest \/ RecordSuspension \/ RequestFault
                \/ \E r \in Requests : AcceptRequest(r)
    <3>1. UNCHANGED <<promoted, pc, outcome, checkpoint>>
      BY <2>11 DEF CreateRun, CheckStart, WriteRequest, RecordSuspension, RequestFault,
                   AcceptRequest
    <3> QED
      BY <2>1, <2>10, <3>1
  <2>12. ASSUME NEW d \in Discarders,
                \/ RequestDelete(d) \/ FindSuspension(d) \/ CheckDiscard(d) \/ WriteDiscard(d) \/ WipeDiscarded(d)
                \/ DiscardDiscarded(d) \/ ForgetDiscarded(d) \/ DiscardFault(d) \/ ListExpired
         PROVE  Still
    BY <2>10, <2>12 DEF RequestDelete, FindSuspension, CheckDiscard, WriteDiscard, WipeDiscarded,
                        DiscardDiscarded, ForgetDiscarded, DiscardFault, ListExpired,
                        DiscardStep, ClearBatchState, DiscardPairs
  <2>13. CASE Restart
    BY <2>1, <2>13 DEF Restart
  <2>14. CASE UNCHANGED vars
    BY <2>1, <2>14 DEF vars
  <2> QED
    BY <2>1, <2>2, <2>3, <2>4, <2>5, <2>6, <2>7, <2>8, <2>9, <2>11, <2>12, <2>13, <2>14
       DEF Next, ThreadStep, LoopStep, DiscarderStep, Discarders
<1> QED
  BY <1>1, <1>2

------------------------------------------------------------------------------
(* How often a batch is appended.                                          *)

LEMMA FreshFrame ==
  ASSUME TypeOK, UNCHANGED rows, NEW k \in Nat, NEW u \in Threads, FreshOK(u, k),
         pc'[u] = pc[u] /\ batch'[u] = batch[u]
  PROVE  FreshOK(u, k)'
  BY DEF FreshOK, Fresh

\* Steps that append nothing, save nothing and take up no result.
LEMMA AppendsKept ==
  ASSUME TypeOK, NEW k \in Nat, Appends(k), UNCHANGED rows, checkpoint' \in {0, checkpoint},
         Settled' => Settled,
         \A u \in Threads :
           \/ pc'[u] = pc[u] /\ batch'[u] = batch[u]
           \/ pc'[u] \notin BatchSteps
           \/ FreshOK(u, k)'
  PROVE  Appends(k)' /\ (CheckpointFresh(k) => CheckpointFresh(k)')
<1>1. ASSUME NEW u \in Threads PROVE FreshOK(u, k)'
  BY <1>1, FreshFrame DEF Appends, FreshOK, BatchSteps
<1> QED
  BY <1>1 DEF Appends, Fresh, CheckpointFresh

LEMMA AppendsStep ==
  ASSUME IInv, NEW k \in Nat, Appends(k), [Next]_vars, UNCHANGED <<faults, restarts>>,
         (\E t \in Threads : pc[t] = "open") => CheckpointFresh(k)
  PROVE  Appends(k)' /\ (CheckpointFresh(k) => CheckpointFresh(k)')
<1> USE DEF IInv, DriverInv, TypeOK, store, runRow, batchState, results, pairs, threadVars,
     actorVars, bounds
<1> DEFINE Kept == Appends(k)' /\ (CheckpointFresh(k) => CheckpointFresh(k)')
<1>1. ASSUME NEW t \in Threads,
             CheckNode(t) \/ RunNode(t) \/ PauseNode(t) \/ ReportStep(t) \/ ReadPlan(t)
      PROVE  Kept
  <2>1. /\ UNCHANGED <<rows, checkpoint, batch>> /\ pc[t] \notin {"tally", "save"}
        /\ pc'[t] \notin BatchSteps /\ \A u \in Threads \ {t} : pc'[u] = pc[u]
    BY <1>1 DEF CheckNode, RunNode, PauseNode, ReportStep, ReadPlan, FailNode, Step, BatchSteps
  <2> QED
    BY <2>1, AppendsKept DEF Settled, BatchSteps
<1>2. ASSUME NEW t \in Threads, OpenResult(t) PROVE Kept
  <2>1. /\ pc[t] = "open" /\ pc' = [pc EXCEPT ![t] = "gate"]
        /\ batch' = [batch EXCEPT ![t] = checkpoint] /\ UNCHANGED checkpoint
        /\ IF checkpoint > 0 THEN rows' = rows ELSE rows' = [b \in Batches |-> 0]
    BY <1>2 DEF OpenResult, Step
  <2>2. Settled
    BY <2>1 DEF SingleDriver, Settled, Driving, DrivingSteps, NodeSteps, BatchSteps
  <2>3. Fresh(checkpoint, k)'
    <3>1. CASE checkpoint > 0
      BY <2>1, <2>2, <3>1 DEF CheckpointFresh, Fresh
    <3>2. CASE checkpoint = 0
      BY <2>1, <3>2 DEF Fresh
    <3> QED
      BY <3>1, <3>2
  <2>4. FreshOK(t, k)'
    BY <2>1, <2>3 DEF FreshOK, Fresh
  <2>5. ASSUME NEW u \in Threads \ {t} PROVE FreshOK(u, k)'
    <3>1. pc'[u] = pc[u] /\ pc[u] \notin BatchSteps
      BY <2>1 DEF SingleDriver, Driving, DrivingSteps, NodeSteps
    <3> QED
      BY <3>1 DEF FreshOK, BatchSteps
  <2>6. Fresh(0, 1 + k)'
    BY <2>1 DEF Fresh, Appends
  <2> QED
    BY <2>3, <2>4, <2>5, <2>6 DEF Appends, CheckpointFresh
<1>3. ASSUME NEW t \in Threads,
             PassGate(t) \/ Fetch(t) \/ PairValues(t) \/ RecordMapping(t) \/ LogAttempt(t)
      PROVE  Kept
  <2>1. UNCHANGED <<rows, checkpoint>> /\ (Settled' => Settled)
    BY <1>3 DEF PassGate, Fetch, PairValues, RecordMapping, LogAttempt, Step, Settled
  <2>2. ASSUME NEW u \in Threads \ {t} PROVE pc'[u] = pc[u] /\ batch'[u] = batch[u]
    BY <1>3 DEF PassGate, Fetch, PairValues, RecordMapping, LogAttempt, Step
  <2>3. FreshOK(t, k)'
    BY <1>3 DEF PassGate, Fetch, PairValues, RecordMapping, LogAttempt, Step, Appends, FreshOK,
                Fresh
  <2> QED
    BY <2>1, <2>2, <2>3, AppendsKept
<1>4. ASSUME NEW t \in Threads, AppendRows(t) PROVE Kept
  <2>1. /\ pc[t] = "append" /\ pc' = [pc EXCEPT ![t] = "tally"] /\ UNCHANGED batch
        /\ rows' = [rows EXCEPT ![batch[t]] = @ + 1]
    BY <1>4 DEF AppendRows, Step
  <2>2. batch[t] \in Batches /\ batch[t] \in Nat /\ Fresh(batch[t], k)
    BY <2>1, Working DEF Appends, FreshOK
  <2>3. Fresh(0, 1 + k)'
    BY <2>1, <2>2 DEF Appends, Fresh, Batches
  <2>4. FreshOK(t, k)'
    BY <2>1, <2>2 DEF FreshOK, Fresh, Batches
  <2>5. ASSUME NEW u \in Threads \ {t} PROVE FreshOK(u, k)'
    <3>1. pc'[u] = pc[u] /\ pc[u] \notin BatchSteps
      BY <2>1 DEF SingleDriver, Driving, DrivingSteps, NodeSteps, BatchSteps
    <3> QED
      BY <3>1 DEF FreshOK, BatchSteps
  <2>6. ~Settled'
    BY <2>1 DEF Settled
  <2> QED
    BY <2>3, <2>4, <2>5, <2>6 DEF Appends, CheckpointFresh
<1>5. ASSUME NEW t \in Threads, MergeSummary(t) PROVE Kept
  <2>1. /\ pc[t] = "tally" /\ pc' = [pc EXCEPT ![t] = "save"]
        /\ UNCHANGED <<rows, checkpoint, batch>>
    BY <1>5 DEF MergeSummary, Step
  <2>2. FreshOK(t, k)' /\ ~Settled'
    BY <2>1 DEF Appends, FreshOK, Fresh, Settled
  <2> QED
    BY <2>1, <2>2, AppendsKept
<1>6. ASSUME NEW t \in Threads, SaveCheckpoint(t) PROVE Kept
  <2>1. /\ pc[t] \in {"skip", "save"} /\ pc' = [pc EXCEPT ![t] = "log"]
        /\ UNCHANGED <<rows, batch>> /\ checkpoint' = batch[t] + 1
    BY <1>6 DEF SaveCheckpoint
  <2>2. Fresh(batch[t] + 1, k)
    BY <2>1 DEF Appends, FreshOK, Fresh, Batches
  <2>3. FreshOK(t, k)' /\ Fresh(checkpoint, k)'
    BY <2>1, <2>2 DEF FreshOK, Fresh
  <2>4. ASSUME NEW u \in Threads \ {t} PROVE FreshOK(u, k)'
    BY <2>1, FreshFrame DEF Appends
  <2> QED
    BY <2>1, <2>3, <2>4 DEF Appends, Fresh, CheckpointFresh
<1>7. ASSUME NEW t \in Threads, BookRun(t) \/ LoadDetail(t) \/ ClearPlan(t) PROVE Kept
  <2>1. /\ UNCHANGED <<rows, batch>> /\ checkpoint' \in {0, checkpoint}
        /\ pc[t] \notin {"tally", "save"} /\ pc'[t] \notin BatchSteps
        /\ \A u \in Threads \ {t} : pc'[u] = pc[u]
    BY <1>7 DEF BookRun, LoadDetail, ClearPlan, ClearBatchState, FailNode, Step, BatchSteps
  <2> QED
    BY <2>1, AppendsKept DEF Settled, BatchSteps
<1>8. ASSUME NEW t \in Threads,
             CheckOutcome(t) \/ SettleOutcome(t) \/ RecordOutcome(t) \/ SpawnThread(t)
      PROVE  Kept
  <2>1. /\ UNCHANGED <<rows, checkpoint>> /\ pc[t] \notin {"tally", "save"}
        /\ pc'[t] \notin BatchSteps
        /\ \A u \in Threads \ {t} : pc'[u] = pc[u] /\ batch'[u] = batch[u]
    BY <1>8 DEF CheckOutcome, SettleOutcome, RecordOutcome, SpawnThread, Retire, BatchSteps
  <2> QED
    BY <2>1, AppendsKept DEF Settled, BatchSteps
<1>9. ASSUME NEW t \in Threads,
             WipeCancelled(t) \/ DiscardCancelled(t) \/ ForgetCancelled(t) \/ PromoteCompleted(t)
      PROVE  Kept
  <2>1. /\ UNCHANGED <<rows, batch>> /\ checkpoint' \in {0, checkpoint}
        /\ pc[t] \notin {"tally", "save"} /\ pc'[t] \notin BatchSteps
        /\ \A u \in Threads \ {t} : pc'[u] = pc[u]
    BY <1>9 DEF WipeCancelled, DiscardCancelled, ForgetCancelled, PromoteCompleted,
                ClearBatchState, Step, BatchSteps
  <2> QED
    BY <2>1, AppendsKept DEF Settled, BatchSteps
<1>10. ASSUME UNCHANGED <<rows, pc, batch>>, checkpoint' \in {0, checkpoint} PROVE Kept
  BY <1>10, AppendsKept DEF Settled
<1>11. ASSUME CreateRun \/ CheckStart \/ WriteRequest \/ RecordSuspension
                \/ \E r \in Requests : AcceptRequest(r)
       PROVE  Kept
  <2>1. UNCHANGED <<rows, pc, batch, checkpoint>>
    BY <1>11 DEF CreateRun, CheckStart, WriteRequest, RecordSuspension, AcceptRequest
  <2> QED
    BY <1>10, <2>1
<1>12. ASSUME NEW d \in Discarders, RequestDelete(d) \/ DiscarderStep(d) \/ ListExpired PROVE Kept
  <2>1. UNCHANGED <<rows, pc, batch>> /\ checkpoint' \in {0, checkpoint}
    BY <1>12 DEF RequestDelete, DiscarderStep, FindSuspension, CheckDiscard, WriteDiscard, WipeDiscarded,
                 DiscardDiscarded, ForgetDiscarded, ListExpired, DiscardStep, ClearBatchState,
                 DiscardPairs
  <2> QED
    BY <1>10, <2>1
<1>13. ASSUME UNCHANGED vars PROVE Kept
  BY <1>10, <1>13 DEF vars
<1>14. /\ ~Restart /\ ~RequestFault /\ \A t \in Threads : ~ThreadFault(t)
       /\ \A d \in Discarders : ~DiscardFault(d)
  BY DEF Restart, ThreadFault, NodeFault, EvidenceFault, GraphFault, FinishFault, DiscardFault,
         RequestFault
<1> QED
  BY <1>1, <1>2, <1>3, <1>4, <1>5, <1>6, <1>7, <1>8, <1>9, <1>11, <1>12, <1>13, <1>14
     DEF Next, ThreadStep, LoopStep, Discarders

\* An exception or a process death appends nothing and is counted.
LEMMA TroubleStep ==
  ASSUME TypeOK, [Next]_vars
  PROVE  \/ UNCHANGED <<faults, restarts>>
         \/ /\ UNCHANGED <<rows, restarts>> /\ checkpoint' \in {0, checkpoint}
            /\ faults' = faults + 1
         \/ Restart
<1> USE DEF TypeOK, store, runRow, batchState, results, pairs, threadVars, actorVars, bounds
<1>1. ASSUME NEW t \in Threads, ThreadFault(t)
      PROVE  UNCHANGED <<rows, restarts>> /\ checkpoint' \in {0, checkpoint} /\ faults' = faults + 1
  BY <1>1 DEF ThreadFault, NodeFault, EvidenceFault, GraphFault, FinishFault, FailNode,
              ClearBatchState
<1>3. CASE RequestFault
  BY <1>3 DEF RequestFault
<1>2. ASSUME NEW d \in Discarders, DiscardFault(d)
      PROVE  UNCHANGED <<rows, restarts>> /\ checkpoint' \in {0, checkpoint} /\ faults' = faults + 1
  BY <1>2 DEF DiscardFault
<1>4. ASSUME NEW t \in Threads, ThreadStep(t) \/ PauseNode(t)
      PROVE  UNCHANGED <<faults, restarts>>
  <2>1. CASE CheckNode(t) \/ RunNode(t) \/ ReportStep(t) \/ ReadPlan(t) \/ OpenResult(t)
               \/ PassGate(t) \/ Fetch(t) \/ PairValues(t) \/ RecordMapping(t) \/ AppendRows(t)
    BY <2>1 DEF CheckNode, RunNode, ReportStep, ReadPlan, OpenResult, PassGate, Fetch,
                PairValues, RecordMapping, AppendRows
  <2>2. CASE MergeSummary(t) \/ SaveCheckpoint(t) \/ LogAttempt(t) \/ BookRun(t)
               \/ LoadDetail(t) \/ ClearPlan(t) \/ CheckOutcome(t) \/ SettleOutcome(t)
    BY <2>2 DEF MergeSummary, SaveCheckpoint, LogAttempt, BookRun, LoadDetail, ClearPlan,
                CheckOutcome, SettleOutcome
  <2>3. CASE WipeCancelled(t) \/ DiscardCancelled(t) \/ ForgetCancelled(t)
               \/ PromoteCompleted(t) \/ RecordOutcome(t) \/ PauseNode(t)
    BY <2>3 DEF WipeCancelled, DiscardCancelled, ForgetCancelled, PromoteCompleted,
                RecordOutcome, PauseNode
  <2> QED
    BY <1>4, <2>1, <2>2, <2>3 DEF ThreadStep
<1>5. CASE CreateRun \/ LoopStep \/ \E r \in Requests : AcceptRequest(r)
  BY <1>5 DEF CreateRun, LoopStep, CheckStart, WriteRequest, RecordSuspension, SpawnThread,
              AcceptRequest
<1>6. ASSUME NEW d \in Discarders, RequestDelete(d) \/ DiscarderStep(d) \/ ListExpired
      PROVE  UNCHANGED <<faults, restarts>>
  BY <1>6 DEF RequestDelete, DiscarderStep, FindSuspension, CheckDiscard, WriteDiscard, WipeDiscarded,
              DiscardDiscarded, ForgetDiscarded, ListExpired
<1>7. CASE UNCHANGED vars
  BY <1>7 DEF vars
<1> QED
  BY <1>1, <1>2, <1>3, <1>4, <1>5, <1>6, <1>7 DEF Next, Discarders

LEMMA AppendStep == IInv /\ AppendInv /\ [Next]_vars => AppendInv'
<1> SUFFICES ASSUME IInv, AppendInv, [Next]_vars PROVE AppendInv'
  OBVIOUS
<1>0. TypeOK /\ TypeOK'
  BY Inductive DEF IInv, DriverInv
<1>1. PICK k \in Nat : k = faults + restarts
  BY <1>0 DEF TypeOK
<1>2. Appends(k) /\ CheckpointFresh(k)
  BY <1>1 DEF AppendInv
<1>3. CASE UNCHANGED <<faults, restarts>>
  <2>1. Appends(k)' /\ CheckpointFresh(k)'
    BY <1>2, <1>3, AppendsStep
  <2>2. k = faults' + restarts'
    BY <1>1, <1>3
  <2> QED
    BY <2>1, <2>2 DEF AppendInv
<1>4. CASE UNCHANGED rows /\ faults' + restarts' = faults + restarts + 1
  <2>1. \A b \in Batches : rows'[b] <= k + 1
    BY <1>2, <1>4 DEF Appends, Fresh, Batches
  <2>2. faults' + restarts' = k + 1 /\ rows' \in [Batches -> Nat]
    BY <1>0, <1>1, <1>4 DEF TypeOK
  <2>3. \A n : Fresh(n, faults + restarts)'
    BY <2>1, <2>2 DEF Fresh
  <2>4. Fresh(0, 1 + (faults + restarts))'
    BY <2>1, <2>2 DEF Fresh
  <2> QED
    BY <2>3, <2>4 DEF AppendInv, Appends, FreshOK, CheckpointFresh
<1>5. CASE Restart
  BY <1>0, <1>4, <1>5 DEF Restart, TypeOK, store, results, batchState
<1>6. CASE UNCHANGED <<rows, restarts>> /\ faults' = faults + 1
  BY <1>0, <1>4, <1>6 DEF TypeOK
<1> QED
  BY <1>0, <1>3, <1>5, <1>6, TroubleStep

------------------------------------------------------------------------------
(* Without exceptions.                                                     *)

\* A run that has lost its plan past planning does not get another one.
LEMMA PlanlessStep ==
  ASSUME IInv, Planless, [Next]_vars, faults' = 0
  PROVE  /\ Planless' /\ UNCHANGED <<rows, booked>>
<1> USE DEF IInv, DriverInv, TypeOK, Planless, Driving, DrivingSteps, NodeSteps, BatchSteps,
     FinalizeSteps, FinishSteps, TailSteps, store, runRow, batchState, results, pairs,
     threadVars, actorVars, bounds
<1> DEFINE Goal == Planless' /\ UNCHANGED <<rows, booked>>
<1>1. ASSUME NEW t \in Threads, CheckNode(t) PROVE Goal
  BY <1>1 DEF CheckNode
<1>2. ASSUME NEW t \in Threads, ReportStep(t) PROVE Goal
  BY <1>2 DEF ReportStep, Null
<1>3. ASSUME NEW t \in Threads, ReadPlan(t) PROVE Goal
  BY <1>3 DEF ReadPlan, FailNode
<1>4. ASSUME NEW t \in Threads, CheckOutcome(t) PROVE Goal
  BY <1>4 DEF CheckOutcome, Retire
<1>5. ASSUME NEW t \in Threads, SettleOutcome(t) PROVE Goal
  BY <1>5 DEF SettleOutcome, TargetOf, NoRow
<1>6. ASSUME NEW t \in Threads,
             \/ RunNode(t) \/ PauseNode(t) \/ OpenResult(t) \/ PassGate(t) \/ Fetch(t)
             \/ PairValues(t) \/ RecordMapping(t) \/ AppendRows(t) \/ MergeSummary(t)
             \/ SaveCheckpoint(t) \/ LogAttempt(t) \/ BookRun(t) \/ LoadDetail(t) \/ ClearPlan(t)
      PROVE  FALSE
  BY <1>6 DEF RunNode, PauseNode, OpenResult, PassGate, Fetch, PairValues, RecordMapping,
              AppendRows, MergeSummary, SaveCheckpoint, LogAttempt, BookRun, LoadDetail,
              ClearPlan, Step
<1>7. ASSUME NEW t \in Threads,
             WipeCancelled(t) \/ DiscardCancelled(t) \/ ForgetCancelled(t) \/ PromoteCompleted(t)
               \/ RecordOutcome(t)
      PROVE  Goal
  BY <1>7 DEF WipeCancelled, DiscardCancelled, ForgetCancelled, PromoteCompleted, RecordOutcome,
              Step, Retire, ClearBatchState, DiscardPairs, PromotePairs, UpdateProgress
<1>8. ~RequestFault /\ \A t \in Threads : ~ThreadFault(t)
  BY DEF RequestFault, ThreadFault, NodeFault, EvidenceFault, GraphFault, FinishFault
<1>9. ASSUME NEW t \in Threads, SpawnThread(t) PROVE Goal
  BY <1>9 DEF SpawnThread, EndRequest, UpdateProgress
<1>10. CASE CreateRun \/ CheckStart
  BY <1>10 DEF CreateRun, CheckStart
<1>11. CASE WriteRequest
  BY <1>11 DEF WriteRequest, RequestTarget, EndRequest, ContinueRequest, NoRow
<1>12. CASE RecordSuspension
  BY <1>12 DEF RecordSuspension, EndRequest
<1>13. ASSUME NEW r \in Requests, AcceptRequest(r) PROVE Goal
  BY <1>13 DEF AcceptRequest, Admissible
<1>14. ASSUME NEW d \in Discarders,
              RequestDelete(d) \/ FindSuspension(d) \/ CheckDiscard(d) \/ WriteDiscard(d) \/ ListExpired
       PROVE  Goal
  BY <1>14 DEF RequestDelete, FindSuspension, CheckDiscard, WriteDiscard, ListExpired, DiscardStep, NoRow
<1>15. ASSUME NEW d \in Discarders,
              WipeDiscarded(d) \/ DiscardDiscarded(d) \/ ForgetDiscarded(d) \/ DiscardFault(d)
       PROVE  Goal
  BY <1>15 DEF WipeDiscarded, DiscardDiscarded, ForgetDiscarded, DiscardFault, DiscardStep,
               ClearBatchState, DiscardPairs
<1>16. CASE Restart
  BY <1>16 DEF Restart, EndRequest, OrphanStates, NoRow
<1>17. CASE UNCHANGED vars
  BY <1>17 DEF vars
<1> QED
  BY <1>1, <1>2, <1>3, <1>4, <1>5, <1>6, <1>7, <1>8, <1>9, <1>10, <1>11, <1>12, <1>13, <1>14,
     <1>15, <1>16, <1>17
     DEF Next, ThreadStep, LoopStep, DiscarderStep, Discarders

\* Where a run is stuck, nothing is appended any more.
LEMMA StuckStep ==
  ASSUME IInv, Stuck, [Next]_vars, faults = 0, faults' = 0, Appends(0), Failing => Planless
  PROVE  Stuck' /\ Appends(0)' /\ (Failing => Planless)'
<1>1. CASE Planless
  <2>1. Planless' /\ UNCHANGED rows
    BY <1>1, PlanlessStep
  <2>2. \A t \in Threads : pc'[t] \notin BatchSteps
    BY <2>1 DEF Planless, Driving, DrivingSteps, NodeSteps, BatchSteps
  <2>3. Appends(0)'
    BY <2>1, <2>2 DEF Appends, Fresh, FreshOK, BatchSteps
  <2> QED
    BY <2>1, <2>3 DEF Stuck
<1>2. CASE Closed /\ ~Failing
  <2>1. ~Resumable /\ TypeOK
    BY <1>2 DEF Failing, Resumable, Null, IInv, DriverInv
  <2>2. Closed' /\ UNCHANGED rows /\ ~Failing'
    BY <1>2, <2>1, ClosedStep DEF Failing, Null
  <2>3. \A t \in Threads : pc'[t] \notin BatchSteps
    BY <2>2 DEF Closed, NoDriver, Driving, DrivingSteps, NodeSteps
  <2>4. Appends(0)'
    BY <2>2, <2>3 DEF Appends, Fresh, FreshOK, BatchSteps
  <2> QED
    BY <2>2, <2>4 DEF Stuck
<1> QED
  BY <1>1, <1>2 DEF Stuck

\* A worker that fails without an exception has found no plan.
LEMMA FailStep ==
  ASSUME IInv, ~Failing, [Next]_vars, faults' = 0, booked => \E t \in Threads : Finalizing(t)
  PROVE  Failing' => Planless'
<1> USE DEF IInv, DriverInv, TypeOK, Failing, store, runRow, batchState, results, pairs,
     threadVars, actorVars, bounds
<1>0. failedStep = Null /\ \A t \in Threads : outcome[t] # "failed"
  OBVIOUS
<1>1. ASSUME NEW t \in Threads, ReadPlan(t) PROVE Failing' => Planless'
  <2>1. CASE plan
    BY <1>0, <1>1, <2>1 DEF ReadPlan, FailNode
  <2>2. CASE ~plan
    <3>1. /\ pc[t] = "setup" /\ pc' = [pc EXCEPT ![t] = "report"]
          /\ outcome' = [outcome EXCEPT ![t] = "failed"] /\ UNCHANGED <<node, status, plan, loop, request>>
      BY <1>1, <2>2 DEF ReadPlan, FailNode
    <3>2. Driving(t)
      BY <3>1 DEF Driving, DrivingSteps, NodeSteps
    <3>3. status \notin {NoRow, "created", "waiting_for_input"}
      BY <3>2 DEF SingleDriver, NoRow
    <3>4. loop # "check" /\ (loop \in {"write", "spawn"} => request \notin {"start", "resolve"})
      BY <3>2 DEF LoopOK, NoDriver, Spawning
    <3>5. \A u \in Threads \ {t} : ~Driving(u)
      BY <3>2 DEF SingleDriver
    <3> QED
      BY <2>2, <3>1, <3>3, <3>4, <3>5 DEF Planless, Driving
  <2> QED
    BY <2>1, <2>2
<1>2. ASSUME NEW t \in Threads, BookRun(t) PROVE ~Failing'
  <2>1. Driving(t) /\ ~Finalizing(t)
    BY <1>2 DEF BookRun, Driving, DrivingSteps, NodeSteps, FinalizeSteps, Finalizing
  <2>2. ~booked
    BY <2>1 DEF SingleDriver, Finalizing, Driving, DrivingSteps, NodeSteps, FinalizeSteps,
                FinishSteps
  <2> QED
    BY <1>0, <1>2, <2>2 DEF BookRun
<1>3. ASSUME NEW t \in Threads,
             \/ CheckNode(t) \/ RunNode(t) \/ PauseNode(t) \/ ReportStep(t) \/ OpenResult(t)
             \/ PassGate(t) \/ Fetch(t)
      PROVE  ~Failing'
  BY <1>0, <1>3 DEF CheckNode, RunNode, PauseNode, ReportStep, OpenResult, PassGate, Fetch, Step,
                    UpdateProgress
<1>4. ASSUME NEW t \in Threads,
             \/ PairValues(t) \/ RecordMapping(t) \/ AppendRows(t) \/ MergeSummary(t)
             \/ SaveCheckpoint(t) \/ LogAttempt(t) \/ LoadDetail(t) \/ ClearPlan(t)
      PROVE  ~Failing'
  BY <1>0, <1>4 DEF PairValues, RecordMapping, AppendRows, MergeSummary, SaveCheckpoint,
                    LogAttempt, LoadDetail, ClearPlan, Step
<1>5. ASSUME NEW t \in Threads,
             \/ CheckOutcome(t) \/ SettleOutcome(t) \/ WipeCancelled(t) \/ DiscardCancelled(t)
             \/ ForgetCancelled(t) \/ PromoteCompleted(t) \/ RecordOutcome(t) \/ SpawnThread(t)
      PROVE  ~Failing'
  BY <1>0, <1>5 DEF CheckOutcome, SettleOutcome, WipeCancelled, DiscardCancelled,
                    ForgetCancelled, PromoteCompleted, RecordOutcome, SpawnThread, Step, Retire,
                    UpdateProgress, Null
<1>6. ASSUME UNCHANGED <<failedStep, outcome>> PROVE ~Failing'
  BY <1>0, <1>6
<1>7. ASSUME CreateRun \/ CheckStart \/ WriteRequest \/ RecordSuspension
               \/ (\E r \in Requests : AcceptRequest(r)) \/ UNCHANGED vars
      PROVE  ~Failing'
  <2>1. UNCHANGED <<failedStep, outcome>>
    BY <1>7 DEF CreateRun, CheckStart, WriteRequest, RecordSuspension, AcceptRequest, vars
  <2> QED
    BY <1>6, <2>1
<1>8. ASSUME NEW d \in Discarders,
             RequestDelete(d) \/ DiscarderStep(d) \/ DiscardFault(d) \/ ListExpired
      PROVE  ~Failing'
  <2>1. UNCHANGED <<failedStep, outcome>>
    BY <1>8 DEF RequestDelete, DiscarderStep, FindSuspension, CheckDiscard, WriteDiscard, WipeDiscarded,
                DiscardDiscarded, ForgetDiscarded, DiscardFault, ListExpired, DiscardStep
  <2> QED
    BY <1>6, <2>1
<1>9. ASSUME Restart PROVE ~Failing'
  BY <1>0, <1>9 DEF Restart, Null
<1>10. ~RequestFault /\ \A t \in Threads : ~ThreadFault(t)
  BY DEF RequestFault, ThreadFault, NodeFault, EvidenceFault, GraphFault, FinishFault
<1> QED
  BY <1>1, <1>2, <1>3, <1>4, <1>5, <1>7, <1>8, <1>9, <1>10
     DEF Next, ThreadStep, LoopStep, Discarders

\* A booked run is being finalized by its one driver, or over when that is gone.
LEMMA BookedStep ==
  ASSUME IInv, ~Failing, [Next]_vars, faults' = 0, booked => \E t \in Threads : Finalizing(t)
  PROVE  booked' => Stuck' \/ \E t \in Threads : Finalizing(t)'
<1> USE DEF IInv, DriverInv, TypeOK, store, runRow, batchState, results, pairs, threadVars,
     actorVars, bounds
<1>1. CASE ~booked
  <2>1. ASSUME NEW t \in Threads, BookRun(t) PROVE Finalizing(t)'
    BY <1>1, <2>1 DEF BookRun, Finalizing
  <2>2. ASSUME \A t \in Threads : ~BookRun(t) PROVE ~booked'
    <3>1. ASSUME NEW t \in Threads, ThreadStep(t) \/ PauseNode(t) \/ ThreadFault(t)
          PROVE  UNCHANGED booked
      BY <2>2, <3>1
         DEF ThreadStep, ThreadFault, CheckNode, RunNode, PauseNode, ReportStep, ReadPlan,
             OpenResult, PassGate, Fetch, PairValues, RecordMapping, AppendRows, MergeSummary,
             SaveCheckpoint, LogAttempt, LoadDetail, ClearPlan, CheckOutcome, SettleOutcome,
             WipeCancelled, DiscardCancelled, ForgetCancelled, PromoteCompleted, RecordOutcome,
             NodeFault, EvidenceFault, GraphFault, FinishFault, FailNode
    <3>2. CASE CreateRun \/ LoopStep \/ RequestFault \/ \E r \in Requests : AcceptRequest(r)
      BY <1>1, <3>2 DEF RequestFault, CreateRun, LoopStep, CheckStart, WriteRequest, RecordSuspension,
                        SpawnThread, AcceptRequest
    <3>3. ASSUME NEW d \in Discarders,
                 RequestDelete(d) \/ DiscarderStep(d) \/ DiscardFault(d) \/ ListExpired
          PROVE  UNCHANGED booked
      BY <3>3 DEF RequestDelete, DiscarderStep, FindSuspension, CheckDiscard, WriteDiscard, WipeDiscarded,
                  DiscardDiscarded, ForgetDiscarded, DiscardFault, ListExpired
    <3>4. CASE Restart \/ UNCHANGED vars
      BY <1>1, <3>4 DEF Restart, vars
    <3> QED
      BY <1>1, <3>1, <3>2, <3>3, <3>4 DEF Next, Discarders
  <2> QED
    BY <2>1, <2>2
<1>2. ASSUME NEW t \in Threads, Finalizing(t)
      PROVE  Finalizing(t)' \/ (Closed' /\ ~Failing')
  <2>1. Driving(t)
    BY <1>2 DEF Finalizing, Driving, DrivingSteps, NodeSteps, FinalizeSteps, FinishSteps
  <2>2. ~NoDriver /\ \A u \in Threads \ {t} : ~Driving(u)
    BY <2>1 DEF SingleDriver, NoDriver
  <2>3. ASSUME pc'[t] = pc[t], outcome'[t] = outcome[t] PROVE Finalizing(t)'
    BY <1>2, <2>3 DEF Finalizing
  <2>4. ASSUME NEW u \in Threads \ {t}, ThreadStep(u) \/ PauseNode(u) PROVE Finalizing(t)'
    <3>1. ASSUME WipeCancelled(u) \/ DiscardCancelled(u) \/ ForgetCancelled(u)
                   \/ PromoteCompleted(u) \/ RecordOutcome(u)
          PROVE  Finalizing(t)'
      BY <2>3, <3>1 DEF WipeCancelled, DiscardCancelled, ForgetCancelled, PromoteCompleted,
                        RecordOutcome, Step, Retire
    <3>2. pc[u] \notin DrivingSteps
      BY <2>2 DEF Driving
    <3> QED
      BY <2>4, <3>1, <3>2
         DEF ThreadStep, CheckNode, RunNode, PauseNode, ReportStep, ReadPlan, OpenResult,
             PassGate, Fetch, PairValues, RecordMapping, AppendRows, MergeSummary,
             SaveCheckpoint, LogAttempt, BookRun, LoadDetail, ClearPlan, CheckOutcome,
             SettleOutcome, Step, DrivingSteps, NodeSteps, BatchSteps, FinalizeSteps, FinishSteps
  <2>5. ASSUME LoadDetail(t) \/ ClearPlan(t) \/ ReportStep(t) PROVE Finalizing(t)'
    BY <1>2, <2>5 DEF LoadDetail, ClearPlan, ReportStep, Step, Finalizing, Null
  <2>6. ASSUME CheckOutcome(t) \/ SettleOutcome(t)
        PROVE  Finalizing(t)' \/ (Closed' /\ ~Failing')
    <3>1. outcome[t] = "completed"
      BY <1>2, <2>6 DEF CheckOutcome, SettleOutcome, Finalizing
    <3>2. CASE pc'[t] = "settle"
      BY <2>6, <3>1, <3>2 DEF CheckOutcome, SettleOutcome, Retire, Finalizing
    <3>3. CASE pc'[t] # "settle"
      <4>1. pc'[t] \notin DrivingSteps
        BY <2>6, <3>1, <3>3
           DEF CheckOutcome, SettleOutcome, Retire, DrivingSteps, NodeSteps, BatchSteps,
               FinalizeSteps, FinishSteps
      <4>2. status' \in {"completed", "cancelling", "suspending", "cancelled"}
        BY <2>1, <2>6, <3>1, <3>3
           DEF CheckOutcome, SettleOutcome, SingleDriver, Legal, TargetOf
      <4>3. Closed'
        BY <2>1, <2>6, <4>1, <4>2, DriverEnds DEF CheckOutcome, SettleOutcome, Retire
      <4>4. ~Failing'
        BY <2>6 DEF CheckOutcome, SettleOutcome, Retire, Failing, Null
      <4> QED
        BY <4>3, <4>4
    <3> QED
      BY <3>2, <3>3
  <2>7. ASSUME ThreadStep(t) \/ PauseNode(t)
        PROVE  LoadDetail(t) \/ ClearPlan(t) \/ ReportStep(t) \/ CheckOutcome(t) \/ SettleOutcome(t)
    BY <1>2, <2>7
       DEF Finalizing, ThreadStep, CheckNode, RunNode, PauseNode, ReadPlan, OpenResult, PassGate,
           Fetch, PairValues, RecordMapping, AppendRows, MergeSummary, SaveCheckpoint, LogAttempt,
           BookRun, WipeCancelled, DiscardCancelled, ForgetCancelled, PromoteCompleted,
           RecordOutcome, Step
  <2>13. ~RequestFault
    BY DEF RequestFault
  <2>8. ASSUME NEW u \in Threads PROVE ~ThreadFault(u) /\ ~SpawnThread(u)
    <3>1. ~ThreadFault(u)
      BY DEF ThreadFault, NodeFault, EvidenceFault, GraphFault, FinishFault
    <3>2. ~SpawnThread(u)
      BY <2>2 DEF SpawnThread, LoopOK
    <3> QED
      BY <3>1, <3>2
  <2>9. ASSUME UNCHANGED <<pc, outcome>> PROVE Finalizing(t)'
    BY <2>3, <2>9
  <2>10. ASSUME CreateRun \/ CheckStart \/ WriteRequest \/ RecordSuspension
                  \/ (\E r \in Requests : AcceptRequest(r)) \/ UNCHANGED vars
         PROVE  Finalizing(t)'
    <3>1. UNCHANGED <<pc, outcome>>
      BY <2>10 DEF CreateRun, CheckStart, WriteRequest, RecordSuspension, AcceptRequest, vars
    <3> QED
      BY <2>9, <3>1
  <2>11. ASSUME NEW d \in Discarders,
                RequestDelete(d) \/ DiscarderStep(d) \/ DiscardFault(d) \/ ListExpired
         PROVE  Finalizing(t)'
    <3>1. UNCHANGED <<pc, outcome>>
      BY <2>11 DEF RequestDelete, DiscarderStep, FindSuspension, CheckDiscard, WriteDiscard, WipeDiscarded,
                   DiscardDiscarded, ForgetDiscarded, DiscardFault, ListExpired, DiscardStep
    <3> QED
      BY <2>9, <3>1
  <2>12. ASSUME Restart PROVE Closed' /\ ~Failing'
    <3>1. status' \in {"failed", "cancelled"}
      BY <2>1, <2>12 DEF Restart, SingleDriver, OrphanStates
    <3>2. NoDriver' /\ loop' = "idle"
      BY <2>12 DEF Restart, EndRequest, NoDriver, Driving, DrivingSteps, NodeSteps, BatchSteps,
                   FinalizeSteps, FinishSteps
    <3>3. ~Failing'
      BY <2>12 DEF Restart, Failing, Null
    <3> QED
      BY <3>1, <3>2, <3>3 DEF Closed
  <2> QED
    BY <2>4, <2>5, <2>6, <2>7, <2>8, <2>10, <2>11, <2>12, <2>13 DEF Next, LoopStep, Discarders
<1> QED
  BY <1>1, <1>2 DEF Stuck

LEMMA CleanStep == IInv /\ CleanInv /\ [Next]_vars => CleanInv'
<1> SUFFICES ASSUME IInv, CleanInv, [Next]_vars, faults' = 0 PROVE CleanInv'
  BY DEF CleanInv
<1>0. TypeOK /\ TypeOK' /\ faults = 0
  <2>1. TypeOK /\ TypeOK'
    BY Inductive DEF IInv, DriverInv
  <2>2. faults' \in {faults, faults + 1}
    BY <2>1, TroubleStep DEF Restart
  <2> QED
    BY <2>1, <2>2 DEF TypeOK
<1>1. /\ Appends(0) /\ (Failing => Planless)
      /\ booked => Stuck \/ \E t \in Threads : Finalizing(t)
      /\ Stuck \/ CheckpointFresh(0)
  BY <1>0 DEF CleanInv
<1>2. CASE Stuck
  BY <1>0, <1>1, <1>2, StuckStep DEF CleanInv
<1>3. CASE ~Stuck
  <2>1. ~Failing /\ CheckpointFresh(0) /\ (booked => \E t \in Threads : Finalizing(t))
    BY <1>1, <1>3 DEF Stuck
  <2>2. /\ Failing' => Planless'
        /\ booked' => Stuck' \/ \E t \in Threads : Finalizing(t)'
    BY <2>1, FailStep, BookedStep
  <2>3. CASE UNCHANGED <<faults, restarts>>
    <3>1. Appends(0)' /\ CheckpointFresh(0)'
      BY <1>1, <2>1, <2>3, AppendsStep
    <3> QED
      BY <2>2, <3>1 DEF CleanInv
  <2>4. CASE Restart
    <3>1. /\ UNCHANGED <<rows, checkpoint>> /\ NoDriver'
          /\ \A t \in Threads : pc'[t] = "idle"
      BY <2>4 DEF Restart, store, results, batchState, NoDriver, Driving, DrivingSteps, NodeSteps,
                  BatchSteps, FinalizeSteps, FinishSteps
    <3>2. Appends(0)'
      BY <1>1, <3>1 DEF Appends, Fresh, FreshOK
    <3>3. CASE Settled
      BY <2>1, <2>2, <3>1, <3>2, <3>3 DEF CleanInv, CheckpointFresh, Fresh
    <3>4. CASE ~Settled
      <4>1. status \in {"running", "cancelling", "suspending", "cancelled"}
        BY <3>4 DEF Settled, IInv, DriverInv, SingleDriver, Driving, DrivingSteps, NodeSteps,
                    BatchSteps
      <4>2. Closed'
        BY <2>4, <3>1, <4>1 DEF Restart, EndRequest, OrphanStates, Closed
      <4>3. ~Failing'
        BY <2>1, <2>4 DEF Restart, store, runRow, Failing, Null
      <4> QED
        BY <3>2, <4>2, <4>3 DEF CleanInv, Stuck
    <3> QED
      BY <3>3, <3>4
  <2> QED
    BY <1>0, <2>3, <2>4, TroubleStep
<1> QED
  BY <1>2, <1>3

------------------------------------------------------------------------------
(* The theorems.                                                           *)

LEMMA InitHistory == Init => DrivenInv /\ PromotionInv /\ AppendInv /\ CleanInv
<1> SUFFICES ASSUME Init PROVE DrivenInv /\ PromotionInv /\ AppendInv /\ CleanInv
  OBVIOUS
<1> USE DEF Init
<1>1. DrivenInv
  BY DEF DrivenInv, RunningIsDriven, StopInv, NoRow, Null
<1>2. PromotionInv
  BY DEF PromotionInv
<1>3. \A n, k : k \in Nat => Fresh(n, k)
  BY DEF Fresh
<1>4. \A k : k \in Nat => Appends(k) /\ CheckpointFresh(k)
  BY <1>3 DEF Appends, FreshOK, CheckpointFresh
<1>5. AppendInv
  BY <1>4 DEF AppendInv
<1>6. CleanInv
  BY <1>4 DEF CleanInv, Failing, Null
<1> QED
  BY <1>1, <1>2, <1>5, <1>6

\* Without exceptions a RUNNING run has a worker, or the handler that has just
\* said RUNNING is about to give it one, through every race with a cancel, a
\* suspend, a DELETE, the watchdog or a process death.
THEOREM RunningHasWorker == Spec => []RunningIsDriven
<1>1. DrivenInv => RunningIsDriven
  BY DEF DrivenInv
<1> QED
  BY <1>1, InvariantHolds, InitHistory, DrivenStep, PTL DEF Spec

\* Pairings are promoted by a run that is booked with a complete result, and
\* nothing that happens to the run later takes that result away.
THEOREM PromotionIsEarned == Spec => []PromotionNeedsCompletion
<1>1. PromotionInv => PromotionNeedsCompletion
  BY DEF PromotionInv, PromotionNeedsCompletion
<1> QED
  BY <1>1, InvariantHolds, InitHistory, PromotionStep, PTL DEF Spec

\* A batch is appended at most once more for each exception and each process
\* death, and never twice where no exception happens.
THEOREM AppendsAreCounted == Spec => []DuplicatesNeedFaults
<1>1. IInv /\ AppendInv /\ CleanInv => DuplicatesNeedFaults
  BY DEF IInv, DriverInv, TypeOK, AppendInv, CleanInv, Appends, Fresh, DuplicatesNeedFaults,
         Batches
<1> QED
  BY <1>1, InvariantHolds, InitHistory, AppendStep, CleanStep, PTL DEF Spec


------------------------------------------------------------------------------
(***************************************************************************)
(* AutoRun implements RunRegistry: whatever a worker thread, a handler, a  *)
(* DELETE request or the watchdog does to the status of the run, it does   *)
(* as a caller of the registry, between whose read and write the others    *)
(* run.  The refinement mapping is `pending` of AutoRun.                   *)
(***************************************************************************)

\* Where each actor stands says what it is about to write.
LEMMA PendingOf ==
  /\ pending = [c \in Actors |-> pending[c]]
  /\ \A t \in Threads :
       pending[t] = IF pc[t] = "settle" THEN TargetOf(outcome[t]) ELSE NotMoving
  /\ pending["loop"] = IF loop = "write" THEN RequestTarget(request) ELSE NotMoving
  /\ \A d \in Discarders :
       pending[d] = IF discarder[d] = "write" THEN "cancelled" ELSE NotMoving
<1>1. pending = [c \in Actors |-> pending[c]]
  BY DEF pending
<1>2. ASSUME NEW t \in Threads
      PROVE  pending[t] = IF pc[t] = "settle" THEN TargetOf(outcome[t]) ELSE NotMoving
  BY ActorsAssumption DEF pending, Actors
<1>3. pending["loop"] = IF loop = "write" THEN RequestTarget(request) ELSE NotMoving
  BY ActorsAssumption DEF pending, Actors
<1>4. ASSUME NEW d \in Discarders
      PROVE  pending[d] = IF discarder[d] = "write" THEN "cancelled" ELSE NotMoving
  BY ActorsAssumption DEF pending, Actors
<1> QED
  BY <1>1, <1>2, <1>3, <1>4

\* ... and after a step.
LEMMA PendingAfter ==
  /\ pending' = [c \in Actors |-> pending'[c]]
  /\ \A t \in Threads :
       pending'[t] = IF pc'[t] = "settle" THEN TargetOf(outcome'[t]) ELSE NotMoving
  /\ pending'["loop"] = IF loop' = "write" THEN RequestTarget(request') ELSE NotMoving
  /\ \A d \in Discarders :
       pending'[d] = IF discarder'[d] = "write" THEN "cancelled" ELSE NotMoving
<1>1. pending' = [c \in Actors |-> pending'[c]]
  BY DEF pending
<1>2. ASSUME NEW t \in Threads
      PROVE  pending'[t] = IF pc'[t] = "settle" THEN TargetOf(outcome'[t]) ELSE NotMoving
  BY ActorsAssumption DEF pending, Actors, TargetOf
<1>3. pending'["loop"] = IF loop' = "write" THEN RequestTarget(request') ELSE NotMoving
  BY ActorsAssumption DEF pending, Actors, RequestTarget
<1>4. ASSUME NEW d \in Discarders
      PROVE  pending'[d] = IF discarder'[d] = "write" THEN "cancelled" ELSE NotMoving
  BY ActorsAssumption DEF pending, Actors
<1> QED
  BY <1>1, <1>2, <1>3, <1>4

\* If only one actor moves, its entry is the only one that changes.
LEMMA OneMoves ==
  ASSUME NEW a \in Actors, \A c \in Actors \ {a} : pending'[c] = pending[c]
  PROVE  pending' = [pending EXCEPT ![a] = pending'[a]]
  BY PendingOf, PendingAfter

LEMMA ThreadMoves ==
  ASSUME NEW t \in Threads, UNCHANGED actorVars,
         \A u \in Threads \ {t} : pc'[u] = pc[u] /\ outcome'[u] = outcome[u]
  PROVE  t \in Actors /\ pending' = [pending EXCEPT ![t] = pending'[t]]
<1>1. \A c \in Actors \ {t} : pending'[c] = pending[c]
  BY PendingOf, PendingAfter DEF Actors, actorVars
<1> QED
  BY <1>1, OneMoves DEF Actors

LEMMA LoopMoves ==
  ASSUME UNCHANGED <<pc, outcome, discarder>>
  PROVE  "loop" \in Actors /\ pending' = [pending EXCEPT !["loop"] = pending'["loop"]]
<1>1. \A c \in Actors \ {"loop"} : pending'[c] = pending[c]
  BY PendingOf, PendingAfter DEF Actors
<1> QED
  BY <1>1, OneMoves DEF Actors

LEMMA DiscarderMoves ==
  ASSUME NEW d \in Discarders, NEW to, UNCHANGED <<threadVars, loop, request>>,
         discarder' = [discarder EXCEPT ![d] = to]
  PROVE  d \in Actors /\ pending' = [pending EXCEPT ![d] = pending'[d]]
<1>1. \A c \in Actors \ {d} : pending'[c] = pending[c]
  BY PendingOf, PendingAfter DEF Actors, threadVars
<1> QED
  BY <1>1, OneMoves DEF Actors

\* A caller that is not about to write, before or after, changes nothing.
LEMMA NotMoved ==
  ASSUME NEW a \in Actors, pending' = [pending EXCEPT ![a] = pending'[a]],
         pending[a] = NotMoving, pending'[a] = NotMoving
  PROVE  UNCHANGED pending
  BY PendingOf, PendingAfter

RegistryStep == [Registry!Next]_<<status, pending>>

LEMMA RegistryStates ==
  /\ Registry!NoRow = NoRow /\ Registry!RunState = RunState
  /\ Registry!NotMoving = NotMoving /\ Registry!OrphanStates = OrphanStates
  /\ \A from, to : Registry!Legal(from, to) <=> Legal(from, to)
  BY DEF Registry!NoRow, NoRow, Registry!RunState, RunState, Registry!NotMoving, NotMoving,
         Registry!OrphanStates, OrphanStates, Registry!Legal, Legal

LEMMA TargetsAreStates ==
  /\ NotMoving \notin RunState
  /\ \A o : TargetOf(o) \in RunState /\ TargetOf(o) # NotMoving
  /\ \A r : RequestTarget(r) \in RunState /\ RequestTarget(r) # NotMoving
  BY DEF RunState, TargetOf, RequestTarget, NotMoving

\* The ways in which an actor's step is a step of the registry.
LEMMA MoveIsRegistryStep ==
  ASSUME NEW a \in Actors, pending' = [pending EXCEPT ![a] = pending'[a]]
  PROVE  /\ UNCHANGED status /\ pending'[a] = pending[a] => RegistryStep
         /\ UNCHANGED status /\ pending'[a] = NotMoving => RegistryStep
         /\ pending[a] = NotMoving /\ pending'[a] \in RunState /\ UNCHANGED status
              /\ Legal(status, pending'[a]) => RegistryStep
         /\ pending[a] # NotMoving /\ pending'[a] = NotMoving /\ status' = pending[a]
              => RegistryStep
<1>1. pending'[a] = pending[a] => UNCHANGED pending
  BY PendingOf, PendingAfter
<1>2. UNCHANGED status /\ pending'[a] = NotMoving => RegistryStep
  BY RegistryStates DEF RegistryStep, Registry!Next, Registry!Abandon
<1>3. pending[a] = NotMoving /\ pending'[a] \in RunState /\ UNCHANGED status
        /\ Legal(status, pending'[a]) => RegistryStep
  BY RegistryStates DEF RegistryStep, Registry!Next, Registry!ReadStatus
<1>4. pending[a] # NotMoving /\ pending'[a] = NotMoving /\ status' = pending[a] => RegistryStep
  BY RegistryStates DEF RegistryStep, Registry!Next, Registry!WriteStatus
<1> QED
  BY <1>1, <1>2, <1>3, <1>4 DEF RegistryStep

\* A thread changes its own locals only.
LEMMA ThreadAlone ==
  ASSUME TypeOK, NEW t \in Threads, ThreadStep(t) \/ PauseNode(t) \/ ThreadFault(t)
  PROVE  /\ UNCHANGED actorVars
         /\ \A u \in Threads \ {t} : pc'[u] = pc[u] /\ outcome'[u] = outcome[u]
<1> USE DEF TypeOK, Step, Retire, FailNode
<1>1. CASE CheckNode(t) \/ RunNode(t) \/ ReportStep(t) \/ ReadPlan(t) \/ OpenResult(t)
             \/ PassGate(t) \/ Fetch(t)
  BY <1>1 DEF CheckNode, RunNode, ReportStep, ReadPlan, OpenResult, PassGate, Fetch
<1>2. CASE PairValues(t) \/ RecordMapping(t) \/ AppendRows(t) \/ MergeSummary(t)
             \/ SaveCheckpoint(t) \/ LogAttempt(t) \/ BookRun(t) \/ LoadDetail(t) \/ ClearPlan(t)
  BY <1>2 DEF PairValues, RecordMapping, AppendRows, MergeSummary, SaveCheckpoint, LogAttempt,
              BookRun, LoadDetail, ClearPlan
<1>3. CASE CheckOutcome(t) \/ SettleOutcome(t) \/ WipeCancelled(t) \/ DiscardCancelled(t)
             \/ ForgetCancelled(t) \/ PromoteCompleted(t) \/ RecordOutcome(t)
  BY <1>3 DEF CheckOutcome, SettleOutcome, WipeCancelled, DiscardCancelled, ForgetCancelled,
              PromoteCompleted, RecordOutcome
<1>4. CASE PauseNode(t) \/ ThreadFault(t)
  BY <1>4 DEF PauseNode, ThreadFault, NodeFault, EvidenceFault, GraphFault, FinishFault
<1> QED
  BY <1>1, <1>2, <1>3, <1>4 DEF ThreadStep

\* Every step of a thread is one of the registry: it reads in CheckOutcome, writes
\* in SettleOutcome, gives up in between or does not touch the status.
LEMMA ThreadIsCaller ==
  ASSUME TypeOK, NEW t \in Threads, ThreadStep(t) \/ PauseNode(t) \/ ThreadFault(t)
  PROVE  RegistryStep
<1>1. t \in Actors /\ pending' = [pending EXCEPT ![t] = pending'[t]]
  BY ThreadAlone, ThreadMoves
<1>2. ASSUME pc'[t] # "settle", UNCHANGED status PROVE RegistryStep
  BY <1>1, <1>2, MoveIsRegistryStep, PendingAfter
<1> USE DEF TypeOK, Step, Retire, FailNode
<1>3. CASE CheckNode(t) \/ RunNode(t) \/ ReportStep(t) \/ ReadPlan(t) \/ OpenResult(t)
             \/ PassGate(t) \/ Fetch(t)
  BY <1>2, <1>3 DEF CheckNode, RunNode, ReportStep, ReadPlan, OpenResult, PassGate, Fetch
<1>4. CASE PairValues(t) \/ RecordMapping(t) \/ AppendRows(t) \/ MergeSummary(t)
             \/ SaveCheckpoint(t) \/ LogAttempt(t) \/ BookRun(t) \/ LoadDetail(t) \/ ClearPlan(t)
  BY <1>2, <1>4 DEF PairValues, RecordMapping, AppendRows, MergeSummary, SaveCheckpoint,
                    LogAttempt, BookRun, LoadDetail, ClearPlan
<1>5. CASE CheckOutcome(t)
  <2>1. CASE Legal(status, TargetOf(outcome[t]))
    <3>1. pending[t] = NotMoving /\ pending'[t] = TargetOf(outcome[t]) /\ UNCHANGED status
      BY <1>5, <2>1, PendingOf, PendingAfter DEF CheckOutcome
    <3> QED
      BY <1>1, <2>1, <3>1, MoveIsRegistryStep, TargetsAreStates
  <2>2. CASE ~Legal(status, TargetOf(outcome[t]))
    BY <1>2, <1>5, <2>2 DEF CheckOutcome
  <2> QED
    BY <2>1, <2>2
<1>6. CASE SettleOutcome(t)
  <2>1. pending[t] = TargetOf(outcome[t]) /\ pending'[t] = NotMoving /\ status' = pending[t]
    BY <1>6, PendingOf, PendingAfter DEF SettleOutcome
  <2> QED
    BY <1>1, <2>1, MoveIsRegistryStep, TargetsAreStates
<1>7. CASE WipeCancelled(t) \/ DiscardCancelled(t) \/ ForgetCancelled(t)
             \/ PromoteCompleted(t) \/ RecordOutcome(t)
  BY <1>2, <1>7 DEF WipeCancelled, DiscardCancelled, ForgetCancelled, PromoteCompleted,
                    RecordOutcome
<1>8. CASE PauseNode(t) \/ ThreadFault(t)
  BY <1>2, <1>8 DEF PauseNode, ThreadFault, NodeFault, EvidenceFault, GraphFault, FinishFault
<1> QED
  BY <1>3, <1>4, <1>5, <1>6, <1>7, <1>8 DEF ThreadStep

LEMMA HandlerIsCaller ==
  ASSUME TypeOK, CreateRun \/ LoopStep \/ RequestFault \/ \E r \in Requests : AcceptRequest(r)
  PROVE  RegistryStep
<1> USE DEF TypeOK, EndRequest, ContinueRequest, threadVars
<1>1. CASE CreateRun
  <2>1. UNCHANGED <<pc, outcome, discarder>> /\ loop = "idle" /\ loop' = "check"
    BY <1>1 DEF CreateRun
  <2>2. UNCHANGED pending /\ "loop" \in Actors
    BY <2>1, LoopMoves, NotMoved, PendingOf, PendingAfter
  <2> QED
    BY <1>1, <2>2, RegistryStates DEF CreateRun, RegistryStep, Registry!Next, Registry!Create
<1>2. ASSUME UNCHANGED <<pc, outcome, discarder, status>>, loop' # "write" PROVE RegistryStep
  BY <1>2, LoopMoves, MoveIsRegistryStep, PendingAfter
<1>3. CASE CheckStart
  <2>1. /\ pending["loop"] = NotMoving /\ pending'["loop"] = RequestTarget(request)
        /\ UNCHANGED <<pc, outcome, discarder, status>>
        /\ Legal(status, RequestTarget(request))
    BY <1>3, PendingOf, PendingAfter DEF CheckStart
  <2> QED
    BY <2>1, LoopMoves, MoveIsRegistryStep, TargetsAreStates
<1>4. ASSUME NEW r \in Requests, AcceptRequest(r) PROVE RegistryStep
  <2>1. /\ pending["loop"] = NotMoving /\ pending'["loop"] = RequestTarget(r)
        /\ UNCHANGED <<pc, outcome, discarder, status>> /\ Legal(status, RequestTarget(r))
    BY <1>4, PendingOf, PendingAfter DEF AcceptRequest
  <2> QED
    BY <2>1, LoopMoves, MoveIsRegistryStep, TargetsAreStates
<1>5. CASE WriteRequest
  <2>1. /\ pending["loop"] = RequestTarget(request) /\ pending'["loop"] = NotMoving
        /\ UNCHANGED <<pc, outcome, discarder>> /\ status' = RequestTarget(request)
    BY <1>5, PendingOf, PendingAfter DEF WriteRequest
  <2> QED
    BY <2>1, LoopMoves, MoveIsRegistryStep, TargetsAreStates
<1>6. CASE RecordSuspension \/ RequestFault
  BY <1>2, <1>6 DEF RecordSuspension, RequestFault
<1>7. ASSUME NEW t \in Threads, SpawnThread(t) PROVE RegistryStep
  <2>1. /\ UNCHANGED <<discarder, outcome, status>> /\ loop = "spawn" /\ loop' = "idle"
        /\ pc[t] = "idle" /\ pc' = [pc EXCEPT ![t] = "check"]
    BY <1>7 DEF SpawnThread
  <2>2. \A c \in Actors : pending'[c] = pending[c]
    BY <2>1, PendingOf, PendingAfter DEF Actors
  <2>3. UNCHANGED pending
    BY <2>2, PendingOf, PendingAfter
  <2> QED
    BY <2>1, <2>3 DEF RegistryStep
<1> QED
  BY <1>1, <1>3, <1>4, <1>5, <1>6, <1>7 DEF LoopStep

LEMMA DiscarderIsCaller ==
  ASSUME TypeOK, NEW d \in Discarders,
         RequestDelete(d) \/ DiscarderStep(d) \/ DiscardFault(d) \/ (d = "watchdog" /\ ListExpired)
  PROVE  RegistryStep
<1> USE DEF TypeOK, DiscardStep
<1>0. ASSUME NEW from, NEW to, DiscardStep(d, from, to)
      PROVE  /\ d \in Actors /\ pending' = [pending EXCEPT ![d] = pending'[d]]
             /\ discarder[d] = from /\ discarder'[d] = to
  BY <1>0, DiscarderMoves
<1>1. ASSUME NEW from, NEW to, DiscardStep(d, from, to), to # "write", UNCHANGED status
      PROVE  RegistryStep
  BY <1>0, <1>1, MoveIsRegistryStep, PendingAfter
<1>2. CASE RequestDelete(d)
  <2>1. PICK to \in {"suspended", "ended"} : DiscardStep(d, "idle", to)
    BY <1>2 DEF RequestDelete
  <2> QED
    BY <1>1, <1>2, <2>1 DEF RequestDelete
<1>8. CASE FindSuspension(d)
  <2>1. PICK from \in {"suspended", "ended"}, to \in {"check", "wipe", "idle"} :
          DiscardStep(d, from, to)
    BY <1>8 DEF FindSuspension
  <2> QED
    BY <1>1, <1>8, <2>1 DEF FindSuspension
<1>3. CASE d = "watchdog" /\ ListExpired
  <2>1. DiscardStep(d, "idle", "check") /\ UNCHANGED status
    BY <1>3 DEF ListExpired
  <2>2. pending'[d] = NotMoving
    BY <1>0, <2>1, PendingAfter
  <2> QED
    BY <1>0, <2>1, <2>2, MoveIsRegistryStep
<1>4. CASE CheckDiscard(d)
  <2>1. CASE Legal(status, "cancelled")
    <3>1. DiscardStep(d, "check", "write") /\ UNCHANGED status
      BY <1>4, <2>1 DEF CheckDiscard
    <3>2. pending[d] = NotMoving /\ pending'[d] = "cancelled"
      BY <1>0, <3>1, PendingOf, PendingAfter
    <3> QED
      BY <1>0, <2>1, <3>1, <3>2, MoveIsRegistryStep, StateNames
  <2>2. CASE ~Legal(status, "cancelled")
    BY <1>1, <1>4, <2>2 DEF CheckDiscard
  <2> QED
    BY <2>1, <2>2
<1>5. CASE WriteDiscard(d)
  <2>1. DiscardStep(d, "write", "wipe") /\ status' = "cancelled"
    BY <1>5 DEF WriteDiscard
  <2>2. pending[d] = "cancelled" /\ pending'[d] = NotMoving
    BY <1>0, <2>1, PendingOf, PendingAfter
  <2> QED
    BY <1>0, <2>1, <2>2, MoveIsRegistryStep, StateNames, TargetsAreStates
<1>6. CASE WipeDiscarded(d) \/ DiscardDiscarded(d) \/ ForgetDiscarded(d)
  BY <1>1, <1>6 DEF WipeDiscarded, DiscardDiscarded, ForgetDiscarded
<1>7. CASE DiscardFault(d)
  <2>1. DiscardStep(d, discarder[d], "idle") /\ UNCHANGED status
    BY <1>7 DEF DiscardFault
  <2> QED
    BY <1>1, <2>1
<1> QED
  BY <1>2, <1>3, <1>4, <1>5, <1>6, <1>7, <1>8 DEF DiscarderStep

LEMMA StepIsRegistryStep == TypeOK /\ [Next]_vars => RegistryStep
<1> SUFFICES ASSUME TypeOK, [Next]_vars PROVE RegistryStep
  OBVIOUS
<1>1. CASE Restart
  <2>1. \A c \in Actors : pending'[c] = NotMoving
    BY <1>1, PendingAfter DEF Restart, EndRequest, Actors
  <2>2. pending' = [c \in Actors |-> NotMoving]
    BY <2>1, PendingAfter
  <2> QED
    BY <1>1, <2>2, RegistryStates DEF Restart, RegistryStep, Registry!Next, Registry!Restart
<1>2. CASE ListExpired
  BY <1>2, DiscarderIsCaller DEF Discarders
<1>3. CASE UNCHANGED vars
  <2>1. \A c \in Actors : pending'[c] = pending[c]
    BY <1>3, PendingOf, PendingAfter DEF vars, threadVars, actorVars, Actors
  <2>2. UNCHANGED pending
    BY <2>1, PendingOf, PendingAfter
  <2> QED
    BY <1>3, <2>2 DEF RegistryStep, vars
<1> QED
  BY <1>1, <1>2, <1>3, ThreadIsCaller, HandlerIsCaller, DiscarderIsCaller DEF Next

\* Every change of a run's status, by any actor and at any time, is a create, a
\* registry transition of that actor or the boot sweep (run_registry.py).
THEOREM RunUsesRegistry == Spec => RegistrySpec
<1>1. Init => Registry!Init
  <2> SUFFICES ASSUME Init PROVE Registry!Init
    OBVIOUS
  <2>1. \A c \in Actors : pending[c] = NotMoving
    BY PendingOf DEF Init, Actors
  <2>2. pending = [c \in Actors |-> NotMoving]
    BY <2>1, PendingOf
  <2> QED
    BY <2>2, RegistryStates DEF Init, Registry!Init
<1>2. TypeOK /\ [Next]_vars => [Registry!Next]_<<status, pending>>
  BY StepIsRegistryStep DEF RegistryStep
<1> QED
  BY <1>1, <1>2, TypeCorrect, PTL DEF Spec, RegistrySpec, Registry!Spec, Registry!vars

------------------------------------------------------------------------------
(* The registry on its own, with one caller: the gap between the read and   *)
(* the write of a transition only matters to a second caller.  (With two,   *)
(* TLC refutes it: RefuteAtomicTransitions.cfg.)                            *)

CONSTANT Callers  \* the callers of the registry on its own

VARIABLE moving   \* the transitions that they are about to write

Alone == INSTANCE RunRegistry WITH pending <- moving

\* What the caller has found legal is still legal when it writes.
StillLegal ==
  /\ Alone!TypeOK
  /\ \A c \in Callers : moving[c] # NotMoving => Legal(status, moving[c])

\* The instances have the same states and edges.
LEMMA SameTable ==
  /\ Alone!NoRow = NoRow /\ Alone!Lifecycle!NoRow = NoRow
  /\ Alone!RunState = RunState /\ Alone!Lifecycle!RunState = RunState
  /\ \A from, to : Alone!Legal(from, to) <=> Legal(from, to)
  /\ \A from, to : Alone!Lifecycle!Legal(from, to) <=> Legal(from, to)
  /\ Alone!NotMoving = NotMoving /\ Alone!OrphanStates = OrphanStates
  BY DEF NoRow, Alone!NoRow, Alone!Lifecycle!NoRow, RunState, Alone!RunState,
         Alone!Lifecycle!RunState, Legal, Alone!Legal, Alone!Lifecycle!Legal,
         NotMoving, Alone!NotMoving, OrphanStates, Alone!OrphanStates

LEMMA StillLegalStep ==
  ASSUME NEW caller, Callers = {caller}
  PROVE  StillLegal /\ [Alone!Next]_<<status, moving>> => StillLegal'
<1> SUFFICES ASSUME StillLegal, [Alone!Next]_<<status, moving>> PROVE StillLegal'
  OBVIOUS
<1> USE SameTable DEF StillLegal, Alone!TypeOK
<1>1. ASSUME NEW c \in Callers, Alone!Create(c) PROVE StillLegal'
  BY <1>1 DEF Alone!Create, Legal, NoRow, RunState
<1>2. ASSUME NEW c \in Callers, NEW to \in RunState, Alone!ReadStatus(c, to)
      PROVE  StillLegal'
  BY <1>2 DEF Alone!ReadStatus
<1>3. ASSUME NEW c \in Callers, Alone!WriteStatus(c) PROVE StillLegal'
  BY <1>3 DEF Alone!WriteStatus, NotMoving
<1>4. ASSUME NEW c \in Callers, Alone!Abandon(c) PROVE StillLegal'
  BY <1>4 DEF Alone!Abandon, NotMoving
<1>5. CASE Alone!Restart
  BY <1>5 DEF Alone!Restart, NotMoving, RunState
<1>6. CASE UNCHANGED <<status, moving>>
  BY <1>6
<1> QED
  BY <1>1, <1>2, <1>3, <1>4, <1>5, <1>6 DEF Alone!Next

LEMMA StepIsLifecycleStep ==
  ASSUME NEW caller, Callers = {caller}
  PROVE  StillLegal /\ [Alone!Next]_<<status, moving>> => [Alone!Lifecycle!Next]_status
<1> SUFFICES ASSUME StillLegal, [Alone!Next]_<<status, moving>>
             PROVE  [Alone!Lifecycle!Next]_status
  OBVIOUS
<1> USE SameTable
    DEF StillLegal, Alone!TypeOK, Alone!Lifecycle!Next, Alone!Lifecycle!Create, Alone!Lifecycle!Move
<1>1. ASSUME NEW c \in Callers, Alone!Create(c) PROVE [Alone!Lifecycle!Next]_status
  BY <1>1 DEF Alone!Create
<1>2. ASSUME NEW c \in Callers, NEW to \in RunState, Alone!ReadStatus(c, to)
      PROVE  [Alone!Lifecycle!Next]_status
  BY <1>2 DEF Alone!ReadStatus
<1>3. ASSUME NEW c \in Callers, Alone!WriteStatus(c) PROVE [Alone!Lifecycle!Next]_status
  BY <1>3 DEF Alone!WriteStatus
<1>4. ASSUME NEW c \in Callers, Alone!Abandon(c) PROVE [Alone!Lifecycle!Next]_status
  BY <1>4 DEF Alone!Abandon
<1>5. CASE Alone!Restart
  BY <1>5 DEF Alone!Restart, OrphanStates, RunState, Legal
<1>6. CASE UNCHANGED <<status, moving>>
  BY <1>6
<1> QED
  BY <1>1, <1>2, <1>3, <1>4, <1>5, <1>6 DEF Alone!Next

\* A registry with one caller implements the lifecycle transition() documents:
\* every change of the status is a create or one legal, atomic move.
THEOREM SingleCallerIsAtomic ==
  ASSUME NEW caller, Callers = {caller}
  PROVE  Alone!Spec => Alone!AtomicTransitions
<1>1. Alone!Init => StillLegal /\ Alone!Lifecycle!Init
  BY SameTable DEF Alone!Init, StillLegal, Alone!TypeOK, Alone!Lifecycle!Init
<1>2. StillLegal /\ [Alone!Next]_<<status, moving>> => StillLegal' /\ [Alone!Lifecycle!Next]_status
  BY StillLegalStep, StepIsLifecycleStep
<1> QED
  BY <1>1, <1>2, PTL
     DEF Alone!Spec, Alone!vars, Alone!AtomicTransitions, Alone!Lifecycle!Spec

=============================================================================
