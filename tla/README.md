# Data-Recon: TLA+ models, model checking and proofs

Data-Recon reconciles two sources of business data (spreadsheets, SAP systems).
A mapping workbook says what belongs together; a language model and a user make of
it columns, keys and operations; values are paired; rows are transformed, joined
and classified, either once (the manual workflow) or batch by batch over the dates
of both sides (an Auto run, which may take hours). Runs are started, asked
questions, suspended, stored, resumed, retried, cancelled and deleted, from pages
and from a chat, while worker threads, an event loop, a threadpool and a watchdog
all write to the same SQLite files and the process may stop at any time.

Paths below are relative to `src/backend/` unless they begin with `src/`.

1. [Inventory](#1-inventory)
2. [Modules and how they correspond to the code](#2-modules-and-how-they-correspond-to-the-code)
3. [What the runs check](#3-what-the-runs-check)
4. [Bounds, symmetry, fairness, deadlock](#4-bounds-symmetry-fairness-deadlock)
5. [What is proved](#5-what-is-proved)
6. [Disagreements](#6-disagreements)
7. [Not modelled](#7-not-modelled)
8. [Plan](#8-plan)
9. [Running it](#9-running-it)

## 1. Inventory

`PROJECT.json` lists every component with its sources and every hazard with its
line. The ones with behaviour worth a model:

| component | code | state it keeps | operations |
|---|---|---|---|
| run registry | `recon_engine/run_registry.py` | `pipeline_runs.status`, `run_transitions` | `create`, `transition`, `sweep_orphans`, `is_cancelling`, `is_suspending` |
| Auto-run pipeline | `recon_engine/auto_pipeline/`, `routes/auto_pipeline.py` | LangGraph checkpoints, progress columns of `pipeline_runs` | start, resolve, retry, resume, suspend, park, cancel, delete; seven nodes; the batch loop |
| run persistence | `recon_engine/storage/{pipeline_run_store,run_value_mapping_store,result_store,frames}.py` | plan, checkpoint, attempts, suspensions, streaming result, value-mapping totals, `runs` | one transaction (or one file append) each |
| watchdog and boot | `main.py` | none of its own | `_sweep_expired_suspensions`, `clear_expired`, `sweep_orphans`, unbinding of sessions |
| value-pair library | `recon_engine/storage/value_pair_store.py` | `value_pair_library` | lookup, `propose`, `promote_run`, `discard_run`, delete, flush |
| value pairing | `recon_engine/value_pairing/` | candidates of each batch | lookup, discovery, verification, corroboration, merge |
| LLM client | `recon_engine/llm/` | circuit breaker, per-context outcome | providers in order, fail-over, call log |
| date batches and fetch | `recon_engine/date_batch_planning.py`, `API_conn/` | none; metadata cache | `plan_batches`, paged and joined fetch |
| identification and schema | `recon_engine/sheet_identifier.py`, `entity_join_parser.py`, `field_roles.py`, nodes 1 to 5 | answers of the user | resolve entities, keys, columns; ask |
| mapping workbook to recipe | `recon_engine/interface_index.py`, `mapping_sheet_parser.py`, `mapping_resolution.py`, `compiler/` | none | index, parse, five model calls, compile |
| manual workflow | `recon_engine/service.py` and its stores, `scripting/` | contracts, previews, approvals, snapshots, runs, results, shadows, audit | approve, review, preview, reject, run, export, expire |
| reconciliation engine | `recon_engine/engine/`, `operations/`, `validation/` | none | gates, executor, join, export |
| chat assistant | `recon_engine/chat_assistant/` | sessions, pending confirmations, pending name | `handle_message` with its gates; start, resume, cancel, retry, replace a run |
| wizard | `src/frontend/src/reconciliation/` | one reducer, requests under way | five pages, invalidation, polling of an Auto run |

How they interact:

```
 wizard ─HTTP─> event loop ──to_thread──> worker thread: stream of the graph
 chat   ─HTTP─>     │                          │  gates read the status
   │                │                          │  identify, resolve, ask the user
   │ manual         │                          │  batch loop ── fetch ── SAP
   v                │                          │            └── pairing ── LLM client
 service.py ────────┤                          │                     └──── pair library
 (threadpool)       │                          │  _finish: transition, promote or clean up
 DELETE ────────────┤                          │
 watchdog ──────────┤                          v
                    └──> SQLite: every table above; files: frames, payloads
 boot: sweep_orphans ───────────┘
```

All communication is through the store. Nobody holds a lock across two calls, and
`transition()` reads the status outside of the transaction that writes it.

What is hard here, and what makes each component correct:

- **Run registry.** Reads and writes of several actors interleave. A status only
  changes along an edge of the table (it does not, section 6), and after a boot no
  run claims a worker it does not have.
- **Auto-run pipeline.** At most one worker drives a run whatever requests come; a
  checkpoint never counts a batch whose rows are not in the result; COMPLETED
  means complete; a resume neither skips nor repeats a batch; a run ends; requests to
  stop take effect; nothing provisional is published by a run that did not complete.
- **Pair library and pairing.** Guesses of an unfinished run stay its own, a pair
  another run relies on outlives the run that found it, shared pairs are vouched
  for, although `propose` is a SELECT and then a write; a pair is what a chain of
  operations yields, never the model's word; several batches give one answer a value.
- **Batches.** Windows partition the dates within two limits that meet at their
  boundaries, and each dated row is fetched by exactly one window.
- **Identification.** What is fetched exists and is in the sheet; an answer reaches
  the question it was given to although a node that asks is run from its start.
- **Workbook to recipe.** The sheet in use is a picked interface's though picks, answers
  and departures from the page cross; lists that five model calls pass along by
  position stay aligned; no instruction disappears.
- **Manual workflow.** What runs is what was reviewed, a veto holds, a completed run
  is complete and its replay reproduces it, a live shadow can be read.
- **Engine.** No raw row is lost without a trace unless a key has a null, a gated
  recipe does not fail for want of a column, and the join is exact.
- **Chat.** One binding and at most one question a session; the question is about
  the bound run though the world moves while it waits; a session turns from a live
  run only through the registry's gap; a question ends.
- **Wizard.** While answers to earlier requests are still under way, an automatic
  approval uses the steps the sheet was resolved to, and no re-resolve overwrites
  steps that were there when it was asked for.

## 2. Modules and how they correspond to the code

`PROJECT.json`'s `map` names, for each definition, the lines it stands for.

| module | what it is |
|---|---|
| `RunStates` | the states of a run and the transition table (`_TRANSITIONS`) |
| `RunLifecycle` | abstract: what the registry promises of one run's status |
| `RunRegistry` | the registry as it runs: a read, then an unconditional write, for several callers |
| `AutoRun` | one Auto run with all of its actors; implements `RunRegistry` |
| `ValuePairLibrary` | the pair library under several runs and requests |
| `LLMClient` | one request to the model: providers, breaker, recorded outcome |
| `Pairing` | the values of a field pair, batch by batch; composes `LLMClient` |
| `BatchPlan` | the planning loop, and the batches value pairing makes of the plan |
| `BatchFetch` | what the windows of a plan fetch, paged and joined; composes `BatchPlan` |
| `SheetIdentification` | what a sheet says of a side, gated against live metadata |
| `AutoPlanning` | identification, resolution and the questions of an Auto run; composes `SheetIdentification` |
| `Positions` | the elements of a list at a set of places, which is what a filtering loop keeps |
| `MappingSheet` | interface index and worksheet parser |
| `Authoring` | from a workbook to a recipe or a draft contract; composes `MappingSheet` |
| `ReconService` | the manual workflow: contracts, scripts, runs, shadows under several calls |
| `Engine` | gates, executor, reconciler and export on small frames |
| `ChatSession` | sessions, questions, names and the runs they are bound to |
| `Wizard` | reducer, pages and requests of the web front end |
| `AutoRunProofs` | safety of `AutoRun`; it implements `RunRegistry`; a registry with one caller implements `RunLifecycle` |
| `RowPathProofs` | the path of a row: safety of `Authoring`, of `BatchPlan` with `BatchFetch`, and of `Engine`, which share the lemmas on lists |
| `ValuePairProofs`, `PairingProofs`, `AutoPlanningProofs`, `ReconServiceProofs`, `ChatSessionProofs`, `WizardProofs` | safety of the module they are named after |
| `MC*` | model values, small inputs and symmetry sets for TLC |

Layers: `RunStates` is below everything. `RunLifecycle` ← `RunRegistry` (a
refinement that holds for one caller and is refuted for two) ← `AutoRun` (proved
refinement, `RegistrySpec`). `ChatSession` uses the same states with a coarser run:
its `EndWorker` stands for a whole stream of the graph and chooses among the
outcomes `_finish` can be given. The gap of `transition()` is there too: a worker ends
with an outcome legal from the status now or from a RUNNING it read before, and
DELETE and the watchdog read (`ReadStored`) before they write (`Discard`).

**AutoRun.** Every table is keyed by `graph_run_id`, so one run is modelled. A step
is one database transaction or one file append, because a thread can be preempted
between any two of these and nowhere else with an effect.

| actor | in the model | in the code |
|---|---|---|
| worker threads | `pc[t]`, `node[t]`, `batch[t]`, `outcome[t]` | `graph.run_to_next_pause` and the functions that resume it, run by `asyncio.to_thread`; `_finish` / `_fail_hard` |
| event loop | `loop`, `request` | the async routes; they do not await between accepting a request and ending it, so one runs at a time |
| DELETE | `discarder[d]` | `delete_stored_run`, a sync route in FastAPI's threadpool, which reads the run's row and then its suspension row |
| watchdog | `discarder["watchdog"]` | `_sweep_expired_suspensions` in `main.py` |
| process | `Restart` | death of the process, then `sweep_orphans` at boot |

A node is: the cancel gate (`check`), its body, and the report. `run_batches`
is unfolded: `setup` (read plan and checkpoint), `open` (start a new result or
take up the old one), then for each batch `gate` (cancel and suspend), `fetch`,
`pair`, `map`, `append`, `tally`, `save`, `log`; `skip` for a batch in which both
sides are empty. `finalize` is `book`, `load`, `unplan`. After the stream come
`finish` and `settle` (the read and the write of the transition) and then, by the
outcome, `wipe`, `discard`, `forget`, or `promote`, or `progress`. An exception is one
of `NodeFault`, `GraphFault` and `FinishFault` (in a node, in the stream's bookkeeping, in `_finish`),
`EvidenceFault` (clearing the corroboration evidence after the plan is gone), `RequestFault`
(in a handler of the event loop, also after it wrote the status and before it
started the worker: `routes/auto_pipeline.py:388-398`, 466-476, 512-522) and
`DiscardFault`, each handled as the code handles it. What the first
nodes compute is `AutoPlanning`; here their outcome is success, failure or question.

**ValuePairLibrary.** Workers are Auto runs and Manual requests. A batch is
`StartBatch` (the lookup and the pairs discovered beyond it) and then, a pair at a time,
`propose` in its separate statements: `FindPair` (SELECT), `InsertPair` or
`PromotePair`, `GetPair`. A run is discarded by its own worker or, later and by
another thread, by DELETE or the watchdog (`RequestDiscard`, `DiscardStored`), a retry
of it possibly in between. `relied`, `discovered` and `erased` record what the
properties compare.

**Pairing** has one caller and a library that earlier callers filled: candidates from
the library and by equality, a question to the model for what is left (with the
retries and the failure of `LLMClient`), verification of each claim in both
directions by re-execution, the trial of confirmed chains on other values, and, for
a Manual request, the merge of the batches.

**BatchPlan, BatchFetch.** One step is one turn of the loop over the sorted dates.
`Cut` contains both comparisons, `Fill` the counters and their reset. `BatchFetch`
adds a source that is one entity or a join of two, and what `_build_joined` fetches
for each window, page by page.

**AutoPlanning** runs `identify`, `resolve_schema` and the nodes after it against a
connector whose metadata may change and whose cache is lost at a restart. A node
that asks is run again from its start; `answers` holds what the user gave, `taken`
which question took which. `SheetIdentification` follows `sheet_identifier.py`: a
side that mentions no join and no field is `Silent` and has no entity, a field that
is the planning area itself is stripped, and a join's keys are pairs of a left and a
right field, each verified on its own entity.

**Authoring** follows a workbook: index, picks of interfaces, the parse of each, then
either the five calls of `resolve_mapping` or `compile_draft`. Several picks may be
under way; their answers land in any order, fail, bring an empty worksheet or find the
page left (`Pick`, `Revisit`, `Parse`; `mishap` marks the last three). A header
condition is kept if its text appears in the preamble (`AppearsIn`, a constant: the
code compares normalized substrings). Each call may fail or answer anything of its
answer set.

**ReconService.** Each request is a call on a thread, in steps between store calls;
a call may raise or the process may die between any two. The shadow of rules at an
anchor date is `Shadow(rules, anchor)`, so two shadows are the same exactly if rules
and, for rolling rules, dates are. `vetoed` and `completedLog` are what the audit
trail says.

**Engine.** A frame is a set of columns and a sequence of rows, a row carries the ids
of the raw rows it came from. One step is one operation of the executor, or one stage.
Two things are pandas' and constants of the model: which groups with a null in their
key the executor does not find again (`Unfound`, after `executor.py:526-528` and
562-566), whose raw rows `nulled` collects, and which values an operation raises on
(`RaisesOn`: an infinity as a key, a text into a column of integers). `raised` tells
a missing column from a value.

**ChatSession.** `handle_message` runs on the event loop without awaiting, so
messages do not interleave with one another; workers, DELETE and expiry do, between
reading the active run and acting on it. The steps of a turn: gates (`Decline`,
`Choose`, `Name`, `Receive`), then `CancelRun`, `RetryRun`, `Reply`, `Ask`,
`Proceed`, or `ReplaceRun` and `Start`. Questions of a session lapse in the order
in which they were asked, since all have the same time to live. `discarding` is who
read a stored run and has not written yet, `overruled` which status was last written
by someone who had checked an older one (`Move` and `Overrule`).

**Wizard.** The reducer is one operator per kind of action; the handlers and effects
of the pages send requests, whose answers land in whatever state the wizard is in by
then. `late` marks what such an answer stored after its inputs had changed. A recipe
is empty, seeded by a resolution (which may have no steps to seed it with, since
compare operations are dropped), edited by the user, or emptied by the user.

## 3. What the runs check

| run | properties | shows |
|---|---|---|
| `auto_run_safety` | `SingleDriver`, `CheckpointCovers`, `CompletedIsComplete`, `DuplicatesNeedFaults`, `PromotionNeedsCompletion`, `RunningIsDriven` | with an exception anywhere, a process death, and a DELETE before that: one driver, honest checkpoints, complete results, duplicates only after exceptions, promotion only of complete runs, a worker for a RUNNING run |
| `auto_run_liveness` | `RunningEnds`, `StopsInLoopHonoured`, `SuspendedExpires`, `RegistrySpec` | under fair scheduling a run ends, stop requests that find the batch loop take effect, a stored run is resumed or discarded; every change of the status is a step of `RunRegistry` |
| `value_pairs` | `GuessesStayPrivate`, `UsedPairsSurvive`, `PromotedIsVouched` | two runs and a request that discover the same pair at once; complete, fail, retry, are discarded by themselves or by someone else later, lose the process |
| `pairing` | `EveryValueOnce`, `LaterBatchesReuse`, `PairsAreGrounded` | arbitrary claims of the model, failing providers, retries, deletions between batches |
| `batch_plan` | `DatesPartitioned`, `WindowsBounded`, `RowsInOneBatch`, `RowsFetchedOnce` | all plans and all joined sources within the bounds |
| `auto_planning` | `EntitiesAreEvidenced`, `ResolvedIsLive`, `AnswersFitQuestions` | sheets that name, mention or imply entities, metadata that changes, questions and re-executions |
| `authoring` | `PickedIsParsed`, `AnswersAreGrounded`, `BucketedGroupsAreBonded`, `InstructionsKept` | workbooks with names that collide, two picks whose answers cross, misaligned answers, both compilers |
| `recon_service` | `ReviewedIsRun`, `ReplayReproduces`, `CompletionIsTrue`, `LiveShadowReadable`, `VetoHolds` | two calls at a time over contracts, scripts, runs and shadows, with exceptions, crashes and passing days |
| `engine` | `RowsAccounted`, `FailsOnlyOnValues`, `JoinIsExact` | every recipe of up to two operations over every frame of the instance, nulls, an infinity and unreadable dates among the values |
| `chat_session` | `AnswerMeetsItsQuestion`, `NeverDropsALiveRun`, `ConfirmationEnds` | two sessions, the pages, workers and discards act on two runs |
| `wizard` | `EditsAreKept`, `AutoRunUsesSteps` | contract, script and Auto flows with two requests under way and up to three changes by the user |
| `refute_atomic_transitions` | `AtomicTransitions` | two callers take a run along an edge the table forbids (section 6) |

For each property of a passing run `PROJECT.json` names a mutant, a plausible bug
in the code (a missing reset, a dropped restriction of an UPDATE, two calls the
wrong way round) under which TLC finds the property violated. The mutants stand
in the modules above the definitions they change, marked `Mutant:`.

Some properties are stated with a condition, and the condition is the point:

- `DuplicatesNeedFaults` allows one more append of a batch for each exception and
  each process death, and none before the first exception. A tighter bound, by
  exceptions alone, is wrong: a worker that failed may still have to record its
  outcome when the retry of its run has begun; that late write marks the run as
  failed in its batches, and if the process then dies, a second retry is allowed and
  appends the batch a third time, after a single exception.
- `RunningIsDriven` is about runs without exceptions. An exception inside `_finish`, or
  in a handler that wrote RUNNING, leaves a RUNNING run without a worker; the code has nothing to repair that
  before the next boot.
- `StopsInLoopHonoured` asks for a batch other than the last one when the request is
  a suspend.
- `SuspendedExpires` is about a run that has its suspension row and that no
  earlier, slower discard is still wiping.
- `RowsInOneBatch` is about the sides that have a date column, `RowsFetchedOnce`
  about the joins whose windows partition them.
- `AnswersFitQuestions` is about answers of the process that still runs.
- `VetoHolds` is about a rejection that came before any approval began.
- `AutoRunUsesSteps` is about requests whose inputs are current; `EditsAreKept` lets a
  resolution replace edits if the recipe had no steps when it was asked for.
- `NeverDropsALiveRun` excepts a run that is `overruled`: whose status someone overwrote
  after a check against an older one. The chat asks it to stop and turns away, and the
  request is lost (section 6).
- `RowsAccounted` excepts the raw rows of groups with a null in their key, and
  `FailsOnlyOnValues` the runs that meet a value the sample did not have.
- `PickedIsParsed` has two parts: the sheet in use is always of the pick whose answer
  landed last; that this is the last pick, or that its answer is awaited, holds until an
  answer fails, is empty, or finds the page left.

## 4. Bounds, symmetry, fairness, deadlock

| model | bounds | why they are enough |
|---|---|---|
| `AutoRun` | 2 threads | one worker that is late and one that was started after it; `SingleDriver` is what a third one would violate |
| | 2 batches; both have rows for safety, the second is empty for liveness | a first and a last batch and a checkpoint in between; the skip path at the end |
| | safety: 1 exception, 1 restart, 1 DELETE, not after the restart and not while the watchdog discards the run (`MCOneTrouble`); liveness: none of the three | one exception at any step, then a retry of everything, a DELETE of the failed run before or under the retry, then a crash of the retry. For what the constraint cuts off, `CompletedIsComplete` rests on `CompletedRunIsComplete` alone. A tick of the watchdog that fails half way is in the safety run only |
| `ValuePairLibrary` | 2 runs, 1 request, 1 value with 1 target, `MaxIds` 2, `MaxBatches` 2 | all conflicts are about the same pair; a row, and the one inserted after it was erased; a failed batch and its retry. At most one run is discarded, with at most one row erased beside it (`MCOneDiscard`) |
| `Pairing` | 2 values, 3 targets, 2 batches, answers of up to 2 of 4 claims, 1 deletion | a value that is also a target, a chain that works backwards, a claim outside the data, a second batch that sees the first one's library |
| `BatchPlan` | 4 dates, 0..2 rows a side and date, threshold 3, at most 2 dates | records reach, meet and pass the threshold; a single date exceeds it (4 rows); both limits bind in the same plan; gaps between dates |
| `BatchFetch` | 2 join keys, up to 3 lines, pages of 2, a server cap of 3 | a full last page, a partner outside the window, rows without a date |
| `AutoPlanning` | 4 entities, 7 fields, `MaxAnswers` 2, `MaxChanges` 1, `MaxRestarts` 1 | a question before a changed question; a tie of matches; an entity of another area; a silent side; the planning area among the fields; a join key that is not of its entity |
| `Authoring` | 4 workbooks, 6 worksheets, answer sets with duplicates and indices out of range, `Numerals` up to 7, `MaxPicks` 2 | suffixes that meet another slug, with more numerals than records; each list shifted in each way; two requests whose answers cross. What reads the parsed sheet alone starts from a single pick (`MCFromOnePick`) |
| `ReconService` | 2 threads, 1 contract with 2 versions, 2 bodies, 2 scripts, 1 preview, 1 run id, 2 days, time to live 1 | a call that overtakes another; another version between review and run; an expiry while a call reads |
| `Engine` | recipes of up to 2 of 10 operations, frames of up to 3 source and 2 target rows of 8 kinds, samples of 2 | a sample that hides a row; a pair that fans out; duplicate, blank and null keys; an infinity, a date that cannot be read |
| `ChatSession` | 2 sessions, 2 runs; one session with an open question or name, one run in a race for its status (`MCOneAtATime`) | a session's own run, another one, and another session that acts on either |
| `Wizard` | 3 flows, `MaxCalls` 2, 3 changes in the contract flow and 2 in the others (`MCChanges`) | two answers in either order, with a change before each, and a third for a user who edits, goes back and loads another dataset |
| `RunRegistry` | 2 callers | one that writes between the other's read and write |

The bounded counters (`faults`, `restarts`, `changes`, `deletes`) are ghost
variables that stop the exploration, or that a property counts by. The theorems of
section 5 remove the bounds from the properties they state.

`SYMMETRY` is used for threads in `AutoRunSafety`, for threads and run ids in
`ReconService` and for runs in `ValuePairs`, where the constants are compared only
for equality, and never with a temporal property.

Fairness:

- `AutoRun!FairSpec`: weak fairness of each worker's steps (the OS schedules a
  started thread; a node's pause counts, since a question is also an end), of the event
  loop's current handler, of each discard that has begun, and of the watchdog's
  tick, an endless loop in `main.py` that catches its exceptions. No fairness of requests,
  exceptions, restarts, or deletes: nobody has to click.
- `ChatSession!FairSpec`: weak fairness of the lapse of a question (time passes) and of
  `clear_expired`, part of the watchdog's tick. None of messages, turns or workers.

Every cfg but `Authoring.cfg` says `CHECK_DEADLOCK FALSE` because the system
really stops: a completed run with no request is at rest, a plan that is made is
done, a model that has used its bounds has nothing left to do. `Authoring` ends in an
explicit `Done`.

## 5. What is proved

All with TLAPS, for every value of the constants under the named assumptions of the
modules:

- `AutoRun`: `NumBatches` is at least 1 (a plan without dates fails in
  `plan_date_batches`), `EmptyBatches` is a set of batches, the actors of a run are
  distinct (`ActorsAssumption`);
- `ValuePairLibrary`, `ChatSession`: runs and requests are disjoint, `NoRun` is no run;
- `BatchPlan`, `BatchFetch`: `Days`, `MaxRows`, `Threshold`, `MaxLines` are naturals,
  `MaxDates` is at least 1 (the code's default is 4000), there are finitely many
  join keys, a page holds at least one row and the service does not cap it below
  `page_size` (section 6 says what happens if it does);
- `Pairing`: at least one batch, a claim, a layout and a stored pair are of the
  declared values, `None` is no value, and a ghost (a value that is not in the data) is
  no target. Nothing is assumed of the chains or of what they yield, so
  re-execution may find them wrong in every way;
- `AutoPlanning`: every entity has a key among `KeyFields` (`KeysAssumption`: OData's
  `$metadata` declares a `<Key>` for each entity type, which `get_entity_keys` reads),
  and what the model says of a sheet is of finitely many names (`ClaimsAssumption`);
- `ReconService`: days and the time to live are naturals, at least one version,
  anchored rules are rolling ones, `None` is no id and no row;
- `Authoring`: sheets and cells of a workbook are lists of texts, and there are at least
  as many numerals as sheets and as listed interfaces, all different
  (`BooksAssumption`, `NumeralsAssumption`: decimal numerals do not run out); an answer
  of the model has the shape that the code reads out of its JSON, and nothing is assumed
  of what it says, nor of `AppearsIn`, and no real column has an empty name
  (`AnswersAssumption`); rules
  are fields with directives, and only the offline compiler signs as `stub`
  (`DraftsAssumption`);
- `Engine`: a contract's operations are of the registry (`validate_draft` refuses
  others), its lists and the rows of a frame are lists, and the sample bounds are naturals
  (`ContractsAssumption`, `FramesAssumption`, `SampleAssumption`). Nothing is assumed of
  `Unfound` and `RaisesOn`;
- `Wizard`: the bounds of the exploration are naturals.

Nothing is assumed of `MaxFaults`, `MaxRestarts`, `MaxChanges`, `MaxCalls`, the number
of threads, deleters, callers, sessions, runs or contracts: any number of exceptions,
process deaths, requests under way and changes is covered.

**`AutoRunProofs!SingleCallerIsAtomic`.** With one caller, the registry on its own
(`Alone`, an instance of `RunRegistry` over its own variables) implements
`RunLifecycle`. The invariant: a pending target is legal from the present status
(nobody else can have changed it). The boot sweep maps to the edge to FAILED, which
all three orphan states have. Together with the refuted `AtomicTransitions` this says
that the gap needs exactly a second caller.

**`AutoRunProofs!RunUsesRegistry`.** `AutoRun` implements `RunRegistry`: the
refinement mapping `pending` reads off each actor's position what it is about to
write; each action of the run is a read, a write, a boot or a stutter of the registry.

**`AutoRunProofs`.** `TypeCorrect`, `OneDriver`, `CheckpointIsCovered`,
`CompletedRunIsComplete`, from one inductive invariant `IInv == DriverInv /\ ResultInv`:

- `DriverInv` = `TypeOK`, `ThreadOK`, `SingleDriver`, `LoopOK`. `SingleDriver` is not
  inductive by itself. A second worker could start from a status that was read
  before the first one started; `LoopOK` says that a handler that is about to spawn or
  to park found no driver and that none can come up meanwhile, because only the
  loop spawns and it does one request at a time. The watchdog and DELETE may
  still write CANCELLED underneath, which is why `cancelled` is among the statuses
  a driver may run under. `ThreadOK` ties a position to the node and to
  a batch within the plan.
- `ResultInv` = `ResultOK`, `CheckpointCovers`, `CompletedIsComplete`. A
  thread at batch b has the rows of all batches before b (`Covered(batch[t])`);
  this holds on entry because the checkpoint is covered, and with no checkpoint the thread
  starts at 0. The single driver is needed here: with two, `open` of one
  would reset the rows the other one counts on.

Three more invariants stand on top of `IInv`, about what is left of workers that are
gone:

- `RunningHasWorker` from `RunningIsDriven` and `StopInv` (a stop that a worker has
  seen is still asked for, so what it settles is not a RUNNING run);
- `PromotionIsEarned` from `PromotionInv`: once pairings are promoted, or about to be,
  the run is closed. No worker drives it, no handler is about to start one, and no
  request could, since its checkpoint is gone;
- `AppendsAreCounted` from `AppendInv` and `CleanInv`. A batch not yet reached has
  been appended at most as often as there were exceptions and restarts. Without an
  exception, an interrupted run has no failed step and its checkpoint cannot be taken
  up, so nothing is appended twice at all.

**`ValuePairProofs`.** `LibraryTypes`, `GuessesArePrivate`, `NoDanglingPair`,
`PromotionIsVouched`, from `LibraryInv`: the types; `RowsOK` (distinct ids, all
below `nextId`, and only Auto runs own provisional rows); `IdsOK` (every id a worker
knows has been handed out, so an id that was erased never comes back as another
pair); `ProposeOK` (if the row a worker is about to read back is still provisional,
it is its own; the row it is about to promote is another's); and the three
properties. `ProposeOK` carries what `propose` saw in its SELECT over
whatever other workers do before its next statement, a late discard of a run by
another thread among it.

**`RowPathProofs`.** Three components along the path of a row. What they share is
stated once, about lists whose elements may be anything (`IsList`): `AtPlaces` and
`PickedIs` say what a filter keeps, `Flattened` what joined lists contain, `Iterated`
that a loop over a list is a function of its turns.

*The plan.* `PlanIsPartition`, `PlanIsBounded` and `BatchesArePartition`
for any dates, rows and limits, from `PlanInv`: the windows are in order, together
with the open one they cover the dates visited, none goes beyond the last date
visited, and each keeps both limits. The batches of pairing follow: one for each
window, then one for the rows without a date, and a row's date selects exactly one.
`JoinPlanHolds` carries the three to a source that is one entity or a join, and
`RowsAreFetchedOnce` adds the fetch, from `FetchInv`: `PlanInv`, and the tables do
not change while they are planned and read (`DataOK`). Its lemma `AllPaged` says that
`_query`'s loop returns every row of a table of any size with any page size, if the
service does not cut a page below the size asked for (`FetchAssumption`); of a service
that does, nothing is claimed.

*Authoring.* `PickedInterfaceIsParsed`, `ResolutionIsGrounded`, `GroupsAreBonded` and
`NoInstructionIsLost`, for any workbook and whatever a model answers, from
`AuthoringInv`. `PickedInterfaceIsParsed` is about the sheet that is parsed and the pick
whose answer landed last, whatever order the answers came in: a request carries the
sheet of its own pick, and an answer that fails or is empty moves neither. That
the picked id leads to the interface rests on `IdsAreApart`: a
repeated slug is numbered until it is unused, and among one more number than there
are used slugs one is free (`UnusedIs`). Groundedness is not inductive by itself,
since each step relates its answer to what an earlier one found; `ResOK` adds that the
candidates were read from the rows that the payload carries (`SheetIs`), that
conditions of the preamble are numbered apart from rows (`HeadersAre`), and that what a
later step finds is still empty (`Unfilled`), so that a step that replaces one list
leaves nothing that refers to the old one.

*The engine.* `NoRowIsLost`, `NoColumnIsMissing` and `JoinsAreExact`, for any
contract, frames and sample bounds, from `EngineInv`. No row is lost in a step because
each kind of step either keeps the lineage of every row, passes it to the row that
stands for its group, or records the raw row it drops; a group that is not found again
has a null in its key, and `nulled` has its raw rows. A record of a row held out
names one raw row, so this needs that nothing was collapsed before the value mapping:
`Progress` says so of every step before it, and `PipelineIs` that the executor's
order puts aggregations behind it. A gated run does not want for a column because
whether a step finds its columns, and which it leaves, depends on the columns before it
and not on the rows (`StepShape`): after n steps the build on the whole source has the
shape of the replay on the sample after n steps (`Building`), and that replay, which
Gate 2 saw to its end, raised nothing on the way (`NothingRaised`). What is left to
fail on is a value. The join follows from
`JoinedIsExact`, about the three lists the reconciler puts one behind another.

**`ReconServiceProofs`.** `TypeCorrect`, `VetoIsFinal`, `ReviewBinds`,
`ReplayIsFaithful`, `CompletionIsKept`, `ShadowsAreKept`. A step either leaves every
run where it is or is one step of that run's own thread; this is shown once. The
invariants are layered on it: `TypeInv` (a run has one thread, and its row exists from
its booking on), `ReplayInv` (call and row agree on rules and anchor, and there is no
result before the step that saves it), `CompletionInv` (what a thread has behind it
is in the store, and only the last step follows the audit event), `ShadowInv` (no
cleanup knows of a run whose shadow has no row, and what one is about to delete stays
expired). `VetoInv` needs the types alone: an approval that is under way when the
rejection comes is not a vetoed preview's.

**`ChatSessionProofs`.** `AnswersMeetQuestions` and `LiveRunsAreKept`, from `ChatInv`:
a session has at most one question; a message that passed the gates has none and no
prompt for a name (`GatesPassed`); and between the gates and the act the binding
stays what the message was classified against, or becomes none by a restart, while
the run itself may move (`StillBound`). `LiveRunsAreKept` has the exception of its
property: of a run whose status was overwritten after an older read it says nothing.

**`PairingProofs`.** `PairsAreGroundedHolds`, `EveryValueOnceHolds` and
`LaterBatchesReuseHolds`, from `PairInv`. A property of the final mapping needs one
invariant for each thing the batches hand on: `HitsOK` (a hit of the lookup is stored or
was deleted meanwhile, and a miss is a value without a stored pair), `MatchesOK` (a
batch has a match for each of its values, one for each target or one without, and
what is not an equality is in the library or was deleted), `ReuseOK` (a value that had a
target has one in every later batch) and `MappingOK` (what is returned is the merge).
That a confirmed claim was re-executed is a lemma about `Verify`, which takes the
claims one at a time.

**`AutoPlanningProofs`.** `ResolvedIsLiveHolds` from `LiveInv`: how far an execution of
`resolve_schema` has come says which of its names are in the metadata that this
process holds. `AnswersFitQuestionsHolds` from `AnswerInv`: metadata is not refreshed
within a process, so an execution is determined by the answers it takes. `Way` is
such a history of positions, closed under the resolver's own steps; every question
asked by the process that runs has one (`WayOK`), and so has every answer it was
given (`WaysToOK`), which is why an execution that starts again arrives at the same
question with the same answer. `EntitiesAreEvidencedHolds` from `IdentifiedOK`: an
identification is that of its sheet in one state of the metadata.

**`WizardProofs`.** `TypeCorrect`, `EditsAreKeptHolds` and `AutoRunUsesStepsHolds`,
from `WizardInv`. `RecipeFine` and `CallFine` tie the recipe to the resolution that
seeds it: a resolution with steps and an empty recipe is one that came late, a request
that will not seed the recipe found one when it was sent, and one that waits
for the catalogue found none. Each action is shown to do `Kept`: it establishes
`WizardInv'`, and if it takes edits away it is one of the two the property allows. Every
handler ends in a `Commit`, so what a state must satisfy to be committed is stated
once (`Ready`), each reducer operator is shown to establish it, and `CommitKeeps`
carries it over the step.

Induction over data is out of reach of the installed provers, whose theorems of
induction take an operator as a parameter. Where a function on naturals had to be
understood (`RowsRead`, `Verify`, `Live`, `InterfaceIds`, `Derived`, `MapKeyFields`), the
proofs use a least counterexample instead:
the lemma `Smallest`, that a set of naturals that is not empty has a least member,
follows from the finiteness of intervals.

Before they were proved, the inductive invariants were checked by TLC on the
instances of the runs, except for the parts of `AnswerInv` that quantify over histories.

Only model-checked: liveness and ENABLED, which are out of this prover's reach. Every
invariant and every action property of the runs is stated by a theorem. No module
declares a RECURSIVE operator; a filter that a proof looks into is written with
`Positions!At` and not with `SelectSeq`, whose definition the provers cannot unfold.

## 6. Disagreements

With a run in which TLC finds the behaviour:

- **`AtomicTransitions`.** `transition()` "validates the edge ..., writes the new
  status ..., all in a single transaction". Python's `sqlite3` begins the
  transaction at the UPDATE, so the SELECT before it is not part of it; two callers
  can take a run along an edge the table forbids.

Found while modelling, without a run of their own. About the life of a run:

- A suspend is to park the run "asynchronously, the same way CANCELLING ->
  CANCELLED already does". If it arrives in the last batch, in another node, or while
  the run waits to settle, no gate sees it. The outcome is illegal from SUSPENDING,
  `_finish` raises, and the run stays SUSPENDING until the next boot.
- After a failure in finalize a retry "falls straight through to a fresh finalize
  attempt". If the failure came after the `runs` row was inserted, the retry's INSERT
  violates the primary key, each time.
- `append_batch_result` is "called once per completed batch". An exception between
  the append and the checkpoint makes the retry append again, and its value-mapping
  counts are added again.
- The watchdog's transition of a suspended run can interleave with a resume, after
  which it clears the plan and the checkpoint of a live run, marks the run cancelled, and
  its worker goes on. A DELETE that read FAILED wipes the state of the retry that starts
  meanwhile; `CompletedIsComplete` still holds.
- "Concurrent runs are never supported" (`orchestrator.py`, `_execute_staged_action`).
  The chat asks the active run to stop and binds its session to another run at once
  (`orchestrator.py:188-252`). A worker that read RUNNING before the request overwrites
  CANCELLING with WAITING_FOR_INPUT; the question is answered, and two runs are under
  way. `ChatSession` marks such a run `overruled`.
- `_partial_result` promises that a run's pieces, value mappings included, reach the
  wizard while it runs (`routes/auto_pipeline.py:86-92`). No node sets `product_mapping` or
  `location_mapping` in the state of the graph, so the branch of `applyPartialResult`
  that applies them (`ComparisonTypeStep.jsx:691-698`) never runs, and `Wizard` has none.
- Dismissing a FAILED entry from Stored Runs drops the checkpoint its retry needs;
  `sweep_orphans` does not set `failed_step`, so a run that died in the middle of its
  batches cannot be retried though its checkpoint is intact.
- A cancel of a run that waits for input leaves CANCELLING with no worker to see it,
  and the session bound to it, until the next boot.
- A process that dies between the INSERT of a run and its first transition leaves
  CREATED, which no sweep repairs (`routes/auto_pipeline.py:237`).

About pairing:

- The race of two `propose` calls raises, by a UNIQUE constraint or a row that is
  gone, and fails the batch; this is why `UsedPairsSurvive` holds.
- "Every verified candidate is therefore accepted" (`value_pairing/pipeline.py:24`).
  The lookup keeps one target a value, and a value found in the library is not put to
  the model again, so a second target disappears in the next batch; a stored target
  that is not in the data blocks discovery.
- `_MAX_VALUES_PER_SIDE` truncates lists that the prompt calls COMPLETE.
- "Batching must never gate whether a value can be matched": a source without a date
  column beside a target with one has an empty mask in every batch
  (`value_pairing/batching.py:123`).
- Evidence of corroboration is only recorded in the batches that matched the pair
  (`nodes.py:612`), though the store means it to add up over all batches
  (`corroboration_store.py:3-10`). A failure of the model that is not retryable
  degrades the result silently.

About batches, fetch and identification:

- A left join whose primary entity lacks the date repeats its unmatched rows in each
  window; if both entities carry the date, a pair in different windows is lost; `right`
  and `full` are silently `left` (`s4_metadata_service.py:450-518`).
- `_query` stops at a short page, so a service that caps a page below `page_size`
  truncates the result: `FetchAssumption` excludes it. `$skip` has no `$orderby`.
- A window's end date becomes midnight, so on a field with a time of day the last day
  loses its rows.
- Answers are matched to questions by position: a restart that changes metadata in
  between may hand one to another (`AnswersFitQuestions` excludes it).
- A metadata fingerprint misses edits in place; names that normalize alike collide.

About the manual workflow and authoring:

- Rejecting a preview leaves an approval made before it valid.
- A process that dies in a manual run leaves `runs.status` RUNNING for ever.
- The compiler's prompt, `models/contract.py` and `service.py` say that business
  key, compared fields, value mappings and aggregation rules are the human's. If the
  caller leaves one empty, what the model wrote there stays (`service.py:288-298`).
- A comment says an unmatched label "is dropped" (`service.py:255`); it is kept.
- The headings `A_2`, `A`, `A` are told apart as `A_2`, `A`, `A_2`: one column is lost
  (`_build_headers`).
- The offline compiler loses the text of a row of the mapping sheet whose field does not
  resolve (the text of a user's rule is kept, `stub_compiler.py:244`); a date bucket that
  is invalid is dropped after groupings were bonded to it; an unconfigured model gives no
  `degraded_reason`.
- The page says `Only the "..." sheet is interpreted` (`ComparisonTypeStep.jsx:338`) of the
  interface picked last. If its worksheet is empty, its parse fails or the page is left
  meanwhile, an earlier pick's sheet stays in use, or lands later.

About the engine:

- `rename_field` is documented as "Rename a column" (`recon_engine/README.md:88`); the
  executor compares the old column before and after the step (`executor.py:417`),
  and after a rename it is gone: Gate 2's replay, or the run, raises.
- The raw rows of a group with a null in its key (a date that `date_bucket` could not
  read becomes one, `executor.py:461-464`) may lose their lineage: `except KeyError:
  positions = []` (526-528, 562-566). They are in no row of the workbook.
- A contract that passed both gates may raise on a value that the sample did not have: an
  infinity as a key (`key_normalization.py:68`), a text written into a column of integers
  (`executor.py:288`, `operations/ops.py:366` and 376).
- Gate 1 does not follow aggregates that drop a compared column. Columns for pair ids
  are lost by aggregates. A composite key is joined with an unescaped `|`.
- Auto's windows use raw dates and the wall clock of each batch; a Manual run uses one
  anchor.

About the wizard:

- A late answer brings back what a change cleared (marked `late` in the model): a late
  reject resurrects the old preview, a Regenerate overwrites rows edited meanwhile.
- Editing the mapping by hand after an approval keeps the contract; results are
  reachable without an approval after a new mapping sheet; in script mode Continue is
  never gated.
- Start Over on the first page does not stop polling, an interval may leak over a
  remount, and a cancelled run is polled for ever.
- Whether the recipe is still empty is read from the render that asked
  (`TransformationSpecStep.jsx:286`): steps added or changed by hand while the resolution
  and the catalogue were under way are overwritten, against the comment at 275-278. This
  is the exception of `EditsAreKept`.

## 7. Not modelled

Within the modelled parts: which null keys pandas finds again and on which values it
raises (`Unfound`, `RaisesOn`: constants), a sum over a column that is also grouped by,
how a text is normalized before it is looked for in a preamble (`AppearsIn`), the bytes
of a frame and a torn last line after a crash
(`frames.py:88`), the audit trail of runs, batch progress, corroboration evidence,
reply wording, intent keywords, what an operation computes on a text or a number, the
text of prompts, HTTP and timeouts in seconds, the layout of workbooks.

Left out as a whole:

- *authentication and connections*: create, read, update and delete of rows behind a
  session check, one transaction each; nothing relates two of them but an expiry;
- *insights*: read-only reports over a finished result;
- *Excel comparator and legacy routes*: one upload, one comparison, one answer;
- *script sandbox's static checks*: a property of Python syntax trees, a script is
  accepted or not;
- *design system*: presentational components without program state;
- *deployment, schema, scripts*: configuration.

Partly modelled components say in `PROJECT.json` which of their operations are left out.

## 8. Plan

Done, in this order: registry and lifecycle, the Auto run, the pair library, the
batch plan, the chat; then the manual workflow, the wizard, the engine, the LLM
client with pairing, fetch, identification and planning, the workbook and authoring;
the proofs of everything that is about the interleaving of actors; the proofs about
pairing, fetch, planning and the wizard; and those about authoring and the engine.

What would come next:

1. a composition of `AutoRun` and `ChatSession` on one run, to replace `EndWorker`'s
   choice by the worker itself;
2. anchor inference and key normalization (`engine/anchor_inference.py`,
   `key_normalization.py`) as operators against a reference definition;
3. a composition of `Authoring` and `ReconService`: a draft that the user edits before
   it is approved, and the run that uses what was approved.

## 9. Running it

```
tlc -workers 2 -config AutoRunSafety.cfg MCAutoRun
tlc -workers 2 -config AutoRunLiveness.cfg MCAutoRun
tlc -workers 2 -config ValuePairs.cfg MCValuePairLibrary
tlc -workers 2 -config Pairing.cfg MCPairing
tlc -workers 2 -config BatchFetch.cfg BatchFetch
tlc -workers 2 -config AutoPlanning.cfg MCAutoPlanning
tlc -workers 2 -config Authoring.cfg MCAuthoring
tlc -workers 2 -config ReconService.cfg MCReconService
tlc -workers 2 -config Engine.cfg MCEngine
tlc -workers 2 -config ChatSession.cfg MCChatSession
tlc -workers 2 -config Wizard.cfg MCWizard
tlc -workers 2 -config RefuteAtomicTransitions.cfg MCRunRegistry   # finds the violation
tlapm AutoRunProofs.tla      # and the seven other proof modules of section 2
```

With two workers each passing run takes at most about three minutes; the largest,
`AutoRunSafety`, has 2,854,353 distinct states. The proof modules take about
twenty minutes together, half of it `RowPathProofs`.
