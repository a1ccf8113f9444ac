--------------------------- MODULE ValuePairLibrary ---------------------------
(***************************************************************************)
(* The value-pair library (storage/value_pair_store.py) under the value    *)
(* pairing of several runs (value_pairing/pipeline.py): each batch looks   *)
(* the library up, lets the LLM and the chains it confirmed discover more  *)
(* pairs, and proposes every discovered pair.  A pair an Auto run          *)
(* discovers is provisional until the run completes (promote_run) or is    *)
(* discarded (discard_run); a Manual request has no run and its pairs are  *)
(* promoted at once.  A user may delete a pair or flush the library.       *)
(*                                                                         *)
(* One field pair is modelled: every query filters by it.  A step is one   *)
(* database transaction.  propose() reads in autocommit mode, as           *)
(* RunRegistry explains, so its SELECT and its write are two steps.        *)
(***************************************************************************)
EXTENDS Integers

CONSTANTS
  Runs,       \* Auto runs (graph_run_id)
  Requests,   \* Manual value-mapping requests: pairing with no run
  NoRun,      \* graph_run_id NULL
  Values, Targets,
  MaxIds,     \* bound: rows ever inserted
  MaxBatches  \* bound: batches a worker starts

ASSUME WorkersAssumption == Runs \cap Requests = {} /\ NoRun \notin Runs

Pairs == [value : Values, target : Targets]
Workers == Runs \union Requests

\* The graph_run_id a worker passes to the store.
Owner(w) == IF w \in Runs THEN w ELSE NoRun

VARIABLES
  library,    \* the table value_pair_library
  nextId,     \* ids are fresh
  erased,     \* history: ids a user deleted
  pc,         \* where each worker stands
  batches,    \* batches each worker has started
  candidates, \* the pairs a worker accepts in its present batch
  todo,       \* those of them it has still to propose
  current,    \* the pair it is proposing, when pc says so
  found,      \* the row id its last SELECT or INSERT is about
  relied,     \* ids of rows it took from the library
  discovered, \* ids of rows propose() returned to it
  deleting,   \* runs a DELETE request or the watchdog is about to discard
  swept       \* history: runs whose provisional pairs were discarded

batchVars == <<candidates, todo, current, found>>
history == <<erased, relied, discovered>>
discards == <<deleting, swept>>
vars == <<library, nextId, pc, batches, batchVars, history, discards>>

Row == [id : Nat, pair : Pairs, owner : Runs \union {NoRun},
        status : {"provisional", "promoted"}]

Steps == {"between", "resolve", "insert", "promote", "get", "failed",
          "promoting", "completed", "discarding", "cancelled"}

TypeOK ==
  /\ library \subseteq Row
  /\ nextId \in Nat
  /\ erased \subseteq Nat
  /\ pc \in [Workers -> Steps]
  /\ batches \in [Workers -> Nat]
  /\ candidates \in [Workers -> SUBSET Pairs]
  /\ todo \in [Workers -> SUBSET Pairs]
  /\ current \in [Workers -> Pairs]
  /\ found \in [Workers -> Nat]
  /\ relied \in [Workers -> SUBSET Nat]
  /\ discovered \in [Workers -> SUBSET Nat]
  /\ deleting \subseteq Runs
  /\ swept \subseteq Runs

Init ==
  /\ library = {}
  /\ nextId = 0
  /\ erased = {}
  /\ pc = [w \in Workers |-> "between"]
  /\ batches = [w \in Workers |-> 0]
  /\ candidates = [w \in Workers |-> {}]
  /\ todo = [w \in Workers |-> {}]
  /\ current \in {[w \in Workers |-> p] : p \in Pairs}
  /\ found = [w \in Workers |-> 0]
  /\ relied = [w \in Workers |-> {}]
  /\ discovered = [w \in Workers |-> {}]
  /\ deleting = {}
  /\ swept = {}

Step(w, from, to) == pc[w] = from /\ pc' = [pc EXCEPT ![w] = to]

Stored(p) == {r \in library : r.pair = p}
WithId(i) == {r \in library : r.id = i}

------------------------------------------------------------------------------
(* Lookup.                                                                 *)

\* Mutant: the query does not look at the run.
VisibleToAll(w) == library

\* lookup_pairs: the promoted rows and the run's own provisional ones.
Visible(w) ==
  {r \in library : r.status = "promoted"
                     \/ (r.status = "provisional" /\ w \in Runs /\ r.owner = w)}

\* Its result is a dict keyed by source value, so of several visible rows for
\* one value the last one the query returns is kept; there is no ORDER BY.
LookupResults(w) ==
  {hits \in SUBSET Visible(w) :
     /\ \A r1, r2 \in hits : r1.pair.value = r2.pair.value => r1 = r2
     /\ \A r \in Visible(w) : \E h \in hits : h.pair.value = r.pair.value}

\* _pair_batch up to _assemble_and_resolve.  The LLM is only asked about values
\* without a hit; a chain it gets confirmed may then match any value.
StartBatch(w) ==
  /\ batches[w] < MaxBatches
  /\ Step(w, "between", "resolve")
  /\ batches' = [batches EXCEPT ![w] = @ + 1]
  /\ \E hits \in LookupResults(w), new \in SUBSET Pairs :
       /\ new = {} \/ \E p \in new : \A h \in hits : h.pair.value # p.value
       /\ candidates' = [candidates EXCEPT ![w] = {h.pair : h \in hits} \union new]
       /\ todo' = [todo EXCEPT ![w] = new]
       /\ relied' = [relied EXCEPT ![w] = @ \union {h.id : h \in hits}]
  /\ UNCHANGED <<library, nextId, erased, current, found, discovered, discards>>

\* No provider answers after every retry: an Auto run stops.  (A Manual
\* request goes on with no LLM pairs, which is a StartBatch with new = {}.)
LoseProviders(w) ==
  /\ w \in Runs
  /\ batches[w] < MaxBatches
  /\ Step(w, "between", "failed")
  /\ batches' = [batches EXCEPT ![w] = @ + 1]
  /\ UNCHANGED <<library, nextId, batchVars, history, discards>>

------------------------------------------------------------------------------
(* propose(), one pair at a time.                                          *)

\* propose returns row i to w, which goes on with the next pair.
Return(w, i) ==
  /\ pc' = [pc EXCEPT ![w] = "resolve"]
  /\ discovered' = [discovered EXCEPT ![w] = @ \union {i}]
  /\ todo' = [todo EXCEPT ![w] = @ \ {current'[w]}]
  /\ found' = [found EXCEPT ![w] = 0]
  /\ UNCHANGED <<erased, relied>>

\* An exception ends the batch.
Raise(w) ==
  /\ pc' = [pc EXCEPT ![w] = "failed"]
  /\ found' = [found EXCEPT ![w] = 0]
  /\ todo' = [todo EXCEPT ![w] = {}]
  /\ UNCHANGED history

\* Mutant: an existing row is returned whatever its status.
FindPairUnchanged(w) ==
  /\ pc[w] = "resolve"
  /\ \E p \in todo[w] :
       /\ current' = [current EXCEPT ![w] = p]
       /\ \/ /\ Stored(p) = {}
             /\ pc' = [pc EXCEPT ![w] = "insert"]
             /\ UNCHANGED <<todo, history, found>>
          \/ \E r \in Stored(p) : Return(w, r.id)
  /\ UNCHANGED <<library, nextId, batches, candidates, discards>>

\* The SELECT by the full key.  A row still provisional under another run (or
\* found by a request that has none) is to be promoted; any other is returned.
FindPair(w) ==
  /\ pc[w] = "resolve"
  /\ \E p \in todo[w] :
       /\ current' = [current EXCEPT ![w] = p]
       /\ \/ /\ Stored(p) = {}
             /\ pc' = [pc EXCEPT ![w] = "insert"]
             /\ UNCHANGED <<todo, history, found>>
          \/ \E r \in Stored(p) :
               IF r.status = "provisional" /\ r.owner # Owner(w)
               THEN /\ pc' = [pc EXCEPT ![w] = "promote"]
                    /\ found' = [found EXCEPT ![w] = r.id]
                    /\ UNCHANGED <<todo, history>>
               ELSE Return(w, r.id)
  /\ UNCHANGED <<library, nextId, batches, candidates, discards>>

NewStatus(w) == IF w \in Runs THEN "provisional" ELSE "promoted"

\* The INSERT: the UNIQUE constraint refuses a pair stored since the SELECT.
InsertPair(w) ==
  /\ pc[w] = "insert"
  /\ IF Stored(current[w]) = {}
     THEN /\ nextId < MaxIds
          /\ library' = library \union
               {[id |-> nextId, pair |-> current[w], owner |-> Owner(w),
                 status |-> NewStatus(w)]}
          /\ found' = [found EXCEPT ![w] = nextId]
          /\ nextId' = nextId + 1
          /\ pc' = [pc EXCEPT ![w] = "get"]
          /\ UNCHANGED <<todo, history>>
     ELSE Raise(w) /\ UNCHANGED <<library, nextId>>
  /\ UNCHANGED <<batches, candidates, current, discards>>

\* get(pair_id) after the commit; the row may be gone already.
GetPair(w) ==
  /\ pc[w] = "get"
  /\ UNCHANGED current
  /\ IF WithId(found[w]) # {} THEN Return(w, found[w]) ELSE Raise(w)
  /\ UNCHANGED <<library, nextId, batches, candidates, discards>>

\* The UPDATE by id and the second SELECT; a row discarded since the first
\* SELECT leaves None to be converted.
PromotePair(w) ==
  /\ pc[w] = "promote"
  /\ UNCHANGED current
  /\ IF WithId(found[w]) # {}
     THEN /\ library' = {IF r.id = found[w] THEN [r EXCEPT !.status = "promoted"]
                         ELSE r : r \in library}
          /\ Return(w, found[w])
     ELSE Raise(w) /\ UNCHANGED library
  /\ UNCHANGED <<nextId, batches, candidates, discards>>

FinishBatch(w) ==
  /\ todo[w] = {}
  /\ Step(w, "resolve", "between")
  /\ UNCHANGED <<library, nextId, batches, batchVars, history, discards>>

------------------------------------------------------------------------------
(* How a run ends.                                                         *)

\* A run that was discarded has no checkpoint to retry from.
RetryRun(w) ==
  /\ w \in Runs \ swept
  /\ Step(w, "failed", "between")
  /\ UNCHANGED <<library, nextId, batches, batchVars, history, discards>>

\* The registry's COMPLETED is written before promote_run is called.
CompleteRun(w) ==
  /\ w \in Runs
  /\ Step(w, "between", "promoting")
  /\ UNCHANGED <<library, nextId, batches, batchVars, history, discards>>

\* Mutant: the UPDATE is not restricted to the run.
PromoteEveryRun(w) ==
  /\ Step(w, "promoting", "completed")
  /\ library' = {[r EXCEPT !.status = "promoted"] : r \in library}
  /\ UNCHANGED <<nextId, batches, batchVars, history, discards>>

PromoteRun(w) ==
  /\ Step(w, "promoting", "completed")
  /\ library' = {IF r.owner = w /\ r.status = "provisional"
                 THEN [r EXCEPT !.status = "promoted"] ELSE r : r \in library}
  /\ UNCHANGED <<nextId, batches, batchVars, history, discards>>

\* discard_run, by whoever ends run w.
DiscardPairs(w) ==
  /\ library' = {r \in library : ~ (r.owner = w /\ r.status = "provisional")}
  /\ swept' = swept \union {w}

\* A worker that finds its run cancelled between two batches ends it; CANCELLED
\* is written before discard_run is called.
EndRun(w) ==
  /\ w \in Runs
  /\ Step(w, "between", "discarding")
  /\ UNCHANGED <<library, nextId, batches, batchVars, history, discards>>

DiscardRun(w) ==
  /\ w \in Runs
  /\ Step(w, "discarding", "cancelled")
  /\ DiscardPairs(w)
  /\ UNCHANGED <<nextId, batches, batchVars, history, deleting>>

\* A DELETE request or the watchdog has found a parked or failed run it may
\* discard ...
RequestDiscard(w) ==
  /\ w \in Runs \ swept
  /\ pc[w] \in {"between", "failed"}
  /\ deleting' = deleting \union {w}
  /\ UNCHANGED <<library, nextId, pc, batches, batchVars, history, swept>>

\* ... and discards it, which may by now have been resumed or retried.
DiscardStored(w) ==
  /\ w \in deleting
  /\ DiscardPairs(w)
  /\ deleting' = deleting \ {w}
  /\ UNCHANGED <<nextId, pc, batches, batchVars, history>>

\* The process stops: a run in mid-batch is swept to FAILED, one that was
\* about to promote or to discard never does, and requests are forgotten.
Restart ==
  /\ found' = [w \in Workers |-> 0]
  /\ todo' = [w \in Workers |-> {}]
  /\ pc' = [w \in Workers |->
       CASE pc[w] = "promoting"  -> "completed"
         [] pc[w] = "discarding" -> "cancelled"
         [] pc[w] \in {"between", "resolve", "insert", "promote", "get"} ->
              IF w \in Runs THEN "failed" ELSE "between"
         [] OTHER -> pc[w]]
  /\ deleting' = {}
  /\ UNCHANGED <<library, nextId, batches, candidates, current, history, swept>>

------------------------------------------------------------------------------
(* The user's library tab.                                                 *)

Erase(gone) ==
  /\ library' = library \ gone
  /\ erased' = erased \union {r.id : r \in gone}
  /\ UNCHANGED <<nextId, pc, batches, batchVars, relied, discovered, discards>>

DeletePair == \E r \in library : Erase({r})
Flush == library # {} /\ Erase(library)

Next ==
  \/ \E w \in Workers :
       \/ StartBatch(w) \/ LoseProviders(w) \/ FindPair(w) \/ InsertPair(w)
       \/ GetPair(w) \/ PromotePair(w) \/ FinishBatch(w) \/ RetryRun(w)
       \/ CompleteRun(w) \/ PromoteRun(w) \/ EndRun(w) \/ DiscardRun(w)
       \/ RequestDiscard(w) \/ DiscardStored(w)
  \/ DeletePair \/ Flush \/ Restart

Spec == Init /\ [][Next]_vars

------------------------------------------------------------------------------
(* Properties.                                                             *)

\* A pair still provisional was seen by no run but the one that discovered it:
\* "a discarded run's guesses never leak into another run's library lookups"
\* (storage/db.py, the DDL of value_pair_library).
GuessesStayPrivate ==
  \A w \in Workers, r \in library :
    r.status = "provisional" /\ r.id \in relied[w] \union discovered[w]
      => r.owner = Owner(w)

\* What a run took from the library, or was returned by propose, is there until
\* a user deletes it, whatever other runs are discarded meanwhile: propose
\* promotes a second discovery to avoid "a dangling reference if the original
\* discovering run is later discarded".  Only the run's own discard ends this,
\* be it by its worker or by a deletion that was late.
UsedPairsSurvive ==
  \A w \in Workers \ swept :
    \A i \in relied[w] \union discovered[w] :
      i \in erased \/ \E r \in library : r.id = i

\* A promoted pair was discovered outside any run, by a run that completed, or
\* by two that had nothing to do with each other.
PromotedIsVouched ==
  \A r \in library : r.status = "promoted" =>
    \/ r.owner = NoRun
    \/ r.owner \in Runs /\ pc[r.owner] = "completed"
    \/ \E w \in Workers : Owner(w) # r.owner /\ r.id \in discovered[w]

==============================================================================
