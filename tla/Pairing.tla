-------------------------------- MODULE Pairing --------------------------------
(***************************************************************************)
(* How the values of one field pair are paired, batch by batch             *)
(* (value_pairing/pipeline.py): the library and equality give candidates,  *)
(* the language model proposes chains of operations, every proposal is     *)
(* re-executed, every confirmed chain is tried on the other values, and    *)
(* all candidates of a value are accepted.                                 *)
(*                                                                         *)
(* Two callers are modelled.  A Manual request (pair_values) matches every *)
(* batch against the whole target and merges the batches; an Auto run      *)
(* (_pair_field_for_batch) matches a batch against its own target rows,    *)
(* stops when no provider answers and may be retried from that batch.      *)
(*                                                                         *)
(* A batch is one date here.  Who sees which row of the library is         *)
(* ValuePairLibrary's subject: here one caller sees all of it.             *)
(***************************************************************************)
EXTENDS LLMClient, FiniteSets, FiniteSetsExt

CONSTANTS
  Sources,       \* source values
  Targets,       \* target values; a value may be both
  Ghosts,        \* values the model may name that no target row has
  Chains, Yield, \* what a chain of operations makes of a value, None if it fails
  Claims,        \* the pairs, each with a chain, that the model may claim
  NumBatches, MaxRows,
  Layouts,       \* the distributions of target values over batches looked at
  MaxProposals,  \* bound: pairs in one answer of the model
  MaxDeletes,    \* bound: deletions by a user
  LibraryPairs,  \* pairs earlier runs may have stored
  MaxRetries     \* MAX_BATCH_LLM_RETRIES

ASSUME BatchesAssumption == NumBatches \in Nat \ {0} /\ MaxRows \in Nat
ASSUME LayoutsAssumption == Layouts \subseteq [1..NumBatches -> SUBSET Targets]
ASSUME ValuesAssumption == Ghosts \cap Targets = {} /\ None \notin Sources \union Targets \union Ghosts
ASSUME ClaimsAssumption == Claims \subseteq [value : Sources, target : Targets \union Ghosts, chain : Chains]
ASSUME LibraryAssumption == LibraryPairs \subseteq Sources \X (Targets \union Ghosts)

Batches == 1..NumBatches

VARIABLES
  caller,   \* "manual" or "auto"
  rows,     \* rows of each source value in each batch
  present,  \* target values with rows in each batch
  library,  \* stored pairs, each as <<value, target>>
  deletes,  \* history: pairs a user deleted
  pc,
  batch,    \* the batch being paired
  hits,     \* the stored target the lookup returned for a value, None without
  answer,   \* the model's proposals for the batch
  matches,  \* the matches of each batch
  evidence, \* rows of value_pair_corroboration
  mapping   \* what a Manual request returns

vars == <<caller, rows, present, library, deletes, pc, batch, hits, answer, matches,
          evidence, mapping, llmVars>>
inputs == <<caller, rows, present>>

------------------------------------------------------------------------------
(* Values, candidates and proposals.                                       *)

ValuesOf(b) == {v \in Sources : rows[b][v] > 0}
\* distinct_values of the target the caller passes.
TargetsOf(b) == IF caller = "manual" THEN UNION {present[c] : c \in Batches} ELSE present[b]

\* The model only sees values without a library hit.
Asked(b) == {v \in ValuesOf(b) : hits[v] = None}

\* verify_chain_bidirectional.
Direction(c) ==
  CASE Yield[c.chain][c.value] = c.target -> "forward"
    [] Yield[c.chain][c.value] # c.target /\ Yield[c.chain][c.target] = c.value -> "reverse"
    [] OTHER -> None

\* Mutant: a claim that reproduces is confirmed whatever the target has.
ConfirmsAnyTarget(b, c) == Direction(c) # None
\* A claim is confirmed when the chain reproduces it and its target is real.
Confirms(b, c) == Direction(c) # None /\ c.target \in TargetsOf(b)

\* One confirmed claim per value, no claim of equality; the direction of a chain
\* is the one confirmed last.
Judged(b, s, c) ==
  IF c.value \notin ValuesOf(b) \/ s.result[c.value] # None \/ c.target = c.value THEN s
  ELSE IF Confirms(b, c)
       THEN [s EXCEPT !.direction[c.chain] = Direction(c), !.result[c.value] = c]
       ELSE [s EXCEPT !.rejected = @ \union {c.value}]

Unjudged ==
  [direction |-> [k \in Chains |-> None], result |-> [v \in Sources |-> None], rejected |-> {}]

\* The proposals in the order given.
Verify(b, claims) ==
  LET after[n \in 0..Len(claims)] ==
        IF n = 0 THEN Unjudged ELSE Judged(b, after[n - 1], claims[n])
  IN after[Len(claims)]

\* The targets a reverse chain reduces to a value; _reverse_lookup keeps the
\* one a set of strings happens to yield first.
ReducedTo(b, k, v) == {t \in TargetsOf(b) : Yield[k][t] = v}
ReverseLookups(b, s) ==
  {pick \in [{k \in Chains : s.direction[k] = "reverse"} -> [ValuesOf(b) -> Targets \union {None}]] :
     \A k \in DOMAIN pick, v \in ValuesOf(b) :
       IF ReducedTo(b, k, v) = {} THEN pick[k][v] = None ELSE pick[k][v] \in ReducedTo(b, k, v)}

\* Step 3 of _pair_batch: each confirmed chain on each value but its own.
Reused(b, s, pick, v) ==
  {t \in TargetsOf(b) :
     \E k \in Chains :
       /\ s.direction[k] # None
       /\ s.result[v] # None => s.result[v].chain # k
       /\ t = IF s.direction[k] = "reverse" THEN pick[k][v] ELSE Yield[k][v]}

\* _assemble_and_resolve: the targets of a value with what they come from.
Origins(b, s, pick, v, t) ==
  (IF hits[v] = t THEN {"library"} ELSE {})
    \union (IF v = t /\ t \in TargetsOf(b) THEN {"identity"} ELSE {})
    \union (IF s.result[v] # None /\ s.result[v].target = t THEN {"llm"} ELSE {})
    \union (IF t \in Reused(b, s, pick, v) THEN {"pattern"} ELSE {})
Candidates(b, s, pick, v) ==
  {t \in Targets \union Ghosts : Origins(b, s, pick, v, t) # {}}

\* _finalize_single: what a match is reported as.
Rule(origins) ==
  CASE "identity" \in origins -> "identity"
    [] origins = {"library"} -> "library"
    [] "identity" \notin origins /\ "llm" \in origins -> "llm"
    [] OTHER -> "pattern"
Discovered(rule) == rule \in {"llm", "pattern"}

\* corroboration_overlap over the whole data, which is only dated rows here.
Overlap(v, t) ==
  IF \E b \in Batches : t \in present[b]
  THEN IF \E b \in Batches : rows[b][v] > 0 /\ t \in present[b] THEN "yes" ELSE "no"
  ELSE "unknown"

\* record_batch_evidence and get_overlap: a row [value, target, seen, overlap]
\* per competing pair; seen is target_seen, the source value always is seen.
EvidenceOf(v, t) == {e \in evidence : e.value = v /\ e.target = t}
Merged(b, v, t) ==
  [value |-> v, target |-> t,
   seen |-> t \in present[b] \/ \E e \in EvidenceOf(v, t) : e.seen,
   overlap |-> t \in present[b] \/ \E e \in EvidenceOf(v, t) : e.overlap]
Accumulated(b, v, t) ==
  LET e == Merged(b, v, t) IN IF ~e.seen THEN "unknown" ELSE IF e.overlap THEN "yes" ELSE "no"

Match(v, t, rule, n, signal) ==
  [value |-> v, target |-> t, rule |-> rule, rows |-> n, signal |-> signal]
MatchesOf(b, s, pick, v) ==
  LET targets == Candidates(b, s, pick, v)
      Signal(t) == CASE Cardinality(targets) = 1 -> None
                     [] Cardinality(targets) > 1 /\ caller = "manual" -> Overlap(v, t)
                     [] OTHER -> Accumulated(b, v, t)
  IN IF targets = {}
     THEN {Match(v, None, IF v \in s.rejected THEN "llm_rejected" ELSE "unpaired",
                 rows[b][v], None)}
     ELSE {Match(v, t, Rule(Origins(b, s, pick, v, t)), rows[b][v], Signal(t)) : t \in targets}

------------------------------------------------------------------------------
(* The merge of a Manual request.                                          *)

\* The batches that give v the target t, None for unpaired, and their match.
Found(v, t) == {b \in Batches : \E m \in matches[b] : m.value = v /\ m.target = t}
MatchIn(b, v, t) == CHOOSE m \in matches[b] : m.value = v /\ m.target = t
ResolvedValues == {v \in Sources : \E b \in Batches : \E m \in matches[b] : m.value = v /\ m.target # None}

\* The sum over the batches.
Total(n) ==
  LET sum[b \in 0..NumBatches] == IF b = 0 THEN 0 ELSE sum[b - 1] + n[b]
  IN sum[NumBatches]

\* The first match stands, but a first discovery replaces a library hit; the
\* rows of all of them are added up.
Merge(v, t) ==
  LET fresh == {b \in Found(v, t) : MatchIn(b, v, t).rule # "library"}
      best == IF fresh = {} THEN Found(v, t) ELSE fresh
  IN [MatchIn(Min(best), v, t) EXCEPT !.rows =
        Total([b \in Batches |-> IF b \in Found(v, t) THEN MatchIn(b, v, t).rows ELSE 0])]

Pairs == {p \in Sources \X (Targets \union Ghosts \union {None}) : Found(p[1], p[2]) # {}}

\* Mutant: a value unpaired in one batch stays listed as unpaired.
MergeAllUnpaired == {Merge(p[1], p[2]) : p \in Pairs}
\* _merge_batch_matches: a value resolved in any batch is not also unpaired.
MergeBatches ==
  {Merge(p[1], p[2]) : p \in {q \in Pairs : q[2] = None => q[1] \notin ResolvedValues}}

------------------------------------------------------------------------------
(* Steps.                                                                  *)

Init ==
  /\ caller \in {"manual", "auto"}
  /\ rows \in [Batches -> [Sources -> 0..MaxRows]]
  /\ present \in Layouts
  /\ library \in SUBSET LibraryPairs
  /\ deletes = {} /\ pc = "lookup" /\ batch = 1
  /\ hits = [v \in Sources |-> None] /\ answer = <<>>
  /\ matches = [b \in Batches |-> {}] /\ evidence = {} /\ mapping = {}
  /\ LLMInit

\* Mutant: the library is read once, before the first batch.
LookupOnce ==
  /\ pc = "lookup" /\ pc' = "ask"
  /\ IF batch > 1 THEN UNCHANGED hits
     ELSE \E h \in [Sources -> Targets \union Ghosts \union {None}] :
            /\ \A v \in Sources : IF h[v] = None THEN \A p \in library : p[1] # v
                                   ELSE <<v, h[v]>> \in library
            /\ hits' = h
  /\ ResetOutcome
  /\ UNCHANGED <<inputs, library, deletes, batch, answer, matches, evidence, mapping>>
\* lookup_pairs, afresh for each batch: one stored target per value.
Lookup ==
  /\ pc = "lookup" /\ pc' = "ask"
  /\ \E h \in [Sources -> Targets \union Ghosts \union {None}] :
       /\ \A v \in Sources : IF h[v] = None THEN \A p \in library : p[1] # v
                              ELSE <<v, h[v]>> \in library
       /\ hits' = h
  /\ ResetOutcome
  /\ UNCHANGED <<inputs, library, deletes, batch, answer, matches, evidence, mapping>>

\* _propose_llm_chains without values, targets or a provider: nobody is asked.
SkipModel ==
  /\ pc = "ask" /\ pc' = "resolve"
  /\ Asked(batch) = {} \/ TargetsOf(batch) = {} \/ Configured = {}
  /\ answer' = <<>>
  /\ UNCHANGED <<inputs, library, deletes, batch, hits, matches, evidence, mapping, llmVars>>

GivesUp == calls' > MaxRetries

\* One attempt of _propose_llm_chains_with_retry.
AskModel ==
  /\ pc = "ask" /\ Asked(batch) # {} /\ TargetsOf(batch) # {} /\ Configured # {}
  /\ NoClient \/ \E says \in [Configured -> Answers], logged \in BOOLEAN : Complete(says, logged)
  /\ IF outcome' # None /\ outcome'.allFailed /\ ~GivesUp
     THEN UNCHANGED <<pc, answer>>
     ELSE /\ pc' = "resolve"
          /\ IF outcome' # None /\ outcome'.ok
             THEN answer' \in UNION {[1..n -> Claims] : n \in 0..MaxProposals}
             ELSE answer' = <<>>
  /\ UNCHANGED <<inputs, library, deletes, batch, hits, matches, evidence, mapping>>

AllFailed == outcome # None /\ outcome.allFailed

\* What _pair_batch returns, and what it stores on the way.
Resolve ==
  /\ pc = "resolve"
  /\ ~(caller = "auto" /\ AllFailed)
  /\ LET s == Verify(batch, answer)
     IN \E pick \in ReverseLookups(batch, s) :
          LET found == UNION {MatchesOf(batch, s, pick, v) : v \in ValuesOf(batch)}
              competing == {m \in found : m.signal # None}
          IN /\ matches' = [matches EXCEPT ![batch] = found]
             /\ library' = library \union {<<m.value, m.target>> : m \in {n \in found : Discovered(n.rule)}}
             /\ evidence' =
                  IF caller = "manual" THEN evidence
                  ELSE {e \in evidence : \A m \in competing : e.value # m.value \/ e.target # m.target}
                         \union {Merged(batch, m.value, m.target) : m \in competing}
  /\ IF batch < NumBatches THEN batch' = batch + 1 /\ pc' = "lookup"
     ELSE pc' = (IF caller = "manual" THEN "merge" ELSE "done") /\ UNCHANGED batch
  /\ hits' = [v \in Sources |-> None] /\ answer' = <<>> /\ ResetOutcome
  /\ UNCHANGED <<inputs, deletes, mapping>>

\* An Auto run stops at a batch no provider answered for...
StopRun ==
  /\ pc = "resolve" /\ caller = "auto" /\ AllFailed
  /\ pc' = "failed"
  /\ UNCHANGED <<inputs, library, deletes, batch, hits, answer, matches, evidence, mapping, llmVars>>

\* ...and its retry begins with that batch.
RetryRun ==
  /\ pc = "failed" /\ pc' = "lookup"
  /\ UNCHANGED <<inputs, library, deletes, batch, hits, answer, matches, evidence, mapping, llmVars>>

ReturnMapping ==
  /\ pc = "merge" /\ pc' = "done"
  /\ mapping' = MergeBatches
  /\ UNCHANGED <<inputs, library, deletes, batch, hits, answer, matches, evidence, llmVars>>

\* A user deletes a pair from the library.
DeletePair ==
  /\ Cardinality(deletes) < MaxDeletes /\ pc # "done"
  /\ \E p \in library : library' = library \ {p} /\ deletes' = deletes \union {p}
  /\ UNCHANGED <<inputs, pc, batch, hits, answer, matches, evidence, mapping, llmVars>>

ShareBreaker ==
  /\ pc = "ask" /\ Len(Providers) > 1
  /\ MoveBreaker
  /\ UNCHANGED <<inputs, library, deletes, pc, batch, hits, answer, matches, evidence, mapping>>

Next ==
  \/ Lookup \/ SkipModel \/ AskModel \/ Resolve \/ StopRun \/ RetryRun
  \/ ReturnMapping \/ DeletePair \/ ShareBreaker

Spec == Init /\ [][Next]_vars

------------------------------------------------------------------------------
(* Properties.                                                             *)

RowsOf(v, from) == Total([b \in Batches |-> IF b >= from THEN rows[b][v] ELSE 0])

\* What a Manual request returns lists each value of the source once as
\* unpaired, with all its rows, or only with targets; and no other value.
EveryValueOnce ==
  pc = "done" /\ caller = "manual" =>
    /\ {m.value : m \in mapping} = UNION {ValuesOf(b) : b \in Batches}
    /\ \A m \in mapping : m.target = None =>
         /\ m.rows = RowsOf(m.value, 1)
         /\ \A n \in mapping : n.value = m.value => n = m

\* A pair that is found in one batch is found again, through the library or by
\* equality, in every later batch that has its value: a value with a single
\* target counts all its rows from that batch on.
LaterBatchesReuse ==
  pc = "done" /\ caller = "manual" =>
    \A m \in mapping :
      (m.target # None /\ \A n \in mapping : n.value = m.value => n = m)
        /\ (\A p \in deletes : p[1] # m.value)
      => m.rows = RowsOf(m.value, Min(Found(m.value, m.target)))

\* No pair rests on the word of the model: whatever is discovered is a chain
\* that turns one value into the other, and both are in the data.
PairsAreGrounded ==
  \A b \in Batches : \A m \in matches[b] :
    /\ Discovered(m.rule) =>
         /\ m.target \in UNION {present[c] : c \in Batches}
         /\ \E k \in Chains : Yield[k][m.value] = m.target \/ Yield[k][m.target] = m.value
    /\ caller = "auto" /\ m.rule # "library" /\ m.target # None => m.target \in present[b]

==============================================================================
