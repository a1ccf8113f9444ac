--------------------------- MODULE ValuePairProofs ---------------------------
(***************************************************************************)
(* ValuePairLibrary's invariants for any runs, requests, values and bounds.*)
(*                                                                         *)
(* No invariant of the three is inductive on its own: what a worker relied *)
(* on survives a discard because the rows it relied on are promoted or its *)
(* own (GuessesStayPrivate), and that holds of the row propose returns     *)
(* because of what is known of it between propose's two statements.        *)
(***************************************************************************)
EXTENDS ValuePairLibrary, TLAPS

\* Ids identify rows, and only a run's row can be provisional.
RowsOK ==
  /\ \A r \in library : r.id < nextId
  /\ \A r1, r2 \in library : r1.id = r2.id => r1 = r2
  /\ \A r \in library : r.status = "provisional" => r.owner \in Runs

\* Every id a worker knows has been handed out.
IdsOK ==
  \A w \in Workers :
    /\ \A i \in relied[w] \union discovered[w] : i < nextId
    /\ pc[w] \in {"get", "promote"} => found[w] < nextId

\* The row a worker has inserted is its own; the row it is about to promote is
\* another's.
ProposeOK ==
  \A w \in Workers, r \in library : r.id = found[w] =>
    /\ pc[w] = "get" => (r.status = "provisional" => r.owner = Owner(w))
    /\ pc[w] = "promote" => r.owner # Owner(w)

LibraryInv ==
  /\ TypeOK
  /\ RowsOK
  /\ IdsOK
  /\ ProposeOK
  /\ GuessesStayPrivate
  /\ UsedPairsSurvive
  /\ PromotedIsVouched

------------------------------------------------------------------------------

\* The initial state satisfies the inductive invariant.
LEMMA InitInv == Init => LibraryInv
  BY SMTT(20) DEF Init, LibraryInv, TypeOK, RowsOK, IdsOK, ProposeOK, GuessesStayPrivate,
         UsedPairsSurvive, PromotedIsVouched, Row, Steps, Workers, Owner, Pairs

\* A row stays a row when its status is set to promoted.
LEMMA PromotedIsRow ==
  ASSUME NEW r \in Row
  PROVE  /\ [r EXCEPT !.status = "promoted"] \in Row
         /\ [r EXCEPT !.status = "promoted"].id = r.id
         /\ [r EXCEPT !.status = "promoted"].owner = r.owner
         /\ [r EXCEPT !.status = "promoted"].status = "promoted"
  BY DEF Row

\* Every step of a worker, a user or the process keeps the types.
LEMMA TypeStep == TypeOK /\ [Next]_vars => TypeOK'
<1> SUFFICES ASSUME TypeOK, [Next]_vars PROVE TypeOK'
  OBVIOUS
<1> USE DEF TypeOK, Steps, Step, Workers, discards
<1>1. ASSUME NEW w \in Workers, StartBatch(w) PROVE TypeOK'
  <2>1. PICK hits \in LookupResults(w), new \in SUBSET Pairs :
          /\ candidates' = [candidates EXCEPT ![w] = {h.pair : h \in hits} \union new]
          /\ todo' = [todo EXCEPT ![w] = new]
          /\ relied' = [relied EXCEPT ![w] = @ \union {h.id : h \in hits}]
    BY <1>1 DEF StartBatch
  <2>2. hits \subseteq Row
    BY DEF LookupResults, Visible
  <2>3. {h.pair : h \in hits} \subseteq Pairs /\ {h.id : h \in hits} \subseteq Nat
    BY <2>2 DEF Row
  <2> QED
    BY <1>1, <2>1, <2>3 DEF StartBatch
<1>2. ASSUME NEW w \in Workers, LoseProviders(w) PROVE TypeOK'
  BY <1>2 DEF LoseProviders, batchVars, history
<1>3. ASSUME NEW w \in Workers, FindPair(w) PROVE TypeOK'
  <2>1. PICK p \in todo[w] :
          /\ current' = [current EXCEPT ![w] = p]
          /\ \/ /\ Stored(p) = {}
                /\ pc' = [pc EXCEPT ![w] = "insert"]
                /\ UNCHANGED <<todo, history, found>>
             \/ \E r \in Stored(p) :
                  IF r.status = "provisional" /\ r.owner # Owner(w)
                  THEN /\ pc' = [pc EXCEPT ![w] = "promote"]
                       /\ found' = [found EXCEPT ![w] = r.id]
                       /\ UNCHANGED <<todo, history>>
                  ELSE Return(w, r.id)
    BY <1>3 DEF FindPair
  <2>2. Stored(p) \subseteq Row
    BY DEF Stored
  <2>3. CASE Stored(p) = {} /\ pc' = [pc EXCEPT ![w] = "insert"]
              /\ UNCHANGED <<todo, history, found>>
    BY <1>3, <2>1, <2>3 DEF FindPair, history
  <2>4. ASSUME NEW r \in Stored(p), r.status = "provisional" /\ r.owner # Owner(w),
               pc' = [pc EXCEPT ![w] = "promote"], found' = [found EXCEPT ![w] = r.id],
               UNCHANGED <<todo, history>>
        PROVE TypeOK'
    <3>1. r.id \in Nat
      BY <2>2, <2>4 DEF Row
    <3>2. UNCHANGED <<library, nextId, batches, candidates, todo, erased, relied, discovered, discards>>
      BY <1>3, <2>4 DEF FindPair, history
    <3> QED
      BY <2>1, <2>4, <3>1, <3>2
  <2>5. ASSUME NEW r \in Stored(p), Return(w, r.id) PROVE TypeOK'
    <3>1. r.id \in Nat
      BY <2>2 DEF Row
    <3>2. UNCHANGED <<library, nextId, batches, candidates, erased, relied, discards>>
      BY <1>3, <2>5 DEF FindPair, Return
    <3>3. /\ todo' = [todo EXCEPT ![w] = @ \ {p}]
          /\ discovered' = [discovered EXCEPT ![w] = @ \union {r.id}]
          /\ found' = [found EXCEPT ![w] = 0]
          /\ pc' = [pc EXCEPT ![w] = "resolve"]
      BY <2>1, <2>5 DEF Return
    <3> QED
      BY <2>1, <3>1, <3>2, <3>3
  <2> QED
    BY <2>1, <2>3, <2>4, <2>5
<1>4. ASSUME NEW w \in Workers, InsertPair(w) PROVE TypeOK'
  <2> DEFINE new == [id |-> nextId, pair |-> current[w], owner |-> Owner(w),
                     status |-> NewStatus(w)]
  <2>1. Owner(w) \in Runs \union {NoRun}
    BY DEF Owner
  <2>2. NewStatus(w) \in {"provisional", "promoted"}
    BY DEF NewStatus
  <2>3. new \in Row
    BY <2>1, <2>2 DEF Row
  <2> HIDE DEF new
  <2>4. UNCHANGED <<batches, candidates, current, discards>> /\ pc[w] = "insert"
    BY <1>4 DEF InsertPair
  <2>5. CASE Stored(current[w]) = {}
    <3>1. /\ library' = library \union {new}
          /\ found' = [found EXCEPT ![w] = nextId]
          /\ nextId' = nextId + 1
          /\ pc' = [pc EXCEPT ![w] = "get"]
          /\ UNCHANGED <<todo, erased, relied, discovered>>
      BY <1>4, <2>5 DEF InsertPair, history, new
    <3> QED
      BY <2>3, <2>4, <3>1
  <2>6. CASE Stored(current[w]) # {}
    <3>1. Raise(w) /\ UNCHANGED <<library, nextId>>
      BY <1>4, <2>6 DEF InsertPair
    <3> QED
      BY <2>4, <3>1 DEF Raise, history
  <2> QED
    BY <2>5, <2>6
<1>5. ASSUME NEW w \in Workers, GetPair(w) PROVE TypeOK'
  <2>1. UNCHANGED <<library, nextId, batches, candidates, current, discards>>
    BY <1>5 DEF GetPair
  <2>2. CASE Return(w, found[w])
    BY <2>1, <2>2 DEF Return
  <2>3. CASE Raise(w)
    BY <2>1, <2>3 DEF Raise, history
  <2> QED
    BY <1>5, <2>2, <2>3 DEF GetPair
<1>6. ASSUME NEW w \in Workers, PromotePair(w) PROVE TypeOK'
  <2>1. UNCHANGED <<nextId, batches, candidates, current, discards>>
    BY <1>6 DEF PromotePair
  <2>2. CASE WithId(found[w]) # {}
    <3>1. library' = {IF r.id = found[w] THEN [r EXCEPT !.status = "promoted"]
                      ELSE r : r \in library}
      BY <1>6, <2>2 DEF PromotePair
    <3>2. ASSUME NEW x \in library' PROVE x \in Row
      <4>1. PICK r \in library :
              x = IF r.id = found[w] THEN [r EXCEPT !.status = "promoted"] ELSE r
        BY <3>1, Zenon
      <4>2. r \in Row
        OBVIOUS
      <4> QED
        BY <4>1, <4>2, PromotedIsRow
    <3>3. Return(w, found[w])
      BY <1>6, <2>2 DEF PromotePair
    <3> QED
      BY <2>1, <3>2, <3>3 DEF Return
  <2>3. CASE WithId(found[w]) = {}
    BY <1>6, <2>1, <2>3 DEF PromotePair, Raise, history
  <2> QED
    BY <2>2, <2>3
<1>7. ASSUME NEW w \in Workers, FinishBatch(w) \/ RetryRun(w) \/ CompleteRun(w) \/ EndRun(w)
                            \/ RequestDiscard(w)
      PROVE TypeOK'
  BY <1>7 DEF FinishBatch, RetryRun, CompleteRun, EndRun, RequestDiscard, batchVars, history
<1>8. ASSUME NEW w \in Workers, PromoteRun(w) PROVE TypeOK'
  <2>1. ASSUME NEW x \in library' PROVE x \in Row
    <3>1. PICK r \in library :
            x = IF r.owner = w /\ r.status = "provisional"
                THEN [r EXCEPT !.status = "promoted"] ELSE r
      BY <1>8, Zenon DEF PromoteRun
    <3>2. r \in Row
      OBVIOUS
    <3> QED
      BY <3>1, <3>2, PromotedIsRow
  <2> QED
    BY <1>8, <2>1 DEF PromoteRun, batchVars, history
<1>9. ASSUME NEW w \in Workers, DiscardRun(w) \/ DiscardStored(w) PROVE TypeOK'
  <2>1. w \in Runs /\ DiscardPairs(w)
    BY <1>9 DEF DiscardRun, DiscardStored
  <2>2. library' \subseteq Row /\ swept' \subseteq Runs
    BY <2>1 DEF DiscardPairs
  <2>3. pc' \in [Workers -> Steps] /\ deleting' \subseteq Runs
    BY <1>9 DEF DiscardRun, DiscardStored
  <2> QED
    BY <1>9, <2>2, <2>3 DEF DiscardRun, DiscardStored, batchVars, history
<1>10. ASSUME NEW gone \in SUBSET library, Erase(gone) PROVE TypeOK'
  <2>1. {r.id : r \in gone} \subseteq Nat
    BY DEF Row
  <2> QED
    BY <1>10, <2>1 DEF Erase, batchVars
<1>11. CASE Restart
  BY <1>11 DEF Restart, history
<1>12. CASE UNCHANGED vars
  BY <1>12 DEF vars, batchVars, history
<1> QED
  BY <1>1, <1>2, <1>3, <1>4, <1>5, <1>6, <1>7, <1>8, <1>9, <1>10, <1>11, <1>12
  DEF Next, DeletePair, Flush


------------------------------------------------------------------------------

\* Worker w leaves propose's two statements, and the only change to its status
\* is between other steps: what a step that touches no row may do to pc.
Calm ==
  /\ \A w \in Workers : pc'[w] \in {"get", "promote"} => pc'[w] = pc[w] /\ found'[w] = found[w]
  /\ UNCHANGED swept
  /\ \A w \in Workers : pc[w] = "completed" => pc'[w] = "completed"

\* A step that changes no row and no worker's knowledge of rows.
LEMMA QuietStep ==
  ASSUME LibraryInv, TypeOK', Calm, UNCHANGED <<library, nextId, history>>
  PROVE  LibraryInv'
<1> USE DEF LibraryInv, Calm, history
<1>1. RowsOK'
  BY DEF RowsOK
<1>2. IdsOK'
  BY DEF IdsOK
<1>3. ProposeOK'
  BY DEF ProposeOK, Owner
<1>4. GuessesStayPrivate'
  BY DEF GuessesStayPrivate, Owner
<1>5. UsedPairsSurvive'
  BY DEF UsedPairsSurvive
<1>6. PromotedIsVouched'
  BY DEF PromotedIsVouched, Owner, Workers
<1> QED
  BY <1>1, <1>2, <1>3, <1>4, <1>5, <1>6

\* What the lookup returns is promoted or the worker's own.
LEMMA StartStep ==
  ASSUME LibraryInv, TypeOK', NEW w \in Workers, StartBatch(w)
  PROVE  LibraryInv'
<1> USE DEF LibraryInv
<1>1. PICK hits \in LookupResults(w) :
        relied' = [relied EXCEPT ![w] = @ \union {h.id : h \in hits}]
  BY DEF StartBatch
<1>2. UNCHANGED <<library, nextId, erased, found, discovered, swept>>
      /\ pc[w] = "between" /\ pc' = [pc EXCEPT ![w] = "resolve"]
  BY DEF StartBatch, Step, discards
<1>3. \A h \in hits : h \in library /\ (h.status = "provisional" => h.owner = Owner(w))
  BY DEF LookupResults, Visible, Owner, TypeOK, Row
<1>4. \A x \in Workers : \A i \in relied'[x] :
        i \in relied[x] \/ (x = w /\ \E h \in hits : i = h.id)
  BY <1>1 DEF TypeOK
<1>5. \A x \in Workers : x # w => pc'[x] = pc[x]
  BY <1>2 DEF TypeOK
<1>6. pc'[w] = "resolve"
  BY <1>2 DEF TypeOK
<1>7. RowsOK'
  BY <1>2 DEF RowsOK
<1>8. IdsOK'
  BY <1>2, <1>3, <1>4, <1>5, <1>6 DEF IdsOK, RowsOK
<1>9. ProposeOK'
  BY <1>2, <1>5, <1>6 DEF ProposeOK, Owner
<1>10. GuessesStayPrivate'
  <2> SUFFICES ASSUME NEW x \in Workers, NEW r \in library, r.status = "provisional",
                      r.id \in relied'[x] \union discovered[x]
               PROVE  r.owner = Owner(x)
    BY <1>2 DEF GuessesStayPrivate, Owner
  <2>1. CASE r.id \in relied[x] \union discovered[x]
    BY <2>1 DEF GuessesStayPrivate
  <2>2. CASE x = w /\ \E h \in hits : r.id = h.id
    BY <1>3, <2>2 DEF RowsOK
  <2> QED
    BY <1>4, <2>1, <2>2
<1>11. UsedPairsSurvive'
  <2> SUFFICES ASSUME NEW x \in Workers, x \notin swept',
                      NEW i \in relied'[x] \union discovered[x]
               PROVE  i \in erased \/ \E r \in library : r.id = i
    BY <1>2 DEF UsedPairsSurvive
  <2>1. x \notin swept
    BY <1>2, <1>5
  <2> QED
    BY <1>3, <1>4, <2>1 DEF UsedPairsSurvive
<1>12. PromotedIsVouched'
  BY <1>2, <1>5 DEF PromotedIsVouched, Owner, Workers
<1> QED
  BY <1>7, <1>8, <1>9, <1>10, <1>11, <1>12

\* propose returns row i to w: a row w may see, or one that is promoted.
LEMMA ReturnStep ==
  ASSUME LibraryInv, TypeOK', NEW w \in Workers, NEW i \in Nat, Return(w, i),
         UNCHANGED <<library, nextId, swept>>, pc[w] \in {"resolve", "get"},
         NEW r \in library, r.id = i, r.status = "provisional" => r.owner = Owner(w)
  PROVE  LibraryInv'
<1> USE DEF LibraryInv
<1>1. /\ UNCHANGED <<erased, relied>>
      /\ pc' = [pc EXCEPT ![w] = "resolve"]
      /\ discovered' = [discovered EXCEPT ![w] = @ \union {i}]
      /\ found' = [found EXCEPT ![w] = 0]
  BY DEF Return
<1>2. \A x \in Workers : \A j \in discovered'[x] : j \in discovered[x] \/ (x = w /\ j = i)
  BY <1>1 DEF TypeOK
<1>3. \A x \in Workers : x # w => pc'[x] = pc[x] /\ found'[x] = found[x]
  BY <1>1 DEF TypeOK
<1>4. pc'[w] = "resolve"
  BY <1>1 DEF TypeOK
<1>5. \A x \in Workers : discovered[x] \subseteq discovered'[x]
  BY <1>1 DEF TypeOK
<1>6. RowsOK'
  BY DEF RowsOK
<1>7. IdsOK'
  BY <1>1, <1>2, <1>3, <1>4 DEF IdsOK, RowsOK
<1>8. ProposeOK'
  BY <1>3, <1>4 DEF ProposeOK, Owner
<1>9. GuessesStayPrivate'
  BY <1>1, <1>2 DEF GuessesStayPrivate, RowsOK, Owner
<1>10. UsedPairsSurvive'
  <2> SUFFICES ASSUME NEW x \in Workers, x \notin swept',
                      NEW j \in relied[x] \union discovered'[x]
               PROVE  j \in erased \/ \E q \in library : q.id = j
    BY <1>1 DEF UsedPairsSurvive
  <2>1. x \notin swept
    BY <1>3
  <2> QED
    BY <1>2, <2>1 DEF UsedPairsSurvive
<1>11. PromotedIsVouched'
  <2> SUFFICES ASSUME NEW q \in library, q.status = "promoted", q.owner # NoRun,
                      ~ (q.owner \in Runs /\ pc'[q.owner] = "completed")
               PROVE  \E x \in Workers : Owner(x) # q.owner /\ q.id \in discovered'[x]
    BY DEF PromotedIsVouched, Owner
  <2>1. ~ (q.owner \in Runs /\ pc[q.owner] = "completed")
    BY <1>3 DEF Workers
  <2> QED
    BY <1>5, <2>1 DEF PromotedIsVouched
<1> QED
  BY <1>6, <1>7, <1>8, <1>9, <1>10, <1>11

\* A fresh row is known to nobody, and provisional only under its inserter.
LEMMA InsertStep ==
  ASSUME LibraryInv, TypeOK', NEW w \in Workers, InsertPair(w),
         Stored(current[w]) = {}
  PROVE  LibraryInv'
<1> USE DEF LibraryInv
<1> DEFINE new == [id |-> nextId, pair |-> current[w], owner |-> Owner(w),
                   status |-> NewStatus(w)]
<1>1. /\ library' = library \union {new}
      /\ nextId' = nextId + 1
      /\ found' = [found EXCEPT ![w] = nextId]
      /\ pc' = [pc EXCEPT ![w] = "get"]
      /\ UNCHANGED <<erased, relied, discovered, swept>>
      /\ pc[w] = "insert"
  BY DEF InsertPair, history, discards
<1>2. new.id = nextId /\ new.owner = Owner(w)
  OBVIOUS
<1>3. /\ new.status = "provisional" => w \in Runs /\ Owner(w) \in Runs
      /\ new.status = "promoted" => new.owner = NoRun
  BY DEF NewStatus, Owner
<1> HIDE DEF new
<1>4. \A x \in Workers : x # w => pc'[x] = pc[x] /\ found'[x] = found[x]
  BY <1>1 DEF TypeOK
<1>5. pc'[w] = "get" /\ found'[w] = nextId /\ nextId \in Nat
  BY <1>1 DEF TypeOK
<1>6. \A r \in library : r.id \in Nat
  BY DEF TypeOK, Row
<1>7. RowsOK'
  BY <1>1, <1>2, <1>3, <1>5, <1>6 DEF RowsOK
<1>8. IdsOK'
  <2> SUFFICES ASSUME NEW x \in Workers
               PROVE  /\ \A i \in relied[x] \union discovered[x] : i < nextId + 1
                      /\ pc'[x] \in {"get", "promote"} => found'[x] < nextId + 1
    BY <1>1 DEF IdsOK
  <2>1. relied[x] \subseteq Nat /\ discovered[x] \subseteq Nat /\ found[x] \in Nat
    BY DEF TypeOK
  <2> QED
    BY <2>1, <1>4, <1>5 DEF IdsOK
<1>9. ProposeOK'
  <2> SUFFICES ASSUME NEW x \in Workers, NEW r \in library', r.id = found'[x]
               PROVE  /\ pc'[x] = "get" => (r.status = "provisional" => r.owner = Owner(x))
                      /\ pc'[x] = "promote" => r.owner # Owner(x)
    BY DEF ProposeOK, Owner
  <2>1. CASE x = w
    BY <1>1, <1>2, <1>5, <1>6, <2>1 DEF RowsOK
  <2>2. CASE x # w /\ r \in library
    BY <1>4, <2>2 DEF ProposeOK
  <2>3. CASE x # w /\ r = new
    BY <1>2, <1>4, <1>5, <2>3 DEF IdsOK, TypeOK
  <2> QED
    BY <1>1, <2>1, <2>2, <2>3
<1>10. GuessesStayPrivate'
  BY <1>1, <1>2, <1>5 DEF GuessesStayPrivate, Owner, IdsOK
<1>11. UsedPairsSurvive'
  BY <1>1 DEF UsedPairsSurvive
<1>12. PromotedIsVouched'
  <2> SUFFICES ASSUME NEW q \in library', q.status = "promoted", q.owner # NoRun,
                      ~ (q.owner \in Runs /\ pc'[q.owner] = "completed")
               PROVE  \E x \in Workers : Owner(x) # q.owner /\ q.id \in discovered[x]
    BY <1>1 DEF PromotedIsVouched, Owner
  <2>1. q \in library
    BY <1>1, <1>3
  <2>2. ~ (q.owner \in Runs /\ pc[q.owner] = "completed")
    BY <1>1, <1>4 DEF Workers
  <2> QED
    BY <2>1, <2>2 DEF PromotedIsVouched
<1> QED
  BY <1>7, <1>8, <1>9, <1>10, <1>11, <1>12

\* An exception leaves the rows alone.
LEMMA RaiseStep ==
  ASSUME LibraryInv, TypeOK', NEW w \in Workers, Raise(w), UNCHANGED <<library, nextId, swept>>,
         pc[w] \in {"insert", "promote", "get"}
  PROVE  LibraryInv'
<1>1. Calm
  BY DEF Calm, Raise, LibraryInv, TypeOK
<1>2. UNCHANGED history
  BY DEF Raise
<1> QED
  BY <1>1, <1>2, QuietStep

\* The SELECT of propose.
LEMMA FindStep ==
  ASSUME LibraryInv, TypeOK', NEW w \in Workers, FindPair(w)
  PROVE  LibraryInv'
<1>1. UNCHANGED <<library, nextId, swept>> /\ pc[w] = "resolve"
  BY DEF FindPair, discards
<1>2. PICK p \in todo[w] :
        \/ /\ Stored(p) = {}
           /\ pc' = [pc EXCEPT ![w] = "insert"]
           /\ UNCHANGED <<todo, history, found>>
        \/ \E r \in Stored(p) :
             IF r.status = "provisional" /\ r.owner # Owner(w)
             THEN /\ pc' = [pc EXCEPT ![w] = "promote"]
                  /\ found' = [found EXCEPT ![w] = r.id]
                  /\ UNCHANGED <<todo, history>>
             ELSE Return(w, r.id)
  BY DEF FindPair
<1>3. ASSUME pc' = [pc EXCEPT ![w] = "insert"], UNCHANGED <<todo, history, found>>
      PROVE  LibraryInv'
  <2>1. Calm
    BY <1>1, <1>3 DEF Calm, LibraryInv, TypeOK
  <2> QED
    BY <1>1, <1>3, <2>1, QuietStep
<1>4. ASSUME NEW r \in Stored(p), r.status = "provisional" /\ r.owner # Owner(w),
             pc' = [pc EXCEPT ![w] = "promote"], found' = [found EXCEPT ![w] = r.id],
             UNCHANGED history
      PROVE  LibraryInv'
  <2> USE DEF LibraryInv
  <2>1. r \in library /\ r.id \in Nat
    BY DEF Stored, TypeOK, Row
  <2>2. \A x \in Workers : x # w => pc'[x] = pc[x] /\ found'[x] = found[x]
    BY <1>4 DEF TypeOK
  <2>3. pc'[w] = "promote" /\ found'[w] = r.id
    BY <1>4 DEF TypeOK
  <2>4. UNCHANGED <<erased, relied, discovered>>
    BY <1>4 DEF history
  <2>5. RowsOK'
    BY <1>1 DEF RowsOK
  <2>6. IdsOK'
    BY <1>1, <2>1, <2>2, <2>3, <2>4 DEF IdsOK, RowsOK
  <2>7. ProposeOK'
    BY <1>1, <1>4, <2>1, <2>2, <2>3 DEF ProposeOK, RowsOK, Owner
  <2>8. GuessesStayPrivate'
    BY <1>1, <2>4 DEF GuessesStayPrivate, Owner
  <2>9. UsedPairsSurvive'
    BY <1>1, <2>2, <2>4 DEF UsedPairsSurvive
  <2>10. PromotedIsVouched'
    BY <1>1, <2>2, <2>4 DEF PromotedIsVouched, Owner, Workers
  <2> QED
    BY <2>5, <2>6, <2>7, <2>8, <2>9, <2>10
<1>5. ASSUME NEW r \in Stored(p), ~ (r.status = "provisional" /\ r.owner # Owner(w)),
             Return(w, r.id)
      PROVE  LibraryInv'
  <2>1. r \in library /\ r.id \in Nat
    BY DEF Stored, LibraryInv, TypeOK, Row
  <2> QED
    BY <1>1, <1>5, <2>1, ReturnStep
<1> QED
  BY <1>2, <1>3, <1>4, <1>5

\* Promotes some rows and changes nothing else about any row.
Promotes(chosen) ==
  library' = {IF r \in chosen THEN [r EXCEPT !.status = "promoted"] ELSE r : r \in library}

\* Promoting rows keeps ids and owners, so whatever was known of a row still is.
LEMMA PromotesRows ==
  ASSUME TypeOK, NEW chosen, Promotes(chosen)
  PROVE  /\ \A x \in library' : \E r \in library :
              /\ x.id = r.id /\ x.owner = r.owner
              /\ x.status = "provisional" => x = r
              /\ x = r \/ (r \in chosen /\ x = [r EXCEPT !.status = "promoted"])
         /\ \A r \in library : \E x \in library' : x.id = r.id
<1>1. \A r \in library : r \in Row
  BY DEF TypeOK
<1>2. ASSUME NEW x \in library'
      PROVE  \E r \in library :
              /\ x.id = r.id /\ x.owner = r.owner
              /\ x.status = "provisional" => x = r
              /\ x = r \/ (r \in chosen /\ x = [r EXCEPT !.status = "promoted"])
  <2>1. PICK r \in library :
          x = IF r \in chosen THEN [r EXCEPT !.status = "promoted"] ELSE r
    BY <1>2, Zenon DEF Promotes
  <2> QED
    BY <1>1, <2>1, PromotedIsRow
<1>3. ASSUME NEW r \in library PROVE \E x \in library' : x.id = r.id
  <2> DEFINE y == IF r \in chosen THEN [r EXCEPT !.status = "promoted"] ELSE r
  <2>1. y \in library'
    BY Zenon DEF Promotes
  <2>2. y.id = r.id
    BY <1>1, PromotedIsRow
  <2> QED
    BY <2>1, <2>2
<1> QED
  BY <1>2, <1>3

\* A step that promotes rows and touches nothing a worker knows but w's
\* discoveries keeps all but PromotedIsVouched.
LEMMA PromotingStep ==
  ASSUME LibraryInv, NEW chosen, Promotes(chosen), UNCHANGED <<nextId, erased, relied, swept>>,
         NEW w \in Workers, \A x \in Workers : x # w => pc'[x] = pc[x] /\ found'[x] = found[x],
         pc'[w] \in {"resolve", "completed"},
         \A x \in Workers : \A i \in discovered'[x] :
           i \in discovered[x] \/ (x = w /\ \E r \in library' : r.id = i /\ r.status = "promoted")
  PROVE  /\ RowsOK' /\ IdsOK' /\ ProposeOK' /\ GuessesStayPrivate' /\ UsedPairsSurvive'
<1> USE DEF LibraryInv
<1>1. \A x \in library' : \E r \in library :
        /\ x.id = r.id /\ x.owner = r.owner
        /\ x.status = "provisional" => x = r
        /\ x = r \/ (r \in chosen /\ x = [r EXCEPT !.status = "promoted"])
  BY PromotesRows
<1>2. \A r \in library : \E x \in library' : x.id = r.id
  BY PromotesRows
<1>3. RowsOK'
  <2>1. \A x \in library' : x.id < nextId /\ (x.status = "provisional" => x.owner \in Runs)
    BY <1>1 DEF RowsOK
  <2>2. ASSUME NEW x1 \in library', NEW x2 \in library', x1.id = x2.id PROVE x1 = x2
    <3>1. PICK r1 \in library :
            x1 = IF r1 \in chosen THEN [r1 EXCEPT !.status = "promoted"] ELSE r1
      BY <2>2, Zenon DEF Promotes
    <3>2. PICK r2 \in library :
            x2 = IF r2 \in chosen THEN [r2 EXCEPT !.status = "promoted"] ELSE r2
      BY <2>2, Zenon DEF Promotes
    <3>3. r1 \in Row /\ r2 \in Row
      BY DEF TypeOK
    <3>4. x1.id = r1.id
      BY <3>1, <3>3, PromotedIsRow
    <3>5. x2.id = r2.id
      BY <3>2, <3>3, PromotedIsRow
    <3>6. r1.id = r2.id
      BY <2>2, <3>4, <3>5
    <3>7. r1 = r2
      BY <3>6 DEF RowsOK
    <3> QED
      BY <3>1, <3>2, <3>7
  <2> QED
    BY <2>1, <2>2 DEF RowsOK
<1>4. IdsOK'
  BY <1>3 DEF IdsOK, RowsOK
<1>5. ProposeOK'
  BY <1>1 DEF ProposeOK, Owner
<1>6. GuessesStayPrivate'
  BY <1>1, <1>3 DEF GuessesStayPrivate, RowsOK, Owner
<1>7. UsedPairsSurvive'
  <2> SUFFICES ASSUME NEW x \in Workers, x \notin swept',
                      NEW i \in relied[x] \union discovered'[x]
               PROVE  i \in erased \/ \E r \in library' : r.id = i
    BY DEF UsedPairsSurvive
  <2>1. x \notin swept
    OBVIOUS
  <2>2. CASE i \in relied[x] \union discovered[x]
    BY <1>2, <2>1, <2>2 DEF UsedPairsSurvive
  <2> QED
    BY <2>2
<1> QED
  BY <1>3, <1>4, <1>5, <1>6, <1>7

\* The second discovery promotes the first one's row.
LEMMA PromotePairStep ==
  ASSUME LibraryInv, TypeOK', NEW w \in Workers, PromotePair(w), WithId(found[w]) # {}
  PROVE  LibraryInv'
<1> USE DEF LibraryInv
<1> DEFINE chosen == WithId(found[w])
<1>1. /\ library' = {IF r.id = found[w] THEN [r EXCEPT !.status = "promoted"]
                     ELSE r : r \in library}
      /\ Return(w, found[w])
      /\ UNCHANGED <<nextId, swept>>
      /\ pc[w] = "promote"
  BY DEF PromotePair, discards
<1>2. Promotes(chosen)
  BY <1>1 DEF Promotes, WithId
<1>3. /\ UNCHANGED <<erased, relied>>
      /\ pc' = [pc EXCEPT ![w] = "resolve"]
      /\ discovered' = [discovered EXCEPT ![w] = @ \union {found[w]}]
      /\ found' = [found EXCEPT ![w] = 0]
  BY <1>1 DEF Return
<1>4. /\ \A x \in Workers : x # w => pc'[x] = pc[x] /\ found'[x] = found[x]
      /\ pc'[w] = "resolve"
      /\ \A x \in Workers : discovered[x] \subseteq discovered'[x]
      /\ found[w] \in discovered'[w]
  BY <1>3 DEF TypeOK
<1>5. PICK r \in library : r.id = found[w]
  BY DEF WithId
<1>6. [r EXCEPT !.status = "promoted"] \in library'
  BY <1>1, <1>5
<1>7. \E x \in library' : x.id = found[w] /\ x.status = "promoted"
  BY <1>5, <1>6, PromotedIsRow DEF TypeOK
<1>8. \A x \in Workers : \A i \in discovered'[x] :
        i \in discovered[x] \/ (x = w /\ \E q \in library' : q.id = i /\ q.status = "promoted")
  BY <1>3, <1>7 DEF TypeOK
<1> HIDE DEF chosen
<1>9. RowsOK' /\ IdsOK' /\ ProposeOK' /\ GuessesStayPrivate' /\ UsedPairsSurvive'
  BY <1>1, <1>2, <1>3, <1>4, <1>8, PromotingStep
<1>10. PromotedIsVouched'
  <2> SUFFICES ASSUME NEW q \in library', q.status = "promoted", q.owner # NoRun,
                      ~ (q.owner \in Runs /\ pc'[q.owner] = "completed")
               PROVE  \E x \in Workers : Owner(x) # q.owner /\ q.id \in discovered'[x]
    BY DEF PromotedIsVouched, Owner
  <2>1. PICK s \in library :
          /\ q.id = s.id /\ q.owner = s.owner
          /\ q = s \/ s \in chosen
    BY <1>2, PromotesRows
  <2>2. CASE s \in chosen
    <3>1. s.id = found[w]
      BY <2>2 DEF chosen, WithId
    <3>2. s.owner # Owner(w)
      BY <1>1, <3>1 DEF ProposeOK
    <3> QED
      BY <1>4, <2>1, <3>1, <3>2
  <2>3. CASE q = s
    <3>1. ~ (s.owner \in Runs /\ pc[s.owner] = "completed")
      BY <1>1, <1>4, <2>1 DEF Workers
    <3> QED
      BY <1>4, <2>1, <2>3, <3>1 DEF PromotedIsVouched
  <2> QED
    BY <2>1, <2>2, <2>3
<1> QED
  BY <1>9, <1>10

\* A completed run promotes its own provisional rows.
LEMMA PromoteRunStep ==
  ASSUME LibraryInv, TypeOK', NEW w \in Workers, PromoteRun(w)
  PROVE  LibraryInv'
<1> USE DEF LibraryInv
<1> DEFINE chosen == {r \in library : r.owner = w /\ r.status = "provisional"}
<1>1. /\ UNCHANGED <<nextId, erased, relied, discovered, found, swept>>
      /\ pc[w] = "promoting" /\ pc' = [pc EXCEPT ![w] = "completed"]
  BY DEF PromoteRun, Step, batchVars, history, discards
<1>2. Promotes(chosen)
  BY DEF PromoteRun, Promotes
<1>3. pc'[w] = "completed" /\ \A x \in Workers : x # w => pc'[x] = pc[x]
  BY <1>1 DEF TypeOK
<1>4. RowsOK' /\ IdsOK' /\ ProposeOK' /\ GuessesStayPrivate' /\ UsedPairsSurvive'
  <2> HIDE DEF chosen
  <2> QED
    BY <1>1, <1>2, <1>3, PromotingStep
<1>5. PromotedIsVouched'
  <2> SUFFICES ASSUME NEW q \in library', q.status = "promoted", q.owner # NoRun,
                      ~ (q.owner \in Runs /\ pc'[q.owner] = "completed")
               PROVE  \E x \in Workers : Owner(x) # q.owner /\ q.id \in discovered[x]
    BY <1>1 DEF PromotedIsVouched, Owner
  <2>1. PICK s \in library :
          /\ q.id = s.id /\ q.owner = s.owner
          /\ q = s \/ s \in chosen
    <3> HIDE DEF chosen
    <3> QED
      BY <1>2, PromotesRows
  <2>2. CASE s \in chosen
    BY <1>3, <2>1, <2>2 DEF RowsOK
  <2>3. CASE q = s
    <3>1. ~ (s.owner \in Runs /\ pc[s.owner] = "completed")
      BY <1>1, <1>3, <2>1 DEF Workers
    <3> QED
      BY <2>1, <2>3, <3>1 DEF PromotedIsVouched
  <2> QED
    BY <2>1, <2>2, <2>3
<1> QED
  BY <1>4, <1>5

\* A discarded run's provisional rows were known to nobody else.
LEMMA DiscardStep ==
  ASSUME LibraryInv, TypeOK', NEW w \in Runs, DiscardRun(w) \/ DiscardStored(w)
  PROVE  LibraryInv'
<1> USE DEF LibraryInv
<1>1. /\ UNCHANGED <<nextId, erased, relied, discovered, found>>
      /\ library' = {r \in library : ~ (r.owner = w /\ r.status = "provisional")}
      /\ swept' = swept \union {w}
  BY DEF DiscardRun, DiscardStored, DiscardPairs, batchVars, history
<1>2. \A x \in Workers : pc'[x] = pc[x] \/ (pc[x] = "discarding" /\ pc'[x] = "cancelled")
  BY DEF DiscardRun, DiscardStored, Step, TypeOK
<1>3. library' \subseteq library
  BY <1>1
<1>4. RowsOK'
  BY <1>1, <1>3 DEF RowsOK
<1>5. IdsOK'
  BY <1>1, <1>2 DEF IdsOK
<1>6. ProposeOK'
  BY <1>1, <1>2, <1>3 DEF ProposeOK, Owner
<1>7. GuessesStayPrivate'
  BY <1>1, <1>3 DEF GuessesStayPrivate, Owner
<1>8. UsedPairsSurvive'
  <2> SUFFICES ASSUME NEW x \in Workers, x \notin swept',
                      NEW i \in relied[x] \union discovered[x], i \notin erased
               PROVE  \E r \in library' : r.id = i
    BY <1>1 DEF UsedPairsSurvive
  <2>1. x # w /\ x \notin swept
    BY <1>1
  <2>2. PICK r \in library : r.id = i
    BY <2>1 DEF UsedPairsSurvive
  <2>3. r.status = "provisional" => r.owner = Owner(x) /\ r.owner \in Runs
    BY <2>2 DEF GuessesStayPrivate, RowsOK
  <2>4. ~ (r.owner = w /\ r.status = "provisional")
    BY <2>1, <2>3, WorkersAssumption DEF Owner
  <2> QED
    BY <1>1, <2>2, <2>4
<1>9. PromotedIsVouched'
  BY <1>1, <1>2, <1>3 DEF PromotedIsVouched, Owner, Workers
<1> QED
  BY <1>4, <1>5, <1>6, <1>7, <1>8, <1>9

\* What a user deletes is recorded as erased.
LEMMA EraseStep ==
  ASSUME LibraryInv, TypeOK', NEW gone \in SUBSET library, Erase(gone)
  PROVE  LibraryInv'
<1> USE DEF LibraryInv
<1>1. /\ UNCHANGED <<nextId, pc, found, relied, discovered, swept>>
      /\ library' = library \ gone
      /\ erased' = erased \union {r.id : r \in gone}
  BY DEF Erase, batchVars, discards
<1>2. RowsOK'
  BY <1>1 DEF RowsOK
<1>3. IdsOK'
  BY <1>1 DEF IdsOK
<1>4. ProposeOK'
  BY <1>1 DEF ProposeOK, Owner
<1>5. GuessesStayPrivate'
  BY <1>1 DEF GuessesStayPrivate, Owner
<1>6. UsedPairsSurvive'
  BY <1>1 DEF UsedPairsSurvive
<1>7. PromotedIsVouched'
  BY <1>1 DEF PromotedIsVouched, Owner
<1> QED
  BY <1>2, <1>3, <1>4, <1>5, <1>6, <1>7

------------------------------------------------------------------------------

\* Every step preserves the inductive invariant.
LEMMA InvStep == LibraryInv /\ [Next]_vars => LibraryInv'
<1> SUFFICES ASSUME LibraryInv, [Next]_vars PROVE LibraryInv'
  OBVIOUS
<1>0. TypeOK'
  BY TypeStep DEF LibraryInv
<1>1. ASSUME NEW w \in Workers, StartBatch(w) PROVE LibraryInv'
  BY <1>0, <1>1, StartStep
<1>2. ASSUME NEW w \in Workers,
             LoseProviders(w) \/ FinishBatch(w) \/ RetryRun(w) \/ CompleteRun(w) \/ EndRun(w)
               \/ RequestDiscard(w)
      PROVE  LibraryInv'
  <2>1. Calm
    BY <1>2 DEF Calm, LibraryInv, TypeOK, LoseProviders, FinishBatch, RetryRun, CompleteRun,
                EndRun, RequestDiscard, Step, batchVars, discards
  <2>2. UNCHANGED <<library, nextId, history>>
    BY <1>2 DEF LoseProviders, FinishBatch, RetryRun, CompleteRun, EndRun, RequestDiscard
  <2> QED
    BY <1>0, <2>1, <2>2, QuietStep
<1>3. ASSUME NEW w \in Workers, FindPair(w) PROVE LibraryInv'
  BY <1>0, <1>3, FindStep
<1>4. ASSUME NEW w \in Workers, InsertPair(w) PROVE LibraryInv'
  <2>1. CASE Stored(current[w]) = {}
    BY <1>0, <1>4, <2>1, InsertStep
  <2>2. CASE Stored(current[w]) # {}
    <3>1. Raise(w) /\ UNCHANGED <<library, nextId, swept>> /\ pc[w] = "insert"
      BY <1>4, <2>2 DEF InsertPair, discards
    <3> QED
      BY <1>0, <3>1, RaiseStep
  <2> QED
    BY <2>1, <2>2
<1>5. ASSUME NEW w \in Workers, GetPair(w) PROVE LibraryInv'
  <2>1. UNCHANGED <<library, nextId, swept>> /\ pc[w] = "get"
    BY <1>5 DEF GetPair, discards
  <2>2. CASE WithId(found[w]) # {}
    <3>1. PICK r \in library : r.id = found[w]
      BY <2>2 DEF WithId
    <3>2. r.status = "provisional" => r.owner = Owner(w)
      BY <2>1, <3>1 DEF LibraryInv, ProposeOK
    <3>3. Return(w, found[w]) /\ found[w] \in Nat
      BY <1>5, <2>2 DEF GetPair, LibraryInv, TypeOK
    <3> QED
      BY <1>0, <2>1, <3>1, <3>2, <3>3, ReturnStep
  <2>3. CASE WithId(found[w]) = {}
    <3>1. Raise(w)
      BY <1>5, <2>3 DEF GetPair
    <3> QED
      BY <1>0, <2>1, <3>1, RaiseStep
  <2> QED
    BY <2>2, <2>3
<1>6. ASSUME NEW w \in Workers, PromotePair(w) PROVE LibraryInv'
  <2>1. CASE WithId(found[w]) # {}
    BY <1>0, <1>6, <2>1, PromotePairStep
  <2>2. CASE WithId(found[w]) = {}
    <3>1. Raise(w) /\ UNCHANGED <<library, nextId, swept>> /\ pc[w] = "promote"
      BY <1>6, <2>2 DEF PromotePair, discards
    <3> QED
      BY <1>0, <3>1, RaiseStep
  <2> QED
    BY <2>1, <2>2
<1>7. ASSUME NEW w \in Workers, PromoteRun(w) PROVE LibraryInv'
  BY <1>0, <1>7, PromoteRunStep
<1>8. ASSUME NEW w \in Workers, DiscardRun(w) \/ DiscardStored(w) PROVE LibraryInv'
  <2>1. w \in Runs
    BY <1>8 DEF DiscardRun, DiscardStored, LibraryInv, TypeOK
  <2> QED
    BY <1>0, <1>8, <2>1, DiscardStep
<1>9. ASSUME NEW gone \in SUBSET library, Erase(gone) PROVE LibraryInv'
  BY <1>0, <1>9, EraseStep
<1>10. CASE Restart
  <2>1. Calm
    BY <1>10 DEF Calm, LibraryInv, TypeOK, Restart
  <2>2. UNCHANGED <<library, nextId, history>>
    BY <1>10 DEF Restart
  <2> QED
    BY <1>0, <2>1, <2>2, QuietStep
<1>11. CASE UNCHANGED vars
  <2>1. Calm /\ UNCHANGED <<library, nextId, history>>
    BY <1>11 DEF Calm, vars, batchVars, discards
  <2> QED
    BY <1>0, <2>1, QuietStep
<1> QED
  BY <1>1, <1>2, <1>3, <1>4, <1>5, <1>6, <1>7, <1>8, <1>9, <1>10, <1>11
  DEF Next, DeletePair, Flush

\* The inductive invariant of the library.
THEOREM LibraryInvHolds == Spec => []LibraryInv
  BY InitInv, InvStep, PTL DEF Spec

\* Every variable keeps its type.
THEOREM LibraryTypes == Spec => []TypeOK
  BY LibraryInvHolds, PTL DEF LibraryInv

\* A provisional pair was seen by no run but its own.
THEOREM GuessesArePrivate == Spec => []GuessesStayPrivate
  BY LibraryInvHolds, PTL DEF LibraryInv

\* No pair a run relies on is discarded with another run.
THEOREM NoDanglingPair == Spec => []UsedPairsSurvive
  BY LibraryInvHolds, PTL DEF LibraryInv

\* A promoted pair has a completed run, a request or a second run behind it.
THEOREM PromotionIsVouched == Spec => []PromotedIsVouched
  BY LibraryInvHolds, PTL DEF LibraryInv

==============================================================================
