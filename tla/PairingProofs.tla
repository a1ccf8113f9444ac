---------------------------- MODULE PairingProofs ----------------------------
(***************************************************************************)
(* Value pairing, for any number of values, chains and batches, any        *)
(* library and a model that claims anything.                               *)
(*                                                                         *)
(* A verdict is sound when every confirmed claim was re-executed; the       *)
(* matches of a batch come of sound verdicts.  PairInv says what the        *)
(* batches that are paired hold, and that what they found is stored or was  *)
(* deleted by a user.                                                       *)
(***************************************************************************)
EXTENDS Pairing, FiniteSetTheorems, TLAPS

Values == Targets \union Ghosts
Rules == {"identity", "library", "llm", "pattern", "llm_rejected", "unpaired"}
MatchRecord == [value : Sources, target : Values \union {None}, rule : Rules,
                rows : Nat, signal : {None, "yes", "no", "unknown"}]

TypeOK ==
  /\ caller \in {"manual", "auto"}
  /\ rows \in [Batches -> [Sources -> 0..MaxRows]]
  /\ present \in [Batches -> SUBSET Targets]
  /\ library \subseteq Sources \X Values
  /\ pc \in {"lookup", "ask", "resolve", "failed", "merge", "done"}
  /\ batch \in Batches
  /\ hits \in [Sources -> Values \union {None}]
  /\ answer \in Seq(Claims)
  /\ matches \in [Batches -> SUBSET MatchRecord]

\* The batches that have been paired.
IsPaired(b) == b < batch \/ pc \in {"merge", "done"}
Deleted(v) == \E p \in deletes : p[1] = v

\* What the lookup returned is stored, and without a hit nothing is.
HitsOK ==
  \A v \in Sources :
    /\ hits[v] # None => <<v, hits[v]>> \in library \/ Deleted(v)
    /\ pc \in {"ask", "resolve"} /\ hits[v] = None => \A p \in library : p[1] # v

\* The matches of a batch: one for each target of a value, or one without.
MatchesOK(b) ==
  /\ \A m \in matches[b] :
       /\ m.value \in ValuesOf(b) /\ m.rows = rows[b][m.value]
       /\ m.rule = "identity" => m.value = m.target /\ m.target \in TargetsOf(b)
       /\ m.rule # "identity" /\ m.target # None =>
            <<m.value, m.target>> \in library \/ Deleted(m.value)
  /\ \A m, n \in matches[b] :
       m.value = n.value /\ (m.target = n.target \/ m.target = None) => m = n
  /\ IsPaired(b) => \A v \in ValuesOf(b) : \E m \in matches[b] : m.value = v

\* A value that had a target has one in every later batch.
ReuseOK ==
  caller = "manual" =>
    \A b, c \in Batches : b < c /\ IsPaired(c) =>
      \A m \in matches[b] :
        m.target # None /\ ~Deleted(m.value) /\ m.value \in ValuesOf(c) =>
          \E n \in matches[c] : n.value = m.value /\ n.target # None

MappingOK == pc = "done" /\ caller = "manual" => mapping = MergeBatches

PairInv ==
  /\ TypeOK /\ HitsOK /\ (\A b \in Batches : MatchesOK(b)) /\ ReuseOK /\ MappingOK
  /\ PairsAreGrounded

------------------------------------------------------------------------------
\* Of some numbers one is the smallest.
LEMMA Smallest ==
  ASSUME NEW T, T \subseteq Nat, T # {}
  PROVE  \E x \in T : \A y \in T : x <= y
<1> DEFINE Below == {0..x : x \in T}
<1>1. IsWellFoundedOn(StrictSubsetOrdering(Nat), FiniteSubsetsOf(Nat))
  BY FS_StrictSubsetOrderingWellFounded
<1>2. Below \subseteq FiniteSubsetsOf(Nat) /\ Below # {}
  <2>1. \A x \in T : 0..x \in SUBSET Nat /\ IsFiniteSet(0..x)
    BY FS_Interval
  <2> QED
    BY <2>1 DEF FiniteSubsetsOf
<1>3. PICK B \in Below : \A C \in Below : ~ (<<C, B>> \in StrictSubsetOrdering(Nat))
  BY <1>1, <1>2, WFMin
<1>4. PICK x \in T : B = 0..x
  BY <1>3
<1>5. ASSUME NEW y \in T PROVE x <= y
  <2>1. SUFFICES ASSUME y < x PROVE FALSE
    OBVIOUS
  <2>2. 0..y \subseteq 0..x /\ 0..y # 0..x /\ 0..x \in SUBSET Nat /\ 0..y \in SUBSET Nat
    <3>1. x \in Nat /\ y \in Nat /\ x \in 0..x /\ x \notin 0..y
      BY <2>1
    <3> QED
      BY <2>1, <3>1
  <2>3. <<0..y, 0..x>> \in StrictSubsetOrdering(Nat)
    BY <2>2 DEF StrictSubsetOrdering
  <2> QED
    BY <1>3, <1>4, <2>3
<1> QED
  BY <1>5

LEMMA MinIs ==
  ASSUME NEW T, T \subseteq Nat, T # {}
  PROVE  Min(T) \in T /\ \A y \in T : Min(T) <= y
<1>1. \E x \in T : \A y \in T : x <= y
  BY Smallest
<1> QED
  BY <1>1 DEF Min

------------------------------------------------------------------------------
(* The verdicts on the proposals of an answer.                             *)

\* A confirmed claim is about its value, was reproduced and has a real target.
Sound(b, s) ==
  /\ s = [direction |-> s.direction, result |-> s.result, rejected |-> s.rejected]
  /\ s.direction \in [Chains -> {None, "forward", "reverse"}]
  /\ s.result \in [Sources -> Claims \union {None}]
  /\ \A v \in Sources :
       s.result[v] # None => s.result[v].value = v /\ Confirms(b, s.result[v])

LEMMA JudgedIsSound ==
  ASSUME NEW b, NEW s, Sound(b, s), NEW c \in Claims
  PROVE  Sound(b, Judged(b, s, c))
<1>1. c.value \in Sources /\ c.chain \in Chains
  BY ClaimsAssumption
<1>2. CASE c.value \notin ValuesOf(b) \/ s.result[c.value] # None \/ c.target = c.value
  BY <1>2 DEF Judged
<1>3. CASE ~(c.value \notin ValuesOf(b) \/ s.result[c.value] # None \/ c.target = c.value) /\ Confirms(b, c)
  <2> DEFINE d == [s.direction EXCEPT ![c.chain] = Direction(c)]
             r == [s.result EXCEPT ![c.value] = c]
  <2>1. Judged(b, s, c) = [direction |-> d, result |-> r, rejected |-> s.rejected]
    <3>1. Judged(b, s, c) = [s EXCEPT !.direction[c.chain] = Direction(c), !.result[c.value] = c]
      BY <1>3 DEF Judged
    <3>2. s = [direction |-> s.direction, result |-> s.result, rejected |-> s.rejected]
      BY DEF Sound
    <3> QED
      BY <3>1, <3>2
  <2>2. Direction(c) \in {None, "forward", "reverse"}
    BY DEF Direction
  <2>3. d \in [Chains -> {None, "forward", "reverse"}]
    BY <1>1, <2>2 DEF Sound
  <2>4. r \in [Sources -> Claims \union {None}] /\ r[c.value] = c
        /\ \A v \in Sources \ {c.value} : r[v] = s.result[v]
    BY <1>1 DEF Sound
  <2>5. \A v \in Sources : r[v] # None => r[v].value = v /\ Confirms(b, r[v])
    BY <1>3, <2>4 DEF Sound
  <2> HIDE DEF d, r
  <2> QED
    BY <2>1, <2>3, <2>4, <2>5 DEF Sound
<1>4. CASE ~(c.value \notin ValuesOf(b) \/ s.result[c.value] # None \/ c.target = c.value) /\ ~Confirms(b, c)
  <2>1. Judged(b, s, c) = [s EXCEPT !.rejected = @ \union {c.value}]
    BY <1>4 DEF Judged
  <2>2. Judged(b, s, c) = [direction |-> s.direction, result |-> s.result,
                           rejected |-> s.rejected \union {c.value}]
    <3>1. s = [direction |-> s.direction, result |-> s.result, rejected |-> s.rejected]
      BY DEF Sound
    <3> QED
      BY <2>1, <3>1
  <2> QED
    BY <2>2 DEF Sound
<1> QED
  BY <1>2, <1>3, <1>4

\* The verdicts after each proposal.
LEMMA VerdictsExist ==
  ASSUME NEW b, NEW claims \in Seq(Claims)
  PROVE  \E f : /\ f = [n \in 0..Len(claims) |->
                          IF n = 0 THEN Unjudged ELSE Judged(b, f[n - 1], claims[n])]
                /\ Verify(b, claims) = f[Len(claims)]
<1> DEFINE Turn(f, n) == IF n = 0 THEN Unjudged ELSE Judged(b, f[n - 1], claims[n])
           Good(k) == \E f : f = [n \in 0..k |-> Turn(f, n)]
<1>1. ASSUME NEW k \in Nat, ~Good(k) PROVE FALSE
  <2> DEFINE W == {j \in Nat : ~Good(j)}
  <2>1. PICK j \in W : \A i \in W : j <= i
    <3> HIDE DEF Good
    <3> QED
      BY <1>1, Smallest
  <2>2. CASE j = 0
    <3> DEFINE g == [n \in 0..0 |-> Unjudged]
    <3>1. g = [n \in 0..0 |-> Turn(g, n)]
      OBVIOUS
    <3> QED
      BY <2>1, <2>2, <3>1
  <2>3. CASE j # 0
    <3>1. j - 1 \in Nat /\ j \in Nat /\ Good(j - 1)
      <4> HIDE DEF Good
      <4> QED
        BY <2>1, <2>3
    <3>2. PICK h : h = [n \in 0..(j - 1) |-> Turn(h, n)]
      BY <3>1
    <3> DEFINE g == [n \in 0..j |-> IF n = j THEN Judged(b, h[j - 1], claims[j]) ELSE h[n]]
    <3>3. ASSUME NEW n \in 0..j PROVE g[n] = Turn(g, n)
      <4>1. CASE n = j
        BY <2>3, <3>1, <4>1
      <4>2. CASE n # j
        <5>1. n \in 0..(j - 1) /\ g[n] = h[n]
          BY <3>1, <4>2
        <5>2. n # 0 => g[n - 1] = h[n - 1]
          BY <3>1, <5>1
        <5>3. h[n] = Turn(h, n)
          BY <3>2, <5>1
        <5> HIDE DEF g
        <5> QED
          BY <5>1, <5>2, <5>3
      <4> QED
        BY <4>1, <4>2
    <3>4. g = [n \in 0..j |-> Turn(g, n)]
      <4>1. g = [n \in 0..j |-> g[n]]
        OBVIOUS
      <4> HIDE DEF g, Turn
      <4> QED
        BY <3>3, <4>1
    <3> QED
      BY <2>1, <3>4
  <2> QED
    BY <2>2, <2>3
<1>2. Len(claims) \in Nat
  OBVIOUS
<1>3. \E f : f = [n \in 0..Len(claims) |-> Turn(f, n)]
  BY <1>1, <1>2
<1>4. PICK f : f = CHOOSE g : g = [n \in 0..Len(claims) |-> Turn(g, n)]
  OBVIOUS
<1>5. f = [n \in 0..Len(claims) |-> Turn(f, n)]
  BY <1>3, <1>4
<1>6. Verify(b, claims) = f[Len(claims)]
  BY <1>4 DEF Verify
<1> QED
  BY <1>5, <1>6

\* Whatever the model claims, the verdict is sound.
LEMMA VerdictIsSound ==
  ASSUME NEW b, NEW claims \in Seq(Claims)
  PROVE  Sound(b, Verify(b, claims))
<1>1. PICK f : /\ f = [n \in 0..Len(claims) |->
                         IF n = 0 THEN Unjudged ELSE Judged(b, f[n - 1], claims[n])]
               /\ Verify(b, claims) = f[Len(claims)]
  BY VerdictsExist
<1>2. Sound(b, Unjudged)
  BY DEF Sound, Unjudged
<1>3. ASSUME NEW k \in 0..Len(claims), ~Sound(b, f[k]) PROVE FALSE
  <2> DEFINE W == {n \in 0..Len(claims) : ~Sound(b, f[n])}
  <2>1. PICK j \in W : \A i \in W : j <= i
    <3>1. W \subseteq Nat /\ W # {}
      BY <1>3
    <3> HIDE DEF W
    <3> QED
      BY <3>1, Smallest
  <2>2. j # 0 /\ j \in 1..Len(claims)
    BY <1>1, <1>2, <2>1
  <2>3. f[j] = Judged(b, f[j - 1], claims[j])
    BY <1>1, <2>2
  <2>4. Sound(b, f[j - 1])
    BY <2>1, <2>2
  <2>5. claims[j] \in Claims
    BY <2>2
  <2>6. Sound(b, f[j])
    BY <2>3, <2>4, <2>5, JudgedIsSound
  <2> QED
    BY <2>1, <2>6
<1> QED
  BY <1>1, <1>3

------------------------------------------------------------------------------
(* The matches of a value.                                                 *)

\* A chain turns one of the two into the other.
Linked(v, t) == \E k \in Chains : Yield[k][v] = t \/ Yield[k][t] = v

\* What a match of value v in batch b rests on.
Founded(b, v, m) ==
  /\ m \in MatchRecord
  /\ m.value = v /\ m.rows = rows[b][v]
  /\ m.rule = "identity" => v = m.target /\ v \in TargetsOf(b)
  /\ m.rule = "library" => hits[v] = m.target
  /\ Discovered(m.rule) => m.target \in TargetsOf(b) /\ Linked(v, m.target)
  /\ m.target # None => m.rule \in {"identity", "library", "llm", "pattern"}

LEMMA TargetsAreTargets ==
  ASSUME TypeOK, NEW b \in Batches
  PROVE  TargetsOf(b) \subseteq Targets /\ TargetsOf(b) \subseteq UNION {present[c] : c \in Batches}
BY DEF TypeOK, TargetsOf

\* A target taken over from another value is linked to this one by a chain.
LEMMA ReusedIsLinked ==
  ASSUME TypeOK, NEW b \in Batches, NEW s, NEW pick \in ReverseLookups(b, s),
         NEW v \in ValuesOf(b), NEW t \in Reused(b, s, pick, v)
  PROVE  t \in TargetsOf(b) /\ Linked(v, t)
<1>1. t \in TargetsOf(b) /\ t # None
  BY TargetsAreTargets, ValuesAssumption DEF Reused
<1>2. PICK k \in Chains : t = IF s.direction[k] = "reverse" THEN pick[k][v] ELSE Yield[k][v]
  BY DEF Reused
<1>3. CASE s.direction[k] = "reverse"
  <2>1. k \in DOMAIN pick /\ t = pick[k][v]
    BY <1>2, <1>3 DEF ReverseLookups
  <2>2. IF ReducedTo(b, k, v) = {} THEN pick[k][v] = None ELSE pick[k][v] \in ReducedTo(b, k, v)
    BY <2>1 DEF ReverseLookups
  <2>3. t \in ReducedTo(b, k, v)
    BY <1>1, <2>1, <2>2
  <2> QED
    BY <1>1, <2>3 DEF ReducedTo, Linked
<1> QED
  BY <1>1, <1>2, <1>3 DEF Linked

\* A confirmed claim links its value to a target.
LEMMA ConfirmedIsLinked ==
  ASSUME NEW b, NEW c \in Claims, Confirms(b, c)
  PROVE  c.target \in TargetsOf(b) /\ Linked(c.value, c.target)
<1>1. c.chain \in Chains
  BY ClaimsAssumption
<1> QED
  BY <1>1 DEF Confirms, Direction, Linked

LEMMA MatchIsFounded ==
  ASSUME TypeOK, NEW b \in Batches, NEW s, Sound(b, s), NEW pick \in ReverseLookups(b, s),
         NEW v \in ValuesOf(b), NEW m \in MatchesOf(b, s, pick, v)
  PROVE  Founded(b, v, m)
<1>1. v \in Sources /\ rows[b][v] \in Nat
  BY BatchesAssumption DEF TypeOK, ValuesOf
<1>2. CASE Candidates(b, s, pick, v) = {}
  <2>1. PICK r \in {"llm_rejected", "unpaired"} : m = Match(v, None, r, rows[b][v], None)
    BY <1>2 DEF MatchesOf
  <2> QED
    BY <1>1, <2>1 DEF Founded, Match, MatchRecord, Discovered, Rules
<1>3. CASE Candidates(b, s, pick, v) # {}
  <2>1. PICK t \in Candidates(b, s, pick, v), sig \in {None, "yes", "no", "unknown"} :
          m = Match(v, t, Rule(Origins(b, s, pick, v, t)), rows[b][v], sig)
    <3>1. \A t \in Candidates(b, s, pick, v) :
            Overlap(v, t) \in {"yes", "no", "unknown"} /\ Accumulated(b, v, t) \in {"yes", "no", "unknown"}
      BY DEF Overlap, Accumulated
    <3> QED
      BY <1>3, <3>1 DEF MatchesOf
  <2> DEFINE origins == Origins(b, s, pick, v, t)
             rule == Rule(origins)
  <2>2. t \in Values /\ origins # {}
    BY <2>1 DEF Candidates, Values
  <2>3. /\ "identity" \in origins => v = t /\ t \in TargetsOf(b)
        /\ "library" \in origins => hits[v] = t
        /\ "llm" \in origins => s.result[v] # None /\ s.result[v].target = t
        /\ "pattern" \in origins => t \in Reused(b, s, pick, v)
        /\ origins \subseteq {"library", "identity", "llm", "pattern"}
    BY DEF Origins
  <2>4. /\ rule \in {"identity", "library", "llm", "pattern"}
        /\ rule = "identity" => "identity" \in origins
        /\ rule = "library" => "library" \in origins
        /\ rule = "llm" => "llm" \in origins
        /\ rule = "pattern" => "pattern" \in origins
    <3> HIDE DEF origins
    <3> QED
      BY <2>2, <2>3 DEF Rule
  <2>5. rule = "llm" => t \in TargetsOf(b) /\ Linked(v, t)
    <3>1. SUFFICES ASSUME rule = "llm" PROVE t \in TargetsOf(b) /\ Linked(v, t)
      OBVIOUS
    <3>2. s.result[v] # None /\ s.result[v].target = t
      BY <2>3, <2>4, <3>1
    <3>3. s.result[v] \in Claims /\ s.result[v].value = v /\ Confirms(b, s.result[v])
      BY <1>1, <3>2 DEF Sound
    <3> QED
      BY <3>2, <3>3, ConfirmedIsLinked
  <2>6. rule = "pattern" => t \in TargetsOf(b) /\ Linked(v, t)
    BY <2>3, <2>4, ReusedIsLinked
  <2> HIDE DEF rule, origins
  <2>7. m = [value |-> v, target |-> t, rule |-> rule, rows |-> rows[b][v], signal |-> sig]
    BY <2>1 DEF Match, rule, origins
  <2> QED
    BY <1>1, <2>1, <2>2, <2>3, <2>4, <2>5, <2>6, <2>7
       DEF Founded, MatchRecord, Discovered, Rules
<1> QED
  BY <1>2, <1>3

\* A value has matches, one for a target, and one without only if alone.
LEMMA MatchesAreDistinct ==
  ASSUME NEW b, NEW s, NEW pick, NEW v
  PROVE  /\ MatchesOf(b, s, pick, v) # {}
         /\ \A m, n \in MatchesOf(b, s, pick, v) : m.target = n.target \/ m.target = None => m = n
<1>1. CASE Candidates(b, s, pick, v) = {}
  BY <1>1 DEF MatchesOf
<1>2. CASE Candidates(b, s, pick, v) # {}
  <2>1. None \notin Candidates(b, s, pick, v)
    BY ValuesAssumption DEF Candidates
  <2> DEFINE Signal(t) ==
        CASE Cardinality(Candidates(b, s, pick, v)) = 1 -> None
          [] Cardinality(Candidates(b, s, pick, v)) > 1 /\ caller = "manual" -> Overlap(v, t)
          [] OTHER -> Accumulated(b, v, t)
      One(t) == Match(v, t, Rule(Origins(b, s, pick, v, t)), rows[b][v], Signal(t))
  <2>2. MatchesOf(b, s, pick, v) = {One(t) : t \in Candidates(b, s, pick, v)}
    BY <1>2 DEF MatchesOf
  <2>3. \A t : One(t).target = t
    BY DEF Match
  <2> HIDE DEF One
  <2> QED
    BY <1>2, <2>1, <2>2, <2>3
<1> QED
  BY <1>1, <1>2

\* A value with a stored target, or equal to a target, is matched to a target.
LEMMA CandidateIsMatched ==
  ASSUME TypeOK, NEW b \in Batches, NEW s, NEW pick, NEW v \in Sources,
         hits[v] # None \/ v \in TargetsOf(b), NEW m \in MatchesOf(b, s, pick, v)
  PROVE  m.target # None
<1>1. Candidates(b, s, pick, v) # {}
  <2>1. CASE hits[v] # None
    <3>1. hits[v] \in Targets \union Ghosts /\ "library" \in Origins(b, s, pick, v, hits[v])
      BY <2>1 DEF TypeOK, Values, Origins
    <3> QED
      BY <3>1 DEF Candidates
  <2>2. CASE v \in TargetsOf(b)
    <3>1. v \in Targets \union Ghosts /\ "identity" \in Origins(b, s, pick, v, v)
      BY <2>2, TargetsAreTargets DEF Origins
    <3> QED
      BY <3>1 DEF Candidates
  <2> QED
    BY <2>1, <2>2
<1>2. None \notin Candidates(b, s, pick, v)
  BY ValuesAssumption DEF Candidates
<1>3. m.target \in Candidates(b, s, pick, v)
  BY <1>1 DEF MatchesOf, Match
<1> QED
  BY <1>2, <1>3

------------------------------------------------------------------------------
(* The steps.                                                              *)

LEMMA InitPair == Init => PairInv
<1> SUFFICES ASSUME Init PROVE PairInv
  OBVIOUS
<1>1. TypeOK
  <2>1. 1 \in Batches
    BY BatchesAssumption DEF Batches
  <2>2. library \subseteq Sources \X Values
    BY LibraryAssumption DEF Init, Values
  <2>3. present \in [Batches -> SUBSET Targets]
    BY LayoutsAssumption DEF Init, Batches
  <2> QED
    BY <2>1, <2>2, <2>3 DEF Init, TypeOK
<1>2. HitsOK /\ MappingOK
  BY DEF Init, HitsOK, MappingOK
<1>3. /\ \A b \in Batches : matches[b] = {} /\ ~IsPaired(b)
  BY DEF Init, IsPaired, Batches
<1>4. (\A b \in Batches : MatchesOK(b)) /\ ReuseOK /\ PairsAreGrounded
  BY <1>3 DEF MatchesOK, ReuseOK, PairsAreGrounded
<1> QED
  BY <1>1, <1>2, <1>4 DEF PairInv

\* A step that pairs nothing keeps what is paired.
LEMMA SamePairs ==
  ASSUME PairInv, UNCHANGED <<inputs, library, deletes, batch, matches, mapping>>,
         pc \notin {"merge", "done"}, pc' \in {"lookup", "ask", "resolve", "failed"},
         hits' \in [Sources -> Values \union {None}], answer' \in Seq(Claims), HitsOK'
  PROVE  PairInv'
<1>1. TypeOK'
  BY DEF PairInv, TypeOK, inputs
<1>2. \A b \in Batches : MatchesOK(b)'
  <2> TAKE b \in Batches
  <2>1. MatchesOK(b)
    BY DEF PairInv
  <2>2. IsPaired(b)' <=> IsPaired(b)
    BY DEF IsPaired
  <2>3. TargetsOf(b)' = TargetsOf(b) /\ ValuesOf(b)' = ValuesOf(b)
    BY DEF TargetsOf, ValuesOf, inputs
  <2>4. \A v : Deleted(v)' <=> Deleted(v)
    BY DEF Deleted
  <2> QED
    BY <2>1, <2>2, <2>3, <2>4 DEF MatchesOK, inputs
<1>3. ReuseOK'
  <2>1. ReuseOK
    BY DEF PairInv
  <2>2. \A b \in Batches : (IsPaired(b)' <=> IsPaired(b)) /\ ValuesOf(b)' = ValuesOf(b)
    BY DEF IsPaired, ValuesOf, inputs
  <2>3. \A v : Deleted(v)' <=> Deleted(v)
    BY DEF Deleted
  <2> QED
    BY <2>1, <2>2, <2>3 DEF ReuseOK, inputs
<1>4. MappingOK' /\ PairsAreGrounded'
  BY DEF PairInv, MappingOK, PairsAreGrounded, inputs
<1> QED
  BY <1>1, <1>2, <1>3, <1>4 DEF PairInv

LEMMA LookupPair ==
  ASSUME PairInv, Lookup
  PROVE  PairInv'
<1>1. hits' \in [Sources -> Values \union {None}]
  BY DEF Lookup, Values
<1>2. HitsOK'
  <2>1. \A v \in Sources : IF hits'[v] = None THEN \A p \in library : p[1] # v
                           ELSE <<v, hits'[v]>> \in library
    BY DEF Lookup
  <2>2. library' = library /\ deletes' = deletes
    BY DEF Lookup
  <2> QED
    BY <2>1, <2>2 DEF HitsOK
<1>3. answer' \in Seq(Claims)
  BY DEF Lookup, PairInv, TypeOK
<1>4. UNCHANGED <<inputs, library, deletes, batch, matches, mapping>> /\ pc = "lookup" /\ pc' = "ask"
  BY DEF Lookup
<1> QED
  BY <1>1, <1>2, <1>3, <1>4, SamePairs

\* A step between lookup and resolve.
LEMMA AskPair ==
  ASSUME PairInv, UNCHANGED <<inputs, library, deletes, batch, matches, mapping, hits>>,
         pc = "ask", pc' \in {"ask", "resolve"}, answer' \in Seq(Claims)
  PROVE  PairInv'
<1>1. HitsOK'
  BY DEF PairInv, HitsOK, Deleted
<1>2. hits' \in [Sources -> Values \union {None}]
  BY DEF PairInv, TypeOK
<1> QED
  BY <1>1, <1>2, SamePairs

LEMMA SkipModelPair ==
  ASSUME PairInv, SkipModel
  PROVE  PairInv'
<1>1. answer' \in Seq(Claims)
  BY DEF SkipModel
<1> QED
  BY <1>1, AskPair DEF SkipModel

LEMMA AskModelPair ==
  ASSUME PairInv, AskModel
  PROVE  PairInv'
<1>1. answer' \in Seq(Claims) /\ pc' \in {"ask", "resolve"} /\ pc = "ask"
  <2>1. CASE UNCHANGED <<pc, answer>>
    BY <2>1 DEF AskModel, PairInv, TypeOK
  <2>2. CASE pc' = "resolve" /\ answer' = <<>>
    BY <2>2 DEF AskModel
  <2>3. CASE pc' = "resolve" /\ answer' \in UNION {[1..n -> Claims] : n \in 0..MaxProposals}
    <3>1. PICK n \in 0..MaxProposals : answer' \in [1..n -> Claims]
      BY <2>3
    <3> QED
      BY <2>3, <3>1 DEF AskModel
  <2> QED
    BY <2>1, <2>2, <2>3 DEF AskModel
<1>2. UNCHANGED <<inputs, library, deletes, batch, matches, mapping, hits>>
  BY DEF AskModel
<1> QED
  BY <1>1, <1>2, AskPair

LEMMA ShareBreakerPair ==
  ASSUME PairInv, ShareBreaker
  PROVE  PairInv'
<1>1. answer' \in Seq(Claims)
  BY DEF ShareBreaker, PairInv, TypeOK
<1> QED
  BY <1>1, AskPair DEF ShareBreaker

LEMMA StopRunPair ==
  ASSUME PairInv, StopRun
  PROVE  PairInv'
<1>1. HitsOK'
  BY DEF PairInv, HitsOK, Deleted, StopRun
<1>2. hits' \in [Sources -> Values \union {None}] /\ answer' \in Seq(Claims)
  BY DEF PairInv, TypeOK, StopRun
<1>3. UNCHANGED <<inputs, library, deletes, batch, matches, mapping>> /\ pc = "resolve" /\ pc' = "failed"
  BY DEF StopRun
<1> QED
  BY <1>1, <1>2, <1>3, SamePairs

LEMMA RetryRunPair ==
  ASSUME PairInv, RetryRun
  PROVE  PairInv'
<1>1. HitsOK'
  BY DEF PairInv, HitsOK, Deleted, RetryRun
<1>2. hits' \in [Sources -> Values \union {None}] /\ answer' \in Seq(Claims)
  BY DEF PairInv, TypeOK, RetryRun
<1>3. UNCHANGED <<inputs, library, deletes, batch, matches, mapping>> /\ pc = "failed" /\ pc' = "lookup"
  BY DEF RetryRun
<1> QED
  BY <1>1, <1>2, <1>3, SamePairs

LEMMA ReturnMappingPair ==
  ASSUME PairInv, ReturnMapping
  PROVE  PairInv'
<1>1. /\ UNCHANGED <<inputs, library, deletes, batch, matches, hits, answer>>
      /\ pc = "merge" /\ pc' = "done" /\ mapping' = MergeBatches
  BY DEF ReturnMapping
<1>2. TypeOK'
  BY <1>1 DEF PairInv, TypeOK, inputs
<1>3. \A b \in Batches : MatchesOK(b)'
  <2> TAKE b \in Batches
  <2>1. MatchesOK(b) /\ IsPaired(b) /\ IsPaired(b)'
    BY <1>1 DEF PairInv, IsPaired
  <2>2. TargetsOf(b)' = TargetsOf(b) /\ ValuesOf(b)' = ValuesOf(b)
    BY <1>1 DEF TargetsOf, ValuesOf, inputs
  <2>3. \A v : Deleted(v)' <=> Deleted(v)
    BY <1>1 DEF Deleted
  <2> QED
    BY <1>1, <2>1, <2>2, <2>3 DEF MatchesOK, inputs
<1>4. ReuseOK'
  <2>1. ReuseOK /\ \A b \in Batches : IsPaired(b)
    BY <1>1 DEF PairInv, IsPaired
  <2>2. \A b \in Batches : ValuesOf(b)' = ValuesOf(b)
    BY <1>1 DEF ValuesOf, inputs
  <2>3. \A v : Deleted(v)' <=> Deleted(v)
    BY <1>1 DEF Deleted
  <2> QED
    BY <1>1, <2>1, <2>2, <2>3 DEF ReuseOK, inputs
<1>5. HitsOK' /\ PairsAreGrounded'
  BY <1>1 DEF PairInv, HitsOK, Deleted, PairsAreGrounded, inputs
<1>6. MergeBatches' = MergeBatches
  BY <1>1 DEF MergeBatches, Merge, Pairs, Found, MatchIn, ResolvedValues
<1>7. MappingOK'
  BY <1>1, <1>6 DEF MappingOK
<1> QED
  BY <1>2, <1>3, <1>4, <1>5, <1>7 DEF PairInv

\* A deletion is remembered.
LEMMA DeletePairPair ==
  ASSUME PairInv, DeletePair
  PROVE  PairInv'
<1>1. /\ UNCHANGED <<inputs, batch, matches, hits, answer, pc, mapping>> /\ pc # "done"
  BY DEF DeletePair
<1>2. PICK p \in library : library' = library \ {p} /\ deletes' = deletes \union {p}
  BY DEF DeletePair
<1>3. \A v, t : <<v, t>> \in library \/ Deleted(v) => (<<v, t>> \in library' \/ Deleted(v)')
  BY <1>2 DEF Deleted
<1>4. \A v : Deleted(v) => Deleted(v)'
  BY <1>2 DEF Deleted
<1>5. TypeOK'
  BY <1>1, <1>2 DEF PairInv, TypeOK, inputs
<1>6. HitsOK'
  BY <1>1, <1>2, <1>3 DEF PairInv, HitsOK
<1>7. \A b \in Batches : MatchesOK(b)'
  <2> TAKE b \in Batches
  <2>1. MatchesOK(b)
    BY DEF PairInv
  <2>2. TargetsOf(b)' = TargetsOf(b) /\ ValuesOf(b)' = ValuesOf(b) /\ (IsPaired(b)' <=> IsPaired(b))
    BY <1>1 DEF TargetsOf, ValuesOf, IsPaired, inputs
  <2> QED
    BY <1>1, <1>3, <2>1, <2>2 DEF MatchesOK, inputs
<1>8. ReuseOK'
  <2>1. ReuseOK
    BY DEF PairInv
  <2>2. \A b \in Batches : ValuesOf(b)' = ValuesOf(b) /\ (IsPaired(b)' <=> IsPaired(b))
    BY <1>1 DEF ValuesOf, IsPaired, inputs
  <2> QED
    BY <1>1, <1>4, <2>1, <2>2 DEF ReuseOK, inputs
<1>9. MappingOK' /\ PairsAreGrounded'
  BY <1>1 DEF PairInv, MappingOK, PairsAreGrounded, inputs
<1> QED
  BY <1>5, <1>6, <1>7, <1>8, <1>9 DEF PairInv

LEMMA SamePair ==
  ASSUME PairInv, UNCHANGED vars
  PROVE  PairInv'
<1>1. /\ UNCHANGED <<inputs, library, deletes, batch, matches, hits, answer, pc, mapping>>
  BY DEF vars, inputs
<1>2. TypeOK' /\ HitsOK' /\ MappingOK' /\ PairsAreGrounded'
  <2>1. MergeBatches' = MergeBatches
    BY <1>1 DEF MergeBatches, Merge, Pairs, Found, MatchIn, ResolvedValues
  <2> QED
    BY <1>1, <2>1 DEF PairInv, TypeOK, HitsOK, Deleted, MappingOK, PairsAreGrounded, inputs
<1>3. ReuseOK' /\ \A b \in Batches : MatchesOK(b)'
  <2>1. ReuseOK /\ \A b \in Batches : MatchesOK(b)
    BY DEF PairInv
  <2>2. \A b \in Batches : /\ ValuesOf(b)' = ValuesOf(b) /\ (IsPaired(b)' <=> IsPaired(b))
                           /\ TargetsOf(b)' = TargetsOf(b)
    BY <1>1 DEF ValuesOf, IsPaired, TargetsOf, inputs
  <2>3. \A v : Deleted(v)' <=> Deleted(v)
    BY <1>1 DEF Deleted
  <2>4. \A b \in Batches : MatchesOK(b)'
    BY <1>1, <2>1, <2>2, <2>3 DEF MatchesOK, inputs
  <2>5. ReuseOK'
    BY <1>1, <2>1, <2>2, <2>3 DEF ReuseOK, inputs
  <2> QED
    BY <2>4, <2>5
<1> QED
  BY <1>2, <1>3 DEF PairInv

\* The batch that is resolved is paired, and the others are as they were.
LEMMA ResolvePair ==
  ASSUME PairInv, Resolve
  PROVE  PairInv'
<1> DEFINE s == Verify(batch, answer)
<1>1. /\ UNCHANGED <<inputs, deletes, mapping>> /\ pc = "resolve"
      /\ hits' = [v \in Sources |-> None] /\ answer' = <<>>
      /\ pc' \in {"lookup", "merge", "done"} /\ (pc' = "done" => caller = "auto")
      /\ IF batch < NumBatches THEN batch' = batch + 1 /\ pc' = "lookup"
         ELSE pc' \in {"merge", "done"} /\ batch' = batch
  BY DEF Resolve, PairInv, TypeOK
<1>2. PICK pick \in ReverseLookups(batch, s) :
        LET found == UNION {MatchesOf(batch, s, pick, v) : v \in ValuesOf(batch)}
        IN /\ matches' = [matches EXCEPT ![batch] = found]
           /\ library' = library \union {<<m.value, m.target>> : m \in {n \in found : Discovered(n.rule)}}
  BY DEF Resolve
<1> DEFINE found == UNION {MatchesOf(batch, s, pick, v) : v \in ValuesOf(batch)}
<1>3. /\ matches' = [matches EXCEPT ![batch] = found]
      /\ library' = library \union {<<m.value, m.target>> : m \in {n \in found : Discovered(n.rule)}}
  BY <1>2
<1>4. TypeOK /\ batch \in Batches /\ NumBatches \in Nat /\ batch \in Nat
  BY BatchesAssumption DEF PairInv, TypeOK, Batches
<1>5. Sound(batch, s)
  BY VerdictIsSound DEF PairInv, TypeOK
<1> HIDE DEF s
<1>6. \A m \in found : m.value \in ValuesOf(batch) /\ m \in MatchesOf(batch, s, pick, m.value)
                       /\ Founded(batch, m.value, m)
  <2> SUFFICES ASSUME NEW v \in ValuesOf(batch), NEW m \in MatchesOf(batch, s, pick, v)
               PROVE  m.value \in ValuesOf(batch) /\ m \in MatchesOf(batch, s, pick, m.value)
                      /\ Founded(batch, m.value, m)
    OBVIOUS
  <2>1. Founded(batch, v, m)
    BY <1>2, <1>4, <1>5, MatchIsFounded
  <2> QED
    BY <2>1 DEF Founded
<1>7. \A v \in ValuesOf(batch) : MatchesOf(batch, s, pick, v) # {} /\ MatchesOf(batch, s, pick, v) \subseteq found
  BY MatchesAreDistinct
<1>8. \A m, n \in found : m.value = n.value /\ (m.target = n.target \/ m.target = None) => m = n
  BY <1>6, MatchesAreDistinct
<1>9. \A v \in ValuesOf(batch) : \A m \in MatchesOf(batch, s, pick, v) : m \in found /\ m.value = v
  <2>1. \A v \in ValuesOf(batch) : \A m \in MatchesOf(batch, s, pick, v) : Founded(batch, v, m)
    BY <1>2, <1>4, <1>5, MatchIsFounded
  <2> QED
    BY <2>1 DEF Founded
<1> HIDE DEF found
<1>10. /\ matches' \in [Batches -> SUBSET MatchRecord]
       /\ matches'[batch] = found
       /\ \A c \in Batches : c # batch => matches'[c] = matches[c]
  <2>1. found \subseteq MatchRecord
    BY <1>6 DEF Founded
  <2> QED
    BY <1>3, <1>4, <2>1 DEF TypeOK
<1>11. library \subseteq library' /\ \A m \in found : Discovered(m.rule) => <<m.value, m.target>> \in library'
  BY <1>3
<1>12. library' \subseteq Sources \X Values
  <2>1. \A m \in found : Discovered(m.rule) => <<m.value, m.target>> \in Sources \X Values
    <3> TAKE m \in found
    <3>1. m.value \in Sources /\ (Discovered(m.rule) => m.target \in TargetsOf(batch))
      BY <1>6 DEF Founded, ValuesOf
    <3> QED
      BY <1>4, <3>1, TargetsAreTargets DEF Values
  <2>2. library \subseteq Sources \X Values
    BY <1>4 DEF TypeOK
  <2> QED
    BY <1>3, <2>1, <2>2
<1>13. TypeOK'
  <2>1. batch' \in Batches
    BY <1>1, <1>4 DEF Batches
  <2> QED
    BY <1>1, <1>4, <1>10, <1>12, <2>1 DEF TypeOK, inputs
<1>14. \A c \in Batches : (IsPaired(c)' <=> c <= batch) /\ (IsPaired(c) <=> c < batch)
  <2> TAKE c \in Batches
  <2>1. c \in Nat /\ c <= NumBatches
    BY <1>4 DEF Batches
  <2>2. batch <= NumBatches
    BY <1>4 DEF Batches
  <2> QED
    BY <1>1, <1>4, <2>1, <2>2 DEF IsPaired
<1>15. /\ \A c \in Batches : TargetsOf(c)' = TargetsOf(c) /\ ValuesOf(c)' = ValuesOf(c)
       /\ \A v : Deleted(v)' <=> Deleted(v)
  BY <1>1 DEF TargetsOf, ValuesOf, Deleted, inputs
<1>16. HitsOK' /\ MappingOK'
  BY <1>1 DEF HitsOK, MappingOK, inputs
<1>17. rows' = rows /\ present' = present /\ caller' = caller
  BY <1>1 DEF inputs
<1>18. \A c \in Batches : MatchesOK(c)'
  <2> TAKE c \in Batches
  <2>1. CASE c # batch
    <3>1. MatchesOK(c) /\ matches'[c] = matches[c] /\ (IsPaired(c)' => IsPaired(c))
      BY <1>4, <1>10, <1>14, <2>1 DEF PairInv, Batches
    <3> QED
      BY <1>11, <1>15, <1>17, <3>1 DEF MatchesOK
  <2>2. CASE c = batch
    <3>1. ASSUME NEW m \in found
          PROVE  /\ m.value \in ValuesOf(batch) /\ m.rows = rows[batch][m.value]
                 /\ m.rule = "identity" => m.value = m.target /\ m.target \in TargetsOf(batch)
                 /\ m.rule # "identity" /\ m.target # None =>
                      <<m.value, m.target>> \in library' \/ Deleted(m.value)
      <4>1. Founded(batch, m.value, m) /\ m.value \in ValuesOf(batch)
        BY <1>6, <3>1
      <4>2. CASE m.rule = "library" /\ m.target # None
        <5>1. m.value \in Sources /\ hits[m.value] = m.target /\ hits[m.value] # None
          BY <4>1, <4>2 DEF Founded, ValuesOf
        <5> QED
          BY <1>11, <4>1, <4>2, <5>1 DEF PairInv, HitsOK, Founded
      <4>3. CASE m.rule \in {"llm", "pattern"}
        BY <1>11, <3>1, <4>1, <4>3 DEF Discovered, Founded
      <4>4. CASE ~(m.rule = "library" /\ m.target # None) /\ m.rule \notin {"llm", "pattern"}
        BY <4>1, <4>4 DEF Founded
      <4> QED
        BY <4>2, <4>3, <4>4
    <3>2. \A v \in ValuesOf(batch) : \E m \in found : m.value = v
      BY <1>7, <1>9
    <3> QED
      BY <1>8, <1>10, <1>15, <1>17, <2>2, <3>1, <3>2 DEF MatchesOK
  <2> QED
    BY <2>1, <2>2
<1>19. ReuseOK'
  <2> SUFFICES ASSUME caller = "manual", NEW b \in Batches, NEW c \in Batches, b < c, c <= batch,
                      NEW m \in matches'[b], m.target # None, ~Deleted(m.value),
                      m.value \in ValuesOf(c)
               PROVE  \E n \in matches'[c] : n.value = m.value /\ n.target # None
    BY <1>14, <1>15, <1>17 DEF ReuseOK
  <2>1. b # batch /\ m \in matches[b] /\ MatchesOK(b) /\ b \in Nat /\ c \in Nat
    BY <1>4, <1>10 DEF PairInv, Batches
  <2>2. CASE c # batch
    <3>1. c < batch
      BY <1>4, <2>1, <2>2
    <3> QED
      BY <1>10, <1>14, <2>1, <2>2, <3>1 DEF PairInv, ReuseOK
  <2>3. CASE c = batch
    <3>1. m.value \in Sources /\ m.value \in ValuesOf(batch)
      BY <2>3 DEF ValuesOf
    <3>2. hits[m.value] # None \/ m.value \in TargetsOf(batch)
      <4>1. CASE m.rule = "identity"
        BY <2>1, <4>1 DEF MatchesOK, TargetsOf
      <4>2. CASE m.rule # "identity"
        <5>1. <<m.value, m.target>> \in library
          BY <2>1, <4>2 DEF MatchesOK
        <5> QED
          BY <1>1, <3>1, <5>1 DEF PairInv, HitsOK
      <4> QED
        BY <4>1, <4>2
    <3>3. PICK n \in MatchesOf(batch, s, pick, m.value) : n \in found /\ n.value = m.value
      BY <1>7, <1>9, <3>1
    <3>4. n.target # None
      BY <1>4, <3>1, <3>2, CandidateIsMatched
    <3> QED
      BY <1>10, <2>3, <3>3, <3>4
  <2> QED
    BY <2>2, <2>3
<1>20. PairsAreGrounded'
  <2> SUFFICES ASSUME NEW b \in Batches, NEW m \in matches'[b]
               PROVE  /\ Discovered(m.rule) =>
                           /\ m.target \in UNION {present[c] : c \in Batches}
                           /\ \E k \in Chains : Yield[k][m.value] = m.target \/ Yield[k][m.target] = m.value
                      /\ caller = "auto" /\ m.rule # "library" /\ m.target # None => m.target \in present[b]
    BY <1>17 DEF PairsAreGrounded
  <2>1. CASE b # batch
    BY <1>10, <2>1 DEF PairInv, PairsAreGrounded
  <2>2. CASE b = batch
    <3>1. Founded(batch, m.value, m)
      BY <1>6, <1>10, <2>2
    <3>2. Discovered(m.rule) => m.target \in TargetsOf(batch) /\ Linked(m.value, m.target)
      BY <3>1 DEF Founded
    <3>3. TargetsOf(batch) \subseteq UNION {present[c] : c \in Batches}
      BY <1>4, TargetsAreTargets
    <3>4. caller = "auto" /\ m.rule # "library" /\ m.target # None => m.target \in TargetsOf(batch)
      BY <3>1 DEF Founded, Discovered
    <3>5. caller = "auto" => TargetsOf(batch) = present[batch]
      BY DEF TargetsOf
    <3> QED
      BY <2>2, <3>2, <3>3, <3>4, <3>5 DEF Linked
  <2> QED
    BY <2>1, <2>2
<1> QED
  BY <1>13, <1>16, <1>18, <1>19, <1>20 DEF PairInv

LEMMA NextPair ==
  ASSUME PairInv, [Next]_vars
  PROVE  PairInv'
BY LookupPair, SkipModelPair, AskModelPair, ResolvePair, StopRunPair, RetryRunPair,
   ReturnMappingPair, DeletePairPair, ShareBreakerPair, SamePair DEF Next

\* The inductive invariant of the pairing.
THEOREM PairInvariance == Spec => []PairInv
<1>1. Init => PairInv
  BY InitPair
<1>2. PairInv /\ [Next]_vars => PairInv'
  BY NextPair
<1> QED
  BY <1>1, <1>2, PTL DEF Spec

\* Pairs rest on the data, never on the word of the model.
THEOREM PairsAreGroundedHolds == Spec => []PairsAreGrounded
<1>1. PairInv => PairsAreGrounded
  BY DEF PairInv
<1> QED
  BY <1>1, PairInvariance, PTL

------------------------------------------------------------------------------
(* The merge of the batches.                                               *)

\* The rows of the batches that give value v the target t.
FoundRows(v, t) == [b \in Batches |-> IF b \in Found(v, t) THEN rows[b][v] ELSE 0]

LEMMA MatchIsFound ==
  ASSUME PairInv, NEW v, NEW t, NEW b \in Found(v, t)
  PROVE  /\ b \in Batches /\ MatchIn(b, v, t) \in MatchRecord
         /\ MatchIn(b, v, t).value = v /\ MatchIn(b, v, t).target = t
         /\ MatchIn(b, v, t).rows = rows[b][v] /\ v \in ValuesOf(b)
<1>1. MatchIn(b, v, t) \in matches[b] /\ MatchIn(b, v, t).value = v /\ MatchIn(b, v, t).target = t
  BY DEF Found, MatchIn
<1>2. b \in Batches /\ matches[b] \subseteq MatchRecord /\ MatchesOK(b)
  BY DEF Found, PairInv, TypeOK
<1> QED
  BY <1>1, <1>2 DEF MatchesOK

LEMMA MergeIs ==
  ASSUME PairInv, NEW v, NEW t, Found(v, t) # {}
  PROVE  Merge(v, t).value = v /\ Merge(v, t).target = t /\ Merge(v, t).rows = Total(FoundRows(v, t))
<1> DEFINE fresh == {b \in Found(v, t) : MatchIn(b, v, t).rule # "library"}
           best == IF fresh = {} THEN Found(v, t) ELSE fresh
           counted == [b \in Batches |-> IF b \in Found(v, t) THEN MatchIn(b, v, t).rows ELSE 0]
<1>1. best \subseteq Found(v, t) /\ best # {} /\ best \subseteq Nat
  BY DEF Found, Batches
<1> HIDE DEF best
<1>2. Min(best) \in Found(v, t)
  BY <1>1, MinIs
<1>3. counted = FoundRows(v, t)
  <2>1. \A b \in Found(v, t) : MatchIn(b, v, t).rows = rows[b][v]
    BY MatchIsFound
  <2> QED
    BY <2>1 DEF FoundRows
<1> HIDE DEF counted
<1>4. Merge(v, t) = [MatchIn(Min(best), v, t) EXCEPT !.rows = Total(counted)]
  BY DEF Merge, best, counted
<1> DEFINE first == MatchIn(Min(best), v, t)
<1>5. first \in MatchRecord /\ first.value = v /\ first.target = t
  BY <1>2, MatchIsFound
<1>6. Merge(v, t) = [first EXCEPT !.rows = Total(counted)]
  BY <1>4
<1> HIDE DEF first
<1> QED
  BY <1>3, <1>5, <1>6 DEF MatchRecord

\* What the merge lists, and for which pairs.
LEMMA MergedPairs ==
  ASSUME PairInv
  PROVE  /\ \A m \in MergeBatches : \E v \in Sources, t \in Values \union {None} :
              /\ Found(v, t) # {} /\ m = Merge(v, t) /\ m.value = v /\ m.target = t
              /\ t = None => v \notin ResolvedValues
              /\ m.rows = Total(FoundRows(v, t))
         /\ \A v \in Sources, t \in Values \union {None} :
              Found(v, t) # {} /\ (t = None => v \notin ResolvedValues) =>
                /\ Merge(v, t) \in MergeBatches
                /\ Merge(v, t).value = v /\ Merge(v, t).target = t
<1>1. ASSUME NEW m \in MergeBatches
      PROVE  \E v \in Sources, t \in Values \union {None} :
               /\ Found(v, t) # {} /\ m = Merge(v, t) /\ m.value = v /\ m.target = t
               /\ t = None => v \notin ResolvedValues
               /\ m.rows = Total(FoundRows(v, t))
  <2>1. PICK p \in Pairs : m = Merge(p[1], p[2]) /\ (p[2] = None => p[1] \notin ResolvedValues)
    BY DEF MergeBatches
  <2>2. p[1] \in Sources /\ p[2] \in Values \union {None} /\ Found(p[1], p[2]) # {}
    BY DEF Pairs, Values
  <2>3. m.value = p[1] /\ m.target = p[2] /\ m.rows = Total(FoundRows(p[1], p[2]))
    BY <2>1, <2>2, MergeIs
  <2> QED
    BY <2>1, <2>2, <2>3
<1>2. ASSUME NEW v \in Sources, NEW t \in Values \union {None}, Found(v, t) # {},
             t = None => v \notin ResolvedValues
      PROVE  Merge(v, t) \in MergeBatches /\ Merge(v, t).value = v /\ Merge(v, t).target = t
  <2> DEFINE p == <<v, t>>
  <2>1. p \in Pairs /\ p[1] = v /\ p[2] = t
    BY <1>2 DEF Pairs, Values
  <2>2. p \in {q \in Pairs : q[2] = None => q[1] \notin ResolvedValues}
    BY <1>2, <2>1
  <2>3. Merge(p[1], p[2]) \in MergeBatches
    <3> HIDE DEF p
    <3> QED
      BY <2>2 DEF MergeBatches
  <2> QED
    BY <1>2, <2>1, <2>3, MergeIs
<1> QED
  BY <1>1, <1>2

\* A match in a batch makes its pair a found one.
LEMMA FoundOf ==
  ASSUME PairInv, NEW b \in Batches, NEW m \in matches[b]
  PROVE  b \in Found(m.value, m.target) /\ m.value \in Sources /\ m.target \in Values \union {None}
BY DEF PairInv, TypeOK, MatchRecord, Found

\* Every value is listed, once if without a target, and then with all its rows.
LEMMA EveryValueListed ==
  ASSUME PairInv, pc = "done", caller = "manual"
  PROVE  EveryValueOnce
<1>1. mapping = MergeBatches
  BY DEF PairInv, MappingOK
<1>2. \A b \in Batches : MatchesOK(b) /\ IsPaired(b)
  BY DEF PairInv, IsPaired
<1>3. {m.value : m \in mapping} \subseteq UNION {ValuesOf(b) : b \in Batches}
  <2> SUFFICES ASSUME NEW m \in mapping PROVE m.value \in UNION {ValuesOf(b) : b \in Batches}
    OBVIOUS
  <2>1. PICK v \in Sources, t \in Values \union {None} : Found(v, t) # {} /\ m.value = v
    BY <1>1, MergedPairs
  <2>2. PICK b \in Found(v, t) : TRUE
    BY <2>1
  <2> QED
    BY <2>1, <2>2, MatchIsFound
<1>4. ASSUME NEW b \in Batches, NEW v \in ValuesOf(b) PROVE \E m \in mapping : m.value = v
  <2>1. PICK n \in matches[b] : n.value = v
    BY <1>2 DEF MatchesOK
  <2>2. b \in Found(v, n.target) /\ v \in Sources /\ n.target \in Values \union {None}
    BY <2>1, FoundOf
  <2>3. CASE v \in ResolvedValues /\ n.target = None
    <3>0. PICK c \in Batches : \E k \in matches[c] : k.value = v /\ k.target # None
      BY <2>3 DEF ResolvedValues
    <3>1. PICK k \in matches[c] : k.value = v /\ k.target # None
      BY <3>0
    <3>2. c \in Found(v, k.target) /\ k.target \in Values \union {None}
      BY <3>1, FoundOf
    <3>3. Found(v, k.target) # {}
      BY <3>2
    <3> QED
      BY <1>1, <2>2, <3>1, <3>2, <3>3, MergedPairs
  <2>4. CASE ~(v \in ResolvedValues /\ n.target = None)
    <3>1. Found(v, n.target) # {}
      BY <2>2
    <3> QED
      BY <1>1, <2>2, <2>4, <3>1, MergedPairs
  <2> QED
    BY <2>3, <2>4
<1>5. ASSUME NEW m \in mapping, m.target = None
      PROVE  m.rows = RowsOf(m.value, 1) /\ \A n \in mapping : n.value = m.value => n = m
  <2>1. PICK v \in Sources : /\ m = Merge(v, None) /\ m.value = v /\ v \notin ResolvedValues
                             /\ m.rows = Total(FoundRows(v, None))
    BY <1>1, <1>5, MergedPairs
  <2>2. FoundRows(v, None) = [b \in Batches |-> IF b >= 1 THEN rows[b][v] ELSE 0]
    <3>1. ASSUME NEW b \in Batches
          PROVE  (IF b \in Found(v, None) THEN rows[b][v] ELSE 0) = (IF b >= 1 THEN rows[b][v] ELSE 0)
      <4>1. b >= 1 /\ rows[b][v] \in 0..MaxRows
        BY <2>1 DEF Batches, PairInv, TypeOK
      <4>2. CASE v \in ValuesOf(b)
        <5>1. PICK n \in matches[b] : n.value = v
          BY <1>2, <4>2 DEF MatchesOK
        <5>2. n.target = None
          BY <2>1, <5>1 DEF ResolvedValues
        <5>3. b \in Found(v, None)
          BY <5>1, <5>2, FoundOf
        <5> QED
          BY <4>1, <5>3
      <4>3. CASE v \notin ValuesOf(b)
        <5>1. rows[b][v] = 0
          BY <4>1, <4>3, BatchesAssumption DEF ValuesOf
        <5> QED
          BY <5>1
      <4> QED
        BY <4>2, <4>3
    <3> QED
      BY <3>1 DEF FoundRows
  <2>3. m.rows = RowsOf(v, 1)
    BY <2>1, <2>2 DEF RowsOf
  <2>4. ASSUME NEW n \in mapping, n.value = v PROVE n = m
    <3>1. PICK t \in Values \union {None} : Found(v, t) # {} /\ n = Merge(v, t)
      BY <1>1, <2>4, MergedPairs
    <3>2. t = None
      <4>1. PICK b \in Found(v, t) : TRUE
        BY <3>1
      <4> QED
        BY <2>1, <4>1 DEF Found, ResolvedValues
    <3> QED
      BY <2>1, <3>1, <3>2
  <2> QED
    BY <2>1, <2>3, <2>4
<1> QED
  BY <1>3, <1>4, <1>5 DEF EveryValueOnce

\* A single target that no user deleted counts every row from its first batch on.
LEMMA LaterBatchesFind ==
  ASSUME PairInv, pc = "done", caller = "manual"
  PROVE  LaterBatchesReuse
<1> SUFFICES ASSUME NEW m \in mapping, m.target # None,
                    \A n \in mapping : n.value = m.value => n = m, ~Deleted(m.value)
             PROVE  m.rows = RowsOf(m.value, Min(Found(m.value, m.target)))
  BY DEF LaterBatchesReuse, Deleted
<1>1. mapping = MergeBatches
  BY DEF PairInv, MappingOK
<1>2. PICK v \in Sources, t \in Values \union {None} :
        Found(v, t) # {} /\ m.value = v /\ m.target = t /\ m.rows = Total(FoundRows(v, t))
  BY <1>1, MergedPairs
<1>3. PICK j : j = Min(Found(v, t))
  OBVIOUS
<1>4. j \in Found(v, t) /\ \A b \in Found(v, t) : j <= b
  <2>1. Found(v, t) \subseteq Nat
    BY DEF Found, Batches
  <2> QED
    BY <1>2, <1>3, <2>1, MinIs
<1>5. ASSUME NEW b \in Batches, b >= j, v \in ValuesOf(b) PROVE b \in Found(v, t)
  <2>1. PICK k \in matches[j] : k.value = v /\ k.target = t
    BY <1>4 DEF Found
  <2>2. j \in Batches /\ IsPaired(b)
    BY <1>4 DEF Found, IsPaired
  <2>3. CASE b = j
    BY <1>4, <2>3
  <2>4. CASE b # j
    <3>1. j < b
      BY <1>5, <2>2, <2>4 DEF Batches
    <3>2. PICK n \in matches[b] : n.value = v /\ n.target # None
      BY <1>2, <1>5, <2>1, <2>2, <3>1 DEF PairInv, ReuseOK
    <3>3. b \in Found(v, n.target) /\ n.target \in Values \union {None}
      BY <3>2, FoundOf
    <3>4. Merge(v, n.target) \in mapping /\ Merge(v, n.target).value = v /\ Merge(v, n.target).target = n.target
      BY <1>1, <3>2, <3>3, MergedPairs
    <3>5. Merge(v, n.target) = m
      BY <1>2, <3>4
    <3> QED
      BY <1>2, <3>3, <3>4, <3>5
  <2> QED
    BY <2>3, <2>4
<1>6. FoundRows(v, t) = [b \in Batches |-> IF b >= j THEN rows[b][v] ELSE 0]
  <2>1. ASSUME NEW b \in Batches
        PROVE  (IF b \in Found(v, t) THEN rows[b][v] ELSE 0) = (IF b >= j THEN rows[b][v] ELSE 0)
    <3>0. rows[b][v] \in 0..MaxRows
      BY <1>2 DEF PairInv, TypeOK
    <3>1. rows[b][v] \in 0..MaxRows /\ b \in Nat /\ j \in Nat
      BY <1>4, <3>0 DEF Batches, Found
    <3>2. CASE v \in ValuesOf(b)
      BY <1>4, <1>5, <3>1, <3>2
    <3>3. CASE v \notin ValuesOf(b)
      <4>1. rows[b][v] = 0
        BY <3>1, <3>3, BatchesAssumption DEF ValuesOf
      <4> QED
        BY <4>1
    <3> QED
      BY <3>2, <3>3
  <2> QED
    BY <2>1 DEF FoundRows
<1> QED
  BY <1>2, <1>3, <1>6 DEF RowsOf

\* What a Manual request returns lists every value of the source.
THEOREM EveryValueOnceHolds == Spec => []EveryValueOnce
<1>1. PairInv => EveryValueOnce
  BY EveryValueListed DEF EveryValueOnce
<1> QED
  BY <1>1, PairInvariance, PTL

\* What one batch finds, every later one does.
THEOREM LaterBatchesReuseHolds == Spec => []LaterBatchesReuse
<1>1. PairInv => LaterBatchesReuse
  BY LaterBatchesFind DEF LaterBatchesReuse
<1> QED
  BY <1>1, PairInvariance, PTL

=============================================================================
