-------------------------- MODULE AutoPlanningProofs --------------------------
(***************************************************************************)
(* What AutoPlanning resolves and what it asks, for any connectors and     *)
(* sheets and any number of answers, changes of the services and restarts. *)
(***************************************************************************)
EXTENDS AutoPlanning, FiniteSetTheorems, TLAPS

------------------------------------------------------------------------------
(* What has been resolved is live.                                         *)

Schema == UNION {Schemas[s] : s \in Sides}

\* The process holds metadata that its connectors had.
CacheOK ==
  /\ service \in [Sides -> Schema] /\ cache \in [Sides -> Schema \union {NoMetadata}]
  /\ \A s \in Sides : service[s] \in Schemas[s] /\ cache[s] \in Schemas[s] \union {NoMetadata}

\* A run that is not started has resolved nothing; one that is, is past the sheet.
PositionOK ==
  /\ at \in 1..Resolved
  /\ DOMAIN names = Sides
  /\ \A s \in Sides : DOMAIN names[s] = {"entity", "joined", "fields", "keys"}
  /\ status = "created" => at = 1
  /\ status \in {"running", "waiting_for_input"} => step # "identify"

\* How far the execution has come says what it has found in the metadata that
\* the process holds.
FoundOK ==
  status = "running" =>
    /\ at > 1 => names["source"].entity \in Entities(cache["source"])
    /\ at > 2 /\ names["source"].joined # NoEntity =>
         Joins /\ names["source"].joined \in Entities(cache["source"])
    /\ at > 3 => names["source"].fields \subseteq cache["source"][names["source"].entity]
    /\ at > 4 /\ names["source"].joined # NoEntity =>
         names["source"].keys # {} /\ names["source"].keys \subseteq Joinable
    /\ at > 5 => names["target"].entity \in Entities(cache["target"])
    /\ at > 6 => names["target"].fields \subseteq cache["target"][names["target"].entity]

LiveInv == CacheOK /\ PositionOK /\ FoundOK

LEMMA Six == Resolved = 7
  BY DEF Resolved, Resolvers

LEMMA ResolverFacts ==
  /\ Resolvers[1] = [side |-> "source", asks |-> "entity"]
  /\ Resolvers[2] = [side |-> "source", asks |-> "joined"]
  /\ Resolvers[3] = [side |-> "source", asks |-> "field"]
  /\ Resolvers[4] = [side |-> "source", asks |-> "key"]
  /\ Resolvers[5] = [side |-> "target", asks |-> "entity"]
  /\ Resolvers[6] = [side |-> "target", asks |-> "field"]
  BY DEF Resolvers

\* Metadata that is held stays as long as the process lives.
Held == \A s \in Sides : cache[s] # NoMetadata => cache'[s] = cache[s]

\* A step that leaves the execution where it is keeps what it has found.
LEMMA FoundStays ==
  ASSUME LiveInv, Held, at' = at, names' = names, identified' = identified,
         status' = "running" => status = "running"
  PROVE  FoundOK'
<1> SUFFICES ASSUME status' = "running" PROVE FoundOK'
  BY DEF FoundOK
<1>1. FoundOK /\ status = "running"
  BY DEF LiveInv
<1>2. at \in 1..7
  BY Six DEF LiveInv, PositionOK
<1>3. at > 1 => cache'["source"] = cache["source"]
  BY <1>1 DEF FoundOK, Held, Sides, Entities, NoMetadata
<1>4. at > 5 => cache'["target"] = cache["target"]
  BY <1>1 DEF FoundOK, Held, Sides, Entities, NoMetadata
<1>5. at > 4 /\ names["source"].joined # NoEntity => Joinable' = Joinable
  BY <1>1, <1>2, <1>3
     DEF FoundOK, Joinable, SourceProperties, JoinedProperties, PropertiesOf, Metadata, Entities, NoMetadata
<1>6. Joins' = Joins
  BY DEF Joins
<1> QED
  BY <1>1, <1>2, <1>3, <1>4, <1>5, <1>6 DEF FoundOK

\* The resolver's side is read through the cache.
LEMMA ReadHolds ==
  ASSUME LiveInv, Resolving, cache' = [cache EXCEPT ![Side] = Metadata(Side)], service' = service
  PROVE  Held /\ CacheOK' /\ Side \in Sides /\ cache'[Side] = Metadata(Side)
<1>1. at \in 1..6
  BY Six DEF LiveInv, PositionOK, Resolving
<1>2. Side \in Sides
  BY <1>1, ResolverFacts DEF Side, Resolver, Sides
<1>3. Metadata(Side) \in Schemas[Side]
  BY <1>2 DEF LiveInv, CacheOK, Metadata
<1>4. cache'[Side] = Metadata(Side) /\ \A s \in Sides \ {Side} : cache'[s] = cache[s]
  BY <1>2 DEF LiveInv, CacheOK
<1>5. cache' \in [Sides -> Schema \union {NoMetadata}]
  BY <1>2, <1>3 DEF LiveInv, CacheOK, Schema
<1>6. \A s \in Sides : cache'[s] \in Schemas[s] \union {NoMetadata}
  BY <1>3, <1>4 DEF LiveInv, CacheOK
<1>7. CacheOK'
  BY <1>5, <1>6 DEF LiveInv, CacheOK
<1>8. Held
  BY <1>4 DEF Held, Metadata
<1> QED
  BY <1>2, <1>4, <1>7, <1>8

\* What a resolver leaves in the names, field by field.
LEMMA SettledNames ==
  ASSUME LiveInv, Resolving, names' = Settled
  PROVE  /\ DOMAIN names' = Sides
         /\ \A s \in Sides : DOMAIN names'[s] = {"entity", "joined", "fields", "keys"}
         /\ \A s \in Sides : s # Side \/ Resolver.asks # "entity" => names'[s].entity = names[s].entity
         /\ \A s \in Sides : s # Side \/ Resolver.asks # "joined" => names'[s].joined = names[s].joined
         /\ \A s \in Sides : s # Side \/ Resolver.asks # "field" => names'[s].fields = names[s].fields
         /\ \A s \in Sides : s # Side \/ Resolver.asks # "key" => names'[s].keys = names[s].keys
<1>1. at \in 1..6
  BY Six DEF LiveInv, PositionOK, Resolving
<1>2. Side \in Sides
  BY <1>1, ResolverFacts DEF Side, Resolver, Sides
<1>3. Resolver.asks \in {"entity", "joined", "field", "key"}
  BY <1>1, ResolverFacts DEF Resolver
<1>4. PositionOK
  BY DEF LiveInv
<1> DEFINE joined == IF Needed THEN candidate ELSE NoEntity
           fields == IF Needed THEN {candidate}
                     ELSE Matched(Side, PropertiesOf(Side, names[Side].entity))
           keys == IF ~Joins THEN {}
                   ELSE IF VerifiedKeys # {} THEN VerifiedKeys
                   ELSE SameName(IF Suggested # {} THEN Suggested ELSE {candidate})
<1>5. CASE Resolver.asks = "entity"
  <2>1. names' = [names EXCEPT ![Side].entity = candidate]
    BY <1>5 DEF Settled
  <2> QED
    BY <1>2, <1>4, <1>5, <2>1 DEF PositionOK
<1>6. CASE Resolver.asks = "joined"
  <2>1. names' = [names EXCEPT ![Side].joined = joined]
    BY <1>6 DEF Settled
  <2> HIDE DEF joined
  <2> QED
    BY <1>2, <1>4, <1>6, <2>1 DEF PositionOK
<1>7. CASE Resolver.asks = "field"
  <2>1. names' = [names EXCEPT ![Side].fields = fields]
    BY <1>7 DEF Settled
  <2> HIDE DEF fields
  <2> QED
    BY <1>2, <1>4, <1>7, <2>1 DEF PositionOK
<1>8. CASE Resolver.asks = "key"
  <2>1. names' = [names EXCEPT ![Side].keys = keys]
    BY <1>8 DEF Settled
  <2> HIDE DEF keys
  <2> QED
    BY <1>2, <1>4, <1>8, <2>1 DEF PositionOK
<1> QED
  BY <1>3, <1>5, <1>6, <1>7, <1>8

\* What each resolver leaves exists in the metadata it reads.
LEMMA SettledFound ==
  ASSUME LiveInv, Settle
  PROVE  FoundOK'
<1>1. Resolving /\ names' = Settled /\ at' = at + 1 /\ cache' = [cache EXCEPT ![Side] = Metadata(Side)]
      /\ service' = service /\ identified' = identified /\ status' = status
      /\ (Needed => candidate \in Options)
  BY DEF Settle, Accepted
<1>2. Held /\ Side \in Sides /\ cache'[Side] = Metadata(Side)
  BY <1>1, ReadHolds
<1>3. at \in 1..6 /\ status = "running" /\ FoundOK
  BY <1>1, Six DEF LiveInv, PositionOK, Resolving
<1>4. DOMAIN names' = Sides
  BY <1>1, SettledNames
<1>5. at > 1 => cache'["source"] = cache["source"]
  BY <1>2, <1>3 DEF FoundOK, Held, Sides, Entities, NoMetadata
<1>6. at > 5 => cache'["target"] = cache["target"]
  BY <1>2, <1>3 DEF FoundOK, Held, Sides, Entities, NoMetadata
<1>7. Joins' = Joins
  BY <1>1 DEF Joins
<1>8. CASE at = 1
  <2>1. Resolver = [side |-> "source", asks |-> "entity"] /\ Side = "source"
    BY <1>8, ResolverFacts DEF Resolver, Side
  <2>2. names' = [names EXCEPT !["source"].entity = candidate]
    BY <1>1, <2>1 DEF Settled
  <2>3. candidate \in Entities(Metadata("source"))
    BY <1>1, <2>1 DEF Needed, Options
  <2>4. names'["source"].entity = candidate
    BY <2>2 DEF LiveInv, PositionOK, Sides
  <2> QED
    BY <1>1, <1>2, <1>8, <2>1, <2>3, <2>4 DEF FoundOK
<1>9. CASE at = 2
  <2>1. Resolver = [side |-> "source", asks |-> "joined"] /\ Side = "source"
    BY <1>9, ResolverFacts DEF Resolver, Side
  <2>2. names' = [names EXCEPT !["source"].joined = IF Joins THEN candidate ELSE NoEntity]
    BY <1>1, <2>1 DEF Settled, Needed
  <2>3. Joins => candidate \in Entities(Metadata("source"))
    BY <1>1, <2>1 DEF Needed, Options
  <2>4. names'["source"].joined = (IF Joins THEN candidate ELSE NoEntity)
    BY <2>2 DEF LiveInv, PositionOK, Sides
  <2>5. names'["source"].entity = names["source"].entity
    BY <1>1, <2>1, SettledNames DEF Sides
  <2> QED
    BY <1>1, <1>2, <1>3, <1>5, <1>7, <1>9, <2>1, <2>3, <2>4, <2>5 DEF FoundOK
<1>10. CASE at = 3
  <2>1. Resolver = [side |-> "source", asks |-> "field"] /\ Side = "source"
    BY <1>10, ResolverFacts DEF Resolver, Side
  <2> DEFINE properties == PropertiesOf("source", names["source"].entity)
             fields == IF Needed THEN {candidate} ELSE Matched("source", properties)
  <2>2. names' = [names EXCEPT !["source"].fields = fields]
    BY <1>1, <2>1 DEF Settled
  <2>3. Needed => candidate \in properties
    BY <1>1, <2>1 DEF Options
  <2>4. names'["source"].fields = fields
    <3> HIDE DEF fields
    <3> QED
      BY <2>2 DEF LiveInv, PositionOK, Sides
  <2>5. names'["source"].fields \subseteq properties
    BY <2>3, <2>4 DEF Matched
  <2>6. names'["source"].entity = names["source"].entity /\ names'["source"].joined = names["source"].joined
    BY <1>1, <2>1, SettledNames DEF Sides
  <2>7. properties = cache'["source"][names["source"].entity]
    BY <1>2, <2>1 DEF PropertiesOf
  <2> QED
    BY <1>1, <1>3, <1>5, <1>7, <1>10, <2>5, <2>6, <2>7 DEF FoundOK
<1>11. CASE at = 4
  <2>1. Resolver = [side |-> "source", asks |-> "key"] /\ Side = "source"
    BY <1>11, ResolverFacts DEF Resolver, Side
  <2> DEFINE keys == IF ~Joins THEN {}
                     ELSE IF VerifiedKeys # {} THEN VerifiedKeys
                     ELSE SameName(IF Suggested # {} THEN Suggested ELSE {candidate})
  <2>2. names' = [names EXCEPT !["source"].keys = keys]
    BY <1>1, <2>1 DEF Settled
  <2>3. Joins => keys # {} /\ keys \subseteq Joinable
    <3>1. Joins /\ VerifiedKeys = {} /\ Suggested = {} => candidate \in Shared
      BY <1>1, <2>1 DEF Needed, Options
    <3>2. VerifiedKeys \subseteq Joinable /\ Suggested \subseteq Shared
      BY DEF VerifiedKeys, Suggested
    <3>3. ASSUME NEW ks \in SUBSET Shared, ks # {}
          PROVE  SameName(ks) # {} /\ SameName(ks) \subseteq Joinable
      <4>1. PICK k \in ks : TRUE
        BY <3>3
      <4>2. <<k, k>> \in SameName(ks)
        BY <4>1 DEF SameName
      <4>3. ASSUME NEW p \in SameName(ks) PROVE p \in Joinable
        <5>1. PICK i \in ks : p = <<i, i>>
          BY <4>3 DEF SameName
        <5>2. i \in SourceProperties /\ i \in JoinedProperties
          BY <5>1 DEF Shared
        <5> QED
          BY <5>1, <5>2 DEF Joinable
      <4> QED
        BY <4>2, <4>3
    <3>4. Joins /\ VerifiedKeys = {} =>
            (IF Suggested # {} THEN Suggested ELSE {candidate}) \in (SUBSET Shared) \ {{}}
      BY <3>1, <3>2
    <3> DEFINE ks == IF Suggested # {} THEN Suggested ELSE {candidate}
    <3>5. Joins => keys = (IF VerifiedKeys # {} THEN VerifiedKeys ELSE SameName(ks))
      OBVIOUS
    <3>6. Joins /\ VerifiedKeys = {} => ks \in (SUBSET Shared) \ {{}}
      BY <3>4
    <3> HIDE DEF ks, keys
    <3> QED
      BY <3>2, <3>3, <3>5, <3>6
  <2>4. names'["source"].keys = keys
    <3> HIDE DEF keys
    <3> QED
      BY <2>2 DEF LiveInv, PositionOK, Sides
  <2> HIDE DEF keys
  <2>5. /\ names'["source"].entity = names["source"].entity
        /\ names'["source"].joined = names["source"].joined
        /\ names'["source"].fields = names["source"].fields
    BY <1>1, <2>1, SettledNames DEF Sides
  <2>6. Joinable' = Joinable
    BY <1>3, <1>5, <1>11, <2>5
       DEF FoundOK, Joinable, SourceProperties, JoinedProperties, PropertiesOf, Metadata, Entities, NoMetadata
  <2> QED
    BY <1>1, <1>3, <1>5, <1>7, <1>11, <2>3, <2>4, <2>5, <2>6 DEF FoundOK
<1>12. ASSUME at \in {5, 6}
       PROVE  /\ Side = "target"
              /\ names'["source"] = names["source"]
              /\ Joinable' = Joinable
  <2>1. Side = "target" /\ Resolver.asks \in {"entity", "field"}
    BY <1>12, ResolverFacts DEF Resolver, Side
  <2>2. names'["source"] = names["source"]
    BY <1>1, <2>1 DEF Settled, LiveInv, PositionOK, Sides
  <2>3. Joinable' = Joinable
    BY <1>3, <1>5, <1>12, <2>2
       DEF FoundOK, Joinable, SourceProperties, JoinedProperties, PropertiesOf, Metadata, Entities, NoMetadata
  <2> QED
    BY <2>1, <2>2, <2>3
<1>13. CASE at = 5
  <2>1. Resolver = [side |-> "target", asks |-> "entity"] /\ Side = "target"
    BY <1>13, ResolverFacts DEF Resolver, Side
  <2>2. names' = [names EXCEPT !["target"].entity = candidate]
    BY <1>1, <2>1 DEF Settled
  <2>3. candidate \in Entities(Metadata("target"))
    BY <1>1, <2>1 DEF Needed, Options
  <2>4. names'["target"].entity = candidate
    BY <2>2 DEF LiveInv, PositionOK, Sides
  <2> QED
    BY <1>1, <1>2, <1>3, <1>5, <1>7, <1>12, <1>13, <2>1, <2>3, <2>4 DEF FoundOK
<1>14. CASE at = 6
  <2>1. Resolver = [side |-> "target", asks |-> "field"] /\ Side = "target"
    BY <1>14, ResolverFacts DEF Resolver, Side
  <2> DEFINE properties == PropertiesOf("target", names["target"].entity)
             fields == IF Needed THEN {candidate} ELSE Matched("target", properties)
  <2>2. names' = [names EXCEPT !["target"].fields = fields]
    BY <1>1, <2>1 DEF Settled
  <2>3. Needed => candidate \in properties
    BY <1>1, <2>1 DEF Options
  <2>4. names'["target"].fields = fields
    <3> HIDE DEF fields
    <3> QED
      BY <2>2 DEF LiveInv, PositionOK, Sides
  <2>5. names'["target"].fields \subseteq properties
    BY <2>3, <2>4 DEF Matched
  <2>6. names'["target"].entity = names["target"].entity
    BY <1>1, <2>1, SettledNames DEF Sides
  <2>7. properties = cache'["target"][names["target"].entity]
    BY <1>2, <2>1 DEF PropertiesOf
  <2> QED
    BY <1>1, <1>3, <1>5, <1>6, <1>7, <1>12, <1>14, <2>5, <2>6, <2>7 DEF FoundOK
<1> QED
  BY <1>3, <1>8, <1>9, <1>10, <1>11, <1>13, <1>14

\* A step of the graph that leaves the execution and the metadata alone.
LEMMA QuietLive ==
  ASSUME LiveInv, UNCHANGED <<service, cache, at, names, identified>>,
         status' \in {status, "failed"}, step' # "identify"
  PROVE  LiveInv'
<1>1. CacheOK'
  BY DEF LiveInv, CacheOK
<1>2. PositionOK'
  BY DEF LiveInv, PositionOK
<1>3. FoundOK'
  BY FoundStays DEF Held
<1> QED
  BY <1>1, <1>2, <1>3 DEF LiveInv

LEMMA NextLive == LiveInv /\ [Next]_vars => LiveInv'
<1> SUFFICES ASSUME LiveInv, [Next]_vars PROVE LiveInv'
  OBVIOUS
<1> USE DEF world, execution, outcome
<1>1. ASSUME NEW s \in Sides, Change(s) PROVE LiveInv'
  <2>1. PICK m \in Schemas[s] : service' = [service EXCEPT ![s] = m]
    BY <1>1 DEF Change
  <2>2. UNCHANGED <<cache, at, names, identified, status, step>>
    BY <1>1 DEF Change
  <2>3. CacheOK'
    <3>1. service' \in [Sides -> Schema]
      BY <2>1 DEF LiveInv, CacheOK, Schema
    <3>2. \A t \in Sides : service'[t] \in Schemas[t]
      BY <2>1 DEF LiveInv, CacheOK
    <3> QED
      BY <2>2, <3>1, <3>2 DEF LiveInv, CacheOK
  <2>4. PositionOK'
    BY <2>2 DEF LiveInv, PositionOK
  <2>5. FoundOK'
    BY <2>2, FoundStays DEF Held
  <2> QED
    BY <2>3, <2>4, <2>5 DEF LiveInv
<1>2. CASE Restart
  <2>1. service' = service /\ cache' = [s \in Sides |-> NoMetadata]
        /\ UNCHANGED <<at, names, step>>
        /\ status' = IF status = "running" THEN "failed" ELSE status
    BY <1>2 DEF Restart
  <2>2. CacheOK'
    BY <2>1 DEF LiveInv, CacheOK
  <2>3. PositionOK'
    BY <2>1 DEF LiveInv, PositionOK
  <2>4. FoundOK'
    BY <2>1 DEF FoundOK
  <2> QED
    BY <2>2, <2>3, <2>4 DEF LiveInv
<1>3. CASE IdentifySystems
  <2>1. PICK loaded \in SUBSET Sides :
          cache' = [s \in Sides |-> IF s \in loaded THEN Metadata(s) ELSE cache[s]]
    BY <1>3 DEF IdentifySystems
  <2>2. step = "identify" /\ step' = "select_source" /\ UNCHANGED <<service, at, names, status>>
    BY <1>3 DEF IdentifySystems
  <2>3. \A s \in Sides : cache'[s] \in Schemas[s] \union {NoMetadata}
    BY <2>1 DEF LiveInv, CacheOK, Metadata
  <2>4. cache' \in [Sides -> Schema \union {NoMetadata}]
    BY <2>1, <2>3 DEF Schema
  <2>5. CacheOK'
    BY <2>2, <2>3, <2>4 DEF LiveInv, CacheOK
  <2>6. PositionOK' /\ status' # "running"
    BY <2>2 DEF LiveInv, PositionOK
  <2>7. FoundOK'
    BY <2>6 DEF FoundOK
  <2> QED
    BY <2>5, <2>6, <2>7 DEF LiveInv
<1>4. CASE StartRun
  <2>1. UNCHANGED <<service, cache, at, names, step>> /\ at = 1 /\ step = "select_source"
        /\ status' = "running"
    BY <1>4 DEF StartRun, LiveInv, PositionOK
  <2>2. CacheOK'
    BY <2>1 DEF LiveInv, CacheOK
  <2>3. PositionOK'
    BY <2>1 DEF LiveInv, PositionOK
  <2>4. FoundOK'
    BY <2>1 DEF FoundOK
  <2> QED
    BY <2>2, <2>3, <2>4 DEF LiveInv
<1>5. CASE SelectSource \/ SelectTarget
  BY <1>5, QuietLive DEF SelectSource, SelectTarget, SelectSide, Fail
<1>6. CASE Settle
  <2>1. Resolving /\ cache' = [cache EXCEPT ![Side] = Metadata(Side)] /\ service' = service
        /\ names' = Settled /\ at' = at + 1 /\ UNCHANGED <<status, step>>
    BY <1>6 DEF Settle
  <2>2. CacheOK'
    BY <2>1, ReadHolds
  <2>3. DOMAIN names' = Sides /\ \A s \in Sides : DOMAIN names'[s] = {"entity", "joined", "fields", "keys"}
    BY <2>1, SettledNames
  <2>4. PositionOK'
    BY <2>1, <2>3, Six DEF LiveInv, PositionOK, Resolving
  <2> QED
    BY <1>6, <2>2, <2>4, SettledFound DEF LiveInv
<1>7. CASE Replay \/ Pause \/ GiveUp
  <2>1. Resolving /\ cache' = [cache EXCEPT ![Side] = Metadata(Side)]
        /\ UNCHANGED <<service, at, names, identified, step>>
        /\ status' \in {"running", "waiting_for_input", "failed"}
    BY <1>7 DEF Replay, Pause, GiveUp, Unsettled, Resolving, Fail
  <2>2. Held /\ CacheOK'
    BY <2>1, ReadHolds
  <2>3. PositionOK'
    BY <2>1 DEF LiveInv, PositionOK, Resolving
  <2>4. FoundOK'
    BY <2>1, <2>2, FoundStays DEF Resolving
  <2> QED
    BY <2>2, <2>3, <2>4 DEF LiveInv
<1>8. ASSUME NEW v, Answer(v) PROVE LiveInv'
  <2>1. UNCHANGED <<service, cache, step>> /\ at' = 1 /\ names' = NoNames
        /\ status = "waiting_for_input" /\ status' = "running"
    BY <1>8 DEF Answer
  <2>2. CacheOK'
    BY <2>1 DEF LiveInv, CacheOK
  <2>3. PositionOK'
    BY <2>1, Six DEF LiveInv, PositionOK, NoNames
  <2>4. FoundOK'
    BY <2>1 DEF FoundOK
  <2> QED
    BY <2>2, <2>3, <2>4 DEF LiveInv
<1>9. CASE ResolveRoles \/ CompileContract \/ PlanDateBatches
  BY <1>9, QuietLive DEF ResolveRoles, CompileContract, PlanDateBatches, Fail
<1>10. CASE UNCHANGED vars
  <2>1. UNCHANGED <<service, cache, at, names, identified, status, step>>
    BY <1>10 DEF vars
  <2>2. CacheOK' /\ PositionOK'
    BY <2>1 DEF LiveInv, CacheOK, PositionOK
  <2>3. FoundOK'
    BY <2>1, FoundStays DEF Held
  <2> QED
    BY <2>2, <2>3 DEF LiveInv
<1> QED
  BY <1>1, <1>2, <1>3, <1>4, <1>5, <1>6, <1>7, <1>8, <1>9, <1>10 DEF Next

LEMMA InitLive == Init => LiveInv
<1> SUFFICES ASSUME Init PROVE LiveInv
  OBVIOUS
<1>1. CacheOK
  BY DEF Init, CacheOK, Schema
<1>2. PositionOK
  BY Six DEF Init, PositionOK, NoNames
<1>3. FoundOK
  BY DEF Init, FoundOK
<1> QED
  BY <1>1, <1>2, <1>3 DEF LiveInv

\* Each entity that is settled has columns: the fields of the sheet, or its keys.
LEMMA LiveHasColumns == LiveInv => ResolvedIsLive
<1> SUFFICES ASSUME LiveInv, status = "running", at = Resolved
             PROVE  /\ \A s \in Sides :
                         /\ names[s].entity \in Entities(cache[s])
                         /\ PrimaryColumns(s) # {}
                         /\ PrimaryColumns(s) \subseteq cache[s][names[s].entity]
                    /\ names["source"].joined # NoEntity =>
                         /\ names["source"].joined \in Entities(cache["source"])
                         /\ JoinedColumns # {}
                         /\ names["source"].keys # {} /\ names["source"].keys \subseteq Joinable
  BY DEF ResolvedIsLive
<1>1. at = 7 /\ FoundOK
  BY Six DEF LiveInv
<1>2. ASSUME NEW s \in Sides
      PROVE  /\ names[s].entity \in Entities(cache[s])
             /\ names[s].fields \subseteq cache[s][names[s].entity]
  BY <1>1, <1>2 DEF FoundOK, Sides
<1>3. ASSUME NEW s \in Sides, NEW e \in Entities(cache[s])
      PROVE  Metadata(s) = cache[s] /\ cache[s][e] \intersect KeyFields # {}
  BY <1>3, KeysAssumption DEF LiveInv, CacheOK, Metadata, Entities, NoMetadata
<1>4. ASSUME NEW s \in Sides
      PROVE  PrimaryColumns(s) # {} /\ PrimaryColumns(s) \subseteq cache[s][names[s].entity]
  BY <1>2, <1>3, <1>4 DEF PrimaryColumns, KeysOf, PropertiesOf
<1>5. ASSUME names["source"].joined # NoEntity
      PROVE  /\ names["source"].joined \in Entities(cache["source"])
             /\ JoinedColumns # {}
             /\ names["source"].keys # {} /\ names["source"].keys \subseteq Joinable
  BY <1>1, <1>3, <1>5 DEF FoundOK, Sides, JoinedColumns, KeysOf, PropertiesOf
<1> QED
  BY <1>2, <1>4, <1>5

\* What resolve_schema settles exists in the metadata it ran with, whoever gave
\* the name, whatever changes at the services and however often the node runs
\* again; each entity is read by columns of its own, as long as it has a key.
THEOREM ResolvedIsLiveHolds == Spec => []ResolvedIsLive
<1>1. Spec => []LiveInv
  BY InitLive, NextLive, PTL DEF Spec
<1> QED
  BY <1>1, LiveHasColumns, PTL

------------------------------------------------------------------------------
(* An execution of resolve_schema, as a value: x is one, md the metadata of *)
(* the side its resolver reads, id the identification of the run.           *)

Exec == [at |-> at, candidate |-> candidate, names |-> names, taken |-> taken]

ResolverAt(x) == Resolvers[x.at]
SideAt(x) == ResolverAt(x).side
JoinsIn(id) == Len(id["source"].entities) > 1
FirstIn(r, id) ==
  CASE r.asks = "entity" -> id[r.side].entities[1]
    [] r.asks = "joined" /\ JoinsIn(id) -> id["source"].entities[2]
    [] OTHER -> NoName
StartIn(id) ==
  [at |-> 1, candidate |-> FirstIn(Resolvers[1], id), names |-> NoNames, taken |-> <<>>]

OwnProperties(x, md) == md[x.names[SideAt(x)].entity]
OtherProperties(x, md) ==
  IF x.names["source"].joined = NoEntity THEN {} ELSE md[x.names["source"].joined]
SharedIn(x, md) == md[x.names["source"].entity] \intersect OtherProperties(x, md)
SuggestedIn(x, md) ==
  IF md \notin Related THEN {}
  ELSE IF SharedIn(x, md) \intersect KeyFields # {} THEN SharedIn(x, md) \intersect KeyFields
  ELSE SharedIn(x, md)
VerifiedIn(x, md, id) ==
  id["source"].keys \intersect (md[x.names["source"].entity] \X OtherProperties(x, md))

OptionsAt(x, md) ==
  CASE ResolverAt(x).asks \in {"entity", "joined"} -> Entities(md)
    [] ResolverAt(x).asks = "field" -> OwnProperties(x, md)
    [] ResolverAt(x).asks = "key" -> SharedIn(x, md)

NeededAt(x, md, id) ==
  CASE ResolverAt(x).asks = "entity" -> TRUE
    [] ResolverAt(x).asks = "joined" -> JoinsIn(id)
    [] ResolverAt(x).asks = "field" ->
         /\ id[SideAt(x)].fields \intersect OwnProperties(x, md) = {}
         /\ SideAt(x) = "source" => id["source"].fields \intersect OtherProperties(x, md) = {}
    [] ResolverAt(x).asks = "key" ->
         JoinsIn(id) /\ VerifiedIn(x, md, id) = {} /\ SuggestedIn(x, md) = {}

SettledAt(x, md, id) ==
  CASE ResolverAt(x).asks = "entity" -> [x.names EXCEPT ![SideAt(x)].entity = x.candidate]
    [] ResolverAt(x).asks = "joined" ->
         [x.names EXCEPT ![SideAt(x)].joined = IF NeededAt(x, md, id) THEN x.candidate ELSE NoEntity]
    [] ResolverAt(x).asks = "field" ->
         [x.names EXCEPT ![SideAt(x)].fields =
            IF NeededAt(x, md, id) THEN {x.candidate}
            ELSE id[SideAt(x)].fields \intersect OwnProperties(x, md)]
    [] ResolverAt(x).asks = "key" ->
         [x.names EXCEPT ![SideAt(x)].keys =
            IF ~JoinsIn(id) THEN {}
            ELSE IF VerifiedIn(x, md, id) # {} THEN VerifiedIn(x, md, id)
            ELSE SameName(IF SuggestedIn(x, md) # {} THEN SuggestedIn(x, md)
                          ELSE {x.candidate})]

\* The resolver settles, or asks; then x goes on as another execution.
SettlesAt(x, md, id) == ~NeededAt(x, md, id) \/ x.candidate \in OptionsAt(x, md)
AsksAt(x, md, id) == NeededAt(x, md, id) /\ x.candidate \notin OptionsAt(x, md)

AfterSettle(x, md, id) ==
  [at |-> x.at + 1,
   candidate |-> IF x.at + 1 = Resolved THEN NoName ELSE FirstIn(Resolvers[x.at + 1], id),
   names |-> SettledAt(x, md, id), taken |-> x.taken]
AfterReplay(x, v) ==
  [at |-> x.at, candidate |-> v, names |-> x.names, taken |-> Append(x.taken, ResolverAt(x))]

LEMMA ExecFields ==
  Exec.at = at /\ Exec.candidate = candidate /\ Exec.names = names /\ Exec.taken = taken
  BY DEF Exec

\* The actions of the graph do just that.
LEMMA ExecMatches ==
  ASSUME at \in 1..6
  PROVE  /\ ResolverAt(Exec) = Resolver /\ SideAt(Exec) = Side
         /\ OptionsAt(Exec, Metadata(Side)) = Options
         /\ NeededAt(Exec, Metadata(Side), identified) <=> Needed
         /\ SettledAt(Exec, Metadata(Side), identified) = Settled
<1>1. ResolverAt(Exec) = Resolver /\ SideAt(Exec) = Side
  BY ExecFields DEF ResolverAt, SideAt, Resolver, Side
<1>2. /\ Resolver.asks \in {"entity", "joined", "field", "key"}
      /\ Resolver.asks \in {"joined", "key"} => Side = "source"
  BY ResolverFacts DEF Resolver, Side
<1> DEFINE md == Metadata(Side)
<1>3. JoinsIn(identified) <=> Joins
  BY DEF JoinsIn, Joins
<1>4. OwnProperties(Exec, md) = PropertiesOf(Side, names[Side].entity)
  BY <1>1, ExecFields DEF OwnProperties, PropertiesOf
<1>5. ASSUME Side = "source"
      PROVE  /\ OtherProperties(Exec, md) = JoinedProperties
             /\ SharedIn(Exec, md) = Shared
             /\ SuggestedIn(Exec, md) = Suggested
             /\ VerifiedIn(Exec, md, identified) = VerifiedKeys
  <2>1. OtherProperties(Exec, md) = JoinedProperties
    BY <1>5, ExecFields DEF OtherProperties, JoinedProperties, PropertiesOf
  <2>2. SharedIn(Exec, md) = Shared
    BY <1>5, <2>1, ExecFields DEF SharedIn, Shared, SourceProperties, PropertiesOf
  <2>3. SuggestedIn(Exec, md) = Suggested
    BY <1>5, <2>2 DEF SuggestedIn, Suggested
  <2>4. VerifiedIn(Exec, md, identified) = VerifiedKeys
    BY <1>5, <2>1, ExecFields DEF VerifiedIn, VerifiedKeys, Joinable, SourceProperties, PropertiesOf
  <2> QED
    BY <2>1, <2>2, <2>3, <2>4
<1> HIDE DEF md
<1>6. OptionsAt(Exec, md) = Options
  <2>1. Metadata(Side) = md
    BY DEF md
  <2> QED
    BY <1>1, <1>2, <1>4, <1>5, <2>1 DEF OptionsAt, Options
<1>7. NeededAt(Exec, md, identified) <=> Needed
  <2>1. CASE Resolver.asks = "entity"
    BY <1>1, <2>1 DEF NeededAt, Needed
  <2>2. CASE Resolver.asks = "joined"
    BY <1>1, <1>3, <2>2 DEF NeededAt, Needed
  <2>3. CASE Resolver.asks = "field"
    BY <1>1, <1>4, <1>5, <2>3 DEF NeededAt, Needed, Matched
  <2>4. CASE Resolver.asks = "key"
    BY <1>1, <1>2, <1>3, <1>5, <2>4 DEF NeededAt, Needed
  <2> QED
    BY <1>2, <2>1, <2>2, <2>3, <2>4
<1>8. SettledAt(Exec, md, identified) = Settled
  <2>1. CASE Resolver.asks = "entity"
    BY <1>1, <2>1, ExecFields DEF SettledAt, Settled
  <2>2. CASE Resolver.asks = "joined"
    BY <1>1, <1>7, <2>2, ExecFields DEF SettledAt, Settled
  <2>3. CASE Resolver.asks = "field"
    BY <1>1, <1>4, <1>7, <2>3, ExecFields DEF SettledAt, Settled, Matched
  <2>4. CASE Resolver.asks = "key"
    BY <1>1, <1>2, <1>3, <1>5, <2>4, ExecFields DEF SettledAt, Settled
  <2> QED
    BY <1>2, <2>1, <2>2, <2>3, <2>4
<1> QED
  BY <1>1, <1>6, <1>7, <1>8 DEF md

------------------------------------------------------------------------------
(* Why answers fit.  The executions of a process that ask the same question *)
(* come the same way; witness to that is the set of the executions on it.  *)

Question == {Resolvers[i] : i \in 1..6}
Value == UNION {UNION ({DOMAIN m} \union Range(m)) : m \in UNION Range(Schemas)}
AnswerGiven == [question : Question, boot : Nat, value : Value]

Waits == status = "waiting_for_input"
Runs == status = "running" /\ step = "resolve_schema"

\* x goes on to one of W, with the first n answers.
GoesOn(x, W, n) ==
  \/ /\ SettlesAt(x, cache[SideAt(x)], identified)
     /\ AfterSettle(x, cache[SideAt(x)], identified) \in W
  \/ /\ AsksAt(x, cache[SideAt(x)], identified) /\ Len(x.taken) < n
     /\ AfterReplay(x, answers[Len(x.taken) + 1].value) \in W

\* x has read the metadata it goes by.
HasRead(x) ==
  SideAt(x) \in Sides /\ cache[SideAt(x)] # NoMetadata /\ Len(x.taken) \in Nat

\* The way the execution has come: all on it have gone on, only it may not have.
Way(W) ==
  /\ StartIn(identified) \in W /\ Exec \in W
  /\ \A x \in W \ {Exec} : HasRead(x) /\ GoesOn(x, W, Len(answers))

\* The way to the question of answer i: who comes it goes on, or asks that.
WayTo(i, W) ==
  /\ StartIn(identified) \in W
  /\ \A x \in W :
       /\ HasRead(x)
       /\ \/ GoesOn(x, W, i - 1)
          \/ /\ AsksAt(x, cache[SideAt(x)], identified)
             /\ Len(x.taken) = i - 1 /\ ResolverAt(x) = answers[i].question

\* The first i answers are to questions of the process that runs now.
Current(i) == \A j \in 1..i : answers[j].boot = restarts

\* The present execution is at the question it asked.
AtQuestion ==
  /\ HasRead(Exec) /\ AsksAt(Exec, cache[Side], identified)
  /\ Len(taken) = Len(answers) /\ asked.question = Resolver

BooksOK ==
  /\ restarts \in Nat
  /\ answers \in Seq(AnswerGiven) /\ taken \in Seq(Question)
  /\ Len(taken) <= Len(answers)
  /\ \A i \in 1..Len(answers) : answers[i].boot <= restarts
  /\ Waits => /\ step = "resolve_schema" /\ at \in 1..6
              /\ asked \in [question : Question, boot : 0..restarts]

\* Before its first execution a run has nothing to go by.
BeforeOK ==
  step \in {"identify", "select_source", "select_target"} =>
    /\ at = 1 /\ names = NoNames /\ taken = <<>> /\ answers = <<>>

WayOK ==
  /\ Runs => \E W : Way(W)
  /\ Waits /\ asked.boot = restarts => AtQuestion /\ \E W : Way(W)

WaysToOK ==
  \A i \in 1..Len(answers) :
    Current(i) => \E W : WayTo(i, W) /\ (Runs /\ Len(taken) < i => Exec \in W)

AnswerInv == BooksOK /\ BeforeOK /\ WayOK /\ WaysToOK /\ AnswersFitQuestions

\* What has been read stays, and so does the way over it.
LEMMA ReadStays ==
  ASSUME Held, NEW x, HasRead(x)
  PROVE  HasRead(x)' /\ cache'[SideAt(x)] = cache[SideAt(x)]
  BY DEF HasRead, Held, SideAt, ResolverAt

LEMMA WayToStays ==
  ASSUME Held, identified' = identified, NEW i \in Nat \ {0},
         \A j \in 1..i : answers'[j] = answers[j], NEW W, WayTo(i, W)
  PROVE  WayTo(i, W)'
<1>1. ASSUME NEW x \in W
      PROVE  /\ HasRead(x)'
             /\ \/ GoesOn(x, W, i - 1)'
                \/ /\ AsksAt(x, cache'[SideAt(x)], identified')
                   /\ Len(x.taken) = i - 1 /\ ResolverAt(x) = answers'[i].question
  <2>1. HasRead(x)
    BY DEF WayTo
  <2>2. HasRead(x)' /\ cache'[SideAt(x)] = cache[SideAt(x)]
    BY <2>1, ReadStays
  <2>3. Len(x.taken) \in Nat
    BY <2>1 DEF HasRead
  <2>4. CASE GoesOn(x, W, i - 1)
    <3>1. Len(x.taken) < i - 1 => answers'[Len(x.taken) + 1] = answers[Len(x.taken) + 1]
      BY <2>3
    <3> QED
      BY <2>2, <2>4, <3>1 DEF GoesOn
  <2>5. CASE ~GoesOn(x, W, i - 1)
    BY <2>2, <2>5 DEF WayTo
  <2> QED
    BY <2>2, <2>4, <2>5
<1>2. (StartIn(identified))' = StartIn(identified)
  BY DEF StartIn, FirstIn, JoinsIn
<1> QED
  BY <1>1, <1>2 DEF WayTo

\* Settling and asking exclude each other.
LEMMA OneWay ==
  ASSUME NEW x, NEW W, NEW n, NEW i, Exec \in W, WayTo(i, W), at \in 1..6
  PROVE  /\ SettlesAt(Exec, cache[Side], identified) =>
              AfterSettle(Exec, cache[Side], identified) \in W
         /\ AsksAt(Exec, cache[Side], identified) =>
              \/ Len(taken) = i - 1 /\ Resolver = answers[i].question
              \/ Len(taken) < i - 1 /\ AfterReplay(Exec, answers[Len(taken) + 1].value) \in W
<1>1. SideAt(Exec) = Side /\ ResolverAt(Exec) = Resolver /\ Exec.taken = taken
  BY ExecFields, ExecMatches
<1> QED
  BY <1>1 DEF WayTo, GoesOn, SettlesAt, AsksAt

\* The moves of the graph are the moves of executions.
LEMMA Reads ==
  ASSUME LiveInv, Settle \/ Replay \/ Pause
  PROVE  /\ at \in 1..6 /\ Held /\ Side \in Sides
         /\ cache'[Side] = Metadata(Side) /\ Metadata(Side) # NoMetadata
<1>1. Resolving /\ cache' = [cache EXCEPT ![Side] = Metadata(Side)] /\ service' = service
      /\ (~Needed \/ candidate \in Options \/ Options # {})
  BY DEF Settle, Replay, Pause, Unsettled, Accepted
<1>2. at \in 1..6 /\ status = "running"
  BY <1>1, Six DEF LiveInv, PositionOK, Resolving
<1>3. Held /\ Side \in Sides /\ cache'[Side] = Metadata(Side)
  BY <1>1, ReadHolds
<1>4. Metadata(Side) # NoMetadata
  <2>1. CASE at \in {1, 5}
    <3>1. Resolver.asks = "entity"
      BY <2>1, ResolverFacts DEF Resolver
    <3> QED
      BY <1>1, <3>1 DEF Needed, Options, Entities, NoMetadata
  <2>2. CASE at \in {2, 3, 4}
    <3>1. Side = "source"
      BY <2>2, ResolverFacts DEF Resolver, Side
    <3> QED
      BY <1>2, <2>2, <3>1 DEF LiveInv, FoundOK, Metadata, Entities, NoMetadata
  <2>3. CASE at = 6
    <3>1. Side = "target"
      BY <2>3, ResolverFacts DEF Resolver, Side
    <3> QED
      BY <1>2, <2>3, <3>1 DEF LiveInv, FoundOK, Metadata, Entities, NoMetadata
  <2> QED
    BY <1>2, <2>1, <2>2, <2>3
<1> QED
  BY <1>2, <1>3, <1>4

LEMMA SettleMoves ==
  ASSUME LiveInv, Settle
  PROVE  /\ SettlesAt(Exec, cache'[Side], identified)
         /\ Exec' = AfterSettle(Exec, cache'[Side], identified)
<1>1. at \in 1..6 /\ cache'[Side] = Metadata(Side)
  BY Reads
<1>2. /\ (Needed => candidate \in Options) /\ names' = Settled /\ at' = at + 1
      /\ candidate' = IF at + 1 = Resolved THEN NoName ELSE FirstTry(Resolvers[at + 1])
      /\ taken' = taken
  BY DEF Settle, Accepted
<1>3. SettlesAt(Exec, cache'[Side], identified)
  BY <1>1, <1>2, ExecMatches, ExecFields DEF SettlesAt
<1>4. \A r : FirstTry(r) = FirstIn(r, identified)
  BY DEF FirstTry, FirstIn, Joins, JoinsIn
<1>5. SettledAt(Exec, cache'[Side], identified) = names'
  BY <1>1, <1>2, ExecMatches
<1>6. Exec' = [at |-> at + 1,
               candidate |-> IF at + 1 = Resolved THEN NoName ELSE FirstIn(Resolvers[at + 1], identified),
               names |-> names', taken |-> taken]
  BY <1>2, <1>4 DEF Exec
<1> QED
  BY <1>3, <1>5, <1>6, ExecFields DEF AfterSettle

LEMMA AskMoves ==
  ASSUME LiveInv, Replay \/ Pause
  PROVE  AsksAt(Exec, cache'[Side], identified)
<1>1. at \in 1..6 /\ cache'[Side] = Metadata(Side)
  BY Reads
<1>2. Needed /\ candidate \notin Options
  BY DEF Replay, Pause, Unsettled, Accepted
<1> QED
  BY <1>1, <1>2, ExecMatches, ExecFields DEF AsksAt

LEMMA ReplayMoves ==
  ASSUME LiveInv, Replay
  PROVE  Exec' = AfterReplay(Exec, answers[Len(taken) + 1].value)
<1>1. at \in 1..6
  BY Reads
<1>2. ResolverAt(Exec) = Resolver
  BY <1>1, ExecMatches
<1> QED
  BY <1>2, ExecFields DEF AfterReplay, Replay, Exec

\* A move lengthens the way.
LEMMA WayGrows ==
  ASSUME Held, identified' = identified, answers' = answers, SideAt(Exec) = Side,
         Len(taken) \in Nat, Side \in Sides, cache'[Side] # NoMetadata, NEW W, Way(W),
         \/ /\ SettlesAt(Exec, cache'[Side], identified)
            /\ Exec' = AfterSettle(Exec, cache'[Side], identified)
         \/ /\ AsksAt(Exec, cache'[Side], identified) /\ Len(taken) < Len(answers)
            /\ Exec' = AfterReplay(Exec, answers[Len(taken) + 1].value)
  PROVE  (\E V : Way(V))'
<1>0. PICK V : V = W \union {Exec'}
  OBVIOUS
<1>1. (StartIn(identified))' \in V /\ Exec' \in V
  BY <1>0 DEF Way, StartIn, FirstIn, JoinsIn
<1>2. ASSUME NEW x \in V \ {Exec'}
      PROVE  /\ SideAt(x) \in Sides /\ cache'[SideAt(x)] # NoMetadata /\ Len(x.taken) \in Nat
             /\ \/ /\ SettlesAt(x, cache'[SideAt(x)], identified)
                   /\ AfterSettle(x, cache'[SideAt(x)], identified) \in V
                \/ /\ AsksAt(x, cache'[SideAt(x)], identified) /\ Len(x.taken) < Len(answers)
                   /\ AfterReplay(x, answers[Len(x.taken) + 1].value) \in V
  <2>1. CASE x = Exec
    BY <1>0, <1>1, <2>1, ExecFields
  <2>2. CASE x # Exec
    <3>1. HasRead(x) /\ GoesOn(x, W, Len(answers))
      BY <1>0, <2>2 DEF Way
    <3>2. cache'[SideAt(x)] = cache[SideAt(x)]
      BY <3>1, ReadStays
    <3> QED
      BY <1>0, <3>1, <3>2 DEF HasRead, GoesOn
  <2> QED
    BY <2>1, <2>2
<1>3. Way(V)'
  BY <1>1, <1>2 DEF Way, HasRead, GoesOn
<1> QED
  BY <1>3

\* Where an execution asked, the next ones of that process will.
LEMMA WayAnswered ==
  ASSUME UNCHANGED <<cache, identified>>, AnswerInv, AtQuestion, NEW W, Way(W),
         NEW a, answers' = Append(answers, a), a.question = asked.question,
         at \in 1..6, NEW n, n = Len(answers)
  PROVE  WayTo(n + 1, W)'
<1>1. answers \in Seq(AnswerGiven) /\ n \in Nat
  BY DEF AnswerInv, BooksOK
<1>2. /\ \A j \in 1..n : answers'[j] = answers[j]
      /\ answers'[n + 1] = a
  BY <1>1
<1>3. SideAt(Exec) = Side /\ ResolverAt(Exec) = Resolver /\ Exec.taken = taken
  BY ExecMatches, ExecFields
<1>4. ASSUME NEW x \in W
      PROVE  /\ HasRead(x)'
             /\ \/ /\ SettlesAt(x, cache[SideAt(x)], identified)
                   /\ AfterSettle(x, cache[SideAt(x)], identified) \in W
                \/ /\ AsksAt(x, cache[SideAt(x)], identified) /\ Len(x.taken) < n
                   /\ AfterReplay(x, answers'[Len(x.taken) + 1].value) \in W
                \/ /\ AsksAt(x, cache[SideAt(x)], identified)
                   /\ Len(x.taken) = n /\ ResolverAt(x) = answers'[n + 1].question
  <2>1. CASE x = Exec
    BY <1>2, <1>3, <2>1 DEF AtQuestion, HasRead
  <2>2. CASE x # Exec
    <3>1. HasRead(x) /\ GoesOn(x, W, n)
      BY <2>2 DEF Way
    <3>2. Len(x.taken) < n => answers'[Len(x.taken) + 1] = answers[Len(x.taken) + 1]
      BY <1>1, <1>2, <3>1 DEF HasRead
    <3> QED
      BY <3>1, <3>2 DEF HasRead, GoesOn
  <2> QED
    BY <2>1, <2>2
<1>5. (StartIn(identified))' = StartIn(identified) /\ StartIn(identified) \in W
  BY DEF StartIn, FirstIn, JoinsIn, Way
<1>6. (n + 1) - 1 = n
  BY <1>1
<1> QED
  BY <1>4, <1>5, <1>6 DEF WayTo, GoesOn

LEMMA WayStays ==
  ASSUME Held, identified' = identified, answers' = answers, Exec' = Exec, NEW W, Way(W)
  PROVE  Way(W)'
<1>1. ASSUME NEW x \in W \ {Exec}
      PROVE  HasRead(x)' /\ GoesOn(x, W, Len(answers))'
  <2>1. HasRead(x) /\ GoesOn(x, W, Len(answers))
    BY DEF Way
  <2>2. HasRead(x)' /\ cache'[SideAt(x)] = cache[SideAt(x)]
    BY <2>1, ReadStays
  <2> QED
    BY <2>1, <2>2 DEF GoesOn
<1>2. (StartIn(identified))' = StartIn(identified)
  BY DEF StartIn, FirstIn, JoinsIn
<1> QED
  BY <1>1, <1>2 DEF Way

LEMMA WaysToStay ==
  ASSUME AnswerInv, Held, UNCHANGED <<identified, answers, restarts>>,
         NEW i \in 1..Len(answers), Current(i)',
         \A W : WayTo(i, W) /\ (Runs /\ Len(taken) < i => Exec \in W) =>
                  (Runs /\ Len(taken) < i => Exec \in W)'
  PROVE  \E W : WayTo(i, W)' /\ (Runs /\ Len(taken) < i => Exec \in W)'
<1>1. Current(i)
  BY DEF Current
<1>2. PICK W : WayTo(i, W) /\ (Runs /\ Len(taken) < i => Exec \in W)
  BY <1>1 DEF AnswerInv, WaysToOK
<1>3. WayTo(i, W)'
  BY <1>2, WayToStays DEF AnswerInv, BooksOK
<1> QED
  BY <1>2, <1>3

\* A step that moves no execution.
LEMMA QuietAnswer ==
  ASSUME AnswerInv, Held, UNCHANGED <<identified, answers, execution, restarts>>,
         Runs' => Runs, Waits' => Waits /\ asked' = asked /\ step' = step,
         step' \in {"identify", "select_source", "select_target"} =>
           step \in {"identify", "select_source", "select_target"}
  PROVE  AnswerInv'
<1>1. Exec' = Exec /\ UNCHANGED <<at, candidate, names, taken>>
  BY DEF execution, Exec
<1>2. BooksOK'
  BY <1>1 DEF AnswerInv, BooksOK
<1>3. BeforeOK'
  BY <1>1 DEF AnswerInv, BeforeOK
<1>4. ASSUME \E W : Way(W) PROVE (\E W : Way(W))'
  <2>1. PICK W : Way(W)
    BY <1>4
  <2>2. Way(W)'
    BY <1>1, <2>1, WayStays
  <2> QED
    BY <2>2
<1>5. Waits /\ asked' = asked /\ AtQuestion => AtQuestion'
  <2> SUFFICES ASSUME Waits, asked' = asked, AtQuestion PROVE AtQuestion'
    OBVIOUS
  <2>1. at \in 1..6
    BY DEF AnswerInv, BooksOK
  <2>2. SideAt(Exec) = Side /\ Side' = Side /\ Resolver' = Resolver
    BY <1>1, <2>1, ExecMatches DEF Side, Resolver
  <2>3. PICK e : e = Exec
    OBVIOUS
  <2>4. HasRead(e)' /\ cache'[SideAt(e)] = cache[SideAt(e)]
    BY <2>3, ReadStays DEF AtQuestion
  <2> QED
    BY <1>1, <2>2, <2>3, <2>4 DEF AtQuestion
<1>6. WayOK'
  BY <1>4, <1>5 DEF AnswerInv, WayOK
<1>7. WaysToOK'
  <2>1. ASSUME NEW i \in 1..Len(answers), Current(i)'
        PROVE  \E W : WayTo(i, W)' /\ (Runs /\ Len(taken) < i => Exec \in W)'
    BY <1>1, <2>1, WaysToStay
  <2> QED
    BY <2>1 DEF WaysToOK
<1>8. AnswersFitQuestions'
  BY <1>1 DEF AnswerInv, AnswersFitQuestions
<1> QED
  BY <1>2, <1>3, <1>6, <1>7, <1>8 DEF AnswerInv

\* After a restart no answer is to a question of the process that runs.
LEMMA RestartAnswer == AnswerInv /\ Restart => AnswerInv'
<1> SUFFICES ASSUME AnswerInv, Restart PROVE AnswerInv'
  OBVIOUS
<1>1. UNCHANGED <<at, candidate, names, taken, identified, step, asked, answers>>
      /\ restarts' = restarts + 1 /\ status' = IF status = "running" THEN "failed" ELSE status
  BY DEF Restart, execution
<1>2. BooksOK'
  <2>1. restarts \in Nat /\ \A n \in 0..restarts : n \in 0..(restarts + 1)
    BY DEF AnswerInv, BooksOK
  <2>2. ASSUME Waits'
        PROVE  step = "resolve_schema" /\ at \in 1..6 /\ asked \in [question : Question, boot : 0..restarts']
    BY <1>1, <2>1, <2>2 DEF AnswerInv, BooksOK, Waits
  <2>3. \A n \in 1..Len(answers) : answers[n].boot <= restarts'
    <3>1. ASSUME NEW n \in 1..Len(answers) PROVE answers[n].boot \in Nat /\ answers[n].boot <= restarts
      <4>1. answers[n] \in AnswerGiven /\ answers[n].boot <= restarts
        BY DEF AnswerInv, BooksOK
      <4> QED
        BY <4>1 DEF AnswerGiven
    <3> QED
      BY <1>1, <2>1, <3>1
  <2>4. UNCHANGED <<answers, taken, step, at, asked>> /\ restarts' \in Nat
    BY <1>1, <2>1
  <2> QED
    BY <2>2, <2>3, <2>4 DEF AnswerInv, BooksOK
<1>3. BeforeOK'
  BY <1>1 DEF AnswerInv, BeforeOK
<1>4. WayOK'
  BY <1>1 DEF AnswerInv, BooksOK, WayOK, Runs, Waits
<1>5. ASSUME NEW i \in 1..Len(answers)
      PROVE  answers'[1].boot # restarts' /\ 1 \in 1..i
  BY <1>1, <1>5 DEF AnswerInv, BooksOK
<1>6. WaysToOK'
  BY <1>1, <1>5 DEF WaysToOK, Current
<1>7. AnswersFitQuestions'
  <2>1. DOMAIN taken = 1..Len(taken) /\ 1..Len(taken) \subseteq 1..Len(answers)
    BY DEF AnswerInv, BooksOK
  <2> QED
    BY <1>1, <1>5, <2>1 DEF AnswersFitQuestions
<1> QED
  BY <1>2, <1>3, <1>4, <1>6, <1>7 DEF AnswerInv

\* A new execution starts the way to every question.
LEMMA StartAnswer ==
  ASSUME BooksOK', Runs', Exec' = StartIn(identified)', Len(taken') = 0,
         \A i \in 1..Len(answers') : Current(i)' => (\E W : WayTo(i, W))'
  PROVE  WayOK' /\ WaysToOK' /\ AnswersFitQuestions'
<1>1. WayOK'
  <2>1. PICK e : e = Exec'
    OBVIOUS
  <2>2. Way({e})'
    BY <2>1 DEF Way
  <2> QED
    BY <2>2 DEF WayOK, Runs, Waits
<1>2. WaysToOK'
  BY DEF WaysToOK, WayTo
<1>3. AnswersFitQuestions'
  <2>1. DOMAIN taken' = {}
    BY DEF BooksOK
  <2> QED
    BY <2>1 DEF AnswersFitQuestions
<1> QED
  BY <1>1, <1>2, <1>3

LEMMA SelectTargetAnswer == AnswerInv /\ SelectTarget => AnswerInv'
<1> SUFFICES ASSUME AnswerInv, SelectTarget PROVE AnswerInv'
  OBVIOUS
<1>1. status = "running" /\ step = "select_target"
      /\ UNCHANGED <<world, at, names, taken, identified, answers, asked>>
  BY DEF SelectTarget, SelectSide
<1>2. at = 1 /\ names = NoNames /\ taken = <<>> /\ answers = <<>>
  BY <1>1 DEF AnswerInv, BeforeOK
<1>3. ~Waits
  BY <1>1 DEF Waits
<1>4. CASE identified["target"].entities = <<>>
  <2>1. candidate' = candidate /\ step' = step /\ status' = "failed"
    BY <1>4 DEF SelectTarget, SelectSide, Fail
  <2> QED
    BY <1>1, <2>1, QuietAnswer DEF Held, world, execution, Runs, Waits
<1>5. CASE identified["target"].entities # <<>>
  <2>1. candidate' = FirstTry(Resolvers[1]) /\ step' = "resolve_schema" /\ status' = "running"
    BY <1>1, <1>5 DEF SelectTarget, SelectSide
  <2>2. BooksOK'
    BY <1>1, <1>2, <2>1 DEF AnswerInv, BooksOK, world, Waits
  <2>3. BeforeOK'
    BY <2>1 DEF BeforeOK
  <2>4. Exec' = StartIn(identified)'
    BY <1>1, <1>2, <2>1 DEF Exec, StartIn, FirstTry, FirstIn, Joins, JoinsIn
  <2>5. Len(answers') = 0 /\ Len(taken') = 0
    BY <1>1, <1>2
  <2> QED
    BY <2>1, <2>2, <2>3, <2>4, <2>5, StartAnswer DEF Runs, AnswerInv
<1> QED
  BY <1>4, <1>5

LEMMA SettleAnswer == LiveInv /\ AnswerInv /\ Settle => AnswerInv'
<1> SUFFICES ASSUME LiveInv, AnswerInv, Settle PROVE AnswerInv'
  OBVIOUS
<1>1. at \in 1..6 /\ Held /\ Side \in Sides /\ cache'[Side] # NoMetadata
  BY Reads
<1>2. SettlesAt(Exec, cache'[Side], identified) /\ Exec' = AfterSettle(Exec, cache'[Side], identified)
  BY SettleMoves
<1>3. UNCHANGED <<restarts, taken, identified, step, status, asked, answers>> /\ Runs
  BY DEF Settle, Resolving, Runs
<1>4. SideAt(Exec) = Side
  BY <1>1, ExecMatches
<1>5. BooksOK'
  BY <1>3 DEF AnswerInv, BooksOK, Waits, Runs
<1>6. BeforeOK'
  BY <1>3 DEF BeforeOK, Runs
<1>7. WayOK'
  <2>1. PICK W : Way(W)
    BY <1>3 DEF AnswerInv, WayOK
  <2>2. Len(taken) \in Nat
    BY DEF AnswerInv, BooksOK
  <2>3. (\E V : Way(V))'
    BY <1>1, <1>2, <1>3, <1>4, <2>1, <2>2, WayGrows
  <2> QED
    BY <1>3, <2>3 DEF WayOK, Runs, Waits
<1>8. WaysToOK'
  <2>1. ASSUME NEW i \in 1..Len(answers), NEW W, WayTo(i, W), Runs /\ Len(taken) < i => Exec \in W
        PROVE  (Runs /\ Len(taken) < i => Exec \in W)'
    <3>1. SUFFICES ASSUME Len(taken) < i PROVE Exec' \in W
      BY <1>3
    <3>2. Exec \in W
      BY <1>3, <2>1, <3>1
    <3>3. HasRead(Exec)
      BY <2>1, <3>2 DEF WayTo
    <3>4. cache'[Side] = cache[Side]
      BY <1>1, <1>4, <3>3 DEF HasRead, Held
    <3> QED
      BY <1>1, <1>2, <2>1, <3>2, <3>4, OneWay
  <2>2. ASSUME NEW i \in 1..Len(answers), Current(i)'
        PROVE  \E W : WayTo(i, W)' /\ (Runs /\ Len(taken) < i => Exec \in W)'
    BY <1>1, <1>3, <2>1, <2>2, WaysToStay
  <2> QED
    BY <1>3, <2>2 DEF WaysToOK
<1>9. AnswersFitQuestions'
  BY <1>3 DEF AnswerInv, AnswersFitQuestions
<1> QED
  BY <1>5, <1>6, <1>7, <1>8, <1>9 DEF AnswerInv

\* An execution that asks what an earlier one asked, of the same process, asks
\* the same question.
LEMMA ReplayAnswer == LiveInv /\ AnswerInv /\ Replay => AnswerInv'
<1> SUFFICES ASSUME LiveInv, AnswerInv, Replay PROVE AnswerInv'
  OBVIOUS
<1>1. at \in 1..6 /\ Held /\ Side \in Sides /\ cache'[Side] # NoMetadata
  BY Reads
<1>2. AsksAt(Exec, cache'[Side], identified)
      /\ Exec' = AfterReplay(Exec, answers[Len(taken) + 1].value)
  BY AskMoves, ReplayMoves
<1>3. UNCHANGED <<restarts, at, names, identified, step, status, asked, answers>> /\ Runs
      /\ Len(taken) < Len(answers) /\ taken' = Append(taken, Resolver)
  BY DEF Replay, Unsettled, Resolving, Runs
<1>4. SideAt(Exec) = Side
  BY <1>1, ExecMatches
<1>5. taken \in Seq(Question) /\ Resolver \in Question /\ Len(taken) \in Nat
      /\ answers \in Seq(AnswerGiven) /\ Len(answers) \in Nat
  BY <1>1 DEF AnswerInv, BooksOK, Question, Resolver
<1>6. /\ taken' \in Seq(Question) /\ Len(taken') = Len(taken) + 1
      /\ \A i \in 1..Len(taken) : taken'[i] = taken[i]
      /\ taken'[Len(taken) + 1] = Resolver
  BY <1>3, <1>5
<1>7. BooksOK'
  BY <1>3, <1>5, <1>6 DEF AnswerInv, BooksOK, Waits, Runs
<1>8. BeforeOK'
  BY <1>3 DEF BeforeOK, Runs
<1>9. WayOK'
  <2>1. PICK W : Way(W)
    BY <1>3 DEF AnswerInv, WayOK
  <2>2. (\E V : Way(V))'
    BY <1>1, <1>2, <1>3, <1>4, <1>5, <2>1, WayGrows
  <2> QED
    BY <1>3, <2>2 DEF WayOK, Runs, Waits
<1>10. ASSUME NEW i \in 1..Len(answers), NEW W, WayTo(i, W), Exec \in W
       PROVE  \/ Len(taken) = i - 1 /\ Resolver = answers[i].question
              \/ Len(taken) < i - 1 /\ Exec' \in W
  <2>1. HasRead(Exec)
    BY <1>10 DEF WayTo
  <2>2. cache'[Side] = cache[Side]
    BY <1>1, <1>4, <2>1 DEF HasRead, Held
  <2> QED
    BY <1>1, <1>2, <1>10, <2>2, OneWay
<1>11. WaysToOK'
  <2>1. ASSUME NEW i \in 1..Len(answers), NEW W, WayTo(i, W), Runs /\ Len(taken) < i => Exec \in W
        PROVE  (Runs /\ Len(taken) < i => Exec \in W)'
    <3>1. SUFFICES ASSUME Len(taken) + 1 < i PROVE Exec' \in W
      BY <1>3, <1>6
    <3>2. Exec \in W
      BY <1>3, <1>5, <2>1, <3>1
    <3> QED
      BY <1>5, <1>10, <2>1, <3>1, <3>2
  <2>2. ASSUME NEW i \in 1..Len(answers), Current(i)'
        PROVE  \E W : WayTo(i, W)' /\ (Runs /\ Len(taken) < i => Exec \in W)'
    BY <1>1, <1>3, <2>1, <2>2, WaysToStay
  <2> QED
    BY <1>3, <2>2 DEF WaysToOK
<1>12. AnswersFitQuestions'
  <2>1. ASSUME NEW i \in 1..(Len(taken) + 1), Current(i)
        PROVE  taken'[i] = answers[i].question
    <3>1. CASE i \in 1..Len(taken)
      <4>1. i \in DOMAIN taken
        BY <1>5, <3>1
      <4> QED
        BY <1>6, <2>1, <3>1, <4>1 DEF AnswerInv, AnswersFitQuestions, Current
    <3>2. CASE i = Len(taken) + 1
      <4>1. i \in 1..Len(answers) /\ Len(taken) < i
        BY <1>3, <1>5, <3>2
      <4>2. PICK W : WayTo(i, W) /\ (Runs /\ Len(taken) < i => Exec \in W)
        BY <2>1, <4>1 DEF AnswerInv, WaysToOK
      <4>3. Resolver = answers[i].question
        BY <1>3, <1>5, <1>10, <3>2, <4>1, <4>2
      <4> QED
        BY <1>6, <3>2, <4>3
    <3> QED
      BY <1>5, <2>1, <3>1, <3>2
  <2>2. DOMAIN taken' = 1..(Len(taken) + 1)
    BY <1>5, <1>6
  <2> QED
    BY <1>3, <2>1, <2>2 DEF AnswersFitQuestions, Current
<1> QED
  BY <1>7, <1>8, <1>9, <1>11, <1>12 DEF AnswerInv

LEMMA PauseAnswer == LiveInv /\ AnswerInv /\ Pause => AnswerInv'
<1> SUFFICES ASSUME LiveInv, AnswerInv, Pause PROVE AnswerInv'
  OBVIOUS
<1>1. at \in 1..6 /\ Held /\ Side \in Sides /\ cache'[Side] # NoMetadata
  BY Reads
<1>2. AsksAt(Exec, cache'[Side], identified)
  BY AskMoves
<1>3. UNCHANGED <<restarts, execution, identified, step, answers>> /\ Runs /\ Waits'
      /\ Len(taken) = Len(answers) /\ asked' = [question |-> Resolver, boot |-> restarts]
  BY DEF Pause, Unsettled, Resolving, Runs, Waits
<1>4. UNCHANGED <<at, candidate, names, taken>> /\ Exec' = Exec
  BY <1>3 DEF execution, Exec
<1>5. SideAt(Exec) = Side /\ Resolver' = Resolver /\ Side' = Side
  BY <1>1, <1>4, ExecMatches DEF Resolver, Side
<1>6. Resolver \in Question
  BY <1>1 DEF Question, Resolver
<1>7. BooksOK'
  <2>1. restarts \in Nat /\ restarts \in 0..restarts
    BY DEF AnswerInv, BooksOK
  <2>2. asked' \in [question : Question, boot : 0..restarts]
    BY <1>3, <1>6, <2>1
  <2> QED
    BY <1>1, <1>3, <1>4, <2>2 DEF AnswerInv, BooksOK, Runs
<1>8. BeforeOK'
  BY <1>3 DEF BeforeOK, Runs
<1>9. WayOK'
  <2>1. PICK W : Way(W)
    BY <1>3 DEF AnswerInv, WayOK
  <2>2. Way(W)'
    BY <1>1, <1>3, <1>4, <2>1, WayStays
  <2>3. Len(taken) \in Nat
    BY DEF AnswerInv, BooksOK
  <2>4. (HasRead(Exec))' /\ AsksAt(Exec, cache[Side], identified)'
    BY <1>1, <1>2, <1>3, <1>4, <1>5, <2>3, ExecFields DEF HasRead
  <2>5. AtQuestion'
    BY <1>3, <1>4, <1>5, <2>4 DEF AtQuestion
  <2> QED
    BY <1>3, <2>2, <2>5 DEF WayOK, Runs, Waits
<1>10. WaysToOK'
  <2>1. ~Runs'
    BY <1>3 DEF Runs, Waits
  <2>2. ASSUME NEW i \in 1..Len(answers), Current(i)'
        PROVE  \E W : WayTo(i, W)' /\ (Runs /\ Len(taken) < i => Exec \in W)'
    BY <1>1, <1>3, <2>1, <2>2, WaysToStay
  <2> QED
    BY <1>3, <2>2 DEF WaysToOK
<1>11. AnswersFitQuestions'
  BY <1>3, <1>4 DEF AnswerInv, AnswersFitQuestions
<1> QED
  BY <1>7, <1>8, <1>9, <1>10, <1>11 DEF AnswerInv

\* The answer opens the next execution, and closes the way to its question.
LEMMA AnswerAnswer == ASSUME NEW v \in Value PROVE AnswerInv /\ Answer(v) => AnswerInv'
<1> SUFFICES ASSUME AnswerInv, Answer(v) PROVE AnswerInv'
  OBVIOUS
<1>0. PICK n : n = Len(answers)
  OBVIOUS
<1>1. UNCHANGED <<service, cache, changes, restarts, identified, step>> /\ Waits /\ status' = "running"
      /\ answers' = Append(answers, Given(v))
      /\ at' = 1 /\ candidate' = FirstTry(Resolvers[1]) /\ names' = NoNames /\ taken' = <<>>
  BY DEF Answer, Waits, world
<1>2. /\ step = "resolve_schema" /\ at \in 1..6 /\ asked \in [question : Question, boot : 0..restarts]
      /\ answers \in Seq(AnswerGiven) /\ restarts \in Nat /\ n \in Nat
  BY <1>0, <1>1 DEF AnswerInv, BooksOK
<1>3. asked.question \in Question /\ asked.boot \in Nat /\ asked.boot <= restarts
      /\ asked = [question |-> asked.question, boot |-> asked.boot]
  BY <1>2
<1>4. PICK a : a = [question |-> asked.question, boot |-> asked.boot, value |-> v]
  OBVIOUS
<1>5. Given(v) = a
  BY <1>4 DEF Given
<1>6. a \in AnswerGiven /\ a.boot = asked.boot /\ a.question = asked.question
  BY <1>3, <1>4 DEF AnswerGiven
<1>7. /\ answers' \in Seq(AnswerGiven) /\ Len(answers') = n + 1 /\ answers'[n + 1] = a
      /\ \A j \in 1..n : answers'[j] = answers[j]
  BY <1>0, <1>1, <1>2, <1>5, <1>6
<1>8. Exec' = StartIn(identified)' /\ Runs'
  BY <1>1, <1>2 DEF Exec, StartIn, FirstTry, FirstIn, Joins, JoinsIn, Runs
<1>9. BooksOK'
  <2>1. \A i \in 1..n : answers[i].boot <= restarts
    BY <1>0 DEF AnswerInv, BooksOK
  <2>2. \A i \in 1..(n + 1) : answers'[i].boot <= restarts
    BY <1>2, <1>3, <1>6, <1>7, <2>1
  <2>3. taken' \in Seq(Question) /\ Len(taken') = 0 /\ ~Waits'
    BY <1>1 DEF Waits
  <2> QED
    BY <1>1, <1>2, <1>7, <2>2, <2>3 DEF BooksOK
<1>10. BeforeOK'
  BY <1>1, <1>2 DEF BeforeOK
<1>11. ASSUME NEW i \in 1..Len(answers'), Current(i)'
       PROVE  (\E W : WayTo(i, W))'
  <2>1. CASE i \in 1..n
    <3>1. Current(i)
      BY <1>1, <1>2, <1>7, <1>11, <2>1 DEF Current
    <3>2. PICK W : WayTo(i, W)
      BY <1>0, <2>1, <3>1 DEF AnswerInv, WaysToOK
    <3>3. Held /\ i \in Nat \ {0} /\ \A j \in 1..i : answers'[j] = answers[j]
      BY <1>1, <1>2, <1>7, <2>1 DEF Held
    <3>4. WayTo(i, W)'
      BY <1>1, <3>2, <3>3, WayToStays
    <3> QED
      BY <3>4
  <2>2. CASE i = n + 1
    <3>1. answers'[n + 1].boot = restarts'
      BY <1>2, <1>11, <2>2 DEF Current
    <3>2. asked.boot = restarts
      BY <1>1, <1>6, <1>7, <3>1
    <3>3. AtQuestion
      BY <1>1, <3>2 DEF AnswerInv, WayOK
    <3>4. PICK W : Way(W)
      BY <1>1, <3>2 DEF AnswerInv, WayOK
    <3>5. WayTo(n + 1, W)'
      BY <1>0, <1>1, <1>2, <1>5, <1>6, <3>3, <3>4, WayAnswered
    <3> QED
      BY <2>2, <3>5
  <2> QED
    BY <1>2, <1>7, <1>11, <2>1, <2>2
<1>12. Len(taken') = 0
  BY <1>1
<1> QED
  BY <1>8, <1>9, <1>10, <1>11, <1>12, StartAnswer DEF AnswerInv

\* Nothing is on the way before the first execution.
LEMMA EarlyAnswer ==
  ASSUME AnswerInv, UNCHANGED <<restarts, at, names, taken, asked, answers>>,
         step \in {"identify", "select_source"},
         step' \in {"identify", "select_source", "select_target"},
         Waits' => Waits
  PROVE  AnswerInv'
<1>1. taken = <<>> /\ answers = <<>> /\ BeforeOK' /\ ~Waits
  BY DEF AnswerInv, BooksOK, BeforeOK
<1>2. BooksOK'
  BY <1>1 DEF AnswerInv, BooksOK
<1>3. WayOK' /\ WaysToOK'
  BY <1>1 DEF WayOK, WaysToOK, Runs, Waits
<1>4. AnswersFitQuestions'
  BY <1>1 DEF AnswersFitQuestions
<1> QED
  BY <1>1, <1>2, <1>3, <1>4 DEF AnswerInv

LEMMA NextAnswer == LiveInv /\ AnswerInv /\ [Next]_vars => AnswerInv'
<1> SUFFICES ASSUME LiveInv, AnswerInv, [Next]_vars PROVE AnswerInv'
  OBVIOUS
<1>1. ASSUME NEW s \in Sides, Change(s) PROVE AnswerInv'
  <2>1. UNCHANGED <<cache, restarts, execution, identified, step, status, asked, answers>>
    BY <1>1 DEF Change
  <2>2. Held
    BY <1>1, <2>1 DEF Held, Change
  <2> QED
    BY <2>1, <2>2, QuietAnswer DEF Runs, Waits
<1>2. CASE Restart
  BY <1>2, RestartAnswer
<1>3. CASE IdentifySystems
  BY <1>3, EarlyAnswer DEF IdentifySystems, execution, Waits
<1>4. CASE StartRun
  BY <1>4, EarlyAnswer DEF StartRun, world, execution, Waits
<1>5. CASE SelectSource
  BY <1>5, EarlyAnswer DEF SelectSource, SelectSide, Fail, world, Waits
<1>6. CASE SelectTarget
  BY <1>6, SelectTargetAnswer
<1>7. CASE Settle
  BY <1>7, SettleAnswer
<1>8. CASE Replay
  BY <1>8, ReplayAnswer
<1>9. CASE Pause
  BY <1>9, PauseAnswer
<1>10. CASE GiveUp
  <2>1. Resolving /\ cache' = [cache EXCEPT ![Side] = Metadata(Side)]
        /\ UNCHANGED <<service, restarts, execution, identified, step, asked, answers>>
        /\ status' = "failed"
    BY <1>10 DEF GiveUp, Fail
  <2>2. Held
    BY <2>1, ReadHolds
  <2> QED
    BY <2>1, <2>2, QuietAnswer DEF Runs, Waits
<1>11. ASSUME NEW v \in Value, Answer(v) PROVE AnswerInv'
  BY <1>11, AnswerAnswer
<1>12. CASE ResolveRoles \/ CompileContract \/ PlanDateBatches
  <2>1. UNCHANGED <<world, execution, identified, asked, answers>> /\ status = "running"
        /\ status' \in {"running", "failed"}
        /\ step \in {"resolve_schema", "compile_contract", "plan_date_batches"}
        /\ step' \in {step, "compile_contract", "plan_date_batches", "run_batches"}
    BY <1>12 DEF ResolveRoles, CompileContract, PlanDateBatches, Fail
  <2>2. Held /\ restarts' = restarts
    BY <2>1 DEF Held, world
  <2> QED
    BY <2>1, <2>2, QuietAnswer DEF Runs, Waits
<1>13. CASE UNCHANGED vars
  <2>1. UNCHANGED <<world, execution, identified, step, status, asked, answers>>
    BY <1>13 DEF vars
  <2>2. Held /\ restarts' = restarts
    BY <2>1 DEF Held, world
  <2> QED
    BY <2>1, <2>2, QuietAnswer DEF Runs, Waits
<1> QED
  BY <1>1, <1>2, <1>3, <1>4, <1>5, <1>6, <1>7, <1>8, <1>9, <1>10, <1>11, <1>12, <1>13 DEF Next, Value

LEMMA InitAnswer == Init => AnswerInv
<1> SUFFICES ASSUME Init PROVE AnswerInv
  OBVIOUS
<1>1. taken = <<>> /\ answers = <<>> /\ restarts = 0 /\ at = 1 /\ names = NoNames
      /\ status = "created" /\ step = "identify"
  BY DEF Init
<1>2. BooksOK
  BY <1>1 DEF BooksOK, Waits
<1>3. BeforeOK /\ WayOK /\ WaysToOK /\ AnswersFitQuestions
  BY <1>1 DEF BeforeOK, WayOK, WaysToOK, AnswersFitQuestions, Runs, Waits
<1> QED
  BY <1>2, <1>3 DEF AnswerInv

\* An answer goes to the question it was asked for, however often resolve_schema
\* runs again from its start: within a process the metadata it has read does not
\* change, so every execution comes to that question the way the first one did.
THEOREM AnswersFitQuestionsHolds == Spec => []AnswersFitQuestions
<1>1. Spec => [](LiveInv /\ AnswerInv)
  <2>1. Init => LiveInv /\ AnswerInv
    BY InitLive, InitAnswer
  <2>2. LiveInv /\ AnswerInv /\ [Next]_vars => (LiveInv /\ AnswerInv)'
    BY NextLive, NextAnswer
  <2> QED
    BY <2>1, <2>2, PTL DEF Spec
<1>2. AnswerInv => AnswersFitQuestions
  BY DEF AnswerInv
<1> QED
  BY <1>1, <1>2, PTL

------------------------------------------------------------------------------
(* What the sheet is taken to say.                                         *)

\* The sequence of a finite set has its elements.
LEMMA ElementsOfSeq ==
  ASSUME NEW S, IsFiniteSet(S)
  PROVE  SetToSeq(S) \in Seq(S)
<1> DEFINE n == Cardinality(S)
           s == SetToSeq(S)
<1>1. n \in Nat /\ ExistsBijection(1..n, S)
  BY FS_CardinalityType
<1>2. PICK f \in [1..n -> S] : IsInjective(f)
  BY <1>1 DEF ExistsBijection, Bijection, Injection, IsInjective
<1>3. s \in [1..n -> S]
  BY <1>2 DEF SetToSeq
<1> HIDE DEF s, n
<1> QED
  BY <1>1, <1>3 DEF s

\* Of some numbers one is the smallest.
LEMMA Smallest ==
  ASSUME NEW T, T \subseteq Nat, T # {}
  PROVE  \E x \in T : \A y \in T : x <= y
<1> DEFINE Below == {0..x : x \in T}
<1>1. IsWellFoundedOn(StrictSubsetOrdering(Nat), FiniteSubsetsOf(Nat))
  BY FS_StrictSubsetOrderingWellFounded
<1>2. Below \subseteq FiniteSubsetsOf(Nat) /\ Below # {}
  <2>1. \A x \in T : 0..x \in SUBSET Nat /\ IsFiniteSet(0..x)
    BY FS_Interval
  <2> QED
    BY <2>1 DEF FiniteSubsetsOf
<1>3. PICK B \in Below : \A C \in Below : ~ (<<C, B>> \in StrictSubsetOrdering(Nat))
  BY <1>1, <1>2, WFMin
<1>4. PICK x \in T : B = 0..x
  BY <1>3
<1>5. ASSUME NEW y \in T PROVE x <= y
  <2>1. SUFFICES ASSUME y < x PROVE FALSE
    OBVIOUS
  <2>2. 0..y \subseteq 0..x /\ 0..y # 0..x /\ 0..x \in SUBSET Nat /\ 0..y \in SUBSET Nat
    <3>1. x \in Nat /\ y \in Nat /\ x \in 0..x /\ x \notin 0..y
      BY <2>1
    <3> QED
      BY <2>1, <3>1
  <2>3. <<0..y, 0..x>> \in StrictSubsetOrdering(Nat)
    BY <2>2 DEF StrictSubsetOrdering
  <2> QED
    BY <1>3, <1>4, <2>3
<1> QED
  BY <1>5

\* The names kept after each name of a claim.
LEMMA KeptExists ==
  ASSUME NEW named, Len(named) \in Nat, NEW metadata
  PROVE  \E f : /\ f = [i \in 0..Len(named) |->
                          IF i = 0 THEN <<>>
                          ELSE IF named[i] \in Entities(metadata) \ ToSet(f[i - 1])
                               THEN Append(f[i - 1], named[i]) ELSE f[i - 1]]
                /\ Live(named, metadata) = f[Len(named)]
<1> DEFINE Turn(f, i) == IF i = 0 THEN <<>>
                         ELSE IF named[i] \in Entities(metadata) \ ToSet(f[i - 1])
                              THEN Append(f[i - 1], named[i]) ELSE f[i - 1]
           Kept(k) == \E f : f = [i \in 0..k |-> Turn(f, i)]
<1>1. ASSUME NEW k \in Nat, ~Kept(k) PROVE FALSE
  <2> DEFINE W == {j \in Nat : ~Kept(j)}
  <2>1. PICK j \in W : \A i \in W : j <= i
    <3> HIDE DEF Kept
    <3> QED
      BY <1>1, Smallest
  <2>2. CASE j = 0
    <3> DEFINE g == [i \in 0..0 |-> <<>>]
    <3>1. g = [i \in 0..0 |-> Turn(g, i)]
      OBVIOUS
    <3> QED
      BY <2>1, <2>2, <3>1
  <2>3. CASE j # 0
    <3>1. j - 1 \in Nat /\ j \in Nat /\ Kept(j - 1)
      <4> HIDE DEF Kept
      <4> QED
        BY <2>1, <2>3
    <3>2. PICK h : h = [i \in 0..(j - 1) |-> Turn(h, i)]
      BY <3>1
    <3> DEFINE g == [i \in 0..j |-> IF i = j THEN Turn(h, j) ELSE h[i]]
    <3>3. ASSUME NEW i \in 0..j PROVE g[i] = Turn(g, i)
      <4>0. \A n \in 0..(j - 1) : g[n] = h[n]
        BY <3>1
      <4>1. CASE i = j
        <5>1. g[j] = Turn(h, j) /\ g[j - 1] = h[j - 1]
          BY <3>1, <4>0
        <5> HIDE DEF g
        <5> QED
          BY <4>1, <5>1
      <4>2. CASE i # j
        <5>1. i \in 0..(j - 1) /\ g[i] = h[i]
          BY <3>1, <4>2
        <5>2. i # 0 => g[i - 1] = h[i - 1]
          BY <3>1, <5>1
        <5>3. h[i] = Turn(h, i)
          BY <3>2, <5>1
        <5> HIDE DEF g
        <5> QED
          BY <5>1, <5>2, <5>3
      <4> QED
        BY <4>1, <4>2
    <3>4. g = [i \in 0..j |-> Turn(g, i)]
      <4>1. g = [i \in 0..j |-> g[i]]
        OBVIOUS
      <4> HIDE DEF g, Turn
      <4> QED
        BY <3>3, <4>1
    <3> QED
      BY <2>1, <3>4
  <2> QED
    BY <2>2, <2>3
<1>2. \E f : f = [i \in 0..Len(named) |-> Turn(f, i)]
  BY <1>1
<1>3. PICK f : f = CHOOSE g : g = [i \in 0..Len(named) |-> Turn(g, i)]
  OBVIOUS
<1>4. f = [i \in 0..Len(named) |-> Turn(f, i)]
  BY <1>2, <1>3
<1>5. Live(named, metadata) = f[Len(named)]
  BY <1>3 DEF Live
<1> QED
  BY <1>4, <1>5

\* What is kept was claimed, and exists.
LEMMA LiveIsNamed ==
  ASSUME NEW named, NEW metadata, named \in Seq(Range(named))
  PROVE  Live(named, metadata) \in Seq(Entities(metadata) \intersect ToSet(named))
<1> DEFINE S == Entities(metadata) \intersect ToSet(named)
<1>0. Len(named) \in Nat /\ DOMAIN named = 1..Len(named)
  OBVIOUS
<1>1. PICK f : /\ f = [i \in 0..Len(named) |->
                         IF i = 0 THEN <<>>
                         ELSE IF named[i] \in Entities(metadata) \ ToSet(f[i - 1])
                              THEN Append(f[i - 1], named[i]) ELSE f[i - 1]]
               /\ Live(named, metadata) = f[Len(named)]
  BY <1>0, KeptExists
<1>2. ASSUME NEW k \in 0..Len(named), f[k] \notin Seq(S) PROVE FALSE
  <2> DEFINE W == {n \in 0..Len(named) : f[n] \notin Seq(S)}
  <2>1. PICK j \in W : \A i \in W : j <= i
    <3>1. W \subseteq Nat /\ W # {}
      BY <1>2
    <3> HIDE DEF W
    <3> QED
      BY <3>1, Smallest
  <2>2. j # 0 /\ j \in 1..Len(named)
    <3>1. f[0] = <<>> /\ <<>> \in Seq(S)
      BY <1>0, <1>1
    <3>2. j \in 0..Len(named) /\ f[j] \notin Seq(S)
      BY <2>1
    <3>3. j # 0
      BY <3>1, <3>2
    <3> QED
      BY <1>0, <3>2, <3>3
  <2>3. f[j - 1] \in Seq(S)
    BY <1>0, <2>1, <2>2
  <2>4. named[j] \in ToSet(named)
    BY <1>0, <2>2 DEF ToSet
  <2>5. f[j] \in {f[j - 1], Append(f[j - 1], named[j])}
        /\ (f[j] # f[j - 1] => named[j] \in Entities(metadata))
    BY <1>0, <1>1, <2>2
  <2>6. f[j] \in Seq(S)
    <3>1. CASE f[j] = f[j - 1]
      BY <2>3, <3>1
    <3>2. CASE f[j] # f[j - 1]
      <4>1. named[j] \in S
        BY <2>4, <2>5, <3>2
      <4>2. f[j] = Append(f[j - 1], named[j])
        BY <2>5, <3>2
      <4>3. \A q \in Seq(S), y \in S : Append(q, y) \in Seq(S)
        OBVIOUS
      <4> HIDE DEF S
      <4> QED
        BY <2>3, <4>1, <4>2, <4>3
    <3> QED
      BY <3>1, <3>2
  <2> QED
    BY <2>1, <2>6
<1> QED
  BY <1>0, <1>1, <1>2

LEMMA ToSetOfSeq ==
  ASSUME NEW S, NEW s \in Seq(S)
  PROVE  ToSet(s) \subseteq S
BY DEF ToSet

\* The only leader has more of the fields than any other entity in scope.
LEMMA LeaderLeads ==
  ASSUME NEW s \in Sides, NEW claim \in Claims[s], NEW metadata,
         NEW e \in Leaders(claim, metadata), Leaders(claim, metadata) = {e},
         NEW f \in Entities(metadata) \ {e}, InScope(f, PlanningArea(claim, metadata))
  PROVE  Matches(f, claim, metadata) < Matches(e, claim, metadata)
<1>1. \A g : Matches(g, claim, metadata) \in Nat
  <2> TAKE g
  <2>1. IsFiniteSet(FieldsOf(claim, metadata) \intersect metadata[g])
    BY ClaimsAssumption, FS_Subset DEF FieldsOf
  <2> QED
    BY <2>1, FS_CardinalityType DEF Matches
<1> DEFINE scoped == {g \in Entities(metadata) : InScope(g, PlanningArea(claim, metadata))}
<1>2. /\ f \in scoped /\ e \in scoped
      /\ \A g \in scoped : Matches(g, claim, metadata) <= Matches(e, claim, metadata)
      /\ ~ \A g \in scoped : Matches(g, claim, metadata) <= Matches(f, claim, metadata)
  BY DEF Leaders
<1>3. \A m, n, k \in Nat : m <= n /\ ~(m <= k) => k < n
  OBVIOUS
<1> HIDE DEF scoped
<1>4. PICK g \in scoped : ~(Matches(g, claim, metadata) <= Matches(f, claim, metadata))
  BY <1>2
<1> QED
  BY <1>1, <1>2, <1>3, <1>4

\* What entity e of a claim rests on, given the metadata of the identification.
Evidenced(s, claim, metadata, e) ==
  /\ e \in Entities(metadata)
  /\ \/ e \in ToSet(claim.named) \union claim.mentioned
     \/ /\ claim.named = <<>>
        /\ \A f \in Entities(metadata) \ {e} :
             InScope(f, PlanningArea(claim, metadata)) =>
               Matches(f, claim, metadata) < Matches(e, claim, metadata)

LEMMA IdentifiedIsEvidenced ==
  ASSUME NEW s \in Sides, NEW claim \in Claims[s], NEW metadata,
         NEW e \in ToSet(Identify(s, claim, metadata).entities)
  PROVE  Evidenced(s, claim, metadata, e)
<1> DEFINE gated == Gated(s, claim, metadata)
           live == Live(claim.named, metadata)
           rest == Mentioned(claim, metadata) \ ToSet(gated)
           found == gated \o SetToSeq(rest)
           N == Entities(metadata) \intersect ToSet(claim.named)
           M == Entities(metadata) \intersect claim.mentioned
<1>1. live \in Seq(N)
  BY ClaimsAssumption, LiveIsNamed
<1>2. gated \in Seq(N)
  <2>1. gated = IF s = "target" /\ live # <<>> THEN <<Head(live)>> ELSE live
    BY DEF Gated
  <2> HIDE DEF live, N, gated
  <2> QED
    BY <1>1, <2>1
<1>3. IsFiniteSet(rest) /\ rest \subseteq M
  <2>1. IsFiniteSet(claim.mentioned)
    BY ClaimsAssumption
  <2>2. rest \subseteq claim.mentioned /\ rest \subseteq M
    BY DEF Mentioned
  <2> HIDE DEF rest
  <2> QED
    BY <2>1, <2>2, FS_Subset
<1>4. SetToSeq(rest) \in Seq(M)
  <2> HIDE DEF rest, M
  <2>1. SetToSeq(rest) \in Seq(rest)
    BY <1>3, ElementsOfSeq
  <2> QED
    BY <1>3, <2>1
<1>5. found \in Seq(N \union M)
  <2> HIDE DEF gated, rest, N, M
  <2> QED
    BY <1>2, <1>4
<1>6. Identify(s, claim, metadata).entities \in {<<>>, found, FromFields(claim, metadata)}
      /\ (Identify(s, claim, metadata).entities = found
          \/ Identify(s, claim, metadata).entities = <<>>
          \/ (claim.named = <<>> /\ Identify(s, claim, metadata).entities = FromFields(claim, metadata)))
  BY DEF Identify, IdentifiedEntities
<1>7. CASE Identify(s, claim, metadata).entities = found
  <2>1. e \in N \union M
    <3> HIDE DEF found, N, M
    <3> QED
      BY <1>5, <1>7, ToSetOfSeq
  <2> QED
    BY <2>1 DEF Evidenced
<1>8. CASE claim.named = <<>> /\ Identify(s, claim, metadata).entities = FromFields(claim, metadata)
  <2> DEFINE only == {d \in Leaders(claim, metadata) :
                        /\ Leaders(claim, metadata) = {d}
                        /\ Matches(d, claim, metadata) >= MinMatches
                        /\ 2 * Matches(d, claim, metadata) >= Cardinality(FieldsOf(claim, metadata))}
  <2>1. FromFields(claim, metadata) = SetToSeq(only)
    BY DEF FromFields
  <2>2. IsFiniteSet(only)
    <3>1. only = {} \/ \E d : only = {d}
      OBVIOUS
    <3> HIDE DEF only
    <3> QED
      BY <3>1, FS_EmptySet, FS_Singleton
  <2>3. e \in only
    <3> HIDE DEF only
    <3> QED
      BY <1>8, <2>1, <2>2, ElementsOfSeq, ToSetOfSeq
  <2>4. e \in Leaders(claim, metadata) /\ Leaders(claim, metadata) = {e} /\ e \in Entities(metadata)
    BY <2>3 DEF Leaders
  <2>5. \A f \in Entities(metadata) \ {e} :
          InScope(f, PlanningArea(claim, metadata)) =>
            Matches(f, claim, metadata) < Matches(e, claim, metadata)
    BY <2>4, LeaderLeads
  <2> QED
    BY <1>8, <2>4, <2>5 DEF Evidenced
<1>9. CASE Identify(s, claim, metadata).entities = <<>>
  BY <1>9 DEF ToSet
<1> QED
  BY <1>6, <1>7, <1>8, <1>9

\* What the run starts with was identified in metadata of the side's connector,
\* which the process that identified it holds from then on.
IdentifiedOK ==
  /\ restarts \in Nat
  /\ \A s \in Sides : sheet[s] \in Claims[s]
  /\ step # "identify" =>
       \A s \in Sides : \E metadata \in Schemas[s] \union {NoMetadata} :
         /\ identified[s] = Identify(s, sheet[s], metadata)
         /\ restarts = 0 /\ metadata # NoMetadata => cache[s] = metadata

LEMMA InitIdentified == Init => IdentifiedOK
BY DEF Init, IdentifiedOK

LEMMA SameIdentified ==
  ASSUME IdentifiedOK, UNCHANGED <<sheet, identified>>, step' # "identify" => step # "identify",
         (restarts' = restarts /\ Held) \/ restarts' = restarts + 1
  PROVE  IdentifiedOK'
<1>1. restarts' \in Nat /\ \A s \in Sides : sheet'[s] \in Claims[s]
  BY DEF IdentifiedOK
<1>2. ASSUME step' # "identify", NEW s \in Sides
      PROVE  \E metadata \in Schemas[s] \union {NoMetadata} :
               /\ identified'[s] = Identify(s, sheet'[s], metadata)
               /\ restarts' = 0 /\ metadata # NoMetadata => cache'[s] = metadata
  <2>1. PICK metadata \in Schemas[s] \union {NoMetadata} :
          /\ identified[s] = Identify(s, sheet[s], metadata)
          /\ restarts = 0 /\ metadata # NoMetadata => cache[s] = metadata
    BY <1>2 DEF IdentifiedOK
  <2>2. restarts' = 0 /\ metadata # NoMetadata => cache'[s] = metadata
    BY <2>1 DEF IdentifiedOK, Held
  <2> QED
    BY <2>1, <2>2
<1> QED
  BY <1>1, <1>2 DEF IdentifiedOK

LEMMA IdentifySystemsIdentified == LiveInv /\ IdentifiedOK /\ IdentifySystems => IdentifiedOK'
<1> SUFFICES ASSUME LiveInv, IdentifiedOK, IdentifySystems PROVE IdentifiedOK'
  OBVIOUS
<1>1. PICK loaded \in SUBSET Sides :
        LET catalog == [s \in Sides |-> IF s \in loaded THEN Metadata(s) ELSE NoMetadata]
        IN /\ cache' = [s \in Sides |-> IF s \in loaded THEN Metadata(s) ELSE cache[s]]
           /\ identified' = [s \in Sides |-> Identify(s, sheet[s], catalog[s])]
  BY DEF IdentifySystems
<1>2. UNCHANGED <<sheet, restarts>>
  BY DEF IdentifySystems
<1>3. ASSUME NEW s \in Sides
      PROVE  \E metadata \in Schemas[s] \union {NoMetadata} :
               /\ identified'[s] = Identify(s, sheet'[s], metadata)
               /\ restarts' = 0 /\ metadata # NoMetadata => cache'[s] = metadata
  <2> DEFINE metadata == IF s \in loaded THEN Metadata(s) ELSE NoMetadata
  <2>1. metadata \in Schemas[s] \union {NoMetadata}
    BY DEF LiveInv, CacheOK, Metadata
  <2>2. identified'[s] = Identify(s, sheet[s], metadata)
    BY <1>1
  <2>3. metadata # NoMetadata => cache'[s] = metadata
    BY <1>1
  <2> HIDE DEF metadata
  <2> QED
    BY <1>2, <2>1, <2>2, <2>3
<1> QED
  BY <1>2, <1>3 DEF IdentifiedOK

LEMMA NextIdentified == LiveInv /\ IdentifiedOK /\ [Next]_vars => IdentifiedOK'
<1> SUFFICES ASSUME LiveInv, IdentifiedOK, [Next]_vars PROVE IdentifiedOK'
  OBVIOUS
<1>1. ASSUME NEW s \in Sides, Change(s) PROVE IdentifiedOK'
  BY <1>1, SameIdentified DEF Change, Held
<1>2. CASE Restart
  BY <1>2, SameIdentified DEF Restart
<1>3. CASE IdentifySystems
  BY <1>3, IdentifySystemsIdentified
<1>4. CASE StartRun
  BY <1>4, SameIdentified DEF StartRun, Held, world
<1>5. CASE SelectSource \/ SelectTarget
  BY <1>5, SameIdentified DEF SelectSource, SelectTarget, SelectSide, Fail, Held, world
<1>6. CASE Settle \/ Replay \/ Pause \/ GiveUp
  <2>1. /\ UNCHANGED <<sheet, identified, restarts, service, step>> /\ Resolving
        /\ cache' = [cache EXCEPT ![Side] = Metadata(Side)]
    BY <1>6 DEF Settle, Replay, Pause, GiveUp, Fail, Unsettled
  <2> QED
    BY <2>1, ReadHolds, SameIdentified
<1>7. ASSUME NEW v \in Value, Answer(v) PROVE IdentifiedOK'
  BY <1>7, SameIdentified DEF Answer, Held, world
<1>8. CASE ResolveRoles
  <2>1. UNCHANGED <<sheet, identified, world>> /\ step = "resolve_schema"
    BY <1>8 DEF ResolveRoles
  <2> QED
    BY <2>1, SameIdentified DEF Held, world
<1>9. CASE CompileContract \/ PlanDateBatches
  <2>1. UNCHANGED <<sheet, identified, world>> /\ step # "identify"
    BY <1>9 DEF CompileContract, PlanDateBatches
  <2> QED
    BY <2>1, SameIdentified DEF Held, world
<1>10. CASE UNCHANGED vars
  BY <1>10, SameIdentified DEF vars, Held, world
<1> QED
  BY <1>1, <1>2, <1>3, <1>4, <1>5, <1>6, <1>7, <1>8, <1>9, <1>10 DEF Next, Value

LEMMA IdentifiedEvidenced == IdentifiedOK => EntitiesAreEvidenced
<1> SUFFICES ASSUME IdentifiedOK, step # "identify", NEW s \in Sides,
                    NEW e \in ToSet(identified[s].entities)
             PROVE  /\ e \in UNION {DOMAIN m : m \in Schemas[s]}
                    /\ \/ e \in ToSet(sheet[s].named) \union sheet[s].mentioned
                       \/ /\ sheet[s].named = <<>>
                          /\ restarts = 0 =>
                               \A f \in Entities(cache[s]) \ {e} :
                                 InScope(f, PlanningArea(sheet[s], cache[s])) =>
                                   Matches(f, sheet[s], cache[s]) < Matches(e, sheet[s], cache[s])
  BY DEF EntitiesAreEvidenced
<1>1. PICK metadata \in Schemas[s] \union {NoMetadata} :
        /\ identified[s] = Identify(s, sheet[s], metadata)
        /\ restarts = 0 /\ metadata # NoMetadata => cache[s] = metadata
  BY DEF IdentifiedOK
<1>2. sheet[s] \in Claims[s]
  BY DEF IdentifiedOK
<1>3. Evidenced(s, sheet[s], metadata, e)
  BY <1>1, <1>2, IdentifiedIsEvidenced
<1>4. metadata # NoMetadata
  BY <1>3 DEF Evidenced, Entities, NoMetadata
<1>5. metadata \in Schemas[s] /\ (restarts = 0 => cache[s] = metadata)
  BY <1>1, <1>4
<1> QED
  BY <1>3, <1>5 DEF Evidenced, Entities

\* Whatever the model reads from a sheet, an entity is one that its side's
\* connector has and that the sheet names, mentions or singles out by its fields.
THEOREM EntitiesAreEvidencedHolds == Spec => []EntitiesAreEvidenced
<1>1. Spec => [](LiveInv /\ IdentifiedOK)
  BY InitLive, NextLive, InitIdentified, NextIdentified, PTL DEF Spec
<1> QED
  BY <1>1, IdentifiedEvidenced, PTL

=============================================================================
