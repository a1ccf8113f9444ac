----------------------------- MODULE BatchFetch -----------------------------
(***************************************************************************)
(* What the windows of a batch plan fetch from SAP                         *)
(* (S4MetadataService._build_joined with a date filter, paged by _query).  *)
(*                                                                         *)
(* The source is one entity, or a join of a primary entity (items) with    *)
(* another (lines) on a key.  The plan is made of the date column of one   *)
(* of the two; a window then filters each of them by itself.               *)
(***************************************************************************)
EXTENDS BatchPlan, SequencesExt

CONSTANTS
  Keys,      \* join keys; an item has its own
  MaxLines,  \* rows of the joined entity
  PageSize,  \* page_size of _query
  ServerCap  \* rows the service returns at most for one request

ASSUME FetchAssumption ==
  /\ IsFiniteSet(Keys)
  /\ MaxLines \in Nat /\ PageSize \in Nat \ {0}
  /\ ServerCap \in Nat /\ ServerCap >= PageSize

VARIABLES
  join,     \* join_type of the side's specification; "none": a single entity
  datedOn,  \* the entities that have the date field
  items,    \* date of each row of the primary entity
  lines     \* rows of the joined entity: <<key, date>>

data == <<join, datedOn, items, lines>>

Line == Keys \X (0..Days)
NoLine == <<>>

Tables == UNION {[K -> 0..Days] : K \in SUBSET Keys}
Lines == UNION {kSubset(n, Line) : n \in 0..MaxLines}

\* entity_and_field_for_batch: the primary entity if it has the field, else the
\* joined one; a field neither has is asked of the primary and comes back empty.
ColumnRows(d) ==
  IF "primary" \in datedOn THEN Cardinality({k \in DOMAIN items : items[k] = d})
  ELSE IF "joined" \in datedOn THEN Cardinality({l \in lines : l[2] = d})
  ELSE 0

\* A field an entity does not have gives its rows no date.
JoinInit ==
  /\ join \in {"left", "inner", "full"}
  /\ datedOn \in SUBSET {"primary", "joined"}
  /\ items \in Tables
  /\ "primary" \notin datedOn => \A k \in DOMAIN items : items[k] = NoDate
  /\ lines \in Lines
  /\ "joined" \notin datedOn => \A l \in lines : l[2] = NoDate
  /\ columns = {"target"} \union (IF datedOn # {} THEN {"source"} ELSE {})
  /\ \E n \in 0..1 :
       rows = [source |-> [d \in 1..Days |-> ColumnRows(d)],
               target |-> [d \in 1..Days |-> n]]
  /\ undated = IF datedOn # {} /\ ColumnRows(NoDate) > 0 THEN {"source"} ELSE {}
  /\ seen = 0 /\ windows = <<>> /\ open = NoWindow /\ pc = "plan"

SingleInit ==
  /\ join = "none" /\ datedOn = {} /\ items = <<>> /\ lines = {}
  /\ Init

FetchInit == SingleInit \/ JoinInit

FetchNext == Next /\ UNCHANGED data

FetchSpec == FetchInit /\ [][FetchNext]_<<vars, data>>

------------------------------------------------------------------------------
(* fetch_joined_dataset                                                     *)

\* Mutant: a full page is taken for the last one.
LastPageIfFull(n) == n <= PageSize

LastPage(n) == n < PageSize

\* Rows of the page at $skip, of n rows.
PageRows(n, skip) == Max({0, Min({PageSize, ServerCap, n - skip})})

\* _query: pages of $top rows from $skip, until one is empty or short.
RowsRead(n) ==
  LET read[skip \in 0..(n + PageSize)] ==
        IF PageRows(n, skip) = 0 THEN skip
        ELSE IF LastPage(PageRows(n, skip)) THEN skip + PageRows(n, skip)
        ELSE read[skip + PageSize]
  IN read[0]

Paged(S) == Range(SubSeq(SetToSeq(S), 1, RowsRead(Cardinality(S))))

\* date_range_filter; a missing date satisfies no filter.
InWindow(w, d) == d # NoDate /\ w.start <= d /\ d <= w.end

\* _apply_date_filter: an entity without the field is left unfiltered.
Passes(entity, w, d) == entity \in datedOn => InWindow(w, d)

\* The merge; a type that is neither left nor inner is taken for left.
Merge(K, L) ==
  {row \in K \X L : row[2][1] = row[1]}
    \union (IF join = "inner" THEN {}
            ELSE {<<k, NoLine>> : k \in {k \in K : \A l \in L : l[1] # k}})

\* _build_joined for window w.
Fetched(w) ==
  Merge(Paged({k \in DOMAIN items : Passes("primary", w, items[k])}),
        Paged({l \in lines : Passes("joined", w, l[2])}))

\* The date column of a row of the join: the joined entity's is renamed when
\* the primary entity has one too.
DateOf(row) ==
  IF "primary" \in datedOn THEN items[row[1]]
  ELSE IF "joined" \in datedOn /\ row[2] # NoLine THEN row[2][2]
  ELSE NoDate

------------------------------------------------------------------------------
(* Properties.                                                             *)

\* Each dated row of the join is in one batch and in no other, and a batch
\* holds nothing else, when the primary entity alone has the date, or the joined
\* one alone and the join is inner: no row is lost to a window's limits or to
\* a page's, and none is reconciled twice.
RowsFetchedOnce ==
  pc = "done" /\ (datedOn = {"primary"} \/ (datedOn = {"joined"} /\ join = "inner")) =>
    LET dated == {row \in Merge(DOMAIN items, lines) : DateOf(row) # NoDate}
    IN /\ \A row \in dated :
            Cardinality({i \in DOMAIN windows : row \in Fetched(windows[i])}) = 1
       /\ \A i \in DOMAIN windows : Fetched(windows[i]) \subseteq dated

==============================================================================
