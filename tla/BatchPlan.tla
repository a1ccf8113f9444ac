------------------------------ MODULE BatchPlan ------------------------------
(***************************************************************************)
(* The batch plan over the union of the dates of both sides                *)
(* (date_batch_planning.plan_batches), and the batches value pairing makes *)
(* of it (value_pairing/batching.build_batches).                           *)
(*                                                                         *)
(* A date is a number; a side has rows on some dates and rows without a    *)
(* usable date, or no date column at all.  One step is one turn of the     *)
(* loop over the sorted dates.                                             *)
(***************************************************************************)
EXTENDS Integers, Sequences, FiniteSets, FiniteSetsExt

CONSTANTS
  Days,       \* dates are 1..Days
  MaxRows,    \* rows of a side on one date
  Threshold,  \* record_threshold
  MaxDates    \* max_dates_per_batch

ASSUME PlanAssumption ==
  /\ Days \in Nat /\ MaxRows \in Nat /\ Threshold \in Nat
  /\ MaxDates \in Nat \ {0}

VARIABLES
  columns,  \* sides that have a date column
  rows,     \* rows of each side on each date
  undated,  \* sides with rows whose date is missing or not a date
  seen,     \* the last date the loop has visited
  windows,  \* windows that are cut
  open,     \* the window being filled: cur_start, cur_end, cur_dates, cur_records
  pc

vars == <<columns, rows, undated, seen, windows, open, pc>>

Sides == {"source", "target"}
NoDate == 0
NoWindow == [start |-> NoDate]
Window == [start : 1..Days, end : 1..Days, dates : Nat, records : Nat]

TypeOK ==
  /\ columns \subseteq Sides
  /\ rows \in [Sides -> [1..Days -> Nat]]
  /\ undated \subseteq Sides
  /\ seen \in 0..Days
  /\ windows \in Seq(Window)
  /\ open \in Window \union {NoWindow}
  /\ pc \in {"plan", "done"}

\* Rows of both sides on date d.
Records(d) == rows["source"][d] + rows["target"][d]

\* The union of the dates of both sides.
AllDates == {d \in 1..Days : Records(d) > 0}

\* A side without a date column takes part as a column of missing dates.
Init ==
  /\ columns \in SUBSET Sides
  /\ rows \in [Sides -> [1..Days -> 0..MaxRows]]
  /\ \A s \in Sides \ columns : \A d \in 1..Days : rows[s][d] = 0
  /\ undated \in SUBSET Sides
  /\ seen = 0
  /\ windows = <<>>
  /\ open = NoWindow
  /\ pc = "plan"

WouldExceedRecords(d) == open.records > 0 /\ open.records + Records(d) > Threshold

\* Mutant: one date too many.
WouldExceedDatesLate == open.dates > MaxDates

WouldExceedDates == open.dates >= MaxDates

Cut(d) == open # NoWindow /\ (WouldExceedRecords(d) \/ WouldExceedDates)

NewWindow(d) == [start |-> d, end |-> d, dates |-> 1, records |-> Records(d)]
Widened(d) == [start |-> open.start, end |-> d, dates |-> open.dates + 1,
               records |-> open.records + Records(d)]

\* The window that holds date d once it is visited.
Fill(d) ==
  IF open = NoWindow \/ Cut(d) THEN NewWindow(d)
  ELSE Widened(d)

Visit(d) ==
  /\ pc = "plan"
  /\ d \in AllDates /\ d > seen
  /\ \A e \in AllDates : e > seen => d <= e
  /\ windows' = IF Cut(d) THEN Append(windows, open) ELSE windows
  /\ open' = Fill(d)
  /\ seen' = d
  /\ UNCHANGED <<columns, rows, undated, pc>>

\* Mutant: what is left after the last cut is lost.
FinishDropsOpen ==
  /\ pc = "plan"
  /\ \A d \in AllDates : d <= seen
  /\ open' = NoWindow
  /\ pc' = "done"
  /\ UNCHANGED <<columns, rows, undated, seen, windows>>

Finish ==
  /\ pc = "plan"
  /\ \A d \in AllDates : d <= seen
  /\ windows' = IF open = NoWindow THEN windows ELSE Append(windows, open)
  /\ open' = NoWindow
  /\ pc' = "done"
  /\ UNCHANGED <<columns, rows, undated, seen>>

Next == Finish \/ \E d \in 1..Days : Visit(d)

Spec == Init /\ [][Next]_vars

------------------------------------------------------------------------------
(* build_batches: the plan's windows, then the rows without a date.        *)

AllRecords == [kind |-> "all"]
Undated == [kind |-> "undated"]
Dated(w) == [kind |-> "window", start |-> w.start, end |-> w.end]

\* Mutant: no batch for the rows whose date is missing.
BatchesDatedOnly ==
  IF windows = <<>> THEN <<AllRecords>>
  ELSE [i \in DOMAIN windows |-> Dated(windows[i])]

Batches ==
  IF windows = <<>> THEN <<AllRecords>>
  ELSE [i \in DOMAIN windows |-> Dated(windows[i])]
         \o (IF undated \intersect columns # {} THEN <<Undated>> ELSE <<>>)

\* The mask of batch b holds the rows of side s with date d (or none).
InBatch(b, s, d) ==
  \/ b.kind = "all"
  \/ b.kind = "window" /\ d # NoDate /\ b.start <= d /\ d <= b.end
  \/ b.kind = "undated" /\ d = NoDate /\ s \in columns

\* The dates of the rows side s has.
DatesOf(s) ==
  {d \in 1..Days : rows[s][d] > 0} \union (IF s \in undated THEN {NoDate} ELSE {})

------------------------------------------------------------------------------
(* Properties.                                                             *)

\* Every date of either side is in exactly one window of the plan: a run that
\* reconciles window by window fetches each dated row, and fetches it once.
DatesPartitioned ==
  pc = "done" =>
    \A d \in AllDates : \E i \in DOMAIN windows :
      /\ windows[i].start <= d /\ d <= windows[i].end
      /\ \A j \in DOMAIN windows :
           windows[j].start <= d /\ d <= windows[j].end => j = i

\* A window respects both limits, unless it is a single date that is too large
\* by itself: a date is never split.
WindowsBounded ==
  \A i \in DOMAIN windows :
    /\ windows[i].dates <= MaxDates
    /\ windows[i].records <= Threshold \/ windows[i].start = windows[i].end

\* Pairing visits every row of a side that has a date column, dated or not, in
\* exactly one batch.
RowsInOneBatch ==
  pc = "done" =>
    \A s \in columns : \A d \in DatesOf(s) :
      Cardinality({i \in DOMAIN Batches : InBatch(Batches[i], s, d)}) = 1

==============================================================================
