----------------------------- MODULE MappingSheet -----------------------------
(***************************************************************************)
(* What a mapping workbook says before any model reads it                  *)
(* (interface_index.py, mapping_sheet_parser.py).  Both halves are pure:   *)
(* the index resolves each listed interface to one worksheet, the parser   *)
(* turns a worksheet into rows, candidates and preamble.                   *)
(*                                                                         *)
(* A name is [norm, form]: its comparison form (`_norm`) as a sequence of  *)
(* characters and a number telling apart the spellings that share it       *)
(* ("X" and "X.").  A worksheet is a sequence of lines, a line a sequence  *)
(* of cell texts; columns are told apart by position.                      *)
(***************************************************************************)
EXTENDS Positions, SequencesExt

CONSTANTS Roles,     \* `_ROLE_HINTS`: what a column can be for
          Classify,  \* [heading text -> role]; a text outside is no heading
          Generic,   \* heading texts with only generic header vocabulary
          Numerals   \* the decimal numerals of 1, 2, ...

NoText == ""
NoName == [norm |-> <<>>, form |-> 0]
IndexName == [norm |-> <<"interfaces">>, form |-> 0]

SheetName == [norm : Seq(STRING), form : Nat]

ASSUME NumeralsAssumption ==
    /\ Numerals \in Seq(STRING)
    /\ \A i, j \in DOMAIN Numerals : Numerals[i] = Numerals[j] => i = j

-----------------------------------------------------------------------------
(* The interface index                                                     *)

Within(s, t) == \E i \in 0 .. Len(t) - Len(s) : SubSeq(t, i + 1, i + Len(s)) = s

(* One sheet, or NoName for none or several: an ambiguous tier is never    *)
(* settled by the next one.                                                *)
ResolveSheet(record, candidates) ==
    LET exact == {s \in Range(candidates) : s.norm = record.norm}
        partial == {s \in Range(candidates) : s.norm # <<>> /\
                       (Within(record.norm, s.norm) \/ Within(s.norm, record.norm))}
        tier == IF exact # {} THEN exact ELSE partial
    IN IF record.norm # <<>> /\ Cardinality(tier) = 1
       THEN CHOOSE s \in tier : TRUE ELSE NoName

(* A declared worksheet is authoritative: the first one of that name.      *)
DeclaredSheet(declared, candidates) ==
    LET hits == {i \in DOMAIN candidates : candidates[i].norm = declared.norm}
    IN IF hits = {} THEN NoName ELSE candidates[Min(hits)]

(* The slug of a record; a repeated one is numbered until it is unused.    *)
Slug(record, i) == IF record.norm = <<>> THEN <<"interface", Numerals[i]>>
                                         ELSE record.norm

Numbered(slug, k) == IF k = 1 THEN slug ELSE Append(slug, Numerals[k])

(* mutant: a bare suffix, not looked up in its turn.                       *)
SecondOfItsName(slug, used) == IF slug \in used THEN 2 ELSE 1

Unused(slug, used) == Min({k \in 1 .. Cardinality(used) + 1 : Numbered(slug, k) \notin used})

InterfaceIds(records) ==
    LET ids[i \in DOMAIN records] ==
            LET slug == Slug(records[i], i)
            IN Numbered(slug, Unused(slug, {ids[j] : j \in 1 .. i - 1}))
    IN ids

(* The index's rows: no blank record, only the first of a repeated one.    *)
Listed(entries) ==
    At(entries, {i \in DOMAIN entries :
                    /\ entries[i].record # NoName
                    /\ \A j \in 1 .. i - 1 : \/ entries[j].record = NoName
                                             \/ entries[j].record.norm # entries[i].record.norm})

(* `read_interface_index`: the one sheet of a single-sheet upload, else the *)
(* index's rows, else every worksheet but the index that could not be used. *)
Interfaces(book) ==
    LET single == Len(book.sheets) = 1
        indexed == ~single /\ IndexName \in Range(book.sheets)
        others == At(book.sheets, {i \in DOMAIN book.sheets :
                                      indexed => book.sheets[i] # IndexName})
        listed == IF indexed /\ book.header THEN Listed(book.entries) ELSE <<>>
        records == IF listed = <<>> THEN others ELSE [i \in DOMAIN listed |-> listed[i].record]
        Sheet(i) == IF listed = <<>> THEN others[i]
                    ELSE IF listed[i].declared = NoName
                    THEN ResolveSheet(records[i], others)
                    ELSE DeclaredSheet(listed[i].declared, others)
        ids == InterfaceIds(records)
    IN [i \in DOMAIN records |-> [id |-> ids[i], record |-> records[i], sheet |-> Sheet(i)]]

-----------------------------------------------------------------------------
(* One worksheet                                                           *)

Filled(line) == {i \in DOMAIN line : line[i] # NoText}
RoleOf(text) == IF text \in DOMAIN Classify THEN Classify[text] ELSE "none"

HeadingScore(line) ==
    10 * Cardinality({i \in Filled(line) : RoleOf(line[i]) # "none"})
    + 2 * Cardinality({i \in Filled(line) : line[i] \in Generic})
    + Cardinality({line[i] : i \in Filled(line)})

(* `_detect_header_row`: the earliest best line with two filled cells (of  *)
(* the first 25, which hold every line of the instances).                  *)
HeaderLine(grid) ==
    LET wide == {k \in DOMAIN grid : Cardinality(Filled(grid[k])) >= 2}
        best == {k \in wide : \A j \in wide : HeadingScore(grid[j]) <= HeadingScore(grid[k])}
    IN IF wide = {} THEN 1 ELSE Min(best)

(* `_first_nonempty`: the first filled cell among the columns of a role.   *)
FirstFilled(heads, row, role) ==
    LET cols == {i \in Filled(row) : i \in DOMAIN heads /\ RoleOf(heads[i]) = role}
    IN IF cols = {} THEN NoText ELSE row[Min(cols)]

(* A candidate: the texts of the roles of one row, at its place among the  *)
(* rows (Python counts them from 0; blank lines are not rows).             *)
CandidateOf(heads, row, index) ==
    [row |-> index, texts |-> [role \in Roles |-> FirstFilled(heads, row, role)]]

DataRows(grid) ==
    At(grid, {k \in DOMAIN grid : k > HeaderLine(grid) /\ Filled(grid[k]) # {}})

Candidates(heads, rows) ==
    LET every == [i \in DOMAIN rows |-> CandidateOf(heads, rows[i], i - 1)]
    IN At(every, {i \in DOMAIN rows :
                     \E role \in {"source", "target", "technical"} : every[i].texts[role] # NoText})

ParseSheet(grid) ==
    LET header == HeaderLine(grid)
        rows == DataRows(grid)
    IN [heads |-> grid[header], rows |-> rows,
        preamble |-> SubSeq(grid, 1, header - 1),
        candidates |-> Candidates(grid[header], rows)]
=============================================================================
