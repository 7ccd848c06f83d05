------------------------------- MODULE Readers -------------------------------
(***************************************************************************)
(* What the importers and extractors make of the documents they are given: *)
(* turnover certificates (workbook or text), portfolio and tender          *)
(* workbooks, bill-of-quantity tables, the labelled fields of a tender     *)
(* document and the packaged work-type seed.  All are pure functions of    *)
(* the document; a behaviour picks one and reads it.                       *)
(*                                                                         *)
(* Text is abstracted to what the patterns find in it.                     *)
(***************************************************************************)
EXTENDS Integers, Sequences, FiniteSets, SequencesExt

CONSTANTS
  Docs,        \* the documents, each with the "reader" that takes it
  HeaderRows,  \* how far down a turnover sheet its heading may stand (20 in the code)
  Aliases,     \* heading |-> field, for the headings that have an alias
  Folded,      \* headings kept as part of the description
  None

VARIABLES
  doc,  \* the document
  out   \* what was read of it, or None

Reads(reader) == out = None /\ doc.reader = reader /\ UNCHANGED doc

-----------------------------------------------------------------------------
\* Amounts.

\* An amount as it is written: whether the text opens with its digits, with no currency
\* sign, no plus or minus and no word before them, and where its unit stands: against
\* the digits, next to them with blanks between, or apart, as in brackets.
Written ==
  {w \in [opens : BOOLEAN, n : Int, unit : {"", "crore", "lakh", "other"},
          place : {"against", "next", "apart"}] : w.opens => w.n >= 0}

Factor(unit) == CASE unit = "crore" -> 10000000 [] unit = "lakh" -> 100000 [] OTHER -> 1
NonNegative(n) == IF n >= 0 THEN n ELSE None

\* parse_amount: the multiplier is a word of its own.
ParseAmount(w) == NonNegative(w.n * (IF w.place = "against" THEN 1 ELSE Factor(w.unit)))

\* What _ADJACENT_SUFFIX sees of the unit: it is matched at the start of the text, and
\* passes digits and blanks only.
InSight(w) == w.opens /\ w.place # "apart"
Refused(w) == InSight(w) /\ w.unit = "other"

\* A mutant: a unit set against the digits is left there.
CoerceAmountAsWritten(w) == IF Refused(w) THEN None ELSE ParseAmount(w)

\* coerce_amount: a unit in sight that is not known refuses the amount, one set against
\* the digits is split off.
CoerceAmount(w) ==
  IF Refused(w) THEN None
  ELSE ParseAmount([w EXCEPT !.place = IF @ = "against" THEN "next" ELSE @])

ReadCell == Reads("cell") /\ out' = <<CoerceAmount(doc.amount)>>

-----------------------------------------------------------------------------
\* Turnover certificates.  A cell, or a token of a line, has the heading words, the
\* financial years and the amount found in it.

\* A year's label names two consecutive years, the second by its last two digits.
NormaliseYear(y) == IF (y.from \div 100) * 100 + y.to = y.from + 1 THEN y.from ELSE None
FindYears(cell) ==
  SelectSeq([i \in DOMAIN cell.years |-> NormaliseYear(cell.years[i])], LAMBDA y : y # None)

\* The first number of the text, which of a year's label is the year.
AmountOf(cell) ==
  IF cell.years # <<>> THEN cell.years[1].from
  ELSE IF cell.amount = None THEN None ELSE ParseAmount(cell.amount)

HeaderKind(cell) ==
  IF "year" \in cell.words THEN "year" ELSE IF "turnover" \in cell.words THEN "amount" ELSE None

Columns(row, kind) == {c \in DOMAIN row : HeaderKind(row[c]) = kind}
IsHeader(row) == Columns(row, "year") # {} /\ Columns(row, "amount") # {}
Record(year, value) == [year |-> year, value |-> value]

\* One year and one figure to a row, in the last columns whose headings say so.
VerticalRecords(rows, h) ==
  LET y == Max(Columns(rows[h], "year"))
      a == Max(Columns(rows[h], "amount"))
      Of(row) == IF y > Len(row) \/ a > Len(row) \/ FindYears(row[y]) = <<>> \/ AmountOf(row[a]) = None
                 THEN <<>> ELSE <<Record(FindYears(row[y])[1], AmountOf(row[a]))>>
      below == SubSeq(rows, h + 1, Len(rows))
  IN FlattenSeq([i \in DOMAIN below |-> Of(below[i])])

\* Anything from a thousand up is money.
IsMoney(v) == v # None /\ v >= 1000
Following(rows, r) == SubSeq(rows, r + 1, IF r + 3 < Len(rows) THEN r + 3 ELSE Len(rows))

\* Years across: their figures are the first of the next three rows that has money
\* under each of them.
HorizontalRecords(rows) ==
  LET At(row, c) == IF c \in DOMAIN row THEN AmountOf(row[c]) ELSE None
      Of(r) ==
        LET columns == SelectSeq([c \in DOMAIN rows[r] |-> c], LAMBDA c : FindYears(rows[r][c]) # <<>>)
            full == SelectSeq(Following(rows, r),
                      LAMBDA row : \A k \in DOMAIN columns : IsMoney(At(row, columns[k])))
        IN IF columns = <<>> \/ full = <<>> THEN <<>>
           ELSE [k \in DOMAIN columns |-> Record(FindYears(rows[r][columns[k]])[1], At(full[1], columns[k]))]
  IN FlattenSeq([r \in DOMAIN rows |-> Of(r)])

SheetRecords(rows) ==
  LET headings == {h \in DOMAIN rows : h <= HeaderRows /\ IsHeader(rows[h])}
  IN IF headings = {} THEN HorizontalRecords(rows) ELSE VerticalRecords(rows, Min(headings))

ExtractWorkbook(sheets) == FlattenSeq([s \in DOMAIN sheets |-> SheetRecords(sheets[s])])

\* The money in a line: the numbers of a year's label count like any other.
MonetaryCandidates(tokens) ==
  SelectSeq([i \in DOMAIN tokens |-> AmountOf(tokens[i])], IsMoney)

\* A line with one year: the last money after it, or on the next line.
LineRecords(lines, l, at) ==
  LET tail == MonetaryCandidates(SubSeq(lines[l], at + 1, Len(lines[l])))
      next == IF tail = <<>> /\ l < Len(lines) THEN MonetaryCandidates(lines[l + 1]) ELSE tail
  IN IF next = <<>> THEN <<>> ELSE <<Record(FindYears(lines[l][at])[1], Last(next))>>

\* A line with several: money in order, from the first of the next three lines with
\* enough of it.
HeadRecords(lines, l, years) ==
  LET enough == SelectSeq(Following(lines, l), LAMBDA x : Len(MonetaryCandidates(x)) >= Len(years))
  IN IF enough = <<>> THEN <<>>
     ELSE [k \in DOMAIN years |-> Record(years[k], MonetaryCandidates(enough[1])[k])]

ExtractTextPairs(lines) ==
  LET YearsIn(l) == FlattenSeq([t \in DOMAIN lines[l] |-> FindYears(lines[l][t])])
      First(l) == Min({t \in DOMAIN lines[l] : FindYears(lines[l][t]) # <<>>})
      Of(l) == IF YearsIn(l) = <<>> THEN <<>>
               ELSE IF Len(YearsIn(l)) > 1 THEN HeadRecords(lines, l, YearsIn(l))
               ELSE LineRecords(lines, l, First(l))
  IN FlattenSeq([l \in DOMAIN lines |-> Of(l)])


\* The first figure of each year.
Dedupe(records) ==
  {records[i] : i \in {k \in DOMAIN records : \A j \in 1..k - 1 : records[j].year # records[k].year}}

ReadSheets == Reads("sheets") /\ out' = Dedupe(ExtractWorkbook(doc.sheets))

\* A certificate without text is a scan.
ReadText ==
  /\ Reads("text")
  /\ out' = Dedupe(ExtractTextPairs(IF doc.lines = <<>> THEN doc.scanned ELSE doc.lines))

-----------------------------------------------------------------------------
\* Workbooks of one row to a project or a tender.  A blank cell is None.

Resolve(heading) == IF heading \in DOMAIN Aliases THEN Aliases[heading] ELSE heading

\* The last column of a field is the one that counts.
RowRecord(heads, row) ==
  LET ColumnsOf(f) == {i \in DOMAIN heads \cap DOMAIN row : heads[i] # None /\ Resolve(heads[i]) = f}
      fields == {Resolve(heads[i]) : i \in {k \in DOMAIN heads \cap DOMAIN row : heads[k] # None}}
  IN [f \in fields |-> row[Max(ColumnsOf(f))]]

IsBlank(record) == \A f \in DOMAIN record : record[f] = None

\* build_description: the description and the folded columns that have a value.
BuildDescription(record) ==
  {<<c, record[c]>> : c \in {k \in DOMAIN record : k \in Folded \cup {"description"} /\ record[k] # None}}

Numbered(record, n) == [at |-> n, record |-> record, description |-> BuildDescription(record)]
FullRows(heads, rows) == {i \in DOMAIN rows : ~IsBlank(RowRecord(heads, rows[i]))}

\* A mutant: rows numbered as they are yielded.
ParseRowsCounted(heads, rows) ==
  {Numbered(RowRecord(heads, rows[i]), Cardinality({j \in FullRows(heads, rows) : j <= i}) + 1) :
     i \in FullRows(heads, rows)}

\* Blank rows are skipped, and counted.  The records are yielded in the order of their
\* numbers.
ParseRows(heads, rows) ==
  {Numbered(RowRecord(heads, rows[i]), i + 1) : i \in FullRows(heads, rows)}

ReadRows == Reads("rows") /\ out' = ParseRows(doc.heads, doc.rows)

-----------------------------------------------------------------------------
\* Bills of quantities.  A cell has the roles whose keywords its text contains, the
\* number in it, whether it is blank and whether it opens with a total's marker.

Roles == <<"item_number", "description", "unit", "quantity", "unit_rate", "amount", "category">>
BoqCells == [roles : SUBSET Range(Roles), n : Int \cup {None}, blank : BOOLEAN, total : BOOLEAN]
Figures == {"quantity", "unit_rate", "amount"}

\* Each heading takes the first of its roles that is free.
Roled(columns, cell, c) ==
  LET free == {k \in DOMAIN Roles : Roles[k] \in cell.roles \ DOMAIN columns}
      role == Roles[Min(free)]
  IN IF free = {} THEN columns
     ELSE [r \in DOMAIN columns \cup {role} |-> IF r = role THEN c ELSE columns[r]]

DetectColumns(row) ==
  LET columns == FoldLeftDomain(LAMBDA acc, c : Roled(acc, row[c], c), <<>>, row)
  IN IF "description" \in DOMAIN columns /\ DOMAIN columns \cap Figures # {} THEN columns ELSE None

\* A mutant: cells taken one column early.
BoqCellBefore(row, columns, role) ==
  IF role \in DOMAIN columns /\ columns[role] - 1 \in DOMAIN row THEN row[columns[role] - 1] ELSE None
BoqCell(row, columns, role) ==
  IF role \in DOMAIN columns /\ columns[role] \in DOMAIN row THEN row[columns[role]] ELSE None

\* A figure that cannot be read, or has no column, is UNKNOWN.
Figure(row, columns, role) ==
  LET cell == BoqCell(row, columns, role)
  IN IF cell = None \/ cell.blank THEN None ELSE cell.n

BoqItem(row, columns) == [f \in Figures |-> Figure(row, columns, f)]

IsItem(row, columns) ==
  LET cell == BoqCell(row, columns, "description")
  IN cell # None /\ ~cell.blank /\ ~cell.total

\* The items of a table by their rows, which are below the first that is a heading; a
\* table without one has no items.
ParseBoqTable(rows) ==
  LET headings == {h \in DOMAIN rows : DetectColumns(rows[h]) # None}
      h == Min(headings)
      columns == DetectColumns(rows[h])
      items == {r \in DOMAIN rows : headings # {} /\ r > h /\ IsItem(rows[r], columns)}
  IN [r \in items |-> BoqItem(rows[r], columns)]

\* The items are listed table by table, in the order of their rows.
ReadBoq == Reads("boq") /\ out' = [t \in DOMAIN doc.tables |-> ParseBoqTable(doc.tables[t])]

-----------------------------------------------------------------------------
\* Labelled fields.  A line has the field its label names and the value after it.

AmountFields == {"estimated_value", "emd_amount", "tender_fee"}
DateFields == {"closing_date"}

\* Blank space after a label is skipped, the end of its line included.
Captured(lines, l) ==
  LET Text(k) == IF lines[k].value # None THEN lines[k].value ELSE [kind |-> "text", of |-> lines[k].label]
      after == {k \in l .. Len(lines) : lines[k].value # None \/ (k > l /\ lines[k].label # None)}
  IN IF after = {} THEN None ELSE Text(Min(after))

\* _to_field: an amount field takes the first number, a date's included; a date field
\* a date.
ToField(field, value) ==
  CASE field \in AmountFields -> IF value.kind = "text" THEN None ELSE [value EXCEPT !.kind = "amount"]
    [] field \in DateFields -> IF value.kind = "date" THEN value ELSE None
    [] OTHER -> [value EXCEPT !.kind = "text"]

ExtractField(lines, field) ==
  LET matches == {l \in DOMAIN lines : lines[l].label = field /\ Captured(lines, l) # None}
  IN IF matches = {} THEN None ELSE ToField(field, Captured(lines, Min(matches)))

ReadMetadata ==
  /\ Reads("metadata")
  /\ out' = [f \in doc.fields |-> ExtractField(doc.lines, f)]

-----------------------------------------------------------------------------
\* The seed file.  An entry has a code, a name, a category and aliases, each None when
\* it is missing or not one of those allowed.

\* The aliases of an entry that are taken: normalised, and of a known kind.
Taken(entry) == SelectSeq(entry.aliases, LAMBDA a : a.text # None /\ a.kind # None)

Claims(entries) ==
  UNION {{<<i, k, Taken(entries[i])[k].text>> : k \in DOMAIN Taken(entries[i])} :
         i \in {j \in DOMAIN entries : entries[j].code # None}}

Clash(x, y) == x # y /\ x[3] = y[3]

Problems(entries) ==
  {<<"no code", i>> : i \in {j \in DOMAIN entries : entries[j].code = None}}
  \cup {<<"entry", i>> : i \in {j \in DOMAIN entries : entries[j].code # None
          /\ (entries[j].name = None \/ entries[j].category = None
              \/ Len(Taken(entries[j])) # Len(entries[j].aliases))}}
  \cup {<<"duplicate", i>> : i \in {j \in DOMAIN entries : entries[j].code # None
          /\ \E k \in 1..j - 1 : entries[k].code = entries[j].code}}
  \cup {<<"claimed", c[3]>> : c \in {x \in Claims(entries) : \E y \in Claims(entries) : Clash(x, y)}}

ParseSeed(entries) == IF entries = <<>> \/ Problems(entries) # {} THEN "refused" ELSE "accepted"

ReadSeed == Reads("seed") /\ out' = ParseSeed(doc.entries)

-----------------------------------------------------------------------------
\* Documents are what their readers can be given: a heading is a sequence of cells, a bill
\* has tables of rows of cells.
ASSUME ReadersAssumption ==
  /\ HeaderRows \in Nat
  /\ \A d \in Docs :
       /\ d.reader \in {"sheets", "text", "cell", "rows", "boq", "metadata", "seed"}
       /\ d.reader = "cell" => d.amount \in Written
       /\ d.reader = "rows" => DOMAIN d.heads = 1..Len(d.heads)
       /\ d.reader = "boq" => d.tables \in Seq(Seq(Seq(BoqCells)))

ASSUME NoneIsNothing ==
  None \notin Int \cup BoqCells /\ \A roles \in SUBSET Range(Roles) : None \notin [roles -> Nat]

Init == doc \in Docs /\ out = None

Next ==
  \/ ReadCell \/ ReadSheets \/ ReadText \/ ReadRows \/ ReadBoq \/ ReadMetadata \/ ReadSeed

Spec == Init /\ [][Next]_<<doc, out>>

-----------------------------------------------------------------------------
\* Properties.

Is(reader) == doc.reader = reader /\ out # None


\* A value under a heading no other column shares is in the record numbered with its
\* worksheet row, whatever blank rows, short rows and unknown headings stand around it
\* (excel.parse_rows).
AloneInField(c) ==
  doc.heads[c] # None /\ \A d \in DOMAIN doc.heads \ {c} :
    doc.heads[d] # None => Resolve(doc.heads[d]) # Resolve(doc.heads[c])
Kept(r, c) ==
  \E kept \in out : kept.at = r + 1 /\ kept.record[Resolve(doc.heads[c])] = doc.rows[r][c]
RowsStandWhereTheySay ==
  Is("rows") => \A r \in DOMAIN doc.rows : \A c \in DOMAIN doc.heads \cap DOMAIN doc.rows[r] :
    AloneInField(c) /\ doc.rows[r][c] # None => Kept(r, c)

\* Under headings of one meaning each, the described rows of a bill are its items, no row
\* more and none less, each with the numbers of its own row under those headings
\* (parse_boq_tables).
PlainHeading(row) ==
  /\ \A c \in DOMAIN row : Cardinality(row[c].roles) <= 1
  /\ \A c, d \in DOMAIN row : c # d => row[c].roles \cap row[d].roles = {}
BoqFollowsHeading ==
  Is("boq") => \A t \in {u \in DOMAIN doc.tables : doc.tables[u] # <<>>} :
    LET rows == doc.tables[t]
        ColumnOf(role) == {c \in DOMAIN rows[1] : rows[1][c].roles = {role}}
        Described(row) == \E c \in ColumnOf("description") \cap DOMAIN row : ~row[c].blank /\ ~row[c].total
    IN PlainHeading(rows[1]) /\ ColumnOf("description") # {} /\ (\E f \in Figures : ColumnOf(f) # {}) =>
         /\ DOMAIN out[t] = {r \in 2..Len(rows) : Described(rows[r])}
         /\ \A r \in DOMAIN out[t] : \A f \in Figures : \A c \in ColumnOf(f) :
              out[t][r][f] = (IF c \in DOMAIN rows[r] /\ ~rows[r][c].blank THEN rows[r][c].n ELSE None)

\* An amount is read at its written magnitude, or not at all: a known unit counts
\* wherever it stands, and an unknown one is not passed over where the code looks for
\* it (coerce_amount).
MagnitudeStands(w) ==
  out[1] \in {None} \cup (IF w.unit = "other" THEN {} ELSE {w.n * Factor(w.unit)})
UnitIsHonoured ==
  Is("cell") /\ (doc.amount.unit = "other" => InSight(doc.amount)) => MagnitudeStands(doc.amount)

\* "Never a float, and never a guessed magnitude" (project_workbook.py:161), whatever
\* stands around the number.  It fails: "Rs 61 LC", "+61 LC" and "61 (LC)" are read as 61.
NeverAGuessedMagnitude == Is("cell") => MagnitudeStands(doc.amount)

\* "Absent or unparseable values are UNKNOWN - the extractor never guesses"
\* (rule_metadata.py:4): a field whose labels have nothing after them is unknown, where
\* every line has its own label.  It fails: the next line is taken for its value.
AbsentIsUnknown ==
  Is("metadata") /\ (\A l \in DOMAIN doc.lines : doc.lines[l].label # None) => \A f \in doc.fields :
    (\A l \in DOMAIN doc.lines : doc.lines[l].label = f => doc.lines[l].value = None) => out[f] = None

\* No cell of a known column is lost.  It fails where two headings are one field: the
\* later column wins, though its cell be blank.
NoCellIsLost ==
  Is("rows") => \A r \in DOMAIN doc.rows : \A c \in DOMAIN doc.heads \cap DOMAIN doc.rows[r] :
    doc.heads[c] # None /\ doc.rows[r][c] # None => Kept(r, c)
=============================================================================
