------------------------------ MODULE MCReaders ------------------------------
(***************************************************************************)
(* Readers for model checking: certificates laid out from small tables of  *)
(* turnover in every supported way, and every small workbook, bill, tender *)
(* text and seed over a few headings, labels and aliases.                  *)
(***************************************************************************)
EXTENDS Readers

\* Amounts as written, and their values.
Plain(n) == [opens |-> TRUE, n |-> n, unit |-> "", place |-> "next"]
Lakh(n) == [opens |-> FALSE, n |-> n, unit |-> "lakh", place |-> "apart"]
Amounts == {Plain(25000), Lakh(3)}

Cell == [words |-> {}, years |-> <<>>, amount |-> None]
Fy(y) == [Cell EXCEPT !.years = <<[from |-> y, to |-> (y + 1) % 100]>>]
NotFy == [Cell EXCEPT !.years = <<[from |-> 2021, to |-> 23]>>]
Sum(w) == [Cell EXCEPT !.amount = w]
Heading(word) == [Cell EXCEPT !.words = {word}]
Note == Sum(Plain(7))

Table == UNION {[S -> Amounts] : S \in {{2022}, {2022, 2023}, {2022, 2023, 2024}}}
Of(t) == {Record(y, ParseAmount(t[y])) : y \in DOMAIN t}
YearsOf(t) == SetToSortSeq(DOMAIN t, <)

\* A year to a row, under a heading on the first or the second row, with a total below.
Vertical(t, yearFirst, title, again) ==
  LET Pair(y, a) == IF yearFirst THEN <<y, Note, a>> ELSE <<a, Note, y>>
      data == [i \in DOMAIN YearsOf(t) |-> Pair(Fy(YearsOf(t)[i]), Sum(t[YearsOf(t)[i]]))]
  IN (IF title THEN <<<<Cell>>>> ELSE <<>>)
     \o <<Pair(Heading("year"), Heading("turnover"))>> \o data
     \o (IF again THEN <<Pair(Fy(YearsOf(t)[1]), Sum(Plain(1)))>> ELSE <<>>)
     \o <<Pair(Cell, Sum(Plain(99000))), <<Cell>>, Pair(NotFy, Sum(Plain(5)))>>

\* Years across, with up to two rows of notes before the figures.
Horizontal(t, gap) ==
  LET years == YearsOf(t)
  IN <<<<Cell>> \o [i \in DOMAIN years |-> Fy(years[i])]>>
     \o [g \in 1..gap |-> <<Cell>> \o [i \in DOMAIN years |-> Note]]
     \o <<<<Note>> \o [i \in DOMAIN years |-> Sum(t[years[i]])]>>
     \o <<<<Note>> \o [i \in DOMAIN years |-> Sum(Plain(1500))]>>

\* A line to a year, or two; or the years on one line and the figures on a later one.
Lines(t, split, together, gap) ==
  LET years == YearsOf(t)
      head == [i \in DOMAIN years |-> Fy(years[i])]
      sums == [i \in DOMAIN years |-> Sum(t[years[i]])]
      gaps == [g \in 1..gap |-> <<Note>>]
  IN IF together THEN <<<<Cell>> \o head>> \o gaps \o <<sums>>
     ELSE FlattenSeq([i \in DOMAIN years |->
            IF split THEN <<<<Note, head[i]>>, <<sums[i]>>>> ELSE <<<<head[i], Note, sums[i]>>>>])

\* A sheet alone, behind a cover or before a sheet of other figures; or two sheets with
\* a part of the years each.
Layouts(t) ==
  {Vertical(t, f, title, again) : f, title, again \in BOOLEAN} \cup {Horizontal(t, gap) : gap \in 0..2}
Cover == <<<<Cell, Note>>>>
Others(t) == Vertical([y \in DOMAIN t |-> Plain(8000)], TRUE, FALSE, FALSE)
Part(t, years) == [y \in years |-> t[y]]
Books(t) ==
  UNION {{<<s>>, <<Cover, s>>, <<s, Others(t)>>} : s \in Layouts(t)}
  \cup UNION {{<<Vertical(Part(t, S), TRUE, FALSE, again), Horizontal(Part(t, DOMAIN t \ S), gap)>> :
              again \in BOOLEAN, gap \in 0..2} : S \in SUBSET DOMAIN t \ {{}, DOMAIN t}}
Sheets == UNION {{[reader |-> "sheets", table |-> Of(t), sheets |-> book] : book \in Books(t)} : t \in Table}

Certificates ==
  UNION {LET lines == Lines(t, split, together /\ Cardinality(DOMAIN t) > 1, gap)
             d == [reader |-> "text", table |-> Of(t), lines |-> lines, scanned |-> <<>>]
         IN {d, [d EXCEPT !.lines = <<>>, !.scanned = lines]} :
         t \in Table, split, together \in BOOLEAN, gap \in 0..2}

Cells ==
  {[reader |-> "cell", amount |-> w] :
     w \in {v \in [opens : BOOLEAN, n : {-5, 61}, unit : {"", "crore", "lakh", "other"},
                   place : {"against", "next", "apart"}] : v.opens => v.n >= 0}}

MCAliases == [h \in {"name of work", "work"} |-> "name"]
MCFolded == {"remarks"}
Heads == {None, "name of work", "work", "remarks"}
Workbooks ==
  {[reader |-> "rows", heads |-> h, rows |-> r] :
     h \in [1..3 -> Heads], r \in [1..3 -> {<<None, None, None>>, <<"x", "y", "z">>, <<"x", None>>}]}

B(roles, n) == [roles |-> roles, n |-> n, blank |-> n = None /\ roles = {}, total |-> FALSE]
BoqHeads == {B({"description"}, None), B({"quantity"}, None), B({"unit", "unit_rate"}, None), B({}, None)}
Described == [B({}, None) EXCEPT !.blank = FALSE]
Total == [Described EXCEPT !.total = TRUE]
BoqRows == {<<a, b, c>> : a \in {Described, Total, B({}, None)}, b \in {B({}, 2), Described}, c \in {B({}, 9), B({}, None)}}
           \cup {<<Described>>}
Bills ==
  {[reader |-> "boq", tables |-> <<<<h>> \o r>>] : h \in [1..3 -> BoqHeads], r \in [1..2 -> BoqRows]}
  \cup {[reader |-> "boq", tables |-> <<<<r>>, <<h, r>>>>] : h \in [1..3 -> BoqHeads], r \in BoqRows}

Labels == {None, "emd_amount", "tender_fee", "closing_date", "location"}
Values == {None, [kind |-> "amount", of |-> 5], [kind |-> "date", of |-> 31], [kind |-> "text", of |-> 0]}
Texts(n) ==
  {[reader |-> "metadata", fields |-> Labels \ {None}, lines |-> lines] :
     lines \in [1..n -> [label : Labels, value : Values]]}

Entry == [code : {None, "a", "b"}, name : {"n"}, category : {None, "c"},
          aliases : {<<>>} \cup {<<[text |-> x, kind |-> "k"]>> : x \in {None, "p", "q"}}
                    \cup {<<[text |-> "p", kind |-> k], [text |-> x, kind |-> "k"]>> : k \in {None, "k"}, x \in {"p", "q"}}]
Seeds == {[reader |-> "seed", entries |-> e] : e \in UNION {[1..n -> Entry] : n \in 0..2}}

MCDocs == Sheets \cup Certificates \cup Cells \cup Workbooks \cup Bills \cup Texts(2) \cup Seeds
=============================================================================
