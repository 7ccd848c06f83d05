--------------------------- MODULE Readers_proofs ---------------------------
(***************************************************************************)
(* Theorems about Readers, for any documents of the kinds it assumes: what *)
(* is read of a workbook stands where it says, what is read of a bill      *)
(* stands under the headings it was read under, and an amount keeps its    *)
(* magnitude.                                                              *)
(***************************************************************************)
EXTENDS Readers, FiniteSetTheorems, WellFoundedInduction, TLAPS

-----------------------------------------------------------------------------
(* What was read is the reading of the document. *)

Reading ==
  /\ doc \in Docs
  /\ Is("cell") => out = <<CoerceAmount(doc.amount)>>
  /\ Is("rows") => out = ParseRows(doc.heads, doc.rows)
  /\ Is("boq") => out = [t \in DOMAIN doc.tables |-> ParseBoqTable(doc.tables[t])]

LEMMA ReadingIs == Spec => []Reading
<1>1. Init => Reading
  BY DEF Init, Reading, Is
<1>2. Reading /\ [Next]_<<doc, out>> => Reading'
  <2> SUFFICES ASSUME Reading, [Next]_<<doc, out>> PROVE Reading'
    OBVIOUS
  <2>1. CASE ReadCell
    BY <2>1 DEF ReadCell, Reads, Reading, Is
  <2>2. CASE ReadRows
    BY <2>2 DEF ReadRows, Reads, Reading, Is
  <2>3. CASE ReadBoq
    BY <2>3 DEF ReadBoq, Reads, Reading, Is
  <2>4. CASE ReadSheets \/ ReadText \/ ReadMetadata \/ ReadSeed
    <3>1. doc' = doc /\ doc.reader \in {"sheets", "text", "metadata", "seed"}
      BY <2>4 DEF ReadSheets, ReadText, ReadMetadata, ReadSeed, Reads
    <3> QED BY <3>1 DEF Reading, Is
  <2>5. CASE UNCHANGED <<doc, out>>
    BY <2>5 DEF Reading, Is
  <2> QED BY <2>1, <2>2, <2>3, <2>4, <2>5 DEF Next
<1> QED BY <1>1, <1>2, PTL DEF Spec

-----------------------------------------------------------------------------
(* Amounts. *)

LEMMA FactorIs ==
  ASSUME NEW unit
  PROVE  Factor(unit) \in Nat
<1>1. CASE unit = "crore"
  BY <1>1 DEF Factor
<1>2. CASE unit = "lakh"
  BY <1>2 DEF Factor
<1>3. CASE unit # "crore" /\ unit # "lakh"
  BY <1>3 DEF Factor
<1> QED BY <1>1, <1>2, <1>3

\* Wherever its unit stands, an amount is read at the magnitude it is written with, or not at
\* all, unless the unit is one nobody knows and stands where the code does not look.
THEOREM MagnitudesStand == Spec => []UnitIsHonoured
<1>1. Reading => UnitIsHonoured
  <2> SUFFICES ASSUME Reading, Is("cell"), doc.amount.unit = "other" => InSight(doc.amount)
               PROVE  MagnitudeStands(doc.amount)
    BY DEF UnitIsHonoured
  <2>1. PICK w : w = doc.amount
    OBVIOUS
  <2>2. w \in Written
    BY <2>1, ReadersAssumption DEF Reading, Is
  <2>3. out[1] = CoerceAmount(w)
    BY <2>1 DEF Reading
  <2>4. CASE w.unit = "other"
    BY <2>1, <2>3, <2>4 DEF CoerceAmount, Refused, MagnitudeStands
  <2>5. CASE w.unit # "other"
    <3>1. PICK g : g = [w EXCEPT !.place = IF @ = "against" THEN "next" ELSE @]
      OBVIOUS
    <3>2. g.place # "against" /\ g.n = w.n /\ g.unit = w.unit
      BY <2>2, <3>1 DEF Written
    <3>3. out[1] = ParseAmount(g)
      BY <2>3, <2>5, <3>1 DEF CoerceAmount, Refused
    <3>4. out[1] = NonNegative(w.n * Factor(w.unit))
      BY <3>2, <3>3 DEF ParseAmount
    <3>5. out[1] \in {None, w.n * Factor(w.unit)}
      BY <3>4 DEF NonNegative
    <3> QED BY <2>1, <2>5, <3>5 DEF MagnitudeStands
  <2> QED BY <2>4, <2>5
<1> QED BY <1>1, ReadingIs, PTL

-----------------------------------------------------------------------------
(* Workbooks. *)

LEMMA MaxOfOne ==
  ASSUME NEW n \in Int
  PROVE  Max({n}) = n /\ Min({n}) = n
BY DEF Max, Min

\* A value under a heading no other column shares is in the record that has its row's number,
\* for workbooks of any width and length.
THEOREM RowsStand == Spec => []RowsStandWhereTheySay
<1>1. Reading => RowsStandWhereTheySay
  <2> SUFFICES ASSUME Reading, Is("rows"), NEW r \in DOMAIN doc.rows,
                      NEW c \in DOMAIN doc.heads \cap DOMAIN doc.rows[r],
                      AloneInField(c), doc.rows[r][c] # None
               PROVE  Kept(r, c)
    BY DEF RowsStandWhereTheySay
  <2>1. PICK heads, rows : heads = doc.heads /\ rows = doc.rows
    OBVIOUS
  <2>2. PICK row : row = rows[r]
    OBVIOUS
  <2>3. PICK f : f = Resolve(heads[c])
    OBVIOUS
  <2>4. c \in DOMAIN heads /\ c \in DOMAIN row /\ heads[c] # None /\ row[c] # None
    BY <2>1, <2>2 DEF AloneInField
  <2>5. DOMAIN heads = 1..Len(heads)
    BY <2>1, ReadersAssumption DEF Reading, Is
  <2>6. c \in Int
    BY <2>4, <2>5
  <2>7. {i \in DOMAIN heads \cap DOMAIN row : heads[i] # None /\ Resolve(heads[i]) = f} = {c}
    BY <2>1, <2>3, <2>4 DEF AloneInField
  <2>8. PICK record : record = RowRecord(heads, row)
    OBVIOUS
  <2>9. f \in DOMAIN record /\ record[f] = row[c]
    <3>1. f \in {Resolve(heads[i]) : i \in {k \in DOMAIN heads \cap DOMAIN row : heads[k] # None}}
      BY <2>3, <2>4
    <3>2. row[Max({c})] = row[c]
      BY <2>6, MaxOfOne
    <3> QED BY <2>7, <2>8, <3>1, <3>2 DEF RowRecord
  <2>10. ~IsBlank(record)
    BY <2>4, <2>9 DEF IsBlank
  <2>11. r \in FullRows(heads, rows)
    BY <2>1, <2>2, <2>8, <2>10 DEF FullRows
  <2>12. PICK kept : kept = Numbered(record, r + 1)
    OBVIOUS
  <2>13. kept \in ParseRows(heads, rows)
    BY <2>2, <2>8, <2>11, <2>12 DEF ParseRows
  <2>14. kept.at = r + 1 /\ kept.record = record
    BY <2>12 DEF Numbered
  <2>15. out = ParseRows(heads, rows)
    BY <2>1 DEF Reading
  <2> QED BY <2>1, <2>2, <2>3, <2>9, <2>13, <2>14, <2>15 DEF Kept
<1> QED BY <1>1, ReadingIs, PTL

-----------------------------------------------------------------------------
(* Bills of quantities: the fold of DetectColumns, one column at a time. *)

\* A set of natural numbers has a least element.
LEMMA Least ==
  ASSUME NEW S \in SUBSET Nat, S # {}
  PROVE  \E n \in S : \A m \in S : n <= m
<1>1. PICK R : R = OpToRel(<, Nat)
  OBVIOUS
<1>2. \A x, y \in Nat : <<x, y>> \in R <=> x < y
  BY <1>1 DEF OpToRel
<1>3. IsWellFoundedOn(R, Nat)
  BY <1>1, NatLessThanWellFounded
<1>4. PICK n \in S : \A m \in S : <<m, n>> \notin R
  BY <1>3, WFMin
<1>5. \A m \in S : n \in Nat /\ m \in Nat /\ ~(m < n)
  BY <1>2, <1>4
<1> QED BY <1>5

LEMMA MaxIs ==
  ASSUME NEW n \in Nat, NEW s \in SUBSET (1..n), n \in s
  PROVE  Max(s) = n
<1>1. n \in s /\ \A m \in s : n >= m
  OBVIOUS
<1>2. \A x \in s : (\A m \in s : x >= m) => x = n
  OBVIOUS
<1> QED BY <1>1, <1>2 DEF Max

\* f gives the columns found among any subset of the first n, the last of them last.
Over(row, at, n, f) ==
  f = [s \in SUBSET (1..n) |->
         IF s = {} THEN <<>> ELSE Roled(f[s \ {Max(s)}], row[at[Max(s)]], at[Max(s)])]

LEMMA OverExists ==
  ASSUME NEW row, NEW at, NEW n \in Nat
  PROVE  \E f : Over(row, at, n, f)
<1> DEFINE bad == {m \in Nat : ~\E f : Over(row, at, m, f)}
<1> SUFFICES ASSUME bad # {} PROVE FALSE
  OBVIOUS
<1>1. PICK m \in bad : \A k \in bad : m <= k
  <2>1. bad \in SUBSET Nat
    OBVIOUS
  <2> HIDE DEF bad
  <2> QED BY <2>1, Least
<1>2. m # 0
  <2>1. Over(row, at, 0, [s \in SUBSET (1..0) |-> <<>>])
    BY DEF Over
  <2> QED BY <2>1
<1>3. m - 1 \in Nat /\ m - 1 \notin bad
  BY <1>1, <1>2
<1>4. PICK f : Over(row, at, m - 1, f)
  BY <1>3
<1> DEFINE value(s) == IF m \in s THEN Roled(f[s \ {m}], row[at[m]], at[m]) ELSE f[s]
<1>5. PICK g : g = [s \in SUBSET (1..m) |-> value(s)]
  OBVIOUS
<1>6. ASSUME NEW s \in SUBSET (1..m)
      PROVE  g[s] = IF s = {} THEN <<>> ELSE Roled(g[s \ {Max(s)}], row[at[Max(s)]], at[Max(s)])
  <2>1. CASE m \in s
    <3>1. Max(s) = m /\ s \ {m} \in SUBSET (1..m) /\ s # {}
      BY <1>1, <2>1, MaxIs
    <3>2. g[s] = Roled(f[s \ {m}], row[at[m]], at[m]) /\ g[s \ {m}] = f[s \ {m}]
      BY <1>5, <2>1, <3>1
    <3> QED BY <3>1, <3>2
  <2>2. CASE m \notin s
    <3>1. s \in SUBSET (1..m - 1) /\ s \ {Max(s)} \in SUBSET (1..m) /\ m \notin s \ {Max(s)}
      <4>1. m \in Nat /\ \A x \in s : x \in 1..m /\ x # m
        BY <2>2
      <4>2. \A x \in s : x \in 1..m - 1
        BY <4>1
      <4> QED BY <2>2, <4>2
    <3>2. g[s] = f[s] /\ g[s \ {Max(s)}] = f[s \ {Max(s)}]
      BY <1>5, <2>2, <3>1
    <3>3. f[s] = IF s = {} THEN <<>> ELSE Roled(f[s \ {Max(s)}], row[at[Max(s)]], at[Max(s)])
      BY <1>4, <3>1 DEF Over
    <3> QED BY <3>2, <3>3
  <2> QED BY <2>1, <2>2
<1>7. Over(row, at, m, g)
  <2>1. g = [s \in SUBSET (1..m) |-> g[s]]
    BY <1>5
  <2> QED BY <1>6, <2>1 DEF Over
<1> QED BY <1>1, <1>7

Places(row) == [i \in DOMAIN row |-> i]

\* The columns found among the first k.
ColumnsUpTo(row, k) == (CHOOSE f : Over(row, Places(row), Len(row), f))[1..k]

LEMMA ColumnsUpToIs ==
  ASSUME NEW row, Len(row) \in Nat, DOMAIN row = 1..Len(row)
  PROVE  /\ ColumnsUpTo(row, 0) = <<>>
         /\ \A k \in 1..Len(row) : ColumnsUpTo(row, k) = Roled(ColumnsUpTo(row, k - 1), row[k], k)
<1>1. PICK f : Over(row, Places(row), Len(row), f) /\ \A k : ColumnsUpTo(row, k) = f[1..k]
  BY OverExists DEF ColumnsUpTo
<1>2. f[1..0] = <<>>
  BY <1>1 DEF Over
<1>3. ASSUME NEW k \in 1..Len(row)
      PROVE  f[1..k] = Roled(f[1..k - 1], row[k], k)
  <2>1. 1..k \in SUBSET (1..Len(row)) /\ 1..k # {} /\ Max(1..k) = k /\ (1..k) \ {k} = 1..k - 1
    BY MaxIs
  <2>2. Places(row)[k] = k
    BY DEF Places
  <2> QED BY <1>1, <2>1, <2>2 DEF Over
<1> QED BY <1>1, <1>2, <1>3

LEMMA FoldIs ==
  ASSUME NEW row, Len(row) \in Nat, DOMAIN row = 1..Len(row)
  PROVE  FoldLeftDomain(LAMBDA acc, c : Roled(acc, row[c], c), <<>>, row) = ColumnsUpTo(row, Len(row))
<1>1. DOMAIN [i \in DOMAIN row |-> i] = 1..Len(row)
  OBVIOUS
<1> QED BY <1>1 DEF FoldLeftDomain, FoldLeft, MapThenFoldSet, Over, ColumnsUpTo, Places

-----------------------------------------------------------------------------
(* Under headings of one meaning each, a column has the role it is headed with. *)

RoleNames == Range(Roles)
Rows == Seq(BoqCells)

LEMMA RolesAre ==
  /\ DOMAIN Roles = 1..7 /\ IsFiniteSet(RoleNames)
  /\ RoleNames = {Roles[i] : i \in 1..7}
  /\ \A i, j \in 1..7 : Roles[i] = Roles[j] => i = j
  /\ Figures \cup {"description"} \subseteq RoleNames
<1>1. DOMAIN Roles = 1..7
  BY DEF Roles
<1>2. RoleNames = {Roles[i] : i \in 1..7}
  BY <1>1 DEF RoleNames, Range
<1>3. \A i, j \in 1..7 : Roles[i] = Roles[j] => i = j
  BY DEF Roles
<1>4. IsFiniteSet(RoleNames)
  <2>1. Roles \in Surjection(1..7, RoleNames)
    <3>1. Roles = [i \in 1..7 |-> Roles[i]]
      BY DEF Roles
    <3>2. \A i \in 1..7 : Roles[i] \in RoleNames
      BY <1>2
    <3>3. \A role \in RoleNames : \E i \in 1..7 : Roles[i] = role
      BY <1>2
    <3>4. Roles \in [1..7 -> RoleNames]
      BY ONLY <3>1, <3>2
    <3> QED BY <3>3, <3>4 DEF Surjection
  <2>2. IsFiniteSet(1..7)
    <3>1. PICK n \in Nat : n = 7
      OBVIOUS
    <3>2. 1 \in Int /\ n \in Int
      BY ONLY <3>1
    <3>3. IsFiniteSet(1..n)
      BY ONLY <3>2, FS_Interval
    <3> QED BY <3>1, <3>3
  <2> QED BY <2>1, <2>2, FS_Surjection
<1>5. Figures \cup {"description"} \subseteq RoleNames
  <2>1. /\ Roles[2] = "description" /\ Roles[4] = "quantity" /\ Roles[5] = "unit_rate"
        /\ Roles[6] = "amount" /\ 2 \in 1..7 /\ 4 \in 1..7 /\ 5 \in 1..7 /\ 6 \in 1..7
    BY DEF Roles
  <2> QED BY <1>2, <2>1 DEF Figures
<1> QED BY <1>1, <1>2, <1>3, <1>4, <1>5

LEMMA OneRole ==
  ASSUME NEW row \in Rows, PlainHeading(row), NEW c \in DOMAIN row
  PROVE  row[c].roles = {} \/ \E role \in RoleNames : row[c].roles = {role}
<1>1. PICK roles : roles = row[c].roles
  OBVIOUS
<1>2. roles \in SUBSET RoleNames
  <2>1. row[c] \in BoqCells
    BY DEF Rows
  <2>2. row[c].roles \in SUBSET Range(Roles)
    BY <2>1 DEF BoqCells
  <2> QED BY <1>1, <2>2 DEF RoleNames
<1>3. IsFiniteSet(roles)
  BY <1>2, RolesAre, FS_Subset
<1>4. Cardinality(roles) \in Nat /\ Cardinality(roles) <= 1
  BY <1>1, <1>3, FS_CardinalityType DEF PlainHeading
<1>5. CASE Cardinality(roles) = 0
  BY <1>1, <1>3, <1>5, FS_EmptySet
<1>6. CASE Cardinality(roles) = 1
  <2>1. \E x : roles = {x}
    BY <1>3, <1>6, FS_Singleton
  <2> QED BY <1>1, <1>2, <2>1
<1> QED BY <1>4, <1>5, <1>6

\* "columns" is each role among the first k headings, at its heading.
AsHeaded(row, k, columns) ==
  /\ columns \in [{role \in RoleNames : \E c \in 1..k : row[c].roles = {role}} -> Nat]
  /\ \A c \in 1..k : \A role \in RoleNames : row[c].roles = {role} => columns[role] = c

LEMMA OneMoreHeading ==
  ASSUME NEW row \in Rows, PlainHeading(row), NEW k \in 1..Len(row), NEW columns,
         AsHeaded(row, k - 1, columns)
  PROVE  AsHeaded(row, k, Roled(columns, row[k], k))
<1>1. DOMAIN row = 1..Len(row) /\ Len(row) \in Nat
  BY DEF Rows
<1>2. PICK cell : cell = row[k]
  OBVIOUS
<1>3. PICK free : free = {i \in DOMAIN Roles : Roles[i] \in cell.roles \ DOMAIN columns}
  OBVIOUS
<1>4. \A c \in 1..k : c \in 1..k - 1 \/ c = k
  OBVIOUS
<1>5. CASE cell.roles = {}
  <2>1. free = {}
    BY <1>3, <1>5
  <2>2. Roled(columns, cell, k) = columns
    BY <1>3, <2>1 DEF Roled
  <2>3. \A role \in RoleNames : (\E c \in 1..k : row[c].roles = {role})
                                <=> \E c \in 1..k - 1 : row[c].roles = {role}
    <3>1. \A role : row[k].roles # {role}
      BY <1>2, <1>5
    <3>2. k \in 1..k /\ \A c \in 1..k - 1 : c \in 1..k
      OBVIOUS
    <3> QED BY <1>4, <3>1, <3>2
  <2>4. \A c \in 1..k : \A role \in RoleNames : row[c].roles = {role} => columns[role] = c
    BY <1>2, <1>4, <1>5 DEF AsHeaded
  <2>5. columns \in [{role \in RoleNames : \E c \in 1..k - 1 : row[c].roles = {role}} -> Nat]
    BY DEF AsHeaded
  <2>6. {role \in RoleNames : \E c \in 1..k - 1 : row[c].roles = {role}}
        = {role \in RoleNames : \E c \in 1..k : row[c].roles = {role}}
    BY <2>3, Zenon
  <2>7. AsHeaded(row, k, columns)
    BY <2>4, <2>5, <2>6 DEF AsHeaded
  <2> QED BY <1>2, <2>2, <2>7
<1>6. CASE cell.roles # {}
  <2>1. PICK name \in RoleNames : cell.roles = {name}
    BY <1>1, <1>2, <1>6, OneRole
  <2>2. PICK i \in 1..7 : Roles[i] = name
    BY RolesAre
  <2>3. \A c \in 1..k - 1 : row[c].roles # {name}
    BY <1>1, <1>2, <2>1 DEF PlainHeading
  <2>4. PICK before : before = {role \in RoleNames : \E c \in 1..k - 1 : row[c].roles = {role}}
    OBVIOUS
  <2>5. columns \in [before -> Nat] /\ name \notin before
    BY <2>3, <2>4 DEF AsHeaded
  <2>6. free = {i}
    BY <1>3, <2>1, <2>2, <2>5, RolesAre
  <2>7. Roles[Min(free)] = name
    <3>1. i \in Int
      OBVIOUS
    <3>2. Min({i}) = i
      BY ONLY <3>1, MaxOfOne
    <3> QED BY <2>2, <2>6, <3>2
  <2>8. PICK more : more = [r \in before \cup {name} |-> IF r = name THEN k ELSE columns[r]]
    OBVIOUS
  <2>9. Roled(columns, cell, k) = more
    <3>1. free # {} /\ DOMAIN columns = before
      BY <2>5, <2>6
    <3> QED BY <1>3, <2>7, <2>8, <3>1 DEF Roled
  <2>10. before \cup {name} = {role \in RoleNames : \E c \in 1..k : row[c].roles = {role}}
    <3>1. \A role \in RoleNames : (\E c \in 1..k : row[c].roles = {role})
                                  <=> role = name \/ \E c \in 1..k - 1 : row[c].roles = {role}
      <4> SUFFICES ASSUME NEW role \in RoleNames
                   PROVE  (\E c \in 1..k : row[c].roles = {role})
                          <=> role = name \/ \E c \in 1..k - 1 : row[c].roles = {role}
        OBVIOUS
      <4>1. row[k].roles = {role} <=> role = name
        BY <1>2, <2>1
      <4>2. k \in 1..k /\ \A c \in 1..k - 1 : c \in 1..k
        OBVIOUS
      <4> QED BY <1>4, <4>1, <4>2
    <3> QED BY <2>4, <3>1
  <2>11. more \in [before \cup {name} -> Nat]
    BY <2>5, <2>8
  <2>12. ASSUME NEW c \in 1..k, NEW role \in RoleNames, row[c].roles = {role}
         PROVE  more[role] = c
    <3>1. CASE c = k
      BY <1>2, <2>1, <2>8, <2>12, <3>1
    <3>2. CASE c \in 1..k - 1
      <4>1. role \in before /\ columns[role] = c /\ role # name
        BY <2>3, <2>4, <2>12, <3>2 DEF AsHeaded
      <4> QED BY <2>8, <4>1
    <3> QED BY <1>4, <3>1, <3>2
  <2>13. AsHeaded(row, k, more)
    BY <2>10, <2>11, <2>12 DEF AsHeaded
  <2> QED BY <1>2, <2>9, <2>13
<1> QED BY <1>5, <1>6

LEMMA HeadingsAre ==
  ASSUME NEW row \in Rows, PlainHeading(row), NEW n \in 0..Len(row)
  PROVE  AsHeaded(row, n, ColumnsUpTo(row, n))
<1>1. DOMAIN row = 1..Len(row) /\ Len(row) \in Nat
  BY DEF Rows
<1> DEFINE bad == {k \in 0..Len(row) : ~AsHeaded(row, k, ColumnsUpTo(row, k))}
<1> SUFFICES ASSUME bad # {} PROVE FALSE
  OBVIOUS
<1>2. PICK k \in bad : \A m \in bad : k <= m
  <2>1. bad \in SUBSET Nat
    BY <1>1
  <2> HIDE DEF bad
  <2> QED BY <2>1, Least
<1>3. k # 0
  <2>1. AsHeaded(row, 0, <<>>)
    BY DEF AsHeaded
  <2> QED BY <1>1, <2>1, ColumnsUpToIs
<1>4. k \in 1..Len(row) /\ k - 1 \in 0..Len(row) /\ k - 1 \notin bad
  BY <1>1, <1>2, <1>3
<1>5. AsHeaded(row, k - 1, ColumnsUpTo(row, k - 1))
  BY <1>4
<1>6. AsHeaded(row, k, Roled(ColumnsUpTo(row, k - 1), row[k], k))
  BY <1>4, <1>5, OneMoreHeading
<1>7. ColumnsUpTo(row, k) = Roled(ColumnsUpTo(row, k - 1), row[k], k)
  BY <1>1, <1>4, ColumnsUpToIs
<1> QED BY <1>2, <1>6, <1>7

\* A plain heading is found to be one where it has a description and a figure, and its columns
\* are where it heads them.
LEMMA ColumnsDetected ==
  ASSUME NEW row \in Rows, PlainHeading(row),
         \E c \in DOMAIN row : row[c].roles = {"description"},
         \E f \in Figures : \E c \in DOMAIN row : row[c].roles = {f}
  PROVE  /\ DetectColumns(row) # None
         /\ DOMAIN DetectColumns(row) = {role \in RoleNames : \E c \in DOMAIN row : row[c].roles = {role}}
         /\ \A c \in DOMAIN row : \A role \in RoleNames :
              row[c].roles = {role} => DetectColumns(row)[role] = c
<1>1. DOMAIN row = 1..Len(row) /\ Len(row) \in Nat
  BY DEF Rows
<1>2. PICK columns : columns = ColumnsUpTo(row, Len(row))
  OBVIOUS
<1>3. AsHeaded(row, Len(row), columns)
  BY <1>1, <1>2, HeadingsAre
<1>4. PICK roles : roles = {role \in RoleNames : \E c \in DOMAIN row : row[c].roles = {role}}
  OBVIOUS
<1>5. columns \in [roles -> Nat]
  BY <1>1, <1>3, <1>4 DEF AsHeaded
<1>6. columns # None
  <2>1. roles \in SUBSET Range(Roles)
    BY <1>4 DEF RoleNames
  <2> QED BY <1>5, <2>1, NoneIsNothing
<1>7. "description" \in roles /\ roles \cap Figures # {}
  BY <1>4, RolesAre
<1>8. DetectColumns(row) = columns
  <2>1. FoldLeftDomain(LAMBDA acc, c : Roled(acc, row[c], c), <<>>, row) = columns
    BY <1>1, <1>2, FoldIs
  <2>2. DOMAIN columns = roles
    BY <1>5
  <2> QED BY <1>7, <2>1, <2>2 DEF DetectColumns
<1>9. \A c \in DOMAIN row : \A role \in RoleNames : row[c].roles = {role} => columns[role] = c
  BY <1>1, <1>3 DEF AsHeaded
<1> QED BY <1>4, <1>5, <1>6, <1>8, <1>9

LEMMA LeastIsOne ==
  ASSUME NEW n \in Nat, NEW s \in SUBSET (1..n), 1 \in s
  PROVE  Min(s) = 1
<1>1. 1 \in s /\ \A m \in s : 1 <= m
  OBVIOUS
<1>2. \A x \in s : (\A m \in s : x <= m) => x = 1
  OBVIOUS
<1> QED BY <1>1, <1>2 DEF Min

\* The items below a heading in the first row.
ItemRows(rows, columns) == {r \in 2..Len(rows) : IsItem(rows[r], columns)}
ItemsBelow(rows, columns) == [r \in ItemRows(rows, columns) |-> BoqItem(rows[r], columns)]

LEMMA TableIs ==
  ASSUME NEW rows, rows \in Seq(Rows), rows # <<>>, DetectColumns(rows[1]) # None
  PROVE  ParseBoqTable(rows) = ItemsBelow(rows, DetectColumns(rows[1]))
<1>1. DOMAIN rows = 1..Len(rows) /\ Len(rows) \in Nat /\ 1 \in DOMAIN rows
  OBVIOUS
<1>2. PICK columns : columns = DetectColumns(rows[1])
  OBVIOUS
<1>3. PICK headings : headings = {h \in DOMAIN rows : DetectColumns(rows[h]) # None}
  OBVIOUS
<1>4. 1 \in headings /\ headings \in SUBSET (1..Len(rows))
  BY <1>1, <1>3
<1>5. Min(headings) = 1
  BY <1>1, <1>4, LeastIsOne
<1>6. ItemRows(rows, columns) = {r \in DOMAIN rows : headings # {} /\ r > 1 /\ IsItem(rows[r], columns)}
  BY <1>1, <1>4 DEF ItemRows
<1> QED BY <1>2, <1>3, <1>5, <1>6 DEF ParseBoqTable, ItemsBelow

\* Under headings of one meaning each, with a description and a figure among them, a table's items
\* are its described rows, no row more and none less, each with the numbers of its own row under
\* those headings, whatever the order of the columns and however many tables a bill has.
THEOREM BillsFollowHeadings == Spec => []BoqFollowsHeading
<1>1. Reading => BoqFollowsHeading
  <2> DEFINE ColumnOf(t, role) == {c \in DOMAIN doc.tables[t][1] : doc.tables[t][1][c].roles = {role}}
             Described(t, row) ==
               \E c \in ColumnOf(t, "description") \cap DOMAIN row : ~row[c].blank /\ ~row[c].total
  <2> SUFFICES ASSUME Reading, Is("boq"), NEW t \in DOMAIN doc.tables, doc.tables[t] # <<>>,
                      PlainHeading(doc.tables[t][1]), ColumnOf(t, "description") # {},
                      \E f \in Figures : ColumnOf(t, f) # {}
               PROVE  /\ DOMAIN out[t] = {r \in 2..Len(doc.tables[t]) : Described(t, doc.tables[t][r])}
                      /\ \A r \in DOMAIN out[t] : \A f \in Figures : \A c \in ColumnOf(t, f) :
                           out[t][r][f] = (IF c \in DOMAIN doc.tables[t][r] /\ ~doc.tables[t][r][c].blank
                                           THEN doc.tables[t][r][c].n ELSE None)
    BY DEF BoqFollowsHeading
  <2>1. PICK rows : rows = doc.tables[t]
    OBVIOUS
  <2>2. doc.tables \in Seq(Seq(Rows))
    BY ReadersAssumption DEF Reading, Is, Rows
  <2>3. rows \in Seq(Rows) /\ rows # <<>>
    BY <2>1, <2>2
  <2>4. DOMAIN rows = 1..Len(rows) /\ Len(rows) \in Nat /\ 1 \in DOMAIN rows
    BY <2>3
  <2>5. PICK head : head = rows[1]
    OBVIOUS
  <2>6. head \in Rows /\ \A r \in DOMAIN rows : rows[r] \in Rows
    BY <2>3, <2>4, <2>5
  <2>7. PICK columns : columns = DetectColumns(head)
    OBVIOUS
  <2>8. /\ \E c \in DOMAIN head : head[c].roles = {"description"}
        /\ \E f \in Figures : \E c \in DOMAIN head : head[c].roles = {f}
        /\ PlainHeading(head)
    BY <2>1, <2>5
  <2>9. /\ columns # None
        /\ DOMAIN columns = {role \in RoleNames : \E c \in DOMAIN head : head[c].roles = {role}}
        /\ \A c \in DOMAIN head : \A role \in RoleNames : head[c].roles = {role} => columns[role] = c
    <3>1. head \in Rows
      BY <2>6
    <3>2. /\ DetectColumns(head) # None
          /\ DOMAIN DetectColumns(head)
             = {role \in RoleNames : \E c \in DOMAIN head : head[c].roles = {role}}
          /\ \A c \in DOMAIN head : \A role \in RoleNames :
               head[c].roles = {role} => DetectColumns(head)[role] = c
      BY ONLY <2>8, <3>1, ColumnsDetected
    <3> QED BY ONLY <2>7, <3>2
  <2>10. PICK items : items = ItemRows(rows, columns)
    OBVIOUS
  <2>11. out[t] = [r \in items |-> BoqItem(rows[r], columns)]
    <3>1. ParseBoqTable(rows) = ItemsBelow(rows, columns)
      BY ONLY <2>3, <2>5, <2>7, <2>9, TableIs
    <3>2. ItemsBelow(rows, columns) = [r \in items |-> BoqItem(rows[r], columns)]
      BY <2>10 DEF ItemsBelow
    <3>3. out[t] = ParseBoqTable(rows)
      BY <2>1 DEF Reading
    <3> QED BY ONLY <3>1, <3>2, <3>3
  <2>12. ASSUME NEW r \in DOMAIN rows, NEW role \in RoleNames, NEW c \in ColumnOf(t, role)
         PROVE  /\ c \in DOMAIN rows[r] => BoqCell(rows[r], columns, role) = rows[r][c]
                                           /\ rows[r][c] \in BoqCells /\ rows[r][c] # None
                /\ c \notin DOMAIN rows[r] => BoqCell(rows[r], columns, role) = None
    <3>1. c \in DOMAIN head /\ head[c].roles = {role}
      BY <2>1, <2>5
    <3>2. role \in DOMAIN columns /\ columns[role] = c
      BY <2>9, <3>1
    <3>3. rows[r] \in Rows
      BY <2>6
    <3>4. c \in DOMAIN rows[r] => rows[r][c] \in BoqCells
      BY <3>3 DEF Rows
    <3> QED BY <3>2, <3>4, NoneIsNothing DEF BoqCell
  <2>13. ASSUME NEW r \in DOMAIN rows
         PROVE  IsItem(rows[r], columns) <=> Described(t, rows[r])
    <3>1. PICK c \in ColumnOf(t, "description") : TRUE
      OBVIOUS
    <3>2. "description" \in RoleNames
      BY RolesAre
    <3>3. \A d \in ColumnOf(t, "description") : d = c
      BY <2>1, <2>5, <2>9, <3>2
    <3>4. CASE c \in DOMAIN rows[r]
      BY <2>12, <3>1, <3>2, <3>3, <3>4 DEF IsItem
    <3>5. CASE c \notin DOMAIN rows[r]
      BY <2>12, <3>1, <3>2, <3>3, <3>5 DEF IsItem
    <3> QED BY <3>4, <3>5
  <2>14. items = {r \in 2..Len(rows) : Described(t, rows[r])}
    <3> HIDE DEF Described
    <3>1. \A r \in 2..Len(rows) : r \in DOMAIN rows
      BY <2>4
    <3> QED BY <2>10, <2>13, <3>1 DEF ItemRows
  <2>15. ASSUME NEW r \in items, NEW f \in Figures, NEW c \in ColumnOf(t, f)
         PROVE  out[t][r][f] = IF c \in DOMAIN rows[r] /\ ~rows[r][c].blank THEN rows[r][c].n ELSE None
    <3>1. r \in DOMAIN rows
      BY <2>4, <2>10 DEF ItemRows
    <3>2. f \in RoleNames
      BY RolesAre
    <3>3. out[t][r][f] = Figure(rows[r], columns, f)
      BY <2>11 DEF BoqItem
    <3>4. CASE c \in DOMAIN rows[r]
      BY <2>12, <3>1, <3>2, <3>3, <3>4 DEF Figure
    <3>5. CASE c \notin DOMAIN rows[r]
      BY <2>12, <3>1, <3>2, <3>3, <3>5 DEF Figure
    <3> QED BY <3>4, <3>5
  <2>16. DOMAIN out[t] = items
    BY <2>11
  <2> HIDE DEF ColumnOf, Described
  <2> QED BY <2>1, <2>14, <2>15, <2>16
<1> QED BY <1>1, ReadingIs, PTL
=============================================================================
