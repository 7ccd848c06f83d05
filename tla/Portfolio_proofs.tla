-------------------------- MODULE Portfolio_proofs --------------------------
(***************************************************************************)
(* Theorems about Portfolio, for any portfolio, seed and tender: types and *)
(* foreign keys; the averaging window; that a failed screen never rested   *)
(* on an unknown; the similar-work rule as a count; the turnover asked for *)
(* never below the exact quotient; and that more evidence never hurts.     *)
(***************************************************************************)
EXTENDS Portfolio, FiniteSetTheorems, TLAPS

Record == [text : Texts, active : BOOLEAN]

(***************************************************************************)
(* Types.                                                                  *)
(***************************************************************************)
Known == {t \in Types : workTypes[t] # None}
AmountSet == {Certified[z] : z \in DOMAIN Certified} \cup {e[2] : e \in Amounts}

\* The tables TypeOK speaks of, one by one.
TaxonomyOK ==
  /\ workTypes \in [Types -> Record \cup {None}]
  /\ alias \in [Phrases -> Known \cup {None}]
RegistryOK ==
  /\ project \in [Projects -> AllRows \cup {None}]
  /\ tags \subseteq Live \X Known
TurnoverOK ==
  /\ DOMAIN turnover \subseteq Nat
  /\ \A y \in DOMAIN turnover : turnover[y] \in AmountSet
TenderOK ==
  /\ tender \in [value : Values \cup {None}, closing : Closings \cup {None}]
  /\ metadata \in Metadata
  /\ vectors \in BOOLEAN

LEMMA TypeParts == TypeOK <=> TaxonomyOK /\ RegistryOK /\ TurnoverOK /\ TenderOK
  BY DEF TypeOK, TaxonomyOK, RegistryOK, TurnoverOK, TenderOK, Record, Known, AmountSet

LEMMA TypePartsNext ==
  ASSUME TaxonomyOK', RegistryOK', TurnoverOK', TenderOK'
  PROVE  TypeOK'
  BY DEF TypeOK, TaxonomyOK, RegistryOK, TurnoverOK, TenderOK, Record, Known, AmountSet

\* None is none of the values it stands beside.
LEMMA Distinct == None \notin Record /\ None \notin Types /\ \A p \in Projects : None \notin Rows[p]
  BY PortfolioAssumption DEF Record

\* Inputs are of the types of the tables they are written to.
LEMMA Inputs ==
  /\ \A t \in Types : TypeTexts[t] \subseteq Texts
  /\ \A use \in AliasUse : use[1] \in Phrases /\ use[2] \in Types
  /\ \A use \in TagUse : use = <<use[1], use[2]>> /\ use[1] \in Projects /\ use[2] \in Types
  BY PortfolioAssumption

\* The initial tables have their types.
LEMMA TypeInit == Init => TypeOK
  BY PortfolioAssumption
  DEF Init, TypeOK, Live, AllRows

\* An operation on a work type or an alias keeps the types of every table.
LEMMA TypeTaxonomy ==
  ASSUME TypeOK,
         \/ \E t \in Types : TypeStep(t)
         \/ \E use \in AliasUse : AddAlias(use[1], use[2])
         \/ \E a \in Phrases : RemoveAlias(a)
  PROVE  TypeOK'
<1> USE DEF Record, Known
<1>1. TaxonomyOK /\ RegistryOK /\ TurnoverOK /\ TenderOK
  BY TypeParts
<1>2. UNCHANGED <<project, tags, turnover, tender, metadata, vectors>>
  BY DEF TypeStep, CreateType, PatchType, Deactivate, AddAlias, RemoveAlias
<1>3. TurnoverOK' /\ TenderOK'
  BY <1>1, <1>2 DEF TurnoverOK, TenderOK, AmountSet
<1>4. Known \subseteq Known' /\ TaxonomyOK'
  <2>1. CASE \E t \in Types : TypeStep(t)
    <3>1. PICK t \in Types : TypeStep(t)
      BY <2>1
    <3>2. PICK row \in Record : workTypes' = [workTypes EXCEPT ![t] = row]
      <4>1. CASE \E text \in TypeTexts[t] : CreateType(t, text)
        BY <4>1, Inputs DEF CreateType
      <4>2. CASE \E text \in TypeTexts[t] : PatchType(t, text)
        BY <1>1, <4>2, Inputs DEF PatchType, TaxonomyOK
      <4>3. CASE Deactivate(t)
        BY <1>1, <4>3 DEF Deactivate, TaxonomyOK
      <4>4. QED
        BY <3>1, <4>1, <4>2, <4>3 DEF TypeStep
    <3>3. workTypes' \in [Types -> Record \cup {None}] /\ \A x \in Types :
            workTypes'[x] = IF x = t THEN row ELSE workTypes[x]
      BY <1>1, <3>2 DEF TaxonomyOK
    <3>4. Known \subseteq Known'
      BY <3>3, Distinct
    <3>5. alias' = alias
      BY <3>1 DEF TypeStep, CreateType, PatchType, Deactivate
    <3>6. QED
      BY <1>1, <3>3, <3>4, <3>5 DEF TaxonomyOK
  <2>2. CASE \E use \in AliasUse : AddAlias(use[1], use[2])
    BY <1>1, <2>2, Inputs DEF AddAlias, TaxonomyOK
  <2>3. CASE \E a \in Phrases : RemoveAlias(a)
    BY <1>1, <2>3 DEF RemoveAlias, TaxonomyOK
  <2>4. QED
    BY <2>1, <2>2, <2>3
<1>5. RegistryOK'
  BY <1>1, <1>2, <1>4 DEF RegistryOK, Live, AllRows
<1>6. QED
  BY <1>3, <1>4, <1>5, TypePartsNext

\* An operation on a project or a tag keeps the types of every table.
LEMMA TypeRegistry ==
  ASSUME TypeOK,
         \/ \E p \in Projects : ProjectStep(p)
         \/ \E use \in TagUse : TagProject(use[1], use[2]) \/ UntagProject(use[1], use[2])
  PROVE  TypeOK'
<1>1. TaxonomyOK /\ RegistryOK /\ TurnoverOK /\ TenderOK
  BY TypeParts
<1>2. UNCHANGED <<turnover, tender, metadata, vectors>>
  BY DEF ProjectStep, CreateProject, PatchProject, DeleteProject, TagProject, UntagProject
<1>3. TurnoverOK' /\ TenderOK'
  BY <1>1, <1>2 DEF TurnoverOK, TenderOK, AmountSet
<1>4. CASE \E p \in Projects : ProjectStep(p)
  <2>1. PICK p \in Projects : ProjectStep(p)
    BY <1>4
  <2>2. CASE \E row \in Rows[p] : CreateProject(p, row)
    <3>1. PICK row \in Rows[p] : CreateProject(p, row)
      BY <2>2
    <3>2. TaxonomyOK' /\ Known \subseteq Known'
      <4>1. CASE UNCHANGED taxonomy
        BY <1>1, <4>1 DEF taxonomy, TaxonomyOK, Known
      <4>2. CASE LoadSeed
        <5>1. \A t \in Seed.types : t \in Types /\ [text |-> Seed.text[t], active |-> TRUE] \in Record
          BY PortfolioAssumption DEF Record
        <5>2. /\ workTypes' \in [Types -> Record \cup {None}]
              /\ \A t \in Types : workTypes[t] # None => workTypes'[t] = workTypes[t]
              /\ \A t \in Seed.types : workTypes'[t] # None
          BY <1>1, <4>2, <5>1, Distinct DEF LoadSeed, TaxonomyOK
        <5>3. Known \subseteq Known' /\ Seed.types \subseteq Known'
          BY <5>1, <5>2 DEF Known
        <5>4. \A a \in Phrases : alias'[a] \in Known' \cup {None}
          <6>1. TAKE a \in Phrases
          <6>2. CASE alias[a] = None /\ \E t \in Seed.types : <<a, t>> \in Seed.alias
            <7>1. alias'[a] = CHOOSE t \in Seed.types : <<a, t>> \in Seed.alias
              BY <4>2, <6>2 DEF LoadSeed
            <7>2. alias'[a] \in Seed.types
              BY <6>2, <7>1
            <7>3. QED
              BY <5>3, <7>2
          <6>3. CASE ~(alias[a] = None /\ \E t \in Seed.types : <<a, t>> \in Seed.alias)
            <7>1. alias'[a] = alias[a]
              BY <4>2, <6>3 DEF LoadSeed
            <7>2. QED
              BY <1>1, <5>3, <7>1 DEF TaxonomyOK
          <6>4. QED
            BY <6>2, <6>3
        <5>5. alias' \in [Phrases -> Known' \cup {None}]
          BY <4>2, <5>4 DEF LoadSeed
        <5>6. QED
          BY <5>2, <5>3, <5>5 DEF TaxonomyOK
      <4>3. QED
        BY <3>1, <4>1, <4>2 DEF CreateProject, EnsureTaxonomy
    <3>3. RegistryOK'
      BY <1>1, <3>1, <3>2, Distinct DEF CreateProject, RegistryOK, Live, AllRows
    <3>4. QED
      BY <1>3, <3>2, <3>3, TypePartsNext
  <2>3. CASE \E row \in Rows[p] : PatchProject(p, row)
    <3>1. PICK row \in Rows[p] : PatchProject(p, row)
      BY <2>3
    <3>2. RegistryOK'
      BY <1>1, <3>1, Distinct DEF PatchProject, RegistryOK, Live, AllRows, Known
    <3>3. QED
      BY <1>1, <1>3, <3>1, <3>2, TypePartsNext DEF PatchProject, TaxonomyOK, Known
  <2>4. CASE DeleteProject(p)
    <3>1. RegistryOK'
      BY <1>1, <2>4 DEF DeleteProject, RegistryOK, Live, Known
    <3>2. QED
      BY <1>1, <1>3, <2>4, <3>1, TypePartsNext DEF DeleteProject, TaxonomyOK, Known
  <2>5. QED
    BY <2>1, <2>2, <2>3, <2>4 DEF ProjectStep
<1>5. CASE \E use \in TagUse : TagProject(use[1], use[2]) \/ UntagProject(use[1], use[2])
  <2>1. UNCHANGED <<workTypes, alias, project>> /\ tags' \subseteq Live \X Known
    BY <1>1, <1>5, Inputs DEF TagProject, UntagProject, RegistryOK, Live, Active, Known
  <2>2. TaxonomyOK' /\ RegistryOK'
    BY <1>1, <2>1 DEF TaxonomyOK, RegistryOK, Live, Known
  <2>3. QED
    BY <1>3, <2>2, TypePartsNext
<1>6. QED
  BY <1>4, <1>5

\* An operation on turnover, the tender or the vector store keeps the types.
LEMMA TypeFacts ==
  ASSUME TypeOK,
         \/ \E entry \in Amounts :
              RecordTurnover(entry[1], entry[2]) \/ AmendTurnover(entry[1], entry[2])
         \/ \E new \in [value : Values \cup {None}, closing : Closings \cup {None}] :
              PatchTender(new)
         \/ \E found \in Metadata : Extract(found)
         \/ VectorStore
  PROVE  TypeOK'
<1>1. TaxonomyOK /\ RegistryOK /\ TurnoverOK /\ TenderOK
  BY TypeParts
<1>2. UNCHANGED <<workTypes, alias, project, tags>>
  BY DEF RecordTurnover, AmendTurnover, PatchTender, Extract, VectorStore
<1>3. TaxonomyOK' /\ RegistryOK'
  BY <1>1, <1>2 DEF TaxonomyOK, RegistryOK, Known, Live
<1>4. TurnoverOK'
  <2>1. CASE \E entry \in Amounts : RecordTurnover(entry[1], entry[2])
    <3>1. PICK entry \in Amounts : RecordTurnover(entry[1], entry[2])
      BY <2>1
    <3>2. /\ DOMAIN turnover' = DOMAIN turnover \cup {entry[1]}
          /\ \A y \in DOMAIN turnover' : turnover'[y] = IF y = entry[1] THEN entry[2] ELSE turnover[y]
      BY <3>1 DEF RecordTurnover
    <3>3. entry[1] \in Nat /\ entry[2] \in AmountSet
      BY PortfolioAssumption DEF AmountSet
    <3>4. QED
      BY <1>1, <3>2, <3>3 DEF TurnoverOK, AmountSet
  <2>2. CASE \E entry \in Amounts : AmendTurnover(entry[1], entry[2])
    BY <1>1, <2>2 DEF AmendTurnover, TurnoverOK, AmountSet
  <2>3. CASE UNCHANGED turnover
    BY <1>1, <2>3 DEF TurnoverOK, AmountSet
  <2>4. QED
    BY <2>1, <2>2, <2>3 DEF PatchTender, Extract, VectorStore
<1>5. TenderOK'
  <2>1. CASE \E new \in [value : Values \cup {None}, closing : Closings \cup {None}] :
               PatchTender(new)
    BY <1>1, <2>1 DEF PatchTender, Prefer, TenderOK
  <2>2. CASE \E found \in Metadata : Extract(found)
    BY <1>1, <2>2 DEF Extract, TenderOK
  <2>3. CASE VectorStore
    BY <1>1, <2>3 DEF VectorStore, TenderOK
  <2>4. CASE UNCHANGED <<tender, metadata, vectors>>
    BY <1>1, <2>4 DEF TenderOK
  <2>5. QED
    BY <2>1, <2>2, <2>3, <2>4 DEF RecordTurnover, AmendTurnover
<1>6. QED
  BY <1>3, <1>4, <1>5, TypePartsNext

\* Every table keeps its type, and no alias or tag outlives the rows it names,
\* for any portfolio, seed and inputs.
THEOREM TypeCorrect == Spec => []TypeOK
<1>1. TypeOK /\ [Next]_vars => TypeOK'
  <2>1. ASSUME TypeOK, Next PROVE TypeOK'
    BY <2>1, TypeTaxonomy, TypeRegistry, TypeFacts DEF Next
  <2>2. ASSUME TypeOK, UNCHANGED vars PROVE TypeOK'
    BY <2>2 DEF vars, TypeOK, Live
  <2>3. QED
    BY <2>1, <2>2
<1>2. QED
  BY <1>1, TypeInit, PTL DEF Spec

(***************************************************************************)
(* The averaging window.                                                   *)
(***************************************************************************)
\* The window of the three completed years, in terms of a year's 31 March.
LEMMA Window ==
  ASSUME NEW d \in Dates, NEW y \in Nat
  PROVE  y \in CompletedYearsBefore(d, TURNOVER_AVERAGING_YEARS) <=>
           Earlier(EndDate(y), d) /\ ~Earlier(EndDate(y + TURNOVER_AVERAGING_YEARS), d)
<1>1. d.year \in Nat /\ d.month \in 1 .. 12 /\ d.day \in 1 .. 31
  BY DEF Dates
<1>2. LatestCompleted(d) \in Int
  BY <1>1 DEF LatestCompleted, FYContaining
<1>3. ASSUME NEW z \in Nat
      PROVE  Earlier(EndDate(z), d) <=> z <= LatestCompleted(d)
  BY <1>1 DEF Earlier, EndDate, LatestCompleted, FYContaining
<1>4. y + 3 \in Nat /\ (Earlier(EndDate(y + 3), d) <=> y + 3 <= LatestCompleted(d))
  BY <1>3
<1>5. QED
  BY <1>2, <1>3, <1>4 DEF CompletedYearsBefore, TURNOVER_AVERAGING_YEARS

\* Every closing date a tender or its metadata can have is a date.
LEMMA ClosingIsADate ==
  ASSUME TypeOK, Closing # None
  PROVE  Closing \in Dates
<1>1. tender.closing \in Closings \cup {None} /\ metadata \in Metadata
  BY DEF TypeOK
<1>2. QED
  BY <1>1, PortfolioAssumption DEF Closing, Prefer

\* For every closing date, the first and the last day of a financial year
\* included, turnover is averaged over the three latest years completed
\* strictly before it.
THEOREM WindowCorrect == Spec => []WindowIsCompletedYears
<1>1. TypeOK => WindowIsCompletedYears
  <2>1. SUFFICES ASSUME TypeOK, Closing # None, NEW y \in DOMAIN turnover
                 PROVE  (\E c \in TurnoverWindow : c.year = y) <=>
                          /\ Earlier(EndDate(y), Closing)
                          /\ ~Earlier(EndDate(y + TURNOVER_AVERAGING_YEARS), Closing)
    BY DEF WindowIsCompletedYears
  <2>2. Closing \in Dates
    BY <2>1, ClosingIsADate
  <2>3. y \in Nat
    BY <2>1 DEF TypeOK
  <2>4. (\E c \in TurnoverWindow : c.year = y) <=>
          y \in CompletedYearsBefore(Closing, TURNOVER_AVERAGING_YEARS)
    <3> DEFINE window == CompletedYearsBefore(Closing, TURNOVER_AVERAGING_YEARS)
               Row(z) == [year |-> z, amount |-> turnover[z]]
    <3>1. TurnoverWindow = {Row(z) : z \in window \cap DOMAIN turnover}
      BY <2>1, Zenon DEF TurnoverWindow
    <3>2. \A z : Row(z).year = z
      OBVIOUS
    <3> HIDE DEF window, Row
    <3>3. (\E c \in TurnoverWindow : c.year = y) <=> y \in window
      BY <2>1, <3>1, <3>2, Zenon
    <3>4. QED
      BY <3>3 DEF window
  <2>5. QED
    BY <2>2, <2>3, <2>4, Window
<1>2. QED
  BY <1>1, TypeCorrect, PTL

(***************************************************************************)
(* A failed screen never rested on an unknown.                             *)
(***************************************************************************)
\* What is learned changes neither the matches nor the candidate projects.
LEMMA SameScope ==
  ASSUME OnlyLearns
  PROVE  Matches' = Matches /\ Candidates' = Candidates /\ Active' = Active
<1>1. UNCHANGED <<workTypes, alias, project, tags, vectors>> /\ metadata'.scope = metadata.scope
  BY DEF OnlyLearns
<1>2. Live' = Live /\ Active' = Active
  BY <1>1 DEF Live, Active
<1>3. Considered' = Considered
  BY <1>2 DEF Considered
<1>4. \A p : TypesOf(p)' = TypesOf(p)
  BY <1>1 DEF TypesOf
<1>5. \A t : TextsOf(t)' = TextsOf(t)
  BY <1>1, <1>3 DEF TextsOf
<1>6. \A t : SemanticScore(t)' = SemanticScore(t)
  BY <1>1, <1>5 DEF SemanticScore
<1>7. \A t : Candidate(t)' = Candidate(t)
  BY <1>1, <1>5, <1>6 DEF Candidate
<1>8. Matches' = Matches
  BY <1>1, <1>2, <1>7 DEF Matches
<1>9. Candidates' = Candidates
  BY <1>1, <1>2, <1>3, <1>4 DEF Candidates
<1>10. QED
  BY <1>2, <1>8, <1>9

\* Three certified years fill the averaging window, so nothing can join them.
LEMMA FullWindow ==
  ASSUME TypeOK, OnlyLearns, Closing # None,
         ~(Cardinality(TurnoverWindow) < TURNOVER_AVERAGING_YEARS)
  PROVE  TurnoverWindow' = TurnoverWindow
<1> DEFINE window == CompletedYearsBefore(Closing, TURNOVER_AVERAGING_YEARS)
           recorded == window \cap DOMAIN turnover
           Row(y) == [year |-> y, amount |-> turnover[y]]
           row == [y \in recorded |-> Row(y)]
<1>1. TurnoverWindow = {Row(y) : y \in recorded}
  BY Zenon DEF TurnoverWindow
<1>2. IsFiniteSet(window) /\ Cardinality(window) = 3
  <2>1. Closing \in Dates
    BY ClosingIsADate
  <2>2. LatestCompleted(Closing) \in Int
    BY <2>1 DEF LatestCompleted, FYContaining, Dates
  <2>3. window = (LatestCompleted(Closing) - 2) .. LatestCompleted(Closing)
    BY <2>2 DEF CompletedYearsBefore, TURNOVER_AVERAGING_YEARS
  <2>4. QED
    BY <2>2, <2>3, FS_Interval
<1>3. recorded = window
  <2>1. recorded \in SUBSET window
    OBVIOUS
  <2>2. IsFiniteSet(recorded) /\ Cardinality(recorded) <= 3
    BY <1>2, <2>1, FS_Subset
  <2>3. row \in Surjection(recorded, TurnoverWindow)
    BY <1>1 DEF Surjection
  <2>4. IsFiniteSet(TurnoverWindow) /\ Cardinality(TurnoverWindow) <= Cardinality(recorded)
    BY <2>2, <2>3, FS_Surjection
  <2>5. Cardinality(recorded) \in Nat /\ Cardinality(TurnoverWindow) \in Nat
    BY <2>2, <2>4, FS_CardinalityType
  <2>6. Cardinality(recorded) = Cardinality(window)
    BY <1>2, <2>2, <2>4, <2>5 DEF TURNOVER_AVERAGING_YEARS
  <2>7. QED
    BY <1>2, <2>1, <2>6, FS_Subset
<1>4. Closing' = Closing /\ DOMAIN turnover \subseteq DOMAIN turnover'
      /\ \A y \in DOMAIN turnover : turnover'[y] = turnover[y]
  BY Zenon DEF OnlyLearns, Learns
<1>5. TurnoverWindow' = {[year |-> y, amount |-> turnover'[y]] : y \in window \cap DOMAIN turnover'}
  BY <1>4, Zenon DEF TurnoverWindow
<1>6. window \cap DOMAIN turnover' = recorded
  BY <1>3, <1>4
<1>7. \A y \in recorded : [year |-> y, amount |-> turnover'[y]] = Row(y)
  BY <1>4
<1> HIDE DEF recorded
<1>8. QED
  BY <1>1, <1>5, <1>6, <1>7

\* The financial rule fails only on a value, a period and a full window.
LEMMA FinancialFailureIsFinal ==
  ASSUME TypeOK, OnlyLearns, Financial(Value, Years, TurnoverWindow) = "failed"
  PROVE  Financial(Value', Years', TurnoverWindow') = "failed"
<1>1. /\ Value # None /\ Years # None
      /\ ~(Cardinality(TurnoverWindow) < TURNOVER_AVERAGING_YEARS)
  BY DEF Financial
<1>2. Closing # None
  <2>1. SUFFICES ASSUME Closing = None PROVE FALSE
    OBVIOUS
  <2>2. TurnoverWindow = {}
    BY <2>1 DEF TurnoverWindow
  <2>3. QED
    BY <1>1, <2>2, FS_EmptySet DEF TURNOVER_AVERAGING_YEARS
<1>3. TurnoverWindow' = TurnoverWindow
  BY <1>1, <1>2, FullWindow
<1>4. Value' = Value /\ Years' = Years
  BY <1>1 DEF OnlyLearns, Learns
<1>5. QED
  BY <1>3, <1>4

\* The technical rule fails on the scope alone, or on a value and a closing date.
LEMMA TechnicalFailureIsFinal ==
  ASSUME OnlyLearns,
         StageB(Matches, Cardinality(Active), Candidates, Value, Closing) = "failed"
  PROVE  StageB(Matches, Cardinality(Active), Candidates, Value', Closing') = "failed"
<1>1. CASE Matches = {}
  BY <1>1 DEF StageB
<1>2. CASE Matches # {}
  <2>1. Value # None /\ Closing # None
    BY <1>2 DEF StageB
  <2>2. QED
    BY <2>1 DEF OnlyLearns, Learns
<1>3. QED
  BY <1>1, <1>2

\* For any portfolio and any tender, a tender ruled out is ruled out whatever
\* the unknown inputs turn out to be.
THEOREM FailureCorrect == Spec => FailureIsFinal
<1>1. ASSUME TypeOK, OnlyLearns, Verdict = "NOT_ELIGIBLE"
      PROVE  \A after \in {Gather'} : Evaluate(after) = "NOT_ELIGIBLE"
  <2> DEFINE size == Cardinality(Active)
  <2>1. \/ Financial(Value, Years, TurnoverWindow) = "failed"
        \/ StageA(Matches, size) = "failed"
        \/ StageB(Matches, size, Candidates, Value, Closing) = "failed"
    BY <1>1 DEF Verdict, Evaluate, Gather, Status
  <2>2. Matches' = Matches /\ Candidates' = Candidates /\ size' = size
    BY <1>1, SameScope
  <2>3. Gather' = [value |-> Value', years |-> Years', closing |-> Closing',
                   certified |-> TurnoverWindow', matches |-> Matches,
                   candidates |-> Candidates, size |-> size]
    BY <2>2 DEF Gather
  <2>4. \/ Financial(Value', Years', TurnoverWindow') = "failed"
        \/ StageA(Matches, size) = "failed"
        \/ StageB(Matches, size, Candidates, Value', Closing') = "failed"
    BY <1>1, <2>1, FinancialFailureIsFinal, TechnicalFailureIsFinal
  <2>5. Evaluate(Gather') = "NOT_ELIGIBLE"
    BY <2>3, <2>4 DEF Evaluate, Status
  <2>6. QED
    BY <2>5
<1>2. QED
  BY <1>1, TypeCorrect, PTL DEF FailureIsFinal

(***************************************************************************)
(* The similar-work rule counts.                                           *)
(***************************************************************************)
\* A set of natural numbers has a least element.
LEMMA Least ==
  ASSUME NEW S \in SUBSET Nat, S # {}
  PROVE  \E n \in S : \A m \in S : n <= m
<1>1. PICK R : R = OpToRel(<, Nat)
  OBVIOUS
<1>2. \A x, y \in Nat : <<x, y>> \in R <=> x < y
  BY <1>1 DEF OpToRel
<1>3. IsWellFoundedOn(R, Nat)
  BY <1>1, NatLessThanWellFounded
<1>4. PICK n \in S : \A m \in S : <<m, n>> \notin R
  BY <1>3, WFMin
<1>5. \A m \in S : n \in Nat /\ m \in Nat /\ ~(m < n)
  BY <1>2, <1>4
<1> QED BY <1>5

Money(projects) == IsFiniteSet(projects) /\ \A c \in projects : c.value \in Int

\* Among finitely many projects one is worth the least.
LEMMA CheapestExists ==
  ASSUME NEW E, Money(E), E # {}
  PROVE  \E c \in E : \A d \in E : c.value <= d.value
<1> DEFINE Cheapest(S) == \E c \in S : \A d \in S : c.value <= d.value
           bad == {n \in Nat : \E S \in SUBSET E : Cardinality(S) = n /\ S # {} /\ ~Cheapest(S)}
<1> SUFFICES ASSUME ~Cheapest(E) PROVE FALSE
  OBVIOUS
<1>1. Cardinality(E) \in bad
  BY FS_CardinalityType DEF Money
<1>2. PICK n \in bad : \A m \in bad : n <= m
  <2> HIDE DEF bad
  <2>1. bad \in SUBSET Nat
    BY DEF bad
  <2> QED BY <1>1, <2>1, Least
<1>3. PICK S \in SUBSET E : Cardinality(S) = n /\ S # {} /\ ~Cheapest(S)
  OBVIOUS
<1>4. PICK x \in S : TRUE
  BY <1>3
<1>13. \A d \in S : d = x => x.value <= d.value
  BY DEF Money
<1>5. IsFiniteSet(S) /\ IsFiniteSet(S \ {x}) /\ Cardinality(S \ {x}) = n - 1
  BY <1>3, FS_Subset, FS_RemoveElement DEF Money
<1>6. S \ {x} # {}
  <2>1. SUFFICES ASSUME S \ {x} = {} PROVE FALSE
    OBVIOUS
  <2>2. \A d \in S : d = x
    BY <2>1
  <2> QED BY <1>3, <1>4, <1>13, <2>2
<1>7. n - 1 \in Nat /\ n \in Nat
  BY <1>5, FS_CardinalityType
<1>8. n - 1 \notin bad
  <2> HIDE DEF bad
  <2> QED BY <1>2, <1>7
<1>9. PICK c \in S \ {x} : \A d \in S \ {x} : c.value <= d.value
  BY <1>5, <1>6, <1>7, <1>8
<1>10. x.value \in Int /\ \A d \in S : d.value \in Int
  BY DEF Money
<1>11. CASE x.value <= c.value
  <2>1. \A d \in S : x.value <= d.value
    BY <1>9, <1>10, <1>11
  <2> QED BY <1>3, <2>1
<1>12. CASE ~(x.value <= c.value)
  <2>1. \A d \in S : c.value <= d.value
    BY <1>9, <1>10, <1>12
  <2> QED BY <1>3, <1>9, <2>1
<1> QED BY <1>11, <1>12

Ranking(ranked, E) ==
  /\ ranked \in Injection(1 .. Cardinality(E), E)
  /\ \A i, j \in DOMAIN ranked : i < j => ranked[i].value >= ranked[j].value

\* Finitely many projects can be ranked: the cheapest goes last.
LEMMA RankingExists ==
  ASSUME NEW E, Money(E)
  PROVE  \E ranked : Ranking(ranked, E)
<1> DEFINE bad == {n \in Nat : \E S \in SUBSET E : Cardinality(S) = n /\ ~\E r : Ranking(r, S)}
<1> SUFFICES ASSUME ~\E r : Ranking(r, E) PROVE FALSE
  OBVIOUS
<1>1. Cardinality(E) \in bad
  BY FS_CardinalityType DEF Money
<1>2. PICK n \in bad : \A m \in bad : n <= m
  <2> HIDE DEF bad
  <2>1. bad \in SUBSET Nat
    BY DEF bad
  <2> QED BY <1>1, <2>1, Least
<1>3. PICK S \in SUBSET E : Cardinality(S) = n /\ ~\E r : Ranking(r, S)
  OBVIOUS
<1>4. IsFiniteSet(S) /\ Money(S)
  BY FS_Subset DEF Money
<1>5. CASE S = {}
  <2>1. Cardinality(S) = 0
    BY <1>5, FS_EmptySet
  <2>2. 1 .. 0 = {}
    OBVIOUS
  <2>3. [i \in 1 .. 0 |-> i] \in Injection(1 .. 0, S)
    BY <2>2 DEF Injection, IsInjective
  <2>4. Ranking([i \in 1 .. 0 |-> i], S)
    BY <2>1, <2>2, <2>3 DEF Ranking
  <2> QED BY <1>3, <2>4
<1>6. CASE S # {}
  <2>1. PICK c \in S : \A d \in S : c.value <= d.value
    BY <1>4, <1>6, CheapestExists
  <2>2. IsFiniteSet(S \ {c}) /\ Cardinality(S \ {c}) = n - 1 /\ n \in Nat
    BY <1>3, <1>4, FS_RemoveElement
  <2>3. n - 1 \in Nat
    BY <2>2, FS_CardinalityType
  <2>4. n - 1 \notin bad
    BY <1>2, <2>3
  <2>5. PICK r : Ranking(r, S \ {c})
    BY <2>2, <2>3, <2>4
  <2>6. /\ r \in [1 .. n - 1 -> S \ {c}]
        /\ \A i, j \in 1 .. n - 1 : (r[i] = r[j] => i = j) /\ (i < j => r[i].value >= r[j].value)
    BY <2>2, <2>5 DEF Ranking, Injection, IsInjective
  <2> DEFINE q == [i \in 1 .. n |-> IF i = n THEN c ELSE r[i]]
  <2>7. \A i \in 1 .. n : i # n => i \in 1 .. n - 1
    BY <2>3
  <2>8. q \in [1 .. n -> S]
    BY <2>6, <2>7
  <2>9. \A i, j \in 1 .. n : q[i] = q[j] => i = j
    BY <2>6, <2>7
  <2>10. \A i, j \in 1 .. n : i < j => q[i].value >= q[j].value
    <3>1. SUFFICES ASSUME NEW i \in 1 .. n, NEW j \in 1 .. n, i < j PROVE q[i].value >= q[j].value
      OBVIOUS
    <3>2. i \in 1 .. n - 1 /\ q[i] = r[i] /\ r[i] \in S
      BY <2>3, <2>6, <3>1
    <3>3. CASE j = n
      BY <1>4, <2>1, <3>2, <3>3 DEF Money
    <3>4. CASE j # n
      BY <2>6, <2>7, <3>1, <3>2, <3>4
    <3> QED BY <3>3, <3>4
  <2>11. Ranking(q, S)
    BY <1>3, <2>8, <2>9, <2>10 DEF Ranking, Injection, IsInjective
  <2> QED BY <1>3, <2>11
<1> QED BY <1>5, <1>6

\* Ranked is a sequence of all the projects, the most valuable first.
LEMMA RankedSorts ==
  ASSUME NEW E, Money(E), NEW n, n = Cardinality(E), NEW ranked, ranked = Ranked(E)
  PROVE  /\ n \in Nat /\ ranked \in [1 .. n -> E] /\ Len(ranked) = n
         /\ \A c \in E : \E i \in 1 .. n : c = ranked[i]
         /\ \A i, j \in 1 .. n : (ranked[i] = ranked[j] => i = j)
                                 /\ (i < j => ranked[i].value >= ranked[j].value)
<1>1. n \in Nat /\ IsFiniteSet(E)
  BY FS_CardinalityType DEF Money
<1>2. Ranking(ranked, E)
  BY RankingExists DEF Ranking, Ranked
<1>3. ranked \in Surjection(1 .. n, E)
  <2>1. IsFiniteSet(1 .. n) /\ Cardinality(1 .. n) = n
    BY <1>1, FS_Interval
  <2>2. ranked \in Injection(1 .. n, E)
    BY <1>2 DEF Ranking
  <2> QED BY <1>1, <2>1, <2>2, FS_Injection
<1>4. ranked \in [1 .. n -> E]
  BY <1>2 DEF Ranking, Injection
<1>5. Len(ranked) = n
  BY <1>1, <1>4
<1> QED BY <1>1, <1>2, <1>3, <1>4, <1>5 DEF Ranking, Injection, Surjection, IsInjective

Worth(E, pct, value) == {c \in E : 100 * c.value >= pct * value}

\* A share rounded up to a whole paisa is asked of whole paise alone.
LEMMA ShareRoundsUp ==
  ASSUME NEW share \in Int, NEW v \in Int
  PROVE  v >= Ceiling(share, 100) <=> 100 * v >= share
  BY DEF Ceiling

\* The project at a depth clears the share if and only if that many do.
LEMMA ClearsCounts ==
  ASSUME NEW E, Money(E), NEW value \in Int, NEW d \in 1 .. 3, NEW ranked, ranked = Ranked(E),
         NEW W, W = Worth(E, SIMILAR_WORK_PCT[d], value)
  PROVE  /\ Clears(ranked, d, value) <=> Cardinality(W) >= d
         /\ Clears(ranked, d, value) =>
              /\ {ranked[i] : i \in 1 .. d} \subseteq W
              /\ Cardinality({ranked[i] : i \in 1 .. d}) = d
<1> DEFINE top(k) == {ranked[i] : i \in 1 .. k}
<1>1. PICK n : n = Cardinality(E)
  OBVIOUS
<1>2. /\ n \in Nat /\ ranked \in [1 .. n -> E] /\ Len(ranked) = n
      /\ \A c \in E : \E i \in 1 .. n : c = ranked[i]
      /\ \A i, j \in 1 .. n : (ranked[i] = ranked[j] => i = j)
                              /\ (i < j => ranked[i].value >= ranked[j].value)
  BY <1>1, RankedSorts
<1>3. IsFiniteSet(E) /\ \A c \in E : c.value \in Int
  BY DEF Money
<1>4. SIMILAR_WORK_PCT[d] \in Nat
  BY DEF SIMILAR_WORK_PCT
<1>5. PICK share \in Int : share = SIMILAR_WORK_PCT[d] * value
  BY <1>4
<1>6. W \subseteq E /\ \A c \in E : c \in W <=> c.value >= Ceiling(share, 100)
  BY <1>3, <1>5, ShareRoundsUp DEF Worth
<1>7. Clears(ranked, d, value) <=> n >= d /\ ranked[d] \in W
  BY <1>2, <1>5, <1>6 DEF Clears, Needed
<1>8. Ceiling(share, 100) \in Int
  BY DEF Ceiling
<1>9. \A i, j \in 1 .. n : i <= j /\ ranked[j] \in W => ranked[i] \in W
  <2>1. SUFFICES ASSUME NEW i \in 1 .. n, NEW j \in 1 .. n, i < j, ranked[j] \in W
                 PROVE  ranked[i] \in W
    BY <1>2
  <2>2. ranked[i].value >= ranked[j].value /\ ranked[i] \in E /\ ranked[j] \in E
    BY <1>2, <2>1
  <2> QED BY <1>3, <1>6, <1>8, <2>1, <2>2
<1>10. IsFiniteSet(W) /\ Cardinality(W) \in Nat
  BY <1>3, <1>6, FS_Subset, FS_CardinalityType
<1>11. ASSUME NEW k \in 0 .. 3, k <= n
       PROVE  IsFiniteSet(top(k)) /\ Cardinality(top(k)) = k
  <2> DEFINE f == [i \in 1 .. k |-> ranked[i]]
  <2>5. k \in Int /\ 1 \in Int /\ (IF 1 > k THEN 0 ELSE k - 1 + 1) = k
    OBVIOUS
  <2>1. IsFiniteSet(1 .. k) /\ Cardinality(1 .. k) = k
    BY <2>5, FS_Interval
  <2>2. \A i \in 1 .. k : i \in 1 .. n
    BY <1>2, <1>11
  <2>3. f \in Injection(1 .. k, top(k))
    BY <1>2, <2>2 DEF Injection, IsInjective
  <2>4. f \in Surjection(1 .. k, top(k))
    BY DEF Surjection
  <2> HIDE DEF f, top
  <2>6. IsFiniteSet(top(k)) /\ (Cardinality(top(k)) = k <=> f \in Injection(1 .. k, top(k)))
    BY <2>1, <2>4, FS_Surjection
  <2> QED BY <2>3, <2>6
<1>12. ASSUME n >= d, ranked[d] \in W
       PROVE  top(d) \subseteq W /\ Cardinality(top(d)) = d /\ Cardinality(W) >= d
  <2>1. \A i \in 1 .. d : i \in 1 .. n /\ i <= d /\ d \in 1 .. n
    BY <1>2, <1>12
  <2>2. top(d) \subseteq W
    BY <1>9, <1>12, <2>1
  <2>3. Cardinality(top(d)) = d
    BY <1>11, <1>12
  <2>4. Cardinality(top(d)) <= Cardinality(W)
    <3> HIDE DEF top
    <3> QED BY <1>10, <2>2, FS_Subset
  <2> HIDE DEF top
  <2> QED BY <1>10, <2>2, <2>3, <2>4
<1>13. ASSUME Cardinality(W) >= d, ~(n >= d /\ ranked[d] \in W)
       PROVE  FALSE
  <2>1. Cardinality(W) <= n
    BY <1>1, <1>3, <1>6, FS_Subset
  <2>2. n >= d /\ d \in 1 .. n /\ ranked[d] \notin W
    BY <1>2, <1>10, <1>13, <2>1
  <2>3. W \subseteq top(d - 1)
    <3>1. SUFFICES ASSUME NEW c \in W PROVE c \in top(d - 1)
      OBVIOUS
    <3>2. PICK i \in 1 .. n : c = ranked[i]
      BY <1>2, <1>6
    <3>3. ~(d <= i)
      BY <1>9, <2>2, <3>2
    <3>4. i \in 1 .. d - 1
      BY <3>3
    <3> QED BY <3>2, <3>4
  <2>4. d - 1 \in 0 .. 3 /\ d - 1 <= n
    BY <1>2, <2>2
  <2>5. IsFiniteSet(top(d - 1)) /\ Cardinality(top(d - 1)) = d - 1
    BY <1>11, <2>4
  <2>6. Cardinality(W) <= d - 1
    <3> HIDE DEF top
    <3> QED BY <2>3, <2>5, FS_Subset
  <2> QED BY <1>10, <1>13, <2>6
<1> HIDE DEF top
<1>14. Clears(ranked, d, value) <=> Cardinality(W) >= d
  BY <1>7, <1>12, <1>13
<1>15. Clears(ranked, d, value) => top(d) \subseteq W /\ Cardinality(top(d)) = d
  BY <1>7, <1>12
<1> QED BY <1>14, <1>15 DEF top

\* A set of depths has its first.
LEMMA FirstDepth ==
  ASSUME NEW D \in SUBSET (1 .. 3), D # {}
  PROVE  Min(D) \in D /\ \A e \in D : Min(D) <= e
<1>1. \E m \in D : \A e \in D : m <= e
  BY Least
<1> QED BY <1>1 DEF Min

Satisfied(E, value) == {d \in 1 .. 3 : Cardinality(Worth(E, SIMILAR_WORK_PCT[d], value)) >= d}

\* Whatever projects count and whatever the tender is worth, the rule reports
\* what counting them would.
LEMMA QualifyingCounts ==
  ASSUME NEW E, Money(E), NEW value \in Int
  PROVE  LET satisfied == Satisfied(E, value)
             reported == Qualifying(E, value)
         IN  IF satisfied = {} THEN reported = {}
             ELSE /\ Cardinality(reported) = Min(satisfied)
                  /\ reported \subseteq Worth(E, SIMILAR_WORK_PCT[Min(satisfied)], value)
<1>1. PICK ranked : ranked = Ranked(E)
  OBVIOUS
<1>2. PICK clear : clear = {d \in 1 .. 3 : Clears(ranked, d, value)}
  OBVIOUS
<1>3. clear = Satisfied(E, value)
  BY <1>1, <1>2, ClearsCounts DEF Satisfied
<1>4. Qualifying(E, value) = IF clear = {} THEN {} ELSE {ranked[i] : i \in 1 .. Min(clear)}
  BY <1>1, <1>2 DEF Qualifying
<1>5. CASE clear # {}
  <2>1. PICK m : m = Min(clear)
    OBVIOUS
  <2>2. m \in 1 .. 3 /\ Clears(ranked, m, value)
    BY <1>2, <1>5, <2>1, FirstDepth
  <2>3. /\ {ranked[i] : i \in 1 .. m} \subseteq Worth(E, SIMILAR_WORK_PCT[m], value)
        /\ Cardinality({ranked[i] : i \in 1 .. m}) = m
    BY <1>1, <2>2, ClearsCounts
  <2> QED BY <1>3, <1>4, <1>5, <2>1, <2>3
<1> QED BY <1>3, <1>4, <1>5

\* The projects that count are finitely many, of a known whole value.
LEMMA EvidenceIsMoney ==
  ASSUME TypeOK
  PROVE  Money(Evidence(Matches, Candidates, Closing))
<1> DEFINE evidence == Evidence(Matches, Candidates, Closing)
           shown == {q \in Considered : Active # {} /\ TypesOf(q) # {}}
           Entry(p) == [id |-> p, value |-> project[p].value,
                        certificate |-> project[p].certificate, types |-> TypesOf(p)]
           entry == [p \in shown |-> Entry(p)]
<1>1. evidence \subseteq Candidates /\ \A c \in evidence : c.value # None
  BY DEF Evidence
<1>2. Candidates = {Entry(p) : p \in shown}
  BY DEF Candidates
<1>3. shown \subseteq Projects /\ \A p \in shown : project[p] # None
  BY DEF Considered, Live
<1>4. IsFiniteSet(shown)
  BY <1>3, FS_Subset, PortfolioAssumption
<1>5. entry \in Surjection(shown, Candidates)
  BY <1>2 DEF Surjection
<1>6. IsFiniteSet(Candidates)
  BY <1>4, <1>5, FS_Surjection
<1>7. \A p \in shown : Entry(p).value \in Int \cup {None}
  <2>1. SUFFICES ASSUME NEW p \in shown PROVE project[p].value \in Int \cup {None}
    OBVIOUS
  <2>2. project[p] \in AllRows
    BY <1>3 DEF TypeOK
  <2>3. PICK q \in Projects : project[p] \in Rows[q]
    BY <2>2 DEF AllRows
  <2> QED BY <2>3, PortfolioAssumption
<1>8. \A c \in Candidates : c.value \in Int \cup {None}
  BY <1>2, <1>7
<1> HIDE DEF evidence
<1>9. IsFiniteSet(evidence) /\ \A c \in evidence : c.value \in Int
  BY <1>1, <1>6, <1>8, FS_Subset
<1> QED BY <1>9 DEF Money, evidence

\* A value the engine has is a whole number of paise.
LEMMA ValueIsMoney ==
  ASSUME TypeOK, Value # None
  PROVE  Value \in Nat
<1>1. tender.value \in Values \cup {None} /\ metadata \in Metadata
  BY DEF TypeOK
<1>2. Values \subseteq Nat /\ \A m \in Metadata : m.value \in Nat \cup {None}
  BY PortfolioAssumption
<1>3. Value = metadata.value \/ Value = tender.value
  BY DEF Value, Prefer
<1>4. PICK v : v = Value
  OBVIOUS
<1>5. v \in Nat \cup {None}
  BY <1>1, <1>2, <1>3, <1>4
<1> QED BY <1>4, <1>5

\* For any projects, ties included, and any tender, sorting the projects and
\* looking at one place per rule is counting those worth the share.
THEOREM SimilarWorksCorrect == Spec => []SimilarWorksIsACount
<1>1. TypeOK => SimilarWorksIsACount
  <2>1. SUFFICES ASSUME TypeOK, Value # None, Closing # None PROVE SimilarWorksIsACount
    BY DEF SimilarWorksIsACount
  <2>2. PICK E : E = Evidence(Matches, Candidates, Closing)
    OBVIOUS
  <2>3. Money(E) /\ Value \in Int
    BY <2>1, <2>2, EvidenceIsMoney, ValueIsMoney
  <2>4. PICK satisfied : satisfied = Satisfied(E, Value)
    OBVIOUS
  <2>5. IF satisfied = {} THEN Qualifying(E, Value) = {}
        ELSE /\ Cardinality(Qualifying(E, Value)) = Min(satisfied)
             /\ Qualifying(E, Value) \subseteq Worth(E, SIMILAR_WORK_PCT[Min(satisfied)], Value)
    BY <2>3, <2>4, QualifyingCounts
  <2> QED BY <2>2, <2>4, <2>5 DEF SimilarWorksIsACount, Satisfied, Worth
<1> QED BY <1>1, TypeCorrect, PTL

(***************************************************************************)
(* The turnover asked for is never understated.                            *)
(***************************************************************************)
\* The powers of ten up to the n-th.
Powers(n) ==
  {g \in [0 .. n -> Nat] : g[0] = 1 /\ \A i \in 1 .. n : g[i] = 10 * g[i - 1]}

LEMMA PowersExist ==
  ASSUME NEW n \in Nat
  PROVE  Powers(n) # {}
<1> DEFINE bad == {m \in Nat : Powers(m) = {}}
<1> SUFFICES ASSUME n \in bad PROVE FALSE
  OBVIOUS
<1>1. PICK m \in bad : \A k \in bad : m <= k
  <2>1. bad \in SUBSET Nat /\ bad # {}
    OBVIOUS
  <2> QED BY <2>1, Least
<1>2. m \in Nat /\ Powers(m) = {}
  OBVIOUS
<1>3. CASE m = 0
  <2>1. [i \in 0 .. 0 |-> 1] \in Powers(0)
    BY DEF Powers
  <2> QED BY <1>2, <1>3, <2>1
<1>4. CASE m # 0
  <2>1. m - 1 \in Nat /\ m - 1 \notin bad
    <3> HIDE DEF bad
    <3> QED BY <1>1, <1>2, <1>4
  <2>2. PICK g : g \in Powers(m - 1)
    BY <2>1
  <2>3. /\ g \in [0 .. m - 1 -> Nat] /\ g[0] = 1
        /\ \A i \in 1 .. m - 1 : g[i] = 10 * g[i - 1]
    BY <2>2 DEF Powers
  <2> DEFINE h == [i \in 0 .. m |-> IF i = m THEN 10 * g[m - 1] ELSE g[i]]
  <2>4. g[m - 1] \in Nat
    BY <2>1, <2>3
  <2>5. h \in [0 .. m -> Nat] /\ h[0] = 1
    BY <1>2, <1>4, <2>1, <2>3, <2>4
  <2>6. \A i \in 1 .. m : h[i] = 10 * h[i - 1]
    <3>1. SUFFICES ASSUME NEW i \in 1 .. m PROVE h[i] = 10 * h[i - 1]
      OBVIOUS
    <3>2. i - 1 \in 0 .. m - 1 /\ h[i - 1] = g[i - 1]
      BY <1>2
    <3>3. CASE i = m
      BY <3>2, <3>3
    <3>4. CASE i # m
      <4>1. i \in 1 .. m - 1 /\ i \in 0 .. m
        BY <1>2, <3>4
      <4> QED BY <2>3, <3>2, <3>4, <4>1
    <3> QED BY <3>3, <3>4
  <2>7. h \in Powers(m)
    <3> HIDE DEF h
    <3> QED BY <2>5, <2>6 DEF Powers
  <2> QED BY <1>2, <2>7
<1> QED BY <1>3, <1>4

LEMMA PowersAgree ==
  ASSUME NEW n \in Nat, NEW m \in Nat, NEW g \in Powers(n), NEW h \in Powers(m),
         NEW k \in 0 .. n, k <= m
  PROVE  g[k] = h[k]
<1> DEFINE bad == {i \in 0 .. n : i <= m /\ g[i] # h[i]}
<1> SUFFICES ASSUME k \in bad PROVE FALSE
  OBVIOUS
<1>1. PICK i \in bad : \A j \in bad : i <= j
  <2>1. bad \in SUBSET Nat /\ bad # {}
    OBVIOUS
  <2> QED BY <2>1, Least
<1>2. i \in 0 .. n /\ i <= m /\ g[i] # h[i]
  OBVIOUS
<1>3. i # 0
  BY <1>2 DEF Powers
<1>4. i - 1 \in 0 .. n /\ i - 1 <= m /\ i - 1 \notin bad
  <2>1. i - 1 \in 0 .. n /\ i - 1 <= m /\ ~(i <= i - 1)
    BY <1>2, <1>3
  <2> HIDE DEF bad
  <2> QED BY <1>1, <2>1
<1>5. g[i - 1] = h[i - 1]
  BY <1>4
<1>6. i \in 1 .. n /\ i \in 1 .. m
  BY <1>2, <1>3
<1>7. g[i] = 10 * g[i - 1] /\ h[i] = 10 * h[i - 1]
  BY <1>6 DEF Powers
<1> QED BY <1>2, <1>5, <1>7

\* PowerOfTen is what its equation says.
LEMMA PowerOfTenIs ==
  /\ PowerOfTen \in [Nat -> Nat] /\ PowerOfTen[0] = 1
  /\ \A n \in Nat : PowerOfTen[n + 1] = 10 * PowerOfTen[n]
<1> DEFINE chosen(n) == CHOOSE g : g \in Powers(n)
           f == [n \in Nat |-> chosen(n)[n]]
<1>1. \A n \in Nat : chosen(n) \in Powers(n)
  BY PowersExist
<1> HIDE DEF chosen
<1>2. f \in [Nat -> Nat] /\ f[0] = 1
  <2>1. \A n \in Nat : chosen(n) \in [0 .. n -> Nat] /\ chosen(n)[0] = 1 /\ n \in 0 .. n
    BY <1>1 DEF Powers
  <2> QED BY <2>1
<1>3. ASSUME NEW n \in Nat, n # 0 PROVE f[n] = 10 * f[n - 1]
  <2>1. n - 1 \in Nat /\ n - 1 \in 0 .. n /\ n \in 1 .. n
    BY <1>3
  <2>2. chosen(n)[n] = 10 * chosen(n)[n - 1]
    BY <1>1, <2>1 DEF Powers
  <2>3. chosen(n)[n - 1] = chosen(n - 1)[n - 1]
    BY <1>1, <2>1, PowersAgree
  <2> QED BY <2>1, <2>2, <2>3
<1>4. f = [n \in Nat |-> IF n = 0 THEN 1 ELSE 10 * f[n - 1]]
  <2> HIDE DEF f
  <2>1. f = [n \in Nat |-> f[n]]
    BY <1>2
  <2>2. \A n \in Nat : f[n] = IF n = 0 THEN 1 ELSE 10 * f[n - 1]
    BY <1>2, <1>3
  <2> QED BY <2>1, <2>2
<1> HIDE DEF f
<1>5. PowerOfTen = [n \in Nat |-> IF n = 0 THEN 1 ELSE 10 * PowerOfTen[n - 1]]
  BY <1>4 DEF PowerOfTen
<1>6. \A n \in Nat : PowerOfTen[n] = f[n]
  <2> DEFINE bad == {n \in Nat : PowerOfTen[n] # f[n]}
  <2>1. SUFFICES ASSUME bad # {} PROVE FALSE
    OBVIOUS
  <2>2. PICK n \in bad : \A k \in bad : n <= k
    BY <2>1, Least
  <2>3. n \in Nat /\ PowerOfTen[n] # f[n]
    OBVIOUS
  <2>4. n # 0
    BY <1>2, <1>5, <2>3
  <2>5. n - 1 \in Nat /\ n - 1 \notin bad
    <3>1. n - 1 \in Nat /\ ~(n <= n - 1)
      BY <2>3, <2>4
    <3> HIDE DEF bad
    <3> QED BY <2>2, <3>1
  <2>6. PowerOfTen[n - 1] = f[n - 1]
    BY <2>5
  <2> QED BY <1>3, <1>5, <2>3, <2>4, <2>6
<1>7. PowerOfTen = f
  BY <1>2, <1>5, <1>6
<1>8. \A n \in Nat : f[n + 1] = 10 * f[n]
  BY <1>3
<1> QED BY <1>2, <1>7, <1>8

LEMMA Multiplied ==
  ASSUME NEW x \in Int, NEW y \in Int, NEW z \in Nat, x <= y
  PROVE  z * x <= z * y
<1>1. y - x \in Nat
  OBVIOUS
<1>2. z * (y - x) \in Nat
  BY <1>1
<1>3. z * (y - x) = z * y - z * x
  OBVIOUS
<1>4. z * x \in Int /\ z * y \in Int
  OBVIOUS
<1> QED BY <1>2, <1>3, <1>4

LEMMA Divided ==
  ASSUME NEW x \in Int, NEW y \in Int, NEW z \in Nat, z > 0, z * x <= z * y
  PROVE  x <= y
<1>1. SUFFICES ASSUME y + 1 <= x PROVE FALSE
  OBVIOUS
<1>2. z * (y + 1) <= z * x
  BY <1>1, Multiplied
<1>3. z * (y + 1) = z * y + z /\ z * y \in Int /\ z * x \in Int
  OBVIOUS
<1> QED BY <1>2, <1>3

\* A power of ten is more than its exponent, and times another is a third.
LEMMA PowerGrows ==
  ASSUME NEW n \in Nat
  PROVE  /\ PowerOfTen[n] \in Nat /\ PowerOfTen[n] > n
         /\ \A m \in Nat : PowerOfTen[m + n] = PowerOfTen[m] * PowerOfTen[n]
<1> DEFINE Grows(k) == /\ PowerOfTen[k] > k
                       /\ \A m \in Nat : PowerOfTen[m + k] = PowerOfTen[m] * PowerOfTen[k]
           bad == {k \in Nat : ~Grows(k)}
<1>1. \A k \in Nat : PowerOfTen[k] \in Nat
  BY PowerOfTenIs
<1> SUFFICES ASSUME n \in bad PROVE FALSE
  BY <1>1
<1>2. PICK k \in bad : \A j \in bad : k <= j
  <2>1. bad \in SUBSET Nat /\ bad # {}
    OBVIOUS
  <2> QED BY <2>1, Least
<1>3. k \in Nat /\ ~Grows(k)
  OBVIOUS
<1>4. Grows(0)
  BY <1>1, PowerOfTenIs
<1>5. k # 0
  BY <1>3, <1>4
<1>6. k - 1 \in Nat /\ k - 1 \notin bad
  <2>1. k - 1 \in Nat /\ ~(k <= k - 1)
    BY <1>3, <1>5
  <2> HIDE DEF bad
  <2> QED BY <1>2, <2>1
<1>7. Grows(k - 1)
  BY <1>6
<1>8. PowerOfTen[k] = 10 * PowerOfTen[k - 1]
  BY <1>6, PowerOfTenIs
<1>9. PowerOfTen[k] > k
  BY <1>1, <1>6, <1>7, <1>8
<1>10. ASSUME NEW m \in Nat PROVE PowerOfTen[m + k] = PowerOfTen[m] * PowerOfTen[k]
  <2>1. m + (k - 1) \in Nat /\ m + (k - 1) + 1 = m + k
    BY <1>6
  <2>2. PowerOfTen[m + k] = 10 * PowerOfTen[m + (k - 1)]
    BY <2>1, PowerOfTenIs
  <2>3. PowerOfTen[m + (k - 1)] = PowerOfTen[m] * PowerOfTen[k - 1]
    BY <1>7
  <2>4. \A a, b \in Nat : 10 * (a * b) = a * (10 * b)
    OBVIOUS
  <2> QED BY <1>1, <1>6, <1>8, <2>2, <2>3, <2>4
<1> QED BY <1>3, <1>9, <1>10

LEMMA FullIs == Digits - 1 \in Nat /\ Full \in Nat /\ Full > 0
<1>1. PICK d : d = Digits - 1
  OBVIOUS
<1>2. d \in Nat
  BY <1>1, EligibilityAssumption
<1>3. PowerOfTen[d] \in Nat /\ PowerOfTen[d] > d
  BY <1>2, PowerGrows
<1> QED BY <1>1, <1>2, <1>3 DEF Full

LEMMA DivisionIs ==
  ASSUME NEW num \in Nat, NEW den \in Nat, den > 0
  PROVE  /\ num \div den \in Nat /\ num % den \in 0 .. den - 1
         /\ num = den * (num \div den) + (num % den)
<1>1. PICK q, r : q = num \div den /\ r = num % den
  OBVIOUS
<1>2. q \in Nat /\ r \in 0 .. den - 1 /\ num = den * q + r
  BY <1>1
<1> QED BY <1>1, <1>2

\* Rounding moves a quotient by half at most.
LEMMA HalfEvenIs ==
  ASSUME NEW num \in Nat, NEW den \in Nat, den > 0
  PROVE  /\ HalfEven(num, den) \in Nat
         /\ 2 * (den * HalfEven(num, den)) <= 2 * num + den
         /\ 2 * num - den <= 2 * (den * HalfEven(num, den))
<1>1. PICK q, r : q = num \div den /\ r = num % den
  OBVIOUS
<1>2. q \in Nat /\ r \in 0 .. den - 1 /\ num = den * q + r
  BY <1>1, DivisionIs
<1>3. HalfEven(num, den) = IF 2 * r > den \/ (2 * r = den /\ q % 2 = 1) THEN q + 1 ELSE q
  BY <1>1 DEF HalfEven
<1>4. den * (q + 1) = den * q + den /\ den * q \in Nat
  BY <1>2
<1> QED BY <1>2, <1>3, <1>4

\* A quotient has Digits digits, or is zero.
LEMMA QuotientIs ==
  ASSUME NEW num \in Nat, NEW den \in Nat, den > 0, NEW c, NEW s,
         c = Quotient(num, den).coef, s = Quotient(num, den).scale
  PROVE  /\ c \in Nat /\ s \in Nat /\ s > 0 /\ Full \in Nat /\ Full > 0
         /\ 2 * (den * c) <= 2 * (num * s) + den
         /\ 2 * (num * s) - den <= 2 * (den * c)
         /\ num > 0 => Full * den <= num * s
<1>1. PICK k : k = Places(num, den)
  OBVIOUS
<1>2. Digits - 1 \in Nat /\ Full \in Nat /\ Full > 0
  BY FullIs
<1>3. PICK full \in Nat : full = Full * den
  BY <1>2
<1>4. k \in Nat /\ (num > 0 => full <= num * PowerOfTen[k])
  <2>1. CASE num = 0 \/ num >= full
    <3>1. k = 0
      BY <1>1, <1>3, <2>1 DEF Places
    <3> QED BY <1>3, <2>1, <3>1, PowerOfTenIs
  <2>2. CASE ~(num = 0 \/ num >= full)
    <3> DEFINE enough == {j \in Nat : full <= num * PowerOfTen[j]}
               range == full .. (10 * full - 1)
    <3>1. PICK top : top = den + (Digits - 1)
      OBVIOUS
    <3>2. top \in enough
      <4>1. top \in Nat /\ PowerOfTen[top] = PowerOfTen[den] * Full
        <5>1. PICK d : d = Digits - 1
          OBVIOUS
        <5>2. d \in Nat /\ Full = PowerOfTen[d]
          BY <1>2, <5>1 DEF Full
        <5>3. PowerOfTen[den + d] = PowerOfTen[den] * PowerOfTen[d]
          BY <5>2, PowerGrows
        <5> QED BY <3>1, <5>1, <5>2, <5>3
      <4>2. PowerOfTen[den] \in Nat /\ den <= PowerOfTen[den]
        BY PowerGrows
      <4>3. Full * den <= Full * PowerOfTen[den]
        BY <1>2, <4>2, Multiplied
      <4>4. PowerOfTen[top] \in Nat /\ full <= PowerOfTen[top]
        BY <1>2, <1>3, <4>1, <4>2, <4>3
      <4>5. 1 <= num
        BY <2>2
      <4>6. PowerOfTen[top] * 1 <= PowerOfTen[top] * num
        BY <4>4, <4>5, Multiplied
      <4>7. PowerOfTen[top] * num = num * PowerOfTen[top] /\ num * PowerOfTen[top] \in Nat
        BY <4>4
      <4> QED BY <4>1, <4>4, <4>6, <4>7
    <3>3. PICK j \in enough : \A i \in enough : j <= i
      <4>1. enough \in SUBSET Nat /\ enough # {}
        BY <3>2
      <4> QED BY <4>1, Least
    <3>4. j \in Nat /\ full <= num * PowerOfTen[j]
      OBVIOUS
    <3>5. j # 0
      BY <2>2, <3>4, PowerOfTenIs
    <3>6. j - 1 \in Nat /\ j - 1 \notin enough
      <4>1. j - 1 \in Nat /\ ~(j <= j - 1)
        BY <3>4, <3>5
      <4> HIDE DEF enough
      <4> QED BY <3>3, <4>1
    <3>7. PowerOfTen[j] = 10 * PowerOfTen[j - 1] /\ PowerOfTen[j - 1] \in Nat
      BY <3>6, PowerOfTenIs
    <3>8. num * PowerOfTen[j - 1] < full /\ num * PowerOfTen[j] = 10 * (num * PowerOfTen[j - 1])
          /\ num * PowerOfTen[j - 1] \in Nat
      BY <3>6, <3>7
    <3>9. num * PowerOfTen[j] \in range
      BY <3>4, <3>8
    <3>10. j \in 1 .. den + Digits
      <4>1. j <= top
        BY <3>2, <3>3
      <4> QED BY <3>1, <3>4, <3>5, <4>1, EligibilityAssumption
    <3>11. 10 * Full * den = 10 * full
      BY <1>2, <1>3
    <3>12. k = CHOOSE i \in 1 .. den + Digits : num * PowerOfTen[i] \in range
      BY <1>1, <1>3, <2>2, <3>11 DEF Places
    <3>13. k \in 1 .. den + Digits /\ num * PowerOfTen[k] \in range
      <4> HIDE DEF range
      <4> QED BY <3>9, <3>10, <3>12
    <3> QED BY <3>13, EligibilityAssumption
  <2> QED BY <2>1, <2>2
<1>5. s = PowerOfTen[k] /\ c = HalfEven(num * PowerOfTen[k], den)
  BY <1>1 DEF Quotient
<1>6. s \in Nat /\ s > 0 /\ num * s \in Nat
  <2>1. PowerOfTen[k] \in Nat /\ PowerOfTen[k] > k
    BY <1>4, PowerGrows
  <2> QED BY <1>4, <1>5, <2>1
<1>7. c = HalfEven(num * s, den)
  BY <1>5
<1> QED BY <1>2, <1>3, <1>4, <1>5, <1>6, <1>7, HalfEvenIs

Units == {"year", "month", "week", "day"}
Periods == [amount : Int, scale : Nat \ {0}, unit : Units]

\* The years of a period exceed the exact fraction by one part in 2 * Full at most.
LEMMA YearsAreClose ==
  ASSUME NEW period \in Periods, period # None, period.amount >= 0,
         NEW a, NEW b, a = Fraction(period)[1], b = Fraction(period)[2],
         NEW c, NEW s, c = ParseYears(period).coef, s = ParseYears(period).scale
  PROVE  /\ a \in Nat /\ b \in Nat /\ b > 0
         /\ c \in Nat /\ s \in Nat /\ s > 0 /\ Full \in Nat /\ Full > 0
         /\ (2 * Full) * (b * c) <= (2 * Full + 1) * (a * s)
<1>1. PICK n, d : n = period.amount /\ d = period.scale
  OBVIOUS
<1>2. n \in Nat /\ d \in Nat /\ d > 0 /\ period.unit \in Units
  BY <1>1 DEF Periods
<1>3. Full \in Nat /\ Full > 0
  BY FullIs
<1>4. CASE period.unit = "year"
  <2>1. a = n /\ b = d /\ c = n /\ s = d
    BY <1>1, <1>2, <1>4 DEF Fraction, ParseYears
  <2>2. PICK q \in Nat : q = b * c /\ q = a * s
    <3>1. d * n = n * d /\ d * n \in Nat
      BY <1>2
    <3> QED BY <2>1, <3>1
  <2>3. (2 * Full + 1) * q = (2 * Full) * q + q /\ (2 * Full) * q \in Nat
    BY <1>3
  <2>4. (2 * Full) * q <= (2 * Full + 1) * q
    BY <2>3
  <2> QED BY <1>2, <1>3, <2>1, <2>2, <2>4
<1>5. CASE period.unit # "year"
  <2>1. /\ a \in Nat /\ b \in Nat /\ b > 0
        /\ c = Quotient(a, b).coef /\ s = Quotient(a, b).scale
    <3>1. CASE period.unit = "month"
      BY <1>1, <1>2, <3>1 DEF Fraction, ParseYears
    <3>2. CASE period.unit = "week"
      BY <1>1, <1>2, <3>2 DEF Fraction, ParseYears
    <3>3. CASE period.unit = "day"
      BY <1>1, <1>2, <3>3 DEF Fraction, ParseYears
    <3> QED BY <1>2, <1>5, <3>1, <3>2, <3>3 DEF Units
  <2>2. b \in Nat /\ b > 0
    BY <2>1
  <2>3. /\ c \in Nat /\ s \in Nat /\ s > 0
        /\ 2 * (b * c) <= 2 * (a * s) + b
        /\ a > 0 => Full * b <= a * s
        /\ a = 0 => 2 * (b * c) <= b
    <3>1. /\ c \in Nat /\ s \in Nat /\ s > 0
          /\ 2 * (b * c) <= 2 * (a * s) + b
          /\ a > 0 => Full * b <= a * s
      <4>1. a \in Nat /\ c = Quotient(a, b).coef /\ s = Quotient(a, b).scale
        BY <2>1
      <4> QED BY <2>2, <4>1, QuotientIs
    <3> QED BY <2>1, <3>1
  <2>4. PICK p, q : p = b * c /\ q = a * s
    OBVIOUS
  <2>5. p \in Nat /\ q \in Nat
    BY <2>1, <2>2, <2>3, <2>4
  <2>6. CASE a > 0
    <3>1. Full * (2 * p) <= Full * (2 * q + b)
      BY <1>3, <2>2, <2>3, <2>4, <2>5, Multiplied
    <3>2. /\ Full * (2 * p) = (2 * Full) * p /\ Full * (2 * q + b) = (2 * Full) * q + Full * b
          /\ (2 * Full + 1) * q = (2 * Full) * q + q
          /\ (2 * Full) * p \in Nat /\ (2 * Full) * q \in Nat /\ Full * b \in Nat
      <4>1. PICK T \in Nat : T = Full
        BY <1>3
      <4>2. T * (2 * p) = (2 * T) * p /\ (2 * T) * p \in Nat
        BY <2>5
      <4>3. T * (2 * q + b) = (2 * T) * q + T * b /\ T * b \in Nat
        BY <2>2, <2>5
      <4>4. (2 * T + 1) * q = (2 * T) * q + q /\ (2 * T) * q \in Nat
        BY <2>5
      <4> QED BY <4>1, <4>2, <4>3, <4>4
    <3>3. Full * b <= q
      BY <2>3, <2>4, <2>6
    <3>4. (2 * Full) * p <= (2 * Full + 1) * q
      BY <2>5, <3>1, <3>2, <3>3
    <3> QED BY <1>3, <2>1, <2>2, <2>3, <2>4, <3>4
  <2>7. CASE a = 0
    <3>1. q = 0
      BY <2>3, <2>4, <2>7
    <3>2. c = 0
      <4>1. SUFFICES ASSUME 1 <= c PROVE FALSE
        BY <2>3
      <4>2. b * 1 <= b * c /\ b * 1 = b
        BY <2>2, <2>3, <4>1, Multiplied
      <4>3. 2 * p <= b /\ b <= p
        BY <2>3, <2>4, <2>7, <4>2
      <4> QED BY <2>2, <2>5, <4>3
    <3>3. p = 0
      BY <2>2, <2>4, <3>2
    <3> QED BY <1>3, <2>1, <2>2, <2>3, <2>4, <3>1, <3>3
  <2> QED BY <2>1, <2>6, <2>7
<1> QED BY <1>4, <1>5

\* The turnover asked for is a whole number of paise.
LEMMA RequirementIsMoney ==
  ASSUME NEW value \in Nat, NEW years, NEW c \in Nat, NEW s \in Nat, c > 0,
         c = years.coef, s = years.scale, NEW q, q = Quotient(value * s, c)
  PROVE  /\ RequiredTurnover(value, years) \in Nat
         /\ q.coef \in Nat /\ q.scale \in Nat /\ q.scale > 0
         /\ \/ RequiredTurnover(value, years) = value
            \/ q.coef <= q.scale * RequiredTurnover(value, years)
<1>1. value * s \in Nat
  OBVIOUS
<1>2. q.coef \in Nat /\ q.scale \in Nat /\ q.scale > 0
  BY <1>1, QuotientIs
<1>3. PICK Q \in Nat, P \in Nat : Q = q.coef /\ P = q.scale /\ P > 0
  BY <1>2
<1>4. PICK R : R = Ceiling(Q, P)
  OBVIOUS
<1>5. R \in Nat /\ Q <= P * R
  <2>7. PICK N \in Nat : N = Q + P - 1
    BY <1>3
  <2>1. PICK t, r : t = N \div P /\ r = N % P
    OBVIOUS
  <2>8. t \in Int /\ r \in 0 .. P - 1 /\ N = P * t + r
    <3>1. /\ N \div P \in Nat /\ N % P \in 0 .. P - 1
          /\ N = P * (N \div P) + (N % P)
      BY <1>3, DivisionIs, Zenon
    <3> QED BY <2>1, <3>1
  <2>2. t \in Int /\ r \in 0 .. P - 1 /\ Q + P - 1 = P * t + r
    BY <2>7, <2>8
  <2>3. P * t \in Int
    BY <2>2
  <2>4. R = t
    BY <1>4, <2>1, <2>7 DEF Ceiling
  <2>5. R \in Int /\ Q <= P * R
    BY <1>3, <2>2, <2>3, <2>4
  <2>6. P * 0 <= P * R
    BY <2>3, <2>4, <2>5
  <2> QED BY <1>3, <2>5, <2>6, Divided
<1>6. RequiredTurnover(value, years) = IF Q >= value * P THEN value ELSE R
  BY <1>3, <1>4 DEF RequiredTurnover, ToPaisa
<1> QED BY <1>2, <1>3, <1>5, <1>6

\* The two roundings together lose less than one part in Full, and so no paisa.
LEMMA RequirementSuffices ==
  ASSUME NEW value \in Nat, NEW years, NEW c \in Nat, NEW s \in Nat, c > 0, s > 0,
         c = years.coef, s = years.scale, NEW a \in Nat, NEW b \in Nat, b > 0, b * value < Full,
         (2 * Full) * (b * c) <= (2 * Full + 1) * (a * s),
         NEW R, R = RequiredTurnover(value, years)
  PROVE  R * a >= value * b \/ R >= value
<1>1. PICK T \in Nat : T = Full /\ T > 0
  BY FullIs
<1>2. PICK q : q = Quotient(value * s, c)
  OBVIOUS
<1>18. /\ R \in Nat /\ q.coef \in Nat /\ q.scale \in Nat /\ q.scale > 0
       /\ R = value \/ q.coef <= q.scale * R
  BY <1>2, RequirementIsMoney, Zenon
<1>3. PICK Q \in Nat, P \in Nat : Q = q.coef /\ P = q.scale /\ P > 0
  BY <1>18
<1>4. R \in Nat /\ (R = value \/ Q <= P * R)
  BY <1>3, <1>18
<1>5. SUFFICES ASSUME R # value, R * a < value * b, R < value PROVE FALSE
  BY <1>4
<1>6. PICK X \in Nat, m \in Nat : X = value * s /\ m = value * b
  OBVIOUS
<1>7. X > 0
  <2>1. value > 0
    BY <1>4, <1>5
  <2> QED BY <1>6, <2>1
<1>8. PICK Y \in Nat : Y = X * P
  OBVIOUS
<1>9. 2 * Y - c <= 2 * (c * Q) /\ T * c <= Y
  BY <1>1, <1>2, <1>3, <1>6, <1>7, <1>8, QuotientIs
<1>10. (2 * T - 1) * Y <= (2 * T) * (c * Q)
  <2>1. c * Q \in Nat
    OBVIOUS
  <2>2. T * (2 * Y - c) <= T * (2 * (c * Q))
    BY <1>9, <2>1, Multiplied
  <2>3. \A y, z, w \in Nat : /\ T * (2 * y - z) = (2 * T) * y - T * z
                             /\ T * (2 * w) = (2 * T) * w
                             /\ (2 * T - 1) * y = (2 * T) * y - y
                             /\ (2 * T) * y \in Nat /\ T * z \in Nat /\ (2 * T) * w \in Nat
    OBVIOUS
  <2> QED BY <1>9, <2>1, <2>2, <2>3
<1>11. Q <= P * R /\ R \in Nat
  BY <1>4, <1>5
<1>12. (2 * T - 1) * X <= (2 * T) * (c * R)
  <2>1. 2 * T - 1 \in Nat /\ 2 * T \in Nat /\ P * R \in Nat /\ c * Q \in Nat /\ c * R \in Nat
    BY <1>1, <1>11
  <2>2. c * Q <= c * (P * R) /\ c * (P * R) \in Nat
    BY <1>11, <2>1, Multiplied
  <2>3. (2 * T) * (c * Q) <= (2 * T) * (c * (P * R))
    BY <2>1, <2>2, Multiplied
  <2>4. (2 * T) * (c * (P * R)) = P * ((2 * T) * (c * R)) /\ (2 * T - 1) * Y = P * ((2 * T - 1) * X)
    BY <1>8, <1>11
  <2>5. /\ (2 * T) * (c * R) \in Nat /\ (2 * T - 1) * X \in Nat
        /\ (2 * T) * (c * Q) \in Nat /\ (2 * T - 1) * Y \in Nat
        /\ P * ((2 * T) * (c * R)) \in Nat /\ P * ((2 * T - 1) * X) \in Nat
    BY <2>1
  <2>6. P * ((2 * T - 1) * X) <= P * ((2 * T) * (c * R))
    BY <1>10, <2>3, <2>4, <2>5
  <2> QED BY <1>3, <2>5, <2>6, Divided
<1>13. (2 * T - 1) * m <= (2 * T + 1) * (a * R)
  <2>1. 2 * T - 1 \in Nat /\ (2 * T - 1) * X \in Nat /\ (2 * T) * (c * R) \in Nat
        /\ (2 * T) * (b * c) \in Nat /\ (2 * T + 1) * (a * s) \in Nat
        /\ (2 * T - 1) * m \in Nat /\ (2 * T + 1) * (a * R) \in Nat
    BY <1>1, <1>11
  <2>2. b * ((2 * T - 1) * X) <= b * ((2 * T) * (c * R))
    BY <1>12, <2>1, Multiplied
  <2>3. R * ((2 * T) * (b * c)) <= R * ((2 * T + 1) * (a * s))
    BY <1>1, <1>11, <2>1, Multiplied
  <2>4. b * ((2 * T) * (c * R)) = R * ((2 * T) * (b * c))
    BY <1>11
  <2>5. R * ((2 * T + 1) * (a * s)) = s * ((2 * T + 1) * (a * R))
    BY <1>11
  <2>6. b * ((2 * T - 1) * X) = s * ((2 * T - 1) * m)
    BY <1>6
  <2>7. /\ R * ((2 * T) * (b * c)) \in Nat /\ s * ((2 * T + 1) * (a * R)) \in Nat
        /\ s * ((2 * T - 1) * m) \in Nat
    BY <1>11, <2>1
  <2>8. s * ((2 * T - 1) * m) <= s * ((2 * T + 1) * (a * R))
    BY <2>2, <2>3, <2>4, <2>5, <2>6, <2>7
  <2> QED BY <2>1, <2>8, Divided
<1>14. PICK n \in Nat : n = a * R
  BY <1>11
<1>15. n <= m - 1 /\ m < T
  BY <1>1, <1>5, <1>6, <1>11, <1>14
<1>16. (2 * T + 1) * n <= (2 * T + 1) * (m - 1)
  BY <1>15, Multiplied
<1>17. /\ (2 * T + 1) * (m - 1) = (2 * T) * m - 2 * T + m - 1
       /\ (2 * T - 1) * m = (2 * T) * m - m
       /\ (2 * T) * m \in Nat /\ (2 * T + 1) * n \in Nat
  OBVIOUS
<1> QED BY <1>13, <1>14, <1>15, <1>16, <1>17

\* A period the engine could read is an amount of a unit it knows.
LEMMA PeriodIsKnown ==
  ASSUME TypeOK, Years # None, NEW period, period = metadata.period
  PROVE  /\ period # None /\ period \in Periods /\ period.amount >= 0
         /\ Years = ParseYears(period)
<1>1. metadata \in Metadata
  BY DEF TypeOK
<1>2. period \in Periods \cup {None}
  BY <1>1, PortfolioAssumption DEF Units, Periods
<1>3. period # None /\ ~(period.amount < 0)
  BY DEF Years, ParseYears
<1>4. period.amount \in Int
  BY <1>2, <1>3 DEF Periods
<1> QED BY <1>2, <1>3, <1>4 DEF Years

\* For any tender whose value fits the precision of a division, the turnover
\* asked for is never below the exact min(V / N, V), whatever the period.
THEOREM RequirementCorrect == Spec => []RequirementNeverUnderstated
<1>1. TypeOK => RequirementNeverUnderstated
  <2>1. SUFFICES ASSUME TypeOK, Value # None, Years # None, Years.coef > 0
                 PROVE  RequirementNeverUnderstated
    BY DEF RequirementNeverUnderstated, KnownRequirement
  <2>2. PICK period : period = metadata.period
    OBVIOUS
  <2>3. /\ period # None /\ period \in Periods /\ period.amount >= 0
        /\ Years = ParseYears(period)
    BY <2>1, <2>2, PeriodIsKnown
  <2>4. PICK a, b, c, s : /\ a = Fraction(period)[1] /\ b = Fraction(period)[2]
                          /\ c = ParseYears(period).coef /\ s = ParseYears(period).scale
    OBVIOUS
  <2>5. /\ a \in Nat /\ b \in Nat /\ b > 0 /\ c \in Nat /\ s \in Nat /\ s > 0
        /\ (2 * Full) * (b * c) <= (2 * Full + 1) * (a * s)
    BY <2>3, <2>4, YearsAreClose
  <2>6. c > 0
    BY <2>1, <2>3, <2>4
  <2>7. PICK v : v = Value
    OBVIOUS
  <2>8. v \in Nat /\ b * v < Full
    <3>1. metadata \in Metadata /\ tender.value \in Values \cup {None}
      BY <2>1 DEF TypeOK
    <3>2. v \in (Values \cup {metadata.value}) \ {None}
      BY <2>1, <2>7, <3>1 DEF Value, Prefer
    <3>3. v \in Nat
      BY <2>1, <2>7, ValueIsMoney
    <3>4. b * v < Full
      BY <2>2, <2>3, <2>4, <3>1, <3>2, PrecisionAssumption
    <3> QED BY <3>3, <3>4
  <2>9. PICK years, R : years = ParseYears(period) /\ R = RequiredTurnover(v, years)
    OBVIOUS
  <2>10. R * a >= v * b \/ R >= v
    BY <2>4, <2>5, <2>6, <2>8, <2>9, RequirementSuffices
  <2> QED BY <2>2, <2>3, <2>4, <2>7, <2>9, <2>10 DEF RequirementNeverUnderstated, ExactYears
<1> QED BY <1>1, TypeCorrect, PTL

(***************************************************************************)
(* More evidence never hurts.                                              *)
(***************************************************************************)
\* The amounts of three years are added up.
LEMMA SumOfThree ==
  ASSUME NEW S, NEW x, NEW y, NEW z, S = {x, y, z}, x # y, x # z, y # z,
         \A u \in S : u.amount \in Int
  PROVE  MapThenSumSet(LAMBDA c : c.amount, S) = x.amount + y.amount + z.amount
<1> DEFINE Pick(s) == CHOOSE u \in s : TRUE
           Share(u, s) == IF u \in s THEN u.amount ELSE 0
           g == [s \in SUBSET S |-> Share(x, s) + Share(y, s) + Share(z, s)]
           iter == CHOOSE f : f = [s \in SUBSET S |->
                     IF s = {} THEN 0 ELSE Pick(s).amount + f[s \ {Pick(s)}]]
<1>1. \A s \in SUBSET S : s # {} => Pick(s) \in s
  OBVIOUS
<1>2. MapThenSumSet(LAMBDA c : c.amount, S) = iter[S]
  BY DEF MapThenSumSet, MapThenFoldSet
<1> HIDE DEF Pick
<1>3. g = [s \in SUBSET S |-> IF s = {} THEN 0 ELSE Pick(s).amount + g[s \ {Pick(s)}]]
  <2>1. ASSUME NEW s \in SUBSET S, s # {} PROVE g[s] = Pick(s).amount + g[s \ {Pick(s)}]
    <3>1. PICK u \in s : u = Pick(s)
      BY <1>1, <2>1
    <3>2. PICK t \in SUBSET S : t = s \ {u}
      OBVIOUS
    <3>3. x.amount \in Int /\ y.amount \in Int /\ z.amount \in Int
      OBVIOUS
    <3>4. g[s] = u.amount + g[t]
      BY <3>2, <3>3
    <3> QED BY <3>1, <3>2, <3>4
  <2>2. g[{}] = 0
    OBVIOUS
  <2>3. g = [s \in SUBSET S |-> g[s]]
    OBVIOUS
  <2> HIDE DEF g
  <2> QED BY <2>1, <2>2, <2>3
<1> HIDE DEF g
<1>4. iter = [s \in SUBSET S |-> IF s = {} THEN 0 ELSE Pick(s).amount + iter[s \ {Pick(s)}]]
  BY <1>3
<1> HIDE DEF iter
<1>5. iter[{}] = 0
  BY <1>4
<1>6. \A s \in SUBSET S : s # {} => iter[s] = Pick(s).amount + iter[s \ {Pick(s)}]
  BY <1>4
<1>7. \A u \in S : iter[{u}] = u.amount
  <2> TAKE u \in S
  <2>1. PICK s \in SUBSET S : s = {u}
    OBVIOUS
  <2>2. s # {} /\ Pick(s) = u /\ s \ {u} = {}
    BY <1>1, <2>1
  <2>3. iter[s] = u.amount + iter[{}]
    BY <1>6, <2>2, Zenon
  <2>4. u.amount \in Int
    OBVIOUS
  <2>5. iter[s] = u.amount
    BY ONLY <1>5, <2>3, <2>4
  <2> QED BY ONLY <2>1, <2>5
<1>8. \A u, v \in S : u # v => iter[{u, v}] = u.amount + v.amount
  <2>1. SUFFICES ASSUME NEW u \in S, NEW v \in S, u # v PROVE iter[{u, v}] = u.amount + v.amount
    OBVIOUS
  <2>2. PICK s \in SUBSET S : s = {u, v}
    OBVIOUS
  <2>3. Pick(s) \in s /\ iter[s] = Pick(s).amount + iter[s \ {Pick(s)}]
    BY <1>1, <1>6, <2>2
  <2>4. s \ {u} = {v} /\ s \ {v} = {u}
    BY <2>1, <2>2
  <2>5. Pick(s) = u \/ Pick(s) = v
    BY <2>2, <2>3
  <2>6. iter[s] = u.amount + iter[{v}] \/ iter[s] = v.amount + iter[{u}]
    BY ONLY <2>3, <2>4, <2>5, Zenon
  <2>7. iter[{u}] = u.amount /\ iter[{v}] = v.amount /\ u.amount \in Int /\ v.amount \in Int
    BY <1>7
  <2>8. iter[s] = u.amount + v.amount
    BY ONLY <2>6, <2>7
  <2> QED BY ONLY <2>2, <2>8
<1>9. iter[S] = x.amount + y.amount + z.amount
  <2>1. Pick(S) \in {x, y, z} /\ iter[S] = Pick(S).amount + iter[S \ {Pick(S)}]
    BY <1>1, <1>6
  <2>2. S \ {x} = {y, z} /\ S \ {y} = {x, z} /\ S \ {z} = {x, y}
    OBVIOUS
  <2>3. iter[{y, z}] = y.amount + z.amount /\ iter[{x, z}] = x.amount + z.amount
        /\ iter[{x, y}] = x.amount + y.amount
    BY <1>8
  <2>4. Pick(S) = x \/ Pick(S) = y \/ Pick(S) = z
    BY ONLY <2>1
  <2>5. \/ iter[S] = x.amount + iter[{y, z}] \/ iter[S] = y.amount + iter[{x, z}]
        \/ iter[S] = z.amount + iter[{x, y}]
    BY ONLY <2>1, <2>2, <2>4, Zenon
  <2>6. x.amount \in Int /\ y.amount \in Int /\ z.amount \in Int
    OBVIOUS
  <2>7. PICK a \in Int, b \in Int, c \in Int : a = x.amount /\ b = y.amount /\ c = z.amount
    BY <2>6
  <2>8. iter[S] = a + (b + c) \/ iter[S] = b + (a + c) \/ iter[S] = c + (a + b)
    BY ONLY <2>3, <2>5, <2>7, Zenon
  <2>9. iter[S] = a + b + c
    BY ONLY <2>7, <2>8
  <2> QED BY ONLY <2>7, <2>9
<1> QED BY <1>2, <1>9

\* One rule's answer is no worse than another.
Better(after, before) == after = before \/ before = "failed" \/ after = "passed"

LEMMA HalfEvenGrows ==
  ASSUME NEW n \in Nat, NEW m \in Nat, n <= m
  PROVE  HalfEven(n, 3) <= HalfEven(m, 3)
<1>1. PICK q, r : q = n \div 3 /\ r = n % 3
  OBVIOUS
<1>2. PICK p, t : p = m \div 3 /\ t = m % 3
  OBVIOUS
<1>3. q \in Nat /\ r \in 0 .. 2 /\ n = 3 * q + r
  BY <1>1
<1>4. p \in Nat /\ t \in 0 .. 2 /\ m = 3 * p + t
  BY <1>2
<1>5. HalfEven(n, 3) = IF 2 * r > 3 THEN q + 1 ELSE q
  BY <1>1, <1>3 DEF HalfEven
<1>6. HalfEven(m, 3) = IF 2 * t > 3 THEN p + 1 ELSE p
  BY <1>2, <1>4 DEF HalfEven
<1> QED BY <1>3, <1>4, <1>5, <1>6

\* The certificates of the years S, of the amounts h: as many as there are years.
Certificates(S, h) == {[year |-> y, amount |-> h[y]] : y \in S}

LEMMA OneEachYear ==
  ASSUME NEW S, NEW h, IsFiniteSet(S) PROVE Cardinality(Certificates(S, h)) = Cardinality(S)
<1> DEFINE row == [y \in S |-> [year |-> y, amount |-> h[y]]]
<1>1. row \in Surjection(S, Certificates(S, h))
  BY DEF Surjection, Certificates
<1>2. \A y, z \in S : row[y] = row[z] => y = z
  <2>1. \A y \in S : row[y].year = y
    OBVIOUS
  <2> QED BY <2>1
<1>3. row \in Injection(S, Certificates(S, h))
  BY <1>1, <1>2 DEF Surjection, Injection, IsInjective
<1> QED BY <1>1, <1>3, FS_Surjection

\* No fewer certified years, of no smaller amounts; where the average has its
\* three years now it had them before.
LEMMA FinancialGrows ==
  ASSUME NEW L \in Int, NEW Z \in SUBSET ((L - 2) .. L), NEW Y \in SUBSET Z, NEW f, NEW g,
         \A y \in Y : f[y] \in Nat /\ g[y] \in Nat /\ f[y] <= g[y],
         NEW W, W = Certificates(Y, f), NEW X, X = Certificates(Z, g),
         Cardinality(W) < 3 => Cardinality(X) # 3,
         NEW v, NEW years,
         v # None /\ years # None /\ years.coef # 0 => RequiredTurnover(v, years) \in Int
  PROVE  Better(Financial(v, years, X), Financial(v, years, W))
<1>1. IsFiniteSet((L - 2) .. L) /\ Cardinality((L - 2) .. L) = 3
  <2>1. L - 2 \in Int /\ ~(L - 2 > L) /\ L - (L - 2) + 1 = 3
    OBVIOUS
  <2> QED BY <2>1, FS_Interval
<1>2. /\ IsFiniteSet(Y) /\ Cardinality(Y) <= 3 /\ Cardinality(Y) \in Nat
      /\ IsFiniteSet(Z) /\ Cardinality(Z) <= 3 /\ Cardinality(Z) \in Nat
      /\ Cardinality(Y) = 3 => Y = (L - 2) .. L /\ Z = Y
  <2>1. PICK I : I = (L - 2) .. L
    OBVIOUS
  <2>2. IsFiniteSet(I) /\ Cardinality(I) = 3 /\ Z \in SUBSET I /\ Y \in SUBSET I
    BY <1>1, <2>1
  <2>3. ASSUME NEW S \in SUBSET I
        PROVE  /\ IsFiniteSet(S) /\ Cardinality(S) <= 3 /\ Cardinality(S) \in Nat
               /\ Cardinality(S) = 3 => S = I
    <3>1. IsFiniteSet(S) /\ Cardinality(S) <= Cardinality(I) /\ (Cardinality(I) = Cardinality(S) => I = S)
      BY ONLY <2>2, <2>3, FS_Subset
    <3> QED BY ONLY <2>2, <3>1, FS_CardinalityType
  <2> QED BY <2>1, <2>2, <2>3
<1>3. \A S, h : IsFiniteSet(S) => Cardinality(Certificates(S, h)) = Cardinality(S)
  BY OneEachYear
<1>4. Cardinality(W) = Cardinality(Y) /\ Cardinality(X) = Cardinality(Z)
  <2>1. W = Certificates(Y, f) /\ X = Certificates(Z, g)
    OBVIOUS
  <2> QED BY ONLY <1>2, <1>3, <2>1
<1>5. CASE Cardinality(Y) < 3
  <2>1. Cardinality(X) < 3
    BY <1>2, <1>4, <1>5
  <2> QED BY <1>4, <1>5, <2>1 DEF Financial, Better, TURNOVER_AVERAGING_YEARS
<1>6. CASE ~(Cardinality(Y) < 3)
  <2>1. Cardinality(Y) = 3 /\ Z = Y /\ L - 2 \in Y /\ L - 1 \in Y /\ L \in Y
        /\ \A y \in Y : y = L - 2 \/ y = L - 1 \/ y = L
    BY <1>2, <1>6
  <2>2. ASSUME NEW h, NEW H, H = Certificates(Y, h),
               \A y \in Y : h[y] \in Nat
        PROVE  AverageTurnover(H) = HalfEven(h[L - 2] + h[L - 1] + h[L], 3)
    <3>1. PICK x, y, z : /\ x = [year |-> L - 2, amount |-> h[L - 2]]
                         /\ y = [year |-> L - 1, amount |-> h[L - 1]]
                         /\ z = [year |-> L, amount |-> h[L]]
      OBVIOUS
    <3>2. H = {x, y, z}
      BY <2>1, <2>2, <3>1 DEF Certificates
    <3>3. x.year # y.year /\ x.year # z.year /\ y.year # z.year
      BY <3>1
    <3>4. /\ x.amount = h[L - 2] /\ y.amount = h[L - 1] /\ z.amount = h[L]
          /\ x.amount \in Int /\ y.amount \in Int /\ z.amount \in Int
      BY <2>1, <2>2, <3>1
    <3>5. x # y /\ x # z /\ y # z /\ \A u \in H : u.amount \in Int
      BY <3>2, <3>3, <3>4
    <3>6. MapThenSumSet(LAMBDA c : c.amount, H) = h[L - 2] + h[L - 1] + h[L]
      BY <3>2, <3>4, <3>5, SumOfThree
    <3>7. Cardinality(H) = 3
      BY ONLY <1>2, <1>3, <2>1, <2>2
    <3> QED BY <3>6, <3>7 DEF AverageTurnover
  <2>3. PICK n \in Nat, m \in Nat : /\ n = f[L - 2] + f[L - 1] + f[L]
                                    /\ m = g[L - 2] + g[L - 1] + g[L] /\ n <= m
    BY <2>1
  <2>4. AverageTurnover(W) = HalfEven(n, 3) /\ AverageTurnover(X) = HalfEven(m, 3)
    <3>1. /\ W = Certificates(Y, f) /\ X = Certificates(Y, g)
          /\ \A y \in Y : f[y] \in Nat /\ g[y] \in Nat
      BY <2>1
    <3>2. AverageTurnover(W) = HalfEven(f[L - 2] + f[L - 1] + f[L], 3)
      BY <2>2, <3>1
    <3>3. AverageTurnover(X) = HalfEven(g[L - 2] + g[L - 1] + g[L], 3)
      BY <2>2, <3>1
    <3> QED BY <2>3, <3>2, <3>3
  <2>5. HalfEven(n, 3) \in Nat /\ HalfEven(m, 3) \in Nat /\ HalfEven(n, 3) <= HalfEven(m, 3)
    BY <2>3, HalfEvenIs, HalfEvenGrows
  <2>6. PICK a \in Nat, b \in Nat : a = AverageTurnover(W) /\ b = AverageTurnover(X) /\ a <= b
    BY <2>4, <2>5
  <2>7. CASE v = None \/ years = None
    BY <2>7 DEF Financial, Better
  <2>8. CASE v # None /\ years # None /\ years.coef = 0
    BY <2>8 DEF Financial, Better
  <2>9. CASE v # None /\ years # None /\ years.coef # 0
    <3>1. PICK R \in Int : R = RequiredTurnover(v, years)
      BY <2>9
    <3>2. Financial(v, years, W) = IF a >= R THEN "passed" ELSE "failed"
      BY <1>4, <2>1, <2>6, <2>9, <3>1 DEF Financial, TURNOVER_AVERAGING_YEARS
    <3>3. Financial(v, years, X) = IF b >= R THEN "passed" ELSE "failed"
      BY <1>4, <2>1, <2>6, <2>9, <3>1 DEF Financial, TURNOVER_AVERAGING_YEARS
    <3> QED BY <2>6, <3>1, <3>2, <3>3 DEF Better
  <2> QED BY <2>7, <2>8, <2>9
<1> QED BY <1>5, <1>6

\* Finitely many numbers have a greatest.
LEMMA MaxIs ==
  ASSUME NEW S \in SUBSET Int, IsFiniteSet(S), S # {}
  PROVE  Max(S) \in S /\ \A x \in S : x <= Max(S)
<1> DEFINE Debt(x) == [value |-> -x]
           debt == [x \in S |-> Debt(x)]
           E == {Debt(x) : x \in S}
<1>1. debt \in Surjection(S, E)
  BY DEF Surjection
<1>2. IsFiniteSet(E)
  BY <1>1, FS_Surjection
<1>3. \A x \in S : Debt(x) \in E /\ Debt(x).value = -x
  OBVIOUS
<1>4. Money(E) /\ E # {}
  <2>1. \A c \in E : c.value \in Int
    OBVIOUS
  <2> HIDE DEF E
  <2> QED BY <1>2, <1>3, <2>1 DEF Money
<1>5. PICK c \in E : \A d \in E : c.value <= d.value
  BY <1>4, CheapestExists
<1>6. PICK x \in S : c = Debt(x)
  OBVIOUS
<1> HIDE DEF E, Debt
<1>7. \A y \in S : x >= y
  <2>1. TAKE y \in S
  <2>2. -x <= -y
    BY <1>3, <1>5, <1>6
  <2> QED BY <2>2
<1>8. Max(S) \in S /\ \A y \in S : Max(S) >= y
  BY <1>6, <1>7 DEF Max
<1>9. Max(S) \in Int
  BY <1>8
<1> QED BY <1>8, <1>9

\* The greatest of more numbers is no smaller.
LEMMA MaxGrows ==
  ASSUME NEW T \in SUBSET Int, IsFiniteSet(T), NEW S \in SUBSET T, S # {}
  PROVE  Max(S) \in Int /\ Max(T) \in Int /\ Max(S) <= Max(T)
<1>1. IsFiniteSet(S) /\ T # {}
  BY FS_Subset
<1> QED BY <1>1, MaxIs

LEMMA CoverageIs ==
  ASSUME NEW bag, IsFiniteSet(bag), NEW tokens
  PROVE  Coverage(bag, tokens) \in Nat
<1>1. PICK n, m : n = Cardinality(bag \cap tokens) /\ m = Cardinality(bag)
  OBVIOUS
<1>2. n \in Nat /\ m \in Nat /\ (bag # {} => m > 0)
  BY <1>1, FS_Intersection, FS_CardinalityType, FS_EmptySet
<1>3. bag # {} => HalfEven(1000 * n, m) \in Nat
  BY <1>2, HalfEvenIs
<1> QED BY <1>1, <1>3 DEF Coverage

\* More bags are covered no less.
LEMMA LexicalGrows ==
  ASSUME NEW more, IsFiniteSet(more), \A b \in more : IsFiniteSet(b), NEW bags \in SUBSET more,
         NEW tokens
  PROVE  /\ Lexical(bags, tokens) \in Int /\ Lexical(more, tokens) \in Int
         /\ Lexical(bags, tokens) <= Lexical(more, tokens)
<1> DEFINE Of(set) == {Coverage(b, tokens) : b \in set}
           cover == [b \in more |-> Coverage(b, tokens)]
<1>1. cover \in Surjection(more, Of(more))
  BY DEF Surjection
<1>2. IsFiniteSet(Of(more))
  BY <1>1, FS_Surjection
<1>3. IsFiniteSet(Of(more) \cup {0})
  BY <1>2, FS_AddElement
<1>4. Of(more) \cup {0} \in SUBSET Int /\ Of(bags) \cup {0} \in SUBSET (Of(more) \cup {0})
  BY CoverageIs
<1> HIDE DEF Of
<1>5. Of(bags) \cup {0} # {}
  OBVIOUS
<1>6. LET S == Of(bags) \cup {0}
          T == Of(more) \cup {0}
      IN  Max(S) \in Int /\ Max(T) \in Int /\ Max(S) <= Max(T)
  BY <1>3, <1>4, <1>5, MaxGrows
<1> QED BY <1>6 DEF Lexical, Of

\* One grade is no lower than another.
AtLeast(high, low) == low = "NO_MATCH" \/ high = low \/ high = "MATCHED"

LEMMA GradeGrows ==
  ASSUME NEW low \in Int, NEW high \in Int, low <= high
  PROVE  /\ AtLeast(GradeFor(high), GradeFor(low))
         /\ GradeFor(low) # "NO_MATCH" => GradeFor(high) # "NO_MATCH"
  BY DEF AtLeast, GradeFor

\* A work type with no fewer aliases and words, and no lower similarity, is
\* matched as well, unless its words take the place of its similarity.
LEMMA ScoreGrows ==
  ASSUME NEW c, NEW d, NEW scope, d.type = c.type, c.aliases \subseteq d.aliases,
         IsFiniteSet(d.bags), \A b \in d.bags : IsFiniteSet(b), c.bags \subseteq d.bags,
         c.semantic # None => /\ d.semantic # None /\ c.semantic \in Int /\ d.semantic \in Int
                              /\ c.semantic <= d.semantic,
         NEW m, NEW n, m = Score(c, scope), n = Score(d, scope), m.grade # "NO_MATCH"
  PROVE  /\ n.type = m.type /\ m.type = c.type /\ n.grade # "NO_MATCH"
         /\ AtLeast(n.grade, m.grade) \/ (m.method = "SEMANTIC" /\ n.method = "LEXICAL")
<1>1. PICK low, high : /\ low = Lexical(c.bags, scope.tokens)
                       /\ high = Lexical(d.bags, scope.tokens)
  OBVIOUS
<1>2. low \in Int /\ high \in Int /\ low <= high
  BY <1>1, LexicalGrows
<1>3. PICK before, after : before = GradeFor(low) /\ after = GradeFor(high)
  OBVIOUS
<1>4. AtLeast(after, before) /\ (before # "NO_MATCH" => after # "NO_MATCH")
  BY <1>2, <1>3, GradeGrows
<1>5. /\ n = IF d.aliases \cap scope.phrases # {}
               THEN [type |-> d.type, method |-> "EXACT", grade |-> "MATCHED"]
             ELSE IF after # "NO_MATCH"
               THEN [type |-> d.type, method |-> "LEXICAL", grade |-> after]
             ELSE IF d.semantic # None
               THEN [type |-> d.type, method |-> "SEMANTIC", grade |-> GradeFor(d.semantic)]
             ELSE [type |-> d.type, method |-> "SEMANTIC", grade |-> "NO_MATCH"]
      /\ m = IF c.aliases \cap scope.phrases # {}
               THEN [type |-> c.type, method |-> "EXACT", grade |-> "MATCHED"]
             ELSE IF before # "NO_MATCH"
               THEN [type |-> c.type, method |-> "LEXICAL", grade |-> before]
             ELSE IF c.semantic # None
               THEN [type |-> c.type, method |-> "SEMANTIC", grade |-> GradeFor(c.semantic)]
             ELSE [type |-> c.type, method |-> "SEMANTIC", grade |-> "NO_MATCH"]
  BY <1>1, <1>3, Zenon DEF Score
<1>6. n.type = m.type /\ m.type = c.type
  BY <1>5
<1>7. CASE d.aliases \cap scope.phrases # {}
  BY <1>5, <1>6, <1>7 DEF AtLeast
<1>8. CASE d.aliases \cap scope.phrases = {} /\ after # "NO_MATCH"
  <2>1. c.aliases \cap scope.phrases = {}
    BY <1>8
  <2>2. n.method = "LEXICAL" /\ n.grade = after
    BY <1>5, <1>8
  <2>3. (m.method = "LEXICAL" /\ m.grade = before) \/ m.method = "SEMANTIC"
    BY <1>5, <2>1
  <2> QED BY <1>4, <1>6, <1>8, <2>2, <2>3
<1>9. CASE d.aliases \cap scope.phrases = {} /\ after = "NO_MATCH"
  <2>1. c.aliases \cap scope.phrases = {} /\ before = "NO_MATCH"
    BY <1>4, <1>9
  <2>2. c.semantic # None /\ m.grade = GradeFor(c.semantic)
    BY <1>5, <2>1
  <2>3. n.grade = GradeFor(d.semantic)
    BY <1>5, <1>9, <2>2
  <2> QED BY <1>6, <2>2, <2>3, GradeGrows
<1> QED BY <1>7, <1>8, <1>9

\* The texts of a type's projects, of which there are finitely many.
LEMMA TextsAreFinite ==
  ASSUME TypeOK, NEW t
  PROVE  IsFiniteSet(TextsOf(t)) /\ TextsOf(t) \subseteq Texts
<1> DEFINE tagged == {q \in Considered : <<q, t>> \in tags}
           text == [p \in tagged |-> project[p].text]
<1>1. tagged \subseteq Projects /\ \A p \in tagged : project[p] # None
  BY DEF Considered, Live
<1>2. IsFiniteSet(tagged)
  BY <1>1, FS_Subset, PortfolioAssumption
<1>3. text \in Surjection(tagged, TextsOf(t))
  BY DEF Surjection, TextsOf
<1>4. IsFiniteSet(TextsOf(t))
  BY <1>2, <1>3, FS_Surjection
<1>5. \A p \in tagged : project[p].text \in Texts
  <2>1. TAKE p \in tagged
  <2>2. project[p] \in AllRows
    BY <1>1 DEF TypeOK
  <2>3. PICK q \in Projects : project[p] \in Rows[q]
    BY <2>2 DEF AllRows
  <2> QED BY <2>3, PortfolioAssumption
<1> QED BY <1>4, <1>5 DEF TextsOf

\* The similarities of a type's projects.
Scores(t) == {Cosine[metadata.scope.id][x] : x \in TextsOf(t)}

LEMMA ScoresAreNumbers ==
  ASSUME TypeOK, NEW t
  PROVE  IsFiniteSet(Scores(t)) /\ Scores(t) \in SUBSET Int
<1> DEFINE score == [x \in TextsOf(t) |-> Cosine[metadata.scope.id][x]]
<1>1. score \in Surjection(TextsOf(t), Scores(t))
  BY DEF Surjection, Scores
<1>2. IsFiniteSet(Scores(t))
  BY <1>1, TextsAreFinite, FS_Surjection
<1>3. metadata \in Metadata /\ TextsOf(t) \subseteq Texts
  BY TextsAreFinite DEF TypeOK
<1> QED BY <1>2, <1>3, PortfolioAssumption DEF Scores

\* The bags of a type's words, of which there are finitely many.
Bags(t) ==
  {Bag[x] : x \in {a \in Phrases : alias[a] = t} \cup {workTypes[t].text} \cup TextsOf(t)}

LEMMA BagsAreFinite ==
  ASSUME TypeOK, NEW t \in Active
  PROVE  IsFiniteSet(Bags(t)) /\ \A b \in Bags(t) : IsFiniteSet(b)
<1> DEFINE aliases == {a \in Phrases : alias[a] = t}
           words == aliases \cup {workTypes[t].text} \cup TextsOf(t)
           bag == [x \in words |-> Bag[x]]
<1>1. IsFiniteSet(aliases)
  BY FS_Subset, PortfolioAssumption
<1>2. IsFiniteSet(aliases \cup {workTypes[t].text})
  BY <1>1, FS_AddElement
<1>3. IsFiniteSet(words)
  BY <1>2, TextsAreFinite, FS_Union
<1>4. bag \in Surjection(words, Bags(t))
  BY DEF Surjection, Bags
<1>5. workTypes[t].text \in Texts
  BY DEF TypeOK, Active
<1>6. words \subseteq Texts \cup Phrases
  BY <1>5, TextsAreFinite
<1>7. IsFiniteSet(Bags(t))
  BY <1>3, <1>4, FS_Surjection
<1>8. \A x \in words : IsFiniteSet(Bag[x])
  BY <1>6, PortfolioAssumption
<1> QED BY <1>7, <1>8 DEF Bags

LEMMA CandidateIs ==
  ASSUME NEW t
  PROVE  /\ Candidate(t) = [type |-> t, aliases |-> {a \in Phrases : alias[a] = t},
                            bags |-> Bags(t), semantic |-> SemanticScore(t)]
         /\ SemanticScore(t) = IF vectors /\ \E s \in Scores(t) : s > 0 THEN Max(Scores(t)) ELSE None
  BY DEF Candidate, Bags, SemanticScore, Scores

\* What more evidence adds to.
LEMMA EvidenceGrows ==
  ASSUME TypeOK, MoreEvidence, ~PushedOut
  PROVE  /\ Active \subseteq Active' /\ Considered \subseteq Considered'
         /\ \A p \in Considered : project'[p] = project[p]
         /\ \A t \in Active : /\ TextsOf(t) \subseteq TextsOf(t)' /\ Scores(t) \subseteq Scores(t)'
                              /\ Bags(t) \subseteq Bags(t)'
                              /\ {a \in Phrases : alias[a] = t} \subseteq {a \in Phrases : alias'[a] = t}
<1>1. /\ UNCHANGED <<tender, metadata, vectors>>
      /\ \A t \in Active : workTypes'[t] = workTypes[t]
      /\ \A a \in Phrases : alias[a] # None => alias'[a] = alias[a]
      /\ \A p \in Live : project'[p] = project[p]
      /\ tags \subseteq tags'
  BY DEF MoreEvidence
<1>2. Active \subseteq Active'
  BY <1>1 DEF Active
<1>3. Considered \subseteq Considered' /\ Considered \subseteq Live
  BY DEF PushedOut, Considered
<1>4. \A p \in Considered : project'[p] = project[p]
  BY <1>1, <1>3
<1>5. ASSUME NEW t \in Active
      PROVE  /\ TextsOf(t) \subseteq TextsOf(t)' /\ Scores(t) \subseteq Scores(t)'
             /\ Bags(t) \subseteq Bags(t)'
             /\ {a \in Phrases : alias[a] = t} \subseteq {a \in Phrases : alias'[a] = t}
  <2>1. TextsOf(t) \subseteq TextsOf(t)'
    <3>1. \A p \in {q \in Considered : <<q, t>> \in tags} :
            p \in {q \in Considered' : <<q, t>> \in tags'} /\ project'[p].text = project[p].text
      BY <1>1, <1>3, <1>4
    <3> QED BY <3>1 DEF TextsOf
  <2>2. metadata'.scope = metadata.scope
    BY <1>1
  <2>3. Scores(t) \subseteq Scores(t)'
    BY <2>1, <2>2 DEF Scores
  <2>4. t # None
    BY PortfolioAssumption DEF Active
  <2>5. {a \in Phrases : alias[a] = t} \subseteq {a \in Phrases : alias'[a] = t}
    BY <1>1, <2>4
  <2>6. workTypes'[t].text = workTypes[t].text
    BY <1>1
  <2>7. Bags(t) \subseteq Bags(t)'
    BY <2>1, <2>5, <2>6 DEF Bags
  <2> QED BY <2>1, <2>3, <2>5, <2>7
<1> QED BY <1>1, <1>2, <1>3, <1>4, <1>5

\* What the engine gathers is finite, and its numbers are numbers.
GatheredOK ==
  /\ IsFiniteSet(Active)
  /\ \A t \in Active : IsFiniteSet(Bags(t)) /\ \A b \in Bags(t) : IsFiniteSet(b)
  /\ \A t \in Active : IsFiniteSet(Scores(t)) /\ Scores(t) \in SUBSET Int
  /\ Money(Evidence(Matches, Candidates, Closing))
  /\ Value # None => Value \in Int

LEMMA Gathered == TypeOK => GatheredOK
<1>1. IsFiniteSet(Active)
  BY FS_Subset, PortfolioAssumption DEF Active
<1> QED BY <1>1, BagsAreFinite, ScoresAreNumbers, EvidenceIsMoney, ValueIsMoney DEF GatheredOK

\* Every match is still there, graded no lower, or is demoted.
LEMMA MatchesGrow ==
  ASSUME TypeOK, GatheredOK, GatheredOK', MoreEvidence, ~PushedOut, ~Demoted, NEW m \in Matches
  PROVE  m.grade # "NO_MATCH" /\ \E n \in Matches' : n.type = m.type /\ AtLeast(n.grade, m.grade)
<1>1. metadata'.scope = metadata.scope /\ vectors' = vectors
  BY DEF MoreEvidence
<1>2. PICK t \in Active : m = Score(Candidate(t), metadata.scope) /\ m.grade # "NO_MATCH"
  BY DEF Matches, MatchWorkTypes
<1>3. PICK c, d, scope : c = Candidate(t) /\ d = Candidate(t)' /\ scope = metadata.scope
  OBVIOUS
<1>4. /\ Active \subseteq Active' /\ Scores(t) \subseteq Scores(t)' /\ Bags(t) \subseteq Bags(t)'
      /\ {a \in Phrases : alias[a] = t} \subseteq {a \in Phrases : alias'[a] = t}
  BY EvidenceGrows
<1>5. /\ c.type = t /\ c.aliases = {a \in Phrases : alias[a] = t} /\ c.bags = Bags(t)
      /\ c.semantic = IF vectors /\ \E s \in Scores(t) : s > 0 THEN Max(Scores(t)) ELSE None
  BY <1>3, CandidateIs
<1>6. PICK old, new, more, few, words :
        /\ old = Scores(t) /\ new = Scores(t)' /\ few = Bags(t) /\ more = Bags(t)'
        /\ words = {a \in Phrases : alias'[a] = t}
  OBVIOUS
<1>7. /\ d.type = t /\ d.aliases = words /\ d.bags = more
      /\ d.semantic = IF vectors' /\ \E s \in new : s > 0 THEN Max(new) ELSE None
  <2>1. d = [type |-> t, aliases |-> words, bags |-> more, semantic |-> SemanticScore(t)']
    BY <1>3, <1>6 DEF Candidate, Bags
  <2>2. SemanticScore(t)' = IF vectors' /\ \E s \in new : s > 0 THEN Max(new) ELSE None
    BY <1>6 DEF SemanticScore, Scores
  <2> QED BY <2>1, <2>2
<1>8. t \in Active'
  BY <1>4
<1>9. IsFiniteSet(more) /\ \A b \in more : IsFiniteSet(b)
  BY <1>6, <1>8 DEF GatheredOK
<1>10. IsFiniteSet(new) /\ new \in SUBSET Int /\ old \in SUBSET new
  BY <1>4, <1>6, <1>8 DEF GatheredOK
<1>11. c.semantic # None => /\ d.semantic # None /\ c.semantic \in Int /\ d.semantic \in Int
                            /\ c.semantic <= d.semantic
  <2>1. SUFFICES ASSUME c.semantic # None
                 PROVE  /\ d.semantic # None /\ c.semantic \in Int /\ d.semantic \in Int
                        /\ c.semantic <= d.semantic
    OBVIOUS
  <2>2. vectors /\ (\E s \in old : s > 0) /\ c.semantic = Max(old) /\ old # {}
    BY <1>5, <1>6, <2>1
  <2>3. vectors' /\ (\E s \in new : s > 0) /\ d.semantic = Max(new)
    BY <1>1, <1>7, <1>10, <2>2
  <2>4. Max(old) \in Int /\ Max(new) \in Int /\ Max(old) <= Max(new)
    BY <1>10, <2>2, MaxGrows
  <2> QED BY <2>2, <2>3, <2>4, PortfolioAssumption
<1>12. PICK n : n = Score(d, scope)
  OBVIOUS
<1>13. /\ n.type = m.type /\ n.grade # "NO_MATCH"
       /\ AtLeast(n.grade, m.grade) \/ (m.method = "SEMANTIC" /\ n.method = "LEXICAL")
  BY <1>2, <1>3, <1>4, <1>5, <1>6, <1>7, <1>9, <1>11, <1>12, ScoreGrows
<1>14. n \in Matches'
  BY <1>1, <1>3, <1>8, <1>12, <1>13 DEF Matches, MatchWorkTypes
<1> QED BY <1>2, <1>13, <1>14 DEF Demoted

\* One rule more: as many projects count for the similar-work rule, of the same
\* values, and perhaps others.
LEMMA SimilarWorksGrow ==
  ASSUME NEW E, Money(E), NEW F, Money(F), NEW value \in Int,
         \A c, e \in E : c.id = e.id => c = e,
         \A c \in E : \E d \in F : d.id = c.id /\ d.value = c.value,
         Qualifying(E, value) # {}
  PROVE  Qualifying(F, value) # {}
<1>1. Satisfied(E, value) # {}
  BY QualifyingCounts
<1>2. PICK k \in 1 .. 3 : Cardinality(Worth(E, SIMILAR_WORK_PCT[k], value)) >= k
  BY <1>1 DEF Satisfied
<1>3. PICK pct : pct = SIMILAR_WORK_PCT[k]
  OBVIOUS
<1> DEFINE few == Worth(E, pct, value)
           many == Worth(F, pct, value)
           same == [c \in few |-> CHOOSE d \in many : d.id = c.id]
<1>4. ASSUME NEW c \in few PROVE same[c] \in many /\ same[c].id = c.id
  <2>1. PICK d \in F : d.id = c.id /\ d.value = c.value
    BY DEF Worth
  <2>2. d \in many
    BY <2>1 DEF Worth
  <2> QED BY <2>1, <2>2
<1>5. \A c, e \in few : same[c] = same[e] => c = e
  <2>1. few \subseteq E
    BY DEF Worth
  <2> HIDE DEF few, same
  <2> QED BY <1>4, <2>1
<1>6. same \in Injection(few, many)
  <2>1. same \in [few -> many]
    BY <1>4
  <2> HIDE DEF few, many
  <2> QED BY <1>5, <2>1 DEF Injection, IsInjective
<1>7. IsFiniteSet(many)
  BY FS_Subset DEF Worth, Money
<1>8. /\ IsFiniteSet(few) /\ Cardinality(few) <= Cardinality(many)
      /\ Cardinality(few) \in Nat /\ Cardinality(many) \in Nat
  <2> HIDE DEF few, many, same
  <2> QED BY <1>6, <1>7, FS_Injection, FS_CardinalityType
<1>9. Cardinality(many) >= k
  BY <1>2, <1>3, <1>8
<1>10. k \in Satisfied(F, value)
  BY <1>3, <1>9 DEF Satisfied
<1>11. PICK m \in 1 .. 3 : Cardinality(Qualifying(F, value)) = m
  <2>1. Min(Satisfied(F, value)) \in 1 .. 3
    BY <1>10, FirstDepth DEF Satisfied
  <2> QED BY <1>10, <2>1, QualifyingCounts
<1> QED BY <1>11, FS_EmptySet

\* A certificate inside the look-back window.
Within(date, closing) ==
  LET window == CompletedYearsBefore(closing, SIMILAR_WORK_LOOKBACK_YEARS)
  IN  /\ date # None
      /\ ~Earlier(date, StartDate(Min(window)))
      /\ ~Earlier(EndDate(Max(window)), date)

LEMMA EvidenceIs ==
  ASSUME NEW matches, NEW candidates, NEW closing, NEW c
  PROVE  c \in Evidence(matches, candidates, closing) <=>
           /\ c \in candidates /\ c.types \cap {m.type : m \in matches} # {}
           /\ c.value # None /\ Within(c.certificate, closing)
  BY DEF Evidence, Within

Entry(p) ==
  [id |-> p, value |-> project[p].value, certificate |-> project[p].certificate,
   types |-> TypesOf(p)]

\* A project that counts still counts, at the value it had.
LEMMA ProjectsStillCount ==
  ASSUME TypeOK, GatheredOK, GatheredOK', MoreEvidence, ~PushedOut, ~Demoted,
         NEW E, E = Evidence(Matches, Candidates, Closing),
         NEW F, F = Evidence(Matches', Candidates', Closing')
  PROVE  /\ \A c, e \in E : c.id = e.id => c = e
         /\ \A c \in E : \E d \in F : d.id = c.id /\ d.value = c.value
<1>1. \A c : c \in Candidates <=>
        \E p \in Considered : Active # {} /\ TypesOf(p) # {} /\ c = Entry(p)
  BY DEF Candidates, Entry
<1>2. \A c \in E : \E p \in Considered : c = Entry(p)
  BY <1>1, EvidenceIs
<1>3. \A c, e \in E : c.id = e.id => c = e
  BY <1>2 DEF Entry
<1>4. ASSUME NEW c \in E PROVE \E d \in F : d.id = c.id /\ d.value = c.value
  <2>1. /\ c \in Candidates /\ c.types \cap {m.type : m \in Matches} # {}
        /\ c.value # None /\ Within(c.certificate, Closing)
    BY EvidenceIs
  <2>2. PICK p \in Considered : c = Entry(p)
    BY <1>2
  <2>3. PICK d : d = [id |-> p, value |-> project'[p].value,
                      certificate |-> project'[p].certificate, types |-> TypesOf(p)']
    OBVIOUS
  <2>4. /\ Active \subseteq Active' /\ Active # {} /\ p \in Considered' /\ project'[p] = project[p]
    <3>1. /\ Active \subseteq Active' /\ Considered \subseteq Considered'
          /\ \A q \in Considered : project'[q] = project[q]
      BY EvidenceGrows
    <3>2. Active # {}
      BY <1>1, <2>1
    <3> QED BY <2>2, <3>1, <3>2
  <2>5. TypesOf(p) \subseteq TypesOf(p)'
    BY DEF TypesOf, MoreEvidence
  <2>6. PICK m \in Matches : m.type \in TypesOf(p)
    BY <2>1, <2>2 DEF Entry
  <2>7. PICK n \in Matches' : n.type = m.type
    BY MatchesGrow, Zenon
  <2>8. d \in Candidates'
    BY <2>3, <2>4, <2>5, <2>6 DEF Candidates
  <2>9. Closing' = Closing
    BY DEF Closing, MoreEvidence
  <2>10. /\ d.id = c.id /\ d.value = c.value /\ d.certificate = c.certificate
         /\ n.type \in d.types
    BY <2>2, <2>3, <2>4, <2>5, <2>6, <2>7 DEF Entry
  <2>11. d \in F
    BY <2>1, <2>8, <2>9, <2>10, EvidenceIs
  <2> QED BY <2>10, <2>11
<1> QED BY <1>3, <1>4

\* Without an active type there is nothing to match or to count.
LEMMA NothingToMatch ==
  ASSUME Active = {} PROVE Matches = {} /\ Cardinality(Active) = 0
  BY FS_EmptySet DEF Matches, MatchWorkTypes

\* Each of the three rules answers no worse.
LEMMA ScopeGrows ==
  ASSUME TypeOK, GatheredOK, GatheredOK', MoreEvidence, ~PushedOut, ~Demoted,
         Active # {}, NEW old, old = Cardinality(Active), NEW new, new = Cardinality(Active')
  PROVE  /\ old # 0 /\ new # 0 /\ (Matches # {} => Matches' # {})
         /\ Better(StageA(Matches', new), StageA(Matches, old))
<1>1. Active' # {}
  BY EvidenceGrows
<1>2. old # 0 /\ new # 0
  BY <1>1, FS_EmptySet DEF GatheredOK
<1>3. Matches # {} => Matches' # {}
  BY MatchesGrow, Zenon
<1>4. CASE Matches = {}
  BY <1>2, <1>4 DEF StageA, Better
<1>5. CASE Matches # {} /\ \A m \in Matches : m.grade = "REVIEW"
  BY <1>2, <1>3, <1>5 DEF StageA, Better
<1>6. CASE \E m \in Matches : m.grade # "REVIEW"
  <2>1. PICK m \in Matches : m.grade # "REVIEW"
    BY <1>6
  <2>2. PICK n \in Matches' : m.grade # "NO_MATCH" /\ AtLeast(n.grade, m.grade)
    BY MatchesGrow, Zenon
  <2>3. n.grade # "REVIEW"
    BY <2>1, <2>2 DEF AtLeast
  <2> QED BY <1>2, <1>3, <2>1, <2>2, <2>3 DEF StageA, Better
<1> QED BY <1>2, <1>3, <1>4, <1>5, <1>6

LEMMA TechnicalGrows ==
  ASSUME TypeOK, GatheredOK, GatheredOK', MoreEvidence, ~PushedOut, ~Demoted,
         Active # {}, NEW old, old = Cardinality(Active), NEW new, new = Cardinality(Active')
  PROVE  Better(StageB(Matches', new, Candidates', Value', Closing'),
                StageB(Matches, old, Candidates, Value, Closing))
<1>1. old # 0 /\ new # 0 /\ (Matches # {} => Matches' # {})
  BY ScopeGrows
<1>2. Value' = Value /\ Closing' = Closing
  BY DEF MoreEvidence, Value, Closing
<1>3. CASE Matches = {}
  BY <1>1, <1>3 DEF StageB, Better
<1>4. CASE Matches # {} /\ (Value = None \/ Closing = None)
  BY <1>1, <1>2, <1>4 DEF StageB, Better
<1>5. CASE Matches # {} /\ Value # None /\ Closing # None
  <2>1. PICK E, F : /\ E = Evidence(Matches, Candidates, Closing)
                    /\ F = Evidence(Matches', Candidates', Closing')
    OBVIOUS
  <2>2. Money(E) /\ Money(F) /\ Value \in Int
    BY <1>5, <2>1 DEF GatheredOK
  <2>3. /\ \A c, e \in E : c.id = e.id => c = e
        /\ \A c \in E : \E d \in F : d.id = c.id /\ d.value = c.value
    BY <2>1, ProjectsStillCount
  <2>4. Qualifying(E, Value) # {} => Qualifying(F, Value) # {}
    BY <2>2, <2>3, SimilarWorksGrow
  <2> QED BY <1>1, <1>2, <1>5, <2>1, <2>4 DEF StageB, Better
<1> QED BY <1>3, <1>4, <1>5

LEMMA TurnoverGrows ==
  ASSUME TypeOK, TypeOK', MoreEvidence, ~WindowFilled
  PROVE  Better(Financial(Value', Years', TurnoverWindow'), Financial(Value, Years, TurnoverWindow))
<1>1. Value' = Value /\ Years' = Years /\ Closing' = Closing
  BY DEF MoreEvidence, Value, Years, Closing
<1>2. CASE Closing = None
  <2>1. TurnoverWindow = {} /\ TurnoverWindow' = {}
    BY <1>1, <1>2 DEF TurnoverWindow
  <2> QED BY <1>1, <2>1 DEF Better
<1>3. CASE Closing # None
  <2>1. PICK L \in Int : L = LatestCompleted(Closing)
    BY <1>3, ClosingIsADate DEF LatestCompleted, FYContaining, Dates
  <2>2. PICK Y, Z \in SUBSET ((L - 2) .. L) :
          /\ Y \in SUBSET Z /\ Y = ((L - 2) .. L) \cap DOMAIN turnover
          /\ Z = ((L - 2) .. L) \cap DOMAIN turnover'
    BY DEF MoreEvidence
  <2>3. CompletedYearsBefore(Closing, TURNOVER_AVERAGING_YEARS) = (L - 2) .. L
    BY <2>1 DEF CompletedYearsBefore, TURNOVER_AVERAGING_YEARS
  <2>4. TurnoverWindow = {[year |-> y, amount |-> turnover[y]] : y \in Y}
    BY <1>3, <2>2, <2>3 DEF TurnoverWindow
  <2>5. TurnoverWindow' = {[year |-> y, amount |-> turnover'[y]] : y \in Z}
    BY <1>1, <1>3, <2>2, <2>3 DEF TurnoverWindow
  <2>6. \A y \in Y : turnover[y] \in Nat /\ turnover'[y] \in Nat /\ turnover[y] <= turnover'[y]
    <3>1. /\ DOMAIN turnover \subseteq DOMAIN turnover'
          /\ \A y \in DOMAIN turnover : turnover'[y] >= turnover[y]
      BY DEF MoreEvidence
    <3>2. \A a \in {Certified[z] : z \in DOMAIN Certified} \cup {e[2] : e \in Amounts} : a \in Nat
      BY PortfolioAssumption
    <3>3. /\ \A y \in DOMAIN turnover : turnover[y] \in Nat
          /\ \A y \in DOMAIN turnover' : turnover'[y] \in Nat
      BY <3>2 DEF TypeOK
    <3> QED BY <2>2, <3>1, <3>3
  <2>7. Value # None /\ Years # None /\ Years.coef # 0 => RequiredTurnover(Value, Years) \in Int
    <3>1. SUFFICES ASSUME Value # None, Years # None, Years.coef # 0
                   PROVE  RequiredTurnover(Value, Years) \in Int
      OBVIOUS
    <3>2. PICK period : period = metadata.period
      OBVIOUS
    <3>3. /\ period # None /\ period \in Periods /\ period.amount >= 0
          /\ Years = ParseYears(period)
      BY <3>1, <3>2, PeriodIsKnown
    <3>4. PICK v, years, c, s : v = Value /\ years = Years /\ c = years.coef /\ s = years.scale
      BY Zenon
    <3>5. c \in Nat /\ s \in Nat
      BY <3>3, <3>4, YearsAreClose
    <3>6. c > 0
      BY <3>1, <3>4, <3>5
    <3>7. v \in Nat
      BY <3>1, <3>4, ValueIsMoney
    <3>8. RequiredTurnover(v, years) \in Nat
      BY <3>4, <3>5, <3>6, <3>7, RequirementIsMoney
    <3> QED BY <3>4, <3>8
  <2>8. PICK W, X, f, g, v, years : /\ W = TurnoverWindow /\ X = TurnoverWindow'
                                    /\ f = turnover /\ g = turnover'
                                    /\ v = Value /\ years = Years
    OBVIOUS
  <2>9. Cardinality(W) < 3 => Cardinality(X) # 3
    BY <2>8 DEF WindowFilled, TURNOVER_AVERAGING_YEARS
  <2>10. Better(Financial(v, years, X), Financial(v, years, W))
    <3>1. /\ W = Certificates(Y, f) /\ X = Certificates(Z, g)
          /\ \A y \in Y : f[y] \in Nat /\ g[y] \in Nat /\ f[y] <= g[y]
          /\ v # None /\ years # None /\ years.coef # 0 => RequiredTurnover(v, years) \in Int
      BY <2>4, <2>5, <2>6, <2>7, <2>8 DEF Certificates
    <3>2. L \in Int /\ Z \in SUBSET ((L - 2) .. L) /\ Y \in SUBSET Z
      BY <2>2
    <3> QED BY ONLY <2>9, <3>1, <3>2, FinancialGrows
  <2> QED BY <1>1, <2>8, <2>10
<1> QED BY <1>2, <1>3

\* Three answers no worse make a verdict no worse.
LEMMA VerdictGrows ==
  ASSUME NEW a, NEW b, NEW c, NEW x, NEW y, NEW z, Better(x, a), Better(y, b), Better(z, c)
  PROVE  ~(Rank(Status({x, y, z})) < Rank(Status({a, b, c})))
  BY DEF Better, Rank, Status

\* For any portfolio, vectors and tender: what is added to the evidence makes no
\* verdict worse, but for the first type or the last year of the window, which let
\* a rule decide, and a demoted match or a project pushed out of the screen.
THEOREM EvidenceCorrect == Spec => EvidenceNeverHurts
<1>1. ASSUME TypeOK, TypeOK', GatheredOK, GatheredOK', MoreEvidence,
             ~Demoted, ~PushedOut, ~FirstType, ~WindowFilled
      PROVE  ~Worse
  <2>1. PICK old, new : old = Cardinality(Active) /\ new = Cardinality(Active')
    OBVIOUS
  <2>2. PICK a, b, c : /\ a = Financial(Value, Years, TurnoverWindow)
                       /\ b = StageA(Matches, old)
                       /\ c = StageB(Matches, old, Candidates, Value, Closing)
    OBVIOUS
  <2>3. PICK x, y, z : /\ x = Financial(Value', Years', TurnoverWindow')
                       /\ y = StageA(Matches', new)
                       /\ z = StageB(Matches', new, Candidates', Value', Closing')
    OBVIOUS
  <2>4. Better(x, a) /\ Better(y, b) /\ Better(z, c)
    <3>1. Better(x, a)
      BY <1>1, <2>2, <2>3, TurnoverGrows
    <3>2. CASE Active # {}
      BY <1>1, <2>1, <2>2, <2>3, <3>1, <3>2, ScopeGrows, TechnicalGrows
    <3>3. CASE Active = {}
      <4>1. Matches = {} /\ old = 0
        BY <2>1, <3>3, NothingToMatch
      <4>2. Active' = {} /\ Matches' = {} /\ new = 0
        <5>1. Active' = {}
          BY <1>1, <3>3 DEF FirstType
        <5> QED BY <2>1, <5>1, FS_EmptySet DEF Matches, MatchWorkTypes
      <4> QED BY <2>2, <2>3, <3>1, <4>1, <4>2 DEF StageA, StageB, Better
    <3> QED BY <3>2, <3>3
  <2>5. Evaluate(Gather) = Status({a, b, c})
    BY <2>1, <2>2 DEF Evaluate, Gather
  <2>6. PICK after : after = Gather'
    OBVIOUS
  <2>7. after = [value |-> Value', years |-> Years', closing |-> Closing',
                 certified |-> TurnoverWindow', matches |-> Matches',
                 candidates |-> Candidates', size |-> new]
    BY <2>1, <2>6 DEF Gather
  <2>8. Evaluate(after) = Status({x, y, z})
    BY <2>3, <2>7 DEF Evaluate
  <2>9. ~(Rank(Status({x, y, z})) < Rank(Status({a, b, c})))
    BY <2>4, VerdictGrows
  <2> QED BY <2>5, <2>6, <2>8, <2>9 DEF Worse
<1> QED BY <1>1, Gathered, TypeCorrect, PTL DEF EvidenceNeverHurts

=============================================================================
