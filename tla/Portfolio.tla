------------------------------ MODULE Portfolio ------------------------------
(***************************************************************************)
(* What the decision engine reads about one extracted tender, and every    *)
(* operation that changes it: the taxonomy and its seed, project tags,     *)
(* past projects, certified turnover, the tender's own fields, its         *)
(* metadata and whether the vector store answers.  Operations follow each  *)
(* other; Screening models those that overlap a screen.                    *)
(*                                                                         *)
(* Texts are named and have a bag of tokens and a similarity to a scope.   *)
(***************************************************************************)
EXTENDS Eligibility

CONSTANTS
  Projects,   \* ids of past projects, numbered as they are created
  Types,      \* codes of work types
  Phrases,    \* normalised aliases
  Texts,      \* texts of projects and work types
  Bag,        \* the tokens of a phrase or text
  Cosine,     \* the similarity of a project's text to a scope, by its id
  Seed,       \* the packaged taxonomy: types, their text, and their aliases
  TypeTexts,  \* the texts an administrator may give a work type
  AliasUse,   \* <<phrase, type>> an administrator may add
  TagUse,     \* <<project, type>> a user may add
  Rows,       \* the rows a project may have: Rows[p] is a set
  Amounts,    \* <<year, amount>> a manager may record
  Certified,  \* the turnover recorded at the start
  Values,     \* values a tender may be patched to
  Closings,   \* closing dates a tender may be patched to
  Metadata,   \* what extraction may find
  MaxLimit    \* MAX_LIMIT: the projects a screen reads

VARIABLES
  workTypes,  \* [text, active], or None
  alias,      \* the type an alias belongs to, or None
  project,    \* [value, certificate, text], or None
  tags,       \* set of <<project, type>>
  turnover,   \* amounts by financial year
  tender,     \* [value, closing], either None when unknown
  metadata,   \* [value, closing, period, scope]
  vectors     \* whether embedding and vector store answer

taxonomy == <<workTypes, alias>>
vars == <<workTypes, alias, project, tags, turnover, tender, metadata, vectors>>

Dates == [year : Nat, month : 1 .. 12, day : 1 .. 31]

\* A completion period as an exact fraction of years.
Fraction(period) ==
  LET n == period.amount
      s == period.scale
  IN CASE period.unit = "year"  -> <<n, s>>
       [] period.unit = "month" -> <<n, 12 * s>>
       [] period.unit = "week"  -> <<7 * n, 365 * s>>
       [] period.unit = "day"   -> <<n, 365 * s>>

ASSUME PortfolioAssumption ==
  /\ Projects \subseteq Nat
  /\ IsFiniteSet(Projects) /\ IsFiniteSet(Types) /\ IsFiniteSet(Phrases)
  /\ \A x \in Texts \cup Phrases : IsFiniteSet(Bag[x])
  /\ \A m \in Metadata : \A x \in Texts : Cosine[m.scope.id][x] \in Int
  /\ Seed.text \in [Seed.types -> Texts] /\ Seed.types \subseteq Types
  /\ Seed.alias \subseteq Phrases \X Seed.types
  /\ \A a, b \in Seed.alias : a[1] = b[1] => a = b
  /\ TypeTexts \in [Types -> SUBSET Texts]
  /\ AliasUse \subseteq Phrases \X Types /\ TagUse \subseteq Projects \X Types
  /\ Closings \subseteq Dates /\ \A m \in Metadata : m.closing \in Dates \cup {None}
  /\ Values \subseteq Nat /\ \A m \in Metadata : m.value \in Nat \cup {None}
  /\ \A m \in Metadata :
       m.period \in [amount : Int, scale : Nat \ {0},
                    unit : {"year", "month", "week", "day"}] \cup {None}
  /\ \A p \in Projects : \A row \in Rows[p] : row.value \in Int \cup {None} /\ row.text \in Texts
  /\ DOMAIN Certified \subseteq Nat /\ \A y \in DOMAIN Certified : Certified[y] \in Nat
  /\ \A e \in Amounts : e[1] \in Nat /\ e[2] \in Nat
  /\ None \notin Int
  /\ None \notin Types \cup [text : Texts, active : BOOLEAN] \cup UNION {Rows[p] : p \in Projects}
  /\ MaxLimit \in Nat \ {0}

\* A division keeps digits enough for the tender's value and the period's own
\* decimals: 28, where the money columns hold 20.
ASSUME PrecisionAssumption ==
  \A m, n \in Metadata : \A v \in (Values \cup {n.value}) \ {None} :
    m.period # None => Fraction(m.period)[2] * v < Full

Live == {p \in Projects : project[p] # None}
Active == {t \in Types : workTypes[t] # None /\ workTypes[t].active}

(***************************************************************************)
(* Gathering the engine's inputs.                                          *)
(***************************************************************************)
\* Metadata is preferred, the tender's own field the fallback.
Prefer(extracted, own) == IF extracted # None THEN extracted ELSE own

Value == Prefer(metadata.value, tender.value)
Closing == Prefer(metadata.closing, tender.closing)
Years == ParseYears(metadata.period)

\* Recorded turnover in the averaging window.
TurnoverWindow ==
  LET window == IF Closing = None THEN {}
                ELSE CompletedYearsBefore(Closing, TURNOVER_AVERAGING_YEARS)
  IN {[year |-> y, amount |-> turnover[y]] : y \in window \cap DOMAIN turnover}

\* The newest MaxLimit projects.
Considered == {p \in Live : Cardinality({q \in Live : q > p}) < MaxLimit}

TypesOf(p) == {t \in Types : <<p, t>> \in tags}
TextsOf(t) == {project[p].text : p \in {q \in Considered : <<q, t>> \in tags}}

\* The best similarity of a type's projects; a score of 0 is dropped.
SemanticScore(t) ==
  LET scores == {Cosine[metadata.scope.id][x] : x \in TextsOf(t)}
  IN IF vectors /\ \E s \in scores : s > 0 THEN Max(scores) ELSE None

Candidate(t) ==
  LET aliases == {a \in Phrases : alias[a] = t}
  IN [type     |-> t,
      aliases  |-> aliases,
      bags     |-> {Bag[x] : x \in aliases \cup {workTypes[t].text} \cup TextsOf(t)},
      semantic |-> SemanticScore(t)]

Matches == MatchWorkTypes(metadata.scope, {Candidate(t) : t \in Active})

\* The projects of the technical rule; none are read for an empty taxonomy.
Candidates ==
  {[id |-> p, value |-> project[p].value, certificate |-> project[p].certificate,
    types |-> TypesOf(p)] : p \in {q \in Considered : Active # {} /\ TypesOf(q) # {}}}

Gather ==
  [value |-> Value, years |-> Years, closing |-> Closing, certified |-> TurnoverWindow,
   matches |-> Matches, candidates |-> Candidates, size |-> Cardinality(Active)]

Verdict == Evaluate(Gather)

(***************************************************************************)
(* The taxonomy.                                                           *)
(***************************************************************************)
CreateType(t, text) ==
  /\ workTypes[t] = None
  /\ workTypes' = [workTypes EXCEPT ![t] = [text |-> text, active |-> TRUE]]
  /\ UNCHANGED <<alias, project, tags, turnover, tender, metadata, vectors>>

PatchType(t, text) ==
  /\ workTypes[t] # None
  /\ workTypes' = [workTypes EXCEPT ![t].text = text]
  /\ UNCHANGED <<alias, project, tags, turnover, tender, metadata, vectors>>

Deactivate(t) ==
  /\ workTypes[t] # None
  /\ workTypes' = [workTypes EXCEPT ![t].active = FALSE]
  /\ UNCHANGED <<alias, project, tags, turnover, tender, metadata, vectors>>

\* An alias belongs to one type; the type may be inactive.
AddAlias(a, t) ==
  /\ workTypes[t] # None /\ alias[a] = None
  /\ alias' = [alias EXCEPT ![a] = t]
  /\ UNCHANGED <<workTypes, project, tags, turnover, tender, metadata, vectors>>

RemoveAlias(a) ==
  /\ alias[a] # None
  /\ alias' = [alias EXCEPT ![a] = None]
  /\ UNCHANGED <<workTypes, project, tags, turnover, tender, metadata, vectors>>

TagProject(p, t) ==
  /\ project[p] # None /\ t \in Active
  /\ tags' = tags \cup {<<p, t>>}
  /\ UNCHANGED <<workTypes, alias, project, turnover, tender, metadata, vectors>>

UntagProject(p, t) ==
  /\ tags' = tags \ {<<p, t>>}
  /\ UNCHANGED <<workTypes, alias, project, turnover, tender, metadata, vectors>>

(***************************************************************************)
(* Past projects.                                                          *)
(***************************************************************************)
\* The seed adds the types whose code is absent and the aliases nobody has.
LoadSeed ==
  /\ workTypes' = [t \in Types |->
       IF t \in Seed.types /\ workTypes[t] = None
         THEN [text |-> Seed.text[t], active |-> TRUE] ELSE workTypes[t]]
  /\ alias' = [a \in Phrases |->
       IF alias[a] = None /\ \E t \in Seed.types : <<a, t>> \in Seed.alias
         THEN CHOOSE t \in Seed.types : <<a, t>> \in Seed.alias ELSE alias[a]]

\* ensure_taxonomy: the seed when no type is active.
EnsureTaxonomy == IF Active = {} THEN LoadSeed ELSE UNCHANGED taxonomy

CreateProject(p, row) ==
  /\ project[p] = None
  /\ \A q \in Live : q < p
  /\ vectors  \* create fails when the project cannot be indexed
  /\ EnsureTaxonomy
  /\ project' = [project EXCEPT ![p] = row]
  /\ UNCHANGED <<tags, turnover, tender, metadata, vectors>>

\* A field is given a value, never emptied.
PatchProject(p, row) ==
  /\ project[p] # None /\ vectors
  /\ \A f \in DOMAIN row : row[f] = None => project[p][f] = None
  /\ project' = [project EXCEPT ![p] = row]
  /\ UNCHANGED <<workTypes, alias, tags, turnover, tender, metadata, vectors>>

\* Mutant of DeleteProject: without the cascade to its tags.
DeleteProjectRow(p) ==
  /\ project[p] # None
  /\ project' = [project EXCEPT ![p] = None]
  /\ UNCHANGED <<workTypes, alias, tags, turnover, tender, metadata, vectors>>

DeleteProject(p) ==
  /\ project[p] # None
  /\ project' = [project EXCEPT ![p] = None]
  /\ tags' = {tag \in tags : tag[1] # p}
  /\ UNCHANGED <<workTypes, alias, turnover, tender, metadata, vectors>>

(***************************************************************************)
(* Turnover, the tender and the vector store.                              *)
(***************************************************************************)
RecordTurnover(y, amount) ==
  /\ y \notin DOMAIN turnover
  /\ turnover' = [z \in DOMAIN turnover \cup {y} |-> IF z = y THEN amount ELSE turnover[z]]
  /\ UNCHANGED <<workTypes, alias, project, tags, tender, metadata, vectors>>

AmendTurnover(y, amount) ==
  /\ y \in DOMAIN turnover
  /\ turnover' = [turnover EXCEPT ![y] = amount]
  /\ UNCHANGED <<workTypes, alias, project, tags, tender, metadata, vectors>>

PatchTender(new) ==
  /\ tender' = [value |-> Prefer(new.value, tender.value),
                closing |-> Prefer(new.closing, tender.closing)]
  /\ UNCHANGED <<workTypes, alias, project, tags, turnover, metadata, vectors>>

\* Extraction writes every field of the metadata again.
Extract(found) ==
  /\ metadata' = found
  /\ UNCHANGED <<workTypes, alias, project, tags, turnover, tender, vectors>>

\* The embedding provider or the vector store fails, or answers again.
VectorStore ==
  /\ vectors' = ~vectors
  /\ UNCHANGED <<workTypes, alias, project, tags, turnover, tender, metadata>>

(***************************************************************************)
(* The specification.                                                      *)
(***************************************************************************)
Init ==
  /\ workTypes = [t \in Types |-> None]
  /\ alias = [a \in Phrases |-> None]
  /\ project = [p \in Projects |-> None]
  /\ tags = {}
  /\ turnover = Certified
  /\ tender = [value |-> None, closing |-> None]
  /\ metadata \in Metadata
  /\ vectors = TRUE

TypeStep(t) ==
  \/ \E text \in TypeTexts[t] : CreateType(t, text) \/ PatchType(t, text)
  \/ Deactivate(t)

ProjectStep(p) ==
  \/ \E row \in Rows[p] : CreateProject(p, row) \/ PatchProject(p, row)
  \/ DeleteProject(p)

Next ==
  \/ \E t \in Types : TypeStep(t)
  \/ \E use \in AliasUse : AddAlias(use[1], use[2])
  \/ \E a \in Phrases : RemoveAlias(a)
  \/ \E use \in TagUse : TagProject(use[1], use[2]) \/ UntagProject(use[1], use[2])
  \/ \E p \in Projects : ProjectStep(p)
  \/ \E entry \in Amounts :
       RecordTurnover(entry[1], entry[2]) \/ AmendTurnover(entry[1], entry[2])
  \/ \E new \in [value : Values \cup {None}, closing : Closings \cup {None}] : PatchTender(new)
  \/ \E found \in Metadata : Extract(found)
  \/ VectorStore

Spec == Init /\ [][Next]_vars

(***************************************************************************)
(* Properties.                                                             *)
(***************************************************************************)
AllRows == UNION {Rows[p] : p \in Projects}

\* Types of the rows; an alias and a tag name rows that exist (foreign keys).
TypeOK ==
  /\ workTypes \in [Types -> [text : Texts, active : BOOLEAN] \cup {None}]
  /\ alias \in [Phrases -> {t \in Types : workTypes[t] # None} \cup {None}]
  /\ project \in [Projects -> AllRows \cup {None}]
  /\ tags \subseteq Live \X {t \in Types : workTypes[t] # None}
  /\ DOMAIN turnover \subseteq Nat
  /\ \A y \in DOMAIN turnover :
       turnover[y] \in {Certified[z] : z \in DOMAIN Certified} \cup {e[2] : e \in Amounts}
  /\ tender \in [value : Values \cup {None}, closing : Closings \cup {None}]
  /\ metadata \in Metadata
  /\ vectors \in BOOLEAN

\* The similar-work rule says what the policy says: it passes when one of the
\* projects that count is worth 60% of the tender, or two are worth 40% each, or
\* three 30% each, and reports exactly that many, each worth its share.  The
\* code sorts, looks at one place per rule and rounds the share up to a paisa.
SimilarWorksIsACount ==
  LET evidence == Evidence(Matches, Candidates, Closing)
      Worth(pct) == {c \in evidence : 100 * c.value >= pct * Value}
      satisfied == {d \in 1 .. 3 : Cardinality(Worth(SIMILAR_WORK_PCT[d])) >= d}
      reported == Qualifying(evidence, Value)
  IN Value # None /\ Closing # None =>
       IF satisfied = {} THEN reported = {}
       ELSE /\ Cardinality(reported) = Min(satisfied)
            /\ reported \subseteq Worth(SIMILAR_WORK_PCT[Min(satisfied)])

ExactYears == Fraction(metadata.period)

KnownRequirement == Value # None /\ Years # None /\ Years.coef > 0

\* "Rounding up rather than to nearest keeps the requirement from being
\* understated by a fraction": the turnover asked for is never below the exact
\* min(V / N, V), although N and V / N are decimals that were rounded first.
RequirementNeverUnderstated ==
  KnownRequirement =>
    LET required == RequiredTurnover(Value, Years)
    IN \/ required * ExactYears[1] >= Value * ExactYears[2]
       \/ required >= Value

\* The requirement is the exact quotient rounded up.  Does not hold: a period of
\* 13 months is rounded down as a decimal, and the quotient comes out higher.
RequirementIsCeiling ==
  KnownRequirement =>
    (RequiredTurnover(Value, Years) - 1) * ExactYears[1] < Value * ExactYears[2]

\* A year is averaged over only when its 31 March is strictly before the
\* closing date, and the window holds the three latest of those years.
WindowIsCompletedYears ==
  Closing # None =>
    \A y \in DOMAIN turnover :
      (\E c \in TurnoverWindow : c.year = y) <=>
        Earlier(EndDate(y), Closing) /\ ~Earlier(EndDate(y + TURNOVER_AVERAGING_YEARS), Closing)

\* The company can show at least as much after a step as before it, of the same
\* tender: types, aliases, tags, projects and certified years are added to,
\* turnover figures grow.
MoreEvidence ==
  /\ UNCHANGED <<tender, metadata, vectors>>
  /\ \A t \in Active : workTypes'[t] = workTypes[t]
  /\ \A a \in Phrases : alias[a] # None => alias'[a] = alias[a]
  /\ \A p \in Live : project'[p] = project[p]
  /\ tags \subseteq tags'
  /\ DOMAIN turnover \subseteq DOMAIN turnover'
  /\ \A y \in DOMAIN turnover : turnover'[y] >= turnover[y]

Rank(verdict) ==
  CASE verdict = "NOT_ELIGIBLE" -> 0 [] verdict = "INDETERMINATE" -> 1 [] verdict = "ELIGIBLE" -> 2

\* Bound variables, for TLC to gather the inputs of each state once.
Worse ==
  \E before \in {Gather}, after \in {Gather'} : Rank(Evaluate(after)) < Rank(Evaluate(before))

\* A type matched by similarity is now matched by its words, which the cascade
\* tries first, however weakly.
Demoted ==
  \E m \in Matches, n \in Matches' :
    m.type = n.type /\ m.method = "SEMANTIC" /\ n.method = "LEXICAL"

PushedOut == ~(Considered \subseteq Considered')

\* Two rules answer "unknown" until there is something to decide by: the scope
\* is matched against no type, the average lacks a year.
FirstType == Active = {} /\ Active' # {}
WindowFilled ==
  /\ Cardinality(TurnoverWindow) < TURNOVER_AVERAGING_YEARS
  /\ Cardinality(TurnoverWindow') = TURNOVER_AVERAGING_YEARS

\* More evidence makes the verdict on a tender worse in four ways only.  In two a
\* tender nobody could decide on is ruled out: the first active type, or the last
\* of the three years, lets a rule fail that was unknown.  In two the evidence
\* that decided is replaced: a weak lexical match takes the place of a strong
\* semantic one, or a new project pushes an older one out of the MAX_LIMIT
\* projects a screen reads.
EvidenceNeverHurts ==
  [][MoreEvidence /\ Worse => Demoted \/ PushedOut \/ FirstType \/ WindowFilled]_vars

\* The same without the last two ways.
MoreIsNeverWorse == [][MoreEvidence /\ Worse => FirstType \/ WindowFilled]_vars

\* What is known of a tender stays and something unknown may become known, with
\* the portfolio as it is.
Learns(known, knownNext) == known # None => knownNext = known

OnlyLearns ==
  /\ UNCHANGED <<workTypes, alias, project, tags, vectors>>
  /\ metadata'.scope = metadata.scope
  /\ Learns(Value, Value') /\ Learns(Closing, Closing') /\ Learns(Years, Years')
  /\ DOMAIN turnover \subseteq DOMAIN turnover'
  /\ \A y \in DOMAIN turnover : turnover'[y] = turnover[y]

\* "A definite failure always beats an unknown input": a tender ruled out while
\* something was unknown is ruled out whatever that turns out to be.  So no
\* rule may fail on an input that is still missing.
FailureIsFinal ==
  [][OnlyLearns /\ Verdict = "NOT_ELIGIBLE" =>
       \A after \in {Gather'} : Evaluate(after) = "NOT_ELIGIBLE"]_vars

\* "If ... the scope of work matched no work type, the tender reaches a person."
\* Does not hold: against a configured taxonomy it is a definite failure.
UnmatchedReachesAPerson ==
  /\ Active # {} /\ Matches = {}
  /\ Financial(Value, Years, TurnoverWindow) # "failed"
  => Verdict = "INDETERMINATE"

\* "A missing input ... never collapses into a failure."  Does not hold for the
\* similarity scores: when the vector store stops answering, a tender that was
\* matched by similarity alone is ruled out.
OutageRulesNobodyOut ==
  [][vectors /\ ~vectors' /\ Verdict' = "NOT_ELIGIBLE" => Verdict = "NOT_ELIGIBLE"]_vars

\* A project is created into a taxonomy that can link to it.  Does not hold once
\* every type of the seed is deactivated: the seed adds nothing and revives none.
CreatedIntoTaxonomy ==
  [][(\E p \in Projects : project[p] = None /\ project'[p] # None) => Active' # {}]_vars
=============================================================================
