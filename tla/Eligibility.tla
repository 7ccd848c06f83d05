----------------------------- MODULE Eligibility -----------------------------
(***************************************************************************)
(* The decision engine: the turnover required and recorded, the cascade    *)
(* that matches a tender's scope to work types, the 60/40/30 rule on past  *)
(* projects, and the verdict of the three rules.  Pure operators, like the *)
(* code.                                                                   *)
(*                                                                         *)
(* Money is a number of paise, a score a number of thousandths, a text the *)
(* set of its tokens.  A decimal is coef / scale, with a power of ten for  *)
(* scale; a division keeps Digits significant digits (28 in Decimal).      *)
(***************************************************************************)
EXTENDS Integers, FiniteSets, SequencesExt

CONSTANTS
  None,   \* an unknown value
  Digits  \* the precision of a division

ASSUME EligibilityAssumption == Digits \in Nat \ {0}

TURNOVER_AVERAGING_YEARS == 3
SIMILAR_WORK_LOOKBACK_YEARS == 7
SIMILAR_WORK_PCT == <<60, 40, 30>>  \* by the number of projects asked for

(***************************************************************************)
(* Financial years, named by the calendar year they open in.               *)
(***************************************************************************)
Earlier(d, e) ==
  \/ d.year < e.year
  \/ d.year = e.year /\ d.month < e.month
  \/ d.year = e.year /\ d.month = e.month /\ d.day < e.day

\* Mutant of FYContaining: the year opens in May.
FYContainingFromMay(day) == IF day.month > 4 THEN day.year ELSE day.year - 1

FYContaining(day) == IF day.month >= 4 THEN day.year ELSE day.year - 1
StartDate(fy) == [year |-> fy, month |-> 4, day |-> 1]
EndDate(fy) == [year |-> fy + 1, month |-> 3, day |-> 31]
LatestCompleted(anchor) == FYContaining(anchor) - 1
CompletedYearsBefore(anchor, count) ==
  (LatestCompleted(anchor) - count + 1) .. LatestCompleted(anchor)

(***************************************************************************)
(* Decimal arithmetic on natural numbers.                                  *)
(***************************************************************************)
HalfEven(num, den) ==
  LET q == num \div den
      r == num % den
  IN IF 2 * r > den \/ (2 * r = den /\ q % 2 = 1) THEN q + 1 ELSE q

Ceiling(num, den) == (num + den - 1) \div den

PowerOfTen[n \in Nat] == IF n = 0 THEN 1 ELSE 10 * PowerOfTen[n - 1]

\* The least coefficient of Digits digits.
Full == PowerOfTen[Digits - 1]

\* The decimal places that leave num / den Digits significant digits; a longer
\* integer part is kept whole (none has 28 digits).
Places(num, den) ==
  IF num = 0 \/ num >= Full * den THEN 0
  ELSE CHOOSE k \in 1 .. den + Digits :
         num * PowerOfTen[k] \in (Full * den) .. (10 * Full * den - 1)

Quotient(num, den) ==
  LET scale == PowerOfTen[Places(num, den)]
  IN [coef |-> HalfEven(num * scale, den), scale |-> scale]

(***************************************************************************)
(* The completion period in years, from an amount and its unit.  The       *)
(* amount is a decimal too, amount / scale ("1.5 years"); it is written    *)
(* with fewer than Digits digits, so that seven times it is exact.         *)
(***************************************************************************)
ParseYears(period) ==
  IF period = None \/ period.amount < 0 THEN None
  ELSE CASE period.unit = "year"  -> [coef |-> period.amount, scale |-> period.scale]
         [] period.unit = "month" -> Quotient(period.amount, 12 * period.scale)
         [] period.unit = "week"  -> Quotient(7 * period.amount, 365 * period.scale)
         [] period.unit = "day"   -> Quotient(period.amount, 365 * period.scale)
         [] OTHER -> None

(***************************************************************************)
(* The financial rule.  Certified turnover is a set of [year, amount], one *)
(* for each year of the window that has a certificate.                     *)
(***************************************************************************)
\* Mutant of ToPaisa: to the nearest paisa.
ToNearestPaisa(num, den) == HalfEven(num, den)

ToPaisa(num, den) == Ceiling(num, den)

\* min(V / N, V), rounded up to the paisa.
RequiredTurnover(value, years) ==
  LET q == Quotient(value * years.scale, years.coef)
  IN IF q.coef >= value * q.scale THEN value ELSE ToPaisa(q.coef, q.scale)

AverageTurnover(certified) ==
  HalfEven(MapThenSumSet(LAMBDA c : c.amount, certified), Cardinality(certified))

\* Mutant of Financial: averages over whatever years are recorded.
FinancialOfAnyYears(value, years, certified) ==
  IF value = None \/ years = None \/ certified = {} THEN "unknown"
  ELSE IF years.coef = 0 THEN "unknown"
  ELSE IF AverageTurnover(certified) >= RequiredTurnover(value, years) THEN "passed"
  ELSE "failed"

Financial(value, years, certified) ==
  IF value = None \/ years = None THEN "unknown"
  ELSE IF years.coef = 0 \/ Cardinality(certified) < TURNOVER_AVERAGING_YEARS THEN "unknown"
  ELSE IF AverageTurnover(certified) >= RequiredTurnover(value, years) THEN "passed"
  ELSE "failed"

(***************************************************************************)
(* Stage A.  A scope has its tokens and the aliases that occur in its      *)
(* text; a candidate work type its aliases, the token bags to cover and    *)
(* the score of the vector store, if there is one.                         *)
(***************************************************************************)
GradeFor(score) ==
  IF score >= 700 THEN "MATCHED" ELSE IF score >= 500 THEN "REVIEW" ELSE "NO_MATCH"

Coverage(bag, tokens) ==
  IF bag = {} THEN 0 ELSE HalfEven(1000 * Cardinality(bag \cap tokens), Cardinality(bag))

\* Mutant of Lexical: the worst of the bags.
WorstLexical(bags, tokens) == Min({Coverage(b, tokens) : b \in bags})

\* The best coverage of a bag.
Lexical(bags, tokens) == Max({Coverage(b, tokens) : b \in bags} \cup {0})

\* The first stage that hits.
Score(candidate, scope) ==
  LET lexical == GradeFor(Lexical(candidate.bags, scope.tokens))
      Match(method, grade) == [type |-> candidate.type, method |-> method, grade |-> grade]
  IN IF candidate.aliases \cap scope.phrases # {} THEN Match("EXACT", "MATCHED")
     ELSE IF lexical # "NO_MATCH" THEN Match("LEXICAL", lexical)
     ELSE IF candidate.semantic # None THEN Match("SEMANTIC", GradeFor(candidate.semantic))
     ELSE Match("SEMANTIC", "NO_MATCH")

MatchWorkTypes(scope, candidates) ==
  {m \in {Score(c, scope) : c \in candidates} : m.grade # "NO_MATCH"}

\* Matches are the work types with a score; size counts those there were to score.
StageA(matches, size) ==
  IF matches = {} THEN IF size = 0 THEN "unknown" ELSE "failed"
  ELSE IF \A m \in matches : m.grade = "REVIEW" THEN "unknown"
  ELSE "passed"

(***************************************************************************)
(* Stage B.  A candidate project has a value, the date of its certificate  *)
(* and the types it is tagged with.                                        *)
(***************************************************************************)
\* The projects that count: a matched type, a value and a certificate inside
\* the window.
Evidence(matches, candidates, closing) ==
  LET pool == {m.type : m \in matches}
      window == CompletedYearsBefore(closing, SIMILAR_WORK_LOOKBACK_YEARS)
      InWindow(date) ==
        /\ date # None
        /\ ~Earlier(date, StartDate(Min(window)))
        /\ ~Earlier(EndDate(Max(window)), date)
  IN {c \in candidates : c.types \cap pool # {} /\ c.value # None /\ InWindow(c.certificate)}

\* The projects by value, the most valuable first; equal ones in any order.
Ranked(evidence) ==
  CHOOSE ranked \in Injection(1 .. Cardinality(evidence), evidence) :
    \A i, j \in DOMAIN ranked : i < j => ranked[i].value >= ranked[j].value

Needed(depth, value) == Ceiling(SIMILAR_WORK_PCT[depth] * value, 100)

\* Mutant of Clears: more than the percentage.
Exceeds(ranked, depth, value) ==
  Len(ranked) >= depth /\ ranked[depth].value > Needed(depth, value)

Clears(ranked, depth, value) ==
  Len(ranked) >= depth /\ ranked[depth].value >= Needed(depth, value)

\* The projects of the first rule satisfied; the empty set when none is.
Qualifying(evidence, value) ==
  LET ranked == Ranked(evidence)
      clear == {d \in 1 .. 3 : Clears(ranked, d, value)}
  IN IF clear = {} THEN {} ELSE {ranked[i] : i \in 1 .. Min(clear)}

StageB(matches, size, candidates, value, closing) ==
  IF matches = {} THEN IF size = 0 THEN "unknown" ELSE "failed"
  ELSE IF value = None \/ closing = None THEN "unknown"
  ELSE IF Qualifying(Evidence(matches, candidates, closing), value) = {} THEN "failed"
  ELSE "passed"

(***************************************************************************)
(* The verdict: a definite failure beats an unknown input.                 *)
(***************************************************************************)
Status(rules) ==
  IF "failed" \in rules THEN "NOT_ELIGIBLE"
  ELSE IF "unknown" \in rules THEN "INDETERMINATE"
  ELSE "ELIGIBLE"

Evaluate(data) ==
  Status({Financial(data.value, data.years, data.certified),
          StageA(data.matches, data.size),
          StageB(data.matches, data.size, data.candidates, data.value, data.closing)})

=============================================================================
