----------------------------- MODULE MCPortfolio -----------------------------
(***************************************************************************)
(* Portfolio for model checking.  Two work types: "road" is seeded with an *)
(* alias, "rail" is not.  Three projects around the shares of tenders      *)
(* worth 50 and 100 paise, certificates on both sides of a year's end, and *)
(* closing dates on the last day of a financial year and the day after.    *)
(***************************************************************************)
EXTENDS Portfolio

MCTypes == {"road", "rail"}
MCPhrases == {"highway"}
MCTexts == {"road works", "rail works", "laying track", "paving"}

\* The highway's scope covers half of "rail works", and "paving" not at all.
MCBag ==
  [x \in MCTexts \cup MCPhrases |->
     CASE x = "road works"   -> {"road", "embankment", "works"}
       [] x = "rail works"   -> {"rail", "works"}
       [] x = "laying track" -> {"laying", "track", "bridge", "girder"}
       [] x = "paving"       -> {"paving", "bitumen"}
       [] x = "highway"      -> {"highway"}]

MCScopes ==
  {[id |-> "bridge", tokens |-> {"bridge", "girder"}, phrases |-> {}],
   [id |-> "highway", tokens |-> {"highway", "works", "laying", "track"},
    phrases |-> {"highway"}]}

\* Only "paving" is close to a scope, that of the bridge.
MCCosine ==
  [s \in {"bridge", "highway"} |->
     [x \in MCTexts |-> IF x = "paving" /\ s = "bridge" THEN 800 ELSE 0]]

MCSeed == [types |-> {"road"}, text |-> [t \in {"road"} |-> "road works"],
           alias |-> {<<"highway", "road">>}]
MCTypeTexts == [t \in MCTypes |-> IF t = "rail" THEN {"rail works"} ELSE {}]
MCAliasUse == {<<"highway", "road">>}
MCTagUse == {<<1, "road">>, <<2, "road">>, <<3, "rail">>}

March == [year |-> 2026, month |-> 3, day |-> 31]
April == [year |-> 2026, month |-> 4, day |-> 1]
Done == [year |-> 2019, month |-> 3, day |-> 31]

Row(value, certificate, text) == [value |-> value, certificate |-> certificate, text |-> text]

MCRows ==
  <<{Row(40, [year |-> 2024, month |-> 6, day |-> 1], "paving")},
    {Row(40, March, "laying track"), Row(30, Done, "laying track")},
    {Row(30, Done, "paving")}>>

MCCertified == [y \in 2022 .. 2024 |-> IF y = 2022 THEN 60 ELSE 40]
MCAmounts == {<<2025, 10>>, <<2025, 80>>}

Found(value, closing, period, scope) ==
  [value |-> value, closing |-> closing, period |-> period, scope |-> scope]
Months(n) == [amount |-> n, scale |-> 1, unit |-> "month"]
Tenths(n) == [amount |-> n, scale |-> 10, unit |-> "year"]

\* Nothing but the scope; the bridge's closing date and period, of 13 months or
\* 1.5 years; all of the highway's, over 2.2 years,
\* where two years of turnover fall short and a third may make it good.
MCMetadata ==
  UNION {IF scope.id = "bridge"
           THEN {Found(None, None, None, scope), Found(None, March, Months(13), scope),
                 Found(None, March, Tenths(15), scope)}
           ELSE {Found(None, None, None, scope), Found(100, April, Tenths(22), scope)} :
         scope \in MCScopes}
=============================================================================
