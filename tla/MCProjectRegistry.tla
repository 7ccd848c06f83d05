-------------------------- MODULE MCProjectRegistry --------------------------
\* Constant values for model checking ProjectRegistry.
EXTENDS ProjectRegistry

R(a, text, has, fits) == [award |-> a, text |-> text, has |-> has, fits |-> fits]

Both == {"value", "certificate"}
MCEntered == {{"value"}}

MCMatches == [text \in Texts |-> IF text = "roads" THEN {"road"} ELSE Types]

\* A workbook that repeats an award and has a row without a name; a workbook with a
\* text too long for its column after a file that cannot be read.
MCBatches ==
  { <<<<R("loa", "works", Both, TRUE), R("loa", "roads", Both, TRUE), R(None, None, Both, TRUE)>>>>,
    <<None, <<R(None, "roads", {"value"}, TRUE), R(None, "works", Both, FALSE)>>, <<>>>>,
    <<<<R("loa", "roads", Both, TRUE)>>, <<R(None, "works", {"certificate"}, TRUE)>>>> }

MCSeedRefs == {<<"loa", "road">>}
=============================================================================
