---------------------------- MODULE MCResultStore ----------------------------
\* ResultStore for model checking; the constants are set in the .cfg files.
EXTENDS ResultStore, Integers

\* Three evaluations, of which the first and the last agree.
MCEvals == 1..3
MCVerdict == <<"ELIGIBLE", "INDETERMINATE", "ELIGIBLE">>
=============================================================================
