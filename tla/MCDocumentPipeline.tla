------------------------- MODULE MCDocumentPipeline -------------------------
\* DocumentPipeline for model checking; the constants are set in the .cfg files.
EXTENDS DocumentPipeline, TLC

\* API requests are interchangeable: nothing orders or names them.
RequestSymmetry == Permutations(Requests)
=============================================================================
