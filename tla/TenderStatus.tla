---------------------------- MODULE TenderStatus ----------------------------
(***************************************************************************)
(* The two status vocabularies of the pipeline and the sets of statuses    *)
(* the services test.  A row that was never inserted is "ABSENT" and one   *)
(* that was deleted is "DELETED"; neither is a value of the Python enums.  *)
(***************************************************************************)

TenderStatuses ==
  {"REGISTERED", "DOWNLOADED", "PARSED", "ANALYZED", "REVIEWED", "ARCHIVED"}

Transitions ==
  [REGISTERED |-> {"DOWNLOADED", "ARCHIVED"},
   DOWNLOADED |-> {"PARSED", "ARCHIVED"},
   PARSED     |-> {"ANALYZED", "ARCHIVED"},
   ANALYZED   |-> {"REVIEWED", "PARSED", "ARCHIVED"},
   REVIEWED   |-> {"ANALYZED", "ARCHIVED"},
   ARCHIVED   |-> {}]

CanTransition(from, to) == to \in Transitions[from]

DocumentStatuses == {"PENDING", "DOWNLOADING", "DOWNLOADED", "FAILED"}

NoRow == {"ABSENT", "DELETED"}

\* What retirement may purge.
PURGEABLE_STATUSES == {"PARSED", "ANALYZED", "REVIEWED"}

\* Mutants of SCREENABLE: bytes taken for extracted text; PARSED left out.
ScreenableOnceDownloaded == {"DOWNLOADED", "PARSED", "ANALYZED", "REVIEWED"}
ScreenableOnceAnalyzed   == {"ANALYZED", "REVIEWED"}

\* What the screen may evaluate: the same three.
SCREENABLE == {"PARSED", "ANALYZED", "REVIEWED"}

\* Statuses a tender can only have reached through a completed extraction.
Extracted == {"PARSED", "ANALYZED", "REVIEWED", "ARCHIVED"}
=============================================================================
