-------------------------- MODULE TenderLifecycle ---------------------------
(***************************************************************************)
(* What the document pipeline promises, with its processes, transactions   *)
(* and entities left out.  Tenders move along the edges of _TRANSITIONS,   *)
(* from parsed on only with extracted metadata behind them, and the bytes  *)
(* of a document are given up only once its tender was extracted or its    *)
(* rows are gone: until then they are the only copy.                       *)
(***************************************************************************)
EXTENDS TenderStatus

CONSTANTS Tenders, Docs, Nil

VARIABLES
  status,     \* the lifecycle status of each tender
  extracted,  \* the tenders with a metadata row
  owner,      \* the tender of each document row
  stored      \* the documents whose bytes are in the store

lifecycle == <<status, extracted, owner, stored>>

Init ==
  /\ status = [t \in Tenders |-> "ABSENT"]
  /\ extracted = {}
  /\ owner = [d \in Docs |-> Nil]
  /\ stored = {}

LegalMove(from, to) ==
  \/ to = from
  \/ from = "ABSENT" /\ to = "REGISTERED"
  \/ from \in TenderStatuses /\ to \in TenderStatuses /\ CanTransition(from, to)

\* A transaction commits: any number of tenders move, are extracted or get
\* documents, together.
Publish ==
  /\ status' \in [Tenders -> TenderStatuses \cup NoRow]
  /\ extracted' \in SUBSET Tenders
  /\ owner' \in [Docs -> Tenders \cup {Nil}]
  /\ \A t \in Tenders : LegalMove(status[t], status'[t])
  /\ extracted \subseteq extracted'
  /\ \A t \in Tenders : status'[t] \in Extracted => t \in extracted'
  /\ \A d \in Docs : owner[d] # Nil => owner'[d] = owner[d]
  /\ UNCHANGED stored

Remove(t) ==
  /\ status[t] \in TenderStatuses
  /\ status' = [status EXCEPT ![t] = "DELETED"]
  /\ extracted' = extracted \ {t}
  /\ UNCHANGED <<owner, stored>>

Save(d) == stored' = stored \cup {d} /\ UNCHANGED <<status, extracted, owner>>

Reclaim(d) ==
  /\ d \in stored /\ owner[d] # Nil
  /\ owner[d] \in extracted \/ status[owner[d]] = "DELETED"
  /\ stored' = stored \ {d}
  /\ UNCHANGED <<status, extracted, owner>>

Next ==
  \/ Publish
  \/ \E t \in Tenders : Remove(t)
  \/ \E d \in Docs : Save(d) \/ Reclaim(d)

Spec == Init /\ [][Next]_lifecycle
=============================================================================
