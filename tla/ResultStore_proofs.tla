------------------------- MODULE ResultStore_proofs -------------------------
(***************************************************************************)
(* For any number of evaluations and readers: the types of ResultStore,    *)
(* and that the child rows are those of the evaluation the header names.   *)
(***************************************************************************)
EXTENDS ResultStore, TLAPS

Writing == {"matches", "projects", "commit"}

\* A request holds the header's lock exactly while it rewrites the rows, what
\* it flushed names itself, and no two requests hold it.
LockInv ==
  /\ \A e \in Evals : draft[e] # None <=> pc[e] \in Writing
  /\ \A e \in Evals : draft[e] # None => draft[e].at = e
  /\ \A e, f \in Evals : draft[e] # None /\ draft[f] # None => e = f

\* A header that is committed, or was when it was read, is that of a request
\* that is done: no request ever reads its own.
DoneInv ==
  /\ header # None => pc[header.at] = "done"
  /\ \A p \in Evals \cup Readers : selected[p] # None => pc[selected[p].at] = "done"

\* While a request holds the lock the rows it deleted are all there are.
GoneInv ==
  \A e \in Evals :
    /\ pc[e] \in {"projects", "commit"} => gone[e].matches = matches
    /\ pc[e] = "commit" => gone[e].projects = projects

IInv == TypeOK /\ LockInv /\ DoneInv /\ GoneInv /\ RowsBelongToHeader

-----------------------------------------------------------------------------
\* The types and the rows hold when nothing has run yet.
LEMMA InitIInv == Init => IInv
  BY DEF Init, IInv, TypeOK, LockInv, DoneInv, GoneInv, RowsBelongToHeader, Writing

\* What an UPDATE leaves is a header, and it names the request: its own
\* evaluated_at differs from the one it read, so the statement always sets it.
LEMMA FlushedHeader ==
  ASSUME NEW e \in Evals, NEW old \in Header, NEW now \in Header, old.at # e
  PROVE  LET mine == [at |-> e, verdict |-> Verdict[e]]
             new  == [c \in {"at", "verdict"} |->
                        IF mine[c] # old[c] THEN mine[c] ELSE now[c]]
         IN  new \in Header /\ new.at = e
<1> DEFINE mine == [at |-> e, verdict |-> Verdict[e]]
           new  == [c \in {"at", "verdict"} |->
                      IF mine[c] # old[c] THEN mine[c] ELSE now[c]]
<1>1. new.at = e
  OBVIOUS
<1>2. new.verdict \in {Verdict[f] : f \in Evals}
  BY DEF Header
<1>3. new = [at |-> new.at, verdict |-> new.verdict]
  OBVIOUS
<1> HIDE DEF new
<1>4. new \in Header
  BY <1>1, <1>2, <1>3 DEF Header
<1> QED
  BY <1>1, <1>4 DEF new

\* Every action preserves the strengthened invariant.
LEMMA NextIInv == IInv /\ [Next]_vars => IInv'
<1> SUFFICES ASSUME IInv, [Next]_vars PROVE IInv'
  OBVIOUS
<1> USE ResultStoreAssumption DEF IInv
<1>1. ASSUME NEW e \in Evals, Select(e) PROVE IInv'
  <2>1. TypeOK'
    BY <1>1 DEF Select, Goto, TypeOK, Header
  <2>2. LockInv'
    BY <1>1 DEF Select, Goto, TypeOK, LockInv, Writing
  <2>3. DoneInv'
    BY <1>1 DEF Select, Goto, TypeOK, LockInv, DoneInv, Writing, Header
  <2>4. GoneInv'
    BY <1>1 DEF Select, Goto, TypeOK, LockInv, GoneInv, Writing
  <2>5. RowsBelongToHeader'
    BY <1>1 DEF Select, Goto, TypeOK, LockInv, GoneInv, RowsBelongToHeader, Writing, Header
  <2> QED
    BY <2>1, <2>2, <2>3, <2>4, <2>5
<1>2. ASSUME NEW e \in Evals, Flush(e) PROVE IInv'
  <2> DEFINE mine == [at |-> e, verdict |-> Verdict[e]]
             new  == IF selected[e] = None THEN mine
                     ELSE [c \in {"at", "verdict"} |->
                             IF mine[c] # selected[e][c] THEN mine[c] ELSE header[c]]
  <2>1. CASE ~alive \/ (selected[e] = None) # (header = None)
    <3>1. pc' = [pc EXCEPT ![e] = "failed"] /\ draft' = [draft EXCEPT ![e] = None]
      BY <1>2, <2>1 DEF Flush, Release, Goto
    <3>2. UNCHANGED <<alive, header, matches, projects, selected, gone, rows>>
      BY <1>2 DEF Flush
    <3>3. pc[e] = "flush"
      BY <1>2 DEF Flush
    <3>4. TypeOK'
      BY <3>1, <3>2, <3>3 DEF TypeOK, Header
    <3>5. LockInv'
      BY <3>1, <3>2, <3>3 DEF TypeOK, LockInv, Writing
    <3>6. DoneInv'
      BY <3>1, <3>2, <3>3 DEF TypeOK, LockInv, DoneInv, Writing, Header
    <3>7. GoneInv'
      BY <3>1, <3>2, <3>3 DEF TypeOK, LockInv, GoneInv, Writing
    <3>8. RowsBelongToHeader'
      BY <3>1, <3>2, <3>3 DEF TypeOK, LockInv, GoneInv, RowsBelongToHeader, Writing, Header
    <3> QED
      BY <3>4, <3>5, <3>6, <3>7, <3>8
  <2>2. CASE ~(~alive \/ (selected[e] = None) # (header = None))
    <3>1. pc' = [pc EXCEPT ![e] = "matches"] /\ draft' = [draft EXCEPT ![e] = new]
      BY <1>2, <2>2 DEF Flush, Goto
    <3>2. UNCHANGED <<alive, header, matches, projects, selected, gone, rows>>
      BY <1>2 DEF Flush
    <3>3. pc[e] = "flush" /\ Unlocked
      BY <1>2 DEF Flush
    <3>4. new \in Header /\ new.at = e
      <4>1. CASE selected[e] = None
        BY <4>1 DEF Header
      <4>2. CASE selected[e] # None
        <5>1. selected[e] \in Header /\ header \in Header /\ selected[e].at # e
          BY <2>2, <3>3, <4>2 DEF TypeOK, DoneInv
        <5> QED
          BY <4>2, <5>1, FlushedHeader
      <4> QED
        BY <4>1, <4>2
    <3>5. new # None
      BY <3>4
    <3> HIDE DEF new
    <3>6. TypeOK'
      BY <3>1, <3>2, <3>4 DEF TypeOK
    <3>7. LockInv'
      BY <3>1, <3>2, <3>3, <3>4, <3>5 DEF TypeOK, LockInv, Unlocked, Writing
    <3>8. DoneInv' /\ GoneInv' /\ RowsBelongToHeader'
      BY <3>1, <3>2, <3>3 DEF TypeOK, DoneInv, GoneInv, RowsBelongToHeader, Header
    <3> QED
      BY <3>6, <3>7, <3>8
  <2> QED
    BY <2>1, <2>2
<1>3. ASSUME NEW e \in Evals, DeleteMatches(e) PROVE IInv'
  <2>1. TypeOK'
    BY <1>3 DEF DeleteMatches, Goto, TypeOK, Header
  <2>2. LockInv'
    BY <1>3 DEF DeleteMatches, Goto, TypeOK, LockInv, Writing
  <2>3. DoneInv'
    BY <1>3 DEF DeleteMatches, Goto, TypeOK, LockInv, DoneInv, Writing, Header
  <2>4. GoneInv'
    BY <1>3 DEF DeleteMatches, Goto, TypeOK, LockInv, GoneInv, Writing
  <2>5. RowsBelongToHeader'
    BY <1>3 DEF DeleteMatches, Goto, TypeOK, LockInv, GoneInv, RowsBelongToHeader, Writing, Header
  <2> QED
    BY <2>1, <2>2, <2>3, <2>4, <2>5
<1>4. ASSUME NEW e \in Evals, DeleteProjects(e) PROVE IInv'
  <2>1. TypeOK'
    BY <1>4 DEF DeleteProjects, Goto, TypeOK, Header
  <2>2. LockInv'
    BY <1>4 DEF DeleteProjects, Goto, TypeOK, LockInv, Writing
  <2>3. DoneInv'
    BY <1>4 DEF DeleteProjects, Goto, TypeOK, LockInv, DoneInv, Writing, Header
  <2>4. GoneInv'
    BY <1>4 DEF DeleteProjects, Goto, TypeOK, LockInv, GoneInv, Writing
  <2>5. RowsBelongToHeader'
    BY <1>4 DEF DeleteProjects, Goto, TypeOK, LockInv, GoneInv, RowsBelongToHeader, Writing, Header
  <2> QED
    BY <2>1, <2>2, <2>3, <2>4, <2>5
<1>5. ASSUME NEW e \in Evals, Commit(e) PROVE IInv'
  <2>1. TypeOK'
    BY <1>5 DEF Commit, Release, Goto, TypeOK, Header
  <2>2. LockInv'
    BY <1>5 DEF Commit, Release, Goto, TypeOK, LockInv, Writing
  <2>3. DoneInv'
    BY <1>5 DEF Commit, Release, Goto, TypeOK, LockInv, DoneInv, Writing, Header
  <2>4. GoneInv'
    BY <1>5 DEF Commit, Release, Goto, TypeOK, LockInv, GoneInv, Writing
  <2>5. RowsBelongToHeader'
    BY <1>5 DEF Commit, Release, Goto, TypeOK, LockInv, GoneInv, RowsBelongToHeader, Writing, Header
  <2> QED
    BY <2>1, <2>2, <2>3, <2>4, <2>5
<1>6. ASSUME NEW e \in Evals, Abort(e) PROVE IInv'
  <2>1. TypeOK'
    BY <1>6 DEF Abort, Release, Goto, TypeOK, Header
  <2>2. LockInv'
    BY <1>6 DEF Abort, Release, Goto, TypeOK, LockInv, Writing
  <2>3. DoneInv'
    BY <1>6 DEF Abort, Release, Goto, TypeOK, LockInv, DoneInv, Writing, Header
  <2>4. GoneInv'
    BY <1>6 DEF Abort, Release, Goto, TypeOK, LockInv, GoneInv, Writing
  <2>5. RowsBelongToHeader'
    BY <1>6 DEF Abort, Release, Goto, TypeOK, LockInv, GoneInv, RowsBelongToHeader, Writing, Header
  <2> QED
    BY <2>1, <2>2, <2>3, <2>4, <2>5
<1>7. CASE DeleteTender
  <2>1. TypeOK'
    BY <1>7 DEF DeleteTender, Unlocked, TypeOK, Header
  <2>2. LockInv'
    BY <1>7 DEF DeleteTender, Unlocked, TypeOK, LockInv, Writing
  <2>3. DoneInv'
    BY <1>7 DEF DeleteTender, Unlocked, TypeOK, LockInv, DoneInv, Writing, Header
  <2>4. GoneInv'
    BY <1>7 DEF DeleteTender, Unlocked, TypeOK, LockInv, GoneInv, Writing
  <2>5. RowsBelongToHeader'
    BY <1>7 DEF DeleteTender, Unlocked, TypeOK, LockInv, GoneInv, RowsBelongToHeader, Writing, Header
  <2> QED
    BY <2>1, <2>2, <2>3, <2>4, <2>5
<1>8. ASSUME NEW r \in Readers, ReadHeader(r) \/ ReadMatches(r) \/ ReadProjects(r) PROVE IInv'
  <2>1. TypeOK'
    <3>1. CASE ReadHeader(r)
      BY <3>1 DEF ReadHeader, Goto, TypeOK
    <3>2. CASE ReadMatches(r)
      BY <3>2 DEF ReadMatches, Goto, TypeOK
    <3>3. CASE ReadProjects(r)
      BY <3>3 DEF ReadProjects, Goto, TypeOK
    <3> QED
      BY <1>8, <3>1, <3>2, <3>3
  <2>2. LockInv'
    BY <1>8 DEF ReadHeader, ReadMatches, ReadProjects, Goto, TypeOK, LockInv, Writing
  <2>3. DoneInv'
    BY <1>8 DEF ReadHeader, ReadMatches, ReadProjects, Goto, TypeOK, LockInv, DoneInv, Writing, Header
  <2>4. GoneInv'
    BY <1>8 DEF ReadHeader, ReadMatches, ReadProjects, Goto, TypeOK, LockInv, GoneInv, Writing
  <2>5. RowsBelongToHeader'
    BY <1>8 DEF ReadHeader, ReadMatches, ReadProjects, Goto, TypeOK, LockInv, GoneInv, RowsBelongToHeader, Writing, Header
  <2> QED
    BY <2>1, <2>2, <2>3, <2>4, <2>5
<1>9. CASE UNCHANGED vars
  BY <1>9 DEF vars, TypeOK, LockInv, DoneInv, GoneInv, RowsBelongToHeader
<1> QED
  BY <1>1, <1>2, <1>3, <1>4, <1>5, <1>6, <1>7, <1>8, <1>9 DEF Next

\* The strengthened invariant, of every behaviour.
THEOREM InvariantHolds == Spec => []IInv
  BY InitIInv, NextIInv, PTL DEF Spec

\* TypeOK of any number of concurrent upserts and readers of a tender's result.
THEOREM TypeCorrect == Spec => []TypeOK
  BY InvariantHolds, PTL DEF IInv

\* upsert() deletes and rewrites the child rows under the header's lock, so they
\* always come from the one evaluation the header names.
THEOREM RowsAreOneEvaluation == Spec => []RowsBelongToHeader
  BY InvariantHolds, PTL DEF IInv
=============================================================================
