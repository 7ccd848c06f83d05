---------------------------- MODULE Screening_proofs ----------------------------
(***************************************************************************)
(* What a screen reads is never ahead of what is committed, and the        *)
(* counter, read last, says whether the taxonomy has moved since.  From    *)
(* that: an alarm always has a reason, for any number of requests; and,    *)
(* one request at a time, a commit always moves the counter and a result   *)
(* reported fresh is current.                                              *)
(***************************************************************************)
EXTENDS Screening, TLAPS

Taxonomy == {"types", "aliases", "tags"}

LEMMA ItemsAre ==
  /\ Items = {"facts", "scope", "turnover", "types", "tags", "projects", "aliases", "counter"}
  /\ Len(GatherOrder) = 7 /\ DOMAIN GatherOrder = 1..7
<1>1. Len(GatherOrder) = 7 /\ DOMAIN GatherOrder = 1..7
  BY DEF GatherOrder
<1>2. UNION {GatherOrder[i] : i \in 1..7} =
        {"facts", "scope", "turnover", "types", "tags", "projects", "aliases", "counter"}
  <2>1. /\ GatherOrder[1] = {"facts", "scope"} /\ GatherOrder[2] = {"turnover"}
        /\ GatherOrder[3] = {"types"} /\ GatherOrder[4] = {"tags"} /\ GatherOrder[5] = {"projects"}
        /\ GatherOrder[6] = {"aliases"} /\ GatherOrder[7] = {"counter"}
    BY DEF GatherOrder
  <2>2. \A i \in 1..7 : i = 1 \/ i = 2 \/ i = 3 \/ i = 4 \/ i = 5 \/ i = 6 \/ i = 7
    OBVIOUS
  <2> QED BY <2>1, <2>2
<1> QED BY <1>1, <1>2 DEF Items

\* Which query returns which input.
LEMMA OrderIs ==
  /\ GatherOrder[1] = {"facts", "scope"} /\ GatherOrder[2] = {"turnover"}
  /\ GatherOrder[3] = {"types"} /\ GatherOrder[4] = {"tags"} /\ GatherOrder[5] = {"projects"}
  /\ GatherOrder[6] = {"aliases"} /\ GatherOrder[7] = {"counter"}
BY DEF GatherOrder

\* What a mutation changes, as Edits has it.
LEMMA EditsAre ==
  /\ AllOps = {"type", "alias", "tag", "seed", "untag_missing", "tag_again", "seed_again",
               "project", "project_delete", "tender", "scope", "turnover"}
  /\ Edits["type"] = {"types"} /\ Edits["alias"] = {"aliases"} /\ Edits["tag"] = {"tags"}
  /\ Edits["seed"] = {"types", "aliases", "tags"} /\ Edits["untag_missing"] = {}
  /\ Edits["tag_again"] = {} /\ Edits["seed_again"] = {} /\ Edits["project"] = {"projects"}
  /\ Edits["project_delete"] = {"projects", "tags"} /\ Edits["tender"] = {"facts", "scope"}
  /\ Edits["scope"] = {"scope"} /\ Edits["turnover"] = {"turnover"}
BY DEF AllOps, Edits

LEMMA IdleAre == Idle = {"untag_missing", "tag_again", "seed_again"}
BY EditsAre DEF Idle

LEMMA ChangedType ==
  ASSUME NEW rows \in [Items -> Nat], NEW o
  PROVE  Changed(rows, o) \in [Items -> Nat]
BY DEF Changed

-----------------------------------------------------------------------------
\* Types.

LEMMA InitTyped == Init => TypeOK
BY ItemsAre, ScreeningAssumption DEF Init, TypeOK, Blank

LEMMA FinishTyped ==
  ASSUME TypeOK, NEW p \in Clients, Finish(p)
  PROVE  /\ pc' \in [Clients -> {"idle", "gather", "served", "recheck", "flush", "commit"}]
         /\ step' \in [Clients -> 1..Len(GatherOrder) + 1]
         /\ seen' \in [Clients -> [Items -> Nat]]
         /\ served' \in [Clients -> [Items -> Nat] \cup {None}]
         /\ checked' \in [Clients -> [Items -> Nat] \cup {None}]
         /\ op' \in [Clients -> AllOps \cup {None}]
         /\ counter' \in [Clients -> Nat]
BY ItemsAre DEF TypeOK, Finish, Goto, Blank

LEMMA NextTyped == TypeOK /\ [Next]_vars => TypeOK'
<1> SUFFICES ASSUME TypeOK, [Next]_vars PROVE TypeOK'
  OBVIOUS
<1>0. load.clients \subseteq Clients /\ load.edits \in Nat
  BY ScreeningAssumption DEF TypeOK
<1> USE ItemsAre
<1>1. ASSUME NEW p \in Clients, load' = load, Screen(p) PROVE TypeOK'
  BY <1>1 DEF TypeOK, Screen, Goto, gather
<1>2. ASSUME NEW p \in Clients, load' = load, GatherNext(p) PROVE TypeOK'
  <2>1. [i \in Items |-> IF i \in GatherOrder[step[p]] THEN content[i] ELSE seen[p][i]]
          \in [Items -> Nat]
    BY DEF TypeOK
  <2>2. seen' \in [Clients -> [Items -> Nat]]
    BY <1>2, <2>1 DEF GatherNext, TypeOK
  <2>3. step[p] \in 1..7 /\ step' = [step EXCEPT ![p] = @ + 1]
    BY <1>2 DEF GatherNext
  <2>4. step' \in [Clients -> 1..Len(GatherOrder) + 1]
    BY <2>3 DEF TypeOK
  <2> QED BY <1>2, <2>2, <2>4 DEF TypeOK, GatherNext
<1>3. ASSUME NEW p \in Clients, load' = load, Store(p) PROVE TypeOK'
  BY <1>3, FinishTyped DEF TypeOK, Store
<1>4. ASSUME NEW p \in Clients, load' = load, Get(p) \/ Recheck(p) PROVE TypeOK'
  <2>1. /\ pc' \in [Clients -> {"idle", "gather", "served", "recheck", "flush", "commit"}]
        /\ UNCHANGED <<content, stored, edits, step, seen, op, counter>>
    BY <1>4 DEF TypeOK, Get, Recheck, Goto
  <2>2. /\ served' \in [Clients -> [Items -> Nat] \cup {None}]
        /\ checked' \in [Clients -> [Items -> Nat] \cup {None}]
    BY <1>4 DEF TypeOK, Get, Recheck
  <2> QED BY <1>4, <2>1, <2>2 DEF TypeOK
<1>5. ASSUME NEW p \in Clients, load' = load, Answer(p) \/ Abort(p) PROVE TypeOK'
  BY <1>5, FinishTyped DEF TypeOK, Answer, Abort
<1>6. ASSUME NEW p \in Clients, load' = load, NEW o \in AllOps, BumpRead(p, o) PROVE TypeOK'
  BY <1>0, <1>6 DEF TypeOK, BumpRead, Goto, gather
<1>7. ASSUME NEW p \in Clients, load' = load, BumpFlush(p) PROVE TypeOK'
  <2>1. CASE Finish(p)
    BY <1>7, <2>1, FinishTyped DEF TypeOK, BumpFlush
  <2>2. CASE ~Finish(p)
    BY <1>7, <2>2 DEF TypeOK, BumpFlush, Goto, gather
  <2> QED BY <2>1, <2>2
<1>8. ASSUME NEW p \in Clients, load' = load, BumpCommit(p) PROVE TypeOK'
  <2>1. [Changed(content, op[p]) EXCEPT !["counter"] = counter[p]] \in [Items -> Nat]
    BY <1>8, ChangedType DEF TypeOK
  <2> QED BY <1>8, <2>1, FinishTyped DEF TypeOK, BumpCommit
<1>9. ASSUME NEW o \in AllOps, load' = load, Edit(o) PROVE TypeOK'
  BY <1>0, <1>9, ChangedType DEF TypeOK, Edit, gather
<1>10. CASE UNCHANGED vars
  BY <1>10 DEF TypeOK, vars
<1> QED
  BY <1>0, <1>1, <1>2, <1>3, <1>4, <1>5, <1>6, <1>7, <1>8, <1>9, <1>10 DEF Next

\* Versions and the counter are natural numbers, and a request is where its operation puts
\* it (EligibilityService, PortfolioVersionRepository).
THEOREM TypeCorrect == Spec => []TypeOK
BY InitTyped, NextTyped, PTL DEF Spec

-----------------------------------------------------------------------------
\* What a step does to the committed inputs and to a reading in hand.

\* The mutation of a request that is about to write.
OpInv == \A p \in Clients : pc[p] \in {"flush", "commit"} => op[p] \in load.ops \cap Bumping

Quiet == UNCHANGED <<content, stored>>

\* Every step is of one of these kinds.
LEMMA StepKinds ==
  ASSUME TypeOK, [Next]_vars
  PROVE  /\ load' = load
         /\ \/ UNCHANGED vars
            \/ \E p \in load.clients :
                 \/ GatherNext(p) \/ Store(p) \/ BumpCommit(p)
                 \/ Quiet /\ (Finish(p) \/ \E o \in AllOps : BumpRead(p, o))
                 \/ Screen(p) \/ Get(p) \/ Recheck(p) \/ (BumpFlush(p) /\ ~Finish(p))
            \/ \E o \in AllOps : Edit(o)
BY DEF Next, vars, Quiet, Answer, Abort, BumpFlush, BumpRead

LEMMA FinishEnds ==
  ASSUME TypeOK, NEW p \in Clients, Finish(p), NEW q \in Clients
  PROVE  /\ q = p => pc'[q] = "idle" /\ step'[q] = 1 /\ seen'[q] = Blank
         /\ q # p => pc'[q] = pc[q] /\ step'[q] = step[q] /\ seen'[q] = seen[q]
                     /\ op'[q] = op[q] /\ counter'[q] = counter[q]
BY DEF TypeOK, Finish, Goto

LEMMA NextOp == TypeOK /\ OpInv /\ [Next]_vars => OpInv'
<1> SUFFICES ASSUME TypeOK, OpInv, [Next]_vars, NEW q \in Clients, pc'[q] \in {"flush", "commit"}
             PROVE  (op[q] \in load.ops \cap Bumping)'
  BY DEF OpInv
<1>0. load' = load /\ load.clients \subseteq Clients
  BY StepKinds, ScreeningAssumption DEF TypeOK
<1>1. CASE UNCHANGED vars
  BY <1>1 DEF vars, OpInv
<1>2. ASSUME NEW p \in Clients, Finish(p) PROVE (op[q] \in load.ops \cap Bumping)'
  BY <1>0, <1>2, FinishEnds DEF OpInv
<1>3. ASSUME NEW p \in Clients, NEW o \in AllOps, BumpRead(p, o)
      PROVE  (op[q] \in load.ops \cap Bumping)'
  BY <1>0, <1>3 DEF BumpRead, Goto, OpInv, TypeOK
<1>4. ASSUME NEW p \in Clients, BumpFlush(p), ~Finish(p) PROVE (op[q] \in load.ops \cap Bumping)'
  BY <1>0, <1>4 DEF BumpFlush, Goto, gather, OpInv, TypeOK
<1>5. ASSUME NEW p \in Clients, Screen(p) \/ Get(p) \/ Recheck(p) \/ GatherNext(p)
      PROVE  (op[q] \in load.ops \cap Bumping)'
  BY <1>0, <1>5 DEF Screen, Get, Recheck, GatherNext, Goto, OpInv, TypeOK
<1>6. ASSUME NEW o, Edit(o) PROVE (op[q] \in load.ops \cap Bumping)'
  BY <1>0, <1>6 DEF Edit, OpInv
<1> QED
  BY <1>0, <1>1, <1>2, <1>3, <1>4, <1>5, <1>6, StepKinds DEF Store, BumpCommit

-----------------------------------------------------------------------------
\* Alarms.

\* A reading whose inputs are nowhere ahead of the tables.
Below(r) == \A i \in Items \ {"counter"} : r[i] <= content[i]

\* A reading that ended with the counter: with the taxonomy it read, the counter stands.
Counted(r) ==
  (\A i \in Taxonomy : r[i] = content[i]) => r["counter"] = content["counter"]

AlarmInv ==
  /\ TypeOK /\ OpInv
  /\ stored # None => Below(stored) /\ Counted(stored)
  /\ \A p \in Clients : Below(seen[p]) /\ (step[p] > 7 => Counted(seen[p]))

\* No commit takes a version back, or moves the counter alone.
Forward ==
  /\ \A i \in Items \ {"counter"} : content[i] <= content'[i]
  /\ (\A i \in Taxonomy : content'[i] = content[i]) => content'["counter"] = content["counter"]

LEMMA ReadingsStand ==
  ASSUME TypeOK, TypeOK', Forward, NEW r \in [Items -> Nat], Below(r)
  PROVE  Below(r)' /\ (Counted(r) => Counted(r)')
<1>0. /\ content \in [Items -> Nat] /\ content' \in [Items -> Nat]
      /\ Taxonomy \subseteq Items \ {"counter"}
  BY ItemsAre DEF TypeOK, Taxonomy
<1>1. \A i \in Items \ {"counter"} : r[i] <= content[i] /\ content[i] <= content'[i]
                                      /\ r[i] \in Nat /\ content[i] \in Nat /\ content'[i] \in Nat
  BY <1>0 DEF Below, Forward
<1>2. Below(r)'
  <2>1. \A i \in Items \ {"counter"} : r[i] <= content'[i]
    BY <1>1
  <2> QED BY <2>1 DEF Below
<1>3. ASSUME \A i \in Taxonomy : r[i] = content'[i]
      PROVE  \A i \in Taxonomy : r[i] = content[i] /\ content'[i] = content[i]
  BY <1>0, <1>1, <1>3
<1> QED BY <1>2, <1>3 DEF Forward, Counted

LEMMA MovesForward ==
  ASSUME AlarmInv, [Next]_vars, \A l \in Loads : l.ops \cap Idle = {}
  PROVE  Forward
<1>0. content \in [Items -> Nat] /\ load.clients \subseteq Clients /\ load \in Loads
  BY ScreeningAssumption DEF AlarmInv, TypeOK
<1>1. CASE content' = content
  BY <1>0, <1>1, ItemsAre DEF Forward
<1>2. ASSUME NEW p \in Clients, BumpCommit(p) PROVE Forward
  <2>1. op[p] \in {"type", "alias", "tag", "seed"}
    BY <1>0, <1>2 DEF AlarmInv, OpInv, BumpCommit, Bumping
  <2>2. PICK i \in Taxonomy : i \in Edits[op[p]]
    BY <2>1, EditsAre DEF Taxonomy
  <2>3. /\ \A j \in Items \ {"counter"} :
             content'[j] = IF j \in Edits[op[p]] THEN content[j] + 1 ELSE content[j]
        /\ i \in Items \ {"counter"}
    BY <1>0, <1>2, ItemsAre DEF BumpCommit, Changed, Taxonomy
  <2>4. content'[i] # content[i]
    BY <1>0, <2>2, <2>3
  <2> QED BY <1>0, <2>2, <2>3, <2>4 DEF Forward
<1>3. ASSUME NEW o \in AllOps, Edit(o) PROVE Forward
  <2>1. "counter" \notin Edits[o]
    BY EditsAre
  <2>2. \A j \in Items : content'[j] = IF j \in Edits[o] THEN content[j] + 1 ELSE content[j]
    BY <1>3 DEF Edit, Changed
  <2> QED BY <1>0, <2>1, <2>2, ItemsAre DEF Forward
<1> QED
  BY <1>0, <1>1, <1>2, <1>3, StepKinds
     DEF AlarmInv, GatherNext, Store, Quiet, Screen, Get, Recheck, BumpRead, BumpFlush, vars

LEMMA InitAlarm == Init => AlarmInv
<1> SUFFICES ASSUME Init PROVE AlarmInv
  OBVIOUS
<1>1. TypeOK /\ OpInv
  BY InitTyped DEF Init, OpInv
<1>2. Below(Blank) /\ step = [p \in Clients |-> 1]
  BY DEF Init, Below, Blank
<1> QED BY <1>1, <1>2 DEF Init, AlarmInv

LEMMA NextAlarm ==
  ASSUME \A l \in Loads : l.ops \cap Idle = {}
  PROVE  AlarmInv /\ [Next]_vars => AlarmInv'
<1> SUFFICES ASSUME AlarmInv, [Next]_vars PROVE AlarmInv'
  OBVIOUS
<1>0. /\ TypeOK /\ TypeOK' /\ OpInv' /\ Forward /\ load.clients \subseteq Clients
  BY NextTyped, NextOp, MovesForward, ScreeningAssumption DEF AlarmInv, TypeOK
<1>1. Below(Blank)'
  BY <1>0 DEF Below, Blank, TypeOK
\* What a request has read.
<1>2. ASSUME NEW q \in Clients PROVE Below(seen[q])' /\ (step'[q] > 7 => Counted(seen[q])')
  <2>0. seen[q] \in [Items -> Nat] /\ Below(seen[q])
    BY <1>0 DEF AlarmInv, TypeOK
  <2>1. CASE seen'[q] = seen[q] /\ step'[q] = step[q]
    BY <1>0, <2>0, <2>1, ReadingsStand DEF AlarmInv, Below, Counted
  <2>2. CASE seen'[q] = Blank /\ step'[q] = 1
    BY <1>1, <2>2 DEF Below
  <2>3. CASE GatherNext(q)
    <3>1. /\ \A i \in Items :
               seen'[q][i] = IF i \in GatherOrder[step[q]] THEN content[i] ELSE seen[q][i]
          /\ step[q] \in 1..7 /\ step'[q] = step[q] + 1 /\ content' = content
      BY <1>0, <2>3, ItemsAre DEF GatherNext, TypeOK
    <3>2. Below(seen[q])'
      <4> SUFFICES ASSUME NEW i \in Items \ {"counter"} PROVE seen'[q][i] <= content'[i]
        BY DEF Below
      <4>1. seen[q][i] <= content[i] /\ content[i] \in Nat
        BY <1>0, <2>0 DEF Below, TypeOK
      <4> QED BY <3>1, <4>1
    <3>3. ASSUME step'[q] > 7 PROVE seen'[q]["counter"] = content'["counter"]
      <4>1. step[q] = 7
        BY <3>1, <3>3
      <4> QED BY <3>1, <4>1, OrderIs, ItemsAre
    <3> QED BY <3>2, <3>3 DEF Counted
  <2>4. ASSUME NEW p \in Clients, Finish(p)
        PROVE  \/ seen'[q] = seen[q] /\ step'[q] = step[q]
               \/ seen'[q] = Blank /\ step'[q] = 1
    BY <1>0, <2>4, FinishEnds
  <2>5. ASSUME NEW p \in Clients, GatherNext(p), p # q
        PROVE  seen'[q] = seen[q] /\ step'[q] = step[q]
    BY <1>0, <2>5 DEF GatherNext, TypeOK
  <2> QED
    BY <1>0, <2>1, <2>2, <2>3, <2>4, <2>5, StepKinds
       DEF Store, BumpCommit, Screen, Get, Recheck, BumpRead, BumpFlush, Edit, gather, vars
\* What is stored.
<1>3. stored' # None => Below(stored)' /\ Counted(stored)'
  <2>1. CASE stored' = stored
    <3>1. stored # None => stored \in [Items -> Nat]
      BY <1>0 DEF TypeOK
    <3> QED BY <1>0, <2>1, <3>1, ReadingsStand DEF AlarmInv, Below, Counted
  <2>2. ASSUME NEW p \in Clients, Store(p) PROVE Below(stored)' /\ Counted(stored)'
    <3>1. stored' = seen[p] /\ step[p] > 7 /\ content' = content
      BY <2>2, ItemsAre DEF Store, Gathered
    <3> QED BY <3>1 DEF AlarmInv, Below, Counted
  <2> QED
    BY <1>0, <2>1, <2>2, StepKinds
       DEF Quiet, BumpCommit, GatherNext, Screen, Get, Recheck, BumpRead, BumpFlush, Edit, vars
<1> QED BY <1>0, <1>2, <1>3 DEF AlarmInv

\* No alarm without a reason: as long as no mutation that changes nothing is asked for (the
\* removal of a tag that is not there, a tag given again, a seed loaded again), a result is
\* reported stale only when an input of it moved, whatever number of requests screen, check
\* and mutate at once (EligibilityService.is_stale, _gather).
THEOREM AlarmsHaveReasons ==
  (\A l \in Loads : l.ops \cap Idle = {}) => (Spec => []StaleMeansMoved)
<1> SUFFICES ASSUME \A l \in Loads : l.ops \cap Idle = {} PROVE Spec => []StaleMeansMoved
  OBVIOUS
<1>1. AlarmInv => StaleMeansMoved
  <2> SUFFICES ASSUME AlarmInv, stored # None, Inputs(stored) = Inputs(content)
               PROVE  Fingerprint(stored) = Fingerprint(content)
    BY DEF StaleMeansMoved, Fresh
  <2>1. \A i \in Items \ {"counter"} : stored[i] = content[i]
    <3>1. ASSUME NEW i \in Items \ {"counter"} PROVE stored[i] = content[i]
      <4>1. Inputs(stored)[i] = stored[i] /\ Inputs(content)[i] = content[i]
        BY DEF Inputs
      <4> QED BY <4>1
    <3> QED BY <3>1
  <2>2. stored["counter"] = content["counter"]
    BY <2>1, ItemsAre DEF AlarmInv, Counted, Taxonomy
  <2> QED BY <2>1, <2>2, ItemsAre DEF Fingerprint, Fingerprinted
<1>2. AlarmInv /\ [Next]_vars => AlarmInv'
  BY NextAlarm
<1> QED BY <1>1, <1>2, InitAlarm, PTL DEF Spec

-----------------------------------------------------------------------------
\* One request at a time, and no mutation of the project registry.

\* What a request that gathers has read of the taxonomy, and the counter, still stands.
ReadSoFar(p) ==
  /\ step[p] > 3 => seen[p]["types"] = content["types"]
  /\ step[p] > 4 => seen[p]["tags"] = content["tags"]
  /\ step[p] > 6 => seen[p]["aliases"] = content["aliases"]
  /\ step[p] > 7 => seen[p]["counter"] = content["counter"]

\* The scope moves with the facts, and projects do not move.
Plain(r) == r["facts"] = r["scope"] /\ r["projects"] = 0

\* A counter that is still the counter means a taxonomy that is still the taxonomy.
Told(r) ==
  /\ r["counter"] <= content["counter"]
  /\ r["counter"] = content["counter"] => \A i \in Taxonomy : r[i] = content[i]

AloneInv(p) ==
  /\ pc[p] = "flush" => counter[p] = content["counter"]
  /\ pc[p] = "commit" => counter[p] = content["counter"] + 1
  /\ Plain(seen[p])
  /\ IF pc[p] \in {"gather", "recheck"} THEN ReadSoFar(p) ELSE step[p] = 1

FollowInv ==
  /\ TypeOK /\ OpInv
  /\ Followed =>
       /\ Plain(content)
       /\ stored # None => Plain(stored) /\ Told(stored)
       /\ \A p \in load.clients : AloneInv(p)

\* What a commit does to the inputs while the counter follows every mutation.
LEMMA CommitsFollowed ==
  ASSUME FollowInv, Followed, [Next]_vars, content' # content
  PROVE  /\ Plain(content)'
         /\ \/ /\ content'["counter"] = content["counter"] + 1
               /\ \A p \in load.clients : pc'[p] = "idle" /\ step'[p] = 1 /\ seen'[p] = Blank
            \/ /\ content'["counter"] = content["counter"]
               /\ \A i \in Taxonomy : content'[i] = content[i]
               /\ UNCHANGED <<pc, step, seen, counter>>
         /\ stored' = stored
<1>0. /\ content \in [Items -> Nat] /\ TypeOK /\ OpInv /\ Plain(content)
      /\ load.clients \subseteq Clients
  BY ScreeningAssumption DEF FollowInv, TypeOK
<1>1. ASSUME NEW p \in load.clients, BumpCommit(p)
      PROVE  /\ Plain(content)' /\ stored' = stored
             /\ content'["counter"] = content["counter"] + 1
             /\ \A q \in load.clients : pc'[q] = "idle" /\ step'[q] = 1 /\ seen'[q] = Blank
  <2>1. /\ op[p] \in {"type", "alias", "tag", "seed"} \cup Idle
        /\ counter[p] = content["counter"] + 1
    BY <1>0, <1>1 DEF FollowInv, AloneInv, OpInv, BumpCommit, Bumping
  <2>2. Edits[op[p]] \subseteq Taxonomy
    BY <2>1, EditsAre, IdleAre DEF Taxonomy
  <2>3. /\ \A j \in Items \ {"counter"} :
             content'[j] = IF j \in Edits[op[p]] THEN content[j] + 1 ELSE content[j]
        /\ content'["counter"] = counter[p]
    BY <1>0, <1>1, ItemsAre DEF BumpCommit, Changed
  <2>4. Plain(content)'
    BY <1>0, <2>2, <2>3, ItemsAre DEF Plain, Taxonomy
  <2>5. \A q \in load.clients : q = p
    BY DEF Followed
  <2>6. pc'[p] = "idle" /\ step'[p] = 1 /\ seen'[p] = Blank
    BY <1>0, <1>1, FinishEnds DEF BumpCommit
  <2> QED BY <1>1, <2>1, <2>3, <2>4, <2>5, <2>6 DEF BumpCommit
<1>2. ASSUME NEW o \in AllOps, Edit(o)
      PROVE  /\ Plain(content)' /\ stored' = stored
             /\ content'["counter"] = content["counter"]
             /\ \A i \in Taxonomy : content'[i] = content[i]
             /\ UNCHANGED <<pc, step, seen, counter>>
  <2>1. o \in {"tender", "turnover"}
    BY <1>2, EditsAre, IdleAre DEF Edit, Followed, Bumping
  <2>2. \A j \in Items : content'[j] = IF j \in Edits[o] THEN content[j] + 1 ELSE content[j]
    BY <1>2 DEF Edit, Changed
  <2>3. \A i \in Taxonomy \cup {"counter", "projects"} : i \notin Edits[o] /\ i \in Items
    BY <2>1, EditsAre, ItemsAre DEF Taxonomy
  <2>4. "facts" \in Edits[o] <=> "scope" \in Edits[o]
    BY <2>1, EditsAre
  <2>5. Plain(content)'
    BY <1>0, <2>2, <2>3, <2>4, ItemsAre DEF Plain
  <2> QED BY <1>2, <2>2, <2>3, <2>5 DEF Edit, gather
<1> QED
  BY <1>0, <1>1, <1>2, StepKinds
     DEF GatherNext, Store, Quiet, Screen, Get, Recheck, BumpRead, BumpFlush, vars

\* A step that commits nothing, of the one request there is.
LEMMA RequestsFollowed ==
  ASSUME FollowInv, Followed, [Next]_vars, content' = content, NEW p \in load.clients
  PROVE  AloneInv(p)' /\ (stored' = stored \/ (stored' = seen[p] /\ pc[p] = "gather" /\ step[p] > 7))
<1>0. /\ content \in [Items -> Nat] /\ TypeOK /\ AloneInv(p) /\ Plain(content)
      /\ load.clients = {p} /\ p \in Clients
  BY ScreeningAssumption DEF FollowInv, TypeOK, Followed
<1>1. Plain(Blank)
  BY ItemsAre DEF Plain, Blank
<1>2. ASSUME Finish(p) PROVE AloneInv(p)'
  <2>1. pc'[p] = "idle" /\ step'[p] = 1 /\ seen'[p] = Blank
    BY <1>0, <1>2, FinishEnds
  <2> QED BY <1>1, <2>1 DEF AloneInv, Plain
<1>3. ASSUME GatherNext(p) PROVE AloneInv(p)'
  <2>1. /\ pc'[p] = pc[p] /\ pc[p] \in {"gather", "recheck"} /\ counter' = counter
        /\ step[p] \in 1..7 /\ step'[p] = step[p] + 1
        /\ \A i \in Items :
             seen'[p][i] = IF i \in GatherOrder[step[p]] THEN content[i] ELSE seen[p][i]
    BY <1>0, <1>3, ItemsAre DEF GatherNext, TypeOK
  <2>2. Plain(seen[p])'
    <3>1. "facts" \in GatherOrder[step[p]] <=> "scope" \in GatherOrder[step[p]]
      BY <2>1, OrderIs
    <3> QED BY <1>0, <2>1, <3>1, ItemsAre DEF Plain, AloneInv
  <2>3. ReadSoFar(p)'
    <3>1. ReadSoFar(p)
      BY <1>0, <2>1 DEF AloneInv
    <3>2. /\ seen'[p]["types"] = content["types"] \/ seen'[p]["types"] = seen[p]["types"]
          /\ seen'[p]["tags"] = content["tags"] \/ seen'[p]["tags"] = seen[p]["tags"]
          /\ seen'[p]["aliases"] = content["aliases"] \/ seen'[p]["aliases"] = seen[p]["aliases"]
          /\ seen'[p]["counter"] = content["counter"] \/ seen'[p]["counter"] = seen[p]["counter"]
      BY <2>1, ItemsAre
    <3>3. /\ step[p] = 3 => seen'[p]["types"] = content["types"]
          /\ step[p] = 4 => seen'[p]["tags"] = content["tags"]
          /\ step[p] = 6 => seen'[p]["aliases"] = content["aliases"]
          /\ step[p] = 7 => seen'[p]["counter"] = content["counter"]
      BY <2>1, ItemsAre, OrderIs
    <3>4. /\ step'[p] > 3 => step[p] > 3 \/ step[p] = 3
          /\ step'[p] > 4 => step[p] > 4 \/ step[p] = 4
          /\ step'[p] > 6 => step[p] > 6 \/ step[p] = 6
          /\ step'[p] > 7 => step[p] > 7 \/ step[p] = 7
      BY <2>1
    <3> QED BY <3>1, <3>2, <3>3, <3>4 DEF ReadSoFar
  <2> QED BY <2>1, <2>2, <2>3 DEF AloneInv
<1>4. ASSUME Screen(p) \/ Recheck(p) PROVE AloneInv(p)'
  <2>1. pc'[p] \in {"gather", "recheck"} /\ step'[p] = 1 /\ seen' = seen
    BY <1>0, <1>4 DEF Screen, Starts, Recheck, Goto, gather, AloneInv, TypeOK
  <2> QED BY <1>0, <2>1 DEF AloneInv, ReadSoFar, Plain
<1>5. ASSUME Get(p) PROVE AloneInv(p)'
  <2>1. pc'[p] = "served" /\ step'[p] = 1 /\ seen' = seen
    BY <1>0, <1>5 DEF Get, Starts, Goto, AloneInv, TypeOK
  <2> QED BY <1>0, <2>1 DEF AloneInv, Plain
<1>6. ASSUME NEW o \in AllOps, BumpRead(p, o) PROVE AloneInv(p)'
  <2>1. pc'[p] = "flush" /\ step'[p] = 1 /\ seen' = seen /\ counter'[p] = content["counter"]
    BY <1>0, <1>6 DEF BumpRead, Starts, Goto, gather, AloneInv, TypeOK
  <2> QED BY <1>0, <2>1 DEF AloneInv, Plain
<1>7. ASSUME BumpFlush(p), ~Finish(p) PROVE AloneInv(p)'
  <2>1. /\ pc'[p] = "commit" /\ step'[p] = 1 /\ seen' = seen
        /\ counter'[p] = content["counter"] + 1
    BY <1>0, <1>7 DEF BumpFlush, Goto, gather, AloneInv, TypeOK
  <2> QED BY <1>0, <2>1 DEF AloneInv, Plain
<1>8. ASSUME UNCHANGED <<pc, step, seen, counter>> PROVE AloneInv(p)'
  BY <1>0, <1>8 DEF AloneInv, ReadSoFar, Plain
<1> QED
  BY <1>0, <1>2, <1>3, <1>4, <1>5, <1>6, <1>7, <1>8, StepKinds, ItemsAre
     DEF Store, BumpCommit, Quiet, GatherNext, Gathered, Screen, Get, Recheck, BumpRead,
         BumpFlush, Edit, gather, vars

LEMMA NextFollowed == FollowInv /\ [Next]_vars => FollowInv'
<1> SUFFICES ASSUME FollowInv, [Next]_vars PROVE FollowInv'
  OBVIOUS
<1>0. /\ TypeOK /\ TypeOK' /\ OpInv' /\ load' = load /\ load.clients \subseteq Clients
      /\ Followed' = Followed /\ content \in [Items -> Nat] /\ content' \in [Items -> Nat]
  BY NextTyped, NextOp, StepKinds, ScreeningAssumption DEF FollowInv, TypeOK, Followed
<1>1. CASE ~Followed
  BY <1>0, <1>1 DEF FollowInv
<1>2. CASE Followed /\ content' = content
  <2>1. Plain(content)'
    BY <1>2 DEF FollowInv, Plain
  <2>2. \A p \in load.clients : AloneInv(p)'
    BY <1>2, RequestsFollowed
  <2>3. PICK p \in load.clients : TRUE
    BY <1>2 DEF Followed
  <2>4. stored' = stored \/ (stored' = seen[p] /\ pc[p] = "gather" /\ step[p] > 7)
    BY <1>2, <2>3, RequestsFollowed
  <2>5. stored' # None => Plain(stored)' /\ Told(stored)'
    <3>1. CASE stored' = stored
      BY <1>2, <3>1 DEF FollowInv, Plain, Told
    <3>2. CASE stored' = seen[p] /\ pc[p] = "gather" /\ step[p] > 7
      <4>1. AloneInv(p) /\ ReadSoFar(p) /\ step[p] \in Nat
        BY <1>0, <1>2, <2>3, <3>2 DEF FollowInv, AloneInv, TypeOK
      <4>2. /\ \A i \in Taxonomy \cup {"counter"} : stored'[i] = content'[i]
            /\ content'["counter"] \in Nat
        BY <1>0, <1>2, <3>2, <4>1, ItemsAre DEF ReadSoFar, Taxonomy
      <4> QED BY <3>2, <4>1, <4>2 DEF AloneInv, Plain, Told
    <3> QED BY <2>4, <3>1, <3>2
  <2> QED BY <1>0, <2>1, <2>2, <2>5 DEF FollowInv
<1>3. CASE Followed /\ content' # content
  <2>1. stored' = stored /\ Plain(content)'
    BY <1>3, CommitsFollowed
  <2>2. CASE /\ content'["counter"] = content["counter"] + 1
             /\ \A p \in load.clients : pc'[p] = "idle" /\ step'[p] = 1 /\ seen'[p] = Blank
    <3>1. \A p \in load.clients : AloneInv(p)'
      BY <2>2, ItemsAre DEF AloneInv, Plain, Blank
    <3>2. ASSUME stored # None PROVE Told(stored)'
      <4>1. /\ stored["counter"] \in Nat /\ content["counter"] \in Nat
            /\ stored["counter"] <= content["counter"]
        BY <1>0, <1>3, <3>2, ItemsAre DEF FollowInv, Told, TypeOK
      <4> QED BY <2>1, <2>2, <4>1 DEF Told
    <3> QED BY <1>0, <1>3, <2>1, <3>1, <3>2 DEF FollowInv, Plain
  <2>3. CASE /\ content'["counter"] = content["counter"]
             /\ \A i \in Taxonomy : content'[i] = content[i]
             /\ UNCHANGED <<pc, step, seen, counter>>
    <3>1. ASSUME NEW p \in load.clients PROVE AloneInv(p)'
      BY <1>3, <2>3 DEF FollowInv, AloneInv, ReadSoFar, Plain, Taxonomy
    <3>2. stored # None => Told(stored)'
      BY <1>3, <2>1, <2>3 DEF FollowInv, Told
    <3> QED BY <1>0, <1>3, <2>1, <3>1, <3>2 DEF FollowInv, Plain
  <2> QED BY <1>3, <2>2, <2>3, CommitsFollowed
<1> QED BY <1>1, <1>2, <1>3

LEMMA InitFollowed == Init => FollowInv
<1> SUFFICES ASSUME Init PROVE FollowInv
  OBVIOUS
<1>1. TypeOK /\ OpInv /\ load.clients \subseteq Clients
  BY InitTyped, ScreeningAssumption DEF Init, OpInv
<1>2. Plain(Blank)
  BY ItemsAre DEF Plain, Blank
<1>3. \A p \in load.clients : AloneInv(p)
  BY <1>1, <1>2 DEF Init, AloneInv, Plain
<1> QED BY <1>1, <1>2, <1>3 DEF Init, FollowInv

\* A stale result is never called fresh by one request at a time, as long as the registry of
\* projects and the scope stand: the fingerprint and the counter see every other change, those
\* between the queries of a screen included (compute_fingerprint, is_stale).
THEOREM FreshIsCurrent == Spec => []FreshWhenFollowed
<1>1. FollowInv => FreshWhenFollowed
  <2> SUFFICES ASSUME FollowInv, Followed, stored # None, Fingerprint(stored) = Fingerprint(content)
               PROVE  Inputs(stored) = Inputs(content)
    BY DEF FreshWhenFollowed, FreshMeansCurrent, Fresh
  <2>1. \A i \in Fingerprinted : stored[i] = content[i]
    <3> SUFFICES ASSUME NEW i \in Fingerprinted PROVE stored[i] = content[i]
      OBVIOUS
    <3>1. Fingerprint(stored)[i] = stored[i] /\ Fingerprint(content)[i] = content[i]
      BY DEF Fingerprint
    <3> QED BY <3>1
  <2>2. /\ stored["facts"] = content["facts"] /\ stored["turnover"] = content["turnover"]
        /\ stored["counter"] = content["counter"]
    BY <2>1 DEF Fingerprinted
  <2>3. \A i \in Items \ {"counter"} : stored[i] = content[i]
    BY <2>2, ItemsAre DEF FollowInv, Plain, Told, Taxonomy
  <2> QED BY <2>3 DEF Inputs
<1> QED BY <1>1, InitFollowed, NextFollowed, PTL DEF Spec

\* One mutation at a time never leaves the counter where an earlier one left it
\* (PortfolioVersionRepository.bump, which every mutation of WorkTypeService calls).
THEOREM CounterFollows == Spec => CounterMovesWhenFollowed
<1>1. FollowInv /\ [Next]_vars => [Followed => CounterMoved]_content
  <2> SUFFICES ASSUME FollowInv, [Next]_vars, Followed, content' # content PROVE CounterMoved
    OBVIOUS
  <2>1. content["counter"] \in Nat
    BY ItemsAre DEF FollowInv, TypeOK
  <2>2. \/ content'["counter"] = content["counter"] + 1
        \/ \A i \in Taxonomy : content'[i] = content[i]
    BY CommitsFollowed
  <2> QED BY <2>1, <2>2 DEF CounterMoved, Taxonomy
<1> QED BY <1>1, InitFollowed, NextFollowed, PTL DEF Spec, CounterMovesWhenFollowed
=============================================================================
