------------------------------ MODULE Screening ------------------------------
(***************************************************************************)
(* Screening one tender and reporting whether the result still describes   *)
(* its inputs.  A screen gathers its inputs with a sequence of queries,    *)
(* each of which reads what is committed at that moment, and stores the    *)
(* result with a fingerprint: the value of some inputs, and for the rest a *)
(* counter that mutations of the portfolio bump in their transaction.      *)
(*                                                                         *)
(* What an input holds is abstracted to a version that every change moves. *)
(***************************************************************************)
EXTENDS Integers, Sequences

CONSTANTS
  Clients,   \* API requests
  None,      \* no row
  Loads,     \* the loads considered, each the requests that may be in flight at
             \* once, the mutations in use and a bound on them
  Serial     \* TRUE: nothing starts while anything is in flight

\* Mutant of GatherOrder: the counter before the tables it stands for.
CounterFirst ==
  <<{"facts", "scope"}, {"turnover"}, {"counter"}, {"types"}, {"tags"}, {"projects"},
    {"aliases"}>>

\* The queries of _gather in order, with the inputs each one returns; "scope"
\* is the text stage A matches against, "facts" the value, completion period
\* and closing date.
GatherOrder ==
  <<{"facts", "scope"}, {"turnover"}, {"types"}, {"tags"}, {"projects"},
    {"aliases"}, {"counter"}>>

Items == UNION {GatherOrder[i] : i \in DOMAIN GatherOrder}

\* Mutant of Fingerprinted: the turnover window left out.
FingerprintedFacts == {"facts", "counter"}

\* compute_fingerprint.
Fingerprinted == {"facts", "turnover", "counter"}
Fingerprint(inputs) == [i \in Fingerprinted |-> inputs[i]]

\* What a result was computed from; the counter is evidence, not an input.
Inputs(read) == [i \in Items \ {"counter"} |-> read[i]]

\* The inputs a mutation changes.  Three change none: the removal of a tag that is
\* not there, a tag given again as it stands, and a seed that finds its rows present.
Edits ==
  [type |-> {"types"}, alias |-> {"aliases"}, tag |-> {"tags"},
   seed |-> {"types", "aliases", "tags"},
   untag_missing |-> {}, tag_again |-> {}, seed_again |-> {},
   project |-> {"projects"}, project_delete |-> {"projects", "tags"},
   tender |-> {"facts", "scope"}, scope |-> {"scope"}, turnover |-> {"turnover"}]
AllOps == DOMAIN Edits
Idle == {o \in AllOps : Edits[o] = {}}

\* Mutant of Bumping: add_alias and remove_alias without their _bump.
BumpingButAlias == {"type", "tag", "seed"} \cup Idle

\* The mutations of WorkTypeService that reach _bump, and WorkTypeSeedService.load,
\* which bumps whatever it added.
Bumping == {"type", "alias", "tag", "seed"} \cup Idle

ASSUME ScreeningAssumption ==
  /\ Loads \subseteq [clients : SUBSET Clients, ops : SUBSET AllOps, edits : Nat]
  /\ Serial \in BOOLEAN
  /\ None \notin [Items -> Nat]

VARIABLES
  load,     \* the load of this behaviour
  content,  \* the committed version of every input, and the counter
  stored,   \* what the stored result was computed from, or None
  edits,    \* mutations begun so far
  pc,       \* where each request is
  step,     \* the next query of its gather
  seen,     \* what its gather has read
  served,   \* the record a GET answers with
  checked,  \* the record its staleness check compares
  op,       \* its mutation
  counter   \* the counter its bump read, then writes

vars == <<load, content, stored, edits, pc, step, seen, served, checked, op, counter>>
gather == <<step, seen, served, checked>>

Blank == [i \in Items |-> 0]

Init ==
  /\ load \in Loads
  /\ content = Blank
  /\ stored = None
  /\ edits = 0
  /\ pc = [p \in Clients |-> "idle"]
  /\ step = [p \in Clients |-> 1]
  /\ seen = [p \in Clients |-> Blank]
  /\ served = [p \in Clients |-> None]
  /\ checked = [p \in Clients |-> None]
  /\ op = [p \in Clients |-> None]
  /\ counter = [p \in Clients |-> 0]

Starts(p) == pc[p] = "idle" /\ (Serial => \A q \in Clients : pc[q] = "idle")
Goto(p, where) == pc' = [pc EXCEPT ![p] = where]

\* The request is over, and what it had in hand forgotten.
Finish(p) ==
  /\ Goto(p, "idle")
  /\ step'    = [step    EXCEPT ![p] = 1]
  /\ seen'    = [seen    EXCEPT ![p] = Blank]
  /\ served'  = [served  EXCEPT ![p] = None]
  /\ checked' = [checked EXCEPT ![p] = None]
  /\ op'      = [op      EXCEPT ![p] = None]
  /\ counter' = [counter EXCEPT ![p] = 0]

-----------------------------------------------------------------------------
\* POST /tenders/{id}/eligibility: gather, evaluate, upsert.

Screen(p) ==
  /\ Starts(p)
  /\ Goto(p, "gather")
  /\ UNCHANGED <<content, stored, edits, gather, op, counter>>

\* The next query of _gather, for a screen or for a staleness check.
GatherNext(p) ==
  /\ pc[p] \in {"gather", "recheck"} /\ step[p] \in DOMAIN GatherOrder
  /\ seen' = [seen EXCEPT ![p] = [i \in Items |->
                IF i \in GatherOrder[step[p]] THEN content[i] ELSE @[i]]]
  /\ step' = [step EXCEPT ![p] = @ + 1]
  /\ UNCHANGED <<content, stored, edits, pc, served, checked, op, counter>>

Gathered(p) == step[p] > Len(GatherOrder)

Store(p) ==
  /\ pc[p] = "gather" /\ Gathered(p)
  /\ stored' = seen[p]
  /\ Finish(p)
  /\ UNCHANGED <<content, edits>>

-----------------------------------------------------------------------------
\* GET /tenders/{id}/eligibility: the record, then is_stale, which selects the
\* record once more and gathers.

Get(p) ==
  /\ Starts(p) /\ stored # None
  /\ served' = [served EXCEPT ![p] = stored]
  /\ Goto(p, "served")
  /\ UNCHANGED <<content, stored, edits, step, seen, checked, op, counter>>

Recheck(p) ==
  /\ pc[p] = "served"
  /\ checked' = [checked EXCEPT ![p] = stored]
  /\ Goto(p, "recheck")
  /\ UNCHANGED <<content, stored, edits, step, seen, served, op, counter>>

Answer(p) ==
  /\ pc[p] = "recheck" /\ Gathered(p)
  /\ Finish(p)
  /\ UNCHANGED <<content, stored, edits>>

\* is_stale as the answer reports it.
ReportedStale(p) == Fingerprint(checked[p]) # Fingerprint(seen[p])

-----------------------------------------------------------------------------
\* Mutations.

Changed(rows, o) == [i \in Items |-> IF i \in Edits[o] THEN rows[i] + 1 ELSE rows[i]]

\* A mutation that does not bump: project registry, tender, metadata, turnover.
Edit(o) ==
  /\ o \in load.ops \ Bumping /\ edits < load.edits
  /\ Serial => \A p \in Clients : pc[p] = "idle"
  /\ edits' = edits + 1
  /\ content' = Changed(content, o)
  /\ UNCHANGED <<stored, pc, gather, op, counter>>

\* A taxonomy mutation writes its row, reads the counter, ...
BumpRead(p, o) ==
  /\ Starts(p) /\ o \in load.ops \cap Bumping /\ edits < load.edits
  /\ edits' = edits + 1
  /\ op' = [op EXCEPT ![p] = o]
  /\ counter' = [counter EXCEPT ![p] = content["counter"]]
  /\ Goto(p, "flush")
  /\ UNCHANGED <<content, stored, gather>>

\* ... writes what it read plus one, once no other transaction holds the row, ...
BumpFlush(p) ==
  /\ pc[p] = "flush"
  /\ \A q \in Clients : pc[q] # "commit"
  /\ IF counter[p] = 0 /\ content["counter"] # 0
     THEN Finish(p)  \* the first bump inserts the row, and a second INSERT of it fails
     ELSE /\ counter' = [counter EXCEPT ![p] = @ + 1]
          /\ Goto(p, "commit")
          /\ UNCHANGED <<gather, op>>
  /\ UNCHANGED <<content, stored, edits>>

\* ... and commits both.
BumpCommit(p) ==
  /\ pc[p] = "commit"
  /\ content' = [Changed(content, op[p]) EXCEPT !["counter"] = counter[p]]
  /\ Finish(p)
  /\ UNCHANGED <<stored, edits>>

\* A request fails or its process dies: its transaction leaves nothing.
Abort(p) ==
  /\ pc[p] # "idle"
  /\ Finish(p)
  /\ UNCHANGED <<content, stored, edits>>

Next ==
  /\ UNCHANGED load
  /\ \/ \E p \in load.clients :
          \/ Screen(p) \/ GatherNext(p) \/ Store(p)
          \/ Get(p) \/ Recheck(p) \/ Answer(p)
          \/ (\E o \in AllOps : BumpRead(p, o))
          \/ BumpFlush(p) \/ BumpCommit(p)
          \/ Abort(p)
     \/ \E o \in AllOps : Edit(o)

Spec == Init /\ [][Next]_vars

-----------------------------------------------------------------------------
TypeOK ==
  /\ load \in Loads
  /\ content \in [Items -> Nat]
  /\ stored \in [Items -> Nat] \cup {None}
  /\ edits \in 0..load.edits
  /\ pc \in [Clients -> {"idle", "gather", "served", "recheck", "flush", "commit"}]
  /\ step \in [Clients -> 1..Len(GatherOrder) + 1]
  /\ seen \in [Clients -> [Items -> Nat]]
  /\ served \in [Clients -> [Items -> Nat] \cup {None}]
  /\ checked \in [Clients -> [Items -> Nat] \cup {None}]
  /\ op \in [Clients -> AllOps \cup {None}]
  /\ counter \in [Clients -> Nat]

Fresh == stored # None /\ Fingerprint(stored) = Fingerprint(content)

\* One request at a time, and no mutation of the project registry, whose edits no
\* counter follows.
Followed ==
  (\E p \in Clients : load.clients = {p}) /\ load.ops \cap {"project", "project_delete", "scope"} = {}

\* is_stale is "True when a stored result no longer describes the current
\* inputs": a result reported fresh was computed from what the tables hold now.
FreshMeansCurrent == Fresh => Inputs(stored) = Inputs(content)
FreshWhenFollowed == Followed => FreshMeansCurrent

\* The converse: a result is reported stale only when an input moved, so an
\* aborted mutation or a screen running beside one raises no alarm.  It holds of
\* loads without the Idle mutations, which move the counter and nothing else.
StaleMeansMoved ==
  stored # None /\ ~Fresh => Inputs(stored) # Inputs(content)

\* "The counter every portfolio mutation bumps": a commit that changes types,
\* aliases or tags leaves the counter where no earlier commit left it.
CounterMoved ==
  \A i \in {"types", "aliases", "tags"} :
    content'[i] # content[i] => content'["counter"] > content["counter"]
EveryMutationMovesTheCounter == [][CounterMoved]_content
CounterMovesWhenFollowed == [][Followed => CounterMoved]_content

\* GET answers with a result and whether its inputs have moved: the staleness
\* reported is that of the record in the answer.
AnswerIsAboutServedRecord ==
  \A p \in Clients : pc[p] = "recheck" /\ Gathered(p) =>
    (ReportedStale(p) <=> Fingerprint(served[p]) # Fingerprint(seen[p]))
=============================================================================
