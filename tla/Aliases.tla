------------------------------- MODULE Aliases -------------------------------
(***************************************************************************)
(* Renamed words: the edges of content_key_alias, which an activation      *)
(* declares and imports (tools/content-compiler/src/release/aliases.ts and *)
(* remote.ts, packages/db/src/repositories), and the worker's walk along   *)
(* them from the key a release presents to the key that holds the          *)
(* learner's progress (alias-repository.ts).  The tool reads the table,    *)
(* the releases and the progress in queries of its own before it imports;  *)
(* the worker grades, and retention deletes releases, meanwhile.  Edges    *)
(* of words and of cards obey the same rules, so there is one kind of key. *)
(***************************************************************************)
EXTENDS AliasGraph

CONSTANTS KeysIn,            \* the keys that a release presents
          MaxActivations     \* bound: activations that declare edges

ASSUME AliasAssumption ==
  /\ IsFiniteSet(StableKeys) /\ KeysIn \in [ReleaseIds -> SUBSET StableKeys]
  /\ {MaxActivations, MaxBatch} \subseteq Nat

VARIABLES
  edges,       \* content_key_alias: [rel, from, to, canonical]
  progress,    \* the keys under which the learner has rows
  present,     \* the releases in the database
  active,
  studied,     \* releases that a review or an introduction refers to
  import,      \* the activation under way
  grade,       \* the grade under way: the key it resolved
  activations,
  history      \* what happened: upserts owed, an overtaken grade, a cut chain

aliasVars == <<edges, progress, present, active, studied, import, grade, activations, history>>

NoImport == [at |-> "none", batch |-> {}, todo |-> {}, remote |-> FALSE]
NoGrade == [step |-> "none", roots |-> {}]

AliasInit ==
  /\ edges = {} /\ progress = {}
  /\ present = ReleaseIds /\ active \in ReleaseIds
  /\ studied = {}
  /\ import = NoImport /\ grade = NoGrade
  /\ activations = 0
  /\ history = [owed |-> {}, overtaken |-> FALSE, cut |-> FALSE]

-------------------------------------------------------------------------------
(* What an activation may declare, and what it looks at.                   *)

Batches == BatchesOf(KeysIn)

(* assertAliasEndsExist *)
EndsExist(B) == \A b \in B : {b.rel, b.toRel} \subseteq present

(* stateConflictsFromRows: progress only under the roots.                  *)
NoCollision(B) == \A b \in B : {b.from, b.to} \cap progress \subseteq {b.canonical}

-------------------------------------------------------------------------------
(* An activation with declared edges: three looks at the database, then    *)
(* the upserts.                                                            *)

Declare(B, remote) ==
  /\ import = NoImport /\ activations < MaxActivations
  /\ FitsStored(edges, B)
  /\ import' = [at |-> "ends", batch |-> B, todo |-> {}, remote |-> remote]
  /\ activations' = activations + 1
  /\ UNCHANGED <<edges, progress, present, active, studied, grade, history>>

LookAtEnds ==
  /\ import.at = "ends"
  /\ import' = IF EndsExist(import.batch) THEN [import EXCEPT !.at = "progress"] ELSE NoImport
  /\ UNCHANGED <<edges, progress, present, active, studied, grade, activations, history>>

LookAtProgress ==
  /\ import.at = "progress"
  /\ import' = IF NoCollision(import.batch)
               THEN [import EXCEPT !.at = "import", !.todo = Rows(import.batch)]
               ELSE NoImport
  /\ UNCHANGED <<edges, progress, present, active, studied, grade, activations, history>>

(* The release of a row must be there.                                     *)
Accepted(E, row) == row.rel \in present /\ ~Collides(E, row)

Switches(rel) == active' = rel /\ import' = NoImport

(* One transaction, which fails as a whole.                                *)
ImportLocally ==
  /\ import.at = "import" /\ ~import.remote
  /\ \/ /\ \A row \in import.todo : Accepted(edges \ {e \in edges : \E r \in import.todo : SameEdge(e, r)}, row)
        /\ edges' = {e \in edges : \A row \in import.todo : ~SameEdge(e, row)} \cup import.todo
        /\ history' = [history EXCEPT !.owed = @ \ import.todo]
        /\ \E rel \in present : Switches(rel)
     \/ import' = NoImport /\ UNCHANGED <<edges, active, history>>
  /\ UNCHANGED <<progress, present, studied, grade, activations>>

(* One statement after the other; the pointer moves after the last.        *)
ImportRow(row) ==
  /\ import.at = "import" /\ import.remote
  /\ row \in import.todo
  /\ Accepted(edges, row)
  /\ edges' = Upserts(edges, row)
  /\ import' = [import EXCEPT !.todo = @ \ {row}]
  /\ history' = [history EXCEPT !.owed = @ \ {row}]
  /\ UNCHANGED <<progress, present, active, studied, grade, activations>>

ImportEnds ==
  /\ import.at = "import" /\ import.remote
  /\ import.todo = {}
  /\ \E rel \in present : Switches(rel)
  /\ UNCHANGED <<edges, progress, present, studied, grade, activations, history>>

(* A statement fails, or the tool dies.                                    *)
ImportBreaks ==
  /\ import.at = "import" /\ import.remote
  /\ import' = NoImport
  /\ history' = [history EXCEPT !.owed = @ \cup IF edges \cap Rows(import.batch) = {} THEN {}
                                               ELSE import.todo]
  /\ UNCHANGED <<edges, progress, present, active, studied, grade, activations>>

Rollback(rel) ==
  /\ import = NoImport
  /\ rel \in present \ {active}
  /\ active' = rel
  /\ UNCHANGED <<edges, progress, present, studied, import, grade, activations, history>>

-------------------------------------------------------------------------------
(* The worker, and retention.                                              *)

(* resolvePresented of a card in the session's release; a walk that throws *)
(* fails the request.                                                      *)
GradeResolves(rel, key) ==
  /\ grade = NoGrade
  /\ rel \in present /\ key \in KeysIn[rel]
  /\ Resolves(edges, key)
  /\ grade' = [step |-> "resolved", roots |-> {Sink(edges, key)}]
  /\ studied' = studied \cup {rel}
  /\ UNCHANGED <<edges, progress, present, active, import, activations, history>>

(* The batch of the grade; an import that has had its look at the progress *)
(* does not see it.                                                        *)
GradeCommits ==
  /\ grade.step = "resolved"
  /\ progress' = progress \cup grade.roots
  /\ history' = [history EXCEPT !.overtaken = \/ @
                   \/ (import.at = "import" /\ ~(grade.roots \subseteq progress))
                   \/ \E k \in grade.roots : Out(edges, k) # {}]
  /\ grade' = NoGrade
  /\ UNCHANGED <<edges, present, active, studied, import, activations>>

(* The edges that the release declared go with its row.                    *)
DeleteRelease(rel) ==
  /\ rel \in present \ ({active} \cup studied)
  /\ present' = present \ {rel}
  /\ edges' = {e \in edges : e.rel # rel}
  /\ history' = [history EXCEPT !.cut =
                   \/ @
                   \/ \E b \in import.batch : b.rel = rel
                   \/ \E e \in edges, f \in edges : e.rel # rel /\ f.rel = rel /\ e.to = f.from]
  /\ UNCHANGED <<progress, active, studied, import, grade, activations>>

AliasNext ==
  \/ \E B \in Batches, remote \in BOOLEAN : Declare(B, remote)
  \/ LookAtEnds \/ LookAtProgress
  \/ ImportLocally \/ ImportEnds \/ ImportBreaks
  \/ \E row \in import.todo : ImportRow(row)
  \/ \E rel \in ReleaseIds : Rollback(rel) \/ DeleteRelease(rel)
  \/ \E rel \in ReleaseIds, key \in StableKeys : GradeResolves(rel, key)
  \/ GradeCommits

AliasSpec == AliasInit /\ [][AliasNext]_aliasVars

-------------------------------------------------------------------------------
(* Nothing broke off, no grade was overtaken by an import, and no release  *)
(* was deleted out of the middle of a chain.                               *)
Undisturbed ==
  /\ ~history.overtaken /\ ~history.cut /\ history.owed = {}
  /\ ~(import.at = "import" /\ import.remote)

(* Whatever releases declare, one after the other, the renames stay chains *)
(* that end at the root each of their edges names, and every row of the    *)
(* learner stands at the end of its chain, where the worker looks for it   *)
(* (aliases.ts:73-273, alias-repository.ts:89-188).                        *)
ProgressIsAtTheRoot ==
  Undisturbed =>
    /\ OneToOne(edges) /\ Acyclic(edges) /\ EndsAtItsRoot(edges)
    /\ \A key \in progress : Out(edges, key) = {}

(* "A redeclaration under a DIFFERENT declaring release does not supersede:*)
(* both rows would coexist and leave `resolve` ambiguous, so the stale     *)
(* stored canonical stays in the union and rejects" (aliases.ts:179-181):  *)
(* no walk of the worker finds two rows for a key.                         *)
NoWalkIsAmbiguous ==
  Undisturbed => \A key \in StableKeys : Cardinality(Out(edges, key)) <= 1
=============================================================================
