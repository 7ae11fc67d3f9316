------------------------------ MODULE AliasGraph ------------------------------
(***************************************************************************)
(* The graph of renamed keys: the rows of content_key_alias, the walk of   *)
(* the worker along them (packages/db alias-repository.ts) and the rules   *)
(* of a batch of new ones (packages/domain aliases.ts, content-compiler    *)
(* aliases.ts).  Aliases and UserBackup take it for their tables.          *)
(***************************************************************************)
EXTENDS Naturals, FiniteSets

CONSTANTS ReleaseIds, StableKeys,
          MaxBatch           \* bound: edges that one activation declares

-------------------------------------------------------------------------------
(* Chains.                                                                 *)

Out(E, key) == {e \in E : e.from = key}

(* Where as many steps as there are keys lead: the sink, unless the edges  *)
(* form a cycle.                                                           *)
Sink(E, key) ==
  LET at[n \in 0 .. Cardinality(StableKeys)] ==
        IF n = 0 THEN key
        ELSE IF Out(E, at[n - 1]) = {} THEN at[n - 1]
        ELSE (CHOOSE e \in Out(E, at[n - 1]) : TRUE).to
  IN  at[Cardinality(StableKeys)]

OneToOne(E) == \A e, f \in E : (e.from = f.from) <=> (e.to = f.to)
Acyclic(E) == \A e \in E : Out(E, Sink(E, e.from)) = {}
EndsAtItsRoot(E) == \A e \in E : e.canonical = Sink(E, e.from)

(* AliasRepository.walk: more than one successor, a cycle, or an edge on   *)
(* the way whose stored root is not the sink, and the walk throws.         *)
Walked(E, key) ==
  LET at[n \in 0 .. Cardinality(StableKeys)] ==
        IF n = 0 THEN {key} ELSE at[n - 1] \cup {e.to : e \in {f \in E : f.from \in at[n - 1]}}
  IN  at[Cardinality(StableKeys)]

Resolves(E, key) ==
  LET way == {e \in E : e.from \in Walked(E, key)} IN
  /\ \A e \in way, f \in E : f.from = e.from => f = e
  /\ Out(E, Sink(E, key)) = {}
  /\ \A e \in way : e.canonical = Sink(E, key)

-------------------------------------------------------------------------------
(* What a batch may declare.                                               *)

(* A release presents the keys that keysIn has of it.                      *)
Presented(keysIn) == {p \in ReleaseIds \X StableKeys : p[2] \in keysIn[p[1]]}
Declarable(keysIn) ==
  {[rel |-> p[1], from |-> p[2], toRel |-> q[1], to |-> q[2], canonical |-> r] :
     p \in Presented(keysIn), q \in Presented(keysIn), r \in StableKeys}

(* validateAliasEdges, on the batch alone.                                 *)
ValidBatch(B) ==
  /\ \A b \in B : b.from # b.to
  /\ \A b, c \in B : b.from = c.from => b.toRel = c.toRel
  /\ \A b, c \in B : b.to = c.to => b.rel = c.rel
  /\ OneToOne(B) /\ Acyclic(B) /\ EndsAtItsRoot(B)

BatchesOf(keysIn) ==
  {B \in {{}} \cup {{b} : b \in Declarable(keysIn)}
         \cup {{b, c} : b \in Declarable(keysIn), c \in Declarable(keysIn)} :
     Cardinality(B) <= MaxBatch /\ ValidBatch(B)}

Row(b) == [rel |-> b.rel, from |-> b.from, to |-> b.to, canonical |-> b.canonical]
Rows(B) == {Row(b) : b \in B}
KeysOf(B) == {b.from : b \in B} \cup {b.to : b \in B}

(* All keys that stored edges join to those of the batch.                  *)
Reached(E, K) ==
  LET at[n \in 0 .. Cardinality(StableKeys)] ==
        IF n = 0 THEN K
        ELSE at[n - 1] \cup {e.to : e \in {f \in E : f.from \in at[n - 1]}}
                       \cup {e.from : e \in {f \in E : f.to \in at[n - 1]}}
  IN  at[Cardinality(StableKeys)]

SameEdge(e, b) == e.rel = b.rel /\ e.from = b.from /\ e.to = b.to

(* Fault: only the edges of the batch's own keys are looked at.            *)
FitsNearby(E, B) ==
  LET near == {e \in E : /\ e.from \in {b.from : b \in B}
                         /\ \A b \in B : ~SameEdge(e, b)}
  IN  OneToOne(near \cup Rows(B)) /\ Acyclic(near \cup Rows(B))

(* assertNoCrossActivationConflicts: the union of the batch and the stored *)
(* edges it reaches, those it declares anew excepted.                      *)
FitsStored(E, B) ==
  LET far == {e \in E : /\ e.from \in Reached(E, KeysOf(B))
                        /\ \A b \in B : ~SameEdge(e, b)}
      all == far \cup Rows(B)
  IN  OneToOne(all) /\ Acyclic(all) /\ EndsAtItsRoot(all)

(* INSERT .. ON CONFLICT (release_id, from_key, to_key): the root of a     *)
(* stored edge is refreshed; a new edge must not collide with another of   *)
(* its release.                                                            *)
Upserts(E, row) == {e \in E : ~SameEdge(e, row)} \cup {row}
Collides(E, row) ==
  \E e \in E : ~SameEdge(e, row) /\ e.rel = row.rel /\ (e.from = row.from \/ e.to = row.to)
===============================================================================
