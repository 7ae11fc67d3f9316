------------------------- MODULE ReleasePartsProofs -------------------------
(***************************************************************************)
(* Three parts that live beside the releases: the renames of keys, the     *)
(* backup of the learners' rows, and the caches of the service worker.     *)
(*                                                                         *)
(* The renames: stored edges stay chains, and each names the key its chain *)
(* ends at, unless rows of a batch that begin on its way are still owed.   *)
(* So, unless an import broke off, a release was deleted out of a chain,   *)
(* or a grade came between the check of an import and its rows, every row  *)
(* of a learner is found under the key that no rename leads on from.       *)
(*                                                                         *)
(* The backup: what a drill restores holds the grade behind every state it *)
(* holds, whatever the requests between two queries write: the log is read *)
(* after the states, its new rows lie past any page read so far, and a     *)
(* page leaves nothing out between its ends. And what was read fits        *)
(* together: all users were read before the first row of one, no two rows  *)
(* read have the key of one, and the manifest names every release they     *)
(* refer to. The renames it takes are those on the ways from the keys it   *)
(* read; a walk that stays among them is the walk among all, so renames    *)
(* that the worker could walk when they were taken are walked by the drill *)
(* to the same roots.                                                      *)
(*                                                                         *)
(* The caches: a logout leaves nothing of its session in them, and never   *)
(* the page without its shell, for any builds, releases, logins and        *)
(* requests. Whatever of an ended session is still stored is on the list   *)
(* of a logout under way, or will be when that logout lists the caches;    *)
(* and only the activation of the build in control, or of the next one,    *)
(* drops shells.                                                           *)
(***************************************************************************)
EXTENDS Aliases, UserBackup, OfflineCache, FiniteSetTheorems, WellFoundedInduction, TLAPS

(***************************************************************************)
(* Numbers, and steps taken one after the other.                           *)
(***************************************************************************)
(* Least and greatest elements.                                            *)
LEMMA LeastOf ==
  ASSUME NEW T \in SUBSET Nat, T # {}
  PROVE  \E x \in T : \A y \in T : x <= y
<1>1. PICK x \in T : \A y \in T : ~(<<y, x>> \in OpToRel(<, Nat))
  BY WFMin, NatLessThanWellFounded
<1>2. OpToRel(<, Nat) = {ss \in Nat \X Nat : ss[1] < ss[2]}
  BY Zenon DEF OpToRel
<1>3. ASSUME NEW y \in T
      PROVE  x <= y
  <2>1. <<y, x>> \notin {ss \in Nat \X Nat : ss[1] < ss[2]}
    BY <1>1, <1>2
  <2> QED BY <2>1
<1> QED BY <1>3

(* What holds at 0, and at each step if it did before, holds at all.       *)
LEMMA StepByStep ==
  ASSUME NEW n \in Nat, NEW S, 0 \in S, \A i \in S : i \in 0 .. n /\ i # n => i + 1 \in S
  PROVE  \A i \in 0 .. n : i \in S
<1>. DEFINE T == {i \in 0 .. n : i \notin S}
<1>1. SUFFICES ASSUME T # {}
               PROVE  FALSE
  OBVIOUS
<1>0. T \in SUBSET Nat
  OBVIOUS
<1>2. PICK i \in T : \A j \in T : i <= j
  <2>. HIDE DEF T
  <2> QED BY <1>0, <1>1, LeastOf
<1>3. i # 0 /\ i - 1 \in 0 .. n /\ i - 1 # n /\ ~(i <= i - 1)
  BY <1>2
<1>4. i - 1 \in S
  BY <1>2, <1>3
<1>5. i - 1 + 1 \in S
  BY <1>3, <1>4
<1> QED BY <1>2, <1>5

Iteration(w, n, S, first, next) ==
  /\ w \in [0 .. n -> S] /\ w[0] = first
  /\ \A i \in 0 .. n : i # n => w[i + 1] = next[w[i]]

(* A step that can always be taken can be taken n times.                   *)
LEMMA Iterates ==
  ASSUME NEW n \in Nat, NEW S, NEW first \in S, NEW next \in [S -> S]
  PROVE  \E w : Iteration(w, n, S, first, next)
<1>. DEFINE Part(w, m) == w[0] = first /\ \A i \in 0 .. m : i # m => w[i + 1] = next[w[i]]
            Done == {m \in 0 .. n : \E w \in [0 .. m -> S] : Part(w, m)}
<1>1. 0 \in Done
  <2>. DEFINE v == [i \in 0 .. 0 |-> first]
  <2>1. v \in [0 .. 0 -> S] /\ v[0] = first
    OBVIOUS
  <2>. HIDE DEF v
  <2>2. Part(v, 0)
    BY <2>1
  <2>. HIDE DEF Part
  <2> QED BY <2>1, <2>2
<1>2. ASSUME NEW m \in Done, m \in 0 .. n, m # n
      PROVE  m + 1 \in Done
  <2>1. PICK w \in [0 .. m -> S] : Part(w, m)
    BY <1>2
  <2>. DEFINE v == [i \in 0 .. m + 1 |-> IF i = m + 1 THEN next[w[m]] ELSE w[i]]
  <2>2. v \in [0 .. m + 1 -> S] /\ v[0] = first
    BY <1>2, <2>1
  <2>3. ASSUME NEW i \in 0 .. m + 1, i # m + 1
        PROVE  v[i + 1] = next[v[i]]
    <3>1. CASE i = m
      <4>1. v[i + 1] = next[w[m]] /\ v[i] = w[m]
        BY <1>2, <3>1
      <4> QED BY <3>1, <4>1
    <3>2. CASE i # m
      <4>1. v[i + 1] = w[i + 1] /\ v[i] = w[i] /\ i \in 0 .. m
        BY <1>2, <2>3, <3>2
      <4>. HIDE DEF v
      <4> QED BY <2>1, <3>2, <4>1
    <3> QED BY <3>1, <3>2
  <2>. HIDE DEF v
  <2>4. Part(v, m + 1)
    BY <2>2, <2>3
  <2>. HIDE DEF Part
  <2> QED BY <1>2, <2>2, <2>4
<1>3. \A m \in 0 .. n : m \in Done
  <2>. HIDE DEF Done
  <2> QED BY <1>1, <1>2, StepByStep
<1>4. PICK w \in [0 .. n -> S] : Part(w, n)
  BY <1>3
<1> QED BY <1>4 DEF Iteration

(***************************************************************************)
(* The renames.                                                            *)
(***************************************************************************)
Length == Cardinality(StableKeys)
Joins(E) == \A e \in E : {e.from, e.to} \subseteq StableKeys

Successor(E, k) == IF Out(E, k) = {} THEN k ELSE (CHOOSE e \in Out(E, k) : TRUE).to

IsWay(w, E, key) ==
  w = [n \in 0 .. Length |->
         IF n = 0 THEN key
         ELSE IF Out(E, w[n - 1]) = {} THEN w[n - 1]
         ELSE (CHOOSE e \in Out(E, w[n - 1]) : TRUE).to]

(* The keys that the worker passes from a key on, in their order.          *)
Way(E, key) == CHOOSE w : IsWay(w, E, key)
Passed(E, key) == {Way(E, key)[n] : n \in 0 .. Length}

(* A way is longer than any chain of keys.                                 *)
LEMMA LengthIsNat == Length \in Nat
BY AliasAssumption, FS_CardinalityType DEF Length

(* There is such a way, of one step after the other, to the sink.          *)
LEMMA Ways ==
  ASSUME NEW E, Joins(E), NEW key \in StableKeys
  PROVE  /\ Way(E, key)[0] = key
         /\ \A n \in 0 .. Length : n # Length =>
              Way(E, key)[n + 1] = Successor(E, Way(E, key)[n])
         /\ Sink(E, key) = Way(E, key)[Length]
<1>. DEFINE N == Length
            next == [k \in StableKeys |-> Successor(E, k)]
<1>1. N \in Nat
  BY LengthIsNat
<1>2. next \in [StableKeys -> StableKeys]
  BY DEF Successor, Out, Joins
<1>. HIDE DEF N, next
<1>3. PICK w : Iteration(w, N, StableKeys, key, next)
  BY <1>1, <1>2, Iterates
<1>4. /\ w \in [0 .. N -> StableKeys] /\ w[0] = key
       /\ \A i \in 0 .. N : i # N => w[i + 1] = next[w[i]]
  BY <1>3 DEF Iteration
<1>5. ASSUME NEW n \in 0 .. N, n # 0
      PROVE  w[n] = Successor(E, w[n - 1])
  <2>1. n - 1 \in 0 .. N /\ n - 1 # N /\ n - 1 + 1 = n
    BY <1>1, <1>5
  <2>2. w[n] = next[w[n - 1]] /\ w[n - 1] \in StableKeys
    BY <1>4, <2>1
  <2> QED BY <2>2 DEF next
<1>6. \A n \in 0 .. N : w[n] = IF n = 0 THEN key
                               ELSE IF Out(E, w[n - 1]) = {} THEN w[n - 1]
                               ELSE (CHOOSE e \in Out(E, w[n - 1]) : TRUE).to
  BY <1>4, <1>5 DEF Successor
<1>7. IsWay(w, E, key)
  BY <1>4, <1>6 DEF IsWay, N
<1>8. IsWay(Way(E, key), E, key)
  BY <1>7 DEF Way
<1>. DEFINE u == Way(E, key)
<1>9. u = [n \in 0 .. N |-> IF n = 0 THEN key
                            ELSE IF Out(E, u[n - 1]) = {} THEN u[n - 1]
                            ELSE (CHOOSE e \in Out(E, u[n - 1]) : TRUE).to]
  BY <1>8 DEF IsWay, N
<1>10. Sink(E, key) = u[N]
  BY DEF Sink, Way, IsWay, N, Length
<1>. HIDE DEF u
<1>11. u[0] = key
  BY <1>1, <1>9
<1>12. ASSUME NEW n \in 0 .. N, n # N
       PROVE  u[n + 1] = Successor(E, u[n])
  <2>1. n + 1 \in 0 .. N /\ n + 1 # 0 /\ n + 1 - 1 = n
    BY <1>1, <1>12
  <2>. DEFINE v == [m \in 0 .. N |-> IF m = 0 THEN key ELSE Successor(E, u[m - 1])]
  <2>2. v[n + 1] = Successor(E, u[n])
    BY <2>1
  <2>3. u = v
    BY <1>9 DEF Successor
  <2> QED BY <2>2, <2>3
<1> QED BY <1>10, <1>11, <1>12 DEF u, N

(* Sets of edges that lead on alike from the keys of a set lead along the  *)
(* same way within it.                                                     *)
LEMMA WaysAgree ==
  ASSUME NEW D, Joins(D), NEW E, Joins(E), NEW S \in SUBSET StableKeys, NEW key \in S,
         \A k \in S : Successor(D, k) = Successor(E, k) /\ Successor(E, k) \in S
  PROVE  /\ Sink(D, key) = Sink(E, key)
         /\ Passed(D, key) = Passed(E, key) /\ Passed(E, key) \subseteq S
<1>. DEFINE v == Way(D, key)
            w == Way(E, key)
            P == {n \in 0 .. Length : v[n] = w[n] /\ w[n] \in S}
<1>1. /\ v[0] = key /\ w[0] = key
      /\ \A n \in 0 .. Length : n # Length =>
           v[n + 1] = Successor(D, v[n]) /\ w[n + 1] = Successor(E, w[n])
      /\ Sink(D, key) = v[Length] /\ Sink(E, key) = w[Length]
  BY Ways
<1>. HIDE DEF v, w
<1>2. Length \in Nat
  BY LengthIsNat
<1>3. 0 \in P
  BY <1>1, <1>2
<1>4. ASSUME NEW n \in P, n \in 0 .. Length, n # Length
      PROVE  n + 1 \in P
  <2>1. v[n + 1] = w[n + 1] /\ w[n + 1] \in S
    BY <1>1, <1>4
  <2> QED BY <1>2, <1>4, <2>1
<1>5. \A n \in 0 .. Length : n \in P
  <2>. HIDE DEF P
  <2> QED BY <1>2, <1>3, <1>4, StepByStep
<1>6. Passed(D, key) = {v[n] : n \in 0 .. Length} /\ Passed(E, key) = {w[n] : n \in 0 .. Length}
  BY DEF Passed, v, w
<1>7. \A n \in 0 .. Length : v[n] = w[n] /\ w[n] \in S
  BY <1>5
<1>8. Sink(D, key) = Sink(E, key)
  BY <1>1, <1>2, <1>7
<1>9. Passed(D, key) = Passed(E, key) /\ Passed(E, key) \subseteq S
  BY <1>6, <1>7
<1> QED BY <1>8, <1>9

-------------------------------------------------------------------------------
(* Every edge of D joins keys that an edge of E joins.                     *)
Within(D, E) == \A d \in D : \E e \in E : e.from = d.from /\ e.to = d.to

(* The one edge that leads on from a key.                                  *)
LEMMA SuccessorOf ==
  ASSUME NEW E, OneToOne(E), NEW e \in E
  PROVE  Successor(E, e.from) = e.to /\ Out(E, e.from) # {}
<1>1. e \in Out(E, e.from)
  BY DEF Out
<1>2. (CHOOSE f \in Out(E, e.from) : TRUE) \in Out(E, e.from)
  BY <1>1
<1>3. \A f \in Out(E, e.from) : f.to = e.to
  BY DEF Out, OneToOne
<1> QED BY <1>1, <1>2, <1>3 DEF Successor

(* A way that has come to an end stays there.                              *)
LEMMA WayStops ==
  ASSUME NEW E, Joins(E), NEW key \in StableKeys, NEW n \in 0 .. Length,
         Out(E, Way(E, key)[n]) = {}
  PROVE  Sink(E, key) = Way(E, key)[n]
<1>. DEFINE w == Way(E, key)
            P == {m \in 0 .. Length : m >= n => w[m] = w[n]}
<1>1. /\ \A m \in 0 .. Length : m # Length => w[m + 1] = Successor(E, w[m])
      /\ Sink(E, key) = w[Length]
  BY Ways
<1>2. Length \in Nat
  BY LengthIsNat
<1>. HIDE DEF w
<1>3. 0 \in P
  BY <1>2
<1>4. ASSUME NEW m \in P, m \in 0 .. Length, m # Length
      PROVE  m + 1 \in P
  <2>1. CASE m + 1 <= n
    BY <1>2, <1>4, <2>1
  <2>2. CASE m >= n
    <3>1. w[m + 1] = w[n]
      BY <1>1, <1>4, <2>2 DEF Successor, w
    <3> QED BY <1>2, <1>4, <3>1
  <2> QED BY <1>2, <1>4, <2>1, <2>2
<1>5. \A m \in 0 .. Length : m \in P
  <2>. HIDE DEF P
  <2> QED BY <1>2, <1>3, <1>4, StepByStep
<1> QED BY <1>1, <1>2, <1>5 DEF w

(* With fewer edges a way is the same, or ends where an edge is missing.   *)
LEMMA ShorterWay ==
  ASSUME NEW D, Joins(D), NEW E, Joins(E), Within(D, E), OneToOne(E), NEW key \in StableKeys
  PROVE  \/ Sink(D, key) = Sink(E, key) /\ Passed(D, key) = Passed(E, key)
         \/ Out(D, Sink(D, key)) = {} /\ Out(E, Sink(D, key)) # {}
<1>. DEFINE v == Way(D, key)
            w == Way(E, key)
            P == {n \in 0 .. Length : \/ \A m \in 0 .. n : v[m] = w[m]
                                      \/ Out(D, v[n]) = {} /\ Out(E, v[n]) # {}}
<1>1. /\ v[0] = key /\ w[0] = key
      /\ \A n \in 0 .. Length : n # Length =>
           v[n + 1] = Successor(D, v[n]) /\ w[n + 1] = Successor(E, w[n])
      /\ Sink(D, key) = v[Length] /\ Sink(E, key) = w[Length]
  BY Ways
<1>2. Length \in Nat
  BY LengthIsNat
<1>3. OneToOne(D)
  BY DEF OneToOne, Within
<1>. HIDE DEF v, w
<1>4. ASSUME NEW k, Out(D, k) # {}
      PROVE  Successor(D, k) = Successor(E, k)
  <2>1. PICK d \in D : d.from = k
    BY <1>4 DEF Out
  <2>2. PICK e \in E : e.from = k /\ e.to = d.to
    BY <2>1 DEF Within
  <2> QED BY <1>3, <2>1, <2>2, SuccessorOf
<1>5. 0 \in P
  BY <1>1, <1>2
<1>6. ASSUME NEW n \in P, n \in 0 .. Length, n # Length
      PROVE  n + 1 \in P
  <2>1. n + 1 \in 0 .. Length /\ n \in 0 .. n /\ \A m \in 0 .. n + 1 : m \in 0 .. n \/ m = n + 1
    BY <1>2, <1>6
  <2>2. v[n + 1] = Successor(D, v[n]) /\ w[n + 1] = Successor(E, w[n])
    BY <1>1, <1>6
  <2>3. CASE Out(D, v[n]) = {} /\ Out(E, v[n]) # {}
    <3>1. v[n + 1] = v[n]
      BY <2>2, <2>3 DEF Successor
    <3> QED BY <2>1, <2>3, <3>1
  <2>4. CASE /\ \A m \in 0 .. n : v[m] = w[m]
             /\ ~(Out(D, v[n]) = {} /\ Out(E, v[n]) # {})
    <3>1. v[n] = w[n]
      BY <2>1, <2>4
    <3>2. v[n + 1] = w[n + 1]
      BY <1>4, <2>2, <2>4, <3>1 DEF Successor
    <3>3. \A m \in 0 .. n + 1 : v[m] = w[m]
      BY <2>1, <2>4, <3>2
    <3> QED BY <2>1, <3>3
  <2> QED BY <1>6, <2>3, <2>4
<1>7. \A n \in 0 .. Length : n \in P
  <2>. HIDE DEF P
  <2> QED BY <1>2, <1>5, <1>6, StepByStep
<1>8. Passed(D, key) = {v[n] : n \in 0 .. Length} /\ Passed(E, key) = {w[n] : n \in 0 .. Length}
  BY DEF Passed, v, w
<1>9. \/ \A n \in 0 .. Length : v[n] = w[n]
      \/ Out(D, v[Length]) = {} /\ Out(E, v[Length]) # {}
  BY <1>2, <1>7
<1>10. CASE \A n \in 0 .. Length : v[n] = w[n]
  <2>1. v[Length] = w[Length]
    BY <1>2, <1>10
  <2>2. Passed(D, key) = Passed(E, key)
    BY <1>8, <1>10
  <2> QED BY <1>1, <2>1, <2>2
<1>11. CASE Out(D, v[Length]) = {} /\ Out(E, v[Length]) # {}
  BY <1>1, <1>11
<1> QED BY <1>9, <1>10, <1>11

(* So renames stay chains when edges are dropped.                          *)
LEMMA FewerStayChains ==
  ASSUME NEW D, Joins(D), NEW E, Joins(E), Within(D, E), OneToOne(E), Acyclic(E)
  PROVE  OneToOne(D) /\ Acyclic(D)
<1>1. OneToOne(D)
  BY DEF OneToOne, Within
<1>2. ASSUME NEW d \in D
      PROVE  Out(D, Sink(D, d.from)) = {}
  <2>1. PICK e \in E : e.from = d.from
    BY DEF Within
  <2>2. Out(E, Sink(E, d.from)) = {}
    BY <2>1 DEF Acyclic
  <2>3. CASE Sink(D, d.from) = Sink(E, d.from)
    <3>1. Out(D, Sink(E, d.from)) = {}
      BY <2>2 DEF Out, Within
    <3> QED BY <2>3, <3>1
  <2>4. d.from \in StableKeys
    BY DEF Joins
  <2> QED BY <2>3, <2>4, ShorterWay
<1> QED BY <1>1, <1>2 DEF Acyclic

-------------------------------------------------------------------------------
Nearer(E, K) == K \cup {e.to : e \in {f \in E : f.from \in K}}
                  \cup {e.from : e \in {f \in E : f.to \in K}}

IsReach(at, E, K) ==
  at = [n \in 0 .. Length |->
          IF n = 0 THEN K
          ELSE at[n - 1] \cup {e.to : e \in {f \in E : f.from \in at[n - 1]}}
                         \cup {e.from : e \in {f \in E : f.to \in at[n - 1]}}]
Reach(E, K) == CHOOSE at : IsReach(at, E, K)

Closed(E, K) == \A e \in E : e.from \in K <=> e.to \in K

(* As many steps as there are keys reach all there is to reach.            *)
LEMMA ReachedIsClosed ==
  ASSUME NEW E, Joins(E), NEW K \in SUBSET StableKeys
  PROVE  /\ K \subseteq Reached(E, K) /\ Reached(E, K) \subseteq StableKeys
         /\ Closed(E, Reached(E, K))
<1>. DEFINE N == Length
            next == [S \in SUBSET StableKeys |-> Nearer(E, S)]
<1>1. N \in Nat
  BY LengthIsNat
<1>2. next \in [SUBSET StableKeys -> SUBSET StableKeys]
  <2>1. ASSUME NEW S \in SUBSET StableKeys
        PROVE  Nearer(E, S) \in SUBSET StableKeys
    BY DEF Nearer, Joins
  <2> QED BY <2>1
<1>. HIDE DEF N, next
<1>3. PICK w : Iteration(w, N, SUBSET StableKeys, K, next)
  BY <1>1, <1>2, Iterates
<1>4. /\ w \in [0 .. N -> SUBSET StableKeys] /\ w[0] = K
      /\ \A i \in 0 .. N : i # N => w[i + 1] = next[w[i]]
  BY <1>3 DEF Iteration
<1>5. ASSUME NEW n \in 0 .. N, n # 0
      PROVE  w[n] = Nearer(E, w[n - 1])
  <2>1. n - 1 \in 0 .. N /\ n - 1 # N /\ n - 1 + 1 = n
    BY <1>1, <1>5
  <2>2. w[n] = next[w[n - 1]] /\ w[n - 1] \in SUBSET StableKeys
    BY <1>4, <2>1
  <2> QED BY <2>2 DEF next
<1>6. \A n \in 0 .. N : w[n] = IF n = 0 THEN K ELSE Nearer(E, w[n - 1])
  BY <1>4, <1>5
<1>7. IsReach(w, E, K)
  BY <1>4, <1>6 DEF IsReach, N, Nearer
<1>8. IsReach(Reach(E, K), E, K)
  BY <1>7 DEF Reach
<1>. DEFINE u == Reach(E, K)
<1>9. u = [n \in 0 .. N |-> IF n = 0 THEN K ELSE Nearer(E, u[n - 1])]
  BY <1>8 DEF IsReach, N, Nearer
<1>10. Reached(E, K) = u[N]
  BY DEF Reached, Reach, IsReach, N, Length
<1>. HIDE DEF u
<1>11. u[0] = K
  BY <1>1, <1>9
<1>12. ASSUME NEW n \in 0 .. N, n # N
       PROVE  u[n + 1] = Nearer(E, u[n])
  <2>1. n + 1 \in 0 .. N /\ n + 1 # 0 /\ n + 1 - 1 = n
    BY <1>1, <1>12
  <2>. DEFINE v == [m \in 0 .. N |-> IF m = 0 THEN K ELSE Nearer(E, u[m - 1])]
  <2>2. v[n + 1] = Nearer(E, u[n])
    BY <2>1
  <2>3. u = v
    BY <1>9
  <2> QED BY <2>2, <2>3
<1>. DEFINE P == {n \in 0 .. N : /\ K \subseteq u[n] /\ u[n] \subseteq StableKeys
                                 /\ Closed(E, u[n]) \/ Cardinality(u[n]) > n}
<1>13. IsFiniteSet(StableKeys)
  BY AliasAssumption
<1>14. 0 \in P
  <2>1. CASE K = {}
    <3>1. Closed(E, K)
      BY <2>1 DEF Closed
    <3> QED BY <1>1, <1>11, <3>1
  <2>2. CASE K # {}
    <3>1. Cardinality(K) > 0
      <4>1. IsFiniteSet(K)
        BY <1>13, FS_Subset
      <4>2. Cardinality(K) \in Nat /\ Cardinality(K) # 0
        BY <2>2, <4>1, FS_CardinalityType, FS_EmptySet
      <4> QED BY <4>2
    <3> QED BY <1>1, <1>11, <3>1
  <2> QED BY <2>1, <2>2
<1>15. ASSUME NEW n \in P, n \in 0 .. N, n # N
       PROVE  n + 1 \in P
  <2>. DEFINE S == u[n]
              T == Nearer(E, S)
  <2>1. /\ K \subseteq S /\ S \subseteq StableKeys
        /\ Closed(E, S) \/ Cardinality(S) > n
    BY <1>15
  <2>2. u[n + 1] = T /\ n + 1 \in 0 .. N
    BY <1>1, <1>12, <1>15
  <2>. HIDE DEF S
  <2>3. S \subseteq T /\ T \subseteq StableKeys
    BY <2>1 DEF Nearer, Joins
  <2>4. CASE Closed(E, S)
    <3>1. T = S
      BY <2>4 DEF Closed, Nearer
    <3> QED BY <2>1, <2>2, <2>4, <3>1
  <2>5. CASE ~Closed(E, S) /\ Cardinality(S) > n
    <3>1. S # T
      BY <2>5 DEF Closed, Nearer
    <3>2. IsFiniteSet(T) /\ IsFiniteSet(S)
      BY <1>13, <2>1, <2>3, FS_Subset
    <3>. HIDE DEF T
    <3>3. Cardinality(S) < Cardinality(T)
      <4>1. Cardinality(S) <= Cardinality(T)
        BY <2>3, <3>2, FS_Subset
      <4>2. Cardinality(S) # Cardinality(T)
        BY <2>3, <3>1, <3>2, FS_Subset
      <4> QED BY <3>2, <4>1, <4>2, FS_CardinalityType
    <3>4. Cardinality(T) > n + 1
      BY <1>1, <2>5, <3>2, <3>3, FS_CardinalityType
    <3> QED BY <2>1, <2>2, <2>3, <3>4
  <2> QED BY <2>1, <2>4, <2>5
<1>16. N \in P
  <2>1. \A n \in 0 .. N : n \in P
    <3>. HIDE DEF P
    <3> QED BY <1>1, <1>14, <1>15, StepByStep
  <2> QED BY <1>1, <2>1
<1>17. ~(Cardinality(u[N]) > N)
  <2>1. u[N] \subseteq StableKeys
    BY <1>16
  <2>2. Cardinality(u[N]) <= Cardinality(StableKeys) /\ IsFiniteSet(u[N])
    BY <1>13, <2>1, FS_Subset
  <2> QED BY <1>1, <2>2, FS_CardinalityType DEF N, Length
<1> QED BY <1>10, <1>16, <1>17

-------------------------------------------------------------------------------
(* The edges once a whole batch is imported.                               *)
Whole(E, B) == {e \in E : \A b \in B : ~SameEdge(e, b)} \cup Rows(B)

(* An edge names its root, or a row that is still owed begins on its way.  *)
Rooted(E, e, O) == \/ e.canonical = Sink(E, e.from)
                   \/ \E r \in O : r.from \in Passed(E, e.from)
Standing(E, O) == \A e \in E : Rooted(E, e, O)

(* A batch says itself how its own edges go on.                            *)
SaysHow(B, E) == \A b \in B, e \in E : e.from = b.to => \E c \in B : c.from = b.to

AliasRows == [rel : ReleaseIds, from : StableKeys, to : StableKeys, canonical : StableKeys]

(* The rows of a batch, one for every edge of it.                          *)
LEMMA RowFacts ==
  ASSUME NEW B \in SUBSET Declarable(KeysIn)
  PROVE  /\ Rows(B) \subseteq AliasRows /\ KeysOf(B) \subseteq StableKeys
         /\ \A b \in B : /\ Row(b) \in Rows(B) /\ Row(b).rel = b.rel /\ Row(b).from = b.from
                         /\ Row(b).to = b.to /\ Row(b).canonical = b.canonical
         /\ \A r \in Rows(B) : \E b \in B : r = Row(b)
         /\ Joins(B)
<1>1. ASSUME NEW b \in B
      PROVE  /\ b.rel \in ReleaseIds /\ b.from \in StableKeys /\ b.to \in StableKeys
             /\ b.canonical \in StableKeys
  <2>1. PICK p \in Presented(KeysIn), q \in Presented(KeysIn), r \in StableKeys :
          b = [rel |-> p[1], from |-> p[2], toRel |-> q[1], to |-> q[2], canonical |-> r]
    BY DEF Declarable
  <2> QED BY <2>1 DEF Presented
<1>2. Rows(B) \subseteq AliasRows
  BY <1>1 DEF Rows, Row, AliasRows
<1>3. KeysOf(B) \subseteq StableKeys
  BY <1>1 DEF KeysOf
<1>4. Joins(B)
  BY <1>1 DEF Joins
<1> QED BY <1>2, <1>3, <1>4 DEF Rows, Row

(* Stored edges join stable keys.                                          *)
LEMMA RowsJoin == ASSUME NEW E \in SUBSET AliasRows PROVE Joins(E)
BY DEF AliasRows, Joins

(* Edges that nothing dropped has led to go on as they did.                *)
LEMMA DroppedFromTheStart ==
  ASSUME NEW E, Joins(E), OneToOne(E), NEW D \in SUBSET E,
         \A d \in D, e \in E : e.from = d.to => Out(D, d.to) # {},
         NEW O, Standing(E, O)
  PROVE  Standing(D, O)
<1>. DEFINE S == {d.from : d \in D} \cup {d.to : d \in D}
<1>1. OneToOne(D) /\ Joins(D) /\ S \in SUBSET StableKeys
  BY DEF OneToOne, Joins
<1>2. ASSUME NEW d \in D
      PROVE  Successor(D, d.from) = Successor(E, d.from) /\ Successor(E, d.from) \in S
  BY <1>1, SuccessorOf
<1>3. ASSUME NEW d \in D
      PROVE  Successor(D, d.to) = Successor(E, d.to) /\ Successor(E, d.to) \in S
  <2>1. CASE \E c \in D : c.from = d.to
    BY <1>2, <2>1
  <2>2. CASE ~\E c \in D : c.from = d.to
    <3>1. Out(D, d.to) = {}
      BY <2>2 DEF Out
    <3>2. Out(E, d.to) = {}
      BY <3>1 DEF Out
    <3> QED BY <3>1, <3>2 DEF Successor
  <2> QED BY <2>1, <2>2
<1>4. \A k \in S : Successor(D, k) = Successor(E, k) /\ Successor(E, k) \in S
  BY <1>2, <1>3
<1>5. ASSUME NEW d \in D
      PROVE  Rooted(D, d, O)
  <2>1. d.from \in S
    OBVIOUS
  <2>. HIDE DEF S
  <2>2. Sink(D, d.from) = Sink(E, d.from) /\ Passed(D, d.from) = Passed(E, d.from)
    BY <1>1, <1>4, <2>1, WaysAgree
  <2>3. Rooted(E, d, O)
    BY DEF Standing
  <2> QED BY <2>2, <2>3 DEF Rooted
<1> QED BY <1>5 DEF Standing

-------------------------------------------------------------------------------
(* What the gate has seen: whole, the batch keeps the renames chains, and  *)
(* every edge it touches names its root.                                   *)
LEMMA GateHolds ==
  ASSUME NEW E \in SUBSET AliasRows, OneToOne(E), Acyclic(E),
         NEW B \in SUBSET Declarable(KeysIn), ValidBatch(B), FitsStored(E, B)
  PROVE  /\ OneToOne(Whole(E, B)) /\ Acyclic(Whole(E, B)) /\ SaysHow(B, E)
         /\ \A O : Standing(E, O) => Standing(Whole(E, B), O \ Rows(B))
<1>. DEFINE R == Reached(E, KeysOf(B))
            far == {e \in E : e.from \in R /\ \A b \in B : ~SameEdge(e, b)}
            all == far \cup Rows(B)
            U == Whole(E, B)
<1>1. /\ Joins(E) /\ Joins(B) /\ Rows(B) \subseteq AliasRows /\ KeysOf(B) \subseteq StableKeys
      /\ \A b \in B : /\ Row(b) \in Rows(B) /\ Row(b).rel = b.rel /\ Row(b).from = b.from
                      /\ Row(b).to = b.to /\ Row(b).canonical = b.canonical
      /\ \A r \in Rows(B) : \E b \in B : r = Row(b)
  BY RowFacts, RowsJoin
<1>2. KeysOf(B) \subseteq R /\ R \subseteq StableKeys /\ Closed(E, R)
  BY <1>1, ReachedIsClosed
<1>3. OneToOne(all) /\ Acyclic(all) /\ EndsAtItsRoot(all)
  BY DEF FitsStored
<1>4. all \subseteq AliasRows /\ U \subseteq AliasRows /\ Joins(all) /\ Joins(U) /\ all \subseteq U
  <2>1. all \subseteq AliasRows /\ U \subseteq AliasRows /\ all \subseteq U
    BY <1>1 DEF Whole
  <2> QED BY <2>1, RowsJoin
<1>5. \A b \in B : b.from \in R /\ b.to \in R
  BY <1>2 DEF KeysOf
<1>6. \A e \in all : e.from \in R /\ e.to \in R
  <2>1. \A e \in Rows(B) : e.from \in R /\ e.to \in R
    BY <1>1, <1>5
  <2>2. \A e \in far : e.from \in R /\ e.to \in R
    BY <1>2 DEF Closed
  <2> QED BY <2>1, <2>2
<1>7. \A e \in U : e \notin all => e \in E /\ e.from \notin R /\ e.to \notin R
  BY <1>2 DEF Whole, Closed
<1>8. \A e \in E : e.from \notin R => e \in U
  BY <1>5 DEF Whole, SameEdge
<1>. HIDE DEF R, all, U
<1>9. OneToOne(U)
  <2>1. ASSUME NEW e \in U, NEW f \in U
        PROVE  (e.from = f.from) <=> (e.to = f.to)
    <3>1. CASE e \in all /\ f \in all
      BY <1>3, <3>1 DEF OneToOne
    <3>2. CASE e \notin all /\ f \notin all
      BY <1>7, <3>2 DEF OneToOne
    <3>3. CASE e \in all /\ f \notin all
      BY <1>6, <1>7, <3>3
    <3>4. CASE e \notin all /\ f \in all
      BY <1>6, <1>7, <3>4
    <3> QED BY <3>1, <3>2, <3>3, <3>4
  <2> QED BY <2>1 DEF OneToOne
(* Reached keys: as in the union that the gate has looked at.              *)
<1>10. ASSUME NEW k \in R
       PROVE  Sink(U, k) = Sink(all, k)
  <2>1. ASSUME NEW l \in R
        PROVE  Successor(U, l) = Successor(all, l) /\ Successor(all, l) \in R
    <3>1. Out(U, l) = Out(all, l)
      BY <1>4, <1>7 DEF Out
    <3>2. Successor(all, l) \in R
      BY <1>6 DEF Successor, Out
    <3> QED BY <3>1, <3>2 DEF Successor
  <2> QED BY <1>2, <1>4, <2>1, WaysAgree
(* The others: as they are stored.                                         *)
<1>11. ASSUME NEW k \in StableKeys \ R
       PROVE  /\ Sink(U, k) = Sink(E, k) /\ Passed(U, k) = Passed(E, k)
              /\ Passed(E, k) \cap R = {}
  <2>. DEFINE S == StableKeys \ R
  <2>1. ASSUME NEW l \in S
        PROVE  Successor(U, l) = Successor(E, l) /\ Successor(E, l) \in S
    <3>1. Out(U, l) = Out(E, l)
      BY <1>6, <1>7, <1>8 DEF Out
    <3>2. Successor(E, l) \in S
      BY <1>1, <1>2 DEF Successor, Out, Closed, Joins
    <3> QED BY <3>1, <3>2 DEF Successor
  <2>2. S \in SUBSET StableKeys /\ k \in S /\ S \cap R = {}
    OBVIOUS
  <2>. HIDE DEF S
  <2> QED BY <1>1, <1>4, <2>1, <2>2, WaysAgree
<1>12. Acyclic(U)
  <2>1. ASSUME NEW e \in U
        PROVE  Out(U, Sink(U, e.from)) = {}
    <3>1. CASE e \in all
      <4>1. Sink(U, e.from) = Sink(all, e.from) /\ Out(all, Sink(all, e.from)) = {}
        BY <1>3, <1>6, <1>10, <3>1 DEF Acyclic
      <4>2. Sink(all, e.from) \in R
        <5>1. \A l \in R : Successor(all, l) = Successor(all, l) /\ Successor(all, l) \in R
          BY <1>6 DEF Successor, Out
        <5>2. Passed(all, e.from) \subseteq R
          BY <1>2, <1>4, <1>6, <3>1, <5>1, WaysAgree
        <5>3. Sink(all, e.from) \in Passed(all, e.from)
          <6>1. e.from \in StableKeys
            BY <1>4 DEF Joins
          <6> QED BY <1>4, <6>1, Ways, LengthIsNat DEF Passed
        <5> QED BY <5>2, <5>3
      <4> QED BY <1>7, <4>1, <4>2 DEF Out
    <3>2. CASE e \notin all
      <4>1. e \in E /\ e.from \in StableKeys \ R
        BY <1>1, <1>7, <3>2 DEF Joins
      <4>2. Sink(U, e.from) = Sink(E, e.from) /\ Out(E, Sink(E, e.from)) = {}
        BY <1>11, <4>1 DEF Acyclic
      <4>3. Sink(E, e.from) \notin R
        <5>1. Sink(E, e.from) \in Passed(E, e.from)
          BY <1>1, <4>1, Ways, LengthIsNat DEF Passed
        <5> QED BY <1>11, <4>1, <5>1
      <4> QED BY <1>6, <1>7, <4>2, <4>3 DEF Out
    <3> QED BY <3>1, <3>2
  <2> QED BY <2>1 DEF Acyclic
<1>13. SaysHow(B, E)
  <2>1. ASSUME NEW b \in B, NEW e \in E, e.from = b.to, ~\E c \in B : c.from = b.to
        PROVE  FALSE
    <3>1. OneToOne(B) /\ EndsAtItsRoot(B) /\ b.from # b.to
      BY DEF ValidBatch
    <3>2. b.from \in StableKeys /\ Out(B, b.to) = {}
      BY <1>1, <2>1 DEF Out, Joins
    <3>3. 1 \in 0 .. Length /\ 0 \in 0 .. Length /\ 0 # Length
      <4>1. Length # 0
        BY <3>2, AliasAssumption, FS_EmptySet DEF Length
      <4> QED BY <4>1, LengthIsNat
    <3>4. Way(B, b.from)[1] = b.to
      <4>1. Way(B, b.from)[0] = b.from
        BY <1>1, <3>2, Ways
      <4>2. Way(B, b.from)[0 + 1] = Successor(B, Way(B, b.from)[0])
        BY <1>1, <3>2, <3>3, Ways
      <4>3. Successor(B, b.from) = b.to
        BY <3>1, SuccessorOf
      <4> QED BY <4>1, <4>2, <4>3
    <3>5. Sink(B, b.from) = b.to
      BY <1>1, <3>2, <3>3, <3>4, WayStops
    <3>6. Row(b) \in all /\ Row(b).canonical = b.to /\ Row(b).from = b.from
      BY <1>1, <3>1, <3>5 DEF EndsAtItsRoot, all
    <3>7. Sink(all, b.from) = b.to /\ Out(all, b.to) = {}
      BY <1>3, <3>6 DEF EndsAtItsRoot, Acyclic
    <3>8. e.from \in R
      BY <1>5, <2>1
    <3>9. CASE \A c \in B : ~SameEdge(e, c)
      BY <2>1, <3>7, <3>8, <3>9 DEF all, Out
    <3>10. CASE \E c \in B : SameEdge(e, c)
      BY <2>1, <3>10 DEF SameEdge
    <3> QED BY <3>9, <3>10
  <2> QED BY <2>1 DEF SaysHow
<1>14. ASSUME NEW O, Standing(E, O), NEW e \in U
       PROVE  Rooted(U, e, O \ Rows(B))
  <2>1. CASE e \in all
    <3>1. e.canonical = Sink(all, e.from)
      BY <1>3, <2>1 DEF EndsAtItsRoot
    <3> QED BY <1>6, <1>10, <2>1, <3>1 DEF Rooted
  <2>2. CASE e \notin all
    <3>1. e \in E /\ e.from \in StableKeys \ R
      BY <1>1, <1>7, <2>2 DEF Joins
    <3>2. Rooted(E, e, O)
      BY <1>14, <3>1 DEF Standing
    <3>3. ASSUME NEW r \in O, r.from \in Passed(E, e.from)
          PROVE  r \notin Rows(B)
      <4>1. r.from \notin R
        BY <1>11, <3>1, <3>3
      <4> QED BY <1>1, <1>5, <4>1
    <3> QED BY <1>11, <3>1, <3>2, <3>3 DEF Rooted
  <2> QED BY <2>1, <2>2
<1>15. \A O : Standing(E, O) => Standing(U, O \ Rows(B))
  BY <1>14 DEF Standing
<1> QED BY <1>9, <1>12, <1>13, <1>15 DEF U

-------------------------------------------------------------------------------
ImportRows ==
  [at : {"none", "ends", "progress", "import"},
   batch : {B \in SUBSET Declarable(KeysIn) : ValidBatch(B)},
   todo : SUBSET AliasRows, remote : BOOLEAN]

HistoryRows == [owed : SUBSET AliasRows, overtaken : BOOLEAN, cut : BOOLEAN]

AliasTypes ==
  /\ edges \subseteq AliasRows /\ import \in ImportRows /\ history \in HistoryRows
  /\ import.todo \subseteq Rows(import.batch)
  /\ import.at = "import" /\ ~import.remote => import.todo = Rows(import.batch)

(* Stored and with the batch under way, the renames are chains.            *)
StayChains ==
  /\ OneToOne(edges) /\ Acyclic(edges)
  /\ OneToOne(Whole(edges, import.batch)) /\ Acyclic(Whole(edges, import.batch))
  /\ SaysHow(import.batch, edges)

(* No row of the batch is stored yet.                                      *)
Untouched == import.at # "import" \/ import.todo = Rows(import.batch)

(* Every edge names its root or is on the way to a row that is owed, now   *)
(* unless rows of the batch are stored, and once they all are.             *)
RootsStand ==
  /\ Standing(Whole(edges, import.batch), history.owed \ Rows(import.batch))
  /\ Untouched => Standing(edges, history.owed)
  /\ import.at = "import" =>
       \A r \in Rows(import.batch) \ import.todo :
         r \in edges /\ \A e \in edges : SameEdge(e, r) => e = r

(* No edge leads on from a row of the learner, or is about to.             *)
ProgressStands ==
  /\ \A k \in progress : Out(edges, k) = {}
  /\ import.at = "import" => \A b \in import.batch : b.from \notin progress

AliasInv ==
  /\ AliasTypes /\ StayChains
  /\ ~history.cut => RootsStand
  /\ ~history.overtaken => ProgressStands

(* No import is an import of nothing.                                      *)
LEMMA NothingDeclared ==
  /\ NoImport \in ImportRows /\ NoImport.batch = {} /\ NoImport.todo = {} /\ NoImport.at = "none"
  /\ Rows({}) = {} /\ \A E : Whole(E, {}) = E /\ SaysHow({}, E)
<1>1. ValidBatch({})
  BY DEF ValidBatch, OneToOne, Acyclic, EndsAtItsRoot
<1>2. Rows({}) = {}
  BY DEF Rows
<1> QED BY <1>1, <1>2 DEF NoImport, ImportRows, Whole, SaysHow

(* More rows owed, no less an excuse.                                      *)
LEMMA MoreOwed ==
  ASSUME NEW E, NEW O, NEW P, O \subseteq P, Standing(E, O)
  PROVE  Standing(E, P)
BY DEF Standing, Rooted

(* Rows of a batch that join the same keys are the same.                   *)
LEMMA RowsOfABatch ==
  ASSUME NEW B \in SUBSET Declarable(KeysIn), ValidBatch(B), NEW r \in Rows(B), NEW s \in Rows(B),
         SameEdge(r, s)
  PROVE  r = s
<1>1. PICK b \in B : r = Row(b)
  BY RowFacts
<1>2. PICK c \in B : s = Row(c)
  BY RowFacts
<1>3. /\ r.rel = b.rel /\ r.from = b.from /\ r.to = b.to /\ r.canonical = b.canonical
      /\ s.rel = c.rel /\ s.from = c.from /\ s.to = c.to /\ s.canonical = c.canonical
  BY <1>1, <1>2, RowFacts
<1>4. b.canonical = Sink(B, b.from) /\ c.canonical = Sink(B, c.from)
  BY DEF ValidBatch, EndsAtItsRoot
<1>5. b.rel = c.rel /\ b.from = c.from /\ b.to = c.to /\ b.canonical = c.canonical
  BY <1>3, <1>4 DEF SameEdge
<1> QED BY <1>1, <1>2, <1>5 DEF Row

(* An activation that ends with nothing more to import.                    *)
LEMMA ImportOver ==
  ASSUME AliasInv, import' = NoImport, history' \in HistoryRows,
         history'.cut = history.cut, history'.overtaken = history.overtaken,
         UNCHANGED progress, edges' \subseteq AliasRows, OneToOne(edges'), Acyclic(edges'),
         ~history.cut => Standing(edges', history'.owed),
         ~history.overtaken => \A k \in progress : Out(edges', k) = {}
  PROVE  AliasInv'
<1>1. /\ import'.at = "none" /\ import'.batch = {} /\ import'.todo = {} /\ import' \in ImportRows
      /\ Rows({}) = {} /\ Whole(edges', {}) = edges' /\ SaysHow({}, edges')
  BY NothingDeclared
<1>2. AliasTypes'
  BY <1>1 DEF AliasTypes
<1>3. StayChains'
  BY <1>1 DEF StayChains
<1>4. ASSUME ~history'.cut
      PROVE  RootsStand'
  <2>1. history'.owed \ {} = history'.owed
    OBVIOUS
  <2> QED BY <1>1, <1>4, <2>1 DEF RootsStand
<1>5. ASSUME ~history'.overtaken
      PROVE  ProgressStands'
  BY <1>1, <1>5 DEF ProgressStands
<1> QED BY <1>2, <1>3, <1>4, <1>5 DEF AliasInv

(* An import that ends before its first row leaves all as it was.          *)
LEMMA ImportGivenUp ==
  ASSUME AliasInv, import' = NoImport, UNCHANGED <<edges, progress, history>>, Untouched
  PROVE  AliasInv'
BY ImportOver DEF AliasInv, AliasTypes, StayChains, RootsStand, ProgressStands

(* No edge, no progress and no import to begin with.                       *)
LEMMA InitiallyNoRenames == AliasInit => AliasInv
<1> SUFFICES ASSUME AliasInit
             PROVE  AliasInv
  OBVIOUS
<1>1. /\ edges = {} /\ progress = {} /\ import = NoImport
      /\ history = [owed |-> {}, overtaken |-> FALSE, cut |-> FALSE]
  BY DEF AliasInit
<1>2. OneToOne({}) /\ Acyclic({}) /\ \A O : Standing({}, O)
  BY DEF OneToOne, Acyclic, Standing
<1>3. AliasTypes
  BY <1>1, NothingDeclared DEF AliasTypes, HistoryRows
<1>4. StayChains
  BY <1>1, <1>2, NothingDeclared DEF StayChains
<1>5. RootsStand
  BY <1>1, <1>2, NothingDeclared DEF RootsStand
<1>6. ProgressStands
  BY <1>1, NothingDeclared DEF ProgressStands
<1> QED BY <1>3, <1>4, <1>5, <1>6 DEF AliasInv

(* A batch that fits what is stored: the chains it makes are valid.        *)
LEMMA DeclareKeeps ==
  ASSUME AliasInv, NEW B \in Batches, NEW remote \in BOOLEAN, Declare(B, remote)
  PROVE  AliasInv'
<1>1. B \in SUBSET Declarable(KeysIn) /\ ValidBatch(B)
  BY DEF Batches, BatchesOf
<1>2. /\ import = NoImport /\ FitsStored(edges, B) /\ UNCHANGED <<edges, progress, history>>
      /\ import' = [at |-> "ends", batch |-> B, todo |-> {}, remote |-> remote]
  BY DEF Declare
<1>3. /\ edges \in SUBSET AliasRows /\ OneToOne(edges) /\ Acyclic(edges)
      /\ history \in HistoryRows
  BY DEF AliasInv, AliasTypes, StayChains
<1>4. /\ OneToOne(Whole(edges, B)) /\ Acyclic(Whole(edges, B)) /\ SaysHow(B, edges)
      /\ \A O : Standing(edges, O) => Standing(Whole(edges, B), O \ Rows(B))
  BY <1>1, <1>2, <1>3, GateHolds
<1>5. /\ import'.at = "ends" /\ import'.batch = B /\ import'.todo = {} /\ import' \in ImportRows
  BY <1>1, <1>2 DEF ImportRows
<1>6. AliasTypes'
  BY <1>2, <1>3, <1>5 DEF AliasTypes
<1>7. StayChains'
  BY <1>2, <1>3, <1>4, <1>5 DEF StayChains
<1>8. ASSUME ~history'.cut
      PROVE  RootsStand'
  <2>1. Standing(edges, history.owed)
    BY <1>2, <1>8, NothingDeclared DEF AliasInv, RootsStand, Untouched
  <2> QED BY <1>2, <1>4, <1>5, <2>1 DEF RootsStand
<1>9. ASSUME ~history'.overtaken
      PROVE  ProgressStands'
  BY <1>2, <1>5, <1>9 DEF AliasInv, ProgressStands
<1> QED BY <1>6, <1>7, <1>8, <1>9 DEF AliasInv

(* The checks of an import only read.                                      *)
LEMMA LooksKeep ==
  ASSUME AliasInv, LookAtEnds \/ LookAtProgress
  PROVE  AliasInv'
<1>1. UNCHANGED <<edges, progress, history>>
  BY DEF LookAtEnds, LookAtProgress
<1>2. import.at \in {"ends", "progress"}
  BY DEF LookAtEnds, LookAtProgress
<1>3. CASE import' = NoImport
  BY <1>1, <1>2, <1>3, ImportGivenUp DEF Untouched
<1>4. CASE \/ import' = [import EXCEPT !.at = "progress"]
           \/ /\ import' = [import EXCEPT !.at = "import", !.todo = Rows(import.batch)]
              /\ NoCollision(import.batch)
  <2>. DEFINE B == import.batch
  <2>1. /\ import \in ImportRows /\ B \in SUBSET Declarable(KeysIn) /\ ValidBatch(B)
        /\ Rows(B) \subseteq AliasRows
    BY RowFacts DEF AliasInv, AliasTypes, ImportRows
  <2>2. /\ import' \in ImportRows /\ import'.batch = B
        /\ \/ import'.at = "progress" /\ import'.todo = import.todo
           \/ import'.at = "import" /\ import'.todo = Rows(B) /\ NoCollision(B)
    BY <1>4, <2>1 DEF ImportRows
  <2>. HIDE DEF B
  <2>3. AliasTypes'
    BY <1>1, <2>1, <2>2 DEF AliasInv, AliasTypes, B
  <2>4. StayChains'
    BY <1>1, <2>2 DEF AliasInv, StayChains, B
  <2>5. ASSUME ~history'.cut
        PROVE  RootsStand'
    <3>1. Standing(edges, history.owed) /\ Standing(Whole(edges, B), history.owed \ Rows(B))
      BY <1>1, <1>2, <2>5 DEF AliasInv, RootsStand, Untouched, B
    <3>2. import'.at = "import" => import'.todo = Rows(import'.batch)
      BY <2>2
    <3> QED BY <1>1, <2>2, <3>1, <3>2 DEF RootsStand
  <2>6. ASSUME ~history'.overtaken
        PROVE  ProgressStands'
    <3>1. \A k \in progress : Out(edges, k) = {}
      BY <1>1, <2>6 DEF AliasInv, ProgressStands
    <3>2. ASSUME NoCollision(B), NEW b \in B
          PROVE  b.from \notin progress
      <4>1. b.canonical = Sink(B, b.from) /\ Out(B, Sink(B, b.from)) = {} /\ b \in Out(B, b.from)
        BY <2>1 DEF ValidBatch, EndsAtItsRoot, Acyclic, Out
      <4>2. b.from # b.canonical
        BY <4>1
      <4> QED BY <3>2, <4>2 DEF NoCollision
    <3> QED BY <1>1, <2>2, <3>1, <3>2 DEF ProgressStands
  <2> QED BY <2>3, <2>4, <2>5, <2>6 DEF AliasInv
<1> QED BY <1>3, <1>4 DEF LookAtEnds, LookAtProgress

(* All rows at once, in the transaction of the local activation.           *)
LEMMA ImportLocallyKeeps ==
  ASSUME AliasInv, ImportLocally
  PROVE  AliasInv'
<1>. DEFINE B == import.batch
            U == Whole(edges, B)
<1>1. /\ import.at = "import" /\ ~import.remote /\ import' = NoImport /\ UNCHANGED progress
      /\ import.todo = Rows(B) /\ B \in SUBSET Declarable(KeysIn)
  BY DEF ImportLocally, Switches, AliasInv, AliasTypes, ImportRows
<1>2. CASE UNCHANGED <<edges, history>>
  BY <1>1, <1>2, ImportGivenUp DEF Untouched
<1>3. CASE /\ edges' = {e \in edges : \A row \in import.todo : ~SameEdge(e, row)} \cup import.todo
           /\ history' = [history EXCEPT !.owed = @ \ import.todo]
  <2>1. /\ Rows(B) \subseteq AliasRows
        /\ \A b \in B : /\ Row(b) \in Rows(B) /\ Row(b).rel = b.rel /\ Row(b).from = b.from
                        /\ Row(b).to = b.to
        /\ \A r \in Rows(B) : \E b \in B : r = Row(b)
    BY <1>1, RowFacts
  <2>2. edges' = U
    BY <1>1, <1>3, <2>1 DEF Whole, SameEdge
  <2>3. /\ history' \in HistoryRows /\ history'.cut = history.cut
        /\ history'.overtaken = history.overtaken /\ history'.owed = history.owed \ Rows(B)
    BY <1>1, <1>3 DEF AliasInv, AliasTypes, HistoryRows
  <2>4. edges' \subseteq AliasRows
    BY <2>1, <2>2 DEF AliasInv, AliasTypes, Whole
  <2>5. OneToOne(edges') /\ Acyclic(edges')
    BY <2>2 DEF AliasInv, StayChains
  <2>6. ~history.cut => Standing(edges', history'.owed)
    BY <2>2, <2>3 DEF AliasInv, RootsStand
  <2>7. ASSUME ~history.overtaken, NEW k \in progress
        PROVE  Out(edges', k) = {}
    <3>1. Out(edges, k) = {} /\ \A b \in B : b.from \notin progress
      BY <1>1, <2>7 DEF AliasInv, ProgressStands
    <3> QED BY <2>1, <2>2, <3>1 DEF Out, Whole
  <2> QED BY <1>1, <2>3, <2>4, <2>5, <2>6, <2>7, ImportOver
<1> QED BY <1>2, <1>3 DEF ImportLocally

(* One row after the other: those still to come are owed.                  *)
LEMMA ImportRowKeeps ==
  ASSUME AliasInv, NEW row \in import.todo, ImportRow(row)
  PROVE  AliasInv'
<1>. DEFINE B == import.batch
            U == Whole(edges, B)
<1>1. /\ import \in ImportRows /\ history \in HistoryRows /\ edges \subseteq AliasRows
      /\ B \in SUBSET Declarable(KeysIn) /\ ValidBatch(B)
      /\ row \in Rows(B) /\ import.todo \subseteq Rows(B)
  BY DEF AliasInv, AliasTypes, ImportRows
<1>2. /\ import.at = "import" /\ import.remote /\ UNCHANGED progress
      /\ edges' = {e \in edges : ~SameEdge(e, row)} \cup {row}
      /\ import' = [import EXCEPT !.todo = @ \ {row}]
      /\ history' = [history EXCEPT !.owed = @ \ {row}]
  BY DEF ImportRow, Upserts
<1>3. /\ import' \in ImportRows /\ import'.at = "import" /\ import'.batch = B
      /\ import'.remote /\ import'.todo = import.todo \ {row}
      /\ history' \in HistoryRows /\ history'.cut = history.cut
      /\ history'.overtaken = history.overtaken /\ history'.owed = history.owed \ {row}
  BY <1>1, <1>2 DEF ImportRows, HistoryRows
<1>4. /\ Rows(B) \subseteq AliasRows
      /\ \A b \in B : /\ Row(b) \in Rows(B) /\ Row(b).rel = b.rel /\ Row(b).from = b.from
                      /\ Row(b).to = b.to
      /\ \A r \in Rows(B) : \E b \in B : r = Row(b)
  BY <1>1, RowFacts
<1>. HIDE DEF B
<1>5. Whole(edges', B) = U
  BY <1>1, <1>2, <1>4 DEF Whole, SameEdge
<1>6. edges' \subseteq AliasRows /\ U \subseteq AliasRows
  BY <1>1, <1>2, <1>4 DEF Whole
<1>7. Within(edges', U)
  BY <1>1, <1>2, <1>4 DEF Within, Whole, SameEdge
<1>8. OneToOne(U) /\ Acyclic(U) /\ SaysHow(B, edges)
  BY DEF AliasInv, StayChains, B
<1>. HIDE DEF U
<1>9. OneToOne(edges') /\ Acyclic(edges')
  BY <1>6, <1>7, <1>8, RowsJoin, FewerStayChains
<1>10. SaysHow(B, edges')
  <2>1. ASSUME NEW b \in B, row.from = b.to
        PROVE  \E c \in B : c.from = b.to
    BY <1>1, <1>4, <2>1
  <2> QED BY <1>2, <1>8, <2>1 DEF SaysHow
<1>11. AliasTypes'
  BY <1>1, <1>3, <1>6 DEF AliasTypes
<1>12. StayChains'
  BY <1>3, <1>5, <1>8, <1>9, <1>10 DEF StayChains
<1>13. ASSUME ~history'.cut
       PROVE  RootsStand'
  <2>1. /\ Standing(U, history.owed \ Rows(B))
        /\ \A r \in Rows(B) \ import.todo : r \in edges /\ \A e \in edges : SameEdge(e, r) => e = r
    BY <1>2, <1>3, <1>13 DEF AliasInv, RootsStand, B, U
  <2>2. history'.owed \ Rows(B) = history.owed \ Rows(B)
    BY <1>1, <1>3
  <2>3. ~Untouched'
    BY <1>1, <1>3 DEF Untouched
  <2>4. ASSUME NEW r \in Rows(B) \ import'.todo
        PROVE  r \in edges' /\ \A e \in edges' : SameEdge(e, r) => e = r
    <3>1. SameEdge(r, row) => r = row
      BY <1>1, RowsOfABatch
    <3>2. SameEdge(row, r) => r = row
      BY <3>1 DEF SameEdge
    <3>3. CASE r = row
      BY <1>2, <3>3
    <3>4. CASE r # row
      <4>1. r \in edges /\ \A e \in edges : SameEdge(e, r) => e = r
        BY <1>3, <2>1, <3>4
      <4> QED BY <1>2, <3>1, <3>2, <3>4, <4>1
    <3> QED BY <3>3, <3>4
  <2> QED BY <1>3, <1>5, <2>1, <2>2, <2>3, <2>4 DEF RootsStand
<1>14. ASSUME ~history'.overtaken
       PROVE  ProgressStands'
  <2>1. /\ \A k \in progress : Out(edges, k) = {}
        /\ \A b \in B : b.from \notin progress
    BY <1>2, <1>3, <1>14 DEF AliasInv, ProgressStands, B
  <2>2. row.from \notin progress
    BY <1>1, <1>4, <2>1
  <2> QED BY <1>2, <1>3, <2>1, <2>2 DEF ProgressStands, Out
<1> QED BY <1>11, <1>12, <1>13, <1>14 DEF AliasInv

(* Once nothing is left of a batch its edges end at their roots.           *)
LEMMA ImportEndsKeeps ==
  ASSUME AliasInv, ImportEnds
  PROVE  AliasInv'
<1>. DEFINE B == import.batch
<1>1. /\ import.at = "import" /\ import.todo = {} /\ import' = NoImport
      /\ UNCHANGED <<edges, progress, history>>
  BY DEF ImportEnds, Switches
<1>2. /\ history \in HistoryRows /\ edges \subseteq AliasRows /\ B \in SUBSET Declarable(KeysIn)
      /\ OneToOne(edges) /\ Acyclic(edges)
  BY DEF AliasInv, AliasTypes, ImportRows, StayChains
<1>3. ASSUME ~history.cut
      PROVE  Standing(edges, history.owed)
  <2>1. /\ Standing(Whole(edges, B), history.owed \ Rows(B))
        /\ \A r \in Rows(B) : r \in edges /\ \A e \in edges : SameEdge(e, r) => e = r
    BY <1>1, <1>3 DEF AliasInv, RootsStand
  <2>2. \A b \in B : /\ Row(b) \in Rows(B) /\ Row(b).rel = b.rel /\ Row(b).from = b.from
                     /\ Row(b).to = b.to
    BY <1>2, RowFacts
  <2>3. Whole(edges, B) = edges
    BY <2>1, <2>2 DEF Whole, SameEdge
  <2>4. history.owed \ Rows(B) \subseteq history.owed
    OBVIOUS
  <2> QED BY <2>1, <2>3, <2>4, MoreOwed
<1>4. ~history.overtaken => \A k \in progress : Out(edges, k) = {}
  BY DEF AliasInv, ProgressStands
<1> QED BY <1>1, <1>2, <1>3, <1>4, ImportOver

(* What an import that breaks off leaves out stays owed.                   *)
LEMMA ImportBreaksKeeps ==
  ASSUME AliasInv, ImportBreaks
  PROVE  AliasInv'
<1>. DEFINE B == import.batch
            U == Whole(edges, B)
            more == IF edges \cap Rows(B) = {} THEN {} ELSE import.todo
<1>1. /\ import.at = "import" /\ import' = NoImport /\ UNCHANGED <<edges, progress>>
      /\ history' = [history EXCEPT !.owed = @ \cup more]
  BY DEF ImportBreaks
<1>2. /\ history \in HistoryRows /\ edges \subseteq AliasRows /\ B \in SUBSET Declarable(KeysIn)
      /\ OneToOne(edges) /\ Acyclic(edges) /\ import.todo \subseteq Rows(B)
      /\ OneToOne(U) /\ import.todo \subseteq AliasRows
  BY DEF AliasInv, AliasTypes, ImportRows, StayChains
<1>3. /\ history' \in HistoryRows /\ history'.cut = history.cut
      /\ history'.overtaken = history.overtaken /\ history'.owed = history.owed \cup more
  BY <1>1, <1>2 DEF HistoryRows
<1>4. ~history.overtaken => \A k \in progress : Out(edges, k) = {}
  BY DEF AliasInv, ProgressStands
<1>5. ASSUME ~history.cut
      PROVE  Standing(edges, history'.owed)
  <2>1. /\ Standing(U, history.owed \ Rows(B))
        /\ Untouched => Standing(edges, history.owed)
        /\ \A r \in Rows(B) \ import.todo : r \in edges /\ \A e \in edges : SameEdge(e, r) => e = r
    BY <1>1, <1>5 DEF AliasInv, RootsStand
  <2>2. CASE edges \cap Rows(B) = {}
    <3>1. Untouched
      BY <1>2, <2>1, <2>2 DEF Untouched
    <3> QED BY <1>3, <2>1, <2>2, <3>1
  <2>3. CASE edges \cap Rows(B) # {}
    <3>1. /\ Rows(B) \subseteq AliasRows
          /\ \A b \in B : /\ Row(b) \in Rows(B) /\ Row(b).rel = b.rel /\ Row(b).from = b.from
                          /\ Row(b).to = b.to
          /\ \A r \in Rows(B) : \E b \in B : r = Row(b)
      BY <1>2, RowFacts
    <3>2. history'.owed = history.owed \cup import.todo
      BY <1>3, <2>3
    <3>3. /\ Joins(edges) /\ Joins(U) /\ Within(edges, U)
      <4>1. U \subseteq AliasRows
        BY <1>2, <3>1 DEF Whole
      <4>2. Within(edges, U)
        BY <3>1 DEF Within, Whole, SameEdge
      <4> QED BY <1>2, <4>1, <4>2, RowsJoin
    <3>4. \A e \in U : e \in edges \/ e \in import.todo
      BY <2>1 DEF Whole
    <3>5. \A e \in edges : e \in U \/ \E r \in import.todo : r.from = e.from
      BY <2>1, <3>1 DEF Whole, SameEdge
    <3>. HIDE DEF U, B, more
    <3>6. ASSUME NEW e \in edges
          PROVE  Rooted(edges, e, history'.owed)
      <4>1. e.from \in StableKeys /\ e.from \in Passed(edges, e.from)
        <5>1. e.from \in StableKeys
          BY <3>3 DEF Joins
        <5>2. Way(edges, e.from)[0] = e.from /\ 0 \in 0 .. Length
          BY <3>3, <5>1, Ways, LengthIsNat
        <5> QED BY <5>1, <5>2 DEF Passed
      <4>2. CASE \E r \in import.todo : r.from = e.from
        BY <3>2, <4>1, <4>2 DEF Rooted
      <4>3. CASE /\ Out(edges, Sink(edges, e.from)) = {}
                 /\ Out(U, Sink(edges, e.from)) # {}
        <5>1. PICK r \in U : r.from = Sink(edges, e.from) /\ r \notin edges
          BY <4>3 DEF Out
        <5>2. Sink(edges, e.from) \in Passed(edges, e.from)
          BY <3>3, <4>1, Ways, LengthIsNat DEF Passed
        <5> QED BY <3>2, <3>4, <5>1, <5>2 DEF Rooted
      <4>4. CASE /\ e \in U /\ Sink(edges, e.from) = Sink(U, e.from)
                 /\ Passed(edges, e.from) = Passed(U, e.from)
        <5>1. Rooted(U, e, history.owed \ Rows(B))
          BY <2>1, <4>4 DEF Standing
        <5> QED BY <3>2, <4>4, <5>1 DEF Rooted
      <4> QED BY <1>2, <3>3, <3>5, <4>1, <4>2, <4>3, <4>4, ShorterWay
    <3> QED BY <3>6 DEF Standing
  <2> QED BY <2>2, <2>3
<1> QED BY <1>1, <1>2, <1>3, <1>4, <1>5, ImportOver

(* A grade writes rows under the roots that it found.                      *)
LEMMA CommitKeeps ==
  ASSUME AliasInv, GradeCommits
  PROVE  AliasInv'
<1>. DEFINE late == \/ history.overtaken
                    \/ (import.at = "import" /\ ~(grade.roots \subseteq progress))
                    \/ \E k \in grade.roots : Out(edges, k) # {}
<1>1. /\ UNCHANGED <<edges, import>> /\ progress' = progress \cup grade.roots
      /\ history' = [history EXCEPT !.overtaken = late]
  BY DEF GradeCommits
<1>2. /\ history' \in HistoryRows /\ history'.cut = history.cut
      /\ history'.overtaken = late /\ history'.owed = history.owed
  BY <1>1 DEF AliasInv, AliasTypes, HistoryRows
<1>3. AliasTypes' /\ StayChains'
  BY <1>1, <1>2 DEF AliasInv, AliasTypes, StayChains
<1>4. ~history'.cut => RootsStand'
  BY <1>1, <1>2 DEF AliasInv, RootsStand, Untouched
<1>5. ~history'.overtaken => ProgressStands'
  BY <1>1, <1>2 DEF AliasInv, ProgressStands
<1> QED BY <1>3, <1>4, <1>5 DEF AliasInv

(* The edges of a deleted release go, those of others stay.                *)
LEMMA DeleteReleaseKeeps ==
  ASSUME AliasInv, NEW rel \in ReleaseIds, DeleteRelease(rel)
  PROVE  AliasInv'
<1>. DEFINE B == import.batch
            U == Whole(edges, B)
            apart == \/ history.cut
                     \/ \E b \in B : b.rel = rel
                     \/ \E e \in edges, f \in edges : e.rel # rel /\ f.rel = rel /\ e.to = f.from
<1>1. /\ UNCHANGED <<progress, import>> /\ edges' = {e \in edges : e.rel # rel}
      /\ history' = [history EXCEPT !.cut = apart]
  BY DEF DeleteRelease
<1>2. /\ history' \in HistoryRows /\ history'.cut = apart
      /\ history'.overtaken = history.overtaken /\ history'.owed = history.owed
      /\ edges \subseteq AliasRows /\ edges' \subseteq edges /\ B \in SUBSET Declarable(KeysIn)
      /\ OneToOne(edges) /\ Acyclic(edges) /\ OneToOne(U) /\ Acyclic(U) /\ SaysHow(B, edges)
  BY <1>1 DEF AliasInv, AliasTypes, HistoryRows, ImportRows, StayChains
<1>3. /\ Rows(B) \subseteq AliasRows
      /\ \A b \in B : /\ Row(b) \in Rows(B) /\ Row(b).rel = b.rel /\ Row(b).from = b.from
                      /\ Row(b).to = b.to
      /\ \A r \in Rows(B) : \E b \in B : r = Row(b)
  BY <1>2, RowFacts
<1>4. Whole(edges', B) \subseteq U /\ U \subseteq AliasRows
  BY <1>2, <1>3 DEF Whole
<1>5. Joins(edges) /\ Joins(edges') /\ Joins(U) /\ Joins(Whole(edges', B))
  BY <1>2, <1>4, RowsJoin
<1>6. OneToOne(edges') /\ Acyclic(edges')
  <2>1. Within(edges', edges)
    BY <1>2 DEF Within
  <2> QED BY <1>2, <1>5, <2>1, FewerStayChains
<1>7. OneToOne(Whole(edges', B)) /\ Acyclic(Whole(edges', B))
  <2>1. Within(Whole(edges', B), U)
    BY <1>4 DEF Within
  <2>. HIDE DEF U
  <2> QED BY <1>2, <1>5, <2>1, FewerStayChains
<1>8. AliasTypes'
  BY <1>1, <1>2 DEF AliasInv, AliasTypes
<1>9. StayChains'
  BY <1>1, <1>2, <1>6, <1>7 DEF StayChains, SaysHow
<1>10. ASSUME ~history'.cut
       PROVE  RootsStand'
  <2>1. /\ ~history.cut /\ \A b \in B : b.rel # rel
        /\ \A e \in edges, f \in edges : e.rel # rel /\ f.rel = rel => e.to # f.from
    BY <1>2, <1>10
  <2>2. /\ Standing(U, history.owed \ Rows(B))
        /\ Untouched => Standing(edges, history.owed)
        /\ import.at = "import" =>
             \A r \in Rows(B) \ import.todo :
               r \in edges /\ \A e \in edges : SameEdge(e, r) => e = r
    BY <2>1 DEF AliasInv, RootsStand
  <2>3. Untouched => Standing(edges', history.owed)
    <3>1. \A d \in edges', e \in edges : e.from = d.to => Out(edges', d.to) # {}
      BY <1>1, <2>1 DEF Out
    <3> QED BY <1>2, <1>5, <2>2, <3>1, DroppedFromTheStart
  <2>4. Standing(Whole(edges', B), history.owed \ Rows(B))
    <3>1. ASSUME NEW d \in Whole(edges', B), NEW e \in U, e.from = d.to
          PROVE  Out(Whole(edges', B), d.to) # {}
      <4>1. CASE e \in Whole(edges', B)
        BY <3>1, <4>1 DEF Out
      <4>2. CASE e \notin Whole(edges', B)
        <5>1. e \in edges /\ e.rel = rel
          BY <1>1, <4>2 DEF Whole
        <5>2. d \in Rows(B)
          BY <1>1, <2>1, <3>1, <5>1 DEF Whole
        <5>3. PICK c \in B : c.from = d.to
          BY <1>2, <1>3, <3>1, <5>1, <5>2 DEF SaysHow
        <5>4. Row(c) \in Whole(edges', B) /\ Row(c).from = d.to
          BY <1>3, <5>3 DEF Whole
        <5> QED BY <5>4 DEF Out
      <4> QED BY <4>1, <4>2
    <3>. HIDE DEF U
    <3> QED BY <1>2, <1>4, <1>5, <2>2, <3>1, DroppedFromTheStart
  <2>5. ASSUME import.at = "import", NEW r \in Rows(B) \ import.todo
        PROVE  r \in edges' /\ \A e \in edges' : SameEdge(e, r) => e = r
    BY <1>1, <1>3, <2>1, <2>2, <2>5
  <2> QED BY <1>1, <1>2, <2>3, <2>4, <2>5 DEF RootsStand, Untouched
<1>11. ASSUME ~history'.overtaken
       PROVE  ProgressStands'
  BY <1>1, <1>2, <1>11 DEF AliasInv, ProgressStands, Out
<1> QED BY <1>8, <1>9, <1>10, <1>11 DEF AliasInv

(* Every step keeps the invariant.                                         *)
LEMMA AliasSteps == AliasInv /\ [AliasNext]_aliasVars => AliasInv'
<1> SUFFICES ASSUME AliasInv, [AliasNext]_aliasVars
             PROVE  AliasInv'
  OBVIOUS
<1>1. CASE UNCHANGED <<edges, progress, import, history>>
  BY <1>1 DEF AliasInv, AliasTypes, StayChains, RootsStand, ProgressStands, Untouched
<1>2. CASE \E B \in Batches, remote \in BOOLEAN : Declare(B, remote)
  BY <1>2, DeclareKeeps
<1>3. CASE LookAtEnds \/ LookAtProgress
  BY <1>3, LooksKeep
<1>4. CASE ImportLocally
  BY <1>4, ImportLocallyKeeps
<1>5. CASE ImportEnds
  BY <1>5, ImportEndsKeeps
<1>6. CASE ImportBreaks
  BY <1>6, ImportBreaksKeeps
<1>7. CASE \E row \in import.todo : ImportRow(row)
  BY <1>7, ImportRowKeeps
<1>8. CASE \E rel \in ReleaseIds : DeleteRelease(rel)
  BY <1>8, DeleteReleaseKeeps
<1>9. CASE GradeCommits
  BY <1>9, CommitKeeps
<1>10. CASE \/ \E rel \in ReleaseIds : Rollback(rel)
            \/ \E rel \in ReleaseIds, key \in StableKeys : GradeResolves(rel, key)
  <2>1. UNCHANGED <<edges, progress, import, history>>
    BY <1>10 DEF Rollback, GradeResolves
  <2> QED BY <1>1, <2>1
<1>11. CASE UNCHANGED aliasVars
  BY <1>1, <1>11 DEF aliasVars
<1> QED BY <1>2, <1>3, <1>4, <1>5, <1>6, <1>7, <1>8, <1>9, <1>10, <1>11 DEF AliasNext

(* What is stored stays a set of chains, alone and with the batch under    *)
(* way, whose edges name their roots or wait for rows that are owed        *)
(* (aliases.ts:73-273, alias-repository.ts:89-188).                        *)
THEOREM AliasInvariance == AliasSpec => []AliasInv
<1> QED BY InitiallyNoRenames, AliasSteps, PTL DEF AliasSpec

(* Whatever releases declare, one after the other, the renames stay chains *)
(* that end at the root each of their edges names, and every row of the    *)
(* learner stands at the end of its chain, where the worker looks for it,  *)
(* for any releases, keys and batches (aliases.ts:73-273).                 *)
THEOREM ProgressAtTheRoot == AliasSpec => []ProgressIsAtTheRoot
<1>1. AliasInv => ProgressIsAtTheRoot
  <2> SUFFICES ASSUME AliasInv, Undisturbed
               PROVE  /\ OneToOne(edges) /\ Acyclic(edges) /\ EndsAtItsRoot(edges)
                      /\ \A key \in progress : Out(edges, key) = {}
    BY DEF ProgressIsAtTheRoot
  <2>1. OneToOne(edges) /\ Acyclic(edges)
    BY DEF AliasInv, StayChains
  <2>2. Untouched
    BY DEF Undisturbed, AliasInv, AliasTypes, ImportRows, Untouched
  <2>3. Standing(edges, {})
    BY <2>2 DEF Undisturbed, AliasInv, RootsStand
  <2>4. EndsAtItsRoot(edges)
    BY <2>3 DEF EndsAtItsRoot, Standing, Rooted
  <2>5. \A key \in progress : Out(edges, key) = {}
    BY DEF Undisturbed, AliasInv, ProgressStands
  <2> QED BY <2>1, <2>4, <2>5
<1> QED BY <1>1, AliasInvariance, PTL

(***************************************************************************)
(* The backup of the learners' rows.                                       *)
(***************************************************************************)
(* Of numbers up to n the highest is one that no smaller bound holds for.  *)
LEMMA HighestOf ==
  ASSUME NEW n \in Nat, NEW S, S \subseteq 1 .. n
  PROVE  /\ Highest(S) \in S \cup {0} /\ Highest(S) \in Nat
         /\ \A m \in S : m <= Highest(S)
<1>. DEFINE Bounds == {b \in Nat : \A m \in S : m <= b}
<1>1. PICK b \in Bounds : \A c \in Bounds : b <= c
  <2>1. n \in Bounds /\ Bounds \subseteq Nat
    OBVIOUS
  <2> QED BY <2>1, LeastOf
<1>2. b \in S \cup {0}
  <2>1. SUFFICES ASSUME b # 0, b \notin S
                 PROVE  FALSE
    OBVIOUS
  <2>2. b - 1 \in Bounds
    BY <2>1
  <2> QED BY <1>1, <2>2
<1>3. \E h \in S \cup {0} : \A m \in S : m <= h
  BY <1>2
<1>4. Highest(S) \in S \cup {0} /\ \A m \in S : m <= Highest(S)
  BY <1>3 DEF Highest
<1>. DEFINE h == Highest(S)
<1>5. h \in S \cup {0}
  BY <1>4
<1>. HIDE DEF h
<1>6. h \in Nat
  BY <1>5
<1> QED BY <1>4, <1>6 DEF h

(* The five tables, in the order in which they are read.                   *)
LEMMA FiveTables ==
  /\ DOMAIN TableOrder = 1 .. 5 /\ Cardinality(DOMAIN TableOrder) = 5
  /\ TableOrder[1] = "app_user" /\ TableOrder[2] = "word_progress"
  /\ TableOrder[3] = "card_state" /\ TableOrder[4] = "review_log"
  /\ TableOrder[5] = "study_session"
  /\ TableNames = {"app_user", "word_progress", "card_state", "review_log", "study_session"}
<1>1. DOMAIN TableOrder = 1 .. 5
  BY DEF TableOrder
<1>2. Cardinality(1 .. 5) = 5
  <2>1. \A a, b \in Int : Cardinality(a .. b) = IF a > b THEN 0 ELSE b - a + 1
    BY FS_Interval
  <2>2. \A b \in Int : b >= 1 => Cardinality(1 .. b) = b
    BY <2>1
  <2>. DEFINE five == 5
  <2>3. five \in Int /\ five >= 1
    OBVIOUS
  <2>. HIDE DEF five
  <2>4. Cardinality(1 .. five) = five
    BY <2>2, <2>3
  <2> QED BY <2>4 DEF five
<1>3. /\ TableOrder[1] = "app_user" /\ TableOrder[2] = "word_progress"
      /\ TableOrder[3] = "card_state" /\ TableOrder[4] = "review_log"
      /\ TableOrder[5] = "study_session"
  BY DEF TableOrder
<1>4. 1 .. 5 = {1, 2, 3, 4, 5}
  OBVIOUS
<1> QED BY <1>1, <1>2, <1>3, <1>4 DEF TableNames

-------------------------------------------------------------------------------
LogIds(T) == {r.id : r \in T["review_log"]}
StateEvents(T) == {r.event : r \in T["card_state"]}

(* The log is numbered through; states and rows refer to rows of it.       *)
TablesSound(T) ==
  /\ DOMAIN T = TableNames /\ IsFiniteSet(T["review_log"])
  /\ \E n \in Nat : LogIds(T) = 1 .. n
  /\ StateEvents(T) \subseteq LogIds(T)
  /\ \A r \in T["review_log"] : {"id", "before"} \subseteq DOMAIN r /\ r.before \subseteq LogIds(T)
  /\ \A r \in T["card_state"] : "event" \in DOMAIN r

(* What was read, or put: every answer known when it began, and that of    *)
(* every state.                                                            *)
Answers(got, known) == known \cup StateEvents(got) \subseteq LogIds(got)

(* An export that is reading, while the tables are T: the log is read up   *)
(* to a row, and all of it before the next table.                          *)
ReadsSound(x, T) ==
  /\ DOMAIN x = DOMAIN Unstarted /\ DOMAIN x.got = TableNames
  /\ x.known \cup StateEvents(x.got) \subseteq LogIds(T)
  /\ x.step = "rows" => x.at \in 1 .. 5
  /\ x.step = "rows" /\ x.at = 4 =>
       /\ x.after \in LogIds(T) \cup {0}
       /\ \A i \in LogIds(T) : i <= x.after => i \in LogIds(x.got)
  /\ x.step # "rows" \/ x.at = 5 => Answers(x.got, x.known)

ReadingSteps == {"rows", "releases", "pointer", "renames"}
PuttingSteps == {"data", "manifest"}

ExportSound(x, T) ==
  /\ x.step \in ReadingSteps => ReadsSound(x, T)
  /\ x.step \in PuttingSteps =>
       /\ DOMAIN x = {"step", "manifest", "known", "disturbed", "walkable"}
       /\ Answers(x.manifest.hash, x.known)

BackupInv ==
  /\ TablesSound(tables)
  /\ DOMAIN exports = Exporters /\ \A e \in Exporters : ExportSound(exports[e], tables)
  /\ DOMAIN bucket = {"data", "manifest"}
  /\ bucket.manifest # Nothing => Answers(bucket.manifest.manifest.hash, bucket.manifest.known)

(* The log grows at its end.                                               *)
Grows(T, U) ==
  /\ LogIds(T) \subseteq LogIds(U)
  /\ \A i \in LogIds(U) \ LogIds(T) : i \in Nat \ {0} /\ \A j \in LogIds(T) : i > j

(* An export is no less sound when the log grows at its end.               *)
LEMMA ExportStays ==
  ASSUME NEW T, TablesSound(T), NEW U, Grows(T, U), NEW x, ExportSound(x, T)
  PROVE  ExportSound(x, U)
<1>1. ASSUME x.step \in ReadingSteps
      PROVE  ReadsSound(x, U)
  <2>1. ReadsSound(x, T)
    BY <1>1 DEF ExportSound
  <2>2. ASSUME x.step = "rows", x.at = 4
        PROVE  /\ x.after \in LogIds(U) \cup {0}
               /\ \A i \in LogIds(U) : i <= x.after => i \in LogIds(x.got)
    <3>1. LogIds(T) \subseteq Nat
      BY DEF TablesSound
    <3>2. /\ x.after \in LogIds(T) \cup {0}
          /\ \A i \in LogIds(T) : i <= x.after => i \in LogIds(x.got)
      BY <2>1, <2>2 DEF ReadsSound
    <3>3. ASSUME NEW i \in LogIds(U), i \notin LogIds(T)
          PROVE  ~(i <= x.after)
      <4>1. i \in Nat \ {0} /\ \A j \in LogIds(T) : i > j
        BY <3>3 DEF Grows
      <4>2. x.after \in Nat
        BY <3>1, <3>2
      <4>3. i > x.after
        <5>1. CASE x.after = 0
          BY <4>1, <5>1
        <5>2. CASE x.after \in LogIds(T)
          BY <4>1, <5>2
        <5> QED BY <3>2, <5>1, <5>2
      <4> QED BY <4>1, <4>2, <4>3
    <3> QED BY <3>2, <3>3 DEF Grows
  <2>3. x.known \cup StateEvents(x.got) \subseteq LogIds(U)
    BY <2>1 DEF ReadsSound, Grows
  <2> QED BY <2>1, <2>2, <2>3 DEF ReadsSound
<1> QED BY <1>1 DEF ExportSound

(* A log grows, too, when it stays as it is.                               *)
LEMMA SameLog == ASSUME NEW T PROVE Grows(T, T)
BY DEF Grows

(* The flag of a disturbed export is all that changes of it.               *)
LEMMA FlagsOnly ==
  ASSUME NEW T, NEW x, ExportSound(x, T), x.step \in ReadingSteps
  PROVE  ExportSound([x EXCEPT !.disturbed = TRUE], T)
<1>. DEFINE y == [x EXCEPT !.disturbed = TRUE]
<1>1. ReadsSound(x, T)
  BY DEF ExportSound
<1>2. /\ DOMAIN y = DOMAIN x /\ y.step = x.step /\ y.got = x.got /\ y.known = x.known
      /\ y.at = x.at /\ y.after = x.after
  BY <1>1 DEF ReadsSound, Unstarted
<1>. HIDE DEF y
<1>3. ReadsSound(y, T)
  BY <1>1, <1>2 DEF ReadsSound
<1>4. ExportSound(y, T)
  BY <1>2, <1>3 DEF ExportSound, ReadingSteps, PuttingSteps
<1> QED BY <1>4 DEF y

(* The exports, when the learners or the tool write.                       *)
LEMMA WritesKeepExports ==
  ASSUME BackupInv, Grows(tables, tables'), UNCHANGED bucket,
         TablesSound(tables'), UNCHANGED exports \/ Disturb
  PROVE  BackupInv'
<1>1. ASSUME NEW e \in Exporters
      PROVE  ExportSound(exports'[e], tables')
  <2>1. ExportSound(exports[e], tables)
    BY DEF BackupInv
  <2>2. \/ exports'[e] = exports[e]
        \/ /\ exports[e].step \in ReadingSteps
           /\ exports'[e] = [exports[e] EXCEPT !.disturbed = TRUE]
    <3>1. CASE UNCHANGED exports
      BY <3>1
    <3>2. CASE Disturb
      BY <3>2 DEF Disturb, Reading, ReadingSteps
    <3> QED BY <3>1, <3>2
  <2>3. ExportSound(exports'[e], tables)
    BY <2>1, <2>2, FlagsOnly
  <2> QED BY <2>3, ExportStays DEF BackupInv
<1>2. DOMAIN exports' = Exporters
  BY DEF BackupInv, Disturb
<1> QED BY <1>1, <1>2 DEF BackupInv

(* The next rowid of the log.                                              *)
LEMMA NextOfLog ==
  ASSUME TablesSound(tables)
  PROVE  \E n \in Nat : LogIds(tables) = 1 .. n /\ NextRowId("review_log") = n + 1
<1>1. PICK n \in Nat : LogIds(tables) = 1 .. n
  BY DEF TablesSound
<1>. DEFINE S == LogIds(tables)
<1>2. /\ Highest(S) \in S \cup {0} /\ Highest(S) \in Nat
      /\ \A m \in S : m <= Highest(S)
  BY <1>1, HighestOf
<1>3. NextRowId("review_log") = Highest(S) + 1
  BY DEF NextRowId, LogIds
<1>. HIDE DEF S
<1>4. S = 1 .. n
  BY <1>1 DEF S
<1>5. Highest(S) = n
  <2>1. CASE n = 0
    BY <1>2, <1>4, <2>1
  <2>2. CASE n > 0
    BY <1>2, <1>4, <2>2
  <2> QED BY <2>1, <2>2
<1> QED BY <1>1, <1>3, <1>5

(* A table that neither the log nor the states are.                        *)
LEMMA OtherTables ==
  ASSUME NEW T, TablesSound(T), NEW U, DOMAIN U = DOMAIN T,
         U["review_log"] = T["review_log"], U["card_state"] = T["card_state"]
  PROVE  TablesSound(U) /\ Grows(T, U)
BY DEF TablesSound, Grows, LogIds, StateEvents

(* A grade writes the row of the log that its state refers to.             *)
LEMMA GradeKeeps ==
  ASSUME BackupInv, NEW opened, NEW key, GradeCard(opened, key)
  PROVE  BackupInv'
<1>. DEFINE root == Sink(renames, key)
            event == NextRowId("review_log")
            before == {r.event : r \in Own("card_state", opened.user, root)}
            row == [id |-> event, user |-> opened.user, key |-> root, presented |-> key,
                    release |-> opened.release, before |-> before, undone |-> FALSE]
            cards == UpsertState(opened.user, root, event)
            words == UpsertWord(opened.user, root, opened.release)
            log == tables["review_log"]
<1>1. /\ tables' = [tables EXCEPT !["review_log"] = @ \cup {row}, !["card_state"] = cards,
                                  !["word_progress"] = words]
      /\ UNCHANGED <<exports, bucket>>
  BY DEF GradeCard
<1>2. PICK n \in Nat : LogIds(tables) = 1 .. n /\ event = n + 1
  BY NextOfLog DEF BackupInv
<1>3. TablesSound(tables) /\ DOMAIN tables = TableNames
  BY DEF BackupInv, TablesSound
<1>4. before \subseteq LogIds(tables)
  BY <1>3 DEF Own, TablesSound, StateEvents
<1>5. row.id = event /\ row.before = before /\ {"id", "before"} \subseteq DOMAIN row
  OBVIOUS
<1>6. ASSUME NEW r \in cards
      PROVE  "event" \in DOMAIN r /\ (r.event = event \/ r.event \in StateEvents(tables))
  <2>. DEFINE new == [id |-> NextRowId("card_state"), user |-> opened.user, key |-> root,
                      event |-> event]
              own == Own("card_state", opened.user, root)
  <2>1. CASE own = {}
    <3>1. new.event = event /\ "event" \in DOMAIN new
      OBVIOUS
    <3>2. r \in tables["card_state"] \cup {new}
      BY <2>1 DEF UpsertState
    <3>. HIDE DEF new
    <3> QED BY <1>3, <3>1, <3>2 DEF TablesSound, StateEvents
  <2>2. CASE own # {}
    <3>1. PICK q \in tables["card_state"] : r = q \/ r = [q EXCEPT !.event = event]
      BY <2>2 DEF UpsertState
    <3>2. "event" \in DOMAIN q
      BY <1>3 DEF TablesSound
    <3>. HIDE DEF event
    <3>3. CASE r = [q EXCEPT !.event = event]
      BY <3>2, <3>3
    <3> QED BY <3>1, <3>2, <3>3 DEF StateEvents
  <2> QED BY <2>1, <2>2
<1>. HIDE DEF event, before, row, cards, words
<1>7. /\ DOMAIN tables' = TableNames /\ tables'["review_log"] = log \cup {row}
      /\ tables'["card_state"] = cards
  BY <1>1, <1>3, FiveTables
<1>8. LogIds(tables') = 1 .. n + 1
  <2>1. LogIds(tables') = LogIds(tables) \cup {n + 1}
    BY <1>2, <1>5, <1>7 DEF LogIds
  <2> QED BY <1>2, <2>1
<1>9. Grows(tables, tables')
  BY <1>2, <1>8 DEF Grows
<1>10. TablesSound(tables')
  <2>1. IsFiniteSet(log \cup {row})
    BY <1>3, FS_AddElement DEF TablesSound
  <2>2. StateEvents(tables') \subseteq LogIds(tables')
    <3>1. StateEvents(tables) \subseteq LogIds(tables)
      BY <1>3 DEF TablesSound
    <3>2. ASSUME NEW r \in cards
          PROVE  r.event \in LogIds(tables')
      BY <1>2, <1>6, <1>8, <3>1
    <3> QED BY <1>7, <3>2 DEF StateEvents
  <2>3. \A r \in tables'["review_log"] :
          {"id", "before"} \subseteq DOMAIN r /\ r.before \subseteq LogIds(tables')
    <3>1. \A r \in log : {"id", "before"} \subseteq DOMAIN r /\ r.before \subseteq LogIds(tables)
      BY <1>3 DEF TablesSound
    <3>2. LogIds(tables) \subseteq LogIds(tables')
      BY <1>9 DEF Grows
    <3> QED BY <1>4, <1>5, <1>7, <3>1, <3>2
  <2>4. n + 1 \in Nat
    OBVIOUS
  <2> QED BY <1>6, <1>7, <1>8, <2>1, <2>2, <2>3, <2>4 DEF TablesSound
<1> QED BY <1>1, <1>9, <1>10, WritesKeepExports

(* An undo restores states that earlier rows of the log stand behind.      *)
LEMMA UndoKeeps ==
  ASSUME BackupInv, NEW row, UndoNewest(row)
  PROVE  BackupInv'
<1>. DEFINE log == tables["review_log"]
            undone == [row EXCEPT !.undone = TRUE]
            own == Own("card_state", row.user, row.key)
            cards == {r \in tables["card_state"] : r \notin own} \cup
                       {[r EXCEPT !.event = b] : r \in own, b \in row.before}
            words == {IF r \in Own("word_progress", row.user, row.key) /\ row.before = {}
                      THEN [r EXCEPT !.introduced = Nothing] ELSE r : r \in tables["word_progress"]}
<1>1. /\ tables' = [tables EXCEPT !["review_log"] = (@ \ {row}) \cup {undone},
                                  !["card_state"] = cards, !["word_progress"] = words]
      /\ row \in log /\ Disturb /\ UNCHANGED bucket
  BY DEF UndoNewest
<1>2. TablesSound(tables) /\ DOMAIN tables = TableNames
  BY DEF BackupInv, TablesSound
<1>3. undone.id = row.id /\ undone.before = row.before /\ {"id", "before"} \subseteq DOMAIN undone
  BY <1>1, <1>2 DEF TablesSound
<1>4. ASSUME NEW r \in cards
      PROVE  "event" \in DOMAIN r /\ r.event \in LogIds(tables)
  <2>1. row.before \subseteq LogIds(tables)
    BY <1>1, <1>2 DEF TablesSound
  <2>2. CASE r \in tables["card_state"]
    BY <1>2, <2>2 DEF TablesSound, StateEvents
  <2>3. CASE \E q \in own, b \in row.before : r = [q EXCEPT !.event = b]
    <3>1. PICK q \in own, b \in row.before : r = [q EXCEPT !.event = b]
      BY <2>3
    <3>2. "event" \in DOMAIN q
      BY <1>2 DEF Own, TablesSound
    <3> QED BY <2>1, <3>1, <3>2
  <2> QED BY <2>2, <2>3
<1>. HIDE DEF undone, cards, words
<1>5. /\ DOMAIN tables' = TableNames /\ tables'["review_log"] = (log \ {row}) \cup {undone}
      /\ tables'["card_state"] = cards
  BY <1>1, <1>2, FiveTables
<1>6. LogIds(tables') = LogIds(tables)
  BY <1>1, <1>3, <1>5 DEF LogIds
<1>7. Grows(tables, tables')
  BY <1>6 DEF Grows
<1>8. TablesSound(tables')
  <2>1. IsFiniteSet((log \ {row}) \cup {undone})
    <3>1. IsFiniteSet(log \ {row})
      BY <1>2, FS_RemoveElement DEF TablesSound
    <3> QED BY <3>1, FS_AddElement
  <2>2. StateEvents(tables') \subseteq LogIds(tables')
    BY <1>4, <1>5, <1>6 DEF StateEvents
  <2>3. \A r \in tables'["review_log"] :
          {"id", "before"} \subseteq DOMAIN r /\ r.before \subseteq LogIds(tables')
    BY <1>1, <1>2, <1>3, <1>5, <1>6 DEF TablesSound
  <2>4. \E n \in Nat : LogIds(tables') = 1 .. n
    BY <1>2, <1>6 DEF TablesSound
  <2>5. \A r \in tables'["card_state"] : "event" \in DOMAIN r
    BY <1>4, <1>5
  <2> QED BY <1>5, <2>1, <2>2, <2>3, <2>4, <2>5 DEF TablesSound
<1> QED BY <1>1, <1>7, <1>8, WritesKeepExports

(* Sessions, seeds and releases write no state and no row of the log.      *)
LEMMA OthersKeep ==
  ASSUME BackupInv,
         \/ \E user \in Learners : Begin(user) \/ Seed(user)
         \/ ActivationNext
  PROVE  BackupInv'
<1>1. PICK t, rows : /\ t \in {"app_user", "study_session"}
                     /\ tables' = [tables EXCEPT ![t] = rows] \/ tables' = tables
  BY DEF Begin, Seed, ActivationNext, PrepareActivation, StoreRename, Promote, SwitchPointer,
         ActivationBreaks
<1>2. (UNCHANGED exports \/ Disturb) /\ UNCHANGED bucket
  BY DEF Begin, Seed, ActivationNext, PrepareActivation, StoreRename, Promote, SwitchPointer,
         ActivationBreaks
<1>3. TablesSound(tables) /\ DOMAIN tables = TableNames
  BY DEF BackupInv, TablesSound
<1>4. /\ DOMAIN tables' = DOMAIN tables /\ tables'["review_log"] = tables["review_log"]
      /\ tables'["card_state"] = tables["card_state"]
  BY <1>1, <1>3, FiveTables
<1>5. TablesSound(tables') /\ Grows(tables, tables')
  BY <1>3, <1>4, OtherTables
<1> QED BY <1>2, <1>5, WritesKeepExports

(* The invariant, when one export alone moves.                             *)
LEMMA OneExport ==
  ASSUME BackupInv, NEW e \in Exporters, NEW x, ExportSound(x, tables),
         exports' = [exports EXCEPT ![e] = x], UNCHANGED <<tables, bucket>>
  PROVE  BackupInv'
<1>1. /\ DOMAIN exports' = Exporters
      /\ \A f \in Exporters : exports'[f] = IF f = e THEN x ELSE exports[f]
  BY DEF BackupInv
<1>2. \A f \in Exporters : ExportSound(exports'[f], tables)
  BY <1>1 DEF BackupInv
<1> QED BY <1>1, <1>2 DEF BackupInv

(* An export begins with nothing read and the answers known so far.        *)
LEMMA StartKeeps ==
  ASSUME BackupInv, NEW e \in Exporters, StartExport(e)
  PROVE  BackupInv'
<1>. DEFINE x == [Unstarted EXCEPT !.step = "rows", !.known = LogIds(tables)]
<1>1. exports' = [exports EXCEPT ![e] = x] /\ UNCHANGED <<tables, bucket>>
  BY DEF StartExport, StepOf, LogIds
<1>2. /\ DOMAIN x = DOMAIN Unstarted /\ x.step = "rows" /\ x.known = LogIds(tables)
      /\ x.got = NoPersonalRows /\ x.at = 1
  BY DEF Unstarted
<1>. HIDE DEF x
<1>3. DOMAIN x.got = TableNames /\ StateEvents(x.got) = {}
  BY <1>2, FiveTables DEF NoPersonalRows, StateEvents
<1>4. ReadsSound(x, tables)
  BY <1>2, <1>3 DEF ReadsSound
<1>5. ExportSound(x, tables)
  BY <1>2, <1>4 DEF ExportSound, PuttingSteps
<1> QED BY <1>1, <1>5, OneExport

(* The rows of a table have numbers up to some last one.                   *)
Numbered(S) == \E n \in Nat : \A r \in S : r.id \in 1 .. n

(* A page: nothing between it and the row it begins after, and empty only  *)
(* at the end.                                                             *)
LEMMA PageOf ==
  ASSUME NEW t, IsFiniteSet(tables[t]), Numbered(tables[t]), NEW after \in Nat,
         NEW page, page = PageAfter(t, after)
  PROVE  /\ page \subseteq tables[t] /\ \A r \in page : r.id > after
         /\ page = {} => \A r \in tables[t] : r.id <= after
         /\ \A r \in page, q \in tables[t] : q.id > after /\ q.id <= r.id => q \in page
<1>. DEFINE rows == tables[t]
            Between(i) == {s \in rows : after < s.id /\ s.id < i}
<1>1. page = {r \in rows : r.id > after /\ Cardinality(Between(r.id)) < PageSize}
  BY DEF PageAfter
<1>2. PICK n \in Nat : \A r \in rows : r.id \in 1 .. n
  BY DEF Numbered
<1>3. \A r \in rows : r.id \in Nat
  BY <1>2
<1>4. IsFiniteSet(rows) /\ PageSize \in Nat \ {0}
  BY BackupAssumption
<1>5. \A i : IsFiniteSet(Between(i)) /\ Cardinality(Between(i)) \in Nat
  <2>1. \A i : Between(i) \subseteq rows
    OBVIOUS
  <2>. HIDE DEF Between
  <2> QED BY <1>4, <2>1, FS_Subset, FS_CardinalityType
<1>6. ASSUME NEW s \in rows, ~(s.id <= after)
      PROVE  page # {}
  <2>. DEFINE Later == {r.id : r \in {q \in rows : q.id > after}}
  <2>1. Later \in SUBSET Nat /\ s.id \in Later
    BY <1>3, <1>6
  <2>2. PICK j \in Later : \A k \in Later : j <= k
    BY <2>1, LeastOf
  <2>3. PICK q \in rows : q.id = j /\ q.id > after
    BY <2>2
  <2>4. Between(q.id) = {}
    BY <1>3, <2>2, <2>3
  <2>5. Cardinality(Between(q.id)) = 0
    BY <2>4, FS_EmptySet
  <2>. HIDE DEF Between
  <2>6. q \in page
    BY <1>1, <1>4, <2>3, <2>5
  <2> QED BY <2>6
<1>7. ASSUME NEW r \in page, NEW q \in rows, q.id > after, q.id <= r.id
      PROVE  q \in page
  <2>1. Between(q.id) \subseteq Between(r.id)
    <3>1. q.id \in Nat /\ r \in rows /\ r.id \in Nat /\ \A s \in rows : s.id \in Nat
      BY <1>1, <1>3
    <3>2. ASSUME NEW s \in Between(q.id)
          PROVE  s \in Between(r.id)
      BY <1>7, <3>1
    <3>. HIDE DEF Between
    <3> QED BY <3>2
  <2>2. Cardinality(Between(r.id)) < PageSize
    BY <1>1
  <2>. HIDE DEF Between
  <2>3. Cardinality(Between(q.id)) <= Cardinality(Between(r.id))
    BY <1>5, <2>1, FS_Subset
  <2>4. Cardinality(Between(q.id)) < PageSize
    BY <1>4, <1>5, <2>2, <2>3
  <2> QED BY <1>1, <1>7, <2>4
<1>. HIDE DEF Between
<1> QED BY <1>1, <1>3, <1>6, <1>7

(* A page of the log.                                                      *)
LEMMA PageOfLog ==
  ASSUME TablesSound(tables), NEW after \in LogIds(tables) \cup {0},
         NEW page, page = PageAfter("review_log", after)
  PROVE  /\ page \subseteq tables["review_log"]
         /\ page = {} => \A i \in LogIds(tables) : i <= after
         /\ \A r \in page, q \in tables["review_log"] : q.id > after /\ q.id <= r.id => q \in page
<1>1. PICK n \in Nat : LogIds(tables) = 1 .. n
  BY DEF TablesSound
<1>2. after \in Nat /\ IsFiniteSet(tables["review_log"]) /\ Numbered(tables["review_log"])
  BY <1>1 DEF TablesSound, Numbered, LogIds
<1>3. page = {} => \A r \in tables["review_log"] : r.id <= after
  BY <1>2, PageOf
<1>4. page = {} => \A i \in LogIds(tables) : i <= after
  BY <1>3 DEF LogIds
<1> QED BY <1>2, <1>4, PageOf

(* A page of a table is added to what was read.                            *)
LEMMA ReadFills ==
  ASSUME TablesSound(tables), NEW x, ReadsSound(x, tables), x.step = "rows",
         NEW t, t = TableOrder[x.at], NEW page, page = PageAfter(t, x.after), page # {},
         NEW y, y = [x EXCEPT !.got[t] = @ \cup page, !.after = Highest({r.id : r \in page})]
  PROVE  ExportSound(y, tables)
<1>. DEFINE g == x.got
            h == [g EXCEPT ![t] = @ \cup page]
            ids == {r.id : r \in page}
            top == Highest(ids)
<1>1. /\ DOMAIN x = DOMAIN Unstarted /\ x.at \in 1 .. 5 /\ DOMAIN g = TableNames
      /\ x.known \cup StateEvents(g) \subseteq LogIds(tables)
  BY DEF ReadsSound
<1>2. t \in TableNames /\ page \subseteq tables[t]
  BY <1>1, FiveTables DEF TableNames, PageAfter
<1>3. y = [x EXCEPT !.got = h, !.after = top]
  BY <1>1 DEF Unstarted
<1>. HIDE DEF h, top
<1>4. /\ DOMAIN y = DOMAIN Unstarted /\ y.got = h /\ y.after = top /\ y.step = "rows"
      /\ y.at = x.at /\ y.known = x.known
  BY <1>1, <1>3 DEF Unstarted
<1>. HIDE DEF g
<1>5. /\ DOMAIN h = TableNames
      /\ t # "review_log" => LogIds(h) = LogIds(g)
      /\ t = "review_log" => LogIds(h) = LogIds(g) \cup ids
      /\ t # "card_state" => StateEvents(h) = StateEvents(g)
      /\ t = "card_state" => StateEvents(h) = StateEvents(g) \cup {r.event : r \in page}
  <2>1. /\ DOMAIN h = TableNames /\ h[t] = g[t] \cup page
        /\ \A u \in TableNames : u # t => h[u] = g[u]
    BY <1>1, <1>2 DEF h
  <2>2. "review_log" \in TableNames /\ "card_state" \in TableNames
    BY FiveTables
  <2>3. t # "review_log" => LogIds(h) = LogIds(g)
    BY <2>1, <2>2 DEF LogIds
  <2>4. t = "review_log" => LogIds(h) = LogIds(g) \cup ids
    BY <2>1 DEF LogIds
  <2>5. t # "card_state" => StateEvents(h) = StateEvents(g)
    BY <2>1, <2>2 DEF StateEvents
  <2>6. t = "card_state" => StateEvents(h) = StateEvents(g) \cup {r.event : r \in page}
    BY <2>1 DEF StateEvents
  <2> QED BY <2>1, <2>3, <2>4, <2>5, <2>6
<1>6. StateEvents(h) \subseteq LogIds(tables)
  <2>1. t = "card_state" => {r.event : r \in page} \subseteq StateEvents(tables)
    BY <1>2 DEF StateEvents
  <2>2. StateEvents(tables) \subseteq LogIds(tables)
    BY DEF TablesSound
  <2> QED BY <1>1, <1>5, <2>1, <2>2
<1>7. ASSUME x.at = 4
      PROVE  /\ top \in LogIds(tables) \cup {0}
             /\ \A i \in LogIds(tables) : i <= top => i \in LogIds(h)
  <2>1. t = "review_log" /\ page = PageAfter("review_log", x.after)
    BY <1>7, FiveTables
  <2>2. /\ x.after \in LogIds(tables) \cup {0}
        /\ \A i \in LogIds(tables) : i <= x.after => i \in LogIds(g)
    BY <1>7 DEF ReadsSound, g
  <2>3. PICK n \in Nat : LogIds(tables) = 1 .. n
    BY DEF TablesSound
  <2>4. ids \subseteq 1 .. n
    BY <1>2, <2>1, <2>3 DEF LogIds
  <2>. HIDE DEF ids
  <2>5. top \in ids \cup {0} /\ top \in Nat /\ \A m \in ids : m <= top
    BY <2>3, <2>4, HighestOf DEF top
  <2>6. PICK r0 \in page : r0.id \in ids
    BY DEF ids
  <2>7. top # 0
    BY <2>3, <2>4, <2>5, <2>6
  <2>8. PICK r \in page : r.id = top
    BY <2>5, <2>7 DEF ids
  <2>9. ASSUME NEW i \in LogIds(tables), i <= top, ~(i <= x.after)
        PROVE  i \in LogIds(h)
    <3>1. PICK q \in tables["review_log"] : q.id = i
      BY DEF LogIds
    <3>2. q.id > x.after /\ q.id <= r.id
      BY <2>2, <2>3, <2>8, <2>9, <3>1
    <3>3. q \in page
      BY <2>1, <2>2, <2>8, <3>1, <3>2, PageOfLog
    <3>4. i \in ids
      BY <3>1, <3>3 DEF ids
    <3> QED BY <1>5, <2>1, <3>4
  <2>10. LogIds(g) \subseteq LogIds(h)
    BY <1>5, <2>1
  <2> QED BY <2>2, <2>3, <2>4, <2>5, <2>9, <2>10
<1>8. ASSUME x.at = 5
      PROVE  Answers(h, x.known)
  <2>1. t = "study_session"
    BY <1>8, FiveTables
  <2>2. Answers(g, x.known)
    BY <1>8 DEF ReadsSound, g
  <2> QED BY <1>5, <2>1, <2>2 DEF Answers
<1>9. ReadsSound(y, tables)
  BY <1>1, <1>4, <1>5, <1>6, <1>7, <1>8 DEF ReadsSound
<1> QED BY <1>4, <1>9 DEF ExportSound, PuttingSteps

(* A table read to its end: the log follows the states.                    *)
LEMMA ReadMoves ==
  ASSUME TablesSound(tables), NEW x, ReadsSound(x, tables), x.step = "rows",
         PageAfter(TableOrder[x.at], x.after) = {},
         NEW y, y = IF x.at < Cardinality(DOMAIN TableOrder)
                    THEN [x EXCEPT !.at = @ + 1, !.after = 0]
                    ELSE [x EXCEPT !.step = "releases"]
  PROVE  ExportSound(y, tables)
<1>1. /\ DOMAIN x = DOMAIN Unstarted /\ x.at \in 1 .. 5 /\ DOMAIN x.got = TableNames
      /\ x.known \cup StateEvents(x.got) \subseteq LogIds(tables)
  BY DEF ReadsSound
<1>2. x.at = 4 => Answers(x.got, x.known)
  <2>1. SUFFICES ASSUME x.at = 4
                 PROVE  Answers(x.got, x.known)
    OBVIOUS
  <2>2. /\ x.after \in LogIds(tables) \cup {0}
        /\ \A i \in LogIds(tables) : i <= x.after => i \in LogIds(x.got)
    BY <2>1 DEF ReadsSound
  <2>3. PageAfter("review_log", x.after) = {}
    BY <2>1, FiveTables
  <2>4. \A i \in LogIds(tables) : i <= x.after
    BY <2>2, <2>3, PageOfLog
  <2> QED BY <1>1, <2>2, <2>4 DEF Answers
<1>3. CASE x.at < 5
  <2>. DEFINE zero == 0
              next == x.at + 1
  <2>1. y = [x EXCEPT !.at = next, !.after = zero]
    BY <1>3, FiveTables
  <2>2. next \in 1 .. 5 /\ zero = 0 /\ (next = 5 => x.at = 4)
    BY <1>1, <1>3
  <2>. HIDE DEF zero, next
  <2>3. /\ DOMAIN y = DOMAIN Unstarted /\ y.got = x.got /\ y.after = zero /\ y.step = "rows"
        /\ y.at = next /\ y.known = x.known
    BY <1>1, <2>1 DEF Unstarted
  <2>4. \A i \in LogIds(tables) : ~(i <= 0)
    BY DEF TablesSound
  <2>5. ReadsSound(y, tables)
    BY <1>1, <1>2, <2>2, <2>3, <2>4 DEF ReadsSound
  <2> QED BY <2>3, <2>5 DEF ExportSound, PuttingSteps
<1>4. CASE x.at = 5
  <2>1. y = [x EXCEPT !.step = "releases"]
    BY <1>4, FiveTables
  <2>2. /\ DOMAIN y = DOMAIN Unstarted /\ y.got = x.got /\ y.step = "releases"
        /\ y.known = x.known
    BY <1>1, <2>1 DEF Unstarted
  <2>3. Answers(x.got, x.known)
    BY <1>4 DEF ReadsSound
  <2>4. ReadsSound(y, tables)
    BY <1>1, <2>2, <2>3 DEF ReadsSound
  <2> QED BY <2>2, <2>4 DEF ExportSound, PuttingSteps
<1> QED BY <1>1, <1>3, <1>4

(* One query of an export.                                                 *)
LEMMA ReadKeeps ==
  ASSUME BackupInv, NEW e \in Exporters, ReadPage(e)
  PROVE  BackupInv'
<1>. DEFINE x == exports[e]
            t == TableOrder[x.at]
            page == PageAfter(t, x.after)
            y == IF page # {}
                 THEN [x EXCEPT !.got[t] = @ \cup page, !.after = Highest({r.id : r \in page})]
                 ELSE IF x.at < Cardinality(DOMAIN TableOrder)
                      THEN [x EXCEPT !.at = @ + 1, !.after = 0]
                      ELSE [x EXCEPT !.step = "releases"]
<1>1. x.step = "rows" /\ exports' = [exports EXCEPT ![e] = y] /\ UNCHANGED <<tables, bucket>>
  BY DEF ReadPage, StepOf
<1>2. TablesSound(tables) /\ ReadsSound(x, tables)
  BY <1>1 DEF BackupInv, ExportSound, ReadingSteps
<1>3. ExportSound(y, tables)
  <2>1. CASE page # {}
    <3>1. y = [x EXCEPT !.got[t] = @ \cup page, !.after = Highest({r.id : r \in page})]
      BY <2>1
    <3>. HIDE DEF y
    <3> QED BY <1>1, <1>2, <2>1, <3>1, ReadFills
  <2>2. CASE page = {}
    <3>1. y = IF x.at < Cardinality(DOMAIN TableOrder)
              THEN [x EXCEPT !.at = @ + 1, !.after = 0]
              ELSE [x EXCEPT !.step = "releases"]
      BY <2>2
    <3>. HIDE DEF y
    <3> QED BY <1>1, <1>2, <2>2, <3>1, ReadMoves
  <2> QED BY <2>1, <2>2
<1>. HIDE DEF y
<1> QED BY <1>1, <1>3, OneExport

(* The queries after the tables: what was read stays.                      *)
LEMMA QueriesKeep ==
  ASSUME BackupInv, NEW e \in Exporters, ReadReleases(e) \/ ReadPointer(e)
  PROVE  BackupInv'
<1>. DEFINE x == exports[e]
<1>1. PICK y : /\ exports' = [exports EXCEPT ![e] = y]
               /\ \/ y = [x EXCEPT !.step = "pointer", !.served = activatedAt]
                  \/ y = [x EXCEPT !.step = "renames", !.active = pointer]
  BY DEF ReadReleases, ReadPointer, StepOf
<1>2. x.step \in {"releases", "pointer"} /\ UNCHANGED <<tables, bucket>>
  BY DEF ReadReleases, ReadPointer
<1>3. ReadsSound(x, tables)
  BY <1>2 DEF BackupInv, ExportSound, ReadingSteps
<1>4. /\ DOMAIN y = DOMAIN x /\ y.step \in {"pointer", "renames"} /\ y.got = x.got
      /\ y.known = x.known
  BY <1>1, <1>3 DEF ReadsSound, Unstarted
<1>5. ReadsSound(y, tables)
  BY <1>2, <1>3, <1>4 DEF ReadsSound
<1>6. ExportSound(y, tables)
  BY <1>4, <1>5 DEF ExportSound, PuttingSteps
<1> QED BY <1>1, <1>2, <1>6, OneExport

(* What is put is what was read, so its states have their answers.         *)
LEMMA ManifestKeeps ==
  ASSUME BackupInv, NEW e \in Exporters, ReadRenames(e)
  PROVE  BackupInv'
<1>. DEFINE x == exports[e]
            manifest == ManifestOf(x, renames)
            y == [step |-> "data", manifest |-> manifest, known |-> x.known,
                  disturbed |-> x.disturbed, walkable |-> Walkable(renames, x.got)]
<1>1. x.step = "renames" /\ exports' = [exports EXCEPT ![e] = y] /\ UNCHANGED <<tables, bucket>>
  BY DEF ReadRenames, StepOf
<1>2. Answers(x.got, x.known)
  BY <1>1 DEF BackupInv, ExportSound, ReadingSteps, ReadsSound
<1>3. manifest.hash = x.got
  BY DEF ManifestOf
<1>. HIDE DEF manifest
<1>4. /\ DOMAIN y = {"step", "manifest", "known", "disturbed", "walkable"} /\ y.step = "data"
      /\ y.manifest = manifest /\ y.known = x.known
  OBVIOUS
<1>. HIDE DEF y
<1>5. ExportSound(y, tables)
  BY <1>2, <1>3, <1>4 DEF ExportSound, ReadingSteps
<1> QED BY <1>1, <1>5, OneExport

(* The two puts, of which either may be the last.                          *)
LEMMA PutsKeep ==
  ASSUME BackupInv, NEW e \in Exporters, PutData(e) \/ PutManifest(e) \/ ExportDies(e)
  PROVE  BackupInv'
<1>. DEFINE x == exports[e]
            ended == [step |-> "ended"]
<1>1. ended.step = "ended"
  OBVIOUS
<1>. HIDE DEF ended
<1>2. ExportSound(ended, tables)
  BY <1>1 DEF ExportSound, ReadingSteps, PuttingSteps
<1>3. x.step \in PuttingSteps =>
        /\ DOMAIN x = {"step", "manifest", "known", "disturbed", "walkable"}
        /\ Answers(x.manifest.hash, x.known)
  BY DEF BackupInv, ExportSound
<1>4. \A y : ExportSound(y, tables) /\ exports' = [exports EXCEPT ![e] = y] =>
        DOMAIN exports' = Exporters /\ \A f \in Exporters : ExportSound(exports'[f], tables)
  BY DEF BackupInv
<1>5. CASE PutData(e)
  <2>. DEFINE y == [x EXCEPT !.step = "manifest"]
  <2>1. /\ exports' = [exports EXCEPT ![e] = y] /\ x.step = "data" /\ tables' = tables
        /\ bucket' = [bucket EXCEPT !.data = x.manifest.hash]
    BY <1>5 DEF PutData, StepOf
  <2>2. y.step = "manifest" /\ y.manifest = x.manifest /\ y.known = x.known /\ DOMAIN y = DOMAIN x
    BY <1>3, <2>1 DEF PuttingSteps
  <2>. HIDE DEF y
  <2>3. ExportSound(y, tables)
    BY <1>3, <2>1, <2>2 DEF ExportSound, ReadingSteps, PuttingSteps
  <2>4. DOMAIN bucket' = {"data", "manifest"} /\ bucket'.manifest = bucket.manifest
    BY <2>1 DEF BackupInv
  <2> QED BY <1>4, <2>1, <2>3, <2>4 DEF BackupInv
<1>6. CASE PutManifest(e)
  <2>1. /\ exports' = [exports EXCEPT ![e] = ended] /\ x.step = "manifest" /\ tables' = tables
        /\ bucket' = [bucket EXCEPT !.manifest = x]
    BY <1>6 DEF PutManifest, StepOf, ended
  <2>2. DOMAIN bucket' = {"data", "manifest"} /\ bucket'.manifest = x
    BY <2>1 DEF BackupInv
  <2> QED BY <1>2, <1>3, <1>4, <2>1, <2>2 DEF BackupInv, PuttingSteps
<1>7. CASE ExportDies(e)
  <2>1. exports' = [exports EXCEPT ![e] = ended] /\ UNCHANGED <<tables, bucket>>
    BY <1>7 DEF ExportDies, StepOf, ended
  <2> QED BY <1>2, <2>1, OneExport
<1> QED BY <1>5, <1>6, <1>7

(* The invariant holds of the empty tables.                                *)
LEMMA BackupInits ==
  ASSUME BackupInit
  PROVE  BackupInv
<1>1. PICK u \in Learners, rel \in ReleaseIds :
        tables \in {Started(u, rel)} \cup
                     {Answered(u, rel, key, Sink(renames, key)) : key \in Offered[rel]}
  BY DEF BackupInit
<1>. DEFINE S == Started(u, rel)
            users == {[id |-> 1, user |-> u]}
            sessions == {[id |-> 1, user |-> u, release |-> rel]}
<1>2. S = [NoPersonalRows EXCEPT !["app_user"] = users, !["study_session"] = sessions]
  BY DEF Started
<1>. HIDE DEF users, sessions, S
<1>3. DOMAIN S = TableNames /\ S["review_log"] = {} /\ S["card_state"] = {}
  BY <1>2, FiveTables DEF NoPersonalRows
<1>4. TablesSound(tables)
  <2>1. CASE tables = S
    <3>1. LogIds(tables) = 1 .. 0 /\ StateEvents(tables) = {} /\ 0 \in Nat
      BY <1>3, <2>1 DEF LogIds, StateEvents
    <3>2. IsFiniteSet(tables["review_log"])
      BY <1>3, <2>1, FS_EmptySet
    <3> QED BY <1>3, <2>1, <3>1, <3>2 DEF TablesSound
  <2>2. CASE \E key \in Offered[rel] : tables = Answered(u, rel, key, Sink(renames, key))
    <3>1. PICK key \in Offered[rel] : tables = Answered(u, rel, key, Sink(renames, key))
      BY <2>2
    <3>. DEFINE root == Sink(renames, key)
                word == {[id |-> 1, user |-> u, key |-> root, introduced |-> rel]}
                card == [id |-> 1, user |-> u, key |-> root, event |-> 1]
                row == [id |-> 1, user |-> u, key |-> root, presented |-> key, release |-> rel,
                        before |-> {}, undone |-> FALSE]
    <3>2. tables = [S EXCEPT !["word_progress"] = word, !["card_state"] = {card},
                             !["review_log"] = {row}]
      BY <3>1 DEF Answered, S
    <3>3. /\ card.event = 1 /\ "event" \in DOMAIN card
          /\ row.id = 1 /\ row.before = {} /\ {"id", "before"} \subseteq DOMAIN row
      OBVIOUS
    <3>. HIDE DEF word, card, row
    <3>4. /\ DOMAIN tables = TableNames /\ tables["review_log"] = {row}
          /\ tables["card_state"] = {card}
      BY <1>3, <3>2, FiveTables
    <3>5. LogIds(tables) = {1} /\ StateEvents(tables) = {1}
      BY <3>3, <3>4 DEF LogIds, StateEvents
    <3>6. IsFiniteSet(tables["review_log"])
      BY <3>4, FS_Singleton
    <3>7. \E n \in Nat : LogIds(tables) = 1 .. n
      <4>1. 1 .. 1 = {1} /\ 1 \in Nat
        OBVIOUS
      <4> QED BY <3>5, <4>1
    <3> QED BY <3>3, <3>4, <3>5, <3>6, <3>7 DEF TablesSound
  <2> QED BY <1>1, <2>1, <2>2 DEF S
<1>5. Unstarted.step = "none"
  BY DEF Unstarted
<1>6. ExportSound(Unstarted, tables)
  BY <1>5 DEF ExportSound, ReadingSteps, PuttingSteps
<1>7. exports = [e \in Exporters |-> Unstarted] /\ bucket = [data |-> Nothing, manifest |-> Nothing]
  BY DEF BackupInit
<1> QED BY <1>4, <1>6, <1>7 DEF BackupInv

(* Every step keeps the invariant.                                         *)
LEMMA BackupSteps ==
  ASSUME BackupInv, [BackupNext]_backupVars
  PROVE  BackupInv'
<1>1. CASE UNCHANGED backupVars
  BY <1>1 DEF BackupInv, backupVars
<1>2. CASE \/ \E user \in Learners : Begin(user) \/ Seed(user)
           \/ ActivationNext
  BY <1>2, OthersKeep
<1>3. CASE \E opened \in tables["study_session"], key \in StableKeys : GradeCard(opened, key)
  BY <1>3, GradeKeeps
<1>4. CASE \E row \in tables["review_log"] : UndoNewest(row)
  BY <1>4, UndoKeeps
<1>5. CASE \E e \in Exporters : StartExport(e)
  BY <1>5, StartKeeps
<1>6. CASE \E e \in Exporters : ReadPage(e)
  BY <1>6, ReadKeeps
<1>7. CASE \E e \in Exporters : ReadReleases(e) \/ ReadPointer(e)
  BY <1>7, QueriesKeep
<1>8. CASE \E e \in Exporters : ReadRenames(e)
  BY <1>8, ManifestKeeps
<1>9. CASE \E e \in Exporters : PutData(e) \/ PutManifest(e) \/ ExportDies(e)
  BY <1>9, PutsKeep
<1> QED BY <1>1, <1>2, <1>3, <1>4, <1>5, <1>6, <1>7, <1>8, <1>9
       DEF AccountsNext, ExportNext, BackupNext

(* However far each export has come, it has every answer it began with and *)
(* that of every state it read, once it has read the log                   *)
(* (export.ts:178-219).                                                    *)
THEOREM BackupInvariance == BackupSpec => []BackupInv
<1>1. BackupInit => BackupInv
  BY BackupInits
<1>2. BackupInv /\ [BackupNext]_backupVars => BackupInv'
  BY BackupSteps
<1> QED BY <1>1, <1>2, PTL DEF BackupSpec

(* A drill that passes has restored every answer that was logged before    *)
(* the export of its manifest began, and every card state together with    *)
(* the answer that made it, for any learners, pages, overlapping and dying *)
(* runs (export.ts:178-219, 320-325, restore.ts:150-157).                  *)
THEOREM DrillsRestoreAnswers == BackupSpec => []RestoredHasItsAnswers
<1>1. BackupInv => RestoredHasItsAnswers
  BY DEF BackupInv, RestoredHasItsAnswers, DrillPasses, HashMatches, Answers, LogIds, StateEvents
<1> QED BY <1>1, BackupInvariance, PTL

(***************************************************************************)
(* A finished export restores.                                             *)
(***************************************************************************)

(***************************************************************************)
(* Walks. The edges that lead on from some keys are taken as they stand,   *)
(* so a walk along them goes where a walk along all renames goes, and what *)
(* the worker finds sound there is sound in the restored database.         *)
(***************************************************************************)
IsWalk(at, E, key) ==
  at = [n \in 0 .. Length |->
          IF n = 0 THEN {key}
          ELSE at[n - 1] \cup {e.to : e \in {f \in E : f.from \in at[n - 1]}}]
Walk(E, key) == CHOOSE at : IsWalk(at, E, key)

(* The edges that go on from keys of K lead to keys of K.                  *)
Onward(E, K) == \A e \in E : e.from \in K => e.to \in K

(* A walk goes on from its key as far as there is to go, and no further.   *)
LEMMA Walks ==
  ASSUME NEW E, Joins(E), NEW key \in StableKeys
  PROVE  /\ key \in Walked(E, key) /\ Walked(E, key) \subseteq StableKeys
         /\ Onward(E, Walked(E, key))
         /\ \A S \in SUBSET StableKeys :
              key \in S /\ Onward(E, S) => Walked(E, key) \subseteq S
<1>. DEFINE N == Length
            Further(S) == S \cup {e.to : e \in {f \in E : f.from \in S}}
            next == [S \in SUBSET StableKeys |-> Further(S)]
<1>1. N \in Nat
  BY LengthIsNat
<1>2. next \in [SUBSET StableKeys -> SUBSET StableKeys]
  BY DEF Joins
<1>. HIDE DEF N, next
<1>3. PICK w : Iteration(w, N, SUBSET StableKeys, {key}, next)
  BY <1>1, <1>2, Iterates
<1>4. /\ w \in [0 .. N -> SUBSET StableKeys] /\ w[0] = {key}
      /\ \A i \in 0 .. N : i # N => w[i + 1] = next[w[i]]
  BY <1>3 DEF Iteration
<1>5. ASSUME NEW n \in 0 .. N, n # 0
      PROVE  w[n] = Further(w[n - 1])
  <2>1. n - 1 \in 0 .. N /\ n - 1 # N /\ n - 1 + 1 = n
    BY <1>1, <1>5
  <2>2. w[n] = next[w[n - 1]] /\ w[n - 1] \in SUBSET StableKeys
    BY <1>4, <2>1
  <2> QED BY <2>2 DEF next
<1>6. \A n \in 0 .. N : w[n] = IF n = 0 THEN {key} ELSE Further(w[n - 1])
  BY <1>4, <1>5
<1>7. IsWalk(w, E, key)
  BY <1>4, <1>6 DEF IsWalk, N
<1>8. IsWalk(Walk(E, key), E, key)
  BY <1>7 DEF Walk
<1>. DEFINE u == Walk(E, key)
<1>9. u = [n \in 0 .. N |-> IF n = 0 THEN {key} ELSE Further(u[n - 1])]
  BY <1>8 DEF IsWalk, N
<1>10. Walked(E, key) = u[N]
  BY DEF Walked, Walk, IsWalk, N, Length
<1>. HIDE DEF u
<1>11. u[0] = {key}
  BY <1>1, <1>9
<1>12. ASSUME NEW n \in 0 .. N, n # N
       PROVE  u[n + 1] = Further(u[n])
  <2>1. n + 1 \in 0 .. N /\ n + 1 # 0 /\ n + 1 - 1 = n
    BY <1>1, <1>12
  <2>. DEFINE v == [m \in 0 .. N |-> IF m = 0 THEN {key} ELSE Further(u[m - 1])]
  <2>2. v[n + 1] = Further(u[n])
    BY <2>1
  <2>3. u = v
    BY <1>9
  <2> QED BY <2>2, <2>3
<1>13. IsFiniteSet(StableKeys)
  BY AliasAssumption
<1>. DEFINE P == {n \in 0 .. N : /\ key \in u[n] /\ u[n] \subseteq StableKeys
                                 /\ Onward(E, u[n]) \/ Cardinality(u[n]) > n}
<1>14. 0 \in P
  <2>1. Cardinality(u[0]) > 0
    <3>1. Cardinality({key}) = 1
      BY FS_Singleton
    <3> QED BY <1>11, <3>1
  <2>2. key \in u[0] /\ u[0] \subseteq StableKeys
    BY <1>11
  <2> QED BY <1>1, <2>1, <2>2
<1>15. ASSUME NEW n \in P, n \in 0 .. N, n # N
       PROVE  n + 1 \in P
  <2>. DEFINE S == u[n]
              T == Further(S)
  <2>1. /\ key \in S /\ S \subseteq StableKeys
        /\ Onward(E, S) \/ Cardinality(S) > n
    BY <1>15
  <2>2. u[n + 1] = T /\ n + 1 \in 0 .. N
    BY <1>1, <1>12, <1>15
  <2>. HIDE DEF S
  <2>3. S \subseteq T /\ T \subseteq StableKeys
    BY <2>1 DEF Joins
  <2>4. CASE Onward(E, S)
    <3>1. T = S
      BY <2>4 DEF Onward
    <3> QED BY <2>1, <2>2, <2>4, <3>1
  <2>5. CASE ~Onward(E, S) /\ Cardinality(S) > n
    <3>1. S # T
      BY <2>5 DEF Onward
    <3>2. IsFiniteSet(T) /\ IsFiniteSet(S)
      BY <1>13, <2>1, <2>3, FS_Subset
    <3>. HIDE DEF T
    <3>3. Cardinality(S) < Cardinality(T)
      <4>1. Cardinality(S) <= Cardinality(T)
        BY <2>3, <3>2, FS_Subset
      <4>2. Cardinality(S) # Cardinality(T)
        BY <2>3, <3>1, <3>2, FS_Subset
      <4> QED BY <3>2, <4>1, <4>2, FS_CardinalityType
    <3>4. Cardinality(T) > n + 1
      BY <1>1, <2>5, <3>2, <3>3, FS_CardinalityType
    <3> QED BY <2>1, <2>2, <2>3, <3>4
  <2> QED BY <2>1, <2>4, <2>5
<1>16. N \in P
  <2>1. \A n \in 0 .. N : n \in P
    <3>. HIDE DEF P
    <3> QED BY <1>1, <1>14, <1>15, StepByStep
  <2> QED BY <1>1, <2>1
<1>17. ~(Cardinality(u[N]) > N)
  <2>1. u[N] \subseteq StableKeys
    BY <1>16
  <2>2. Cardinality(u[N]) <= Cardinality(StableKeys) /\ IsFiniteSet(u[N])
    BY <1>13, <2>1, FS_Subset
  <2> QED BY <1>1, <2>2, FS_CardinalityType DEF N, Length
<1>18. ASSUME NEW S \in SUBSET StableKeys, key \in S, Onward(E, S)
       PROVE  u[N] \subseteq S
  <2>. DEFINE Q == {n \in 0 .. N : u[n] \subseteq S}
  <2>1. 0 \in Q
    BY <1>1, <1>11, <1>18
  <2>2. ASSUME NEW n \in Q, n \in 0 .. N, n # N
        PROVE  n + 1 \in Q
    <3>1. u[n + 1] = Further(u[n]) /\ n + 1 \in 0 .. N
      BY <1>1, <1>12, <2>2
    <3> QED BY <1>18, <2>2, <3>1 DEF Onward
  <2>3. \A n \in 0 .. N : n \in Q
    <3>. HIDE DEF Q
    <3> QED BY <1>1, <2>1, <2>2, StepByStep
  <2> QED BY <1>1, <2>3
<1> QED BY <1>10, <1>16, <1>17, <1>18

(* Chains end at stable keys.                                              *)
LEMMA SinkIsKey ==
  ASSUME NEW E \in SUBSET AliasRows, NEW key \in StableKeys
  PROVE  Sink(E, key) \in StableKeys
<1>1. Joins(E)
  BY RowsJoin
<1>2. \A k \in StableKeys : Successor(E, k) \in StableKeys
  BY <1>1 DEF Successor, Out, Joins
<1>3. Passed(E, key) \subseteq StableKeys
  BY <1>1, <1>2, WaysAgree
<1>4. Sink(E, key) = Way(E, key)[Length]
  BY <1>1, Ways
<1>5. Sink(E, key) \in Passed(E, key)
  BY <1>4, LengthIsNat DEF Passed
<1> QED BY <1>3, <1>5

(* The successor of a key has the sink of the key, if that is one.         *)
LEMMA SinkOfSuccessor ==
  ASSUME NEW E, Joins(E), NEW key \in StableKeys, Out(E, Sink(E, key)) = {}
  PROVE  Sink(E, Successor(E, key)) = Sink(E, key)
<1>. DEFINE next == Successor(E, key)
            v == Way(E, key)
            w == Way(E, next)
            P == {n \in 0 .. Length : w[n] = Successor(E, v[n])}
<1>1. next \in StableKeys
  BY DEF Successor, Out, Joins
<1>2. /\ v[0] = key /\ Sink(E, key) = v[Length]
      /\ \A n \in 0 .. Length : n # Length => v[n + 1] = Successor(E, v[n])
  BY Ways
<1>3. /\ w[0] = next /\ Sink(E, next) = w[Length]
      /\ \A n \in 0 .. Length : n # Length => w[n + 1] = Successor(E, w[n])
  <2>. HIDE DEF next
  <2> QED BY <1>1, Ways
<1>4. Length \in Nat
  BY LengthIsNat
<1>5. w[0] = Successor(E, v[0])
  BY <1>2, <1>3
<1>. HIDE DEF v, w, next
<1>6. 0 \in P
  BY <1>4, <1>5
<1>7. ASSUME NEW n \in P, n \in 0 .. Length, n # Length
      PROVE  n + 1 \in P
  <2>1. w[n + 1] = Successor(E, w[n]) /\ v[n + 1] = Successor(E, v[n]) /\ w[n] = Successor(E, v[n])
    BY <1>2, <1>3, <1>7
  <2> QED BY <1>4, <1>7, <2>1
<1>8. \A n \in 0 .. Length : n \in P
  <2>. HIDE DEF P
  <2> QED BY <1>4, <1>6, <1>7, StepByStep
<1>9. w[Length] = Successor(E, v[Length])
  BY <1>4, <1>8
<1>10. Successor(E, Sink(E, key)) = Sink(E, key)
  BY DEF Successor
<1> QED BY <1>2, <1>3, <1>9, <1>10 DEF next

(* All keys that a sound walk passes lead to its sink.                     *)
LEMMA WalkHasOneSink ==
  ASSUME NEW E \in SUBSET AliasRows, NEW key \in StableKeys, Resolves(E, key),
         NEW k \in Walked(E, key)
  PROVE  Sink(E, k) = Sink(E, key)
<1>. DEFINE W == Walked(E, key)
            r == Sink(E, key)
            S == {x \in W : Sink(E, x) = r}
<1>1. Joins(E)
  BY RowsJoin
<1>2. key \in W /\ W \subseteq StableKeys /\ Onward(E, W)
  BY <1>1, Walks
<1>3. /\ \A e \in E, f \in E : e.from \in W /\ e.from = f.from => e = f
      /\ Out(E, r) = {}
  BY DEF Resolves
<1>. HIDE DEF W, r
<1>4. ASSUME NEW e \in E, e.from \in S
      PROVE  e.to \in S
  <2>1. e.from \in W /\ Sink(E, e.from) = r /\ e.from \in StableKeys
    BY <1>2, <1>4
  <2>2. e.to \in W
    BY <1>2, <2>1 DEF Onward
  <2>3. Successor(E, e.from) = e.to
    <3>1. \A f \in Out(E, e.from) : f = e
      BY <1>3, <2>1 DEF Out
    <3>2. e \in Out(E, e.from)
      BY DEF Out
    <3>3. (CHOOSE f \in Out(E, e.from) : TRUE) = e
      BY <3>1, <3>2
    <3> QED BY <3>2, <3>3 DEF Successor
  <2>4. Sink(E, e.to) = r
    BY <1>1, <1>3, <2>1, <2>3, SinkOfSuccessor
  <2> QED BY <2>2, <2>4
<1>5. S \in SUBSET StableKeys /\ key \in S
  BY <1>2 DEF r
<1>. HIDE DEF S
<1>6. Onward(E, S)
  BY <1>4 DEF Onward
<1>7. W \subseteq S
  BY <1>1, <1>5, <1>6, Walks DEF W
<1>8. k \in S
  BY <1>7 DEF W
<1> QED BY <1>8 DEF S, r

(* Of edges the worker can walk from some keys, those that lead on from    *)
(* them lead to their roots without the others.                            *)
LEMMA ForwardEdges ==
  ASSUME NEW E \in SUBSET AliasRows, NEW K \in SUBSET StableKeys,
         \A key \in K : Resolves(E, key)
  PROVE  /\ Forward(E, K) \subseteq E
         /\ \A e \in Forward(E, K) : LeadsToItsRoot(Forward(E, K), e)
<1>. DEFINE F == Forward(E, K)
<1>1. F \subseteq E
  BY DEF Forward
<1>2. ASSUME NEW e \in F
      PROVE  LeadsToItsRoot(F, e)
  <2>1. PICK key \in K : e.from \in Walked(E, key)
    BY DEF Forward
  <2>. DEFINE W == Walked(E, key)
              r == Sink(E, key)
              x == e.from
  <2>2. Joins(E) /\ Joins(F) /\ F \in SUBSET AliasRows
    BY <1>1, RowsJoin
  <2>3. key \in W /\ W \subseteq StableKeys /\ Onward(E, W)
    BY <2>2, Walks
  <2>4. \A f \in E : f.from \in W => f \in F
    BY DEF Forward
  <2>5. /\ \A f \in E, g \in E : f.from \in W /\ f.from = g.from => f = g
        /\ Out(E, r) = {} /\ \A f \in E : f.from \in W => f.canonical = r
    BY DEF Resolves
  <2>6. Sink(E, x) = r
    BY <2>1, WalkHasOneSink
  <2>. HIDE DEF F, W, r
  <2>7. Onward(F, W)
    BY <1>1, <2>3 DEF Onward
  <2>8. x \in W /\ x \in StableKeys
    BY <2>1, <2>3 DEF W
  <2>. HIDE DEF x
  <2>9. Walked(F, x) \subseteq W
    BY <2>2, <2>3, <2>7, <2>8, Walks
  <2>10. ASSUME NEW k \in W
         PROVE  Successor(F, k) = Successor(E, k) /\ Successor(E, k) \in W
    <3>1. Out(F, k) = Out(E, k)
      BY <1>1, <2>4 DEF Out
    <3>2. Successor(F, k) = Successor(E, k)
      BY <3>1 DEF Successor
    <3>3. Successor(E, k) \in W
      BY <2>3 DEF Successor, Out, Onward
    <3> QED BY <3>2, <3>3
  <2>11. Sink(F, x) = r
    BY <2>2, <2>3, <2>6, <2>8, <2>10, WaysAgree
  <2>12. Out(F, r) = {}
    BY <1>1, <2>5 DEF Out
  <2>13. Resolves(F, x)
    BY <1>1, <2>5, <2>9, <2>11, <2>12 DEF Resolves
  <2>14. e.canonical = r
    BY <1>1, <2>1, <2>5 DEF W
  <2> QED BY <2>11, <2>13, <2>14 DEF LeadsToItsRoot, x
<1> QED BY <1>1, <1>2

(* The rows of a batch are such edges, one from and one to a key.          *)
LEMMA BatchRows ==
  ASSUME NEW B \in OfferedBatches
  PROVE  Rows(B) \subseteq AliasRows /\ UniqueEdges(Rows(B))
<1>1. B \subseteq Declarable(Offered) /\ ValidBatch(B)
  BY DEF OfferedBatches, BatchesOf
<1>2. ASSUME NEW b \in B
      PROVE  Row(b) \in AliasRows
  <2>1. PICK p \in Presented(Offered), q \in Presented(Offered), r \in StableKeys :
          b = [rel |-> p[1], from |-> p[2], toRel |-> q[1], to |-> q[2], canonical |-> r]
    BY <1>1 DEF Declarable
  <2> QED BY <2>1 DEF Presented, Row, AliasRows
<1>3. ASSUME NEW b \in B, NEW c \in B, b.rel = c.rel, b.from = c.from \/ b.to = c.to
      PROVE  Row(b) = Row(c)
  <2>1. b.from = c.from /\ b.to = c.to
    BY <1>1, <1>3 DEF ValidBatch, OneToOne
  <2>2. b.canonical = c.canonical
    BY <1>1, <2>1 DEF ValidBatch, EndsAtItsRoot
  <2> QED BY <1>3, <2>1, <2>2 DEF Row
<1>4. ASSUME NEW e \in Rows(B), NEW f \in Rows(B), e.rel = f.rel, e.from = f.from \/ e.to = f.to
      PROVE  e = f
  <2>1. PICK b \in B : e = Row(b)
    BY DEF Rows
  <2>2. PICK c \in B : f = Row(c)
    BY DEF Rows
  <2>3. /\ e.rel = b.rel /\ e.from = b.from /\ e.to = b.to
        /\ f.rel = c.rel /\ f.from = c.from /\ f.to = c.to
    BY <2>1, <2>2 DEF Row
  <2> QED BY <1>3, <1>4, <2>1, <2>2, <2>3
<1> QED BY <1>2, <1>4 DEF Rows, UniqueEdges

-------------------------------------------------------------------------------
UserRows == [id : Nat, user : Learners]
WordRows == [id : Nat, user : Learners, key : StableKeys,
             introduced : ReleaseIds \cup {Nothing}]
StateRows == [id : Nat, user : Learners, key : StableKeys, event : Nat]
LogRows == [id : Nat, user : Learners, key : StableKeys, presented : StableKeys,
            release : ReleaseIds, before : SUBSET Nat, undone : BOOLEAN]
SessionRows == [id : Nat, user : Learners, release : ReleaseIds]

RowsTyped(T) ==
  /\ DOMAIN T = TableNames
  /\ T["app_user"] \subseteq UserRows /\ T["word_progress"] \subseteq WordRows
  /\ T["card_state"] \subseteq StateRows /\ T["review_log"] \subseteq LogRows
  /\ T["study_session"] \subseteq SessionRows

UsersOf(T) == {r.user : r \in T["app_user"]}
OneEach(S) == \A r \in S, s \in S : r.id = s.id => r = s
Keyed(S) == UniquePerUser(S) /\ Numbered(S) /\ OneEach(S)

TablesFit(T) ==
  /\ RowsTyped(T)
  /\ IsFiniteSet(T["app_user"]) /\ Numbered(T["app_user"]) /\ Numbered(T["study_session"])
  /\ Keyed(T["word_progress"]) /\ Keyed(T["card_state"])
  /\ \A t \in TableNames : \A r \in T[t] : r.user \in UsersOf(T)
  /\ \A r \in T["review_log"] : \A b \in r.before, c \in r.before : b = c

SameRow(r, s) == r.id = s.id /\ r.user = s.user /\ r.key = s.key

(* A table of words or states, read up to a row while the table is S.      *)
ReadOf(got, S) ==
  /\ \A r \in got : \E s \in S : SameRow(r, s)
  /\ OneEach(got)

(* What an undisturbed export has read fits the tables: all users once the *)
(* next table is read, and of the words and states no two rows of a key.   *)
ReadsFit(x, T) ==
  /\ RowsTyped(x.got) /\ x.after \in Nat
  /\ \A t \in TableNames : \A r \in x.got[t] : r.user \in UsersOf(T)
  /\ x.step = "rows" /\ x.at = 1 =>
       \A r \in T["app_user"] : r.id <= x.after => r \in x.got["app_user"]
  /\ x.step # "rows" \/ x.at # 1 => UsersOf(T) \subseteq UsersOf(x.got)
  /\ \A i \in {2, 3} :
       /\ ReadOf(x.got[TableOrder[i]], T[TableOrder[i]])
       /\ x.step = "rows" /\ x.at = i => \A r \in x.got[TableOrder[i]] : r.id <= x.after
       /\ x.step = "rows" /\ x.at < i => x.got[TableOrder[i]] = {}
  /\ x.step = "renames" => x.active \in ReleaseIds

ManifestFits(m) == ImportSucceeds(m, m.hash) /\ m.required \subseteq ReleaseIds

ExportFits(x, T) ==
  /\ x.step \in ReadingSteps /\ ~x.disturbed => ReadsFit(x, T)
  /\ x.step \in PuttingSteps /\ ~x.disturbed /\ x.walkable => ManifestFits(x.manifest)

(* Of one release, no two stored renames share a key on either side; and   *)
(* the activation under way has rows of its own to store.                  *)
ActivationRows == [step : {"none", "renames", "pointer"}, rel : ReleaseIds \cup {Nothing},
                   todo : SUBSET AliasRows, count : Nat]
StoredFit ==
  /\ pointer \in ReleaseIds
  /\ renames \in SUBSET AliasRows /\ UniqueEdges(renames)
  /\ activation \in ActivationRows
  /\ activation.step # "none" => activation.rel \in ReleaseIds

FinishInv ==
  /\ TablesFit(tables) /\ StoredFit
  /\ \A e \in Exporters : ExportFits(exports[e], tables)
  /\ bucket.manifest # Nothing /\ ~bucket.manifest.disturbed /\ bucket.manifest.walkable =>
       ManifestFits(bucket.manifest.manifest)

(* The rows of words and states stay, and the users are the same.          *)
Keeps(T, U) ==
  /\ U["app_user"] = T["app_user"]
  /\ \A i \in {2, 3} : \A r \in T[TableOrder[i]] : \E s \in U[TableOrder[i]] : SameRow(r, s)

(* What fits the tables fits them when their rows stay.                    *)
LEMMA FitsStill ==
  ASSUME NEW T, NEW U, Keeps(T, U), NEW x, ExportFits(x, T)
  PROVE  ExportFits(x, U)
<1>1. ASSUME ReadsFit(x, T)
      PROVE  ReadsFit(x, U)
  <2>1. UsersOf(U) = UsersOf(T)
    BY DEF Keeps, UsersOf
  <2>2. ASSUME NEW i \in {2, 3}
        PROVE  ReadOf(x.got[TableOrder[i]], U[TableOrder[i]])
    <3>1. ReadOf(x.got[TableOrder[i]], T[TableOrder[i]])
      BY <1>1 DEF ReadsFit
    <3> QED BY <3>1 DEF ReadOf, Keeps, SameRow
  <2> QED BY <1>1, <2>1, <2>2 DEF ReadsFit, Keeps
<1> QED BY <1>1 DEF ExportFits

(* The exports, when the learners or the tool write.                       *)
LEMMA WritesKeepFit ==
  ASSUME BackupInv, FinishInv, TablesFit(tables'),
         UNCHANGED <<renames, pointer, activation, bucket>>,
         (UNCHANGED exports /\ Keeps(tables, tables')) \/ Disturb
  PROVE  FinishInv'
<1>1. ASSUME NEW e \in Exporters
      PROVE  ExportFits(exports'[e], tables')
  <2>1. ExportFits(exports[e], tables)
    BY DEF FinishInv
  <2>2. CASE UNCHANGED exports /\ Keeps(tables, tables')
    BY <2>1, <2>2, FitsStill
  <2>3. CASE Disturb
    <3>1. CASE exports[e].step \in ReadingSteps
      <4>1. exports'[e] = [exports[e] EXCEPT !.disturbed = TRUE]
        BY <2>3, <3>1 DEF Disturb, Reading, ReadingSteps
      <4>2. DOMAIN exports[e] = DOMAIN Unstarted
        BY <3>1 DEF BackupInv, ExportSound, ReadsSound
      <4>3. exports'[e].disturbed /\ exports'[e].step = exports[e].step
        BY <4>1, <4>2 DEF Unstarted
      <4> QED BY <3>1, <4>3 DEF ExportFits, ReadingSteps, PuttingSteps
    <3>2. CASE exports[e].step \notin ReadingSteps
      <4>1. exports'[e] = exports[e]
        BY <2>3, <3>2 DEF Disturb, Reading, ReadingSteps
      <4> QED BY <2>1, <3>2, <4>1 DEF ExportFits
    <3> QED BY <3>1, <3>2
  <2> QED BY <2>2, <2>3
<1> QED BY <1>1 DEF FinishInv, StoredFit

(* The number after the last.                                              *)
LEMMA NextIsNew ==
  ASSUME NEW t, Numbered(tables[t])
  PROVE  /\ NextRowId(t) \in Nat \ {0}
         /\ \A r \in tables[t] : r.id < NextRowId(t)
<1>1. PICK n \in Nat : \A r \in tables[t] : r.id \in 1 .. n
  BY DEF Numbered
<1>. DEFINE S == {r.id : r \in tables[t]}
<1>2. S \subseteq 1 .. n
  BY <1>1
<1>. HIDE DEF S
<1>3. Highest(S) \in Nat /\ \A m \in S : m <= Highest(S)
  BY <1>2, HighestOf
<1>4. NextRowId(t) = Highest(S) + 1
  BY DEF NextRowId, S
<1>5. \A r \in tables[t] : r.id \in S /\ r.id \in Nat
  BY <1>1 DEF S
<1> QED BY <1>3, <1>4, <1>5

(* A row under the next number.                                            *)
LEMMA NumberedInsert ==
  ASSUME NEW t, Numbered(tables[t]), NEW row, row.id = NextRowId(t)
  PROVE  Numbered(tables[t] \cup {row})
<1>1. row.id \in Nat \ {0}
  BY NextIsNew
<1>2. PICK n \in Nat : \A r \in tables[t] : r.id \in 1 .. n
  BY DEF Numbered
<1>. DEFINE m == n + row.id
<1>3. m \in Nat /\ \A r \in tables[t] \cup {row} : r.id \in 1 .. m
  BY <1>1, <1>2
<1> QED BY <1>3 DEF Numbered

(* A row of a key that had none, under the next number.                    *)
LEMMA KeyedInsert ==
  ASSUME NEW t, Keyed(tables[t]), NEW row, row.id = NextRowId(t),
         \A r \in tables[t] : ~(r.user = row.user /\ r.key = row.key)
  PROVE  Keyed(tables[t] \cup {row})
<1>. DEFINE S == tables[t]
<1>1. row.id \in Nat \ {0} /\ \A r \in S : r.id < row.id
  BY NextIsNew DEF Keyed
<1>2. PICK n \in Nat : \A r \in S : r.id \in 1 .. n
  BY DEF Keyed, Numbered
<1>3. Numbered(S \cup {row})
  BY NumberedInsert DEF Keyed
<1>4. OneEach(S \cup {row})
  <2>1. \A r \in S : r.id # row.id
    BY <1>1, <1>2
  <2> QED BY <2>1 DEF Keyed, OneEach
<1>5. UniquePerUser(S \cup {row})
  BY DEF Keyed, UniquePerUser
<1> QED BY <1>3, <1>4, <1>5 DEF Keyed

(* Rows that are changed in what is no key.                                *)
LEMMA KeyedChange ==
  ASSUME NEW S, Keyed(S), NEW U, \A u \in U : \E s \in S : SameRow(u, s), OneEach(U)
  PROVE  Keyed(U)
<1>1. Numbered(U)
  BY DEF Keyed, Numbered, SameRow
<1>2. UniquePerUser(U)
  <2>1. ASSUME NEW u \in U, NEW v \in U, u.user = v.user, u.key = v.key
        PROVE  u = v
    <3>1. PICK r \in S : SameRow(u, r)
      OBVIOUS
    <3>2. PICK s \in S : SameRow(v, s)
      OBVIOUS
    <3>3. r.user = s.user /\ r.key = s.key
      BY <2>1, <3>1, <3>2 DEF SameRow
    <3>4. r = s
      BY <3>3 DEF Keyed, UniquePerUser
    <3> QED BY <3>1, <3>2, <3>4 DEF SameRow, OneEach
  <2> QED BY <2>1 DEF UniquePerUser
<1> QED BY <1>1, <1>2 DEF Keyed

(* Rows that are changed one by one.                                       *)
LEMMA KeyedMap ==
  ASSUME NEW S, Keyed(S), NEW f, \A r \in S : SameRow(f[r], r)
  PROVE  Keyed({f[r] : r \in S})
<1>. DEFINE U == {f[r] : r \in S}
<1>1. \A u \in U : \E s \in S : SameRow(u, s)
  OBVIOUS
<1>2. OneEach(U)
  <2>1. ASSUME NEW r \in S, NEW s \in S, f[r].id = f[s].id
        PROVE  f[r] = f[s]
    BY <2>1 DEF SameRow, Keyed, OneEach
  <2> QED BY <2>1 DEF OneEach
<1>. HIDE DEF U
<1>3. Keyed(U)
  BY <1>1, <1>2, KeyedChange
<1> QED BY <1>3 DEF U

(* The state of a card and the row of its word, changed or inserted.       *)
LEMMA StateUpserted ==
  ASSUME NEW S, S = tables["card_state"], Keyed(S), S \subseteq StateRows, NEW user \in Learners,
         NEW key \in StableKeys, NEW event \in Nat, NEW U, U = UpsertState(user, key, event)
  PROVE  /\ Keyed(U) /\ U \subseteq StateRows
         /\ \A r \in S : \E s \in U : SameRow(r, s)
         /\ \A u \in U : u.user = user \/ \E s \in S : u.user = s.user
<1>1. CASE Own("card_state", user, key) = {}
  <2>. DEFINE row == [id |-> NextRowId("card_state"), user |-> user, key |-> key, event |-> event]
  <2>1. U = S \cup {row}
    BY <1>1 DEF UpsertState
  <2>2. NextRowId("card_state") \in Nat
    BY NextIsNew DEF Keyed
  <2>3. row \in StateRows /\ row.id = NextRowId("card_state") /\ row.user = user /\ row.key = key
    BY <2>2 DEF StateRows
  <2>. HIDE DEF row
  <2>4. \A r \in S : ~(r.user = row.user /\ r.key = row.key)
    BY <1>1, <2>3 DEF Own
  <2>5. Keyed(U)
    BY <2>1, <2>3, <2>4, KeyedInsert
  <2> QED BY <2>1, <2>3, <2>5 DEF SameRow
<1>2. CASE Own("card_state", user, key) # {}
  <2>. DEFINE f == [r \in S |-> IF r.user = user /\ r.key = key
                                THEN [r EXCEPT !.event = event] ELSE r]
  <2>1. U = {f[r] : r \in S}
    BY <1>2 DEF UpsertState
  <2>2. \A r \in S : f[r] \in StateRows /\ SameRow(f[r], r)
    BY DEF StateRows, SameRow
  <2>. HIDE DEF f
  <2>3. Keyed(U)
    BY <2>1, <2>2, KeyedMap
  <2>4. \A r \in S : \E s \in U : SameRow(r, s)
    BY <2>1, <2>2 DEF SameRow
  <2> QED BY <2>1, <2>2, <2>3, <2>4 DEF SameRow
<1> QED BY <1>1, <1>2

(* The row of a word, likewise.                                            *)
LEMMA WordUpserted ==
  ASSUME NEW S, S = tables["word_progress"], Keyed(S), S \subseteq WordRows, NEW user \in Learners,
         NEW key \in StableKeys, NEW rel \in ReleaseIds, NEW U, U = UpsertWord(user, key, rel)
  PROVE  /\ Keyed(U) /\ U \subseteq WordRows
         /\ \A r \in S : \E s \in U : SameRow(r, s)
         /\ \A u \in U : u.user = user \/ \E s \in S : u.user = s.user
<1>1. CASE Own("word_progress", user, key) = {}
  <2>. DEFINE row == [id |-> NextRowId("word_progress"), user |-> user, key |-> key,
                      introduced |-> rel]
  <2>1. U = S \cup {row}
    BY <1>1 DEF UpsertWord
  <2>2. NextRowId("word_progress") \in Nat
    BY NextIsNew DEF Keyed
  <2>3. row \in WordRows /\ row.id = NextRowId("word_progress") /\ row.user = user /\ row.key = key
    BY <2>2 DEF WordRows
  <2>. HIDE DEF row
  <2>4. \A r \in S : ~(r.user = row.user /\ r.key = row.key)
    BY <1>1, <2>3 DEF Own
  <2>5. Keyed(U)
    BY <2>1, <2>3, <2>4, KeyedInsert
  <2> QED BY <2>1, <2>3, <2>5 DEF SameRow
<1>2. CASE Own("word_progress", user, key) # {}
  <2>. DEFINE f == [r \in S |-> IF r.user = user /\ r.key = key /\ r.introduced = Nothing
                                THEN [r EXCEPT !.introduced = rel] ELSE r]
  <2>1. U = {f[r] : r \in S}
    BY <1>2 DEF UpsertWord
  <2>2. \A r \in S : f[r] \in WordRows /\ SameRow(f[r], r)
    BY DEF WordRows, SameRow
  <2>. HIDE DEF f
  <2>3. Keyed(U)
    BY <2>1, <2>2, KeyedMap
  <2>4. \A r \in S : \E s \in U : SameRow(r, s)
    BY <2>1, <2>2 DEF SameRow
  <2> QED BY <2>1, <2>2, <2>3, <2>4 DEF SameRow
<1> QED BY <1>1, <1>2

-------------------------------------------------------------------------------
(* A session, and an account.                                              *)
LEMMA BeginFits ==
  ASSUME BackupInv, FinishInv, NEW user \in Learners, Begin(user)
  PROVE  FinishInv'
<1>. DEFINE row == [id |-> NextRowId("study_session"), user |-> user, release |-> pointer]
<1>1. /\ tables' = [tables EXCEPT !["study_session"] = @ \cup {row}]
      /\ UNCHANGED <<renames, pointer, activation, exports, bucket>> /\ user \in UsersOf(tables)
  BY DEF Begin, UsersOf
<1>2. TablesFit(tables) /\ RowsTyped(tables) /\ DOMAIN tables = TableNames
  BY DEF FinishInv, TablesFit, RowsTyped
<1>3. Numbered(tables["study_session"])
  BY <1>2 DEF TablesFit
<1>4. NextRowId("study_session") \in Nat
  BY <1>3, NextIsNew
<1>5. row \in SessionRows /\ row.user = user /\ row.id = NextRowId("study_session")
  BY <1>4 DEF SessionRows, FinishInv, StoredFit
<1>. HIDE DEF row
<1>6. /\ DOMAIN tables' = TableNames
      /\ tables'["study_session"] = tables["study_session"] \cup {row}
      /\ \A t \in TableNames : t # "study_session" => tables'[t] = tables[t]
  BY <1>1, <1>2, FiveTables
<1>7. Numbered(tables'["study_session"])
  BY <1>3, <1>5, <1>6, NumberedInsert
<1>8. UsersOf(tables') = UsersOf(tables)
  BY <1>6, FiveTables DEF UsersOf
<1>9. RowsTyped(tables')
  BY <1>2, <1>5, <1>6, FiveTables DEF RowsTyped
<1>10. \A t \in TableNames : \A r \in tables'[t] : r.user \in UsersOf(tables')
  BY <1>1, <1>2, <1>5, <1>6, <1>8 DEF TablesFit
<1>11. TablesFit(tables')
  BY <1>2, <1>6, <1>7, <1>9, <1>10, FiveTables DEF TablesFit
<1>12. Keeps(tables, tables')
  <2>1. /\ TableOrder[2] = "word_progress" /\ TableOrder[3] = "card_state"
        /\ tables'["word_progress"] = tables["word_progress"]
        /\ tables'["card_state"] = tables["card_state"]
        /\ tables'["app_user"] = tables["app_user"]
    BY <1>6, FiveTables
  <2> QED BY <2>1 DEF Keeps, SameRow
<1> QED BY <1>1, <1>11, <1>12, WritesKeepFit

(* An account, under the next number.                                      *)
LEMMA SeedFits ==
  ASSUME BackupInv, FinishInv, NEW user \in Learners, Seed(user)
  PROVE  FinishInv'
<1>. DEFINE row == [id |-> NextRowId("app_user"), user |-> user]
<1>1. /\ tables' = [tables EXCEPT !["app_user"] = @ \cup {row}]
      /\ UNCHANGED <<renames, pointer, activation, bucket>> /\ Disturb
  BY DEF Seed
<1>2. TablesFit(tables) /\ RowsTyped(tables) /\ DOMAIN tables = TableNames
  BY DEF FinishInv, TablesFit, RowsTyped
<1>3. Numbered(tables["app_user"]) /\ IsFiniteSet(tables["app_user"])
  BY <1>2 DEF TablesFit
<1>4. NextRowId("app_user") \in Nat
  BY <1>3, NextIsNew
<1>5. row \in UserRows /\ row.user = user /\ row.id = NextRowId("app_user")
  BY <1>4 DEF UserRows
<1>. HIDE DEF row
<1>6. /\ DOMAIN tables' = TableNames
      /\ tables'["app_user"] = tables["app_user"] \cup {row}
      /\ \A t \in TableNames : t # "app_user" => tables'[t] = tables[t]
  BY <1>1, <1>2, FiveTables
<1>7. Numbered(tables'["app_user"]) /\ IsFiniteSet(tables'["app_user"])
  BY <1>3, <1>5, <1>6, NumberedInsert, FS_AddElement
<1>8. UsersOf(tables') = UsersOf(tables) \cup {user}
  BY <1>5, <1>6 DEF UsersOf
<1>9. RowsTyped(tables')
  BY <1>2, <1>5, <1>6, FiveTables DEF RowsTyped
<1>10. \A t \in TableNames : \A r \in tables'[t] : r.user \in UsersOf(tables')
  BY <1>2, <1>5, <1>6, <1>8 DEF TablesFit
<1>11. TablesFit(tables')
  BY <1>2, <1>6, <1>7, <1>9, <1>10, FiveTables DEF TablesFit
<1> QED BY <1>1, <1>11, WritesKeepFit

(* A grade: a row of the log, the state and the word of its root.          *)
LEMMA GradeFits ==
  ASSUME BackupInv, FinishInv, NEW opened \in tables["study_session"], NEW key \in StableKeys,
         GradeCard(opened, key)
  PROVE  FinishInv'
<1>. DEFINE root == Sink(renames, key)
            event == NextRowId("review_log")
            own == Own("card_state", opened.user, root)
            before == {r.event : r \in own}
            row == [id |-> event, user |-> opened.user, key |-> root, presented |-> key,
                    release |-> opened.release, before |-> before, undone |-> FALSE]
            cards == UpsertState(opened.user, root, event)
            words == UpsertWord(opened.user, root, opened.release)
<1>1. /\ tables' = [tables EXCEPT !["review_log"] = @ \cup {row}, !["card_state"] = cards,
                                  !["word_progress"] = words]
      /\ UNCHANGED <<renames, pointer, activation, exports, bucket>>
  BY DEF GradeCard
<1>2. /\ TablesFit(tables) /\ RowsTyped(tables) /\ DOMAIN tables = TableNames
      /\ renames \in SUBSET AliasRows
  BY DEF FinishInv, StoredFit, TablesFit, RowsTyped
<1>3. /\ opened.user \in UsersOf(tables) /\ opened.user \in Learners
      /\ opened.release \in ReleaseIds
  BY <1>2, FiveTables DEF TablesFit, RowsTyped, SessionRows
<1>4. root \in StableKeys
  BY <1>2, SinkIsKey
<1>5. event \in Nat
  <2>1. PICK n \in Nat : event = n + 1
    BY NextOfLog DEF BackupInv
  <2> QED BY <2>1
<1>6. before \subseteq Nat /\ \A b \in before, c \in before : b = c
  <2>1. UniquePerUser(tables["card_state"]) /\ tables["card_state"] \subseteq StateRows
    BY <1>2 DEF TablesFit, RowsTyped, Keyed
  <2>2. \A r \in own, s \in own : r = s
    BY <2>1 DEF Own, UniquePerUser
  <2>3. \A r \in own : r.event \in Nat
    BY <2>1 DEF Own, StateRows
  <2>. HIDE DEF own
  <2> QED BY <2>2, <2>3
<1>. HIDE DEF before
<1>7. row \in LogRows /\ row.user = opened.user /\ row.before = before
  BY <1>3, <1>4, <1>5, <1>6 DEF LogRows
<1>. HIDE DEF row
<1>8. /\ Keyed(cards) /\ cards \subseteq StateRows
      /\ \A r \in tables["card_state"] : \E s \in cards : SameRow(r, s)
      /\ \A u \in cards : u.user = opened.user \/ \E s \in tables["card_state"] : u.user = s.user
  <2>1. Keyed(tables["card_state"]) /\ tables["card_state"] \subseteq StateRows
    BY <1>2 DEF TablesFit, RowsTyped
  <2>. HIDE DEF root, event
  <2> QED BY <1>3, <1>4, <1>5, <2>1, StateUpserted
<1>9. /\ Keyed(words) /\ words \subseteq WordRows
      /\ \A r \in tables["word_progress"] : \E s \in words : SameRow(r, s)
      /\ \A u \in words : u.user = opened.user \/ \E s \in tables["word_progress"] : u.user = s.user
  <2>1. Keyed(tables["word_progress"]) /\ tables["word_progress"] \subseteq WordRows
    BY <1>2 DEF TablesFit, RowsTyped
  <2>. HIDE DEF root, event
  <2> QED BY <1>3, <1>4, <1>5, <2>1, WordUpserted
<1>. HIDE DEF cards, words, root, event
<1>10. /\ DOMAIN tables' = TableNames /\ tables'["review_log"] = tables["review_log"] \cup {row}
       /\ tables'["card_state"] = cards /\ tables'["word_progress"] = words
       /\ tables'["app_user"] = tables["app_user"]
       /\ tables'["study_session"] = tables["study_session"]
  BY <1>1, <1>2, FiveTables
<1>11. UsersOf(tables') = UsersOf(tables)
  BY <1>10 DEF UsersOf
<1>12. RowsTyped(tables')
  BY <1>2, <1>7, <1>8, <1>9, <1>10 DEF RowsTyped
<1>13. \A t \in TableNames : \A r \in tables'[t] : r.user \in UsersOf(tables')
  <2>1. \A t \in TableNames : \A r \in tables[t] : r.user \in UsersOf(tables)
    BY <1>2 DEF TablesFit
  <2>2. ASSUME NEW r \in cards
        PROVE  r.user \in UsersOf(tables)
    BY <1>3, <1>8, <2>1, FiveTables
  <2>3. ASSUME NEW r \in words
        PROVE  r.user \in UsersOf(tables)
    BY <1>3, <1>9, <2>1, FiveTables
  <2> QED BY <1>3, <1>7, <1>10, <1>11, <2>1, <2>2, <2>3, FiveTables
<1>14. \A r \in tables'["review_log"] : \A b \in r.before, c \in r.before : b = c
  BY <1>2, <1>6, <1>7, <1>10 DEF TablesFit
<1>15. TablesFit(tables')
  BY <1>2, <1>8, <1>9, <1>10, <1>12, <1>13, <1>14 DEF TablesFit
<1>16. Keeps(tables, tables')
  <2>1. TableOrder[2] = "word_progress" /\ TableOrder[3] = "card_state"
    BY FiveTables
  <2> QED BY <1>8, <1>9, <1>10, <2>1 DEF Keeps
<1> QED BY <1>1, <1>15, <1>16, WritesKeepFit

(* An undo writes the row of the log, and the state and the word of its key. *)
LEMMA UndoFits ==
  ASSUME BackupInv, FinishInv, NEW row \in tables["review_log"], UndoNewest(row)
  PROVE  FinishInv'
<1>. DEFINE undone == [row EXCEPT !.undone = TRUE]
            own == Own("card_state", row.user, row.key)
            cards == {r \in tables["card_state"] : r \notin own} \cup
                       {[r EXCEPT !.event = b] : r \in own, b \in row.before}
            f == [r \in tables["word_progress"] |->
                    IF r \in Own("word_progress", row.user, row.key) /\ row.before = {}
                    THEN [r EXCEPT !.introduced = Nothing] ELSE r]
            words == {IF r \in Own("word_progress", row.user, row.key) /\ row.before = {}
                      THEN [r EXCEPT !.introduced = Nothing] ELSE r : r \in tables["word_progress"]}
<1>1. /\ tables' = [tables EXCEPT !["review_log"] = (@ \ {row}) \cup {undone},
                                  !["card_state"] = cards, !["word_progress"] = words]
      /\ Disturb /\ UNCHANGED <<renames, pointer, activation, bucket>>
  BY DEF UndoNewest
<1>2. TablesFit(tables) /\ RowsTyped(tables) /\ DOMAIN tables = TableNames
  BY DEF FinishInv, TablesFit, RowsTyped
<1>3. /\ row \in LogRows /\ row.user \in UsersOf(tables)
      /\ \A b \in row.before, c \in row.before : b = c
  BY <1>2, FiveTables DEF TablesFit, RowsTyped
<1>4. undone \in LogRows /\ undone.user = row.user /\ undone.before = row.before
  BY <1>3 DEF LogRows
<1>5. ASSUME NEW u \in cards
      PROVE  /\ u \in StateRows
             /\ \E s \in tables["card_state"] :
                  /\ SameRow(u, s)
                  /\ \/ u = s /\ s \notin own
                     \/ s \in own /\ \E b \in row.before : u = [s EXCEPT !.event = b]
  <2>1. tables["card_state"] \subseteq StateRows /\ row.before \subseteq Nat
    BY <1>2, <1>3 DEF RowsTyped, LogRows
  <2>2. CASE u \in tables["card_state"] /\ u \notin own
    BY <2>1, <2>2 DEF SameRow
  <2>3. CASE \E r \in own, b \in row.before : u = [r EXCEPT !.event = b]
    <3>1. PICK r \in own, b \in row.before : u = [r EXCEPT !.event = b]
      BY <2>3
    <3>2. r \in StateRows /\ r \in tables["card_state"] /\ b \in Nat
      BY <2>1 DEF Own
    <3>3. u \in StateRows /\ SameRow(u, r)
      BY <3>1, <3>2 DEF StateRows, SameRow
    <3> QED BY <3>1, <3>2, <3>3
  <2> QED BY <2>2, <2>3
<1>. HIDE DEF cards, own
<1>6. Keyed(cards)
  <2>1. OneEach(cards)
    <3>1. \A r \in tables["card_state"], s \in tables["card_state"] : r.id = s.id => r = s
      BY <1>2 DEF TablesFit, Keyed, OneEach
    <3>2. ASSUME NEW u \in cards, NEW v \in cards, u.id = v.id
          PROVE  u = v
      <4>1. PICK r \in tables["card_state"] :
              /\ SameRow(u, r)
              /\ \/ u = r /\ r \notin own
                 \/ r \in own /\ \E b \in row.before : u = [r EXCEPT !.event = b]
        BY <1>5
      <4>2. PICK s \in tables["card_state"] :
              /\ SameRow(v, s)
              /\ \/ v = s /\ s \notin own
                 \/ s \in own /\ \E b \in row.before : v = [s EXCEPT !.event = b]
        BY <1>5
      <4>3. u.id = r.id /\ v.id = s.id
        <5>1. u.id = r.id
          BY <4>1 DEF SameRow
        <5>2. v.id = s.id
          BY <4>2 DEF SameRow
        <5> QED BY <5>1, <5>2
      <4>4. r.id = s.id
        BY <3>2, <4>3
      <4>5. r = s
        BY <3>1, <4>4
      <4> QED BY <1>3, <4>1, <4>2, <4>5
    <3> QED BY <3>2 DEF OneEach
  <2>2. \A u \in cards : \E s \in tables["card_state"] : SameRow(u, s)
    BY <1>5
  <2>3. Keyed(tables["card_state"])
    BY <1>2 DEF TablesFit
  <2> QED BY <2>1, <2>2, <2>3, KeyedChange
<1>7. /\ words = {f[r] : r \in tables["word_progress"]}
      /\ \A r \in tables["word_progress"] : f[r] \in WordRows /\ SameRow(f[r], r)
  BY <1>2 DEF RowsTyped, WordRows, SameRow
<1>. HIDE DEF undone, words, f
<1>8. Keyed(words) /\ words \subseteq WordRows
  <2>1. Keyed(tables["word_progress"])
    BY <1>2 DEF TablesFit
  <2> QED BY <1>7, <2>1, KeyedMap
<1>9. /\ DOMAIN tables' = TableNames
      /\ tables'["review_log"] = (tables["review_log"] \ {row}) \cup {undone}
      /\ tables'["card_state"] = cards /\ tables'["word_progress"] = words
      /\ tables'["app_user"] = tables["app_user"]
      /\ tables'["study_session"] = tables["study_session"]
  BY <1>1, <1>2, FiveTables
<1>10. UsersOf(tables') = UsersOf(tables)
  BY <1>9 DEF UsersOf
<1>11. RowsTyped(tables')
  <2>1. cards \subseteq StateRows
    BY <1>5
  <2> QED BY <1>2, <1>4, <1>8, <1>9, <2>1 DEF RowsTyped
<1>12. \A t \in TableNames : \A r \in tables'[t] : r.user \in UsersOf(tables')
  <2>1. \A t \in TableNames : \A r \in tables[t] : r.user \in UsersOf(tables)
    BY <1>2 DEF TablesFit
  <2>2. ASSUME NEW r \in cards
        PROVE  r.user \in UsersOf(tables)
    BY <1>5, <2>1, FiveTables DEF SameRow
  <2>3. ASSUME NEW r \in words
        PROVE  r.user \in UsersOf(tables)
    BY <1>7, <2>1, FiveTables DEF SameRow
  <2> QED BY <1>3, <1>4, <1>9, <1>10, <2>1, <2>2, <2>3, FiveTables
<1>13. \A r \in tables'["review_log"] : \A b \in r.before, c \in r.before : b = c
  BY <1>2, <1>3, <1>4, <1>9 DEF TablesFit
<1>14. TablesFit(tables')
  BY <1>2, <1>6, <1>8, <1>9, <1>11, <1>12, <1>13 DEF TablesFit
<1> QED BY <1>1, <1>14, WritesKeepFit

(* A rename is stored if it collides with no other of its release.         *)
LEMMA StoredStaysUnique ==
  ASSUME NEW E, UniqueEdges(E), NEW row, ~Collides(E, row)
  PROVE  UniqueEdges(Upserts(E, row))
<1>1. SUFFICES ASSUME NEW e \in Upserts(E, row), NEW f \in Upserts(E, row),
                      e.rel = f.rel, e.from = f.from \/ e.to = f.to
               PROVE  e = f
  BY DEF UniqueEdges
<1>2. \A g \in Upserts(E, row) : g = row \/ (g \in E /\ ~SameEdge(g, row))
  BY DEF Upserts
<1>3. \A g \in E : ~SameEdge(g, row) => ~(g.rel = row.rel /\ (g.from = row.from \/ g.to = row.to))
  BY DEF Collides
<1>4. e \in E /\ f \in E => e = f
  BY <1>1 DEF UniqueEdges
<1> QED BY <1>1, <1>2, <1>3, <1>4

(* The exports, when an activation writes.                                 *)
LEMMA StoredKeepsFit ==
  ASSUME FinishInv, StoredFit', UNCHANGED <<tables, exports, bucket>>
  PROVE  FinishInv'
BY DEF FinishInv

(* An activation stores rows of its batch, and then itself as the active   *)
(* release, or breaks off.                                                 *)
LEMMA ActivateFits ==
  ASSUME BackupInv, FinishInv, ActivationNext
  PROVE  FinishInv'
<1>. DEFINE x == activation
<1>1. /\ pointer \in ReleaseIds /\ renames \in SUBSET AliasRows /\ UniqueEdges(renames)
      /\ x \in ActivationRows /\ (x.step # "none" => x.rel \in ReleaseIds)
  BY DEF FinishInv, StoredFit
<1>2. UNCHANGED <<tables, exports, bucket>>
  BY DEF ActivationNext, PrepareActivation, StoreRename, Promote, SwitchPointer, ActivationBreaks
<1>3. NoneUnderWay \in ActivationRows /\ NoneUnderWay.step = "none"
  <2>1. NoneUnderWay = [step |-> "none", rel |-> Nothing, todo |-> {}, count |-> x.count]
    BY DEF NoneUnderWay, NoActivation
  <2> QED BY <1>1, <2>1 DEF ActivationRows
<1>4. CASE \E rel \in ReleaseIds, B \in OfferedBatches : PrepareActivation(rel, B)
  <2>1. PICK rel \in ReleaseIds, B \in OfferedBatches : PrepareActivation(rel, B)
    BY <1>4
  <2>. DEFINE R == Rows(B)
              y == [step |-> "renames", rel |-> rel, todo |-> R, count |-> x.count + 1]
  <2>2. R \subseteq AliasRows
    BY BatchRows
  <2>3. x' = y /\ UNCHANGED <<renames, pointer>>
    BY <2>1 DEF PrepareActivation
  <2>. HIDE DEF R
  <2>4. y \in ActivationRows /\ y.rel \in ReleaseIds
    BY <1>1, <2>2 DEF ActivationRows
  <2>. HIDE DEF y
  <2>5. StoredFit'
    BY <1>1, <2>3, <2>4 DEF StoredFit
  <2> QED BY <1>2, <2>5, StoredKeepsFit
<1>5. CASE \E row \in x.todo : StoreRename(row)
  <2>1. PICK row \in x.todo : StoreRename(row)
    BY <1>5
  <2>. DEFINE y == [x EXCEPT !.todo = @ \ {row}]
  <2>2. /\ renames' = Upserts(renames, row) /\ ~Collides(renames, row)
        /\ x' = y /\ UNCHANGED pointer
    BY <2>1 DEF StoreRename
  <2>3. row \in AliasRows
    BY <1>1 DEF ActivationRows
  <2>4. UniqueEdges(renames')
    BY <1>1, <2>2, StoredStaysUnique
  <2>5. renames' \in SUBSET AliasRows
    BY <1>1, <2>2, <2>3 DEF Upserts
  <2>6. y \in ActivationRows /\ y.step = x.step /\ y.rel = x.rel
    BY <1>1 DEF ActivationRows
  <2>. HIDE DEF y
  <2>7. StoredFit'
    BY <1>1, <2>2, <2>4, <2>5, <2>6 DEF StoredFit
  <2> QED BY <1>2, <2>7, StoredKeepsFit
<1>6. CASE Promote
  <2>. DEFINE y == [x EXCEPT !.step = "pointer"]
  <2>1. x.step = "renames" /\ x' = y /\ UNCHANGED <<renames, pointer>>
    BY <1>6 DEF Promote
  <2>2. y \in ActivationRows /\ y.rel = x.rel
    BY <1>1 DEF ActivationRows
  <2>. HIDE DEF y
  <2>3. StoredFit'
    BY <1>1, <2>1, <2>2 DEF StoredFit
  <2> QED BY <1>2, <2>3, StoredKeepsFit
<1>7. CASE SwitchPointer
  <2>1. x.step = "pointer" /\ pointer' = x.rel /\ x' = NoneUnderWay /\ UNCHANGED renames
    BY <1>7 DEF SwitchPointer
  <2>2. StoredFit'
    BY <1>1, <1>3, <2>1 DEF StoredFit
  <2> QED BY <1>2, <2>2, StoredKeepsFit
<1>8. CASE ActivationBreaks
  <2>1. x' = NoneUnderWay /\ UNCHANGED <<renames, pointer>>
    BY <1>8 DEF ActivationBreaks
  <2>2. StoredFit'
    BY <1>1, <1>3, <2>1 DEF StoredFit
  <2> QED BY <1>2, <2>2, StoredKeepsFit
<1> QED BY <1>4, <1>5, <1>6, <1>7, <1>8 DEF ActivationNext

-------------------------------------------------------------------------------
(* The exports.                                                            *)

(* One export alone moves.                                                 *)
LEMMA OneExportFits ==
  ASSUME BackupInv, FinishInv, NEW e \in Exporters, NEW x, ExportFits(x, tables),
         exports' = [exports EXCEPT ![e] = x],
         UNCHANGED <<tables, renames, pointer, activation, bucket>>
  PROVE  FinishInv'
<1>1. \A f \in Exporters : exports'[f] = IF f = e THEN x ELSE exports[f]
  BY DEF BackupInv
<1>2. \A f \in Exporters : ExportFits(exports'[f], tables)
  BY <1>1 DEF FinishInv
<1> QED BY <1>2 DEF FinishInv, StoredFit

(* Every table is finite in its numbers.                                   *)
LEMMA AllNumbered ==
  ASSUME TablesSound(tables), TablesFit(tables)
  PROVE  \A t \in TableNames : Numbered(tables[t])
<1>1. PICK n \in Nat : LogIds(tables) = 1 .. n
  BY DEF TablesSound
<1>2. Numbered(tables["review_log"])
  BY <1>1 DEF Numbered, LogIds
<1> QED BY <1>2, FiveTables DEF TablesFit, Keyed

(* An export begins with nothing read.                                     *)
LEMMA StartFits ==
  ASSUME BackupInv, FinishInv, NEW e \in Exporters, StartExport(e)
  PROVE  FinishInv'
<1>. DEFINE x == [Unstarted EXCEPT !.step = "rows", !.known = {r.id : r \in tables["review_log"]}]
<1>1. /\ exports' = [exports EXCEPT ![e] = x]
      /\ UNCHANGED <<tables, renames, pointer, activation, bucket>>
  BY DEF StartExport, StepOf
<1>2. /\ x.step = "rows" /\ x.got = NoPersonalRows /\ x.at = 1 /\ x.after = 0
  BY DEF Unstarted
<1>. HIDE DEF x
<1>3. /\ DOMAIN x.got = TableNames /\ \A t \in TableNames : x.got[t] = {}
      /\ \A i \in {2, 3} : TableOrder[i] \in TableNames
  BY <1>2, FiveTables DEF NoPersonalRows
<1>4. RowsTyped(x.got)
  BY <1>3, FiveTables DEF RowsTyped
<1>5. \A r \in tables["app_user"] : ~(r.id <= 0)
  <2>1. PICK n \in Nat : \A r \in tables["app_user"] : r.id \in 1 .. n
    BY DEF FinishInv, TablesFit, Numbered
  <2> QED BY <2>1
<1>6. x.after \in Nat
  BY <1>2
<1>7. ReadsFit(x, tables)
  BY <1>2, <1>3, <1>4, <1>5, <1>6 DEF ReadsFit, ReadOf, OneEach
<1>8. ExportFits(x, tables)
  BY <1>2, <1>7 DEF ExportFits, PuttingSteps
<1> QED BY <1>1, <1>8, OneExportFits

(* A page of a table is added to what was read.                            *)
LEMMA FillFits ==
  ASSUME TablesSound(tables), TablesFit(tables), NEW x, ReadsSound(x, tables),
         ReadsFit(x, tables), x.step = "rows",
         NEW t, t = TableOrder[x.at], NEW page, page = PageAfter(t, x.after), page # {},
         NEW y, y = [x EXCEPT !.got[t] = @ \cup page, !.after = Highest({r.id : r \in page})]
  PROVE  ExportFits(y, tables)
<1>. DEFINE g == x.got
            h == [g EXCEPT ![t] = @ \cup page]
            ids == {r.id : r \in page}
            top == Highest(ids)
<1>1. DOMAIN x = DOMAIN Unstarted /\ x.at \in 1 .. 5 /\ DOMAIN g = TableNames
  BY DEF ReadsSound
<1>2. t \in TableNames /\ page \subseteq tables[t]
  BY <1>1, FiveTables DEF TableNames, PageAfter
<1>3. y = [x EXCEPT !.got = h, !.after = top]
  BY <1>1 DEF Unstarted
<1>. HIDE DEF h, top
<1>4. y.got = h /\ y.after = top /\ y.step = "rows" /\ y.at = x.at
  BY <1>1, <1>3 DEF Unstarted
<1>. HIDE DEF g
<1>5. /\ DOMAIN h = TableNames /\ h[t] = g[t] \cup page
      /\ \A u \in TableNames : u # t => h[u] = g[u]
  BY <1>1, <1>2 DEF h
<1>6. x.after \in Nat /\ \A r \in page : r.id > x.after
  BY DEF ReadsFit, PageAfter
<1>7. Numbered(tables[t])
  BY <1>2, AllNumbered
<1>8. top \in Nat /\ (\E r \in page : r.id = top) /\ \A r \in page : r.id <= top
  <2>1. PICK n \in Nat : \A r \in tables[t] : r.id \in 1 .. n
    BY <1>7 DEF Numbered
  <2>2. ids \subseteq 1 .. n
    BY <1>2, <2>1
  <2>. HIDE DEF ids
  <2>3. top \in ids \cup {0} /\ top \in Nat /\ \A m \in ids : m <= top
    BY <2>2, HighestOf DEF top
  <2>4. PICK r0 \in page : r0.id \in ids
    BY DEF ids
  <2>5. top # 0
    BY <2>1, <2>2, <2>3, <2>4
  <2> QED BY <2>3, <2>5 DEF ids
<1>9. RowsTyped(h)
  BY <1>2, <1>5, FiveTables DEF RowsTyped, ReadsFit, TablesFit, g
<1>10. \A u \in TableNames : \A r \in h[u] : r.user \in UsersOf(tables)
  BY <1>2, <1>5 DEF ReadsFit, TablesFit, g
<1>11. ASSUME x.at = 1
       PROVE  \A r \in tables["app_user"] : r.id <= top => r \in h["app_user"]
  <2>1. t = "app_user" /\ \A r \in tables["app_user"] : r.id <= x.after => r \in g["app_user"]
    BY <1>11, FiveTables DEF ReadsFit, g
  <2>2. PICK r \in page : r.id = top
    BY <1>8
  <2>3. ASSUME NEW q \in tables["app_user"], q.id <= top, ~(q.id <= x.after)
        PROVE  q \in page
    <3>1. q.id \in Nat
      BY <1>7, <2>1 DEF Numbered
    <3>2. q.id > x.after /\ q.id <= r.id
      BY <1>6, <2>2, <2>3, <3>1
    <3>3. IsFiniteSet(tables["app_user"])
      BY DEF TablesFit
    <3> QED BY <1>6, <1>7, <2>1, <3>2, <3>3, PageOf
  <2> QED BY <1>5, <2>1, <2>3
<1>12. x.at # 1 => UsersOf(tables) \subseteq UsersOf(h)
  <2>1. SUFFICES ASSUME x.at # 1
                 PROVE  UsersOf(tables) \subseteq UsersOf(h)
    OBVIOUS
  <2>2. UsersOf(tables) \subseteq UsersOf(g)
    BY <2>1 DEF ReadsFit, g
  <2>3. t # "app_user"
    BY <1>1, <2>1, FiveTables
  <2>4. h["app_user"] = g["app_user"]
    BY <1>5, <2>3, FiveTables
  <2> QED BY <2>2, <2>4 DEF UsersOf
<1>13. ASSUME NEW i \in {2, 3}
       PROVE  /\ ReadOf(h[TableOrder[i]], tables[TableOrder[i]])
              /\ x.at = i => \A r \in h[TableOrder[i]] : r.id <= top
              /\ x.at < i => h[TableOrder[i]] = {}
  <2>1. /\ ReadOf(g[TableOrder[i]], tables[TableOrder[i]])
        /\ x.at = i => \A r \in g[TableOrder[i]] : r.id <= x.after
        /\ x.at < i => g[TableOrder[i]] = {}
    BY DEF ReadsFit, g
  <2>2. CASE x.at # i
    <3>1. TableOrder[i] # t /\ TableOrder[i] \in TableNames
      BY <1>1, <2>2, FiveTables
    <3> QED BY <1>5, <2>1, <2>2, <3>1
  <2>3. CASE x.at = i
    <3>1. t = TableOrder[i] /\ Keyed(tables[t])
      BY <2>3, FiveTables DEF TablesFit
    <3>2. \A r \in g[t] : r.id \in Nat /\ r.id <= x.after
      <4>1. g[t] \subseteq WordRows \/ g[t] \subseteq StateRows
        BY <2>3, FiveTables DEF ReadsFit, RowsTyped, g
      <4> QED BY <2>1, <2>3, <3>1, <4>1 DEF WordRows, StateRows
    <3>3. \A r \in page : r.id \in Nat /\ r.id > x.after
      BY <1>2, <1>6, <1>7 DEF Numbered
    <3>4. OneEach(h[t])
      <4>1. \A r \in g[t], s \in g[t] : r.id = s.id => r = s
        BY <2>1, <3>1 DEF ReadOf, OneEach
      <4>2. \A r \in page, s \in page : r.id = s.id => r = s
        BY <1>2, <3>1 DEF Keyed, OneEach
      <4>3. \A r \in g[t], s \in page : r.id # s.id
        BY <1>6, <3>2, <3>3
      <4> QED BY <1>5, <4>1, <4>2, <4>3 DEF OneEach
    <3>5. \A r \in h[t] : \E s \in tables[t] : SameRow(r, s)
      BY <1>2, <1>5, <2>1, <3>1 DEF ReadOf, SameRow
    <3>6. \A r \in g[t] : r.id <= top
      BY <1>6, <1>8, <3>2, <3>3
    <3>7. \A r \in h[t] : r.id <= top
      BY <1>5, <1>8, <3>6
    <3> QED BY <2>3, <3>1, <3>4, <3>5, <3>7 DEF ReadOf
  <2> QED BY <2>2, <2>3
<1>14. ReadsFit(y, tables)
  BY <1>4, <1>8, <1>9, <1>10, <1>11, <1>12, <1>13 DEF ReadsFit
<1> QED BY <1>4, <1>14 DEF ExportFits, PuttingSteps

(* A table read to its end: all users, before the first row of a user.     *)
LEMMA MoveFits ==
  ASSUME TablesSound(tables), TablesFit(tables), NEW x, ReadsSound(x, tables),
         ReadsFit(x, tables), x.step = "rows", PageAfter(TableOrder[x.at], x.after) = {},
         NEW y, y = IF x.at < Cardinality(DOMAIN TableOrder)
                    THEN [x EXCEPT !.at = @ + 1, !.after = 0]
                    ELSE [x EXCEPT !.step = "releases"]
  PROVE  ExportFits(y, tables)
<1>1. DOMAIN x = DOMAIN Unstarted /\ x.at \in 1 .. 5
  BY DEF ReadsSound
<1>2. UsersOf(tables) \subseteq UsersOf(x.got)
  <2>1. CASE x.at = 1
    <3>1. PageAfter("app_user", x.after) = {} /\ x.after \in Nat
      BY <2>1, FiveTables DEF ReadsFit
    <3>2. IsFiniteSet(tables["app_user"]) /\ Numbered(tables["app_user"])
      BY DEF TablesFit
    <3>3. \A r \in tables["app_user"] : r.id <= x.after
      BY <3>1, <3>2, PageOf
    <3>4. tables["app_user"] \subseteq x.got["app_user"]
      BY <2>1, <3>3 DEF ReadsFit
    <3> QED BY <3>4 DEF UsersOf
  <2>2. CASE x.at # 1
    BY <2>2 DEF ReadsFit
  <2> QED BY <2>1, <2>2
<1>3. CASE x.at < 5
  <2>. DEFINE zero == 0
              next == x.at + 1
  <2>1. y = [x EXCEPT !.at = next, !.after = zero]
    BY <1>3, FiveTables
  <2>2. next \in 2 .. 5 /\ zero \in Nat /\ \A i \in {2, 3} : next <= i => x.at < i
    BY <1>1, <1>3
  <2>. HIDE DEF zero, next
  <2>3. y.got = x.got /\ y.after = zero /\ y.step = "rows" /\ y.at = next
    BY <1>1, <2>1 DEF Unstarted
  <2>4. ASSUME NEW i \in {2, 3}
        PROVE  /\ ReadOf(y.got[TableOrder[i]], tables[TableOrder[i]])
               /\ y.at = i => \A r \in y.got[TableOrder[i]] : r.id <= y.after
               /\ y.at < i => y.got[TableOrder[i]] = {}
    <3>1. /\ ReadOf(x.got[TableOrder[i]], tables[TableOrder[i]])
          /\ x.at < i => x.got[TableOrder[i]] = {}
      BY DEF ReadsFit
    <3>2. next <= i => x.got[TableOrder[i]] = {}
      BY <2>2, <3>1
    <3>3. (next = i => next <= i) /\ (next < i => next <= i)
      BY <2>2
    <3> QED BY <2>3, <3>1, <3>2, <3>3
  <2>5. next # 1
    BY <2>2
  <2>6. ReadsFit(y, tables)
    BY <1>2, <2>2, <2>3, <2>4, <2>5 DEF ReadsFit
  <2> QED BY <2>3, <2>6 DEF ExportFits, PuttingSteps
<1>4. CASE x.at = 5
  <2>1. y = [x EXCEPT !.step = "releases"]
    BY <1>4, FiveTables
  <2>2. y.got = x.got /\ y.after = x.after /\ y.step = "releases"
    BY <1>1, <2>1 DEF Unstarted
  <2>3. ReadsFit(y, tables)
    BY <1>2, <2>2 DEF ReadsFit
  <2> QED BY <2>2, <2>3 DEF ExportFits, PuttingSteps
<1> QED BY <1>1, <1>3, <1>4

(* One query of the rows.                                                  *)
LEMMA PageFits ==
  ASSUME BackupInv, FinishInv, NEW e \in Exporters, ReadPage(e)
  PROVE  FinishInv'
<1>. DEFINE x == exports[e]
            t == TableOrder[x.at]
            page == PageAfter(t, x.after)
            y == IF page # {}
                 THEN [x EXCEPT !.got[t] = @ \cup page, !.after = Highest({r.id : r \in page})]
                 ELSE IF x.at < Cardinality(DOMAIN TableOrder)
                      THEN [x EXCEPT !.at = @ + 1, !.after = 0]
                      ELSE [x EXCEPT !.step = "releases"]
<1>1. /\ x.step = "rows" /\ exports' = [exports EXCEPT ![e] = y]
      /\ UNCHANGED <<tables, renames, pointer, activation, bucket>>
  BY DEF ReadPage, StepOf
<1>2. /\ TablesSound(tables) /\ ReadsSound(x, tables) /\ TablesFit(tables)
      /\ ~x.disturbed => ReadsFit(x, tables)
  BY <1>1 DEF BackupInv, ExportSound, ReadingSteps, FinishInv, ExportFits
<1>3. ExportFits(y, tables)
  <2>1. CASE x.disturbed
    <3>1. DOMAIN x = DOMAIN Unstarted
      BY <1>2 DEF ReadsSound
    <3>2. y.disturbed = x.disturbed
      BY <3>1 DEF Unstarted
    <3>3. y.step \in {"rows", "releases"}
      BY <1>1, <3>1 DEF Unstarted
    <3>. HIDE DEF y
    <3> QED BY <2>1, <3>2, <3>3 DEF ExportFits
  <2>2. CASE ~x.disturbed /\ page # {}
    <3>1. y = [x EXCEPT !.got[t] = @ \cup page, !.after = Highest({r.id : r \in page})]
      BY <2>2
    <3>. HIDE DEF y
    <3> QED BY <1>1, <1>2, <2>2, <3>1, FillFits
  <2>3. CASE ~x.disturbed /\ page = {}
    <3>1. y = IF x.at < Cardinality(DOMAIN TableOrder)
              THEN [x EXCEPT !.at = @ + 1, !.after = 0]
              ELSE [x EXCEPT !.step = "releases"]
      BY <2>3
    <3>. HIDE DEF y
    <3> QED BY <1>1, <1>2, <2>3, <3>1, MoveFits
  <2> QED BY <2>1, <2>2, <2>3
<1>. HIDE DEF y
<1> QED BY <1>1, <1>3, OneExportFits

(* The queries of the releases and the pointer.                            *)
LEMMA QueriesFit ==
  ASSUME BackupInv, FinishInv, NEW e \in Exporters, ReadReleases(e) \/ ReadPointer(e)
  PROVE  FinishInv'
<1>. DEFINE x == exports[e]
<1>1. PICK y : /\ exports' = [exports EXCEPT ![e] = y]
               /\ \/ y = [x EXCEPT !.step = "pointer", !.served = activatedAt]
                  \/ y = [x EXCEPT !.step = "renames", !.active = pointer]
  BY DEF ReadReleases, ReadPointer, StepOf
<1>2. /\ x.step \in {"releases", "pointer"}
      /\ UNCHANGED <<tables, renames, pointer, activation, bucket>> /\ pointer \in ReleaseIds
  BY DEF ReadReleases, ReadPointer, FinishInv, StoredFit
<1>3. DOMAIN x = DOMAIN Unstarted /\ (~x.disturbed => ReadsFit(x, tables))
  BY <1>2 DEF BackupInv, ExportSound, ReadsSound, ReadingSteps, FinishInv, ExportFits
<1>4. /\ y.step \in {"pointer", "renames"} /\ y.got = x.got /\ y.after = x.after
      /\ y.disturbed = x.disturbed /\ (y.step = "renames" => y.active = pointer)
  BY <1>1, <1>3 DEF Unstarted
<1>5. ~x.disturbed => ReadsFit(y, tables)
  BY <1>2, <1>3, <1>4 DEF ReadsFit
<1>6. ExportFits(y, tables)
  BY <1>4, <1>5 DEF ExportFits, PuttingSteps
<1> QED BY <1>1, <1>2, <1>6, OneExportFits

(* What was read goes in: with the edges that lead on from its keys, which *)
(* lead to their roots, as the worker could walk from these keys.          *)
LEMMA WhatWasReadFits ==
  ASSUME TablesFit(tables), renames \in SUBSET AliasRows, UniqueEdges(renames),
         NEW x, ReadsFit(x, tables), x.step = "renames", Walkable(renames, x.got)
  PROVE  ManifestFits(ManifestOf(x, renames))
<1>. DEFINE m == ManifestOf(x, renames)
            K == UserKeys(x.got)
            F == Forward(renames, K)
<1>1. /\ m.hash = x.got /\ m.edges = F
      /\ m.required = {x.active} \cup Previous(x) \cup {e.rel : e \in F}
                      \cup ReferredTo(x.got)
  BY DEF ManifestOf
<1>2. K \in SUBSET StableKeys
  BY DEF UserKeys, ReadsFit, RowsTyped, WordRows, StateRows, LogRows
<1>3. F \in SUBSET AliasRows /\ UniqueEdges(F) /\ \A e \in F : LeadsToItsRoot(F, e)
  <2>1. \A key \in K : Resolves(renames, key)
    BY DEF Walkable
  <2>. HIDE DEF K
  <2>2. F \subseteq renames /\ \A e \in F : LeadsToItsRoot(F, e)
    BY <1>2, <2>1, ForwardEdges
  <2>. HIDE DEF F
  <2> QED BY <2>2 DEF UniqueEdges
<1>. HIDE DEF m, F, K
<1>4. m.required \subseteq ReleaseIds
  <2>1. ReferredTo(x.got) \subseteq ReleaseIds
    BY DEF ReferredTo, ReadsFit, RowsTyped, WordRows, LogRows, SessionRows
  <2>2. Previous(x) \subseteq ReleaseIds /\ x.active \in ReleaseIds
    BY DEF Previous, ReadsFit
  <2>3. {e.rel : e \in F} \subseteq ReleaseIds
    BY <1>3 DEF AliasRows
  <2> QED BY <1>1, <2>1, <2>2, <2>3
<1>5. \A t \in TableNames : \A r \in x.got[t] : r.user \in UsersOf(x.got)
  BY DEF ReadsFit
<1>6. \A i \in {2, 3} : UniquePerUser(x.got[TableOrder[i]])
  <2>1. SUFFICES ASSUME NEW i \in {2, 3}
                 PROVE  UniquePerUser(x.got[TableOrder[i]])
    OBVIOUS
  <2>. DEFINE G == x.got[TableOrder[i]]
              S == tables[TableOrder[i]]
  <2>2. ReadOf(G, S) /\ UniquePerUser(S)
    BY FiveTables DEF ReadsFit, TablesFit, Keyed
  <2>. HIDE DEF G, S
  <2>3. ASSUME NEW u \in G, NEW v \in G, u.user = v.user, u.key = v.key
        PROVE  u = v
    <3>1. PICK r \in S : SameRow(u, r)
      BY <2>2 DEF ReadOf
    <3>2. PICK s \in S : SameRow(v, s)
      BY <2>2 DEF ReadOf
    <3>3. r.user = s.user /\ r.key = s.key
      BY <2>3, <3>1, <3>2 DEF SameRow
    <3>4. r = s
      BY <2>2, <3>3 DEF UniquePerUser
    <3>5. u.id = v.id
      BY <3>1, <3>2, <3>4 DEF SameRow
    <3> QED BY <2>2, <3>5 DEF ReadOf, OneEach
  <2> QED BY <2>3 DEF UniquePerUser, G
<1>7. ImportSucceeds(m, m.hash)
  <2>1. UniquePerUser(x.got["word_progress"]) /\ UniquePerUser(x.got["card_state"])
    <3>1. TableOrder[2] = "word_progress" /\ TableOrder[3] = "card_state"
      BY FiveTables
    <3> QED BY <1>6, <3>1
  <2>2. ReferredTo(m.hash) \subseteq m.required /\ {e.rel : e \in m.edges} \subseteq m.required
    BY <1>1
  <2> QED BY <1>1, <1>3, <1>5, <2>1, <2>2 DEF ImportSucceeds, UsersOf
<1>8. ManifestFits(m)
  BY <1>4, <1>7 DEF ManifestFits
<1> QED BY <1>8 DEF m

(* The last query makes the manifest.                                      *)
LEMMA RenamesFit ==
  ASSUME BackupInv, FinishInv, NEW e \in Exporters, ReadRenames(e)
  PROVE  FinishInv'
<1>. DEFINE x == exports[e]
            manifest == ManifestOf(x, renames)
            y == [step |-> "data", manifest |-> manifest, known |-> x.known,
                  disturbed |-> x.disturbed, walkable |-> Walkable(renames, x.got)]
<1>1. /\ x.step = "renames" /\ exports' = [exports EXCEPT ![e] = y]
      /\ UNCHANGED <<tables, renames, pointer, activation, bucket>>
  BY DEF ReadRenames, StepOf
<1>2. ~x.disturbed => ReadsFit(x, tables)
  BY <1>1 DEF FinishInv, ExportFits, ReadingSteps
<1>3. ~x.disturbed /\ Walkable(renames, x.got) => ManifestFits(manifest)
  <2>. HIDE DEF x
  <2> QED BY <1>1, <1>2, WhatWasReadFits DEF FinishInv, StoredFit
<1>. HIDE DEF manifest
<1>4. /\ y.step = "data" /\ y.manifest = manifest /\ y.disturbed = x.disturbed
      /\ y.walkable = Walkable(renames, x.got)
  OBVIOUS
<1>. HIDE DEF y
<1>5. ExportFits(y, tables)
  BY <1>3, <1>4 DEF ExportFits, ReadingSteps
<1> QED BY <1>1, <1>5, OneExportFits

(* The two puts.                                                           *)
LEMMA PutsFit ==
  ASSUME BackupInv, FinishInv, NEW e \in Exporters, PutData(e) \/ PutManifest(e) \/ ExportDies(e)
  PROVE  FinishInv'
<1>. DEFINE x == exports[e]
            ended == [step |-> "ended"]
<1>1. ended.step = "ended"
  OBVIOUS
<1>. HIDE DEF ended
<1>2. ExportFits(ended, tables)
  BY <1>1 DEF ExportFits, ReadingSteps, PuttingSteps
<1>3. x.step \in PuttingSteps =>
        /\ DOMAIN x = {"step", "manifest", "known", "disturbed", "walkable"}
        /\ ~x.disturbed /\ x.walkable => ManifestFits(x.manifest)
  BY DEF BackupInv, ExportSound, FinishInv, ExportFits
<1>4. \A y : ExportFits(y, tables) /\ exports' = [exports EXCEPT ![e] = y] =>
        \A f \in Exporters : ExportFits(exports'[f], tables)
  BY DEF BackupInv, FinishInv
<1>5. CASE PutData(e)
  <2>. DEFINE y == [x EXCEPT !.step = "manifest"]
  <2>1. /\ exports' = [exports EXCEPT ![e] = y] /\ x.step = "data"
        /\ UNCHANGED <<tables, renames, pointer, activation>>
        /\ bucket' = [bucket EXCEPT !.data = x.manifest.hash]
    BY <1>5 DEF PutData, StepOf
  <2>2. /\ y.step = "manifest" /\ y.manifest = x.manifest
        /\ y.disturbed = x.disturbed /\ y.walkable = x.walkable
    BY <1>3, <2>1 DEF PuttingSteps
  <2>. HIDE DEF y
  <2>3. ExportFits(y, tables)
    BY <1>3, <2>1, <2>2 DEF ExportFits, ReadingSteps, PuttingSteps
  <2>4. bucket'.manifest = bucket.manifest
    BY <2>1 DEF BackupInv
  <2> QED BY <1>4, <2>1, <2>3, <2>4 DEF FinishInv, StoredFit
<1>6. CASE PutManifest(e)
  <2>1. /\ exports' = [exports EXCEPT ![e] = ended] /\ x.step = "manifest"
        /\ UNCHANGED <<tables, renames, pointer, activation>>
        /\ bucket' = [bucket EXCEPT !.manifest = x]
    BY <1>6 DEF PutManifest, StepOf, ended
  <2>2. bucket'.manifest = x
    BY <2>1 DEF BackupInv
  <2> QED BY <1>2, <1>3, <1>4, <2>1, <2>2 DEF FinishInv, StoredFit, PuttingSteps
<1>7. CASE ExportDies(e)
  <2>1. /\ exports' = [exports EXCEPT ![e] = ended]
        /\ UNCHANGED <<tables, renames, pointer, activation, bucket>>
    BY <1>7 DEF ExportDies, StepOf, ended
  <2> QED BY <1>2, <2>1, OneExportFits
<1> QED BY <1>5, <1>6, <1>7

-------------------------------------------------------------------------------
(* One row per table at most.                                              *)
LEMMA OneRow ==
  ASSUME NEW row, row.id = 1
  PROVE  Numbered({row}) /\ Keyed({row})
<1>1. Numbered({row})
  <2>. DEFINE one == 1
  <2>1. one \in Nat /\ one \in 1 .. one
    OBVIOUS
  <2>. HIDE DEF one
  <2>2. \A r \in {row} : r.id \in 1 .. one
    BY <2>1 DEF one
  <2> QED BY <2>1, <2>2 DEF Numbered
<1> QED BY <1>1 DEF Keyed, UniquePerUser, OneEach

(* An empty table.                                                         *)
LEMMA NoRow == Numbered({}) /\ Keyed({})
<1>1. Numbered({})
  BY DEF Numbered
<1> QED BY <1>1 DEF Keyed, UniquePerUser, OneEach

(* A learner with a session, who may have answered a card.                 *)
LEMMA FinishInits ==
  ASSUME BackupInit
  PROVE  FinishInv
<1>1. PICK u \in Learners, rel \in ReleaseIds :
        tables \in {Started(u, rel)} \cup
                     {Answered(u, rel, key, Sink(renames, key)) : key \in Offered[rel]}
  BY DEF BackupInit
<1>11. renames \in SUBSET AliasRows /\ UniqueEdges(renames)
  BY BatchRows DEF BackupInit
<1>. DEFINE S == Started(u, rel)
            user == [id |-> 1, user |-> u]
            opened == [id |-> 1, user |-> u, release |-> rel]
<1>2. S = [NoPersonalRows EXCEPT !["app_user"] = {user}, !["study_session"] = {opened}]
  BY DEF Started
<1>3. /\ user \in UserRows /\ user.user = u /\ user.id = 1
      /\ opened \in SessionRows /\ opened.user = u /\ opened.id = 1
  BY DEF UserRows, SessionRows
<1>. HIDE DEF user, opened, S
<1>4. /\ DOMAIN S = TableNames /\ S["app_user"] = {user} /\ S["study_session"] = {opened}
      /\ S["review_log"] = {} /\ S["card_state"] = {} /\ S["word_progress"] = {}
  BY <1>2, FiveTables DEF NoPersonalRows
<1>5. /\ IsFiniteSet({user}) /\ Numbered({user}) /\ Numbered({opened})
      /\ Numbered({}) /\ Keyed({})
  BY <1>3, OneRow, NoRow, FS_Singleton
<1>6. UsersOf(S) = {u}
  BY <1>3, <1>4 DEF UsersOf
<1>7. TablesFit(tables)
  <2>1. CASE tables = S
    <3>1. RowsTyped(S)
      BY <1>3, <1>4 DEF RowsTyped
    <3>2. \A t \in TableNames : \A r \in S[t] : r.user \in UsersOf(S)
      BY <1>3, <1>4, <1>6, FiveTables
    <3> QED BY <1>4, <1>5, <2>1, <3>1, <3>2 DEF TablesFit
  <2>2. CASE \E key \in Offered[rel] : tables = Answered(u, rel, key, Sink(renames, key))
    <3>1. PICK key \in Offered[rel] : tables = Answered(u, rel, key, Sink(renames, key))
      BY <2>2
    <3>. DEFINE root == Sink(renames, key)
                word == [id |-> 1, user |-> u, key |-> root, introduced |-> rel]
                card == [id |-> 1, user |-> u, key |-> root, event |-> 1]
                row == [id |-> 1, user |-> u, key |-> root, presented |-> key, release |-> rel,
                        before |-> {}, undone |-> FALSE]
    <3>2. tables = [S EXCEPT !["word_progress"] = {word}, !["card_state"] = {card},
                             !["review_log"] = {row}]
      BY <3>1 DEF Answered, S
    <3>3. key \in StableKeys /\ root \in StableKeys
      BY <1>11, BackupAssumption, SinkIsKey
    <3>. HIDE DEF root
    <3>4. /\ word \in WordRows /\ word.user = u /\ word.id = 1
          /\ card \in StateRows /\ card.user = u /\ card.id = 1
          /\ row \in LogRows /\ row.user = u /\ row.before = {}
      BY <3>3 DEF WordRows, StateRows, LogRows
    <3>. HIDE DEF word, card, row
    <3>5. /\ DOMAIN tables = TableNames /\ tables["app_user"] = {user}
          /\ tables["study_session"] = {opened} /\ tables["review_log"] = {row}
          /\ tables["card_state"] = {card} /\ tables["word_progress"] = {word}
      BY <1>4, <3>2, FiveTables
    <3>6. UsersOf(tables) = {u}
      BY <1>3, <3>5 DEF UsersOf
    <3>7. RowsTyped(tables)
      BY <1>3, <3>4, <3>5 DEF RowsTyped
    <3>8. \A t \in TableNames : \A r \in tables[t] : r.user \in UsersOf(tables)
      BY <1>3, <3>4, <3>5, <3>6, FiveTables
    <3>9. Keyed({word}) /\ Keyed({card})
      BY <3>4, OneRow
    <3>10. \A r \in tables["review_log"] : \A b \in r.before, c \in r.before : b = c
      BY <3>4, <3>5
    <3> QED BY <1>5, <3>5, <3>7, <3>8, <3>9, <3>10 DEF TablesFit
  <2> QED BY <1>1, <2>1, <2>2 DEF S
<1>8. Unstarted.step = "none"
  BY DEF Unstarted
<1>9. ExportFits(Unstarted, tables)
  BY <1>8 DEF ExportFits, ReadingSteps, PuttingSteps
<1>10. /\ activation \in ActivationRows /\ activation.step = "none" /\ pointer \in ReleaseIds
       /\ exports = [e \in Exporters |-> Unstarted] /\ bucket.manifest = Nothing
  BY DEF BackupInit, NoActivation, ActivationRows
<1> QED BY <1>7, <1>9, <1>10, <1>11 DEF FinishInv, StoredFit

(* Every step keeps it.                                                    *)
LEMMA FinishSteps ==
  ASSUME BackupInv, FinishInv, [BackupNext]_backupVars
  PROVE  FinishInv'
<1>1. CASE UNCHANGED backupVars
  BY <1>1 DEF FinishInv, StoredFit, backupVars
<1>2. CASE \E user \in Learners : Begin(user) \/ Seed(user)
  BY <1>2, BeginFits, SeedFits
<1>3. CASE \E opened \in tables["study_session"], key \in StableKeys : GradeCard(opened, key)
  BY <1>3, GradeFits
<1>4. CASE \E row \in tables["review_log"] : UndoNewest(row)
  BY <1>4, UndoFits
<1>5. CASE ActivationNext
  BY <1>5, ActivateFits
<1>6. CASE \E e \in Exporters : StartExport(e)
  BY <1>6, StartFits
<1>7. CASE \E e \in Exporters : ReadPage(e)
  BY <1>7, PageFits
<1>8. CASE \E e \in Exporters : ReadReleases(e) \/ ReadPointer(e)
  BY <1>8, QueriesFit
<1>9. CASE \E e \in Exporters : ReadRenames(e)
  BY <1>9, RenamesFit
<1>10. CASE \E e \in Exporters : PutData(e) \/ PutManifest(e) \/ ExportDies(e)
  BY <1>10, PutsFit
<1> QED BY <1>1, <1>2, <1>3, <1>4, <1>5, <1>6, <1>7, <1>8, <1>9, <1>10
       DEF AccountsNext, ExportNext, BackupNext

(* What an undisturbed export has read, or put, fits together, and so does *)
(* a manifest with the renames it took, if the worker could walk them from *)
(* every key that was read, however they were stored (export.ts:178-296).  *)
THEOREM FinishInvariance == BackupSpec => []FinishInv
<1>1. BackupInit => FinishInv
  BY FinishInits
<1>2. BackupInv /\ FinishInv /\ [BackupNext]_backupVars => FinishInv'
  BY FinishSteps
<1> QED BY <1>1, <1>2, BackupInvariance, PTL DEF BackupSpec

(* A finished export restores: with the bundles its manifest names, no row *)
(* dangles or collides, and each rename leads to its root, for any         *)
(* learners, pages, batches of renames and overlapping runs, whatever was  *)
(* graded and whichever rows activations stored while it read.  An account *)
(* added or an answer undone meanwhile may spoil it, and so may renames    *)
(* that the worker cannot walk from a key it read                          *)
(* (export.ts:221-296, restore.ts:191-404).                                *)
THEOREM FinishedExportsRestore == BackupSpec => []FinishedExportRestores
<1>1. FinishInv => FinishedExportRestores
  <2>1. SUFFICES ASSUME FinishInv, bucket.manifest # Nothing, bucket.data # Nothing,
                        bucket.data = bucket.manifest.manifest.hash,
                        ~bucket.manifest.disturbed, bucket.manifest.walkable
                 PROVE  \E bundles \in SUBSET ReleaseIds : DrillPasses(bundles)
    BY DEF FinishedExportRestores
  <2>. DEFINE m == bucket.manifest.manifest
  <2>2. ImportSucceeds(m, bucket.data) /\ m.required \in SUBSET ReleaseIds
    BY <2>1 DEF FinishInv, ManifestFits
  <2>3. DrillPasses(m.required)
    BY <2>1, <2>2 DEF DrillPasses, HashMatches
  <2> QED BY <2>2, <2>3
<1> QED BY <1>1, FinishInvariance, PTL

(***************************************************************************)
(* The caches of the service worker.                                       *)
(***************************************************************************)
CacheNames ==
  [kind : {"shell"}, of : 1 .. LastBuild]
    \cup [kind : {"content"}, of : Releases \cup {Unknown}] \cup {Audio}

WorkerRows == [state : {"none", "active", "redundant"}, release : Releases \cup {Unknown}]

JobRows ==
  [why : {"logout", "switch", "activate"}, by : 1 .. LastBuild,
   release : Releases \cup {Unknown}, step : {"list", "delete"}, names : SUBSET CacheNames]

RequestRows ==
  [step : {"none", "asked", "write", "written"},
   kind : {"none", "bootstrap", "content", "audio", "static"}, by : 0 .. LastBuild,
   from : Nat, release : Releases \cup {Unknown}, cache : CacheNames, spans : BOOLEAN]

Entries == [cache : CacheNames, from : Nat, spans : BOOLEAN]

OfflineTypes ==
  /\ DOMAIN workers = 1 .. LastBuild /\ control \in 0 .. LastBuild
  /\ workers \in [1 .. LastBuild -> WorkerRows]
  /\ caches \subseteq CacheNames /\ stored \subseteq Entries
  /\ jobs \subseteq JobRows /\ requests \in [Slots -> RequestRows]
  /\ session \in [now : Nat, count : Nat]
  /\ served \in [release : Releases, count : Nat]

(* Before there is a worker in control nothing is asked of it.             *)
IdleBeforeControl ==
  control = 0 =>
    /\ \A e \in stored : e.cache.kind = "shell"
    /\ \A s \in Slots : requests[s].step = "none"

(* What a session may have.                                                *)
Current(x) == x.from # 0 /\ (x.from = session.now \/ x.spans)

RequestsAreCurrent ==
  \A s \in Slots :
    LET q == requests[s]
    IN  /\ q.step # "none" => q.by \in 1 .. LastBuild
        /\ q.step = "asked" /\ q.kind # "static" => Current(q)
        /\ q.step = "write" /\ q.cache.kind # "shell" => Current(q)

EntriesAreCached ==
  \A e \in stored :
    /\ e.cache \in caches
    /\ e.cache.kind # "shell" => e.from # 0

(* A logout that will take e with it.                                      *)
Takes(j, e) == j.why = "logout" /\ (j.step = "list" \/ e.cache \in j.names)

OldIsTaken ==
  \A e \in stored :
    e.cache.kind # "shell" => Current(e) \/ \E j \in jobs : Takes(j, e)

HasShell(b) == \E e \in stored : e.cache = Shell(b)

ShellsStay ==
  /\ control # 0 => HasShell(control)
  /\ \A j \in jobs :
       /\ j.why = "activate" => control \in {0, j.by} /\ HasShell(j.by)
       /\ j.why = "activate" => Shell(j.by) \notin j.names
       /\ j.why # "activate" => \A n \in j.names : n.kind # "shell"
       /\ \A i \in jobs : i.why = "activate" /\ j.why = "activate" => i.by = j.by

OfflineInv ==
  /\ OfflineTypes /\ IdleBeforeControl /\ RequestsAreCurrent /\ EntriesAreCached
  /\ OldIsTaken /\ ShellsStay

------------------------------------------------------------------------------
(* The names of the caches, and what they tell apart.                      *)
LEMMA NameFacts ==
  /\ \A b \in 1 .. LastBuild : Shell(b) \in CacheNames /\ Shell(b).kind = "shell"
  /\ \A r \in Releases \cup {Unknown} : Content(r) \in CacheNames /\ Content(r).kind # "shell"
  /\ Audio \in CacheNames /\ Audio.kind # "shell"
  /\ \A n \in CacheNames : n.kind # "shell" => n.kind = "content" \/ n = Audio
  /\ NoRequest \in RequestRows /\ NoRequest.step = "none" /\ NoRequest.release = Unknown
<1>1. \A b \in 1 .. LastBuild : Shell(b) \in CacheNames /\ Shell(b).kind = "shell"
  BY DEF Shell, CacheNames
<1>2. \A r \in Releases \cup {Unknown} : Content(r) \in CacheNames /\ Content(r).kind # "shell"
  BY DEF Content, CacheNames
<1>3. Audio \in CacheNames /\ Audio.kind # "shell"
  BY DEF Audio, CacheNames
<1>4. \A n \in CacheNames : n.kind # "shell" => n.kind = "content" \/ n = Audio
  BY DEF CacheNames
<1>5. NoRequest \in RequestRows /\ NoRequest.step = "none" /\ NoRequest.release = Unknown
  BY <1>3, OfflineAssumption DEF NoRequest, RequestRows
<1> QED  BY <1>1, <1>2, <1>3, <1>4, <1>5

(* A job begins with nothing listed.                                       *)
LEMMA JobFacts ==
  ASSUME NEW why \in {"logout", "switch", "activate"}, NEW b \in 1 .. LastBuild,
         NEW r \in Releases \cup {Unknown}
  PROVE  /\ Job(why, b, r) \in JobRows
         /\ Job(why, b, r).why = why /\ Job(why, b, r).by = b
         /\ Job(why, b, r).step = "list" /\ Job(why, b, r).names = {}
BY DEF Job, JobRows

(* Nothing is stored at first.                                             *)
LEMMA InitiallyOffline ==
  ASSUME OfflineInit
  PROVE  OfflineInv
<1>1. OfflineTypes
  BY NameFacts, OfflineAssumption DEF OfflineInit, OfflineTypes, WorkerRows
<1>2. IdleBeforeControl /\ RequestsAreCurrent /\ EntriesAreCached /\ OldIsTaken /\ ShellsStay
  BY NameFacts DEF OfflineInit, IdleBeforeControl, RequestsAreCurrent, EntriesAreCached,
                   OldIsTaken, ShellsStay
<1> QED  BY <1>1, <1>2 DEF OfflineInv

(* A logout lists every cache of content and audio, an activation every    *)
(* shell but its own.                                                      *)
Listed(j) == [j EXCEPT !.step = "delete", !.names = Doomed(j)]

(* A job that has listed the caches takes what it took before.             *)
LEMMA ListedJob ==
  ASSUME OfflineInv, NEW j \in jobs
  PROVE  /\ Listed(j) \in JobRows
         /\ Listed(j).why = j.why /\ Listed(j).by = j.by /\ Listed(j).step = "delete"
         /\ j.why = "logout" =>
              \A n \in caches : n.kind # "shell" => n \in Listed(j).names
         /\ j.why = "activate" => Shell(j.by) \notin Listed(j).names
         /\ j.why # "activate" => \A n \in Listed(j).names : n.kind # "shell"
<1>1. j \in JobRows /\ caches \subseteq CacheNames
  BY DEF OfflineInv, OfflineTypes
<1>2. j.why \in {"logout", "switch", "activate"}
  BY <1>1 DEF JobRows
<1>3. Doomed(j) \in SUBSET CacheNames
  BY <1>1, <1>2 DEF Doomed, CachesToDeleteOnLogout, PruneContentCacheNames, StaleShellCacheNames
<1> PICK row \in JobRows : row = j
  BY <1>1
<1> PICK doomed \in SUBSET CacheNames : doomed = Doomed(j)
  BY <1>3
<1> DEFINE d == [row EXCEPT !.step = "delete", !.names = doomed]
<1>4. /\ d \in JobRows /\ d.why = row.why /\ d.by = row.by /\ d.step = "delete"
      /\ d.names = doomed
  BY DEF JobRows
<1>5. Listed(j) = d
  BY DEF Listed
<1> HIDE DEF d
<1>6. j.why = "logout" => \A n \in caches : n.kind # "shell" => n \in doomed
  BY <1>1, NameFacts DEF Doomed, CachesToDeleteOnLogout
<1>7. j.why = "activate" => Shell(j.by) \notin doomed
  BY DEF Doomed, StaleShellCacheNames
<1>8. j.why # "activate" => \A n \in doomed : n.kind # "shell"
  BY <1>2, NameFacts DEF Doomed, CachesToDeleteOnLogout, PruneContentCacheNames
<1> QED  BY <1>4, <1>5, <1>6, <1>7, <1>8

(* A job lists the caches it is to delete.                                 *)
LEMMA ListCachesStep ==
  ASSUME OfflineInv, NEW j \in jobs, ListCaches(j)
  PROVE  OfflineInv'
<1> DEFINE d == Listed(j)
<1>1. /\ jobs' = (jobs \ {j}) \cup {d} /\ j.step = "list"
      /\ UNCHANGED <<workers, control, caches, stored, requests, session, served>>
  BY DEF ListCaches, Listed
<1>2. /\ d \in JobRows
      /\ d.why = j.why /\ d.by = j.by /\ d.step = "delete"
      /\ j.why = "logout" => \A n \in caches : n.kind # "shell" => n \in d.names
      /\ j.why = "activate" => Shell(j.by) \notin d.names
      /\ j.why # "activate" => \A n \in d.names : n.kind # "shell"
  BY ListedJob
<1> HIDE DEF d
<1>3. OfflineTypes'
  BY <1>1, <1>2 DEF OfflineInv, OfflineTypes
<1>4. IdleBeforeControl' /\ RequestsAreCurrent' /\ EntriesAreCached'
  BY <1>1 DEF OfflineInv, IdleBeforeControl, RequestsAreCurrent, EntriesAreCached, Current
<1>5. OldIsTaken'
  <2> SUFFICES ASSUME NEW e \in stored, e.cache.kind # "shell", ~Current(e)
               PROVE  \E i \in jobs' : Takes(i, e)
    BY <1>1 DEF OldIsTaken, Current, Takes
  <2>1. PICK i \in jobs : Takes(i, e)
    BY DEF OfflineInv, OldIsTaken
  <2>2. CASE i = j
    BY <1>1, <1>2, <2>1, <2>2 DEF Takes, OfflineInv, EntriesAreCached
  <2>3. CASE i # j
    BY <1>1, <2>1, <2>3
  <2> QED  BY <2>2, <2>3
<1>6. ShellsStay'
  <2>1. control # 0 => HasShell(control)'
    BY <1>1 DEF OfflineInv, ShellsStay, HasShell
  <2>2. ASSUME NEW i \in jobs'
        PROVE  /\ i.why = "activate" => control \in {0, i.by} /\ HasShell(i.by)
               /\ i.why = "activate" => Shell(i.by) \notin i.names
               /\ i.why # "activate" => \A n \in i.names : n.kind # "shell"
               /\ \E h \in jobs : h.why = i.why /\ h.by = i.by
    BY <1>1, <1>2 DEF OfflineInv, ShellsStay
  <2> QED  BY <1>1, <2>1, <2>2 DEF OfflineInv, ShellsStay, HasShell
<1> QED  BY <1>3, <1>4, <1>5, <1>6 DEF OfflineInv

(* A job deletes what it listed.                                           *)
LEMMA DeleteCachesStep ==
  ASSUME OfflineInv, NEW j \in jobs, DeleteCaches(j)
  PROVE  OfflineInv'
<1>1. /\ caches' = caches \ j.names
      /\ stored' = {e \in stored : e.cache \notin j.names}
      /\ jobs' = jobs \ {j} /\ j.step = "delete"
      /\ control' = IF j.why = "activate" THEN j.by ELSE control
      /\ UNCHANGED <<workers, requests, session, served>>
  BY DEF DeleteCaches
<1>2. j \in JobRows /\ j.by \in 1 .. LastBuild
  BY DEF OfflineInv, OfflineTypes, JobRows
<1>3. OfflineTypes'
  BY <1>1, <1>2 DEF OfflineInv, OfflineTypes
<1>4. IdleBeforeControl'
  BY <1>1, <1>2 DEF OfflineInv, IdleBeforeControl
<1>5. RequestsAreCurrent' /\ EntriesAreCached'
  BY <1>1 DEF OfflineInv, RequestsAreCurrent, EntriesAreCached, Current
<1>6. OldIsTaken'
  <2> SUFFICES ASSUME NEW e \in stored', e.cache.kind # "shell", ~Current(e)
               PROVE  \E i \in jobs' : Takes(i, e)
    BY <1>1 DEF OldIsTaken, Current, Takes
  <2>1. PICK i \in jobs : Takes(i, e)
    BY <1>1 DEF OfflineInv, OldIsTaken
  <2>2. i # j
    BY <1>1, <2>1 DEF Takes
  <2> QED  BY <1>1, <2>1, <2>2
<1>7. ShellsStay'
  <2>1. ASSUME NEW b \in 1 .. LastBuild, HasShell(b), Shell(b) \notin j.names
        PROVE  HasShell(b)'
    BY <1>1, <2>1 DEF HasShell
  <2>2. (control # 0 => HasShell(control))'
    <3>1. CASE j.why = "activate"
      <4> PICK b \in 1 .. LastBuild : b = j.by
        BY <1>2
      <4>1. HasShell(b) /\ Shell(b) \notin j.names
        BY <3>1 DEF OfflineInv, ShellsStay
      <4>2. HasShell(b)'
        BY <2>1, <4>1
      <4> QED  BY <1>1, <3>1, <4>2 DEF HasShell
    <3>2. CASE j.why # "activate" /\ control # 0
      <4>1. control \in 1 .. LastBuild
        BY <3>2 DEF OfflineInv, OfflineTypes
      <4>2. HasShell(control) /\ Shell(control) \notin j.names
        BY <3>2, <4>1, NameFacts DEF OfflineInv, ShellsStay
      <4>3. PICK b \in 1 .. LastBuild : b = control
        BY <4>1
      <4>4. HasShell(b)'
        BY <2>1, <4>2, <4>3
      <4> QED  BY <1>1, <3>2, <4>3, <4>4 DEF HasShell
    <3>3. CASE j.why # "activate" /\ control = 0
      BY <1>1, <3>3
    <3> QED  BY <3>1, <3>2, <3>3
  <2>3. ASSUME NEW i \in jobs'
        PROVE  /\ i.why = "activate" => control' \in {0, i.by} /\ HasShell(i.by)'
               /\ i.why = "activate" => Shell(i.by) \notin i.names
               /\ i.why # "activate" => \A n \in i.names : n.kind # "shell"
               /\ i \in jobs
    <3>1. i \in jobs /\ i.by \in 1 .. LastBuild
      BY <1>1 DEF OfflineInv, OfflineTypes, JobRows
    <3>2. i.why = "activate" => control' \in {0, i.by}
      BY <1>1, <3>1 DEF OfflineInv, ShellsStay
    <3>3. ASSUME i.why = "activate" PROVE HasShell(i.by)'
      <4>1. HasShell(i.by) /\ Shell(i.by) \notin j.names
        <5>1. CASE j.why = "activate"
          BY <3>1, <3>3, <5>1 DEF OfflineInv, ShellsStay
        <5>2. CASE j.why # "activate"
          BY <3>1, <3>3, <5>2, NameFacts DEF OfflineInv, ShellsStay
        <5> QED  BY <5>1, <5>2
      <4> PICK b \in 1 .. LastBuild : b = i.by
        BY <3>1
      <4>2. HasShell(b)'
        BY <2>1, <4>1
      <4> QED  BY <4>2 DEF HasShell
    <3> QED  BY <3>1, <3>2, <3>3 DEF OfflineInv, ShellsStay
  <2> QED  BY <1>1, <2>2, <2>3 DEF OfflineInv, ShellsStay
<1> QED  BY <1>3, <1>4, <1>5, <1>6, <1>7 DEF OfflineInv

(* A step that leaves caches, jobs and the session alone, and gives one    *)
(* request another value.                                                  *)
LEMMA RequestStep ==
  ASSUME OfflineInv, NEW s \in Slots, NEW d \in RequestRows,
         requests' = [requests EXCEPT ![s] = d],
         UNCHANGED <<control, caches, stored, jobs, session, workers, served>>,
         d.step # "none" => control # 0,
         d.step # "none" => d.by \in 1 .. LastBuild,
         d.step = "asked" /\ d.kind # "static" => Current(d),
         d.step = "write" /\ d.cache.kind # "shell" => Current(d)
  PROVE  OfflineInv'
<1>1. OfflineTypes'
  BY DEF OfflineInv, OfflineTypes
<1>2. \A t \in Slots : requests'[t] = IF t = s THEN d ELSE requests[t]
  BY DEF OfflineInv, OfflineTypes
<1>3. IdleBeforeControl'
  BY <1>2 DEF OfflineInv, IdleBeforeControl
<1>4. RequestsAreCurrent'
  BY <1>2 DEF OfflineInv, RequestsAreCurrent, Current
<1>5. EntriesAreCached' /\ OldIsTaken' /\ ShellsStay'
  BY DEF OfflineInv, EntriesAreCached, OldIsTaken, Takes, Current, ShellsStay, HasShell
<1> QED  BY <1>1, <1>3, <1>4, <1>5 DEF OfflineInv

(* A request that fails stores nothing.                                    *)
LEMMA FailStep ==
  ASSUME OfflineInv, NEW s \in Slots, Fail(s)
  PROVE  OfflineInv'
BY RequestStep, NameFacts DEF Fail

(* A request begins in the session that is open.                           *)
LEMMA AskStep ==
  ASSUME OfflineInv, NEW s \in Slots, NEW kind \in ClassifyRequest, Request(s, kind)
  PROVE  OfflineInv'
<1>1. /\ control \in 0 .. LastBuild /\ control # 0 /\ session.now \in Nat
      /\ kind = "static" \/ session.now # 0
      /\ UNCHANGED <<workers, control, caches, stored, jobs, session, served>>
  BY DEF Request, OfflineInv, OfflineTypes
<1>2. LastBuild \in Nat /\ control \in 1 .. LastBuild
  BY <1>1, OfflineAssumption
<1> PICK by \in 0 .. LastBuild, from \in Nat : by = control /\ from = session.now
  BY <1>1
<1> DEFINE e == [NoRequest EXCEPT !.step = "asked", !.kind = kind, !.by = by, !.from = from]
<1>3. /\ e.step = "asked" /\ e.kind = kind /\ e.by = by /\ e.from = from
  BY DEF NoRequest
<1>4. e \in RequestRows
  BY NameFacts DEF NoRequest, RequestRows, ClassifyRequest
<1>5. requests' = [requests EXCEPT ![s] = e]
  BY DEF Request
<1> HIDE DEF e
<1> PICK d \in RequestRows : d = e
  BY <1>4
<1>6. d.kind # "static" => Current(d)
  BY <1>1, <1>3 DEF Current
<1> QED  BY <1>1, <1>2, <1>3, <1>5, <1>6, RequestStep

(* A request that has been written is over.                                *)
LEMMA EndedFacts ==
  ASSUME NEW q \in RequestRows
  PROVE  /\ Ended(q) \in RequestRows
         /\ Ended(q) = q \/ Ended(q).step = "none"
         /\ q.step # "written" => Ended(q) = q
BY NameFacts DEF Ended

(* A response, of the session that asked or of one that spans.             *)
LEMMA RespondStep ==
  ASSUME OfflineInv, NEW s \in Slots, Respond(s)
  PROVE  OfflineInv'
<1> PICK q \in RequestRows : q = requests[s]
  BY DEF OfflineInv, OfflineTypes
<1> DEFINE known == workers[q.by].release
           target == CASE q.kind = "static" -> Shell(q.by)
                       [] q.kind = "audio" -> Audio
                       [] OTHER -> Content(known)
<1>1. /\ q.step = "asked" /\ q.by \in 1 .. LastBuild
      /\ q.kind # "static" => Current(q)
      /\ UNCHANGED <<workers, control, caches, stored, jobs, session, served>>
      /\ control # 0 /\ served.release \in Releases
  BY DEF Respond, OfflineInv, OfflineTypes, RequestsAreCurrent, IdleBeforeControl
<1>2. known \in Releases \cup {Unknown}
  BY <1>1 DEF OfflineInv, OfflineTypes, WorkerRows
<1>3. target \in CacheNames /\ (q.kind = "static" <=> target.kind = "shell")
  BY <1>1, <1>2, NameFacts
<1> PICK cache \in CacheNames : cache = target
  BY <1>3
<1> PICK step \in {"written", "write"} :
         step = IF target = Content(Unknown) THEN "written" ELSE "write"
  OBVIOUS
<1> PICK release \in Releases \cup {Unknown} :
         release = IF q.kind = "bootstrap" THEN served.release ELSE Unknown
  BY <1>1
<1> DEFINE e == [q EXCEPT !.step = step, !.release = release, !.cache = cache]
<1>4. requests' = [requests EXCEPT ![s] = Ended(e)]
  BY DEF Respond
<1> HIDE DEF known, target
<1>5. e \in RequestRows
  BY DEF RequestRows
<1>6. /\ e.step = step /\ e.kind = q.kind /\ e.by = q.by /\ e.from = q.from
      /\ e.spans = q.spans /\ e.cache = cache
  BY DEF RequestRows
<1> HIDE DEF e
<1> PICK f \in RequestRows : f = e
  BY <1>5
<1> PICK d \in RequestRows : d = Ended(f)
  BY EndedFacts
<1>7. d = f \/ d.step = "none"
  BY EndedFacts
<1>8. d.step # "none" =>
        d.by = q.by /\ (d.step = "write" /\ d.cache.kind # "shell" => Current(d))
  <2>1. f.by = q.by /\ f.from = q.from /\ f.spans = q.spans /\ f.cache = cache
    BY <1>6
  <2>2. cache.kind # "shell" => Current(f)
    BY <1>1, <1>3, <2>1 DEF Current
  <2> QED  BY <1>7, <2>1, <2>2
<1>9. requests' = [requests EXCEPT ![s] = d]
  BY <1>4
<1>10. d.step # "asked"
  BY <1>6, <1>7
<1> QED  BY <1>1, <1>8, <1>9, <1>10, RequestStep DEF RequestRows

(* What is written through is of the session that is on, or spans.         *)
LEMMA WriteThroughStep ==
  ASSUME OfflineInv, NEW s \in Slots, WriteThrough(s)
  PROVE  OfflineInv'
<1> PICK q \in RequestRows : q = requests[s]
  BY DEF OfflineInv, OfflineTypes
<1> DEFINE e == [cache |-> q.cache, from |-> q.from, spans |-> q.spans]
           w == [q EXCEPT !.step = "written"]
<1>1. /\ q.step = "write" /\ control # 0
      /\ q.cache.kind # "shell" => Current(q)
      /\ q.by \in 1 .. LastBuild
      /\ caches' = caches \cup {q.cache} /\ stored' = stored \cup {e}
      /\ requests' = [requests EXCEPT ![s] = Ended(w)]
      /\ UNCHANGED <<workers, control, jobs, session, served>>
  BY DEF WriteThrough, OfflineInv, RequestsAreCurrent, IdleBeforeControl
<1>2. /\ e \in Entries /\ e.cache = q.cache /\ q.cache \in CacheNames
      /\ q.cache.kind # "shell" => Current(e) /\ e.from # 0
  BY <1>1 DEF Entries, RequestRows, Current
<1>3. w \in RequestRows /\ w.step = "written" /\ w.by = q.by
  BY DEF RequestRows
<1> HIDE DEF e, w
<1> PICK d \in RequestRows : d = Ended(w)
  BY <1>3, EndedFacts
<1>4. d.step \in {"none", "written"} /\ (d.step # "none" => d.by \in 1 .. LastBuild)
  BY <1>1, <1>3, EndedFacts
<1>5. \A t \in Slots : requests'[t] = IF t = s THEN d ELSE requests[t]
  BY <1>1 DEF OfflineInv, OfflineTypes
<1>6. OfflineTypes'
  BY <1>1, <1>2 DEF OfflineInv, OfflineTypes
<1>7. IdleBeforeControl'
  BY <1>1 DEF IdleBeforeControl
<1>8. RequestsAreCurrent'
  BY <1>1, <1>4, <1>5 DEF OfflineInv, RequestsAreCurrent, Current
<1>9. EntriesAreCached'
  BY <1>1, <1>2 DEF OfflineInv, EntriesAreCached
<1>10. OldIsTaken'
  BY <1>1, <1>2 DEF OfflineInv, OldIsTaken, Current, Takes
<1>11. ShellsStay'
  BY <1>1 DEF OfflineInv, ShellsStay, HasShell
<1> QED  BY <1>6, <1>7, <1>8, <1>9, <1>10, <1>11 DEF OfflineInv

(* More jobs that are no activation.                                       *)
LEMMA MoreJobs ==
  ASSUME OfflineInv, NEW j \in JobRows, j.why # "activate", j.names = {},
         jobs' \in {jobs, jobs \cup {j}}, UNCHANGED <<control, stored, caches, session>>
  PROVE  OldIsTaken' /\ ShellsStay' /\ EntriesAreCached' /\ jobs' \subseteq JobRows
<1>1. OldIsTaken'
  BY DEF OfflineInv, OldIsTaken, Takes, Current
<1>2. ShellsStay'
  BY DEF OfflineInv, ShellsStay, HasShell
<1>3. EntriesAreCached' /\ jobs' \subseteq JobRows
  BY DEF OfflineInv, EntriesAreCached, OfflineTypes
<1> QED  BY <1>1, <1>2, <1>3

(* A worker learns of a release, and a job for it begins.                  *)
LEMMA ObserveStep ==
  ASSUME OfflineInv, NEW s \in Slots, Observe(s)
  PROVE  OfflineInv'
<1> PICK q \in RequestRows : q = requests[s]
  BY DEF OfflineInv, OfflineTypes
<1> DEFINE w == [q EXCEPT !.release = Unknown]
<1>1. /\ q.step \in {"write", "written"} /\ q.release # Unknown /\ control # 0
      /\ q.by \in 1 .. LastBuild
      /\ q.step = "write" /\ q.cache.kind # "shell" => Current(q)
      /\ requests' = [requests EXCEPT ![s] = Ended(w)]
      /\ workers' = [workers EXCEPT ![q.by].release = q.release]
      /\ jobs' = IF workers[q.by].release = q.release THEN jobs
                  ELSE jobs \cup {Job("switch", q.by, q.release)}
      /\ UNCHANGED <<control, caches, stored, session, served>>
  BY DEF Observe, OfflineInv, RequestsAreCurrent, IdleBeforeControl
<1>2. /\ w \in RequestRows /\ w.step = q.step /\ w.by = q.by /\ w.from = q.from
      /\ w.spans = q.spans /\ w.cache = q.cache
  BY DEF RequestRows
<1> HIDE DEF w
<1> PICK d \in RequestRows : d = Ended(w)
  BY <1>2, EndedFacts
<1>3. d = w \/ d.step = "none"
  BY <1>2, EndedFacts
<1>4. d.step # "none" =>
        d.by \in 1 .. LastBuild /\ (d.step = "write" /\ d.cache.kind # "shell" => Current(d))
  BY <1>1, <1>2, <1>3 DEF Current
<1>5. d.step # "asked" /\ d.step \in {"none", "asked", "write", "written"}
  BY <1>1, <1>2, <1>3 DEF RequestRows
<1>6. \A t \in Slots : requests'[t] = IF t = s THEN d ELSE requests[t]
  BY <1>1 DEF OfflineInv, OfflineTypes
<1>7. q.by \in 1 .. LastBuild
  BY <1>1
<1>8. Job("switch", q.by, q.release) \in JobRows
      /\ Job("switch", q.by, q.release).why # "activate"
      /\ Job("switch", q.by, q.release).names = {}
  BY <1>7, JobFacts DEF RequestRows
<1>9. OldIsTaken' /\ ShellsStay' /\ EntriesAreCached' /\ jobs' \subseteq JobRows
  BY <1>1, <1>8, MoreJobs
<1>10. workers' \in [1 .. LastBuild -> [state : {"none", "active", "redundant"},
                                        release : Releases \cup {Unknown}]]
  <2> USE DEF WorkerRows
  <2> PICK r \in WorkerRows : r = workers[q.by]
    BY <1>7 DEF OfflineInv, OfflineTypes
  <2> DEFINE v == [r EXCEPT !.release = q.release]
  <2>1. v \in WorkerRows
    BY DEF RequestRows
  <2>2. workers' = [workers EXCEPT ![q.by] = v]
    BY <1>1
  <2> HIDE DEF v
  <2> QED  BY <1>7, <2>1, <2>2 DEF OfflineInv, OfflineTypes
<1>11. OfflineTypes'
  BY <1>1, <1>9, <1>10 DEF OfflineInv, OfflineTypes, WorkerRows
<1>12. IdleBeforeControl'
  BY <1>1 DEF IdleBeforeControl
<1>13. RequestsAreCurrent'
  BY <1>1, <1>4, <1>5, <1>6 DEF OfflineInv, RequestsAreCurrent, Current
<1> QED  BY <1>9, <1>11, <1>12, <1>13 DEF OfflineInv

(* The shell of a build is there from its installation on.                 *)
LEMMA InstallStep ==
  ASSUME OfflineInv, NEW b \in DOMAIN workers, Install(b)
  PROVE  OfflineInv'
<1> DEFINE e == [cache |-> Shell(b), from |-> 0, spans |-> FALSE]
           j == Job("activate", b, Unknown)
<1>1. /\ b \in 1 .. LastBuild /\ b # 0
      /\ \A i \in jobs : i.why # "activate"
      /\ caches' = caches \cup {Shell(b)} /\ stored' = stored \cup {e}
      /\ control' = IF control = 0 THEN 0 ELSE b
      /\ jobs' = jobs \cup {j}
      /\ UNCHANGED <<requests, session, served>>
  BY DEF Install, OfflineInv, OfflineTypes
<1>2. /\ e \in Entries /\ e.cache = Shell(b) /\ e.cache.kind = "shell"
      /\ Shell(b) \in CacheNames
  BY <1>1, NameFacts DEF Entries
<1>3. /\ j \in JobRows /\ j.why = "activate" /\ j.by = b /\ j.names = {}
  BY <1>1, JobFacts
<1> HIDE DEF e, j
<1>4. workers' \in [1 .. LastBuild -> [state : {"none", "active", "redundant"},
                                       release : Releases \cup {Unknown}]]
  <2> USE DEF WorkerRows
  <2>1. workers \in [1 .. LastBuild -> WorkerRows] /\ DOMAIN workers = 1 .. LastBuild
    BY DEF OfflineInv, OfflineTypes
  <2>2. \A r \in WorkerRows : /\ [r EXCEPT !.state = "active"] \in WorkerRows
                        /\ [r EXCEPT !.state = "redundant"] \in WorkerRows
    OBVIOUS
  <2>3. workers' = [c \in DOMAIN workers |->
           IF c = b THEN [workers[c] EXCEPT !.state = "active"]
           ELSE IF workers[c].state = "active" THEN [workers[c] EXCEPT !.state = "redundant"]
           ELSE workers[c]]
    BY DEF Install
  <2> HIDE DEF WorkerRows
  <2> QED  BY <2>1, <2>2, <2>3 DEF WorkerRows
<1>5. OfflineTypes'
  BY <1>1, <1>2, <1>3, <1>4 DEF OfflineInv, OfflineTypes, WorkerRows
<1>6. IdleBeforeControl'
  BY <1>1, <1>2 DEF OfflineInv, IdleBeforeControl
<1>7. RequestsAreCurrent' /\ EntriesAreCached' /\ OldIsTaken'
  BY <1>1, <1>2 DEF OfflineInv, RequestsAreCurrent, EntriesAreCached, OldIsTaken, Current, Takes
<1>8. ShellsStay'
  <2>1. \A i \in jobs' :
          /\ i.why = "activate" => i = j
          /\ i.why # "activate" => \A n \in i.names : n.kind # "shell"
    BY <1>1, <1>3 DEF OfflineInv, ShellsStay
  <2>2. \E d \in stored' : d.cache = Shell(b)
    BY <1>1, <1>2
  <2> QED  BY <1>1, <1>3, <2>1, <2>2 DEF ShellsStay, HasShell
<1> QED  BY <1>5, <1>6, <1>7, <1>8 DEF OfflineInv

(* A worker that is stopped forgets the release it had seen.               *)
LEMMA StopWorkerStep ==
  ASSUME OfflineInv, NEW b \in DOMAIN workers, StopWorker(b)
  PROVE  OfflineInv'
<1> USE DEF WorkerRows
<1>1. b \in 1 .. LastBuild /\ workers \in [1 .. LastBuild -> WorkerRows]
  BY DEF OfflineInv, OfflineTypes
<1> PICK r \in WorkerRows : r = workers[b]
  BY <1>1
<1> DEFINE v == [r EXCEPT !.release = Unknown]
<1>2. v \in WorkerRows
  OBVIOUS
<1>3. workers' = [workers EXCEPT ![b] = v]
      /\ UNCHANGED <<control, caches, stored, requests, jobs, session, served>>
  BY DEF StopWorker
<1> HIDE DEF v
<1>4. OfflineTypes'
  BY <1>1, <1>2, <1>3 DEF OfflineInv, OfflineTypes
<1> QED  BY <1>3, <1>4 DEF OfflineInv, IdleBeforeControl, RequestsAreCurrent, EntriesAreCached,
                           OldIsTaken, ShellsStay, Current, Takes, HasShell

(* Without a session nothing current is left but what spans.               *)
LEMMA LoginStep ==
  ASSUME OfflineInv, Login
  PROVE  OfflineInv'
<1>1. /\ session.now = 0
      /\ session' = [now |-> session.count + 1, count |-> session.count + 1]
      /\ session.count \in Nat
      /\ UNCHANGED <<workers, control, caches, stored, requests, jobs, served>>
  BY DEF Login, OfflineInv, OfflineTypes
<1>2. OfflineTypes'
  BY <1>1 DEF OfflineInv, OfflineTypes
<1>3. RequestsAreCurrent' /\ OldIsTaken'
  BY <1>1 DEF OfflineInv, RequestsAreCurrent, OldIsTaken, Current, Takes
<1> QED  BY <1>1, <1>2, <1>3 DEF OfflineInv, IdleBeforeControl, EntriesAreCached, ShellsStay,
                                 HasShell

(* The logout's message is the job that takes what the session stored.     *)
LEMMA ClearPersonalStateStep ==
  ASSUME OfflineInv, ClearPersonalState
  PROVE  OfflineInv'
<1> DEFINE j == Job("logout", control, Unknown)
           Spanning(q) == [q EXCEPT !.spans = q # NoRequest]
<1>1. /\ session.now # 0 /\ session' = [session EXCEPT !.now = 0]
      /\ requests' = [s \in Slots |-> Spanning(requests[s])]
      /\ jobs' = IF control = 0 THEN jobs ELSE jobs \cup {j}
      /\ UNCHANGED <<control, caches, stored, served>>
  BY DEF ClearPersonalState
<1>2. control \in 0 .. LastBuild /\ session \in [now : Nat, count : Nat]
  BY DEF OfflineInv, OfflineTypes
<1>3. control # 0 => /\ j \in JobRows /\ j.why = "logout" /\ j.step = "list" /\ j.names = {}
  BY <1>2, JobFacts, OfflineAssumption
<1> HIDE DEF j
<1>4. session'.now = 0 /\ session' \in [now : Nat, count : Nat]
  BY <1>1, <1>2
<1>5. \A q \in RequestRows :
        /\ Spanning(q) \in RequestRows
        /\ Spanning(q).step = q.step /\ Spanning(q).kind = q.kind /\ Spanning(q).by = q.by
        /\ Spanning(q).cache = q.cache /\ Spanning(q).from = q.from
        /\ q.step # "none" => Spanning(q).spans
  <2> SUFFICES ASSUME NEW q \in RequestRows
               PROVE  /\ Spanning(q) \in RequestRows
                      /\ Spanning(q).step = q.step /\ Spanning(q).kind = q.kind
                      /\ Spanning(q).by = q.by /\ Spanning(q).cache = q.cache
                      /\ Spanning(q).from = q.from
                      /\ q.step # "none" => Spanning(q).spans
    OBVIOUS
  <2>1. q.step # "none" => q # NoRequest
    BY NameFacts
  <2> DEFINE t == [q EXCEPT !.spans = TRUE]
             f == [q EXCEPT !.spans = FALSE]
  <2>2. /\ t \in RequestRows /\ t.step = q.step /\ t.kind = q.kind /\ t.by = q.by
        /\ t.cache = q.cache /\ t.from = q.from /\ t.spans
    BY DEF RequestRows
  <2>3. /\ f \in RequestRows /\ f.step = q.step /\ f.kind = q.kind /\ f.by = q.by
        /\ f.cache = q.cache /\ f.from = q.from
    BY DEF RequestRows
  <2>4. Spanning(q) = IF q # NoRequest THEN t ELSE f
    OBVIOUS
  <2> HIDE DEF t, f, Spanning
  <2> QED  BY <2>1, <2>2, <2>3, <2>4
<1> HIDE DEF Spanning
<1>6. requests \in [Slots -> RequestRows]
  BY DEF OfflineInv, OfflineTypes
<1>7. requests' \in [Slots -> RequestRows]
  BY <1>1, <1>5, <1>6
<1>8. workers' \in [1 .. LastBuild -> [state : {"none", "active", "redundant"},
                                       release : Releases \cup {Unknown}]]
  <2> USE DEF WorkerRows
  <2>1. workers \in [1 .. LastBuild -> WorkerRows] /\ DOMAIN workers = 1 .. LastBuild
    BY DEF OfflineInv, OfflineTypes
  <2>2. \A r \in WorkerRows : [r EXCEPT !.release = Unknown] \in WorkerRows
    OBVIOUS
  <2>3. workers' = [b \in DOMAIN workers |->
          IF b = control THEN [workers[b] EXCEPT !.release = Unknown] ELSE workers[b]]
    BY DEF ClearPersonalState
  <2> HIDE DEF WorkerRows
  <2> QED  BY <2>1, <2>2, <2>3 DEF WorkerRows
<1>9. OfflineTypes'
  BY <1>1, <1>3, <1>4, <1>7, <1>8 DEF OfflineInv, OfflineTypes, WorkerRows
<1>10. IdleBeforeControl'
  BY <1>1, <1>5, <1>6 DEF OfflineInv, IdleBeforeControl
<1>11. RequestsAreCurrent'
  BY <1>1, <1>5, <1>6 DEF OfflineInv, RequestsAreCurrent, Current
<1>12. OldIsTaken'
  <2>1. CASE control = 0
    BY <1>1, <2>1 DEF OfflineInv, IdleBeforeControl, OldIsTaken
  <2>2. CASE control # 0
    BY <1>1, <1>3, <2>2 DEF OldIsTaken, Takes
  <2> QED  BY <2>1, <2>2
<1>13. EntriesAreCached' /\ ShellsStay'
  BY <1>1, <1>3 DEF OfflineInv, EntriesAreCached, ShellsStay, HasShell
<1> QED  BY <1>9, <1>10, <1>11, <1>12, <1>13 DEF OfflineInv

(* The server activates another release.                                   *)
LEMMA SwitchReleaseStep ==
  ASSUME OfflineInv, NEW r \in Releases, SwitchRelease(r)
  PROVE  OfflineInv'
<1>1. /\ served' = [release |-> r, count |-> served.count + 1] /\ served.count \in Nat
      /\ UNCHANGED <<workers, control, caches, stored, requests, jobs, session>>
  BY DEF SwitchRelease, OfflineInv, OfflineTypes
<1>2. OfflineTypes'
  BY <1>1 DEF OfflineInv, OfflineTypes
<1> QED  BY <1>1, <1>2 DEF OfflineInv, IdleBeforeControl, RequestsAreCurrent, EntriesAreCached,
                           OldIsTaken, ShellsStay, Current, Takes, HasShell

(* The invariant of the caches.                                            *)
LEMMA OfflineInvariant == OfflineSpec => []OfflineInv
<1>1. ASSUME OfflineInv, [OfflineNext]_offlineVars PROVE OfflineInv'
  <2>1. CASE UNCHANGED offlineVars
    BY <1>1, <2>1 DEF offlineVars, OfflineInv, OfflineTypes, IdleBeforeControl,
       RequestsAreCurrent, EntriesAreCached, OldIsTaken, ShellsStay, Current, Takes, HasShell
  <2> QED  BY <1>1, <2>1, ListCachesStep, DeleteCachesStep, InstallStep, StopWorkerStep,
              AskStep, RespondStep, FailStep, WriteThroughStep, ObserveStep, LoginStep,
              ClearPersonalStateStep, SwitchReleaseStep DEF OfflineNext
<1> QED  BY <1>1, InitiallyOffline, PTL DEF OfflineSpec

(* When no deletion is under way, content and audio are of the session     *)
(* that is on or of requests that were under way when theirs ended, and    *)
(* the worker in control has its shell (sw.ts:27-29): for any number of    *)
(* requests at a time, of builds, logins and releases.                     *)
THEOREM LogoutClearsCaches == OfflineSpec => []ClearedAtLogout
<1>1. OfflineInv => ClearedAtLogout
  BY DEF OfflineInv, ClearedAtLogout, OldIsTaken, ShellsStay, HasShell, Current
<1> QED  BY <1>1, OfflineInvariant, PTL
=============================================================================
