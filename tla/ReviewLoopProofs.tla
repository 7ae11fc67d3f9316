--------------------------- MODULE ReviewLoopProofs ---------------------------
(***************************************************************************)
(* A theorem about ReviewLoop for every bound on the repairs and on the    *)
(* versions of the source, and whichever answers bear an id that is not    *)
(* their run's: what CARD_GENERATE accepts was reviewed as it stands.      *)
(***************************************************************************)
EXTENDS ReviewLoop, FiniteSetTheorems, SequenceTheorems, WellFoundedInduction, TLAPS

(* Least and greatest elements: Min and Max choose them.                   *)
LEMMA Least ==
  ASSUME NEW T \in SUBSET Nat, T # {}
  PROVE  \E x \in T : \A y \in T : x <= y
<1>1. PICK x \in T : \A y \in T : ~(<<y, x>> \in OpToRel(<, Nat))
  BY WFMin, NatLessThanWellFounded
<1>2. OpToRel(<, Nat) = {ss \in Nat \X Nat : ss[1] < ss[2]}
  BY Zenon DEF OpToRel
<1>3. ASSUME NEW y \in T PROVE x <= y
  <2>1. <<y, x>> \notin {ss \in Nat \X Nat : ss[1] < ss[2]}
    BY <1>1, <1>2
  <2> QED
    BY <2>1
<1> QED
  BY <1>3

LEMMA Greatest ==
  ASSUME NEW n \in Nat, NEW T \in SUBSET (0..n), T # {}
  PROVE  \E x \in T : \A y \in T : x >= y
<1> DEFINE D == {i \in Nat : \E x \in T : i = n - x}
<1>1. D \in SUBSET Nat
  OBVIOUS
<1>2. D # {}
  <2>1. PICK x \in T : TRUE
    OBVIOUS
  <2>2. n - x \in Nat
    OBVIOUS
  <2>3. n - x \in D
    BY <2>2
  <2> QED
    BY <2>3
<1>3. PICK d \in D : \A e \in D : d <= e
  BY <1>1, <1>2, Least
<1>4. PICK x \in T : d = n - x
  BY <1>3
<1>5. ASSUME NEW y \in T PROVE x >= y
  <2>1. n - y \in Nat /\ y \in Int /\ x \in Int
    OBVIOUS
  <2>2. n - y \in D
    BY <2>1
  <2> QED
    BY <1>3, <1>4, <2>1, <2>2
<1> QED
  BY <1>5

LEMMA MinMaxAreIn ==
  ASSUME NEW n \in Nat, NEW T \in SUBSET (0..n), T # {}
  PROVE  Min(T) \in T /\ Max(T) \in T
<1>1. \E x \in T : \A y \in T : x <= y
  BY Least
<1>2. \E x \in T : \A y \in T : x >= y
  BY Greatest
<1> QED
  BY <1>1, <1>2 DEF Min, Max

------------------------------------------------------------------------------
(* What is on disk.                                                        *)
PacketRows ==
  [role : {"generation", "review", "repair"}, round : 0 .. MaxRepairRounds,
   source : Sources, author : Nat, review : Nat]

ReviewVerdicts == {"PASS", "REPAIR", "BLOCK", "PARTIAL"}

ResultRows ==
  {r \in [packet : PacketRows, run : Nat, own : Nat, target : Nat, validFor : SUBSET Sources,
          verdict : ReviewVerdicts \cup {"CARDS", "NO_CARDS", "BREACH", "MALFORMED"}] :
     r.packet.role = "review" => r.verdict \in ReviewVerdicts}

QueueTypes ==
  /\ source \in Sources
  /\ packets \in Seq(PacketRows)
  /\ results \in Seq(ResultRows)

RunsAreDistinct ==
  \A i, j \in DOMAIN results : results[i].run = results[j].run => i = j

(* A review names the run of an earlier answer.                            *)
ReviewsComeLater ==
  \A j \in DOMAIN results :
    results[j].packet.role = "review" =>
      \E i \in DOMAIN results : i < j /\ results[i].run = results[j].target

AcceptedStands ==
  \A c \in accepted :
    LET a == c.author
        r == c.review
    IN  /\ r.target = a.own /\ r.run # a.run
        /\ r.verdict = "PASS" /\ c.source \in a.validFor
        /\ a.own = a.run =>
             \E i, j \in DOMAIN results : i < j /\ results[i] = a /\ results[j] = r

LoopInv == QueueTypes /\ RunsAreDistinct /\ ReviewsComeLater /\ AcceptedStands

------------------------------------------------------------------------------
(* Units: the answers of the queue, and the answers in order of arrival.   *)
IsUnit(unit, n) ==
  /\ DOMAIN unit \in SUBSET (1..n)
  /\ \A i \in DOMAIN unit : unit[i] \in Range(results)

LEMMA ResultsAreRows ==
  ASSUME QueueTypes, NEW r \in Range(results)
  PROVE  r \in ResultRows /\ \E i \in DOMAIN results : r = results[i]
BY DEF QueueTypes, Range

LEMMA ArrivalIsUnit ==
  ASSUME QueueTypes
  PROVE  Len(results) \in Nat /\ IsUnit(results, Len(results))
BY DEF QueueTypes, IsUnit, Range

LEMMA ByPacketIsUnit ==
  ASSUME QueueTypes
  PROVE  Len(packets) \in Nat /\ IsUnit(ByPacket, Len(packets))
<1>1. DOMAIN packets = 1 .. Len(packets) /\ Len(packets) \in Nat
  BY DEF QueueTypes
<1>2. ASSUME NEW i \in DOMAIN ByPacket
      PROVE  ByPacket[i] \in Range(results)
  <2>1. Answered(packets[i]) /\ ByPacket[i] = ResultOf(packets[i])
    BY DEF ByPacket
  <2>2. \E r \in Range(results) : r.packet = packets[i]
    BY <2>1 DEF Answered, Range
  <2> QED
    BY <2>1, <2>2 DEF ResultOf
<1> QED
  BY <1>1, <1>2 DEF IsUnit, ByPacket

LEMMA Picked ==
  ASSUME NEW unit, NEW n \in Nat, IsUnit(unit, n), NEW T \in SUBSET DOMAIN unit, T # {}
  PROVE  /\ Min(T) \in T /\ unit[Min(T)] \in Range(results)
         /\ Max(T) \in T /\ unit[Max(T)] \in Range(results)
<1>1. T \in SUBSET (0..n)
  BY DEF IsUnit
<1> QED
  BY <1>1, MinMaxAreIn DEF IsUnit

LEMMA RolesAreIn ==
  ASSUME NEW unit, NEW role, NEW round
  PROVE  /\ OfRole(unit, role) \in SUBSET DOMAIN unit
         /\ InRound(unit, role, round) \in SUBSET OfRole(unit, role)
BY DEF OfRole, InRound

(* The repairs folded are at most MaxRepairRounds, and the text that       *)
(* stands is an answer to a generation or a repair.                        *)
LEMMA StandingText ==
  ASSUME QueueTypes, NEW unit, NEW n \in Nat, IsUnit(unit, n),
         OfRole(unit, "generation") # {}, Folds(unit)
  PROVE  /\ Repairs(unit) \in 0 .. MaxRepairRounds
         /\ Author(unit, Repairs(unit)) \in Range(results)
         /\ Author(unit, Repairs(unit)).packet.role # "review"
<1> DEFINE R == Repairs(unit)
<1>1. IsFiniteSet(OfRole(unit, "repair"))
  <2>1. IsFiniteSet(1..n)
    BY FS_Interval
  <2>2. OfRole(unit, "repair") \subseteq 1..n
    BY RolesAreIn DEF IsUnit
  <2> QED
    BY <2>1, <2>2, FS_Subset
<1>2. R \in Nat
  BY <1>1, FS_CardinalityType DEF Repairs
<1>3. \A k \in 1..R : InRound(unit, "repair", k) # {}
  <2>1. ASSUME NEW k \in 1..R PROVE Cardinality(InRound(unit, "repair", k)) = 1
    BY Zenon DEF Folds
  <2>2. Cardinality({}) = 0
    BY FS_EmptySet
  <2> QED
    BY <2>1, <2>2
<1>4. \A k \in Nat : \A i \in InRound(unit, "repair", k) : k <= MaxRepairRounds
  BY ResultsAreRows DEF InRound, OfRole, IsUnit, ResultRows, PacketRows
<1>5. R <= MaxRepairRounds
  <2>1. SUFFICES ASSUME R > MaxRepairRounds PROVE FALSE
    BY <1>2, RoundsAssumption
  <2>2. MaxRepairRounds + 1 \in 1..R
    BY <1>2, <2>1, RoundsAssumption
  <2>3. MaxRepairRounds + 1 <= MaxRepairRounds
    BY <1>3, <1>4, <2>2, RoundsAssumption
  <2> QED
    BY <2>3, RoundsAssumption
<1>6. PICK T \in SUBSET DOMAIN unit :
        /\ T = IF R = 0 THEN OfRole(unit, "generation") ELSE InRound(unit, "repair", R)
  BY RolesAreIn
<1>7. T # {} /\ Author(unit, R) = unit[Max(T)]
  BY <1>2, <1>3, <1>6 DEF Author
<1>8. \A i \in T : unit[i].packet.role # "review"
  BY <1>6 DEF OfRole, InRound
<1> QED
  BY <1>2, <1>5, <1>7, <1>8, Picked, RoundsAssumption

LEMMA FirstReviewIs ==
  ASSUME QueueTypes, NEW unit, NEW n \in Nat, IsUnit(unit, n),
         NEW round, InRound(unit, "review", round) # {}
  PROVE  /\ FirstReview(unit, round) \in Range(results)
         /\ FirstReview(unit, round).packet.role = "review"
<1>1. PICK T \in SUBSET DOMAIN unit : T = InRound(unit, "review", round)
  BY RolesAreIn
<1>2. T # {} /\ FirstReview(unit, round) = unit[Min(T)]
  BY <1>1 DEF FirstReview
<1>3. \A i \in T : unit[i].packet.role = "review"
  BY <1>1 DEF OfRole, InRound
<1> QED
  BY <1>2, <1>3, Picked

(* What a phase asks for is a packet.                                      *)
LEMMA JudgedIs ==
  ASSUME QueueTypes, NEW author \in Range(results), NEW review \in Range(results),
         review.packet.role = "review", NEW round \in 0 .. MaxRepairRounds
  PROVE  /\ \A o \in Judged(author, review, round).orders : o \in PacketRows
         /\ Judged(author, review, round).phase = "passed" =>
              review.verdict = "PASS" /\ source \in author.validFor
<1> DEFINE hasErrors == source \notin author.validFor \/ review.verdict = "PARTIAL"
<1>1. author \in ResultRows /\ review \in ResultRows
  BY ResultsAreRows
<1>2. review.verdict \in {"PASS", "REPAIR", "BLOCK", "PARTIAL"}
  BY <1>1 DEF ResultRows, ReviewVerdicts
<1>3. CASE review.verdict = "BLOCK"
  <2>1. Judged(author, review, round) = Phase("blocked")
    BY <1>3 DEF Judged
  <2> QED
    BY <2>1 DEF Phase
<1>4. CASE review.verdict = "PASS" /\ ~hasErrors
  <2>1. Judged(author, review, round) = Phase("passed")
    BY <1>4 DEF Judged
  <2> QED
    BY <1>4, <2>1 DEF Phase
<1>5. CASE review.verdict \in {"PASS", "PARTIAL"} /\ hasErrors
  <2>1. Judged(author, review, round) = Phase("unrepairable")
    BY <1>5 DEF Judged
  <2> QED
    BY <2>1 DEF Phase
<1>6. CASE review.verdict = "REPAIR" /\ Exhausted(round)
  <2>1. Judged(author, review, round) = Phase("blocked")
    BY <1>6 DEF Judged
  <2> QED
    BY <2>1 DEF Phase
<1>7. CASE review.verdict = "REPAIR" /\ ~Exhausted(round)
  <2>1. Judged(author, review, round) = RepairOf(author, review, round)
    BY <1>7 DEF Judged
  <2>2. round + 1 \in 0 .. MaxRepairRounds
    BY <1>7, RoundsAssumption DEF Exhausted
  <2>3. author.run \in Nat /\ review.run \in Nat /\ source \in Sources
    BY <1>1 DEF ResultRows, QueueTypes
  <2>4. Packet("repair", round + 1, author.run, review.run) \in PacketRows
    BY <2>2, <2>3 DEF Packet, PacketRows
  <2> QED
    BY <2>1, <2>4 DEF RepairOf, Awaits
<1> QED
  BY <1>2, <1>3, <1>4, <1>5, <1>6, <1>7

LEMMA AssessmentIs ==
  ASSUME QueueTypes
  PROVE  /\ \A o \in Assessment.orders : o \in PacketRows
         /\ Assessment.phase = "passed" =>
              LET a == Author(ByPacket, Repairs(ByPacket))
                  r == FirstReview(ByPacket, Repairs(ByPacket))
              IN  /\ a \in Range(results) /\ a.packet.role # "review"
                  /\ r \in Range(results) /\ r.packet.role = "review"
                  /\ r.target = a.own /\ r.verdict = "PASS" /\ source \in a.validFor
<1>1. PICK unit : unit = ByPacket
  OBVIOUS
<1>2. PICK n \in Nat : IsUnit(unit, n)
  BY <1>1, ByPacketIsUnit
<1> DEFINE round == Repairs(unit)
           author == Author(unit, round)
           first == FirstReview(unit, round)
<1>3. CASE OfRole(unit, "generation") = {}
  <2>1. Assess(unit) = Awaits("awaiting_generation", Packet("generation", 0, 0, 0))
    BY <1>3 DEF Assess
  <2>2. Packet("generation", 0, 0, 0) \in PacketRows
    BY RoundsAssumption DEF Packet, PacketRows, QueueTypes
  <2> QED
    BY <1>1, <2>1, <2>2 DEF Assessment, Awaits
<1>4. CASE OfRole(unit, "generation") # {} /\ ~Folds(unit)
  <2>1. Assess(unit) = Phase("invalid")
    BY <1>4 DEF Assess
  <2> QED
    BY <1>1, <2>1 DEF Assessment, Phase
<1>5. CASE OfRole(unit, "generation") # {} /\ Folds(unit)
  <2>1. /\ round \in 0 .. MaxRepairRounds /\ author \in Range(results)
        /\ author.packet.role # "review"
    BY <1>2, <1>5, StandingText
  <2>2. CASE IsReviewed(unit, round)
    <3>1. Assess(unit) = Judged(author, first, round)
      BY <1>5, <2>2 DEF Assess
    <3>2. InRound(unit, "review", round) # {} /\ first.target = author.own
      BY <2>2 DEF IsReviewed
    <3>3. first \in Range(results) /\ first.packet.role = "review"
      BY <1>2, <3>2, FirstReviewIs
    <3>4. /\ \A o \in Judged(author, first, round).orders : o \in PacketRows
          /\ Judged(author, first, round).phase = "passed" =>
               first.verdict = "PASS" /\ source \in author.validFor
      BY <2>1, <3>3, JudgedIs
    <3> HIDE DEF author, first
    <3> QED
      BY <1>1, <2>1, <3>1, <3>2, <3>3, <3>4 DEF Assessment, author, first
  <2>3. CASE ~IsReviewed(unit, round)
    <3>1. Assess(unit) = Awaits("awaiting_review", Packet("review", round, author.run, 0))
      BY <1>5, <2>3 DEF Assess
    <3>2. author.run \in Nat
      BY <2>1, ResultsAreRows DEF ResultRows
    <3>3. Packet("review", round, author.run, 0) \in PacketRows
      BY <2>1, <3>2 DEF Packet, PacketRows, QueueTypes
    <3> QED
      BY <1>1, <3>1, <3>3 DEF Assessment, Awaits
  <2> QED
    BY <2>2, <2>3
<1> QED
  BY <1>3, <1>4, <1>5

------------------------------------------------------------------------------
(* The steps.                                                              *)
LEMMA EnqueueKeeps ==
  ASSUME QueueTypes, NEW p \in PacketRows, Enqueue(p)
  PROVE  packets' \in Seq(PacketRows)
<1>1. CASE p \in Range(packets)
  BY <1>1 DEF Enqueue, QueueTypes
<1>2. CASE p \notin Range(packets)
  <2>1. PICK i \in Places(p) : packets' = InsertAt(packets, i + 1, p)
    BY <1>2 DEF Enqueue
  <2>2. i \in 0 .. Len(packets)
    BY DEF Places, QueueTypes
  <2> DEFINE before == SubSeq(packets, 1, (i + 1) - 1)
             after == SubSeq(packets, i + 1, Len(packets))
  <2>3. packets' = before \o <<p>> \o after
    BY <2>1, Zenon DEF InsertAt
  <2>4. before \in Seq(PacketRows) /\ after \in Seq(PacketRows)
    BY <2>2 DEF QueueTypes
  <2> HIDE DEF before, after
  <2> QED
    BY <2>3, <2>4
<1> QED
  BY <1>1, <1>2

LEMMA AnswersAre ==
  ASSUME NEW p \in PacketRows, NEW run \in Nat, Len(results) \in Nat, Names(p) \in Nat,
         NEW r \in Answers(p, run)
  PROVE  r \in ResultRows /\ r.packet = p /\ r.run = run /\ r.target = Names(p)
<1>1. PICK own \in Ids(p.role, run), content \in Contents(p.role) :
        r = [packet |-> p, run |-> run, own |-> own, target |-> Names(p),
             validFor |-> content.validFor, verdict |-> content.verdict]
  BY DEF Answers
<1>2. own \in Nat
  BY DEF Ids
<1>3. Texts \subseteq SUBSET Sources
  BY DEF Texts
<1>4. content.validFor \in SUBSET Sources
      /\ content.verdict \in ReviewVerdicts \cup {"CARDS", "NO_CARDS", "BREACH", "MALFORMED"}
      /\ (p.role = "review" => content.verdict \in ReviewVerdicts)
  BY <1>3 DEF Contents, Flaws, ReviewVerdicts
<1> QED
  BY <1>1, <1>2, <1>4 DEF ResultRows

(* The run whose text stands is that of an answer there is.                *)
LEMMA CurrentAuthorIs ==
  ASSUME QueueTypes, OfRole(results, "generation") # {}
  PROVE  \E i \in DOMAIN results : CurrentAuthor = results[i]
<1>1. PICK T : T = IF LatestRepairs = {} THEN OfRole(results, "generation") ELSE LatestRepairs
  OBVIOUS
<1>2. T \in SUBSET DOMAIN results /\ T # {}
  BY <1>1, RolesAreIn DEF LatestRepairs
<1>3. Max(T) \in DOMAIN results
  BY <1>2, ArrivalIsUnit, Picked
<1>4. CurrentAuthor = results[Max(T)]
  BY <1>1 DEF CurrentAuthor
<1> QED
  BY <1>3, <1>4

(* A repair is checked against the last review there is.                   *)
LEMMA LatestReviewIs ==
  ASSUME QueueTypes, OfRole(results, "review") # {}
  PROVE  LastReview(results, LatestRound(results)) \in Range(results)
<1> DEFINE rounds == {results[i].packet.round : i \in OfRole(results, "review")}
<1>1. \A i \in OfRole(results, "review") : results[i].packet.round \in 0 .. MaxRepairRounds
  <2>1. ASSUME NEW i \in OfRole(results, "review")
        PROVE  results[i].packet.round \in 0 .. MaxRepairRounds
    <3>1. results[i] \in ResultRows
      BY DEF QueueTypes, OfRole
    <3> QED
      BY <3>1 DEF ResultRows, PacketRows
  <2> QED
    BY <2>1
<1>2. rounds \in SUBSET (0 .. MaxRepairRounds) /\ rounds # {}
  BY <1>1
<1>3. Max(rounds) \in rounds
  <2> HIDE DEF rounds
  <2> QED
    BY <1>2, MinMaxAreIn, RoundsAssumption
<1>4. InRound(results, "review", LatestRound(results)) # {}
  BY <1>3 DEF InRound, LatestRound
<1>5. PICK T \in SUBSET DOMAIN results : T = InRound(results, "review", LatestRound(results))
  BY RolesAreIn
<1> QED
  BY <1>4, <1>5, ArrivalIsUnit, Picked DEF LastReview

(* What an answer that may be taken in names.                              *)
LEMMA NamesIs ==
  ASSUME LoopInv, NEW p \in PacketRows, NEW run, MayIngest(p, run)
  PROVE  /\ Names(p) \in Nat
         /\ p.role = "review" => \E i \in DOMAIN results : results[i].run = Names(p)
<1>1. QueueTypes
  BY DEF LoopInv
<1>2. CASE p.role = "generation"
  BY <1>2 DEF Names
<1>3. CASE p.role = "review"
  <2>1. OfRole(results, "generation") # {} /\ Names(p) = CurrentAuthor.run
    BY <1>3 DEF MayIngest, IsTarget
  <2>2. PICK i \in DOMAIN results : CurrentAuthor = results[i]
    BY <1>1, <2>1, CurrentAuthorIs
  <2>3. results[i] \in ResultRows
    BY <1>1 DEF QueueTypes
  <2> QED
    BY <2>1, <2>2, <2>3 DEF ResultRows
<1>4. CASE p.role = "repair"
  <2>1. OfRole(results, "review") # {}
        /\ Names(p) = LastReview(results, LatestRound(results)).own
    BY <1>4 DEF MayIngest, InOrder, IsTarget
  <2>2. LastReview(results, LatestRound(results)) \in ResultRows
    BY <1>1, <2>1, LatestReviewIs, ResultsAreRows
  <2> QED
    BY <1>4, <2>1, <2>2 DEF ResultRows
<1> QED
  BY <1>2, <1>3, <1>4 DEF PacketRows

LEMMA AnswerKeeps ==
  ASSUME LoopInv, Answer
  PROVE  LoopInv'
<1>1. PICK p \in Range(packets), run \in Runs : Ingest(p, run)
  BY DEF Answer
<1>2. PICK r \in Answers(p, run) : results' = Append(results, r)
  BY <1>1 DEF Ingest
<1>3. UNCHANGED <<source, packets, accepted>> /\ MayIngest(p, run)
  BY <1>1 DEF Ingest
<1>4. p \in PacketRows /\ run \in Nat /\ Len(results) \in Nat
  BY DEF LoopInv, QueueTypes, Range, Runs
<1>5. r \in ResultRows /\ r.packet = p /\ r.run = run /\ r.target = Names(p)
  BY <1>2, <1>3, <1>4, AnswersAre, NamesIs
<1>6. QueueTypes'
  BY <1>2, <1>3, <1>5 DEF LoopInv, QueueTypes
<1>7. /\ DOMAIN results = 1 .. Len(results) /\ DOMAIN results' = 1 .. Len(results) + 1
      /\ \A i \in DOMAIN results : results'[i] = results[i]
      /\ results'[Len(results) + 1] = r
  BY <1>2, <1>5 DEF LoopInv, QueueTypes
<1>8. RunsAreDistinct'
  <2>1. \A i \in DOMAIN results : results[i].run # r.run
    BY <1>3, <1>5 DEF MayIngest, Distinct
  <2> QED
    BY <1>4, <1>7, <2>1 DEF LoopInv, RunsAreDistinct
<1>9. ReviewsComeLater'
  <2>1. ASSUME r.packet.role = "review"
        PROVE  \E i \in DOMAIN results : results[i].run = r.target
    BY <1>3, <1>4, <1>5, <2>1, NamesIs
  <2> QED
    BY <1>4, <1>7, <2>1 DEF LoopInv, ReviewsComeLater
<1>10. AcceptedStands'
  BY <1>3, <1>4, <1>7 DEF LoopInv, AcceptedStands
<1> QED
  BY <1>6, <1>8, <1>9, <1>10 DEF LoopInv

LEMMA AcceptKeeps ==
  ASSUME LoopInv, Assessment.phase = "passed", Accept, UNCHANGED <<source, packets, results>>
  PROVE  LoopInv'
<1> DEFINE a == Author(ByPacket, Repairs(ByPacket))
           r == FirstReview(ByPacket, Repairs(ByPacket))
<1>1. /\ a \in Range(results) /\ a.packet.role # "review"
      /\ r \in Range(results) /\ r.packet.role = "review"
      /\ r.target = a.own /\ r.verdict = "PASS" /\ source \in a.validFor
  BY AssessmentIs DEF LoopInv
<1>2. accepted' = {[author |-> a, review |-> r, source |-> source]}
  BY DEF Accept
<1> HIDE DEF a, r
<1>3. PICK i \in DOMAIN results, j \in DOMAIN results : results[i] = a /\ results[j] = r
  BY <1>1 DEF Range
<1>4. a.own = a.run => i < j
  <2>1. PICK k \in DOMAIN results : k < j /\ results[k].run = r.target
    BY <1>1, <1>3 DEF LoopInv, ReviewsComeLater
  <2> QED
    BY <1>1, <1>3, <2>1 DEF LoopInv, RunsAreDistinct
<1>5. r.run # a.run
  BY <1>1, <1>3 DEF LoopInv, RunsAreDistinct
<1>6. AcceptedStands'
  BY <1>1, <1>2, <1>3, <1>4, <1>5 DEF AcceptedStands
<1> QED
  BY <1>6 DEF LoopInv, QueueTypes, RunsAreDistinct, ReviewsComeLater

(* What the gates do to the queue and to what is accepted.                 *)
LEMMA GatesDo ==
  ASSUME NEW a, a = Assessment, GateRuns(a)
  PROVE  \/ /\ \E order \in a.orders : Enqueue(order)
            /\ UNCHANGED <<source, results, accepted>>
         \/ UNCHANGED <<source, packets, results, accepted>>
         \/ a.phase = "passed" /\ Accept /\ UNCHANGED <<source, packets, results>>
BY DEF GateRuns, PacketGate, Validates, RepairGate, MakesCards, Asks, Passes, GateFails, Blocks

LEMMA StillHolds ==
  ASSUME LoopInv, UNCHANGED <<source, packets, results, accepted>>
  PROVE  LoopInv'
BY DEF LoopInv, QueueTypes, RunsAreDistinct, ReviewsComeLater, AcceptedStands

LEMMA RunStepKeeps ==
  ASSUME LoopInv, RunStep
  PROVE  LoopInv'
<1>1. CASE StartRun \/ StopsAtBlocked
  BY <1>1, StillHolds DEF StartRun, StopsAtBlocked
<1>2. ASSUME NEW a, a = Assessment, GateRuns(a)
      PROVE  LoopInv'
  <2>1. CASE UNCHANGED <<source, packets, results, accepted>>
    BY <2>1, StillHolds
  <2>2. CASE a.phase = "passed" /\ Accept /\ UNCHANGED <<source, packets, results>>
    BY <1>2, <2>2, AcceptKeeps
  <2>3. ASSUME NEW order \in a.orders, Enqueue(order), UNCHANGED <<source, results, accepted>>
        PROVE  LoopInv'
    <3>1. order \in PacketRows
      BY <1>2, AssessmentIs DEF LoopInv
    <3>2. QueueTypes'
      BY <2>3, <3>1, EnqueueKeeps DEF LoopInv, QueueTypes
    <3> QED
      BY <2>3, <3>2 DEF LoopInv, RunsAreDistinct, ReviewsComeLater, AcceptedStands
  <2> QED
    BY <1>2, <2>1, <2>2, <2>3, GatesDo
<1> QED
  BY <1>1, <1>2 DEF RunStep

LEMMA NormaliseKeeps ==
  ASSUME LoopInv, Normalise
  PROVE  LoopInv'
<1>1. source' \in Sources
  BY EditsAssumption DEF Normalise, LoopInv, QueueTypes, Sources
<1> QED
  BY <1>1 DEF Normalise, LoopInv, QueueTypes, RunsAreDistinct, ReviewsComeLater, AcceptedStands

(* The inductive invariant holds in every reachable state.                 *)
THEOREM LoopInvariance == LoopSpec => []LoopInv
<1>1. LoopInit => LoopInv
  BY EditsAssumption DEF LoopInit, LoopInv, QueueTypes, RunsAreDistinct, ReviewsComeLater,
                         AcceptedStands, Sources
<1>2. LoopInv /\ [LoopNext]_loopVars => LoopInv'
  BY RunStepKeeps, AnswerKeeps, NormaliseKeeps, StillHolds DEF LoopNext, loopVars
<1> QED
  BY <1>1, <1>2, PTL DEF LoopSpec

(* Whatever agents answer, in any order and with any run ids, cards are    *)
(* made only of a text that another run has reviewed as it stands and      *)
(* found right, and no answer is past the last repair (assessUnit,         *)
(* ingestSemanticResult).                                                  *)
THEOREM CardsAreOfReviewed == LoopSpec => []AcceptedIsReviewed
<1>1. LoopInv => AcceptedIsReviewed
  <2>1. SUFFICES ASSUME LoopInv PROVE AcceptedIsReviewed
    OBVIOUS
  <2>2. \A i \in DOMAIN results : results[i].packet.round <= MaxRepairRounds
    <3>1. ASSUME NEW i \in DOMAIN results PROVE results[i] \in ResultRows
      BY <2>1 DEF LoopInv, QueueTypes
    <3> QED
      BY <3>1, RoundsAssumption DEF ResultRows, PacketRows
  <2> QED
    BY <2>1, <2>2 DEF LoopInv, AcceptedStands, AcceptedIsReviewed
<1> QED
  BY <1>1, LoopInvariance, PTL
=============================================================================
