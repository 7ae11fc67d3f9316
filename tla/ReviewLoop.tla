------------------------------ MODULE ReviewLoop ------------------------------
(***************************************************************************)
(* The proofreading of one unit by external agents                         *)
(* (tools/content-compiler/src/agents/review-loop.ts, work-packets.ts and  *)
(* the four gates of stage-registry.ts).  A run of the compiler assesses   *)
(* the unit from a queue of packets and results on disk, asks for what it  *)
(* needs next by adding a packet, and ends; agents answer packets in any   *)
(* order and at any time, each answer being checked against the queue      *)
(* before it is appended.  One unit is modelled: units share only the set  *)
(* of run ids.                                                             *)
(*                                                                         *)
(* A result is named by its agent run; what it puts out bears an id of its *)
(* own (a generation's agent_run_id, a review's review_id), which nobody   *)
(* compares with the run.  Of a generated text we keep the source versions *)
(* it is valid for and what comes of it when its turn has come; of a       *)
(* review its verdict, where "PARTIAL" is a review that flags nothing and  *)
(* leaves fields out, or contradicts itself.  One answer is taken in at a  *)
(* time.                                                                   *)
(***************************************************************************)
EXTENDS Integers, SequencesExt

CONSTANTS MaxRepairRounds,   \* MAX_REPAIR_ROUNDS
          MaxEdits,          \* bound: versions of the source after the first
          Misnaming          \* the roles whose output may bear an id that is
                             \* not the answer's run

ASSUME RoundsAssumption == MaxRepairRounds \in Nat
ASSUME EditsAssumption == MaxEdits \in Nat
ASSUME MisnamingAssumption == Misnaming \subseteq {"generation", "review"}

Sources == 0 .. MaxEdits

Gates == <<"AGENT_ENRICH", "AGENT_REVIEW", "DETERMINISTIC_VALIDATE",
           "REPAIR_LOOP", "CARD_GENERATE">>

VARIABLES source,    \* the version of normalized.jsonl
          packets,   \* packets.jsonl, in the order of the packet ids
          results,   \* results.jsonl, in the order of arrival
          gate,      \* the gate the run is at, 0 when none runs
          blocked,   \* the gate whose ledger entry is BLOCKED, or 0
          accepted   \* what CARD_GENERATE found passed: at most one record

loopVars == <<source, packets, results, gate, blocked, accepted>>

-------------------------------------------------------------------------------
(* The queue.                                                              *)

Packet(role, round, author, review) ==
  [role |-> role, round |-> round, source |-> source,
   author |-> author, review |-> review]

Answered(p) == \E i \in DOMAIN results : results[i].packet = p

ResultOf(p) == CHOOSE r \in Range(results) : r.packet = p

(* Packet ids end in a hash: a packet comes anywhere among those of its    *)
(* role and round.                                                         *)
Places(p) ==
  {Len(packets)} \cup
  {i - 1 : i \in {j \in DOMAIN packets :
                    packets[j].role = p.role /\ packets[j].round = p.round}}

Enqueue(p) ==
  IF p \in Range(packets) THEN UNCHANGED packets
  ELSE \E i \in Places(p) : packets' = InsertAt(packets, i + 1, p)

-------------------------------------------------------------------------------
(* What a unit has got: its results, in an order.                          *)

(* The gates read results in the order of the packets, ...                 *)
ByPacket ==
  [i \in {j \in DOMAIN packets : Answered(packets[j])} |-> ResultOf(packets[i])]

(* ... the check of an answer in the order of arrival, which is results.   *)

OfRole(unit, role) == {i \in DOMAIN unit : unit[i].packet.role = role}

InRound(unit, role, round) ==
  {i \in OfRole(unit, role) : unit[i].packet.round = round}

Repairs(unit) == Cardinality(OfRole(unit, "repair"))

(* The result whose text stands after n repairs; a later generation        *)
(* replaces an earlier one.                                                *)
Author(unit, n) ==
  unit[Max(IF n = 0 THEN OfRole(unit, "generation") ELSE InRound(unit, "repair", n))]

(* Of two reviews of a round the repairs are folded on the last, ...       *)
LastReview(unit, round) == unit[Max(InRound(unit, "review", round))]

(* ... and the unit is judged by the first.                                *)
FirstReview(unit, round) == unit[Min(InRound(unit, "review", round))]

(* A repair that does not fit the schema is found out here, by every       *)
(* assessment after it was taken in.                                       *)
Folds(unit) ==
  \A n \in 1 .. Repairs(unit) :
    /\ Cardinality(InRound(unit, "repair", n)) = 1
    /\ InRound(unit, "review", n - 1) # {}
    /\ Author(unit, n).target = LastReview(unit, n - 1).own
    /\ LastReview(unit, n - 1).target = Author(unit, n - 1).own
    /\ Author(unit, n).verdict # "MALFORMED"

-------------------------------------------------------------------------------
(* assessUnit.                                                             *)

Phase(phase) == [phase |-> phase, orders |-> {}]
Awaits(phase, order) == [phase |-> phase, orders |-> {order}]

(* Fault: the repair belongs to the round of its review.                   *)
RepairInRound(author, review, round) ==
  Awaits("awaiting_repair", Packet("repair", round, author.run, review.run))

RepairOf(author, review, round) ==
  Awaits("awaiting_repair", Packet("repair", round + 1, author.run, review.run))

(* A fourth repair is impossible.                                          *)
Exhausted(round) == round >= MaxRepairRounds

(* What a review of the standing text leads to.                            *)
Judged(author, review, round) ==
  LET hasErrors == source \notin author.validFor \/ review.verdict = "PARTIAL"
  IN  CASE review.verdict = "BLOCK" -> Phase("blocked")
        [] review.verdict = "PASS" /\ ~hasErrors -> Phase("passed")
        [] review.verdict \in {"PASS", "PARTIAL"} /\ hasErrors -> Phase("unrepairable")
        [] review.verdict = "REPAIR" /\ Exhausted(round) -> Phase("blocked")
        [] OTHER -> RepairOf(author, review, round)

(* The first review of the round must be of the text that stands.          *)
IsReviewed(unit, round) ==
  /\ InRound(unit, "review", round) # {}
  /\ FirstReview(unit, round).target = Author(unit, round).own

Assess(unit) ==
  IF OfRole(unit, "generation") = {}
  THEN Awaits("awaiting_generation", Packet("generation", 0, 0, 0))
  ELSE IF ~Folds(unit) THEN Phase("invalid")
  ELSE LET round == Repairs(unit)
           author == Author(unit, round)
       IN  IF IsReviewed(unit, round)
           THEN Judged(author, FirstReview(unit, round), round)
           ELSE Awaits("awaiting_review", Packet("review", round, author.run, 0))

Assessment == Assess(ByPacket)

-------------------------------------------------------------------------------
(* The gates.  Each of them assesses the unit anew.                        *)

GateName == Gates[gate]

RunEnds == gate' = 0

StartRun ==
  /\ gate = 0 /\ accepted = {}
  /\ gate' = 1
  /\ UNCHANGED <<source, packets, results, blocked, accepted>>

(* A gate whose entry is BLOCKED ends every later run.                     *)
StopsAtBlocked ==
  /\ gate # 0 /\ blocked = gate
  /\ RunEnds
  /\ UNCHANGED <<source, packets, results, blocked, accepted>>

(* AGENT_ENRICH, AGENT_REVIEW and REPAIR_LOOP ask for what their phase     *)
(* lacks and fail until it is there.                                       *)
Asks(assessment) ==
  /\ \E order \in assessment.orders : Enqueue(order)
  /\ RunEnds
  /\ UNCHANGED <<source, results, blocked, accepted>>

Passes ==
  /\ gate' = gate + 1
  /\ UNCHANGED <<source, packets, results, blocked, accepted>>

GateFails ==
  /\ RunEnds
  /\ UNCHANGED <<source, packets, results, blocked, accepted>>

Blocks ==
  /\ blocked' = gate
  /\ RunEnds
  /\ UNCHANGED <<source, packets, results, accepted>>

PacketGate(phase, a) ==
  \/ a.phase = phase /\ Asks(a)
  \/ a.phase \notin {phase, "invalid"} /\ Passes
  \/ a.phase = "invalid" /\ GateFails

Unreported == {"awaiting_generation", "awaiting_review", "invalid"}

(* DETERMINISTIC_VALIDATE wants a report of every unit.                    *)
Validates(a) ==
  \/ a.phase \in {"awaiting_repair", "passed", "blocked"} /\ Passes
  \/ a.phase = "unrepairable" /\ Blocks
  \/ a.phase \in Unreported /\ GateFails

RepairGate(a) ==
  \/ a.phase = "awaiting_repair" /\ Asks(a)
  \/ a.phase \in {"blocked", "unrepairable"} /\ Blocks
  \/ a.phase = "passed" /\ Passes
  \/ a.phase \in Unreported /\ GateFails

Accept ==
  LET round == Repairs(ByPacket)
  IN  accepted' = {[author |-> Author(ByPacket, round),
                    review |-> FirstReview(ByPacket, round),
                    source |-> source]}

(* The text that stands.                                                   *)
Standing == Author(ByPacket, Repairs(ByPacket))

(* A passed text may leave a word without cards, which is final, or break  *)
(* another of the card rules.                                              *)
MakesCards(a) ==
  \/ /\ a.phase = "passed" /\ Standing.verdict = "CARDS"
     /\ Accept
     /\ RunEnds
     /\ UNCHANGED <<source, packets, results, blocked>>
  \/ a.phase = "passed" /\ Standing.verdict = "NO_CARDS" /\ Blocks
  \/ a.phase = "passed" /\ Standing.verdict = "BREACH" /\ GateFails
  \/ a.phase # "passed" /\ GateFails

GateRuns(a) ==
  \/ GateName = "AGENT_ENRICH" /\ PacketGate("awaiting_generation", a)
  \/ GateName = "AGENT_REVIEW" /\ PacketGate("awaiting_review", a)
  \/ GateName = "DETERMINISTIC_VALIDATE" /\ Validates(a)
  \/ GateName = "REPAIR_LOOP" /\ RepairGate(a)
  \/ GateName = "CARD_GENERATE" /\ MakesCards(a)

RunStep ==
  \/ StartRun
  \/ StopsAtBlocked
  \/ /\ gate # 0 /\ blocked # gate
     /\ \E a \in {Assessment} : GateRuns(a)

-------------------------------------------------------------------------------
(* An agent's answer.                                                      *)

(* Run ids are the agent's own; an agent may well use one twice.           *)
Runs == 1 .. Len(results) + 1

(* Fault: only the runs of one role must be distinct.                      *)
DistinctByRole(run, role) ==
  run \notin {results[i].run : i \in OfRole(results, role)}

Distinct(run, role) ==
  run \notin {results[i].run : i \in DOMAIN results}

LatestRound(unit) == Max({unit[i].packet.round : i \in OfRole(unit, "review")})

(* Nothing may jump ahead: review r answers the text after r repairs, and  *)
(* repair r the latest review.                                             *)
InOrder(p) ==
  \/ p.role = "generation"
  \/ p.role = "review" /\ p.round = Repairs(results)
  \/ /\ p.role = "repair" /\ OfRole(results, "review") # {}
     /\ p.round = LatestRound(results) + 1

(* An agent answers what its packet shows it: the id that the text or the  *)
(* review in it bears.                                                     *)
Borne(run) == (CHOOSE r \in Range(results) : r.run = run).own

Names(p) ==
  CASE p.role = "generation" -> 0
    [] p.role = "review" -> Borne(p.author)
    [] p.role = "repair" -> Borne(p.review)

LatestRepairs ==
  {i \in OfRole(results, "repair") :
     \A j \in OfRole(results, "repair") :
       results[j].packet.round <= results[i].packet.round}

(* currentGenerationRunId.                                                 *)
CurrentAuthor ==
  results[Max(IF LatestRepairs = {} THEN OfRole(results, "generation")
              ELSE LatestRepairs)]

(* What the answer must name: the run whose text stands, the last review.  *)
IsTarget(p) ==
  CASE p.role = "generation" -> TRUE
    [] p.role = "review" ->
         /\ OfRole(results, "generation") # {}
         /\ Names(p) = CurrentAuthor.run
    [] p.role = "repair" ->
         Names(p) = LastReview(results, LatestRound(results)).own

(* A text is valid for the versions before an edit, or for all, or none.   *)
Texts == {{s \in Sources : s < n} : n \in 0 .. MaxEdits + 1}

(* What is found out of a text that is valid: by the card rules, or, of a  *)
(* repair, as soon as it is put in place.                                  *)
Flaws(role) ==
  {"NO_CARDS", "BREACH"} \cup (IF role = "repair" THEN {"MALFORMED"} ELSE {})

Contents(role) ==
  IF role = "review"
  THEN [validFor : {{}}, verdict : {"PASS", "REPAIR", "BLOCK", "PARTIAL"}]
  ELSE [validFor : Texts, verdict : {"CARDS"}]
         \cup [validFor : {Sources}, verdict : Flaws(role)]

(* 0 is an id that no run has.                                             *)
Ids(role, run) == {run} \cup (IF role \in Misnaming THEN 0 .. Len(results) ELSE {})

Answers(p, run) ==
  {[packet |-> p, run |-> run, own |-> own, target |-> Names(p),
    validFor |-> content.validFor, verdict |-> content.verdict] :
      own \in Ids(p.role, run), content \in Contents(p.role)}

MayIngest(p, run) ==
  /\ ~Answered(p)
  /\ InOrder(p)
  /\ Distinct(run, p.role)
  /\ IsTarget(p)

Ingest(p, run) ==
  /\ MayIngest(p, run)
  /\ \E r \in Answers(p, run) : results' = Append(results, r)
  /\ UNCHANGED <<source, packets, gate, blocked, accepted>>

Answer == \E p \in Range(packets), run \in Runs : Ingest(p, run)

(* STRUCTURE_NORMALIZE runs again on changed rules or corrections.         *)
Normalise ==
  /\ gate = 0 /\ source < MaxEdits /\ accepted = {}
  /\ source' = source + 1
  /\ UNCHANGED <<packets, results, gate, blocked, accepted>>

-------------------------------------------------------------------------------
LoopInit ==
  /\ source = 0
  /\ packets = <<>> /\ results = <<>>
  /\ gate = 0 /\ blocked = 0
  /\ accepted = {}

LoopNext == RunStep \/ Answer \/ Normalise

(* The supervisor runs the compiler again until it is through, and agents  *)
(* answer what they are asked (content-agent-compile.md).  A run can take  *)
(* a step as long as no cards are accepted, so the first is WF(RunStep).   *)
RunsGoOn == []<><<RunStep>>_loopVars \/ <>[](accepted # {})
LoopFairness == RunsGoOn /\ WF_loopVars(Answer)

LoopSpec == LoopInit /\ [][LoopNext]_loopVars /\ LoopFairness

-------------------------------------------------------------------------------
(* What CARD_GENERATE accepts was reviewed as it stands: the review names  *)
(* the id its text bears, comes of another run, found nothing to repair,   *)
(* and the text is valid for the book of the cards; and if the text bears  *)
(* the id of its own run, the review came later than it.  Otherwise it may *)
(* be the review of an earlier generation, whose id the text bears         *)
(* (work-packets.ts:587-599 compares neither).  No repair is ever asked    *)
(* for after MaxRepairRounds of them.                                      *)
AcceptedIsReviewed ==
  /\ \A c \in accepted :
       LET a == c.author
           r == c.review
       IN  /\ r.target = a.own /\ r.run # a.run
           /\ r.verdict = "PASS" /\ c.source \in a.validFor
           /\ a.own = a.run =>
                \E i, j \in DOMAIN results : i < j /\ results[i] = a /\ results[j] = r
  /\ \A i \in DOMAIN results : results[i].packet.round <= MaxRepairRounds

(* Two packets of one role and round wait for, or have got, answers: the   *)
(* unit was normalised again between them.                                 *)
Ambiguous ==
  \E i, j \in DOMAIN packets :
    i # j /\ packets[i].role = packets[j].role /\ packets[i].round = packets[j].round

(* Answers that were taken in and with which no run gets any further: a    *)
(* text that bears another id than its run, which no review can name both  *)
(* at the ingest (work-packets.ts:604) and in the assessment               *)
(* (review-loop.ts:281); a repair whose value the schema refuses           *)
(* (review-loop.ts:187-192); a passed text that breaks a card rule other   *)
(* than that every word has cards (stage-registry.ts:1401-1404, 1483).     *)
Stuck ==
  \/ \E i \in OfRole(results, "generation") : results[i].own # results[i].run
  \/ \E i \in OfRole(results, "repair") : results[i].verdict = "MALFORMED"
  \/ Assessment.phase = "passed" /\ Standing.verdict = "BREACH"

(* The loop ends, in cards or in a BLOCKED gate, unless it is Ambiguous or *)
(* Stuck.                                                                  *)
LoopEnds == <>(accepted # {} \/ blocked # 0 \/ Ambiguous \/ Stuck)

===============================================================================
