----------------------------- MODULE VisualReview ----------------------------
(***************************************************************************)
(* The doubtful headwords and phonetics of a book: STRUCTURE_NORMALIZE     *)
(* (tools/content-compiler/src/stage-registry.ts), the resolution of a     *)
(* field over its review rounds (normalize/segmentation.ts) and the queue  *)
(* of the visual agents (agents/visual-ocr.ts).  A compiler run holds the  *)
(* work lock; `agents visual-ocr ingest` takes none, so answers are        *)
(* recorded while a run reads and rewrites the queue.                      *)
(*                                                                         *)
(* The recogniser gives a field a text, which may be of low confidence and *)
(* may be suspicious (Odd: a digit where a letter belongs), at a place (the*)
(* page image and box) and under a key (of the word, from its unit, order  *)
(* and headword): a new recognition or parser may change any of them.      *)
(* A packet is [id, place, text], its hash the whole; an answer is         *)
(* [packet, verdict, text, agent].                                         *)
(***************************************************************************)
EXTENDS Naturals, Sequences, FiniteSets

CONSTANTS Fields, Wordings, Odd,
          Near,              \* pairs of texts within two edits
          MaxPacketRound,    \* MAX_PACKET_ROUND
          Agents,            \* agent runs, each good for one answer
          MaxRereads,        \* bound: new recognitions
          MaxIngests         \* bound: answers being ingested at a time

ASSUME VisualAssumption ==
  /\ MaxPacketRound \in Nat \ {0} /\ {MaxRereads, MaxIngests} \subseteq Nat
  /\ Odd \subseteq Wordings

VARIABLES
  ocr,        \* what LAYOUT_OCR passed on of every field
  packets,    \* packets.jsonl
  results,    \* results.jsonl, in the order of the answers
  norm,       \* the ledger entry, with the texts of normalized.jsonl
  pass,       \* the compiler run in the stage
  ingests,    \* answers checked and not yet appended
  rereads

visualVars == <<ocr, packets, results, norm, pass, ingests, rereads>>

NoPass == [step |-> "none", input |-> <<>>, fields |-> <<>>, kept |-> {}]

(* A suspicious text is doubtful whatever its confidence: it is left high. *)
Readings(keys, places) ==
  {r \in [text : Wordings, low : BOOLEAN, key : keys, place : places] : r.low => r.text \notin Odd}

VisualInit ==
  /\ ocr \in [Fields -> Readings({1}, {1})]
  /\ packets = {} /\ results = <<>> /\ ingests = {}
  /\ norm = [status |-> "pending", input |-> ocr, text |-> [f \in Fields |-> ocr[f].text]]
  /\ pass = NoPass
  /\ rereads = 0

-------------------------------------------------------------------------------
(* The queue.                                                              *)

ResultsFor(id) == {i \in DOMAIN results : results[i].packet.id = id}
AnsweredIds == {results[i].packet.id : i \in DOMAIN results}

(* loadQueue: the last answer counts.                                      *)
LastResult(id) == results[CHOOSE i \in ResultsFor(id) : \A j \in ResultsFor(id) : j <= i]
QueueStatus(p) == IF ResultsFor(p.id) = {} THEN "pending"
                  ELSE IF LastResult(p.id).verdict = "BLOCK" THEN "blocked" ELSE "resolved"

(* The decisions folded into the text: those of the resolved entries.      *)
Corrections == {[packet |-> p, verdict |-> LastResult(p.id).verdict,
                 text |-> LastResult(p.id).text] :
                  p \in {q \in packets : QueueStatus(q) = "resolved"}}

-------------------------------------------------------------------------------
(* One field.                                                              *)

PacketId(f, round) == <<f, ocr[f].key, round>>

Suspicious(text) == text \in Odd                            \* gatingEvidence
Doubtful(text, low) == Suspicious(text) \/ low              \* evidenceFor

(* correctionAt: by id, by the evidence, by a place near enough to repair. *)
ById(f, round) == {c \in Corrections : c.packet.id = PacketId(f, round)}
AtPlace(f, round) == {c \in Corrections : /\ c.packet.id[1] = f /\ c.packet.id[3] = round
                                          /\ c.packet.place = ocr[f].place}
ByEvidence(f, round, text) == {c \in AtPlace(f, round) : c.packet.text = text}
ByLocation(f, round, text) ==
  {c \in AtPlace(f, round) : c.verdict = "REPAIR" /\ <<c.packet.text, text>> \in Near}

CorrectionsAt(f, round, text) ==
  IF ById(f, round) # {} THEN ById(f, round)
  ELSE IF ByEvidence(f, round, text) # {} THEN ByEvidence(f, round, text)
  ELSE ByLocation(f, round, text)

(* The highest round that an answer reaches.                               *)
CorrectedRound(f) ==
  LET answered == {r \in 1 .. MaxPacketRound : CorrectionsAt(f, r, ocr[f].text) # {}}
  IN  IF answered = {} THEN 0 ELSE CHOOSE r \in answered : \A s \in answered : s <= r

Settled(text) == [outcome |-> "settled", text |-> text]

(* Fault: a repair is taken as it comes.                                   *)
AnyRepair(text) == TRUE

CleanRepair(text) == ~Suspicious(text)

(* The rounds in order: PASS settles the text so far, BLOCK ends the field,*)
(* a clean repair settles its own text and another one is reviewed again.  *)
Round(f, now, round) ==
  LET found == CorrectionsAt(f, round, now.text) IN
  IF now.outcome # "open" \/ found = {} THEN now
  ELSE LET c == CHOOSE x \in found : TRUE IN
       CASE c.verdict = "PASS" -> Settled(now.text)
         [] c.verdict = "BLOCK" -> [outcome |-> "blocked", text |-> now.text]
         [] c.verdict = "REPAIR" /\ CleanRepair(c.text) -> Settled(c.text)
         [] OTHER -> [outcome |-> "open", text |-> c.text]

Replayed(f) ==
  LET now[round \in 0 .. CorrectedRound(f)] ==
        IF round = 0 THEN [outcome |-> "open", text |-> ocr[f].text]
        ELSE Round(f, now[round - 1], round)
  IN  now[CorrectedRound(f)]

(* resolveField: accepted, blocked, or the packet of the next round.       *)
Resolve(f) ==
  LET now == Replayed(f) IN
  IF now.outcome # "open" THEN now
  ELSE IF ~Doubtful(now.text, ocr[f].low) THEN Settled(now.text)
  ELSE IF CorrectedRound(f) >= MaxPacketRound THEN [outcome |-> "blocked", text |-> now.text]
  ELSE [outcome |-> "review", text |-> now.text, round |-> CorrectedRound(f) + 1]

PacketFor(f, review) == [id |-> PacketId(f, review.round), place |-> ocr[f].place, text |-> review.text]

-------------------------------------------------------------------------------
(* STRUCTURE_NORMALIZE.  The input hash takes in what LAYOUT_OCR passed    *)
(* on, and not the queue; BLOCKED stays until it is cleared by hand.       *)

NormalizeUpToDate == norm.status = "PASSED" /\ norm.input = ocr

(* Every field is resolved on the queue as it is read.                     *)
BeginNormalize ==
  /\ pass = NoPass
  /\ ~NormalizeUpToDate /\ norm.status # "BLOCKED"
  /\ \E fields \in {[f \in Fields |-> Resolve(f)]} :
       /\ pass' = [NoPass EXCEPT
            !.step = IF \E f \in Fields : fields[f].outcome = "blocked" THEN "blocked" ELSE "reconcile",
            !.input = ocr, !.fields = fields]
  /\ norm' = [norm EXCEPT !.status = "RUNNING"]
  /\ UNCHANGED <<ocr, packets, results, ingests, rereads>>

Reviews == {f \in Fields : pass.fields[f].outcome = "review"}

(* enqueuePackets reads packets and answers: the answered packets stay,    *)
(* the others are replaced by the reviews of this run, ...                 *)
Reconcile ==
  /\ pass.step = "reconcile"
  /\ pass' = [pass EXCEPT !.step = "write",
       !.kept = {p \in packets : p.id \in AnsweredIds} \cup
                {p \in {PacketFor(f, pass.fields[f]) : f \in Reviews} : p.id \notin AnsweredIds}]
  /\ UNCHANGED <<ocr, packets, results, norm, ingests, rereads>>

(* ... and the file is swapped in.                                         *)
WriteQueue ==
  /\ pass.step = "write"
  /\ packets' = pass.kept
  /\ pass' = [pass EXCEPT !.step = "record"]
  /\ UNCHANGED <<ocr, results, norm, ingests, rereads>>

Recording(status) == [status |-> status, input |-> pass.input,
                      text |-> [f \in Fields |-> pass.fields[f].text]]

(* VISUAL_FIELD_BLOCKED, VISUAL_PACKETS_PENDING, or normalized.jsonl.      *)
RecordNormalize ==
  /\ pass.step \in {"blocked", "record"}
  /\ norm' = Recording(IF pass.step = "blocked" THEN "BLOCKED"
                       ELSE IF Reviews # {} THEN "PENDING" ELSE "PASSED")
  /\ pass' = NoPass
  /\ UNCHANGED <<ocr, packets, results, ingests, rereads>>

KillNormalize ==
  /\ pass # NoPass
  /\ pass' = NoPass
  /\ UNCHANGED <<ocr, packets, results, norm, ingests, rereads>>

-------------------------------------------------------------------------------
(* An agent answers a packet it was given: the packet must be unchanged,   *)
(* without an answer, and the agent run new.                               *)

Verdicts == {[verdict |-> v, text |-> "none"] : v \in {"PASS", "BLOCK"}} \cup
            {[verdict |-> "REPAIR", text |-> t] : t \in Wordings}

Response(p, answer, agent) ==
  [packet |-> p, verdict |-> answer.verdict, text |-> answer.text, agent |-> agent]

CheckResponse(p, answer, agent) ==
  /\ Cardinality(ingests) < MaxIngests
  /\ p \in packets
  /\ ResultsFor(p.id) = {}
  /\ \A i \in DOMAIN results : results[i].agent # agent
  /\ ingests' = ingests \cup {Response(p, answer, agent)}
  /\ UNCHANGED <<ocr, packets, results, norm, pass, rereads>>

(* reviseResult: an erroneous answer is superseded, its author named.      *)
CheckRevision(p, answer, agent) ==
  /\ Cardinality(ingests) < MaxIngests
  /\ p \in packets
  /\ ResultsFor(p.id) # {}
  /\ \A i \in DOMAIN results : results[i].agent # agent
  /\ ingests' = ingests \cup {Response(p, answer, agent)}
  /\ UNCHANGED <<ocr, packets, results, norm, pass, rereads>>

AppendResponse(r) ==
  /\ results' = Append(results, r)
  /\ ingests' = ingests \ {r}
  /\ UNCHANGED <<ocr, packets, norm, pass, rereads>>

(* LAYOUT_OCR passes again, or the parser has changed.                     *)
Reread(f) ==
  /\ pass = NoPass /\ rereads < MaxRereads
  /\ \E r \in (Readings(1 .. 2, {ocr[f].place}) \cup Readings({ocr[f].key}, 1 .. 2)) \ {ocr[f]} :
       ocr' = [ocr EXCEPT ![f] = r]
  /\ rereads' = rereads + 1
  /\ UNCHANGED <<packets, results, norm, pass, ingests>>

VisualNext ==
  \/ BeginNormalize \/ Reconcile \/ WriteQueue \/ RecordNormalize \/ KillNormalize
  \/ \E p \in packets, answer \in Verdicts, agent \in Agents :
       CheckResponse(p, answer, agent) \/ CheckRevision(p, answer, agent)
  \/ \E r \in ingests : AppendResponse(r)
  \/ \E f \in Fields : Reread(f)

VisualSpec == VisualInit /\ [][VisualNext]_visualVars

-------------------------------------------------------------------------------
(* No doubtful field is guessed: in a normalisation that passed, the text  *)
(* of a field is what the recogniser read, and if that was doubtful an     *)
(* answer affirmed it; or it is the clean text of a recorded repair of     *)
(* that field.  Answers land at any moment of a run, and recognitions come *)
(* between the rounds (segmentation.ts:2187-2325, stage-registry.ts:760-   *)
(* 901).                                                                   *)
Affirmed(f) == \E i \in DOMAIN results : results[i].packet.id[1] = f /\ results[i].verdict = "PASS"
Repaired(f, text) ==
  /\ ~Suspicious(text)
  /\ \E i \in DOMAIN results :
       results[i].packet.id[1] = f /\ results[i].verdict = "REPAIR" /\ results[i].text = text

NothingIsGuessed ==
  norm.status = "PASSED" =>
    \A f \in Fields : LET read == norm.input[f] IN
      \/ Repaired(f, norm.text[f])
      \/ Affirmed(f)
      \/ norm.text[f] = read.text /\ ~Doubtful(read.text, read.low)

===============================================================================
