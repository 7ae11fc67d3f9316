-------------------------------- MODULE Speech --------------------------------
(***************************************************************************)
(* The spoken texts of a book: TTS_SYNTHESIZE and AUDIO_VALIDATE           *)
(* (tools/content-compiler/src/stage-registry.ts, tts/ and the inspection  *)
(* worker python/lexiloop_media/audio.py), as stages of a compiler run and *)
(* as the commands `tts synthesize` and `tts validate`.  Either runs under *)
(* the work lock; the book and the synthesis config change between runs,   *)
(* CARD_GENERATE having passed again.  A run may be killed at any moment.  *)
(*                                                                         *)
(* A text is its number in the order of the book.  A file is what its      *)
(* bytes tell: "stub" ends before the embedded text hash, "torn" after it  *)
(* (the hash is the first chunk), `copy` counts the paid answers, and      *)
(* `good` says whether the checks of format, length and loudness pass.     *)
(***************************************************************************)
EXTENDS Naturals, FiniteSets

CONSTANTS NumTexts, Voices, Workers, MaxRetries,
          MaxTextEdits, MaxSpoilt      \* bounds: edits, answers paid in vain

ASSUME SpeechAssumption ==
  /\ {NumTexts, Workers} \subseteq Nat \ {0} /\ Voices # {}
  /\ {MaxRetries, MaxTextEdits, MaxSpoilt} \subseteq Nat

VARIABLES
  texts,       \* the texts of normalized.jsonl, and what cards.jsonl hashes to
  voice,       \* the synthesis config: voice and parameters
  files,       \* audio/<hash>.wav of every cache key
  manifest,    \* audio/manifest.jsonl
  tts, audio,  \* the ledger entries of the two stages
  run,         \* the synthesis under way
  paid,        \* history: answers the provider charged for, by key
  spoilt,      \* history: those of them that never became a readable file
  edits

speechVars == <<texts, voice, files, manifest, tts, audio, run, paid, spoilt, edits>>

Texts == 1 .. NumTexts
Keys == Voices \X Texts                                      \* ttsCacheKey

NoFile == [kind |-> "none", good |-> FALSE, copy |-> 0]

Idle == [step |-> "idle", limit |-> 0, rows |-> {}, owed |-> {},
         calls |-> {}, failed |-> FALSE]

TtsInput(limit) == [voice |-> voice, texts |-> texts, limit |-> limit]
AudioInput == [voice |-> voice, texts |-> texts, rows |-> manifest,
               upstream |-> tts.output]

SpeechInit ==
  /\ texts = Texts /\ voice = CHOOSE v \in Voices : TRUE
  /\ files = [k \in Keys |-> NoFile] /\ manifest = {}
  /\ tts = [passed |-> FALSE, input |-> TtsInput(0), output |-> {}]
  /\ audio = [passed |-> FALSE, input |-> AudioInput]
  /\ run = Idle
  /\ paid = [k \in Keys |-> 0] /\ spoilt = [k \in Keys |-> 0]
  /\ edits = 0

-------------------------------------------------------------------------------
(* The plan: the first `limit` texts, each once, under the current config. *)
Planned(limit) ==
  {<<voice, t>> : t \in {u \in texts :
     limit = 0 \/ Cardinality({v \in texts : v <= u}) <= limit}}

RowsOf(k) == {r \in manifest : r.key = k}

Readable(file) == file.kind \in {"torn", "whole"}

(* Fault: only what the manifest names is reused.                          *)
InManifestOnly(k) == \E r \in RowsOf(k) : files[k] = r.digest

(* A row whose file still hashes to it; a file without a row that carries  *)
(* the hash of its text.                                                   *)
Reusable(k) ==
  \/ \E r \in RowsOf(k) : files[k] = r.digest
  \/ RowsOf(k) = {} /\ Readable(files[k])

Synthesize(piped, limit) ==
  /\ run = Idle
  /\ piped => limit = 0
  /\ ~(tts.passed /\ tts.input = TtsInput(limit))            \* up to date
  /\ LET owed == {k \in Planned(limit) : ~Reusable(k)} IN
     \/ run' = [step |-> "synthesize", limit |-> limit,
                rows |-> Planned(limit), owed |-> owed, calls |-> {}, failed |-> FALSE]
     \/ owed # {} /\ UNCHANGED run                           \* no API key
  /\ tts' = IF piped THEN [tts EXCEPT !.passed = FALSE] ELSE tts   \* RUNNING
  /\ UNCHANGED <<texts, voice, files, manifest, audio, paid, spoilt, edits>>

Call(k, step, tries) == [key |-> k, step |-> step, tries |-> tries]

(* A worker that has nothing under way takes the next text.                *)
Ask(k) ==
  /\ run.step = "synthesize" /\ ~run.failed
  /\ k \in run.owed /\ \A other \in run.owed : k[2] <= other[2]
  /\ Cardinality(run.calls) < Workers
  /\ run' = [run EXCEPT !.owed = @ \ {k}, !.calls = @ \cup {Call(k, "asked", 1)}]
  /\ UNCHANGED <<texts, voice, files, manifest, tts, audio, paid, spoilt, edits>>

Total(count) ==
  LET up[S \in SUBSET Keys] ==
        IF S = {} THEN 0
        ELSE LET k == CHOOSE k \in S : TRUE IN count[k] + up[S \ {k}]
  IN  up[Keys]

(* Charged or not, the answers for K did not come to anything.             *)
Spoil(K) ==
  /\ \/ UNCHANGED <<paid, spoilt>>
     \/ /\ K # {} /\ Total(spoilt) + Cardinality(K) <= MaxSpoilt
        /\ paid' = [k \in Keys |-> paid[k] + (IF k \in K THEN 1 ELSE 0)]
        /\ spoilt' = [k \in Keys |-> spoilt[k] + (IF k \in K THEN 1 ELSE 0)]

(* The audio has come: the file is opened, which empties it.               *)
Answer(c) ==
  /\ c.step = "asked"
  /\ paid' = [paid EXCEPT ![c.key] = @ + 1]
  /\ files' = [files EXCEPT ![c.key] = [kind |-> "stub", good |-> FALSE, copy |-> paid[c.key] + 1]]
  /\ run' = [run EXCEPT !.calls = (@ \ {c}) \cup {Call(c.key, "writing", c.tries)}]
  /\ UNCHANGED <<texts, voice, manifest, tts, audio, spoilt, edits>>

(* A rate limit, a server error, a lost or late answer: tried again.       *)
TryAgain(c) ==
  /\ c.step = "asked" /\ c.tries <= MaxRetries
  /\ Spoil({c.key})
  /\ run' = [run EXCEPT !.calls = (@ \ {c}) \cup {Call(c.key, "asked", c.tries + 1)}]
  /\ UNCHANGED <<texts, voice, files, manifest, tts, audio, edits>>

(* The tries are used up, a refusal, or an answer without audio: the other *)
(* workers end what they have begun, and the stage fails.                  *)
GiveUp(c) ==
  /\ c.step = "asked"
  /\ Spoil({c.key})
  /\ run' = [run EXCEPT !.calls = @ \ {c}, !.failed = TRUE]
  /\ UNCHANGED <<texts, voice, files, manifest, tts, audio, edits>>

Written(c) ==
  /\ c.step = "writing"
  /\ \E good \in BOOLEAN :
       files' = [files EXCEPT ![c.key] = [files[c.key] EXCEPT !.kind = "whole", !.good = good]]
  /\ run' = [run EXCEPT !.calls = @ \ {c}]
  /\ UNCHANGED <<texts, voice, manifest, tts, audio, paid, spoilt, edits>>

(* All texts have a file: the manifest becomes exactly their rows, ...     *)
WriteManifest ==
  /\ run.step = "synthesize" /\ run.owed = {} /\ run.calls = {} /\ ~run.failed
  /\ manifest' = {[key |-> k, digest |-> files[k]] : k \in run.rows}
  /\ run' = [run EXCEPT !.step = "record"]
  /\ UNCHANGED <<texts, voice, files, tts, audio, paid, spoilt, edits>>

(* ... and the ledger records it.                                          *)
RecordSynthesis ==
  /\ run.step = "record"
  /\ tts' = [passed |-> TRUE, input |-> TtsInput(run.limit), output |-> manifest]
  /\ run' = Idle
  /\ UNCHANGED <<texts, voice, files, manifest, audio, paid, spoilt, edits>>

FailSynthesis ==
  /\ run.failed /\ run.calls = {}
  /\ run' = Idle
  /\ UNCHANGED <<texts, voice, files, manifest, tts, audio, paid, spoilt, edits>>

(* The process dies.  A file that was being written stays as it is.        *)
Kill ==
  LET asked == {c.key : c \in {d \in run.calls : d.step = "asked"}}
      writing == {c.key : c \in {d \in run.calls : d.step = "writing"}}
  IN
  /\ run # Idle
  /\ \E torn \in SUBSET writing, good \in BOOLEAN :
       /\ files' = [k \in Keys |-> IF k \in torn
                                   THEN [files[k] EXCEPT !.kind = "torn", !.good = good]
                                   ELSE files[k]]
       /\ \E served \in SUBSET asked :
            LET vain == served \cup (writing \ torn) IN
            /\ Total(spoilt) + Cardinality(vain) <= MaxSpoilt
            /\ paid' = [k \in Keys |-> paid[k] + (IF k \in served THEN 1 ELSE 0)]
            /\ spoilt' = [k \in Keys |-> spoilt[k] + (IF k \in vain THEN 1 ELSE 0)]
  /\ run' = Idle
  /\ UNCHANGED <<texts, voice, manifest, tts, audio, edits>>

-------------------------------------------------------------------------------
(* AUDIO_VALIDATE.                                                         *)

(* inspect_row: hash, format, length, loudness, and the embedded text hash *)
Inspected(r) == files[r.key] = r.digest /\ r.digest.good /\ Readable(r.digest)

(* cmd_inspect: one bad row fails the manifest, and an empty one is none.  *)
InspectionPasses == manifest # {} /\ \A r \in manifest : Inspected(r)

(* Fault: the manifest need only hold what it holds.                       *)
InspectedOnly == InspectionPasses

GatePasses ==
  /\ \A k \in Planned(0) : RowsOf(k) # {}                    \* coverage
  /\ InspectionPasses

(* The stage wants TTS_SYNTHESIZE passed, with the output that is its      *)
(* upstream; a compiler run comes here with that stage up to date.         *)
Validate(piped) ==
  /\ run = Idle
  /\ tts.passed
  /\ piped => tts.input = TtsInput(0)
  /\ ~(audio.passed /\ audio.input = AudioInput)             \* up to date
  /\ audio' = IF GatePasses THEN [passed |-> TRUE, input |-> AudioInput]
              ELSE IF piped THEN [audio EXCEPT !.passed = FALSE] ELSE audio
  /\ UNCHANGED <<texts, voice, files, manifest, tts, run, paid, spoilt, edits>>

(* Another normalisation, another config.                                  *)
EditTexts ==
  /\ run = Idle /\ edits < MaxTextEdits
  /\ \/ texts' \in (SUBSET Texts) \ {{}, texts} /\ UNCHANGED voice
     \/ voice' \in Voices \ {voice} /\ UNCHANGED texts
  /\ edits' = edits + 1
  /\ UNCHANGED <<files, manifest, tts, audio, run, paid, spoilt>>

SpeechNext ==
  \/ \E piped \in BOOLEAN :
       \/ Validate(piped)
       \/ \E limit \in 0 .. 1 : Synthesize(piped, limit)
  \/ \E k \in run.owed : Ask(k)
  \/ \E c \in run.calls : Answer(c) \/ TryAgain(c) \/ GiveUp(c) \/ Written(c)
  \/ WriteManifest \/ RecordSynthesis \/ FailSynthesis
  \/ Kill \/ EditTexts

SpeechSpec == SpeechInit /\ [][SpeechNext]_speechVars

-------------------------------------------------------------------------------
(* What the ledger lets the release take as validated is complete: every   *)
(* text of the book has, under the config of the moment, a row whose file  *)
(* is the one inspected and found good, whatever limited, killed or failed *)
(* runs and changes of book and config came before                         *)
(* (stage-registry.ts:1947-2045).                                          *)
ValidatedIsComplete ==
  audio.passed /\ audio.input = AudioInput =>
    \A t \in texts : \E r \in manifest : r.key = <<voice, t>> /\ Inspected(r)

(* No text is paid for a second time once an answer has become a readable  *)
(* file: not after a kill, a failed run, a limited one, or an edit that    *)
(* took it out of the manifest and back (stage-registry.ts:1773-1806).     *)
PaidOnce == \A k \in Keys : paid[k] <= 1 + spoilt[k]

===============================================================================
