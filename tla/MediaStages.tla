----------------------------- MODULE MediaStages -----------------------------
(***************************************************************************)
(* The pictures of a book become text: IMAGE_EXTRACT, WATERMARK_CLEAN and  *)
(* LAYOUT_OCR (tools/content-compiler/src/stage-registry.ts) over the      *)
(* Python worker python/lexiloop_media, and the commands `media extract`   *)
(* and `media clean` (cli.ts).  A compiler run or a command holds the work *)
(* lock; the worker is killed when it runs out of time, and the whole      *)
(* process may be killed with it.  The page selection, the watermark rule  *)
(* and the OCR config are files and arguments of the operator.             *)
(*                                                                         *)
(* The scans are embedded images, taken verbatim: a page has one original  *)
(* image, and a cleaned one for each rule.  What the recogniser reads on a *)
(* page is determined by its images and the config; the rows of a page are *)
(* one record [image, ocr], `image` being a rule or "original" when only   *)
(* the fallback on the original image found anything.  Of the config that  *)
(* read it a row names the identity alone: pipeline, its version, the      *)
(* model's and config_version; tiling, languages and the parameters of the *)
(* engine may differ under one identity.                                   *)
(***************************************************************************)
EXTENDS Naturals, FiniteSets

CONSTANTS NumPages, Rules, OcrConfigs,
          Identity,          \* what rows name of a config
          None,              \* no file, no rows, no upstream output
          Torn,              \* a file that does not parse or match its images
          ChunkPages,        \* DEFAULT_OCR_CHUNK_PAGES, or --ocr-chunk-pages
          MaxConfigEdits     \* bound: edits and media commands of the operator

ASSUME MediaAssumption ==
  /\ {NumPages, ChunkPages} \subseteq Nat \ {0}
  /\ MaxConfigEdits \in Nat
  /\ "original" \notin Rules /\ Rules # {} /\ OcrConfigs # {}
  /\ DOMAIN Identity = OcrConfigs

VARIABLES
  config,     \* pages, rule and OCR config of the next run
  work,       \* the work directory: pages.jsonl, clean.jsonl, ocr.jsonl, ...
  entries,    \* the ledger entries of the three stages
  job,        \* the compiler run under way
  changes

mediaVars == <<config, work, entries, job, changes>>

Pages == 1 .. NumPages

(* A row is no absent row, a file of rows no absent or torn one, and the   *)
(* stages are none of these.                                               *)
PageRows == [image : Rules \cup {"original"}, ocr : OcrConfigs]
ASSUME MediaValues ==
  /\ None \notin PageRows /\ {None, Torn} \cap [Pages -> PageRows \cup {None}] = {}
  /\ None \notin {"extract", "clean", "ocr", "chunks"}
Selections == (SUBSET Pages) \ {{}}

NoEntry == [passed |-> FALSE, input |-> None, output |-> None, steady |-> TRUE]
NoJob == [at |-> None, cascade |-> FALSE, missing |-> {}, ocr |-> None, steady |-> TRUE]

MediaInit ==
  /\ config = [pages |-> Pages, rule |-> CHOOSE r \in Rules : TRUE,
               ocr |-> CHOOSE o \in OcrConfigs : TRUE]
  /\ work = [extracted |-> None, clean |-> None, ocr |-> None,
             raw |-> [p \in Pages |-> None]]
  /\ entries = [s \in {"extract", "clean", "ocr"} |-> NoEntry]
  /\ job = NoJob
  /\ changes = 0

-------------------------------------------------------------------------------
(* The input hashes.  SOURCE_FINGERPRINT is upstream of the first stage.   *)

ExtractInput(upstream) == [pages |-> config.pages, upstream |-> upstream]
CleanInput(pages, rule, upstream) == [pages |-> pages, rule |-> rule, upstream |-> upstream]
OcrInput == [pages |-> config.pages, ocr |-> config.ocr, upstream |-> entries["clean"].output]

UpToDate(stage) ==
  /\ entries[stage].passed
  /\ entries[stage].input =
       CASE stage = "extract" -> ExtractInput("fingerprint")
         [] stage = "clean" -> CleanInput(config.pages, config.rule, entries["extract"].output)
         [] stage = "ocr" -> OcrInput

Follow(stage) == CASE stage = "extract" -> "clean" [] stage = "clean" -> "ocr" [] OTHER -> None

Passed(input, output) == [passed |-> TRUE, input |-> input, output |-> output, steady |-> TRUE]

Stop == job' = NoJob
GoOn(stage) == job' = IF Follow(stage) = None THEN NoJob
                      ELSE [job EXCEPT !.at = Follow(stage), !.cascade = TRUE]

LockFree == job = NoJob

StartMediaRun ==
  /\ LockFree
  /\ job' = [NoJob EXCEPT !.at = "extract"]
  /\ UNCHANGED <<config, work, entries, changes>>

SkipStage ==
  /\ job.at \in {"extract", "clean", "ocr"} /\ ~job.cascade
  /\ UpToDate(job.at)
  /\ job' = IF Follow(job.at) = None THEN NoJob ELSE [job EXCEPT !.at = Follow(job.at)]
  /\ UNCHANGED <<config, work, entries, changes>>

Runs(stage) == job.at = stage /\ (job.cascade \/ ~UpToDate(stage))

(* RUNNING first: a stage that fails, or dies, is no longer PASSED.        *)
Unpassed(stage) == [entries EXCEPT ![stage] = [entries[stage] EXCEPT !.passed = FALSE]]
Fails(stage) == entries' = Unpassed(stage) /\ Stop

-------------------------------------------------------------------------------
(* The worker writes image after image and its JSONL file at the end, both *)
(* in place: one that dies leaves the old file, with its images or with    *)
(* some of them replaced under it, or half of the new one.                 *)

Leaves(file, new) == {[work EXCEPT ![file] = f] : f \in {work[file], Torn, new}}

ExtractOf(pages) == pages

(* validateExtractArtifacts: the pages asked for, with their images.       *)
ExtractMatches(extracted) == extracted = config.pages

Extract ==
  /\ Runs("extract")
  /\ \/ /\ ExtractMatches(ExtractOf(config.pages))
        /\ work' = [work EXCEPT !.extracted = ExtractOf(config.pages)]
        /\ entries' = [entries EXCEPT !["extract"] =
                         Passed(ExtractInput("fingerprint"), config.pages)]
        /\ GoOn("extract")
     \/ /\ work' \in Leaves("extracted", ExtractOf(config.pages))
        /\ Fails("extract")
  /\ UNCHANGED <<config, changes>>

(* cmd_clean takes the pages of pages.jsonl, and refuses a torn one.       *)
Cleanable == work.extracted \notin {None, Torn}
CleanOf(rule) == [pages |-> work.extracted, rule |-> rule]

(* validateCleanArtifacts wants the pages of the run.                      *)
CleanMatches(clean) == clean \notin {None, Torn} /\ clean.pages = config.pages

Clean ==
  /\ Runs("clean")
  /\ \/ /\ Cleanable /\ CleanMatches(CleanOf(config.rule))
        /\ work' = [work EXCEPT !.clean = CleanOf(config.rule)]
        /\ entries' = [entries EXCEPT !["clean"] =
             Passed(CleanInput(config.pages, config.rule, entries["extract"].output),
                    CleanOf(config.rule))]
        /\ GoOn("clean")
     \/ /\ work' \in IF Cleanable THEN Leaves("clean", CleanOf(config.rule)) ELSE {work}
        /\ Fails("clean")
  /\ UNCHANGED <<config, changes>>

(* `media extract --pages` and `media clean --rule`: the entry they record *)
(* has no upstream.                                                        *)
Recorded(stage, input, output) == entries' = [entries EXCEPT ![stage] = Passed(input, output)]

MediaExtract(pages) ==
  /\ LockFree
  /\ changes < MaxConfigEdits /\ changes' = changes + 1
  /\ \/ /\ work' = [work EXCEPT !.extracted = ExtractOf(pages)]
        /\ Recorded("extract", [pages |-> pages, upstream |-> None], ExtractOf(pages))
     \/ work' \in Leaves("extracted", pages) /\ UNCHANGED entries
  /\ UNCHANGED <<config, job>>

MediaClean(rule) ==
  /\ LockFree
  /\ changes < MaxConfigEdits /\ changes' = changes + 1
  /\ Cleanable
  /\ \/ /\ work' = [work EXCEPT !.clean = CleanOf(rule)]
        /\ Recorded("clean", CleanInput(work.extracted, rule, None), CleanOf(rule))
     \/ work' \in Leaves("clean", CleanOf(rule)) /\ UNCHANGED entries
  /\ UNCHANGED <<config, job>>

-------------------------------------------------------------------------------
(* LAYOUT_OCR.                                                             *)

NoRows == [p \in Pages |-> None]
Parses == work.ocr \notin {None, Torn}
OcrRows == IF Parses THEN work.ocr ELSE NoRows

(* Fault: rows of another recogniser count as recognised.                  *)
CompleteByImage(p, ocr) ==
  /\ OcrRows[p] # None
  /\ OcrRows[p].image \in {work.clean.rule, "original"}

(* completedOcrPages compares identities, though the input hash is of the  *)
(* whole config file.                                                      *)
Complete(p, ocr) ==
  /\ OcrRows[p] # None
  /\ OcrRows[p].image \in {work.clean.rule, "original"}
  /\ Identity[OcrRows[p].ocr] = Identity[ocr]

OcrBegins ==
  /\ Runs("ocr")
  /\ entries' = Unpassed("ocr")
  /\ job' = IF CleanMatches(work.clean)
            THEN [job EXCEPT !.at = "chunks", !.ocr = OcrInput, !.steady = TRUE,
                    !.missing = {p \in config.pages : ~Complete(p, config.ocr)}]
            ELSE NoJob
  /\ UNCHANGED <<config, work, changes>>

Chunk == {p \in job.missing : Cardinality({q \in job.missing : q < p}) < ChunkPages}

(* The recogniser may find nothing on the cleaned image of a page.         *)
Recognised(page) == {[image |-> i, ocr |-> config.ocr] : i \in {work.clean.rule, "original"}}

(* _merge_or_write_records: the rows of the chunk replace their pages.     *)
Merged(rows, C) == [p \in Pages |-> IF p \in C THEN rows[p] ELSE OcrRows[p]]
Evidence(rows, C) == [p \in Pages |-> IF p \in C THEN rows[p] ELSE work.raw[p]]

RowsFor(C) == {rows \in [Pages -> (UNION {Recognised(p) : p \in Pages}) \cup {None}] :
                 \A p \in Pages : IF p \in C THEN rows[p] \in Recognised(p) ELSE rows[p] = None}

(* run_ocr: raw evidence page by page, then ocr.jsonl; a torn ocr.jsonl is *)
(* never merged into.                                                      *)
RecogniseChunk ==
  /\ job.at = "chunks" /\ job.missing # {} /\ work.ocr # Torn
  /\ \E rows \in RowsFor(Chunk) :
       work' = [work EXCEPT !.ocr = Merged(rows, Chunk), !.raw = Evidence(rows, Chunk)]
  /\ job' = [job EXCEPT !.missing = @ \ Chunk]
  /\ UNCHANGED <<config, entries, changes>>

(* The worker dies, or the process: some pages have new evidence.  Without *)
(* an ocr.jsonl to merge into, the file is written in place.               *)
ChunkDies ==
  /\ job.at = "chunks" /\ job.missing # {}
  /\ \E rows \in RowsFor(Chunk), done \in SUBSET Chunk :
       work' \in {[work EXCEPT !.raw = Evidence(rows, done)]} \cup
                 IF done = Chunk /\ work.ocr = None
                 THEN {[work EXCEPT !.raw = Evidence(rows, done), !.ocr = o] :
                         o \in {Torn} \cup {Merged(rows, D) : D \in (SUBSET Chunk) \ {{}}}}
                 ELSE {}
  /\ Stop
  /\ UNCHANGED <<config, entries, changes>>

(* Fault: the raw evidence is not read.                                    *)
RowsValid ==
  /\ Parses
  /\ \A p \in Pages : (work.ocr[p] # None) <=> (p \in work.clean.pages)
  /\ \A p \in work.clean.pages : work.ocr[p].image \in {work.clean.rule, "original"}

(* validateOcrArtifacts: every page has rows, of an image clean.jsonl      *)
(* names, whose text its raw evidence holds, and no other page has any.    *)
OcrValid ==
  /\ Parses
  /\ \A p \in Pages : (work.ocr[p] # None) <=> (p \in work.clean.pages)
  /\ \A p \in work.clean.pages :
       /\ work.ocr[p].image \in {work.clean.rule, "original"}
       /\ work.raw[p] = work.ocr[p]

OcrEnds ==
  /\ job.at = "chunks" /\ job.missing = {}
  /\ entries' = IF OcrValid
                THEN [entries EXCEPT !["ocr"] = [passed |-> TRUE, input |-> job.ocr,
                        output |-> work.ocr, steady |-> job.steady]]
                ELSE entries
  /\ Stop
  /\ UNCHANGED <<config, work, changes>>

KillRun ==
  /\ job.at = "chunks"
  /\ Stop
  /\ UNCHANGED <<config, work, entries, changes>>

(* The operator edits the files and arguments; the OCR config is read      *)
(* again by the worker of every chunk of a run under way.                  *)
EditConfig ==
  /\ changes < MaxConfigEdits /\ changes' = changes + 1
  /\ \/ /\ job = NoJob
        /\ \/ \E S \in Selections \ {config.pages} : config' = [config EXCEPT !.pages = S]
           \/ \E r \in Rules \ {config.rule} : config' = [config EXCEPT !.rule = r]
        /\ UNCHANGED job
     \/ /\ \E o \in OcrConfigs \ {config.ocr} : config' = [config EXCEPT !.ocr = o]
        /\ job' = [job EXCEPT !.steady = FALSE]
  /\ UNCHANGED <<work, entries>>

MediaNext ==
  \/ StartMediaRun \/ SkipStage
  \/ Extract \/ Clean
  \/ OcrBegins \/ RecogniseChunk \/ ChunkDies \/ OcrEnds \/ KillRun
  \/ \E S \in Selections : MediaExtract(S)
  \/ \E r \in Rules : MediaClean(r)
  \/ EditConfig

MediaSpec == MediaInit /\ [][MediaNext]_mediaVars

-------------------------------------------------------------------------------
(* What the ledger takes as recognised is whole and of one recogniser:     *)
(* every page of the selection has rows of the identity that the config    *)
(* names, nothing else is in ocr.jsonl, and every row stands in the raw    *)
(* evidence of its page, whatever killed workers, changed and reverted     *)
(* configs and partial merges came before, as long as the config was not   *)
(* edited under the run that passed.  Edits that leave the identity as it  *)
(* is are not seen: rows read before and after one may stand side by side, *)
(* and are of the config itself only if every edit raises config_version   *)
(* (stage-registry.ts:613-742).                                            *)
RecognisedIsWhole ==
  entries["ocr"].passed /\ entries["ocr"].steady =>
    LET in == entries["ocr"].input IN
    \A p \in Pages :
      /\ (work.ocr[p] # None) <=> (p \in in.pages)
      /\ p \in in.pages => /\ Identity[work.ocr[p].ocr] = Identity[in.ocr]
                           /\ work.raw[p] = work.ocr[p]

===============================================================================
