-------------------------- MODULE CompilerPartsProofs -------------------------
(***************************************************************************)
(* Theorems about the stages of the compiler that share nothing: pictures  *)
(* to text (MediaStages), the doubtful fields of a book (VisualReview),    *)
(* spoken texts (Speech) and the units of a book (Segmentation).           *)
(***************************************************************************)
EXTENDS MediaStages, VisualReview, Segmentation, Speech, SequenceTheorems,
        WellFoundedInduction, TLAPS

------------------------------------------------------------------------------
(***************************************************************************)
(* Why LAYOUT_OCR passes only on a whole book, for any pages, rules, OCR   *)
(* configs, chunk size and edits.                                          *)
(*                                                                         *)
(* A run that has begun recognising holds the lock, so the selection and   *)
(* clean.jsonl stay as it found them; of the pages that are not missing,   *)
(* each has rows of the config it began with, unless that was edited under *)
(* it.  Once the entry has passed, nothing writes ocr.jsonl or the raw     *)
(* evidence before another run begins, and that one unpasses it.           *)
(***************************************************************************)

RowFiles == [Pages -> PageRows \cup {None}]
CleanFiles == [pages : SUBSET Pages, rule : Rules]
Works ==
  [extracted : (SUBSET Pages) \cup {None, Torn}, clean : CleanFiles \cup {None, Torn},
   ocr : RowFiles \cup {None, Torn}, raw : RowFiles]

ExtractInputs == [pages : SUBSET Pages, upstream : {"fingerprint", None}]
CleanInputs == [pages : SUBSET Pages, rule : Rules, upstream : (SUBSET Pages) \cup {None}]
OcrInputs == [pages : SUBSET Pages, ocr : OcrConfigs, upstream : CleanFiles \cup {None}]
EntryRows(Input, Output) ==
  [passed : BOOLEAN, input : Input \cup {None}, output : Output \cup {None},
   steady : BOOLEAN]
Stages == {"extract", "clean", "ocr"}
Jobs ==
  [at : Stages \cup {"chunks", None}, cascade : BOOLEAN, missing : SUBSET Pages,
   ocr : OcrInputs \cup {None}, steady : BOOLEAN]

MediaTypes ==
  /\ config \in [pages : SUBSET Pages, rule : Rules, ocr : OcrConfigs]
  /\ work \in Works
  /\ entries = [s \in Stages |-> entries[s]]
  /\ entries["extract"] \in EntryRows(ExtractInputs, SUBSET Pages)
  /\ entries["clean"] \in EntryRows(CleanInputs, CleanFiles)
  /\ entries["ocr"] \in EntryRows(OcrInputs, RowFiles)
  /\ job \in Jobs

(* The run recognises what it began with.                                  *)
ChunksAreOfTheRun ==
  job.at = "chunks" =>
    /\ ~entries["ocr"].passed
    /\ work.clean \in CleanFiles
    /\ work.clean.pages = config.pages /\ job.ocr.pages = config.pages
    /\ job.missing \subseteq config.pages
    /\ job.steady =>
         /\ job.ocr.ocr = config.ocr
         /\ \A p \in config.pages \ job.missing :
              OcrRows[p] # None /\ Identity[OcrRows[p].ocr] = Identity[job.ocr.ocr]

MediaInv == MediaTypes /\ ChunksAreOfTheRun /\ RecognisedIsWhole

-------------------------------------------------------------------------------
(* What the writers of the records leave.                                  *)
LEMMA WorkFacts ==
  ASSUME NEW w \in Works
  PROVE  /\ w.extracted \in (SUBSET Pages) \cup {None, Torn}
         /\ w.clean \in CleanFiles \cup {None, Torn}
         /\ w.ocr \in RowFiles \cup {None, Torn} /\ w.raw \in RowFiles
BY DEF Works

LEMMA ExtractedWritten ==
  ASSUME NEW w \in Works, NEW x \in (SUBSET Pages) \cup {None, Torn}
  PROVE  LET v == [w EXCEPT !.extracted = x] IN
         v \in Works /\ v.clean = w.clean /\ v.ocr = w.ocr /\ v.raw = w.raw
BY DEF Works

LEMMA CleanWritten ==
  ASSUME NEW w \in Works, NEW x \in CleanFiles \cup {None, Torn}
  PROVE  LET v == [w EXCEPT !.clean = x] IN
         v \in Works /\ v.clean = x /\ v.ocr = w.ocr /\ v.raw = w.raw
BY DEF Works

LEMMA RawWritten ==
  ASSUME NEW w \in Works, NEW x \in RowFiles
  PROVE  LET v == [w EXCEPT !.raw = x] IN
         v \in Works /\ v.clean = w.clean /\ v.ocr = w.ocr /\ v.raw = x
BY DEF Works

LEMMA RowsWritten ==
  ASSUME NEW w \in Works, NEW x \in RowFiles \cup {None, Torn}, NEW y \in RowFiles
  PROVE  /\ LET v == [w EXCEPT !.ocr = x, !.raw = y] IN
            v \in Works /\ v.clean = w.clean /\ v.ocr = x /\ v.raw = y
         /\ LET v == [w EXCEPT !.raw = y, !.ocr = x] IN
            v \in Works /\ v.clean = w.clean /\ v.ocr = x /\ v.raw = y
BY DEF Works

LEMMA JobFacts ==
  ASSUME NEW j \in Jobs
  PROVE  /\ j.at \in Stages \cup {"chunks", None} /\ j.missing \subseteq Pages
         /\ j.cascade \in BOOLEAN /\ j.ocr \in OcrInputs \cup {None} /\ j.steady \in BOOLEAN
BY DEF Jobs

LEMMA JobMoves ==
  ASSUME NEW j \in Jobs, NEW x \in Stages \cup {"chunks", None}
  PROVE  /\ [j EXCEPT !.at = x] \in Jobs /\ [j EXCEPT !.at = x].at = x
         /\ [j EXCEPT !.at = x, !.cascade = TRUE] \in Jobs
         /\ [j EXCEPT !.at = x, !.cascade = TRUE].at = x
BY DEF Jobs

LEMMA JobGoesOn ==
  ASSUME NEW j \in Jobs, NEW M \in SUBSET Pages
  PROVE  LET k == [j EXCEPT !.missing = M] IN
         /\ k \in Jobs /\ k.at = j.at /\ k.missing = M
         /\ k.ocr = j.ocr /\ k.steady = j.steady
BY DEF Jobs

LEMMA JobIsEdited ==
  ASSUME NEW j \in Jobs
  PROVE  LET k == [j EXCEPT !.steady = FALSE] IN
         /\ k \in Jobs /\ k.at = j.at /\ k.missing = j.missing
         /\ k.ocr = j.ocr /\ ~k.steady
<1> DEFINE k == [j EXCEPT !.steady = FALSE]
<1>1. k \in Jobs
  BY DEF Jobs
<1>2. k.at = j.at /\ k.missing = j.missing /\ k.ocr = j.ocr /\ k.steady = FALSE
  BY DEF Jobs
<1> QED  BY <1>1, <1>2

LEMMA NoJobFacts == NoJob \in Jobs /\ NoJob.at = None
BY DEF NoJob, Jobs

(* An entry is written as a whole or unpassed; the others stay.            *)
LEMMA EntryWritten ==
  ASSUME MediaTypes, NEW s \in Stages, NEW e, entries' = [entries EXCEPT ![s] = e]
  PROVE  /\ entries' = [t \in Stages |-> entries'[t]]
         /\ entries'[s] = e /\ \A t \in Stages \ {s} : entries'[t] = entries[t]
BY DEF MediaTypes

LEMMA PassedFacts ==
  ASSUME NEW Input, NEW Output, NEW x \in Input, NEW y \in Output
  PROVE  Passed(x, y) \in EntryRows(Input, Output)
BY DEF Passed, EntryRows

LEMMA UnpassedFacts ==
  ASSUME MediaTypes, NEW s \in Stages, entries' = Unpassed(s)
  PROVE  /\ entries' = [t \in Stages |-> entries'[t]]
         /\ entries'["extract"] \in EntryRows(ExtractInputs, SUBSET Pages)
         /\ entries'["clean"] \in EntryRows(CleanInputs, CleanFiles)
         /\ entries'["ocr"] \in EntryRows(OcrInputs, RowFiles)
         /\ ~entries'[s].passed /\ \A t \in Stages \ {s} : entries'[t] = entries[t]
<1> DEFINE Unpass(e) == [e EXCEPT !.passed = FALSE]
<1>1. \A In, Out : \A e \in EntryRows(In, Out) :
        Unpass(e) \in EntryRows(In, Out) /\ Unpass(e).passed = FALSE
  BY DEF EntryRows
<1>2. entries' = [entries EXCEPT ![s] = Unpass(entries[s])]
  BY DEF Unpassed
<1> HIDE DEF Unpass
<1>3. /\ entries' = [t \in Stages |-> entries'[t]]
      /\ entries'[s] = Unpass(entries[s]) /\ \A t \in Stages \ {s} : entries'[t] = entries[t]
  BY <1>2, EntryWritten
<1>4. entries'["extract"] \in EntryRows(ExtractInputs, SUBSET Pages)
  BY <1>1, <1>3 DEF MediaTypes, Stages
<1>5. entries'["clean"] \in EntryRows(CleanInputs, CleanFiles)
  BY <1>1, <1>3 DEF MediaTypes, Stages
<1>6. entries'["ocr"] \in EntryRows(OcrInputs, RowFiles)
  BY <1>1, <1>3 DEF MediaTypes, Stages
<1>7. ~entries'[s].passed
  BY <1>1, <1>3 DEF MediaTypes, Stages
<1> QED  BY <1>3, <1>4, <1>5, <1>6, <1>7

LEMMA InitiallyMedia == MediaInit => MediaInv
<1> SUFFICES ASSUME MediaInit PROVE MediaInv
  OBVIOUS
<1>1. config \in [pages : SUBSET Pages, rule : Rules, ocr : OcrConfigs]
  BY MediaAssumption DEF MediaInit
<1>2. work \in Works
  BY DEF MediaInit, Works, RowFiles
<1>3. /\ entries = [s \in Stages |-> entries[s]] /\ ~entries["ocr"].passed
      /\ entries["extract"] \in EntryRows(ExtractInputs, SUBSET Pages)
      /\ entries["clean"] \in EntryRows(CleanInputs, CleanFiles)
      /\ entries["ocr"] \in EntryRows(OcrInputs, RowFiles)
  <2>1. entries = [s \in Stages |-> NoEntry]
    BY DEF MediaInit, Stages
  <2>2. NoEntry.passed = FALSE
    BY DEF NoEntry
  <2>3. NoEntry \in EntryRows(ExtractInputs, SUBSET Pages)
    BY DEF NoEntry, EntryRows
  <2>4. NoEntry \in EntryRows(CleanInputs, CleanFiles)
    BY DEF NoEntry, EntryRows
  <2>5. NoEntry \in EntryRows(OcrInputs, RowFiles)
    BY DEF NoEntry, EntryRows
  <2>6. \A s \in Stages : entries[s] = NoEntry
    BY <2>1
  <2> QED  BY <2>1, <2>2, <2>3, <2>4, <2>5, <2>6 DEF Stages
<1>4. job = NoJob /\ job \in Jobs /\ job.at = None
  BY NoJobFacts DEF MediaInit
<1>5. MediaTypes
  BY <1>1, <1>2, <1>3, <1>4 DEF MediaTypes, Stages
<1> QED  BY <1>3, <1>4, <1>5, MediaValues DEF MediaInv, ChunksAreOfTheRun, RecognisedIsWhole

-------------------------------------------------------------------------------
(* A step after which nothing is being recognised, and that either leaves  *)
(* the entry of LAYOUT_OCR and its files or unpasses it.                   *)
LEMMA QuietStep ==
  ASSUME MediaInv, MediaTypes', job'.at # "chunks",
         \/ ~entries'["ocr"].passed
         \/ entries'["ocr"] = entries["ocr"] /\ work'.ocr = work.ocr /\ work'.raw = work.raw
  PROVE  MediaInv'
<1>1. ChunksAreOfTheRun'
  BY DEF ChunksAreOfTheRun
<1>2. RecognisedIsWhole'
  BY DEF MediaInv, RecognisedIsWhole
<1> QED  BY <1>1, <1>2 DEF MediaInv

LEMMA StartMediaRunStep ==
  ASSUME MediaInv, StartMediaRun
  PROVE  MediaInv'
<1>1. job' = [NoJob EXCEPT !.at = "extract"] /\ UNCHANGED <<config, work, entries>>
  BY DEF StartMediaRun
<1>2. job' \in Jobs /\ job'.at = "extract"
  BY <1>1, NoJobFacts, JobMoves DEF Stages
<1>3. MediaTypes'
  BY <1>1, <1>2 DEF MediaInv, MediaTypes
<1> QED  BY <1>1, <1>2, <1>3, QuietStep

LEMMA FollowFacts == \A s \in Stages : Follow(s) \in Stages \cup {None}
BY DEF Follow, Stages

LEMMA SkipStageStep ==
  ASSUME MediaInv, SkipStage
  PROVE  MediaInv'
<1>1. PICK j \in Jobs : j = job
  BY DEF MediaInv, MediaTypes
<1>2. /\ j.at \in Stages
      /\ job' = IF Follow(j.at) = None THEN NoJob ELSE [j EXCEPT !.at = Follow(j.at)]
      /\ UNCHANGED <<config, work, entries>>
  BY <1>1 DEF SkipStage, Stages
<1>3. Follow(j.at) \in Stages \cup {None}
  BY <1>2, FollowFacts
<1>4. job' \in Jobs /\ job'.at # "chunks"
  BY <1>2, <1>3, NoJobFacts, JobMoves, MediaValues DEF Stages
<1>5. MediaTypes'
  BY <1>2, <1>4 DEF MediaInv, MediaTypes
<1> QED  BY <1>2, <1>4, <1>5, QuietStep

(* A stage that goes on or stops is not in the chunks of LAYOUT_OCR.       *)
LEMMA RunMoves ==
  ASSUME MediaInv, NEW s \in Stages, GoOn(s) \/ Stop
  PROVE  job' \in Jobs /\ job'.at # "chunks"
<1>1. CASE Stop
  BY <1>1, NoJobFacts, MediaValues DEF Stop
<1>2. CASE GoOn(s)
  <2>1. PICK j \in Jobs : j = job
    BY DEF MediaInv, MediaTypes
  <2>2. job' = IF Follow(s) = None THEN NoJob
               ELSE [j EXCEPT !.at = Follow(s), !.cascade = TRUE]
    BY <1>2, <2>1 DEF GoOn
  <2>3. Follow(s) \in Stages \cup {None}
    BY FollowFacts
  <2> QED  BY <2>2, <2>3, NoJobFacts, JobMoves, MediaValues DEF Stages
<1> QED  BY <1>1, <1>2

LEMMA ExtractStep ==
  ASSUME MediaInv, Extract
  PROVE  MediaInv'
<1>1. PICK w \in Works : w = work
  BY DEF MediaInv, MediaTypes
<1>2. config \in [pages : SUBSET Pages, rule : Rules, ocr : OcrConfigs]
  BY DEF MediaInv, MediaTypes
<1>3. config.pages \in SUBSET Pages
  BY <1>2
<1>4. job' \in Jobs /\ job'.at # "chunks"
  BY RunMoves DEF Extract, Fails, Stages
<1>5. work' \in Works /\ work'.ocr = w.ocr /\ work'.raw = w.raw
  <2>1. PICK x \in (SUBSET Pages) \cup {None, Torn} : work' = [w EXCEPT !.extracted = x]
    BY <1>1, <1>3, WorkFacts DEF Extract, ExtractOf, Leaves
  <2> QED  BY <2>1, ExtractedWritten
<1>6. /\ entries' = [s \in Stages |-> entries'[s]]
      /\ entries'["extract"] \in EntryRows(ExtractInputs, SUBSET Pages)
      /\ entries'["clean"] = entries["clean"] /\ entries'["ocr"] = entries["ocr"]
  <2>1. CASE entries' = [entries EXCEPT !["extract"] =
                           Passed(ExtractInput("fingerprint"), config.pages)]
    <3>1. ExtractInput("fingerprint") \in ExtractInputs
      BY <1>3 DEF ExtractInput, ExtractInputs
    <3>2. Passed(ExtractInput("fingerprint"), config.pages)
            \in EntryRows(ExtractInputs, SUBSET Pages)
      BY <1>3, <3>1, PassedFacts
    <3> QED  BY <2>1, <3>2, EntryWritten DEF MediaInv, Stages
  <2>2. CASE entries' = Unpassed("extract")
    BY <2>2, UnpassedFacts DEF MediaInv, Stages
  <2> QED  BY <2>1, <2>2 DEF Extract, Fails
<1>7. MediaTypes'
  BY <1>4, <1>5, <1>6 DEF MediaInv, MediaTypes, Extract
<1> QED  BY <1>1, <1>4, <1>5, <1>6, <1>7, QuietStep

LEMMA CleanStep ==
  ASSUME MediaInv, Clean
  PROVE  MediaInv'
<1>1. PICK w \in Works : w = work
  BY DEF MediaInv, MediaTypes
<1>2. config.pages \in SUBSET Pages /\ config.rule \in Rules
  BY DEF MediaInv, MediaTypes
<1>3. job' \in Jobs /\ job'.at # "chunks"
  BY RunMoves DEF Clean, Fails, Stages
<1>4. Cleanable => CleanOf(config.rule) \in CleanFiles
  BY <1>1, <1>2, WorkFacts DEF Cleanable, CleanOf, CleanFiles
<1>5. work' \in Works /\ work'.ocr = w.ocr /\ work'.raw = w.raw
  <2>1. \/ work' = w
        \/ \E x \in CleanFiles \cup {None, Torn} : work' = [w EXCEPT !.clean = x]
    BY <1>1, <1>4, WorkFacts DEF Clean, Leaves
  <2>2. CASE work' = w
    BY <2>2
  <2>3. ASSUME NEW x \in CleanFiles \cup {None, Torn}, work' = [w EXCEPT !.clean = x]
        PROVE  work' \in Works /\ work'.ocr = w.ocr /\ work'.raw = w.raw
    BY <2>3, CleanWritten
  <2> QED  BY <2>1, <2>2, <2>3
<1>6. /\ entries' = [s \in Stages |-> entries'[s]]
      /\ entries'["clean"] \in EntryRows(CleanInputs, CleanFiles)
      /\ entries'["extract"] = entries["extract"] /\ entries'["ocr"] = entries["ocr"]
  <2> DEFINE in == CleanInput(config.pages, config.rule, entries["extract"].output)
  <2>1. CASE Cleanable /\ entries' = [entries EXCEPT !["clean"] =
                                        Passed(in, CleanOf(config.rule))]
    <3>1. entries["extract"].output \in (SUBSET Pages) \cup {None}
      BY DEF MediaInv, MediaTypes, EntryRows
    <3>2. in \in CleanInputs
      BY <1>2, <3>1 DEF CleanInput, CleanInputs
    <3>3. Passed(in, CleanOf(config.rule)) \in EntryRows(CleanInputs, CleanFiles)
      BY <1>4, <2>1, <3>2, PassedFacts
    <3> QED  BY <2>1, <3>3, EntryWritten DEF MediaInv, Stages
  <2>2. CASE entries' = Unpassed("clean")
    BY <2>2, UnpassedFacts DEF MediaInv, Stages
  <2> QED  BY <2>1, <2>2 DEF Clean, Fails
<1>7. MediaTypes'
  BY <1>3, <1>5, <1>6 DEF MediaInv, MediaTypes, Clean
<1> QED  BY <1>1, <1>3, <1>5, <1>6, <1>7, QuietStep

LEMMA MediaExtractStep ==
  ASSUME MediaInv, NEW S \in Selections, MediaExtract(S)
  PROVE  MediaInv'
<1>1. PICK w \in Works : w = work
  BY DEF MediaInv, MediaTypes
<1>2. S \in SUBSET Pages
  BY DEF Selections
<1>3. UNCHANGED <<config, job>> /\ job'.at # "chunks"
  BY NoJobFacts, MediaValues DEF MediaExtract, LockFree
<1>4. work' \in Works /\ work'.ocr = w.ocr /\ work'.raw = w.raw
  <2>1. PICK x \in (SUBSET Pages) \cup {None, Torn} : work' = [w EXCEPT !.extracted = x]
    BY <1>1, <1>2, WorkFacts DEF MediaExtract, ExtractOf, Leaves
  <2> QED  BY <2>1, ExtractedWritten
<1>5. /\ entries' = [s \in Stages |-> entries'[s]]
      /\ entries'["extract"] \in EntryRows(ExtractInputs, SUBSET Pages)
      /\ entries'["clean"] = entries["clean"] /\ entries'["ocr"] = entries["ocr"]
  <2> DEFINE in == [pages |-> S, upstream |-> None]
  <2>1. CASE entries' = [entries EXCEPT !["extract"] = Passed(in, S)]
    <3>1. in \in ExtractInputs
      BY <1>2 DEF ExtractInputs
    <3> HIDE DEF in
    <3>2. Passed(in, S) \in EntryRows(ExtractInputs, SUBSET Pages)
      BY <1>2, <3>1, PassedFacts
    <3> QED  BY <2>1, <3>2, EntryWritten DEF MediaInv, Stages
  <2>2. CASE UNCHANGED entries
    BY <2>2 DEF MediaInv, MediaTypes
  <2> QED  BY <2>1, <2>2 DEF MediaExtract, Recorded, ExtractOf
<1>6. MediaTypes'
  BY <1>3, <1>4, <1>5 DEF MediaInv, MediaTypes
<1> QED  BY <1>1, <1>3, <1>4, <1>5, <1>6, QuietStep

LEMMA MediaCleanStep ==
  ASSUME MediaInv, NEW r \in Rules, MediaClean(r)
  PROVE  MediaInv'
<1>1. PICK w \in Works : w = work
  BY DEF MediaInv, MediaTypes
<1>2. UNCHANGED <<config, job>> /\ job'.at # "chunks"
  BY NoJobFacts, MediaValues DEF MediaClean, LockFree
<1>3. w.extracted \in SUBSET Pages /\ CleanOf(r) \in CleanFiles
  BY <1>1, WorkFacts DEF MediaClean, Cleanable, CleanOf, CleanFiles
<1>4. work' \in Works /\ work'.ocr = w.ocr /\ work'.raw = w.raw
  <2>1. PICK x \in CleanFiles \cup {None, Torn} : work' = [w EXCEPT !.clean = x]
    BY <1>1, <1>3, WorkFacts DEF MediaClean, Leaves
  <2> QED  BY <2>1, CleanWritten
<1>5. /\ entries' = [s \in Stages |-> entries'[s]]
      /\ entries'["clean"] \in EntryRows(CleanInputs, CleanFiles)
      /\ entries'["extract"] = entries["extract"] /\ entries'["ocr"] = entries["ocr"]
  <2>1. CASE entries' = [entries EXCEPT !["clean"] =
                           Passed(CleanInput(w.extracted, r, None), CleanOf(r))]
    <3>1. CleanInput(w.extracted, r, None) \in CleanInputs
      BY <1>3 DEF CleanInput, CleanInputs
    <3>2. Passed(CleanInput(w.extracted, r, None), CleanOf(r))
            \in EntryRows(CleanInputs, CleanFiles)
      BY <1>3, <3>1, PassedFacts
    <3> QED  BY <2>1, <3>2, EntryWritten DEF MediaInv, Stages
  <2>2. CASE UNCHANGED entries
    BY <2>2 DEF MediaInv, MediaTypes
  <2> QED  BY <1>1, <2>1, <2>2 DEF MediaClean, Recorded
<1>6. MediaTypes'
  BY <1>2, <1>4, <1>5 DEF MediaInv, MediaTypes
<1> QED  BY <1>1, <1>2, <1>4, <1>5, <1>6, QuietStep

LEMMA KillRunStep ==
  ASSUME MediaInv, KillRun
  PROVE  MediaInv'
<1>1. job' \in Jobs /\ job'.at # "chunks" /\ UNCHANGED <<config, work, entries>>
  BY NoJobFacts, MediaValues DEF KillRun, Stop
<1>2. MediaTypes'
  BY <1>1 DEF MediaInv, MediaTypes
<1> QED  BY <1>1, <1>2, QuietStep

-------------------------------------------------------------------------------
(* LAYOUT_OCR: what a chunk gives, ...                                     *)
LEMMA ChunkRows ==
  ASSUME MediaInv, job.at = "chunks", NEW C \in SUBSET Pages, NEW rows \in RowsFor(C)
  PROVE  /\ rows \in RowFiles
         /\ \A p \in C : rows[p] \in PageRows /\ rows[p].ocr = config.ocr
<1>1. work.clean \in CleanFiles /\ config.ocr \in OcrConfigs
  BY DEF MediaInv, MediaTypes, ChunksAreOfTheRun
<1>2. work.clean.rule \in Rules
  BY <1>1 DEF CleanFiles
<1>3. \A p \in Pages : Recognised(p) \subseteq PageRows
  BY <1>1, <1>2 DEF Recognised, PageRows
<1>4. \A p \in Pages : \A r \in Recognised(p) : r.ocr = config.ocr
  BY DEF Recognised
<1>5. rows \in RowFiles
  BY <1>3 DEF RowsFor, RowFiles
<1>6. \A p \in C : rows[p] \in Recognised(p)
  BY DEF RowsFor
<1> QED  BY <1>3, <1>4, <1>5, <1>6

LEMMA FilesFacts ==
  ASSUME MediaTypes, NEW C \in SUBSET Pages, NEW rows \in RowFiles
  PROVE  /\ OcrRows \in RowFiles /\ Merged(rows, C) \in RowFiles
         /\ Evidence(rows, C) \in RowFiles
<1>1. OcrRows \in RowFiles
  BY WorkFacts DEF MediaTypes, OcrRows, Parses, NoRows, RowFiles
<1>2. work.raw \in RowFiles
  BY WorkFacts DEF MediaTypes
<1> QED  BY <1>1, <1>2 DEF Merged, Evidence, RowFiles

LEMMA ChunkDiesStep ==
  ASSUME MediaInv, ChunkDies
  PROVE  MediaInv'
<1>1. PICK w \in Works : w = work
  BY DEF MediaInv, MediaTypes
<1>2. Chunk \in SUBSET Pages
  BY JobFacts DEF MediaInv, MediaTypes, Chunk
<1>3. PICK rows \in RowsFor(Chunk), done \in SUBSET Chunk :
        \/ work' = [w EXCEPT !.raw = Evidence(rows, done)]
        \/ \E o \in {Torn} \cup {Merged(rows, D) : D \in (SUBSET Chunk) \ {{}}} :
             work' = [w EXCEPT !.raw = Evidence(rows, done), !.ocr = o]
  BY <1>1 DEF ChunkDies
<1>4. rows \in RowFiles
  BY <1>2, ChunkRows DEF ChunkDies
<1>5. /\ Evidence(rows, done) \in RowFiles
      /\ \A D \in SUBSET Chunk : Merged(rows, D) \in RowFiles
  BY <1>2, <1>4, FilesFacts DEF MediaInv
<1>6. work' \in Works
  <2>1. PICK y \in RowFiles : y = Evidence(rows, done)
    BY <1>5
  <2>2. CASE work' = [w EXCEPT !.raw = y]
    BY <2>2, RawWritten
  <2>3. ASSUME NEW o \in {Torn} \cup {Merged(rows, D) : D \in (SUBSET Chunk) \ {{}}},
               work' = [w EXCEPT !.raw = y, !.ocr = o]
        PROVE  work' \in Works
    <3>1. o \in RowFiles \cup {None, Torn}
      BY <1>5
    <3> QED  BY <2>3, <3>1, RowsWritten
  <2> QED  BY <1>3, <2>1, <2>2, <2>3
<1>7. job' \in Jobs /\ job'.at # "chunks" /\ UNCHANGED <<config, entries>>
  BY NoJobFacts, MediaValues DEF ChunkDies, Stop
<1>8. MediaTypes'
  BY <1>6, <1>7 DEF MediaInv, MediaTypes
<1>9. ~entries'["ocr"].passed
  BY <1>7 DEF ChunkDies, MediaInv, ChunksAreOfTheRun
<1> QED  BY <1>7, <1>8, <1>9, QuietStep

(* ... where a run begins, ...                                             *)
LEMMA OcrBeginsStep ==
  ASSUME MediaInv, OcrBegins
  PROVE  MediaInv'
<1> DEFINE missing == {p \in config.pages : ~Complete(p, config.ocr)}
<1>1. PICK j \in Jobs : j = job
  BY DEF MediaInv, MediaTypes
<1>2. UNCHANGED <<config, work>> /\ config.pages \in SUBSET Pages /\ config.ocr \in OcrConfigs
  BY DEF OcrBegins, MediaInv, MediaTypes
<1>3. /\ entries' = [t \in Stages |-> entries'[t]]
      /\ entries'["extract"] \in EntryRows(ExtractInputs, SUBSET Pages)
      /\ entries'["clean"] \in EntryRows(CleanInputs, CleanFiles)
      /\ entries'["ocr"] \in EntryRows(OcrInputs, RowFiles)
      /\ ~entries'["ocr"].passed
  BY UnpassedFacts DEF OcrBegins, MediaInv, Stages
<1>4. OcrInput \in OcrInputs /\ OcrInput.pages = config.pages /\ OcrInput.ocr = config.ocr
  <2>1. entries["clean"].output \in CleanFiles \cup {None}
    BY DEF MediaInv, MediaTypes, EntryRows
  <2> QED  BY <1>2, <2>1 DEF OcrInput, OcrInputs
<1>5. CASE CleanMatches(work.clean)
  <2> DEFINE k == [j EXCEPT !.at = "chunks", !.ocr = OcrInput, !.steady = TRUE,
                            !.missing = missing]
  <2>1. missing \in SUBSET Pages
    BY <1>2
  <2>2. job' = k
    BY <1>1, <1>5 DEF OcrBegins
  <2> HIDE DEF missing
  <2>3. k \in Jobs /\ k.at = "chunks" /\ k.ocr = OcrInput /\ k.steady /\ k.missing = missing
    <3>1. PICK in \in OcrInputs, M \in SUBSET Pages : in = OcrInput /\ M = missing
      BY <1>4, <2>1
    <3>2. k = [j EXCEPT !.at = "chunks", !.ocr = in, !.steady = TRUE, !.missing = M]
      BY <3>1
    <3> HIDE DEF k
    <3>3. k \in Jobs
      BY <3>2 DEF Jobs
    <3>4. k.at = "chunks" /\ k.ocr = in /\ k.steady = TRUE /\ k.missing = M
      BY <3>2 DEF Jobs
    <3> QED  BY <3>1, <3>3, <3>4
  <2> HIDE DEF k
  <2>4. MediaTypes'
    BY <1>2, <1>3, <2>2, <2>3 DEF MediaInv, MediaTypes
  <2>5. work.clean \in CleanFiles /\ work.clean.pages = config.pages
    BY <1>5, WorkFacts DEF CleanMatches, MediaInv, MediaTypes
  <2>6. \A p \in config.pages \ missing :
          OcrRows[p] # None /\ Identity[OcrRows[p].ocr] = Identity[config.ocr]
    BY DEF missing, Complete
  <2>7. OcrRows' = OcrRows
    BY <1>2 DEF OcrRows, Parses, NoRows
  <2>8. ChunksAreOfTheRun'
    BY <1>2, <1>3, <1>4, <2>2, <2>3, <2>5, <2>6, <2>7 DEF ChunksAreOfTheRun, missing
  <2> QED  BY <1>3, <2>4, <2>8 DEF MediaInv, RecognisedIsWhole
<1>6. CASE ~CleanMatches(work.clean)
  <2>1. job' \in Jobs /\ job'.at # "chunks"
    BY <1>6, NoJobFacts, MediaValues DEF OcrBegins
  <2>2. MediaTypes'
    BY <1>2, <1>3, <2>1 DEF MediaInv, MediaTypes
  <2> QED  BY <1>3, <2>1, <2>2, QuietStep
<1> QED  BY <1>5, <1>6

(* ... goes on ...                                                         *)
LEMMA RecogniseChunkStep ==
  ASSUME MediaInv, RecogniseChunk
  PROVE  MediaInv'
<1>1. PICK w \in Works : w = work
  BY DEF MediaInv, MediaTypes
<1>2. PICK j \in Jobs : j = job
  BY DEF MediaInv, MediaTypes
<1>3. PICK C \in SUBSET Pages : C = Chunk
  BY <1>2, JobFacts DEF Chunk
<1>4. PICK rows \in RowsFor(C) :
        work' = [w EXCEPT !.ocr = Merged(rows, C), !.raw = Evidence(rows, C)]
  BY <1>1, <1>3 DEF RecogniseChunk
<1>5. job.at = "chunks" /\ job' = [j EXCEPT !.missing = j.missing \ C]
      /\ UNCHANGED <<config, entries>>
  BY <1>2, <1>3 DEF RecogniseChunk
<1>6. rows \in RowFiles /\ \A p \in C : rows[p] \in PageRows /\ rows[p].ocr = config.ocr
  BY <1>5, ChunkRows
<1>7. Merged(rows, C) \in RowFiles /\ Evidence(rows, C) \in RowFiles
  BY <1>6, FilesFacts DEF MediaInv
<1>8. work' \in Works /\ work'.clean = w.clean /\ work'.ocr = Merged(rows, C)
  <2>1. PICK x \in RowFiles \cup {None, Torn}, y \in RowFiles :
          x = Merged(rows, C) /\ y = Evidence(rows, C)
    BY <1>7
  <2>2. work' = [w EXCEPT !.ocr = x, !.raw = y]
    BY <1>4, <2>1
  <2> QED  BY <2>1, <2>2 DEF Works
<1>9. j.missing \ C \in SUBSET Pages
  BY JobFacts
<1>10. /\ job' \in Jobs /\ job'.at = j.at /\ job'.missing = j.missing \ C
       /\ job'.ocr = j.ocr /\ job'.steady = j.steady
  BY <1>5, <1>9, JobGoesOn
<1>11. MediaTypes'
  BY <1>5, <1>8, <1>10 DEF MediaInv, MediaTypes
<1>12. OcrRows' = Merged(rows, C)
  BY <1>7, <1>8, MediaValues DEF OcrRows, Parses, RowFiles
<1>13. \A p \in Pages : Merged(rows, C)[p] = IF p \in C THEN rows[p] ELSE OcrRows[p]
  BY DEF Merged
<1>14. config.pages \subseteq Pages
  BY DEF MediaInv, MediaTypes
<1>15. ChunksAreOfTheRun
  BY DEF MediaInv
<1>16. job.steady => \A p \in config.pages \ job'.missing :
          Merged(rows, C)[p] # None /\ Identity[Merged(rows, C)[p].ocr] = Identity[job.ocr.ocr]
  <2> SUFFICES ASSUME job.steady, NEW p \in config.pages \ job'.missing
               PROVE  /\ Merged(rows, C)[p] # None
                      /\ Identity[Merged(rows, C)[p].ocr] = Identity[job.ocr.ocr]
    OBVIOUS
  <2>1. CASE p \in C
    BY <1>5, <1>6, <1>13, <1>15, <2>1, MediaValues DEF ChunksAreOfTheRun
  <2>2. CASE p \notin C
    BY <1>2, <1>5, <1>10, <1>13, <1>14, <1>15, <2>2 DEF ChunksAreOfTheRun
  <2> QED  BY <2>1, <2>2
<1>17. ChunksAreOfTheRun'
  BY <1>1, <1>2, <1>5, <1>8, <1>10, <1>12, <1>15, <1>16 DEF ChunksAreOfTheRun
<1> QED  BY <1>5, <1>11, <1>15, <1>17 DEF MediaInv, RecognisedIsWhole, ChunksAreOfTheRun

(* ... and ends.                                                           *)
LEMMA OcrEndsStep ==
  ASSUME MediaInv, OcrEnds
  PROVE  MediaInv'
<1>1. PICK j \in Jobs : j = job
  BY DEF MediaInv, MediaTypes
<1>2. /\ job.at = "chunks" /\ j.missing = {}
      /\ job' \in Jobs /\ job'.at # "chunks" /\ UNCHANGED <<config, work>>
  BY <1>1, NoJobFacts, MediaValues DEF OcrEnds, Stop
<1>3. CASE ~OcrValid
  <2>1. UNCHANGED entries
    BY <1>3 DEF OcrEnds
  <2>2. MediaTypes'
    BY <1>2, <2>1 DEF MediaInv, MediaTypes
  <2> QED  BY <1>2, <2>1, <2>2, QuietStep
<1>4. CASE OcrValid
  <2> DEFINE e == [passed |-> TRUE, input |-> job.ocr, output |-> work.ocr,
                   steady |-> job.steady]
  <2>1. work.ocr \in RowFiles
    BY <1>4, WorkFacts DEF MediaInv, MediaTypes, OcrValid, Parses
  <2>2. e \in EntryRows(OcrInputs, RowFiles)
    BY <1>1, <2>1, JobFacts DEF EntryRows
  <2>3. e.input = job.ocr /\ e.steady = job.steady
    OBVIOUS
  <2>4. entries' = [entries EXCEPT !["ocr"] = e]
    BY <1>4 DEF OcrEnds
  <2> HIDE DEF e
  <2>5. /\ entries' = [t \in Stages |-> entries'[t]] /\ entries'["ocr"] = e
        /\ entries'["extract"] = entries["extract"] /\ entries'["clean"] = entries["clean"]
    BY <2>4, EntryWritten DEF MediaInv, Stages
  <2>6. MediaTypes'
    BY <1>2, <2>2, <2>5 DEF MediaInv, MediaTypes
  <2>7. ChunksAreOfTheRun'
    BY <1>2 DEF ChunksAreOfTheRun
  <2>8. OcrRows = work.ocr
    BY <1>4 DEF OcrValid, OcrRows
  <2>9. RecognisedIsWhole'
    BY <1>1, <1>2, <1>4, <2>3, <2>5, <2>8
       DEF RecognisedIsWhole, OcrValid, MediaInv, ChunksAreOfTheRun
  <2> QED  BY <2>6, <2>7, <2>9 DEF MediaInv
<1> QED  BY <1>3, <1>4

LEMMA EditConfigStep ==
  ASSUME MediaInv, EditConfig
  PROVE  MediaInv'
<1>1. PICK j \in Jobs : j = job
  BY DEF MediaInv, MediaTypes
<1>2. UNCHANGED <<work, entries>>
  BY DEF EditConfig
<1>3. config' \in [pages : SUBSET Pages, rule : Rules, ocr : OcrConfigs]
  BY DEF EditConfig, MediaInv, MediaTypes, Selections
<1>4. CASE job = NoJob /\ UNCHANGED job
  <2>1. MediaTypes'
    BY <1>2, <1>3, <1>4 DEF MediaInv, MediaTypes
  <2> QED  BY <1>2, <1>4, <2>1, QuietStep, NoJobFacts, MediaValues
<1>5. CASE /\ \E o \in OcrConfigs : config' = [config EXCEPT !.ocr = o]
           /\ job' = [j EXCEPT !.steady = FALSE]
  <2>1. /\ job' \in Jobs /\ job'.at = j.at /\ job'.missing = j.missing /\ job'.ocr = j.ocr
        /\ ~job'.steady
    BY <1>5, JobIsEdited
  <2>2. config'.pages = config.pages
    BY <1>5 DEF MediaInv, MediaTypes
  <2>3. MediaTypes'
    BY <1>2, <1>3, <2>1 DEF MediaInv, MediaTypes
  <2>4. ChunksAreOfTheRun'
    BY <1>1, <1>2, <2>1, <2>2 DEF MediaInv, ChunksAreOfTheRun
  <2> QED  BY <1>2, <2>3, <2>4 DEF MediaInv, RecognisedIsWhole
<1> QED  BY <1>1, <1>4, <1>5 DEF EditConfig

LEMMA MediaInvariant == MediaSpec => []MediaInv
<1>1. ASSUME MediaInv, [MediaNext]_mediaVars PROVE MediaInv'
  <2>1. CASE UNCHANGED mediaVars
    BY <1>1, <2>1 DEF mediaVars, MediaInv, MediaTypes, ChunksAreOfTheRun, RecognisedIsWhole,
       OcrRows, Parses, NoRows
  <2> QED  BY <1>1, <2>1, StartMediaRunStep, SkipStageStep, ExtractStep, CleanStep,
              OcrBeginsStep, RecogniseChunkStep, ChunkDiesStep, OcrEndsStep, KillRunStep,
              MediaExtractStep, MediaCleanStep, EditConfigStep DEF MediaNext
<1> QED  BY <1>1, InitiallyMedia, PTL DEF MediaSpec

(* What the ledger takes as recognised is every page of the selection and  *)
(* nothing else, by a recogniser of the configured identity, with its raw  *)
(* evidence (stage-registry.ts:613-742): for any pages, rules, configs and *)
(* identities of configs, chunk size, and any number of runs, edits and    *)
(* deaths of the worker.                                                   *)
THEOREM RecognitionIsWhole == MediaSpec => []RecognisedIsWhole
<1>1. MediaInv => RecognisedIsWhole
  BY DEF MediaInv
<1> QED  BY <1>1, MediaInvariant, PTL

-------------------------------------------------------------------------------
(* Numbers have a least one.                                               *)
LEMMA LeastOf ==
  ASSUME NEW T \in SUBSET Nat, T # {}
  PROVE  \E x \in T : \A y \in T : x <= y
<1>1. PICK x \in T : \A y \in T : ~(<<y, x>> \in OpToRel(<, Nat))
  BY WFMin, NatLessThanWellFounded
<1>2. OpToRel(<, Nat) = {ss \in Nat \X Nat : ss[1] < ss[2]}
  BY Zenon DEF OpToRel
<1>3. ASSUME NEW y \in T
      PROVE  x <= y
  <2>1. <<y, x>> \notin {ss \in Nat \X Nat : ss[1] < ss[2]}
    BY <1>1, <1>2
  <2> QED BY <2>1
<1> QED BY <1>3

(* What holds at 0, and at each step if it did before, holds at all.       *)
LEMMA StepByStep ==
  ASSUME NEW n \in Nat, NEW S, 0 \in S, \A i \in S : i \in 0 .. n /\ i # n => i + 1 \in S
  PROVE  \A i \in 0 .. n : i \in S
<1>. DEFINE T == {i \in 0 .. n : i \notin S}
<1>1. SUFFICES ASSUME T # {}
               PROVE  FALSE
  OBVIOUS
<1>0. T \in SUBSET Nat
  OBVIOUS
<1>2. PICK i \in T : \A j \in T : i <= j
  <2>. HIDE DEF T
  <2> QED BY <1>0, <1>1, LeastOf
<1>3. i # 0 /\ i - 1 \in 0 .. n /\ i - 1 # n /\ ~(i <= i - 1)
  BY <1>2
<1>4. i - 1 \in S
  BY <1>2, <1>3
<1>5. i - 1 + 1 \in S
  BY <1>3, <1>4
<1> QED BY <1>2, <1>5


(* Of numbers up to n, some one is the last.                               *)
LEMMA LastOf ==
  ASSUME NEW n \in Nat, NEW S \in SUBSET (1 .. n), S # {}
  PROVE  \E x \in S : \A y \in S : y <= x
<1>. DEFINE D == {i \in Nat : \E x \in S : i = n - x}
<1>1. PICK d \in D : \A i \in D : d <= i
  <2>1. PICK x \in S : TRUE
    OBVIOUS
  <2>2. n - x \in D
    OBVIOUS
  <2>3. D \in SUBSET Nat /\ D # {}
    BY <2>2
  <2>. HIDE DEF D
  <2> QED BY <2>3, LeastOf
<1>2. PICK x \in S : d = n - x
  BY <1>1
<1>3. ASSUME NEW y \in S
      PROVE  y <= x
  <2>1. n - y \in D
    OBVIOUS
  <2>2. d <= n - y
    BY <1>1, <2>1
  <2> QED BY <1>2, <2>2
<1> QED BY <1>3

-------------------------------------------------------------------------------
(***************************************************************************)
(* Why no doubtful field is guessed.                                       *)
(***************************************************************************)
Decided == {"PASS", "BLOCK", "REPAIR"}

(* The answers are a sequence, each with a verdict.                        *)
AnswersSound ==
  /\ \E X : results \in Seq(X)
  /\ \A i \in DOMAIN results : results[i].verdict \in Decided
  /\ \A r \in ingests : r.verdict \in Decided

(* A field that is settled was answered for, or is as it was read and not  *)
(* doubtful.                                                               *)
Founded(f, text, read) ==
  \/ Repaired(f, text)
  \/ Affirmed(f)
  \/ text = read.text /\ ~Doubtful(read.text, read.low)

(* What a run found in the queue it began with.                            *)
PassSound ==
  pass # NoPass =>
    /\ DOMAIN pass = DOMAIN NoPass
    /\ pass.step \in {"blocked", "reconcile", "write", "record"}
    /\ pass.step # "blocked" =>
         \A f \in Fields : /\ pass.fields[f].outcome \in {"settled", "review"}
                           /\ pass.fields[f].outcome = "settled" =>
                                Founded(f, pass.fields[f].text, pass.input[f])

VisualInv == AnswersSound /\ PassSound /\ "status" \in DOMAIN norm /\ NothingIsGuessed

(* The round of a field, until it is decided.                              *)
Kept(f, now) ==
  /\ now.outcome \in {"open", "settled", "blocked"}
  /\ now.outcome = "open" => now.text = ocr[f].text \/ now.text \in Odd
  /\ now.outcome = "settled" => Affirmed(f) \/ Repaired(f, now.text)

(* A correction is the last answer to a packet.                            *)
LEMMA CorrectionIsAnswer ==
  ASSUME AnswersSound, NEW c \in Corrections
  PROVE  \E i \in DOMAIN results :
           /\ results[i].packet.id = c.packet.id /\ results[i].verdict = c.verdict
           /\ results[i].text = c.text /\ c.verdict \in Decided
<1>1. PICK p \in packets : /\ QueueStatus(p) = "resolved"
                           /\ c = [packet |-> p, verdict |-> LastResult(p.id).verdict,
                                   text |-> LastResult(p.id).text]
  BY DEF Corrections
<1>. DEFINE S == ResultsFor(p.id)
<1>2. S # {}
  BY <1>1 DEF QueueStatus
<1>3. PICK n \in Nat : DOMAIN results = 1 .. n
  BY DEF AnswersSound
<1>4. S \in SUBSET (1 .. n)
  BY <1>3 DEF ResultsFor
<1>. HIDE DEF S
<1>5. \E i \in S : \A j \in S : j <= i
  BY <1>2, <1>4, LastOf
<1>. DEFINE i == CHOOSE i \in S : \A j \in S : j <= i
<1>6. i \in S /\ LastResult(p.id) = results[i]
  BY <1>5 DEF LastResult, S
<1>. HIDE DEF i
<1>7. i \in DOMAIN results /\ results[i].packet.id = p.id
  BY <1>6 DEF S, ResultsFor
<1>8. c.packet = p /\ c.verdict = results[i].verdict /\ c.text = results[i].text
  BY <1>1, <1>6
<1> QED BY <1>7, <1>8 DEF AnswersSound

(* One found for a field is of the field.                                  *)
LEMMA FoundForTheField ==
  ASSUME NEW f, NEW round, NEW text, NEW c \in CorrectionsAt(f, round, text)
  PROVE  c \in Corrections /\ c.packet.id[1] = f
<1>1. PacketId(f, round)[1] = f
  BY DEF PacketId
<1> QED BY <1>1 DEF CorrectionsAt, ById, ByEvidence, ByLocation, AtPlace

LEMMA RoundKeeps ==
  ASSUME AnswersSound, NEW f, NEW now, Kept(f, now), NEW round
  PROVE  Kept(f, Round(f, now, round))
<1>. DEFINE found == CorrectionsAt(f, round, now.text)
            c == CHOOSE x \in found : TRUE
<1>1. CASE now.outcome # "open" \/ found = {}
  BY <1>1 DEF Round
<1>2. CASE now.outcome = "open" /\ found # {}
  <2>1. c \in found
    BY <1>2
  <2>2. c \in Corrections /\ c.packet.id[1] = f
    BY <2>1, FoundForTheField
  <2>3. Round(f, now, round) =
          CASE c.verdict = "PASS" -> Settled(now.text)
            [] c.verdict = "BLOCK" -> [outcome |-> "blocked", text |-> now.text]
            [] c.verdict = "REPAIR" /\ CleanRepair(c.text) -> Settled(c.text)
            [] OTHER -> [outcome |-> "open", text |-> c.text]
    BY <1>2 DEF Round
  <2>. HIDE DEF c
  <2>4. PICK i \in DOMAIN results :
           /\ results[i].packet.id = c.packet.id /\ results[i].verdict = c.verdict
           /\ results[i].text = c.text /\ c.verdict \in Decided
    BY <2>2, CorrectionIsAnswer
  <2>5. CASE c.verdict = "PASS"
    <3>1. Round(f, now, round) = Settled(now.text)
      BY <2>3, <2>5
    <3>2. Affirmed(f)
      BY <2>2, <2>4, <2>5 DEF Affirmed
    <3> QED BY <3>1, <3>2 DEF Kept, Settled
  <2>6. CASE c.verdict = "BLOCK"
    <3>1. Round(f, now, round) = [outcome |-> "blocked", text |-> now.text]
      BY <2>3, <2>6
    <3> QED BY <3>1 DEF Kept
  <2>7. CASE c.verdict = "REPAIR" /\ CleanRepair(c.text)
    <3>1. Round(f, now, round) = Settled(c.text)
      BY <2>3, <2>7
    <3>2. Repaired(f, c.text)
      BY <2>2, <2>4, <2>7 DEF Repaired, CleanRepair
    <3> QED BY <3>1, <3>2 DEF Kept, Settled
  <2>8. CASE c.verdict = "REPAIR" /\ ~CleanRepair(c.text)
    <3>1. Round(f, now, round) = [outcome |-> "open", text |-> c.text]
      BY <2>3, <2>8
    <3> QED BY <2>8, <3>1 DEF Kept, CleanRepair, Suspicious
  <2> QED BY <2>4, <2>5, <2>6, <2>7, <2>8 DEF Decided
<1> QED BY <1>1, <1>2

IsReplay(w, f, n) ==
  w = [round \in 0 .. n |-> IF round = 0 THEN [outcome |-> "open", text |-> ocr[f].text]
                            ELSE Round(f, w[round - 1], round)]

(* The rounds can be replayed, up to any.                                  *)
LEMMA Replays ==
  ASSUME NEW f, NEW n \in Nat
  PROVE  \E w : IsReplay(w, f, n)
<1>. DEFINE first == [outcome |-> "open", text |-> ocr[f].text]
            Done == {m \in 0 .. n : \E w : IsReplay(w, f, m)}
<1>1. 0 \in Done
  <2>. DEFINE w == [round \in 0 .. 0 |-> first]
  <2>1. w = [round \in 0 .. 0 |-> IF round = 0 THEN first ELSE Round(f, w[round - 1], round)]
    OBVIOUS
  <2>. HIDE DEF w
  <2>2. IsReplay(w, f, 0)
    BY <2>1 DEF IsReplay
  <2> QED BY <2>2
<1>2. ASSUME NEW m \in Done, m \in 0 .. n, m # n
      PROVE  m + 1 \in Done
  <2>1. PICK w : IsReplay(w, f, m)
    BY <1>2
  <2>2. w = [round \in 0 .. m |-> IF round = 0 THEN first ELSE Round(f, w[round - 1], round)]
    BY <2>1 DEF IsReplay
  <2>. DEFINE v == [round \in 0 .. m + 1 |->
                      IF round = m + 1 THEN Round(f, w[m], m + 1) ELSE w[round]]
              u == [round \in 0 .. m + 1 |->
                      IF round = 0 THEN first ELSE Round(f, v[round - 1], round)]
  <2>3. ASSUME NEW round \in 0 .. m + 1
        PROVE  v[round] = u[round]
    <3>. HIDE DEF first
    <3>1. CASE round = m + 1
      <4>1. v[round] = Round(f, w[m], m + 1) /\ v[m] = w[m]
        BY <1>2, <3>1
      <4>2. round # 0 /\ round - 1 = m /\ u[round] = Round(f, v[round - 1], round)
        BY <1>2, <3>1
      <4>. HIDE DEF u, v
      <4> QED BY <3>1, <4>1, <4>2
    <3>2. CASE round = 0
      <4>1. w[0] = first
        BY <1>2, <2>2
      <4> QED BY <1>2, <3>2, <4>1
    <3>3. CASE round # m + 1 /\ round # 0
      <4>1. /\ round \in 0 .. m /\ round - 1 \in 0 .. m + 1 /\ round - 1 # m + 1
        BY <1>2, <3>3
      <4>2. w[round] = Round(f, w[round - 1], round)
        <5>. DEFINE x == [i \in 0 .. m |-> IF i = 0 THEN first ELSE Round(f, w[i - 1], i)]
        <5>1. w = x
          BY <2>2
        <5>2. x[round] = Round(f, w[round - 1], round)
          BY <3>3, <4>1
        <5>. HIDE DEF x
        <5> QED BY <5>1, <5>2
      <4>3. v[round] = w[round] /\ v[round - 1] = w[round - 1]
        BY <3>3, <4>1
      <4>4. u[round] = Round(f, v[round - 1], round)
        BY <3>3
      <4>. HIDE DEF u, v
      <4> QED BY <4>2, <4>3, <4>4
    <3> QED BY <3>1, <3>2, <3>3
  <2>4. v = u
    BY <2>3
  <2>5. IsReplay(v, f, m + 1)
    BY <2>4 DEF IsReplay
  <2>. HIDE DEF v, u
  <2> QED BY <1>2, <2>5
<1>3. \A m \in 0 .. n : m \in Done
  <2>. HIDE DEF Done
  <2> QED BY <1>1, <1>2, StepByStep
<1> QED BY <1>3

LEMMA CorrectedRoundIs == ASSUME NEW f PROVE CorrectedRound(f) \in Nat
<1>. DEFINE answered == {r \in 1 .. MaxPacketRound : CorrectionsAt(f, r, ocr[f].text) # {}}
<1>1. answered \in SUBSET (1 .. MaxPacketRound) /\ MaxPacketRound \in Nat
  BY VisualAssumption
<1>2. CorrectedRound(f) = IF answered = {} THEN 0
                          ELSE CHOOSE r \in answered : \A s \in answered : s <= r
  BY DEF CorrectedRound
<1>. HIDE DEF answered
<1>3. CASE answered = {}
  BY <1>2, <1>3
<1>4. CASE answered # {}
  <2>1. \E r \in answered : \A s \in answered : s <= r
    BY <1>1, <1>4, LastOf
  <2>2. CorrectedRound(f) \in answered
    BY <1>2, <1>4, <2>1
  <2>3. \A r \in answered : r \in Nat
    BY <1>1
  <2> QED BY <2>2, <2>3
<1> QED BY <1>3, <1>4

(* The replay of the rounds.                                               *)
LEMMA ReplayIsKept ==
  ASSUME AnswersSound, NEW f
  PROVE  Kept(f, Replayed(f))
<1>. DEFINE N == CorrectedRound(f)
            first == [outcome |-> "open", text |-> ocr[f].text]
            u == CHOOSE w : IsReplay(w, f, N)
<1>1. N \in Nat
  BY CorrectedRoundIs
<1>2. IsReplay(u, f, N)
  BY <1>1, Replays
<1>3. Replayed(f) = u[N]
  BY DEF Replayed, IsReplay
<1>. HIDE DEF u, N
<1>4. u = [round \in 0 .. N |-> IF round = 0 THEN first ELSE Round(f, u[round - 1], round)]
  BY <1>2 DEF IsReplay
<1>. HIDE DEF first
<1>5. u[0] = first
  BY <1>1, <1>4
<1>6. Kept(f, first)
  BY DEF Kept, first
<1>7. ASSUME NEW n \in 0 .. N, n # N
      PROVE  u[n + 1] = Round(f, u[n], n + 1)
  <2>1. n + 1 \in 0 .. N /\ n + 1 # 0 /\ n + 1 - 1 = n
    BY <1>1, <1>7
  <2>. DEFINE v == [m \in 0 .. N |-> IF m = 0 THEN first ELSE Round(f, u[m - 1], m)]
  <2>2. v[n + 1] = Round(f, u[n], n + 1)
    BY <2>1
  <2>3. u = v
    BY <1>4
  <2> QED BY <2>2, <2>3
<1>. DEFINE P == {n \in 0 .. N : Kept(f, u[n])}
<1>8. 0 \in P
  BY <1>1, <1>5, <1>6
<1>9. ASSUME NEW n \in P, n \in 0 .. N, n # N
      PROVE  n + 1 \in P
  <2>1. Kept(f, u[n]) /\ u[n + 1] = Round(f, u[n], n + 1) /\ n + 1 \in 0 .. N
    BY <1>1, <1>7, <1>9
  <2>2. Kept(f, u[n + 1])
    BY <2>1, RoundKeeps
  <2> QED BY <2>1, <2>2
<1>10. \A n \in 0 .. N : n \in P
  <2>. HIDE DEF P
  <2> QED BY <1>1, <1>8, <1>9, StepByStep
<1> QED BY <1>1, <1>3, <1>10

(* So what is settled is founded.                                          *)
LEMMA ResolveIsFounded ==
  ASSUME AnswersSound, NEW f
  PROVE  /\ Resolve(f).outcome \in {"settled", "blocked", "review"}
         /\ Resolve(f).outcome = "settled" => Founded(f, Resolve(f).text, ocr[f])
<1>. DEFINE now == Replayed(f)
            low == ocr[f].low
<1>1. Kept(f, now)
  BY ReplayIsKept
<1>2. Resolve(f) = IF now.outcome # "open" THEN now
                   ELSE IF ~Doubtful(now.text, low) THEN Settled(now.text)
                   ELSE IF CorrectedRound(f) >= MaxPacketRound
                        THEN [outcome |-> "blocked", text |-> now.text]
                   ELSE [outcome |-> "review", text |-> now.text, round |-> CorrectedRound(f) + 1]
  BY DEF Resolve
<1>. HIDE DEF now
<1>3. CASE now.outcome # "open"
  BY <1>1, <1>2, <1>3 DEF Kept, Founded
<1>4. CASE now.outcome = "open" /\ ~Doubtful(now.text, low)
  <2>1. Resolve(f) = Settled(now.text)
    BY <1>2, <1>4
  <2>2. now.text = ocr[f].text
    BY <1>1, <1>4 DEF Kept, Doubtful, Suspicious
  <2> QED BY <1>4, <2>1, <2>2 DEF Settled, Founded
<1>5. CASE now.outcome = "open" /\ Doubtful(now.text, low)
  BY <1>2, <1>5
<1> QED BY <1>3, <1>4, <1>5

-------------------------------------------------------------------------------
(* What was answered stays answered.                                       *)
LEMMA AnswersStay ==
  ASSUME AnswersSound, NEW r, r.verdict \in Decided, results' = Append(results, r),
         ingests' \subseteq ingests
  PROVE  /\ AnswersSound'
         /\ \A f, text, read : Founded(f, text, read) => Founded(f, text, read)'
<1>1. PICK X : results \in Seq(X)
  BY DEF AnswersSound
<1>. DEFINE Y == X \cup {r}
<1>2. results \in Seq(Y) /\ r \in Y
  <2>1. X \subseteq Y
    OBVIOUS
  <2>2. /\ results \in [1 .. Len(results) -> X] /\ Len(results) \in Nat
    BY <1>1, LenProperties
  <2>3. results \in [1 .. Len(results) -> Y]
    BY <2>1, <2>2
  <2>. HIDE DEF Y
  <2>4. results \in Seq(Y)
    BY <2>2, <2>3, SeqDef
  <2> QED BY <2>4 DEF Y
<1>. HIDE DEF Y
<1>3. /\ Append(results, r) \in Seq(Y) /\ DOMAIN Append(results, r) = 1 .. Len(results) + 1
      /\ DOMAIN results = 1 .. Len(results) /\ Len(results) \in Nat
      /\ \A i \in 1 .. Len(results) : Append(results, r)[i] = results[i]
      /\ Append(results, r)[Len(results) + 1] = r
  BY <1>2, AppendProperties, LenProperties
<1>4. \A i \in DOMAIN results : i \in DOMAIN results' /\ results'[i] = results[i]
  BY <1>3
<1>5. \A i \in DOMAIN results' : results'[i].verdict \in Decided
  <2>1. SUFFICES ASSUME NEW i \in DOMAIN results'
                 PROVE  results'[i].verdict \in Decided
    OBVIOUS
  <2>2. i \in DOMAIN results \/ i = Len(results) + 1
    BY <1>3
  <2> QED BY <1>3, <1>4, <2>2 DEF AnswersSound
<1>6. AnswersSound'
  BY <1>3, <1>5 DEF AnswersSound
<1>7. \A f : Affirmed(f) => Affirmed(f)'
  BY <1>4 DEF Affirmed
<1>8. \A f, text : Repaired(f, text) => Repaired(f, text)'
  BY <1>4 DEF Repaired
<1> QED BY <1>6, <1>7, <1>8 DEF Founded

(* Nothing is answered yet.                                                *)
LEMMA InitiallyUnanswered == VisualInit => VisualInv
<1>1. SUFFICES ASSUME VisualInit
               PROVE  VisualInv
  OBVIOUS
<1>2. results = <<>> /\ ingests = {} /\ pass = NoPass
  BY <1>1 DEF VisualInit
<1>3. norm.status = "pending" /\ "status" \in DOMAIN norm
  <2>. DEFINE wording == [f \in Fields |-> ocr[f].text]
  <2>1. norm = [status |-> "pending", input |-> ocr, text |-> wording]
    BY <1>1 DEF VisualInit
  <2>. HIDE DEF wording
  <2> QED BY <2>1
<1>4. results \in Seq({}) /\ DOMAIN results = {}
  BY <1>2
<1>5. AnswersSound
  BY <1>2, <1>4 DEF AnswersSound
<1> QED BY <1>2, <1>3, <1>5 DEF VisualInv, PassSound, NothingIsGuessed

(* An answer that is checked, and one that is appended.                    *)
LEMMA ChecksKeep ==
  ASSUME VisualInv, NEW p, NEW answer \in Verdicts, NEW agent,
         CheckResponse(p, answer, agent) \/ CheckRevision(p, answer, agent)
  PROVE  VisualInv'
<1>. DEFINE r == Response(p, answer, agent)
<1>1. ingests' = ingests \cup {r} /\ UNCHANGED <<results, norm, pass>>
  BY DEF CheckResponse, CheckRevision
<1>2. r.verdict \in Decided
  BY DEF Response, Verdicts, Decided
<1>. HIDE DEF r
<1>3. AnswersSound'
  BY <1>1, <1>2 DEF VisualInv, AnswersSound
<1> QED BY <1>1, <1>3 DEF VisualInv, PassSound, Founded, NothingIsGuessed, Affirmed, Repaired

LEMMA AppendKeeps ==
  ASSUME VisualInv, NEW r \in ingests, AppendResponse(r)
  PROVE  VisualInv'
<1>1. /\ results' = Append(results, r) /\ ingests' \subseteq ingests
      /\ UNCHANGED <<norm, pass>> /\ r.verdict \in Decided /\ AnswersSound
      /\ "status" \in DOMAIN norm
  BY DEF AppendResponse, VisualInv, AnswersSound
<1>2. AnswersSound' /\ \A f, text, read : Founded(f, text, read) => Founded(f, text, read)'
  BY <1>1, AnswersStay
<1>3. PassSound'
  BY <1>1, <1>2 DEF VisualInv, PassSound
<1>4. NothingIsGuessed'
  <2>1. norm.status = "PASSED" => \A f \in Fields : Founded(f, norm.text[f], norm.input[f])
    BY DEF VisualInv, NothingIsGuessed, Founded
  <2>2. norm'.status = "PASSED" => \A f \in Fields : Founded(f, norm.text[f], norm.input[f])'
    BY <1>1, <1>2, <2>1
  <2> QED BY <2>2 DEF NothingIsGuessed, Founded
<1> QED BY <1>1, <1>2, <1>3, <1>4 DEF VisualInv

(* A run finds every field open for review, or settled on good grounds.    *)
LEMMA BeginKeeps ==
  ASSUME VisualInv, BeginNormalize
  PROVE  VisualInv'
<1>. DEFINE fields == [f \in Fields |-> Resolve(f)]
            step == IF \E f \in Fields : fields[f].outcome = "blocked" THEN "blocked"
                    ELSE "reconcile"
<1>1. /\ pass' = [NoPass EXCEPT !.step = step, !.input = ocr, !.fields = fields]
      /\ norm' = [norm EXCEPT !.status = "RUNNING"] /\ UNCHANGED <<results, ingests>>
  BY DEF BeginNormalize
<1>2. AnswersSound
  BY DEF VisualInv
<1>3. \A f \in Fields : /\ fields[f].outcome \in {"settled", "blocked", "review"}
                        /\ fields[f].outcome = "settled" => Founded(f, fields[f].text, ocr[f])
  BY <1>2, ResolveIsFounded
<1>4. /\ pass'.step = step /\ pass'.input = ocr /\ pass'.fields = fields
      /\ DOMAIN pass' = DOMAIN NoPass
  BY <1>1 DEF NoPass
<1>5. /\ step \in {"blocked", "reconcile"}
      /\ step # "blocked" => \A f \in Fields : fields[f].outcome # "blocked"
  OBVIOUS
<1>. HIDE DEF fields, step
<1>6. PassSound'
  <2>1. \A f, text, read : Founded(f, text, read) => Founded(f, text, read)'
    BY <1>1 DEF Founded, Affirmed, Repaired
  <2> QED BY <1>3, <1>4, <1>5, <2>1 DEF PassSound
<1>7. AnswersSound'
  BY <1>1, <1>2 DEF AnswersSound
<1>8. norm'.status # "PASSED" /\ "status" \in DOMAIN norm'
  BY <1>1 DEF VisualInv
<1> QED BY <1>6, <1>7, <1>8 DEF VisualInv, NothingIsGuessed

(* The queue is read and swapped: nothing that was found changes.          *)
LEMMA QueueKeeps ==
  ASSUME VisualInv, Reconcile \/ WriteQueue
  PROVE  VisualInv'
<1>1. PICK step, kept : /\ step \in {"write", "record"} /\ pass.step \in {"reconcile", "write"}
                        /\ \/ pass' = [pass EXCEPT !.step = step, !.kept = kept]
                           \/ pass' = [pass EXCEPT !.step = step]
  BY DEF Reconcile, WriteQueue
<1>2. UNCHANGED <<results, norm, ingests>>
  BY DEF Reconcile, WriteQueue
<1>3. pass # NoPass
  BY <1>1 DEF NoPass
<1>4. DOMAIN pass = DOMAIN NoPass
  BY <1>3 DEF VisualInv, PassSound
<1>5. pass'.step = step /\ pass'.input = pass.input /\ pass'.fields = pass.fields
      /\ DOMAIN pass' = DOMAIN NoPass
  BY <1>1, <1>4 DEF NoPass
<1>6. \A f, text, read : Founded(f, text, read) => Founded(f, text, read)'
  BY <1>2 DEF Founded, Affirmed, Repaired
<1>7. PassSound'
  BY <1>1, <1>3, <1>5, <1>6 DEF VisualInv, PassSound
<1>8. NothingIsGuessed'
  BY <1>2 DEF VisualInv, NothingIsGuessed, Affirmed, Repaired
<1> QED BY <1>2, <1>7, <1>8 DEF VisualInv, AnswersSound

(* A run that passes leaves no field to a review.                          *)
LEMMA RecordKeeps ==
  ASSUME VisualInv, RecordNormalize
  PROVE  VisualInv'
<1>. DEFINE wording == [f \in Fields |-> pass.fields[f].text]
            status == IF pass.step = "blocked" THEN "BLOCKED"
                      ELSE IF Reviews # {} THEN "PENDING" ELSE "PASSED"
<1>1. /\ norm' = [status |-> status, input |-> pass.input, text |-> wording]
      /\ pass.step \in {"blocked", "record"} /\ pass' = NoPass /\ UNCHANGED <<results, ingests>>
  BY DEF RecordNormalize, Recording
<1>2. pass # NoPass
  BY <1>1 DEF NoPass
<1>. HIDE DEF wording, status
<1>3. /\ norm'.status = status /\ norm'.input = pass.input /\ norm'.text = wording
      /\ "status" \in DOMAIN norm'
  BY <1>1
<1>4. status = "PASSED" => \A f \in Fields : Founded(f, wording[f], pass.input[f])
  <2>1. SUFFICES ASSUME status = "PASSED", NEW f \in Fields
                 PROVE  Founded(f, wording[f], pass.input[f])
    OBVIOUS
  <2>2. pass.step # "blocked" /\ Reviews = {}
    BY <2>1 DEF status
  <2>3. /\ pass.fields[f].outcome \in {"settled", "review"}
        /\ pass.fields[f].outcome = "settled" => Founded(f, pass.fields[f].text, pass.input[f])
    BY <1>2, <2>2 DEF VisualInv, PassSound
  <2>4. pass.fields[f].outcome # "review"
    BY <2>2 DEF Reviews
  <2>5. wording[f] = pass.fields[f].text
    BY DEF wording
  <2> QED BY <2>3, <2>4, <2>5
<1>5. NothingIsGuessed'
  BY <1>1, <1>3, <1>4 DEF NothingIsGuessed, Founded, Affirmed, Repaired
<1> QED BY <1>1, <1>3, <1>5 DEF VisualInv, AnswersSound, PassSound

(* Every step keeps the invariant.                                         *)
LEMMA VisualSteps == VisualInv /\ [VisualNext]_visualVars => VisualInv'
<1>1. SUFFICES ASSUME VisualInv, [VisualNext]_visualVars
               PROVE  VisualInv'
  OBVIOUS
<1>2. CASE BeginNormalize
  BY <1>1, <1>2, BeginKeeps
<1>3. CASE Reconcile \/ WriteQueue
  BY <1>1, <1>3, QueueKeeps
<1>4. CASE RecordNormalize
  BY <1>1, <1>4, RecordKeeps
<1>5. CASE \E p \in packets, answer \in Verdicts, agent \in Agents :
             CheckResponse(p, answer, agent) \/ CheckRevision(p, answer, agent)
  BY <1>1, <1>5, ChecksKeep
<1>6. CASE \E r \in ingests : AppendResponse(r)
  BY <1>1, <1>6, AppendKeeps
<1>7. CASE KillNormalize \/ (\E f \in Fields : Reread(f)) \/ UNCHANGED visualVars
  <2>1. UNCHANGED <<results, norm, ingests>> /\ (UNCHANGED pass \/ pass' = NoPass)
    BY <1>7 DEF KillNormalize, Reread, visualVars
  <2> QED BY <1>1, <2>1 DEF VisualInv, AnswersSound, PassSound, Founded, NothingIsGuessed,
                            Affirmed, Repaired
<1> QED BY <1>1, <1>2, <1>3, <1>4, <1>5, <1>6, <1>7 DEF VisualNext

(* Answers are a sequence, and what a run has settled is founded on them.  *)
THEOREM VisualInvariance == VisualSpec => []VisualInv
<1> QED BY InitiallyUnanswered, VisualSteps, PTL DEF VisualSpec

(* No doubtful field is guessed, for any fields, wording and agents, any     *)
(* number of rounds, recognitions and answers under way: in a              *)
(* normalisation that passed, the text of a field is what the recogniser   *)
(* read, and if that was doubtful an answer affirmed it; or it is the      *)
(* clean text of a recorded repair of that field                           *)
(* (segmentation.ts:2187-2325, stage-registry.ts:760-901).                 *)
THEOREM NoFieldIsGuessed == VisualSpec => []NothingIsGuessed
<1>1. VisualInv => NothingIsGuessed
  BY DEF VisualInv
<1> QED BY <1>1, VisualInvariance, PTL

------------------------------------------------------------------------------
(***************************************************************************)
(* Why no text is paid for twice and why what is validated is complete:    *)
(* for any texts, voices, workers, retries and edits.                      *)
(*                                                                         *)
(* Both rest on the same fact: a file that a row of the manifest names is  *)
(* readable and never written again.  It is owed by no later run, because  *)
(* a run owes only what it cannot reuse, and what no run owes nobody asks. *)
(***************************************************************************)

FileRows == [kind : {"none", "stub", "torn", "whole"}, good : BOOLEAN, copy : Nat]
CallRows == [key : Keys, step : {"asked", "writing"}, tries : Nat]
RunRows ==
  [step : {"idle", "synthesize", "record"}, limit : Nat, rows : SUBSET Keys,
   owed : SUBSET Keys, calls : SUBSET CallRows, failed : BOOLEAN]
Rows == [key : Keys, digest : FileRows]
Orders == [voice : Voices, texts : SUBSET Texts, limit : Nat]
Inputs == [voice : Voices, texts : SUBSET Texts, rows : SUBSET Rows, upstream : SUBSET Rows]

SpeechTypes ==
  /\ texts \subseteq Texts /\ voice \in Voices
  /\ files \in [Keys -> FileRows] /\ manifest \subseteq Rows
  /\ run \in RunRows
  /\ tts \in [passed : BOOLEAN, input : Orders, output : SUBSET Rows]
  /\ audio \in [passed : BOOLEAN, input : Inputs]
  /\ paid \in [Keys -> Nat] /\ spoilt \in [Keys -> Nat]

(* What is owed or asked for has no readable file, and is so but once.     *)
RunIsOwed ==
  /\ run.step # "synthesize" => run.owed = {} /\ run.calls = {}
  /\ \A k \in run.owed : ~Readable(files[k])
  /\ \A c \in run.calls :
       /\ ~Readable(files[c.key]) /\ c.key \notin run.owed
       /\ \A d \in run.calls : d.key = c.key => d = c
  /\ run.step = "synthesize" /\ ~run.failed =>
       \A k \in run.rows :
         k \in run.owed \/ (\E c \in run.calls : c.key = k) \/ Readable(files[k])

RowsHold == \A r \in manifest : files[r.key] = r.digest /\ Readable(r.digest)

Writing(k) == \E c \in run.calls : c.key = k /\ c.step = "writing"

Worth(k) == IF Readable(files[k]) \/ Writing(k) THEN 1 ELSE 0

PaidForWorth == \A k \in Keys : paid[k] <= spoilt[k] + Worth(k)

(* What the ledger says was validated was whole when it was.               *)
PassedWasWhole ==
  audio.passed =>
    \A t \in audio.input.texts : \E r \in audio.input.rows :
      r.key = <<audio.input.voice, t>> /\ r.digest.good /\ Readable(r.digest)

SpeechInv ==
  /\ SpeechTypes /\ RunIsOwed /\ RowsHold /\ PaidForWorth /\ PassedWasWhole

-------------------------------------------------------------------------------
LEMMA KeyFacts ==
  /\ \A k \in Keys : k[1] \in Voices /\ k[2] \in Texts /\ k = <<k[1], k[2]>>
  /\ \A v \in Voices, t \in Texts : <<v, t>> \in Keys
BY DEF Keys

LEMMA FileFacts ==
  /\ NoFile \in FileRows /\ NoFile.kind = "none"
  /\ \A f \in FileRows, good \in BOOLEAN :
       /\ [f EXCEPT !.kind = "whole", !.good = good] \in FileRows
       /\ [f EXCEPT !.kind = "whole", !.good = good].kind = "whole"
       /\ [f EXCEPT !.kind = "torn", !.good = good] \in FileRows
       /\ [f EXCEPT !.kind = "torn", !.good = good].kind = "torn"
  /\ \A n \in Nat : [kind |-> "stub", good |-> FALSE, copy |-> n] \in FileRows
BY DEF NoFile, FileRows

LEMMA CallFacts ==
  /\ \A k \in Keys, step \in {"asked", "writing"}, n \in Nat :
       /\ Call(k, step, n) \in CallRows
       /\ Call(k, step, n).key = k /\ Call(k, step, n).step = step
       /\ Call(k, step, n).tries = n
  /\ \A c \in CallRows : c.key \in Keys /\ c.step \in {"asked", "writing"} /\ c.tries \in Nat
BY DEF Call, CallRows

LEMMA IdleFacts ==
  /\ Idle \in RunRows /\ Idle.step = "idle" /\ Idle.rows = {} /\ Idle.owed = {}
  /\ Idle.calls = {} /\ Idle.failed = FALSE /\ Idle.limit = 0
BY DEF Idle, RunRows

LEMMA RunFacts ==
  \A x \in RunRows :
    /\ x.step \in {"idle", "synthesize", "record"} /\ x.limit \in Nat
    /\ x.rows \subseteq Keys /\ x.owed \subseteq Keys /\ x.calls \subseteq CallRows
    /\ x.failed \in BOOLEAN
BY DEF RunRows

LEMMA AudioFacts == SpeechTypes => AudioInput \in Inputs
BY DEF SpeechTypes, AudioInput, Inputs

LEMMA TtsFacts == SpeechTypes => \A limit \in Nat : TtsInput(limit) \in Orders
BY DEF SpeechTypes, TtsInput, Orders

LEMMA InitiallySpoken == SpeechInit => SpeechInv
<1> SUFFICES ASSUME SpeechInit PROVE SpeechInv
  OBVIOUS
<1>1. texts = Texts /\ voice \in Voices /\ manifest = {}
  BY SpeechAssumption DEF SpeechInit
<1>2. files \in [Keys -> FileRows]
  BY FileFacts DEF SpeechInit
<1>3. run = Idle /\ run \in RunRows
  BY IdleFacts DEF SpeechInit
<1>4. tts \in [passed : BOOLEAN, input : Orders, output : SUBSET Rows] /\ tts.output = {}
  BY <1>1 DEF SpeechInit, TtsInput, Orders
<1>5. AudioInput \in Inputs
  BY <1>1, <1>4 DEF AudioInput, Inputs
<1>6. audio \in [passed : BOOLEAN, input : Inputs] /\ ~audio.passed
  BY <1>5 DEF SpeechInit
<1>7. SpeechTypes
  BY <1>1, <1>2, <1>3, <1>4, <1>6 DEF SpeechTypes, SpeechInit
<1>8. RunIsOwed
  BY <1>3, IdleFacts DEF RunIsOwed
<1>9. PaidForWorth
  BY DEF PaidForWorth, Worth, SpeechInit
<1> QED  BY <1>1, <1>6, <1>7, <1>8, <1>9 DEF SpeechInv, RowsHold, PassedWasWhole

-------------------------------------------------------------------------------
(* A step that changes the stage's run only keeps what was bought.         *)
LEMMA PassedStays ==
  ASSUME SpeechInv, UNCHANGED audio
  PROVE  PassedWasWhole'
BY DEF SpeechInv, PassedWasWhole, Readable

LEMMA SynthesizeStep ==
  ASSUME SpeechInv, NEW piped \in BOOLEAN, NEW limit \in 0 .. 1, Synthesize(piped, limit)
  PROVE  SpeechInv'
<1> DEFINE owed == {k \in Planned(limit) : ~Reusable(k)}
           begun == [step |-> "synthesize", limit |-> limit, rows |-> Planned(limit),
                     owed |-> owed, calls |-> {}, failed |-> FALSE]
<1>1. /\ run = Idle /\ run' \in {begun, run}
      /\ tts' \in {tts, [tts EXCEPT !.passed = FALSE]}
      /\ UNCHANGED <<texts, voice, files, manifest, audio, paid, spoilt>>
  BY DEF Synthesize
<1>2. SpeechTypes /\ RunIsOwed /\ RowsHold /\ PaidForWorth
  BY DEF SpeechInv
<1>3. Planned(limit) \subseteq Keys
  BY <1>2, KeyFacts DEF Planned, SpeechTypes
<1>4. /\ begun \in RunRows /\ begun.step = "synthesize" /\ begun.rows = Planned(limit)
      /\ begun.owed = owed /\ begun.calls = {} /\ begun.failed = FALSE
  BY <1>3 DEF RunRows
<1>5. \A k \in owed : ~Readable(files[k])
  BY <1>2 DEF Reusable, RowsHold, RowsOf
<1>6. \A k \in Planned(limit) : k \in owed \/ Readable(files[k])
  BY <1>2 DEF Reusable, RowsHold, RowsOf
<1> HIDE DEF owed, begun
<1>7. tts' \in [passed : BOOLEAN, input : Orders, output : SUBSET Rows]
  BY <1>1, <1>2 DEF SpeechTypes
<1>8. SpeechTypes'
  BY <1>1, <1>2, <1>4, <1>7 DEF SpeechTypes
<1>9. RunIsOwed'
  BY <1>1, <1>2, <1>4, <1>5, <1>6, IdleFacts DEF RunIsOwed, Readable
<1>10. PaidForWorth'
  BY <1>1, <1>2, <1>4, IdleFacts DEF PaidForWorth, Worth, Writing, Readable
<1>11. RowsHold'
  BY <1>1, <1>2 DEF RowsHold, Readable
<1> QED  BY <1>1, <1>8, <1>9, <1>10, <1>11, PassedStays DEF SpeechInv

LEMMA AskStep ==
  ASSUME SpeechInv, NEW k \in run.owed, Ask(k)
  PROVE  SpeechInv'
<1>1. PICK x \in RunRows : x = run
  BY DEF SpeechInv, SpeechTypes
<1>2. k \in Keys /\ x.owed \subseteq Keys /\ x.calls \subseteq CallRows
  BY <1>1, RunFacts
<1>3. PICK c \in CallRows : c = Call(k, "asked", 1) /\ c.key = k /\ c.step = "asked"
  BY <1>2, CallFacts
<1>4. /\ run' = [x EXCEPT !.owed = x.owed \ {k}, !.calls = x.calls \cup {c}]
      /\ x.step = "synthesize" /\ ~x.failed
      /\ UNCHANGED <<texts, voice, files, manifest, tts, audio, paid, spoilt>>
  BY <1>1, <1>3 DEF Ask
<1>5. /\ run' \in RunRows /\ run'.step = x.step /\ run'.rows = x.rows
      /\ run'.owed = x.owed \ {k} /\ run'.calls = x.calls \cup {c} /\ run'.failed = x.failed
  BY <1>2, <1>4 DEF RunRows
<1>6. SpeechTypes'
  BY <1>4, <1>5 DEF SpeechInv, SpeechTypes
<1>7. RunIsOwed'
  BY <1>1, <1>3, <1>4, <1>5 DEF SpeechInv, RunIsOwed, Readable
<1>8. PaidForWorth'
  BY <1>1, <1>3, <1>4, <1>5 DEF SpeechInv, PaidForWorth, Worth, Writing, Readable
<1>9. RowsHold'
  BY <1>4 DEF SpeechInv, RowsHold, Readable
<1> QED  BY <1>4, <1>6, <1>7, <1>8, <1>9, PassedStays DEF SpeechInv

-------------------------------------------------------------------------------
(* The calls: an answer that came to nothing, ...                          *)
LEMMA SpoilFacts ==
  ASSUME SpeechInv, NEW k \in Keys, Spoil({k})
  PROVE  /\ paid' \in [Keys -> Nat] /\ spoilt' \in [Keys -> Nat]
         /\ \A other \in Keys :
              paid[other] <= spoilt[other] + Worth(other) =>
                paid'[other] <= spoilt'[other] + Worth(other)
<1>1. paid \in [Keys -> Nat] /\ spoilt \in [Keys -> Nat]
  BY DEF SpeechInv, SpeechTypes
<1>2. CASE UNCHANGED <<paid, spoilt>>
  BY <1>1, <1>2
<1>3. CASE /\ paid' = [o \in Keys |-> paid[o] + (IF o \in {k} THEN 1 ELSE 0)]
           /\ spoilt' = [o \in Keys |-> spoilt[o] + (IF o \in {k} THEN 1 ELSE 0)]
  <2>1. \A o \in Keys : Worth(o) \in {0, 1}
    BY DEF Worth
  <2> QED  BY <1>1, <1>3, <2>1
<1> QED  BY <1>2, <1>3 DEF Spoil

(* ... a call that goes on, as the one of D, or ends, ...                  *)
Moves(c, D) ==
  /\ \A d \in D : d.key = c.key
  /\ \A d, e \in D : d = e
  /\ run.step = "synthesize" => (D = {} => run'.failed \/ Readable(files'[c.key]))
  /\ run' \in [step : {run.step}, limit : {run.limit}, rows : {run.rows},
              owed : {run.owed}, calls : {(run.calls \ {c}) \cup D},
              failed : {run.failed, TRUE}]
  /\ files' \in [Keys -> FileRows]
  /\ \A k \in Keys \ {c.key} : files'[k] = files[k]
  /\ D # {} => ~Readable(files'[c.key])
  /\ UNCHANGED <<texts, voice, manifest, tts, audio>>

LEMMA CallMoves ==
  ASSUME SpeechInv, NEW c \in run.calls, NEW D \in SUBSET CallRows, Moves(c, D)
  PROVE  /\ c \in CallRows /\ c.key \in Keys /\ run.step = "synthesize"
         /\ ~Readable(files[c.key])
         /\ run' \in RunRows /\ run'.calls = (run.calls \ {c}) \cup D
         /\ RunIsOwed' /\ RowsHold' /\ PassedWasWhole'
<1>1. PICK x \in RunRows : x = run
  BY DEF SpeechInv, SpeechTypes
<1>2. x.calls \subseteq CallRows /\ x.owed \subseteq Keys /\ x.rows \subseteq Keys
      /\ x.step \in {"idle", "synthesize", "record"} /\ x.limit \in Nat /\ x.failed \in BOOLEAN
  BY RunFacts
<1>3. c \in CallRows /\ c.key \in Keys
  BY <1>1, <1>2, CallFacts
<1>4. x.step = "synthesize" /\ ~Readable(files[c.key]) /\ c.key \notin x.owed
  BY <1>1 DEF SpeechInv, RunIsOwed
<1>5. /\ run'.step = x.step /\ run'.rows = x.rows /\ run'.owed = x.owed
      /\ run'.calls = (x.calls \ {c}) \cup D /\ run'.failed \in {x.failed, TRUE}
  BY <1>1 DEF Moves
<1>6. run' \in RunRows
  <2>1. (x.calls \ {c}) \cup D \subseteq CallRows
    BY <1>2
  <2> QED  BY <1>1, <1>2, <2>1 DEF RunRows, Moves
<1>7. \A k \in x.owed : ~Readable(files'[k])
  BY <1>1, <1>2, <1>4 DEF SpeechInv, RunIsOwed, Readable, Moves
<1>8. \A d \in run'.calls :
        /\ ~Readable(files'[d.key]) /\ d.key \notin x.owed
        /\ \A e \in run'.calls : e.key = d.key => e = d
  <2>1. \A d \in x.calls \ {c} : d.key # c.key /\ d.key \in Keys
    BY <1>1, <1>2, CallFacts DEF SpeechInv, RunIsOwed
  <2>2. \A d \in x.calls \ {c} : ~Readable(files'[d.key]) /\ d.key \notin x.owed
    BY <1>1, <2>1 DEF SpeechInv, RunIsOwed, Readable, Moves
  <2>3. \A d \in D : ~Readable(files'[d.key]) /\ d.key \notin x.owed
    BY <1>4 DEF Moves
  <2> QED  BY <1>1, <1>5, <2>1, <2>2, <2>3 DEF SpeechInv, RunIsOwed, Moves
<1>9. ~run'.failed =>
        \A k \in x.rows :
          k \in x.owed \/ (\E d \in run'.calls : d.key = k) \/ Readable(files'[k])
  <2> SUFFICES ASSUME ~run'.failed, NEW k \in x.rows, k \notin x.owed
               PROVE  (\E d \in run'.calls : d.key = k) \/ Readable(files'[k])
    OBVIOUS
  <2>1. (\E d \in x.calls : d.key = k) \/ Readable(files[k])
    BY <1>1, <1>4, <1>5 DEF SpeechInv, RunIsOwed
  <2>2. k \in Keys
    BY <1>2
  <2>3. CASE k = c.key
    BY <1>1, <1>4, <1>5, <2>3 DEF Moves
  <2>4. CASE k # c.key
    BY <1>5, <2>1, <2>2, <2>4 DEF Moves
  <2> QED  BY <2>3, <2>4
<1>10. RunIsOwed'
  BY <1>4, <1>5, <1>7, <1>8, <1>9 DEF RunIsOwed, Readable
<1>11. RowsHold'
  <2>1. \A r \in manifest : r.key \in Keys /\ r.key # c.key
    BY <1>4 DEF SpeechInv, SpeechTypes, RowsHold, Rows
  <2> QED  BY <2>1 DEF SpeechInv, RowsHold, Readable, Moves
<1> QED  BY <1>1, <1>3, <1>4, <1>5, <1>6, <1>10, <1>11, PassedStays DEF Moves

(* ... and what each of them makes of the money spent.                     *)
LEMMA AnswerStep ==
  ASSUME SpeechInv, NEW c \in run.calls, Answer(c)
  PROVE  SpeechInv'
<1>1. PICK x \in RunRows : x = run
  BY DEF SpeechInv, SpeechTypes
<1>2. c \in CallRows /\ c.key \in Keys /\ c.tries \in Nat
  BY <1>1, RunFacts, CallFacts
<1>3. PICK d \in CallRows :
        d = Call(c.key, "writing", c.tries) /\ d.key = c.key /\ d.step = "writing"
  BY <1>2, CallFacts
<1>4. PICK D \in SUBSET CallRows : D = {d}
  OBVIOUS
<1>5. (\A e \in D : e.key = c.key) /\ (\A e, g \in D : e = g) /\ D # {}
  BY <1>3, <1>4
<1>6. PICK f \in FileRows :
        /\ f = [kind |-> "stub", good |-> FALSE, copy |-> paid[c.key] + 1]
        /\ f.kind = "stub"
  <2> DEFINE stub == [kind |-> "stub", good |-> FALSE, copy |-> paid[c.key] + 1]
  <2>1. paid[c.key] + 1 \in Nat
    BY <1>2 DEF SpeechInv, SpeechTypes
  <2>2. stub \in FileRows
    BY <2>1, FileFacts
  <2>3. stub.kind = "stub"
    OBVIOUS
  <2> QED  BY <2>2, <2>3
<1>7. /\ c.step = "asked"
      /\ paid' = [paid EXCEPT ![c.key] = paid[c.key] + 1]
      /\ files' = [files EXCEPT ![c.key] = f]
      /\ run' = [x EXCEPT !.calls = (x.calls \ {c}) \cup D]
      /\ UNCHANGED <<texts, voice, manifest, tts, audio, spoilt>>
  BY <1>1, <1>3, <1>6, <1>4 DEF Answer
<1>8. files' \in [Keys -> FileRows] /\ files'[c.key] = f
      /\ \A k \in Keys \ {c.key} : files'[k] = files[k]
  BY <1>2, <1>7 DEF SpeechInv, SpeechTypes
<1>9. run' \in [step : {run.step}, limit : {run.limit}, rows : {run.rows}, owed : {run.owed},
                calls : {(run.calls \ {c}) \cup D}, failed : {run.failed, TRUE}]
  BY <1>1, <1>7 DEF RunRows
<1>10. ~Readable(files'[c.key])
  BY <1>6, <1>8 DEF Readable
<1>11. Moves(c, D)
  BY <1>5, <1>7, <1>8, <1>9, <1>10 DEF Moves
<1>12. /\ ~Readable(files[c.key])
      /\ run' \in RunRows /\ run'.calls = (run.calls \ {c}) \cup D
      /\ RunIsOwed' /\ RowsHold' /\ PassedWasWhole'
  BY <1>11, CallMoves
<1>13. paid' \in [Keys -> Nat]
  BY <1>2, <1>7 DEF SpeechInv, SpeechTypes
<1>14. SpeechTypes'
  BY <1>7, <1>8, <1>12, <1>13 DEF SpeechInv, SpeechTypes
<1>15. ~Writing(c.key) /\ Worth(c.key) = 0
  BY <1>7, <1>12 DEF SpeechInv, RunIsOwed, Writing, Worth
<1>16. Writing(c.key)'
  BY <1>3, <1>12, <1>4 DEF Writing
<1>17. \A k \in Keys \ {c.key} : Worth(k)' = Worth(k)
  BY <1>3, <1>8, <1>12, <1>4 DEF Worth, Writing, Readable
<1>18. PaidForWorth'
  <2> SUFFICES ASSUME NEW k \in Keys PROVE paid'[k] <= spoilt[k] + Worth(k)'
    BY <1>7 DEF PaidForWorth
  <2>1. CASE k = c.key
    <3>1. Worth(c.key)' = 1
      BY <1>2, <1>16 DEF Worth
    <3>2. paid[c.key] <= spoilt[c.key] + 0 /\ paid[c.key] \in Nat /\ spoilt[c.key] \in Nat
      BY <1>2, <1>15 DEF SpeechInv, PaidForWorth, SpeechTypes
    <3>3. paid'[c.key] = paid[c.key] + 1
      BY <1>2, <1>7 DEF SpeechInv, SpeechTypes
    <3> QED  BY <2>1, <3>1, <3>2, <3>3
  <2>2. CASE k # c.key
    BY <1>7, <1>17, <2>2 DEF SpeechInv, SpeechTypes, PaidForWorth
  <2> QED  BY <2>1, <2>2
<1> QED  BY <1>12, <1>14, <1>18 DEF SpeechInv

LEMMA TryAgainStep ==
  ASSUME SpeechInv, NEW c \in run.calls, TryAgain(c)
  PROVE  SpeechInv'
<1>1. PICK x \in RunRows : x = run
  BY DEF SpeechInv, SpeechTypes
<1>2. c \in CallRows /\ c.key \in Keys /\ c.tries + 1 \in Nat
  BY <1>1, RunFacts, CallFacts
<1>3. PICK d \in CallRows :
        d = Call(c.key, "asked", c.tries + 1) /\ d.key = c.key /\ d.step = "asked"
  BY <1>2, CallFacts
<1>4. PICK D \in SUBSET CallRows : D = {d}
  OBVIOUS
<1>5. (\A e \in D : e.key = c.key) /\ (\A e, g \in D : e = g) /\ D # {}
  BY <1>3, <1>4
<1>6. /\ c.step = "asked" /\ Spoil({c.key})
      /\ run' = [x EXCEPT !.calls = (x.calls \ {c}) \cup D]
      /\ UNCHANGED <<texts, voice, files, manifest, tts, audio>>
  BY <1>1, <1>3, <1>4 DEF TryAgain
<1>7. run' \in [step : {run.step}, limit : {run.limit}, rows : {run.rows}, owed : {run.owed},
                calls : {(run.calls \ {c}) \cup D}, failed : {run.failed, TRUE}]
  BY <1>1, <1>6 DEF RunRows
<1>8. files' \in [Keys -> FileRows] /\ \A k \in Keys : files'[k] = files[k]
  BY <1>6 DEF SpeechInv, SpeechTypes
<1>9. ~Readable(files'[c.key])
  BY <1>2, <1>8 DEF SpeechInv, RunIsOwed
<1>10. Moves(c, D)
  BY <1>6, <1>7, <1>8, <1>9, <1>5 DEF Moves
<1>11. /\ run' \in RunRows /\ run'.calls = (run.calls \ {c}) \cup D
      /\ RunIsOwed' /\ RowsHold' /\ PassedWasWhole'
  BY <1>10, CallMoves
<1>12. /\ paid' \in [Keys -> Nat] /\ spoilt' \in [Keys -> Nat]
      /\ \A k \in Keys : paid'[k] <= spoilt'[k] + Worth(k)
  BY <1>2, <1>6, SpoilFacts DEF SpeechInv, PaidForWorth
<1>13. SpeechTypes'
  BY <1>6, <1>11, <1>12 DEF SpeechInv, SpeechTypes
<1>14. \A k \in Keys : Worth(k)' = Worth(k)
  BY <1>3, <1>6, <1>11, <1>4 DEF Worth, Writing, Readable
<1> QED  BY <1>11, <1>12, <1>13, <1>14 DEF SpeechInv, PaidForWorth

LEMMA GiveUpStep ==
  ASSUME SpeechInv, NEW c \in run.calls, GiveUp(c)
  PROVE  SpeechInv'
<1>1. PICK x \in RunRows : x = run
  BY DEF SpeechInv, SpeechTypes
<1>2. c \in CallRows /\ c.key \in Keys
  BY <1>1, RunFacts, CallFacts
<1>3. PICK D \in SUBSET CallRows : D = {}
  OBVIOUS
<1>4. /\ c.step = "asked" /\ Spoil({c.key})
      /\ run' = [x EXCEPT !.calls = (x.calls \ {c}) \cup D, !.failed = TRUE]
      /\ UNCHANGED <<texts, voice, files, manifest, tts, audio>>
  BY <1>1, <1>3 DEF GiveUp
<1>5. run'.failed /\ run' \in [step : {run.step}, limit : {run.limit}, rows : {run.rows},
                               owed : {run.owed}, calls : {(run.calls \ {c}) \cup D},
                               failed : {run.failed, TRUE}]
  BY <1>1, <1>4 DEF RunRows
<1>6. files' \in [Keys -> FileRows] /\ \A k \in Keys : files'[k] = files[k]
  BY <1>4 DEF SpeechInv, SpeechTypes
<1>7. Moves(c, D)
  BY <1>3, <1>4, <1>5, <1>6 DEF Moves
<1>8. /\ run' \in RunRows /\ run'.calls = (run.calls \ {c}) \cup D
      /\ RunIsOwed' /\ RowsHold' /\ PassedWasWhole'
  BY <1>7, CallMoves
<1>9. /\ paid' \in [Keys -> Nat] /\ spoilt' \in [Keys -> Nat]
      /\ \A k \in Keys : paid'[k] <= spoilt'[k] + Worth(k)
  BY <1>2, <1>4, SpoilFacts DEF SpeechInv, PaidForWorth
<1>10. SpeechTypes'
  BY <1>4, <1>8, <1>9 DEF SpeechInv, SpeechTypes
<1>11. \A k \in Keys : Worth(k)' = Worth(k)
  BY <1>4, <1>8, <1>3 DEF Worth, Writing, Readable
<1> QED  BY <1>8, <1>9, <1>10, <1>11 DEF SpeechInv, PaidForWorth

LEMMA WrittenStep ==
  ASSUME SpeechInv, NEW c \in run.calls, Written(c)
  PROVE  SpeechInv'
<1>1. PICK x \in RunRows : x = run
  BY DEF SpeechInv, SpeechTypes
<1>2. c \in CallRows /\ c.key \in Keys /\ files[c.key] \in FileRows
  BY <1>1, RunFacts, CallFacts DEF SpeechInv, SpeechTypes
<1>3. PICK D \in SUBSET CallRows : D = {}
  OBVIOUS
<1>4. PICK good \in BOOLEAN :
        files' = [files EXCEPT ![c.key] = [files[c.key] EXCEPT !.kind = "whole", !.good = good]]
  BY DEF Written
<1>5. PICK f \in FileRows :
        f = [files[c.key] EXCEPT !.kind = "whole", !.good = good] /\ f.kind = "whole"
  BY <1>2, FileFacts
<1>6. /\ c.step = "writing" /\ files' = [files EXCEPT ![c.key] = f]
      /\ run' = [x EXCEPT !.calls = (x.calls \ {c}) \cup D]
      /\ UNCHANGED <<texts, voice, manifest, tts, audio, paid, spoilt>>
  BY <1>1, <1>4, <1>5, <1>3 DEF Written
<1>7. files' \in [Keys -> FileRows] /\ files'[c.key] = f
      /\ \A k \in Keys \ {c.key} : files'[k] = files[k]
  BY <1>2, <1>6 DEF SpeechInv, SpeechTypes
<1>8. run' \in [step : {run.step}, limit : {run.limit}, rows : {run.rows}, owed : {run.owed},
                calls : {(run.calls \ {c}) \cup D}, failed : {run.failed, TRUE}]
  BY <1>1, <1>6 DEF RunRows
<1>9. Readable(files'[c.key])
  BY <1>5, <1>7 DEF Readable
<1>10. Moves(c, D)
  BY <1>3, <1>6, <1>7, <1>8, <1>9 DEF Moves
<1>11. /\ run' \in RunRows /\ run'.calls = (run.calls \ {c}) \cup D
      /\ RunIsOwed' /\ RowsHold' /\ PassedWasWhole'
  BY <1>10, CallMoves
<1>12. SpeechTypes'
  BY <1>6, <1>7, <1>11 DEF SpeechInv, SpeechTypes
<1>13. Worth(c.key) = 1 /\ Worth(c.key)' = 1
  BY <1>6, <1>9 DEF Worth, Writing, Readable
<1>14. \A k \in Keys \ {c.key} : Worth(k)' = Worth(k)
  BY <1>7, <1>11, <1>3 DEF Worth, Writing, Readable
<1>15. PaidForWorth'
  BY <1>6, <1>13, <1>14 DEF SpeechInv, PaidForWorth
<1> QED  BY <1>11, <1>12, <1>15 DEF SpeechInv

-------------------------------------------------------------------------------
(* All has its file: the rows of the manifest hold from here on, ...       *)
LEMMA WriteManifestStep ==
  ASSUME SpeechInv, WriteManifest
  PROVE  SpeechInv'
<1>1. PICK x \in RunRows : x = run
  BY DEF SpeechInv, SpeechTypes
<1>2. /\ x.step = "synthesize" /\ x.owed = {} /\ x.calls = {} /\ ~x.failed
      /\ manifest' = {[key |-> k, digest |-> files[k]] : k \in x.rows}
      /\ run' = [x EXCEPT !.step = "record"]
      /\ UNCHANGED <<texts, voice, files, tts, audio, paid, spoilt>>
  BY <1>1 DEF WriteManifest
<1>3. x.rows \subseteq Keys
  BY RunFacts
<1>4. /\ run' \in RunRows /\ run'.step = "record" /\ run'.owed = {} /\ run'.calls = {}
  BY <1>2 DEF RunRows
<1>5. \A k \in x.rows : Readable(files[k])
  BY <1>1, <1>2 DEF SpeechInv, RunIsOwed
<1>6. manifest' \subseteq Rows /\ RowsHold'
  BY <1>2, <1>3, <1>5 DEF SpeechInv, SpeechTypes, Rows, RowsHold, Readable
<1>7. SpeechTypes'
  BY <1>2, <1>4, <1>6 DEF SpeechInv, SpeechTypes
<1>8. RunIsOwed'
  BY <1>4 DEF RunIsOwed
<1>9. PaidForWorth'
  BY <1>1, <1>2, <1>4 DEF SpeechInv, PaidForWorth, Worth, Writing, Readable
<1> QED  BY <1>2, <1>6, <1>7, <1>8, <1>9, PassedStays DEF SpeechInv

(* ... and what ends the run leaves them.                                  *)
LEMMA RunEnds ==
  ASSUME SpeechInv, run' = Idle, run.calls = {},
         tts' \in [passed : BOOLEAN, input : Orders, output : SUBSET Rows],
         UNCHANGED <<texts, voice, files, manifest, audio, paid, spoilt>>
  PROVE  SpeechInv'
<1>1. SpeechTypes'
  BY IdleFacts DEF SpeechInv, SpeechTypes
<1>2. RunIsOwed'
  BY IdleFacts DEF RunIsOwed
<1>3. PaidForWorth'
  BY IdleFacts DEF SpeechInv, PaidForWorth, Worth, Writing, Readable
<1>4. RowsHold'
  BY DEF SpeechInv, RowsHold, Readable
<1> QED  BY <1>1, <1>2, <1>3, <1>4, PassedStays DEF SpeechInv

LEMMA RecordSynthesisStep ==
  ASSUME SpeechInv, RecordSynthesis
  PROVE  SpeechInv'
<1>1. run.step # "synthesize" /\ run.calls = {} /\ run.limit \in Nat
  BY RunFacts DEF RecordSynthesis, SpeechInv, RunIsOwed, SpeechTypes
<1>2. TtsInput(run.limit) \in Orders /\ manifest \subseteq Rows
  BY <1>1, TtsFacts DEF SpeechInv, SpeechTypes
<1>3. tts' \in [passed : BOOLEAN, input : Orders, output : SUBSET Rows]
  BY <1>2 DEF RecordSynthesis
<1> QED  BY <1>1, <1>3, RunEnds DEF RecordSynthesis

LEMMA FailSynthesisStep ==
  ASSUME SpeechInv, FailSynthesis
  PROVE  SpeechInv'
<1>1. tts' \in [passed : BOOLEAN, input : Orders, output : SUBSET Rows]
  BY DEF FailSynthesis, SpeechInv, SpeechTypes
<1> QED  BY <1>1, RunEnds DEF FailSynthesis

(* A kill: what had been answered but left unreadable is spoilt.           *)
LEMMA KillStep ==
  ASSUME SpeechInv, Kill
  PROVE  SpeechInv'
<1> DEFINE asked == {c.key : c \in {d \in run.calls : d.step = "asked"}}
           writing == {c.key : c \in {d \in run.calls : d.step = "writing"}}
<1>1. PICK x \in RunRows : x = run
  BY DEF SpeechInv, SpeechTypes
<1>2. x.calls \subseteq CallRows
  BY RunFacts
<1>3. asked \subseteq Keys /\ writing \subseteq Keys
  BY <1>1, <1>2, CallFacts
<1>4. \A k \in asked \cup writing : ~Readable(files[k])
  BY <1>1 DEF SpeechInv, RunIsOwed
<1>5. asked \cap writing = {}
  BY <1>1 DEF SpeechInv, RunIsOwed
<1>6. \A k \in Keys : Writing(k) <=> k \in writing
  BY DEF Writing
<1>7. PICK torn \in SUBSET writing, good \in BOOLEAN :
        /\ files' = [k \in Keys |-> IF k \in torn
                                    THEN [files[k] EXCEPT !.kind = "torn", !.good = good]
                                    ELSE files[k]]
        /\ \E served \in SUBSET asked :
             /\ paid' = [k \in Keys |-> paid[k] + (IF k \in served THEN 1 ELSE 0)]
             /\ spoilt' = [k \in Keys |->
                             spoilt[k] + (IF k \in served \cup (writing \ torn) THEN 1 ELSE 0)]
  BY Zenon DEF Kill
<1>8. PICK served \in SUBSET asked :
        /\ paid' = [k \in Keys |-> paid[k] + (IF k \in served THEN 1 ELSE 0)]
        /\ spoilt' = [k \in Keys |->
                        spoilt[k] + (IF k \in served \cup (writing \ torn) THEN 1 ELSE 0)]
  BY <1>7
<1>9. run' = Idle /\ UNCHANGED <<texts, voice, manifest, tts, audio>>
  BY DEF Kill
<1> HIDE DEF asked, writing
<1>10. files \in [Keys -> FileRows] /\ paid \in [Keys -> Nat] /\ spoilt \in [Keys -> Nat]
  BY DEF SpeechInv, SpeechTypes
<1>11. /\ files' \in [Keys -> FileRows]
       /\ \A k \in torn : files'[k].kind = "torn"
       /\ \A k \in Keys \ torn : files'[k] = files[k]
  <2> DEFINE Cut(f) == [f EXCEPT !.kind = "torn", !.good = good]
  <2>1. \A f \in FileRows : Cut(f) \in FileRows /\ Cut(f).kind = "torn"
    BY FileFacts
  <2>2. files' = [k \in Keys |-> IF k \in torn THEN Cut(files[k]) ELSE files[k]]
    BY <1>7
  <2> HIDE DEF Cut
  <2> QED  BY <1>3, <1>10, <2>1, <2>2
<1>12. paid' \in [Keys -> Nat] /\ spoilt' \in [Keys -> Nat]
  BY <1>10, <1>8
<1>13. SpeechTypes'
  BY <1>9, <1>11, <1>12, IdleFacts DEF SpeechInv, SpeechTypes
<1>14. RunIsOwed'
  BY <1>9, IdleFacts DEF RunIsOwed
<1>15. RowsHold'
  <2>1. \A r \in manifest : r.key \in Keys \ torn
    BY <1>3, <1>4, <1>7 DEF SpeechInv, SpeechTypes, RowsHold, Rows
  <2> QED  BY <1>9, <1>11, <2>1 DEF SpeechInv, RowsHold, Readable
<1>16. PaidForWorth'
  <2> SUFFICES ASSUME NEW k \in Keys PROVE paid'[k] <= spoilt'[k] + Worth(k)'
    BY DEF PaidForWorth
  <2>1. paid[k] <= spoilt[k] + Worth(k) /\ paid[k] \in Nat /\ spoilt[k] \in Nat
    BY <1>10 DEF SpeechInv, PaidForWorth
  <2>2. Worth(k) \in {0, 1} /\ Worth(k)' \in {0, 1}
    BY DEF Worth
  <2>3. CASE k \in torn
    <3>1. Worth(k)' = 1
      BY <1>11, <2>3 DEF Worth, Readable
    <3>2. k \notin served /\ k \notin served \cup (writing \ torn)
      BY <1>5, <1>7, <1>8, <2>3
    <3> QED  BY <1>8, <2>1, <2>2, <3>1, <3>2
  <2>4. CASE k \in served \cup (writing \ torn)
    <3>1. spoilt'[k] = spoilt[k] + 1 /\ paid'[k] <= paid[k] + 1
      BY <1>8, <2>1, <2>4
    <3>2. CASE k \in served
      <4>1. Worth(k) = 0
        BY <1>3, <1>4, <1>5, <1>6, <1>8, <3>2 DEF Worth
      <4> QED  BY <1>12, <2>1, <2>2, <3>1, <4>1
    <3>3. CASE k \notin served
      <4>1. paid'[k] = paid[k]
        BY <1>8, <2>1, <3>3
      <4> QED  BY <2>1, <2>2, <3>1, <4>1
    <3> QED  BY <3>2, <3>3
  <2>5. CASE k \notin served \cup writing
    <3>1. ~Writing(k) /\ files'[k] = files[k]
      BY <1>6, <1>7, <1>11, <2>5
    <3>2. Worth(k)' = Worth(k)
      BY <1>9, <3>1, IdleFacts DEF Worth, Writing, Readable
    <3> QED  BY <1>8, <2>1, <2>2, <2>5, <3>2
  <2> QED  BY <2>3, <2>4, <2>5
<1> QED  BY <1>9, <1>13, <1>14, <1>15, <1>16, PassedStays DEF SpeechInv

-------------------------------------------------------------------------------
(* The gate passes what is whole; every planned text has its row.          *)
LEMMA PlannedFacts == SpeechTypes => \A t \in texts : <<voice, t>> \in Planned(0)
BY DEF Planned, SpeechTypes

LEMMA ValidateStep ==
  ASSUME SpeechInv, NEW piped \in BOOLEAN, Validate(piped)
  PROVE  SpeechInv'
<1>1. UNCHANGED <<texts, voice, files, manifest, tts, run, paid, spoilt>>
  BY DEF Validate
<1>2. AudioInput \in Inputs
  BY AudioFacts DEF SpeechInv
<1>3. audio' \in [passed : BOOLEAN, input : Inputs] /\ PassedWasWhole'
  <2>1. CASE GatePasses /\ audio' = [passed |-> TRUE, input |-> AudioInput]
    <3>1. audio' \in [passed : BOOLEAN, input : Inputs] /\ audio'.input = AudioInput
      BY <1>2, <2>1
    <3>2. /\ AudioInput.texts = texts /\ AudioInput.voice = voice /\ AudioInput.rows = manifest
      BY DEF AudioInput
    <3>3. \A t \in texts : \E r \in manifest :
            r.key = <<voice, t>> /\ r.digest.good /\ Readable(r.digest)
      BY <2>1, PlannedFacts DEF SpeechInv, GatePasses, InspectionPasses, Inspected, RowsOf
    <3> QED  BY <3>1, <3>2, <3>3 DEF PassedWasWhole, Readable
  <2>2. CASE audio' = [audio EXCEPT !.passed = FALSE]
    <3>1. audio' \in [passed : BOOLEAN, input : Inputs] /\ ~audio'.passed
      BY <2>2 DEF SpeechInv, SpeechTypes
    <3> QED  BY <3>1 DEF PassedWasWhole
  <2>3. CASE audio' = audio
    BY <2>3, PassedStays DEF SpeechInv, SpeechTypes
  <2> QED  BY <2>1, <2>2, <2>3 DEF Validate
<1>4. SpeechTypes'
  BY <1>1, <1>3 DEF SpeechInv, SpeechTypes
<1> QED  BY <1>1, <1>3, <1>4 DEF SpeechInv, RunIsOwed, RowsHold, PaidForWorth, Worth, Writing,
                                 Readable

LEMMA EditTextsStep ==
  ASSUME SpeechInv, EditTexts
  PROVE  SpeechInv'
<1>1. UNCHANGED <<files, manifest, tts, audio, run, paid, spoilt>>
  BY DEF EditTexts
<1>2. texts' \subseteq Texts /\ voice' \in Voices
  BY DEF EditTexts, SpeechInv, SpeechTypes
<1>3. SpeechTypes'
  BY <1>1, <1>2 DEF SpeechInv, SpeechTypes
<1> QED  BY <1>1, <1>3, PassedStays DEF SpeechInv, RunIsOwed, RowsHold, PaidForWorth, Worth,
                                        Writing, Readable

LEMMA SpeechInvariant == SpeechSpec => []SpeechInv
<1>1. ASSUME SpeechInv, [SpeechNext]_speechVars PROVE SpeechInv'
  <2>1. CASE UNCHANGED speechVars
    BY <1>1, <2>1 DEF speechVars, SpeechInv, SpeechTypes, RunIsOwed, RowsHold, PaidForWorth,
       PassedWasWhole, Worth, Writing, Readable
  <2> QED  BY <1>1, <2>1, ValidateStep, SynthesizeStep, AskStep, AnswerStep, TryAgainStep,
              GiveUpStep, WrittenStep, WriteManifestStep, RecordSynthesisStep,
              FailSynthesisStep, KillStep, EditTextsStep DEF SpeechNext
<1> QED  BY <1>1, InitiallySpoken, PTL DEF SpeechSpec

(* No text is paid for a second time once an answer has become a readable  *)
(* file (stage-registry.ts:1773-1806): for any number of texts, voices and *)
(* workers, of tries, kills and edits.                                     *)
THEOREM NothingIsPaidTwice == SpeechSpec => []PaidOnce
<1>1. SpeechInv => PaidOnce
  BY DEF SpeechInv, SpeechTypes, PaidForWorth, Worth, PaidOnce
<1> QED  BY <1>1, SpeechInvariant, PTL

(* What the ledger lets a release take as validated has, for every text of *)
(* the book under the config of the moment, a row whose file is the one    *)
(* inspected and found good (stage-registry.ts:1947-2045).                 *)
THEOREM WhatIsValidatedIsComplete == SpeechSpec => []ValidatedIsComplete
<1>1. SpeechInv => ValidatedIsComplete
  <2> SUFFICES ASSUME SpeechInv, audio.passed, audio.input = AudioInput, NEW t \in texts
               PROVE  \E r \in manifest : r.key = <<voice, t>> /\ Inspected(r)
    BY DEF ValidatedIsComplete
  <2>1. AudioInput.texts = texts /\ AudioInput.voice = voice /\ AudioInput.rows = manifest
    BY DEF AudioInput
  <2>2. \E r \in manifest : r.key = <<voice, t>> /\ r.digest.good /\ Readable(r.digest)
    BY <2>1 DEF SpeechInv, PassedWasWhole
  <2> QED  BY <2>2 DEF SpeechInv, RowsHold, Inspected
<1> QED  BY <1>1, SpeechInvariant, PTL

------------------------------------------------------------------------------
(***************************************************************************)
(* What the walk over the lines of a book (Segmentation) keeps on any      *)
(* book, also on one that no recogniser could read.                        *)
(***************************************************************************)
WalkFields == {"unit", "opened", "words", "attached", "word", "pending", "tail", "deferred",
               "broken"}
LineFields == {"kind", "word", "page", "line", "names", "ref"}

IsWalk(w) ==
  /\ DOMAIN w = WalkFields
  /\ \E X : w.opened \in Seq(X)
  /\ \E X : w.words \in Seq(X)
  /\ \E X : w.attached \in Seq(X)
  /\ w.word \in 0 .. Len(w.words)

(* A unit opens once, after the one that is open, and not below its number.*)
OpensOnce(w) ==
  /\ w.unit = IF w.opened = <<>> THEN NoUnit ELSE w.opened[Len(w.opened)]
  /\ \A i, j \in DOMAIN w.opened : w.opened[i] = w.opened[j] => i = j
  /\ \A i \in DOMAIN w.opened :
       i > 1 /\ w.opened[i - 1] # NoUnit /\ w.opened[i - 1][1] = w.opened[i][1] =>
         ~(w.opened[i][2] < w.opened[i - 1][2])

(* Words are of units that were opened; from the first of the open unit on *)
(* all are of it; and those of a unit that is left are together.           *)
WordsTogether(w) ==
  /\ \A i \in DOMAIN w.words : w.words[i].unit \in Opened(w) \cup {NoUnit}
  /\ \A i, j \in DOMAIN w.words :
       i <= j /\ w.words[i].unit = w.unit /\ w.unit # NoUnit => w.words[j].unit = w.unit
  /\ \A i, j, k \in DOMAIN w.words :
       i <= j /\ j <= k /\ w.words[i].unit = w.words[k].unit /\ w.words[i].unit # NoUnit =>
         w.words[j].unit = w.words[i].unit

(* A line is of a word that was printed before it.                         *)
LinesHaveWords(w, at) ==
  /\ \A i \in DOMAIN w.words : w.words[i].page \in Nat /\ w.words[i].page <= at
  /\ \A i \in DOMAIN w.attached : /\ DOMAIN w.attached[i] = LineFields
                                  /\ w.attached[i].word \in DOMAIN w.words
                                  /\ w.attached[i].page \in Nat /\ w.attached[i].page <= at
                                  /\ w.words[w.attached[i].word].page <= w.attached[i].page

Sound(w, at) == IsWalk(w) /\ OpensOnce(w) /\ WordsTogether(w) /\ LinesHaveWords(w, at)

(* What was read stays, and a new line is of the unit of the open word.    *)
Grown(w, v) ==
  /\ \A i \in DOMAIN w.words : i \in DOMAIN v.words /\ v.words[i] = w.words[i]
  /\ \A i \in DOMAIN w.attached : i \in DOMAIN v.attached /\ v.attached[i] = w.attached[i]
  /\ \A i \in DOMAIN v.attached \ DOMAIN w.attached :
       /\ w.word # 0
       /\ v.words[v.attached[i].word].unit = w.words[w.word].unit

SegInv ==
  /\ page \in Nat \ {0}
  /\ Sound(walk, page)
  /\ outcome \in {"reading", "failed", "emitted"}
  /\ outcome = "emitted" => \A i \in DOMAIN walk.words : walk.words[i].unit # NoUnit

(* A set of indices has a greatest element.                               *)
LEMMA GreatestIn ==
  ASSUME NEW n \in Nat, NEW T \in SUBSET (0 .. n), T # {}
  PROVE  \E x \in T : \A y \in T : y <= x
<1> DEFINE D == {i \in Nat : \E x \in T : i = n - x}
<1>1. D \in SUBSET Nat /\ D # {}
  <2>1. PICK x \in T : TRUE
    OBVIOUS
  <2>2. n - x \in D
    OBVIOUS
  <2> QED BY <2>2
<1>2. PICK d \in D : \A e \in D : d <= e
  BY <1>1, LeastOf
<1>3. PICK x \in T : d = n - x
  BY <1>2
<1>4. ASSUME NEW y \in T PROVE y <= x
  <2>1. n - y \in D
    OBVIOUS
  <2> QED BY <1>2, <1>3, <2>1
<1> QED BY <1>4

(* Steps of the walk that leave units, words and lines alone.              *)
LEMMA SameLines ==
  ASSUME NEW w, NEW v, NEW at, Sound(w, at), DOMAIN v = WalkFields,
         v.unit = w.unit, v.opened = w.opened, v.words = w.words, v.attached = w.attached,
         v.word \in {0, w.word}
  PROVE  Sound(v, at) /\ Grown(w, v)
<1>1. IsWalk(v)
  BY LenProperties DEF Sound, IsWalk
<1>2. OpensOnce(v)
  BY DEF Sound, OpensOnce
<1>3. WordsTogether(v)
  BY DEF Sound, WordsTogether, Opened
<1>4. LinesHaveWords(v, at)
  BY DEF Sound, LinesHaveWords
<1> QED BY <1>1, <1>2, <1>3, <1>4 DEF Sound, Grown

(* A unit that opens has no words yet, and those of the unit before stay  *)
(* together.                                                              *)
LEMMA OpenedUnit ==
  ASSUME NEW w, NEW v, NEW at, NEW u, Sound(w, at), DOMAIN v = WalkFields, u \notin Opened(w),
         ~(w.unit[1] = u[1] /\ u[2] < w.unit[2] /\ w.unit # NoUnit),
         v.unit = u, v.opened = Append(w.opened, u), v.words = w.words,
         v.attached = w.attached, v.word \in {0, w.word}
  PROVE  Sound(v, at) /\ Grown(w, v)
<1>1. PICK X : w.opened \in Seq(X)
  BY DEF Sound, IsWalk
<1>2. w.opened \in Seq(X \cup {u}) /\ u \in X \cup {u}
  BY <1>1, SeqMonotonic
<1> DEFINE n == Len(w.opened)
<1>3. /\ n \in Nat /\ DOMAIN w.opened = 1 .. n
      /\ v.opened \in Seq(X \cup {u}) /\ Len(v.opened) = n + 1 /\ DOMAIN v.opened = 1 .. n + 1
      /\ \A i \in 1 .. n : v.opened[i] = w.opened[i]
      /\ v.opened[n + 1] = u
  BY <1>2, AppendProperties, LenProperties
<1>4. IsWalk(v)
  BY <1>3, LenProperties DEF Sound, IsWalk
<1>5. OpensOnce(v)
  <2>1. v.opened # <<>> /\ v.unit = v.opened[Len(v.opened)]
    BY <1>3
  <2>2. \A i \in 1 .. n : w.opened[i] # u
    BY <1>3 DEF Opened
  <2>3. \A i, j \in DOMAIN v.opened : v.opened[i] = v.opened[j] => i = j
    BY <1>3, <2>2 DEF Sound, OpensOnce
  <2>4. ASSUME NEW i \in DOMAIN v.opened,
               i > 1 /\ v.opened[i - 1] # NoUnit /\ v.opened[i - 1][1] = v.opened[i][1]
        PROVE  ~(v.opened[i][2] < v.opened[i - 1][2])
    <3>1. CASE i \in 1 .. n
      <4>1. i - 1 \in 1 .. n
        BY <2>4, <1>3, <3>1
      <4> QED BY <1>3, <2>4, <3>1, <4>1 DEF Sound, OpensOnce
    <3>2. CASE i = n + 1
      <4>1. n >= 1 /\ i - 1 = n /\ w.opened # <<>>
        BY <1>3, <2>4, <3>2
      <4>2. v.opened[i - 1] = w.unit /\ v.opened[i] = u
        BY <1>3, <3>2, <4>1 DEF Sound, OpensOnce
      <4> QED BY <2>4, <4>2
    <3> QED BY <1>3, <2>4, <3>1, <3>2
  <2> QED BY <2>1, <2>3, <2>4 DEF OpensOnce
<1>6. Opened(v) = Opened(w) \cup {u}
  BY <1>3 DEF Opened
<1>7. \A i \in DOMAIN w.words : w.words[i].unit = u => u = NoUnit
  BY DEF Sound, WordsTogether
<1>8. WordsTogether(v)
  BY <1>6, <1>7 DEF Sound, WordsTogether
<1>9. LinesHaveWords(v, at)
  BY DEF Sound, LinesHaveWords
<1> QED BY <1>4, <1>5, <1>8, <1>9 DEF Sound, Grown

(* startUnit: the unit is open, or opens, or the stage stops.             *)
LEMMA StartUnitStep ==
  ASSUME NEW w, NEW at, NEW u, NEW reset, Sound(w, at)
  PROVE  Sound(StartUnit(w, u, reset), at) /\ Grown(w, StartUnit(w, u, reset))
<1> DEFINE closed == IF reset THEN CloseWord(w) ELSE w
           v == StartUnit(w, u, reset)
<1>0. DOMAIN w = WalkFields
  BY DEF Sound, IsWalk
<1>1. /\ DOMAIN closed = WalkFields /\ closed.unit = w.unit /\ closed.opened = w.opened
      /\ closed.words = w.words /\ closed.attached = w.attached /\ closed.word \in {0, w.word}
  BY <1>0 DEF CloseWord, WalkFields
<1> HIDE DEF closed
<1>2. CASE u \in Opened(w)
  <2>1. v = [w EXCEPT !.broken = w.unit # u]
    BY <1>2 DEF StartUnit
  <2>2. /\ DOMAIN v = WalkFields /\ v.unit = w.unit /\ v.opened = w.opened
        /\ v.words = w.words /\ v.attached = w.attached /\ v.word = w.word
    BY <1>0, <2>1 DEF WalkFields
  <2> QED BY <2>2, SameLines
<1>3. CASE u \notin Opened(w) /\ w.unit[1] = u[1] /\ u[2] < w.unit[2] /\ w.unit # NoUnit
  <2>1. v = [closed EXCEPT !.broken = TRUE]
    BY <1>3 DEF StartUnit, closed
  <2>2. /\ DOMAIN v = WalkFields /\ v.unit = w.unit /\ v.opened = w.opened
        /\ v.words = w.words /\ v.attached = w.attached /\ v.word \in {0, w.word}
    BY <1>1, <2>1 DEF WalkFields
  <2> QED BY <2>2, SameLines
<1>4. CASE u \notin Opened(w) /\ ~(w.unit[1] = u[1] /\ u[2] < w.unit[2] /\ w.unit # NoUnit)
  <2>1. v = [closed EXCEPT !.unit = u, !.opened = Append(@, u)]
    BY <1>4 DEF StartUnit, closed
  <2>2. /\ DOMAIN v = WalkFields /\ v.unit = u /\ v.opened = Append(w.opened, u)
        /\ v.words = w.words /\ v.attached = w.attached /\ v.word \in {0, w.word}
    BY <1>1, <2>1 DEF WalkFields
  <2> QED BY <1>4, <2>2, OpenedUnit
<1> QED BY <1>2, <1>3, <1>4

(* startWord: the word is of the open unit and comes last.                *)
LEMMA HeadStep ==
  ASSUME NEW w, NEW l, Sound(w, page), page \in Nat
  PROVE  Sound(ReadHead(w, l), page) /\ Grown(w, ReadHead(w, l))
<1> DEFINE word == [unit |-> w.unit, page |-> page, name |-> l.names]
           v == ReadHead(w, l)
           n == Len(w.words)
<1>0. DOMAIN w = WalkFields
  BY DEF Sound, IsWalk
<1>1. PICK X : w.words \in Seq(X)
  BY DEF Sound, IsWalk
<1>2. w.words \in Seq(X \cup {word}) /\ word \in X \cup {word}
  BY <1>1, SeqMonotonic
<1>3. /\ DOMAIN v = WalkFields /\ v.unit = w.unit /\ v.opened = w.opened
      /\ v.words = Append(w.words, word) /\ v.attached = w.attached /\ v.word = n + 1
  BY <1>0 DEF ReadHead, WalkFields
<1>4. word.unit = w.unit /\ word.page = page
  OBVIOUS
<1> HIDE DEF word, v
<1>5. /\ n \in Nat /\ DOMAIN w.words = 1 .. n
      /\ v.words \in Seq(X \cup {word}) /\ Len(v.words) = n + 1 /\ DOMAIN v.words = 1 .. n + 1
      /\ \A i \in 1 .. n : v.words[i] = w.words[i]
      /\ v.words[n + 1] = word
  BY <1>2, <1>3, AppendProperties, LenProperties
<1>6. IsWalk(v)
  BY <1>3, <1>5 DEF Sound, IsWalk
<1>7. OpensOnce(v)
  BY <1>3 DEF Sound, OpensOnce
<1>8. WordsTogether(v)
  <2>1. v.unit \in Opened(v) \cup {NoUnit}
    <3>1. CASE w.opened = <<>>
      BY <1>3, <3>1 DEF Sound, OpensOnce
    <3>2. CASE w.opened # <<>>
      <4>1. PICK Y : w.opened \in Seq(Y)
        BY DEF Sound, IsWalk
      <4>2. Len(w.opened) \in DOMAIN w.opened
        BY <3>2, <4>1, EmptySeq, LenProperties
      <4> QED BY <1>3, <3>2, <4>2 DEF Sound, OpensOnce, Opened
    <3> QED BY <3>1, <3>2
  <2>2. \A i \in DOMAIN v.words : v.words[i].unit \in Opened(v) \cup {NoUnit}
    BY <1>3, <1>4, <1>5, <2>1 DEF Sound, WordsTogether, Opened
  <2>3. \A i, j \in DOMAIN v.words :
          i <= j /\ v.words[i].unit = v.unit /\ v.unit # NoUnit => v.words[j].unit = v.unit
    BY <1>3, <1>4, <1>5 DEF Sound, WordsTogether
  <2>4. ASSUME NEW i \in DOMAIN v.words, NEW j \in DOMAIN v.words, NEW k \in DOMAIN v.words,
               i <= j /\ j <= k /\ v.words[i].unit = v.words[k].unit /\ v.words[i].unit # NoUnit
        PROVE  v.words[j].unit = v.words[i].unit
    <3>1. CASE k = n + 1
      BY <1>3, <1>4, <1>5, <2>3, <2>4, <3>1
    <3>2. CASE k \in 1 .. n
      <4>1. i \in 1 .. n /\ j \in 1 .. n
        BY <1>5, <2>4, <3>2
      <4> QED BY <1>5, <2>4, <3>2, <4>1 DEF Sound, WordsTogether
    <3> QED BY <1>5, <2>4, <3>1, <3>2
  <2> QED BY <2>2, <2>3, <2>4 DEF WordsTogether
<1>9. LinesHaveWords(v, page)
  BY <1>3, <1>4, <1>5 DEF Sound, LinesHaveWords
<1>10. Grown(w, v)
  BY <1>3, <1>5 DEF Grown
<1> QED BY <1>6, <1>7, <1>8, <1>9, <1>10 DEF Sound, v

(* A line is attached to the open word, or to another of its unit.        *)
LEMMA AttachStep ==
  ASSUME NEW w, NEW kind, NEW owner \in DOMAIN w.words, NEW ref, Sound(w, page), page \in Nat,
         w.word # 0, w.words[owner].unit = w.words[w.word].unit
  PROVE  Sound(Attach(w, kind, owner, ref), page) /\ Grown(w, Attach(w, kind, owner, ref))
<1> DEFINE e == [kind |-> kind, word |-> owner, page |-> page, line |-> line,
                 names |-> pages[page][line].names, ref |-> ref]
           v == Attach(w, kind, owner, ref)
           n == Len(w.attached)
<1>0. DOMAIN w = WalkFields
  BY DEF Sound, IsWalk
<1>1. PICK X : w.attached \in Seq(X)
  BY DEF Sound, IsWalk
<1>2. w.attached \in Seq(X \cup {e}) /\ e \in X \cup {e}
  BY <1>1, SeqMonotonic
<1>3. /\ DOMAIN v = WalkFields /\ v.unit = w.unit /\ v.opened = w.opened
      /\ v.words = w.words /\ v.attached = Append(w.attached, e) /\ v.word = w.word
  BY <1>0 DEF Attach, WalkFields
<1>4. e.word = owner /\ e.page = page /\ DOMAIN e = LineFields
  BY DEF LineFields
<1> HIDE DEF e, v
<1>5. /\ n \in Nat /\ DOMAIN w.attached = 1 .. n
      /\ v.attached \in Seq(X \cup {e}) /\ DOMAIN v.attached = 1 .. n + 1
      /\ \A i \in 1 .. n : v.attached[i] = w.attached[i]
      /\ v.attached[n + 1] = e
  BY <1>2, <1>3, AppendProperties, LenProperties
<1>6. IsWalk(v)
  BY <1>3, <1>5 DEF Sound, IsWalk
<1>7. OpensOnce(v) /\ WordsTogether(v)
  BY <1>3 DEF Sound, OpensOnce, WordsTogether, Opened
<1>8. LinesHaveWords(v, page)
  BY <1>3, <1>4, <1>5 DEF Sound, LinesHaveWords
<1>9. Grown(w, v)
  BY <1>3, <1>4, <1>5 DEF Grown
<1> QED BY <1>6, <1>7, <1>8, <1>9 DEF Sound, v

(* addSense and addPhrase attach to the open word.                        *)
LEMMA SenseStep ==
  ASSUME NEW w, Sound(w, page), page \in Nat
  PROVE  Sound(ReadSense(w), page) /\ Grown(w, ReadSense(w))
<1>1. CASE w.word = 0
  <2>1. ReadSense(w) = w
    BY <1>1 DEF ReadSense
  <2> QED BY <2>1 DEF Grown
<1>2. CASE w.word # 0
  <2>1. w.word \in DOMAIN w.words
    BY <1>2, LenProperties DEF Sound, IsWalk
  <2>2. ReadSense(w) = Attach(w, "sense", w.word, 0)
    BY <1>2 DEF ReadSense
  <2> QED BY <1>2, <2>1, <2>2, AttachStep
<1> QED BY <1>1, <1>2

LEMMA PhraseStep ==
  ASSUME NEW w, NEW l, Sound(w, page), page \in Nat
  PROVE  Sound(ReadPhrase(w, l), page) /\ Grown(w, ReadPhrase(w, l))
<1>1. CASE w.word = 0 \/ w.words[w.word].name # l.names
  <2>1. ReadPhrase(w, l) = w
    BY <1>1 DEF ReadPhrase
  <2> QED BY <2>1 DEF Grown
<1>2. CASE ~(w.word = 0 \/ w.words[w.word].name # l.names)
  <2>1. w.word \in DOMAIN w.words
    BY <1>2, LenProperties DEF Sound, IsWalk
  <2>2. ReadPhrase(w, l) = Attach(w, "phrase", w.word, 0)
    BY <1>2 DEF ReadPhrase
  <2> QED BY <1>2, <2>1, <2>2, AttachStep
<1> QED BY <1>1, <1>2

(* addExample: the latest word that the sentence names is of the unit of  *)
(* the open word.                                                         *)
LEMMA ExampleStep ==
  ASSUME NEW w, NEW l, Sound(w, page), page \in Nat
  PROVE  Sound(ReadExample(w, l), page) /\ Grown(w, ReadExample(w, l))
<1> DEFINE named == Named(w, l.names)
           owner == IF named = {} THEN w.word ELSE CHOOSE i \in named : \A j \in named : j <= i
           a == Attach(w, "exam", owner, w.pending)
           v == ReadExample(w, l)
<1>1. CASE w.word = 0
  <2>1. v = w
    BY <1>1 DEF ReadExample
  <2> QED BY <2>1 DEF Grown
<1>2. CASE w.word # 0
  <2>1. w.word \in DOMAIN w.words
    BY <1>2, LenProperties DEF Sound, IsWalk
  <2>2. owner \in DOMAIN w.words /\ w.words[owner].unit = w.words[w.word].unit
    <3>1. CASE named = {}
      BY <2>1, <3>1
    <3>2. CASE named # {}
      <4>1. PICK n \in Nat : DOMAIN w.words = 1 .. n
        BY LenProperties DEF Sound, IsWalk
      <4>2. named \in SUBSET (0 .. n)
        BY <4>1 DEF Named
      <4>3. \E i \in named : \A j \in named : j <= i
        BY <3>2, <4>2, GreatestIn
      <4>4. owner \in named
        BY <3>2, <4>3
      <4> QED BY <4>4 DEF Named
    <3> QED BY <3>1, <3>2
  <2>3. v = [a EXCEPT !.pending = 0]
    BY <1>2 DEF ReadExample
  <2> HIDE DEF owner, a, v
  <2>4. Sound(a, page) /\ Grown(w, a)
    BY <1>2, <2>2, AttachStep DEF a
  <2>5. DOMAIN a = WalkFields
    BY <2>4 DEF Sound, IsWalk
  <2>6. /\ DOMAIN v = WalkFields /\ v.unit = a.unit /\ v.opened = a.opened
        /\ v.words = a.words /\ v.attached = a.attached /\ v.word = a.word
    BY <2>3, <2>5 DEF WalkFields
  <2>7. Sound(v, page)
    BY <2>4, <2>6, SameLines
  <2>8. Grown(w, v)
    BY <2>4, <2>6 DEF Grown
  <2> QED BY <2>7, <2>8 DEF v
<1> QED BY <1>1, <1>2

(* An inner banner may open its unit.                                     *)
LEMMA BannerStep ==
  ASSUME NEW w, NEW l, Sound(w, page)
  PROVE  Sound(ReadBanner(w, l), page) /\ Grown(w, ReadBanner(w, l))
<1>1. ReadBanner(w, l) \in {w, StartUnit(w, <<units.of[page].chapter, l.number>>, FALSE)}
  BY DEF ReadBanner
<1>2. Grown(w, w)
  BY DEF Grown
<1> QED BY <1>1, <1>2, StartUnitStep

(* Below its banner a page lets go of the word of the page before.        *)
LEMMA DeferredStep ==
  ASSUME NEW w, Sound(w, page)
  PROVE  /\ Sound(Deferred(w), page)
         /\ Deferred(w).words = w.words /\ Deferred(w).attached = w.attached
         /\ Deferred(w).word \in {0, w.word}
<1>1. CASE Deferred(w) = w
  BY <1>1
<1>2. CASE Deferred(w) = [w EXCEPT !.word = 0, !.pending = 0, !.deferred = FALSE]
  <2> DEFINE v == Deferred(w)
  <2>1. /\ DOMAIN v = WalkFields /\ v.unit = w.unit /\ v.opened = w.opened
        /\ v.words = w.words /\ v.attached = w.attached /\ v.word = 0
    BY <1>2 DEF Sound, IsWalk, WalkFields
  <2> HIDE DEF v
  <2>2. Sound(v, page)
    BY <2>1, SameLines
  <2> QED BY <2>1, <2>2 DEF v
<1> QED BY <1>1, <1>2 DEF Deferred

(* Reading a line on from a walk that differs from w in its tail and       *)
(* pending reference.                                                      *)
LEMMA ReadOn ==
  ASSUME NEW w, NEW r, NEW v, Sound(w, page), DOMAIN r = WalkFields,
         r.unit = w.unit, r.opened = w.opened, r.words = w.words, r.attached = w.attached,
         r.word = w.word, Sound(r, page) => Sound(v, page) /\ Grown(r, v)
  PROVE  Sound(v, page) /\ Grown(w, v)
<1>1. Sound(r, page)
  BY SameLines
<1> QED BY <1>1 DEF Grown

(* The branches of the loop over the lines.                               *)
LEMMA BlockStep ==
  ASSUME NEW w, NEW l, Sound(w, page), page \in Nat
  PROVE  Sound(ReadBlock(w, l), page) /\ Grown(w, ReadBlock(w, l))
<1> DEFINE v == ReadBlock(w, l)
           r == [w EXCEPT !.tail = "none"]
           q == [r EXCEPT !.pending = l.number]
           Good(x) == Sound(x, page) /\ Grown(w, x)
<1>0. DOMAIN w = WalkFields
  BY DEF Sound, IsWalk
<1>1. Good(w)
  BY DEF Grown
<1>2. ASSUME NEW x, DOMAIN x = WalkFields, x.unit = w.unit, x.opened = w.opened,
             x.words = w.words, x.attached = w.attached, x.word = w.word
      PROVE  Good(x)
  BY <1>2, SameLines
<1>3. /\ DOMAIN r = WalkFields /\ r.unit = w.unit /\ r.opened = w.opened
      /\ r.words = w.words /\ r.attached = w.attached /\ r.word = w.word
  BY <1>0 DEF WalkFields
<1>4. /\ DOMAIN q = WalkFields /\ q.unit = w.unit /\ q.opened = w.opened
      /\ q.words = w.words /\ q.attached = w.attached /\ q.word = w.word
  BY <1>3 DEF WalkFields
<1> HIDE DEF q, r
<1>5. Good(r) /\ Good(q)
  BY <1>2, <1>3, <1>4
<1>6. Good(ReadExample(r, l)) /\ Good(ReadPhrase(r, l)) /\ Good(ReadSense(r)) /\ Good(ReadSense(q))
  <2>1. Good(ReadExample(r, l))
    BY <1>3, ExampleStep, ReadOn
  <2>2. Good(ReadPhrase(r, l))
    BY <1>3, PhraseStep, ReadOn
  <2>3. Good(ReadSense(r))
    BY <1>3, SenseStep, ReadOn
  <2>4. Good(ReadSense(q))
    BY <1>4, SenseStep, ReadOn
  <2> QED BY <2>1, <2>2, <2>3, <2>4
<1>7. Good([w EXCEPT !.tail = "some"]) /\ Good([w EXCEPT !.tail = "all"])
  <2> DEFINE s == [w EXCEPT !.tail = "some"]
             a == [w EXCEPT !.tail = "all"]
  <2>1. /\ DOMAIN s = WalkFields /\ s.unit = w.unit /\ s.opened = w.opened
        /\ s.words = w.words /\ s.attached = w.attached /\ s.word = w.word
    BY <1>0 DEF WalkFields
  <2>2. /\ DOMAIN a = WalkFields /\ a.unit = w.unit /\ a.opened = w.opened
        /\ a.words = w.words /\ a.attached = w.attached /\ a.word = w.word
    BY <1>0 DEF WalkFields
  <2> HIDE DEF s, a
  <2>3. Good(s) /\ Good(a)
    BY <1>2, <2>1, <2>2
  <2> QED BY <2>3 DEF s, a
<1>8. Good(ReadHead(w, l)) /\ Good(ReadBanner(w, l))
  BY HeadStep, BannerStep
<1>9. v \in {w, r, q, ReadExample(r, l), ReadPhrase(r, l), ReadSense(r), ReadSense(q),
             [w EXCEPT !.tail = "some"], [w EXCEPT !.tail = "all"], ReadHead(w, l),
             ReadBanner(w, l)}
  BY Zenon DEF ReadBlock, r, q
<1> HIDE DEF v, Good
<1>10. Good(v)
  BY <1>1, <1>5, <1>6, <1>7, <1>8, <1>9
<1> QED BY <1>10 DEF Good, v

(* Before the first page nothing is open.                                 *)
LEMMA InitSound ==
  ASSUME NEW book, Start(book)
  PROVE  SegInv
<1> DEFINE w == [unit |-> NoUnit, opened |-> <<>>, words |-> <<>>, attached |-> <<>>,
                 word |-> 0, pending |-> 0, tail |-> "none", deferred |-> FALSE,
                 broken |-> FALSE]
<1>1. walk = w /\ page = 1 /\ outcome \in {"reading", "failed"} /\ outcome # "emitted"
  BY DEF Start
<1>2. /\ DOMAIN w = WalkFields /\ w.unit = NoUnit /\ w.opened = <<>> /\ w.words = <<>>
      /\ w.attached = <<>> /\ w.word = 0
  BY DEF WalkFields
<1> HIDE DEF w
<1>3. <<>> \in Seq({}) /\ DOMAIN <<>> = {} /\ Len(<<>>) = 0
  OBVIOUS
<1>4. IsWalk(w)
  BY <1>2, <1>3 DEF IsWalk
<1>5. OpensOnce(w) /\ WordsTogether(w) /\ LinesHaveWords(w, 1)
  BY <1>2, <1>3 DEF OpensOnce, WordsTogether, LinesHaveWords
<1> QED BY <1>1, <1>4, <1>5 DEF SegInv, Sound

LEMMA SoundLater ==
  ASSUME NEW w, NEW at \in Nat, Sound(w, at)
  PROVE  Sound(w, at + 1)
BY DEF Sound, LinesHaveWords

(* The top of a page, a line, and what follows the last page.             *)
LEMMA OpenPageStep ==
  ASSUME SegInv, OpenPage
  PROVE  SegInv' /\ Grown(walk, walk')
<1> DEFINE a == units.of[page]
           u == <<a.chapter, Resolved(walk, a)>>
           s == StartUnit(walk, u, a.kind # "banner")
<1>0. DOMAIN walk = WalkFields /\ Sound(walk, page) /\ page \in Nat \ {0}
  BY DEF SegInv, Sound, IsWalk
<1>1. CASE page' = page + 1 /\ walk' = walk
  <2>1. Sound(walk', page')
    BY <1>0, <1>1, SoundLater
  <2>2. Grown(walk, walk')
    BY <1>1 DEF Grown
  <2> QED BY <1>0, <1>1, <2>1, <2>2 DEF SegInv, OpenPage
<1>2. CASE page' = page /\ walk' = [walk EXCEPT !.deferred = FALSE]
  <2>1. /\ DOMAIN walk' = WalkFields /\ walk'.unit = walk.unit /\ walk'.opened = walk.opened
        /\ walk'.words = walk.words /\ walk'.attached = walk.attached /\ walk'.word = walk.word
    BY <1>0, <1>2 DEF WalkFields
  <2>2. Sound(walk', page) /\ Grown(walk, walk')
    BY <1>0, <2>1, SameLines
  <2> QED BY <1>0, <1>2, <2>2 DEF SegInv, OpenPage
<1>3. CASE /\ page' = page
           /\ walk' = [s EXCEPT !.deferred = a.kind = "banner" /\ walk.unit # NoUnit]
  <2>1. Sound(s, page) /\ Grown(walk, s)
    BY <1>0, StartUnitStep
  <2> HIDE DEF s
  <2>2. DOMAIN s = WalkFields
    BY <2>1 DEF Sound, IsWalk
  <2>3. /\ DOMAIN walk' = WalkFields /\ walk'.unit = s.unit /\ walk'.opened = s.opened
        /\ walk'.words = s.words /\ walk'.attached = s.attached /\ walk'.word = s.word
    BY <1>3, <2>2 DEF WalkFields
  <2>4. Sound(walk', page)
    BY <2>1, <2>3, SameLines
  <2>5. Grown(walk, walk')
    BY <2>1, <2>3 DEF Grown
  <2> QED BY <1>0, <1>3, <2>4, <2>5 DEF SegInv, OpenPage
<1> QED BY <1>1, <1>2, <1>3 DEF OpenPage

LEMMA ReadLineStep ==
  ASSUME SegInv, ReadLine
  PROVE  SegInv' /\ Grown(walk, walk')
<1> DEFINE d == Deferred(walk)
           v == ReadBlock(d, pages[page][line])
<1>0. Sound(walk, page) /\ page \in Nat \ {0} /\ page' \in {page, page + 1}
  BY DEF SegInv, ReadLine
<1>1. Sound(walk', page) /\ Grown(walk, walk')
  <2>1. CASE walk' = walk
    BY <1>0, <2>1 DEF Grown
  <2>2. CASE walk' = v
    <3>1. /\ Sound(d, page) /\ d.words = walk.words /\ d.attached = walk.attached
          /\ d.word \in {0, walk.word}
      BY <1>0, DeferredStep
    <3> HIDE DEF d
    <3>2. Sound(v, page) /\ Grown(d, v)
      BY <1>0, <3>1, BlockStep
    <3> HIDE DEF v
    <3>3. Grown(walk, v)
      BY <3>1, <3>2 DEF Grown
    <3> QED BY <2>2, <3>2, <3>3
  <2> QED BY <2>1, <2>2 DEF ReadLine
<1>2. Sound(walk', page')
  BY <1>0, <1>1, SoundLater
<1> QED BY <1>0, <1>1, <1>2 DEF SegInv, ReadLine

(* A word that an example moves to is of the unit and the page that it     *)
(* leaves.                                                                 *)
LEMMA ReassignedLine ==
  ASSUME NEW e, Sound(walk, page), DOMAIN e = LineFields, e.word \in DOMAIN walk.words,
         e.page \in Nat, walk.words[e.word].page <= e.page
  PROVE  LET f == Reassigned(e) IN
         /\ DOMAIN f = LineFields /\ f.page = e.page
         /\ f.word \in DOMAIN walk.words
         /\ walk.words[f.word].unit = walk.words[e.word].unit
         /\ walk.words[f.word].page <= f.page
<1> DEFINE dist(i) == IF i < e.word THEN e.word - i ELSE i - e.word
           near == {i \in Candidates(e) : \A j \in Candidates(e) : dist(i) <= dist(j)}
           least == CHOOSE i \in near : \A j \in near : i <= j
           f == Reassigned(e)
<1>1. near \in SUBSET Candidates(e)
  OBVIOUS
<1>2. f = IF e.kind # "exam" \/ near = {} THEN e ELSE [e EXCEPT !.word = least]
  BY DEF Reassigned
<1>3. Candidates(e) \in SUBSET Nat
  BY LenProperties DEF Candidates, Sound, IsWalk
<1>4. near # {} => least \in near
  <2> HIDE DEF near
  <2> QED BY <1>1, <1>3, LeastOf
<1>5. CASE f = e
  BY <1>5
<1>6. CASE near # {} /\ f = [e EXCEPT !.word = least]
  <2>1. least \in Candidates(e)
    BY <1>1, <1>4, <1>6
  <2> HIDE DEF least, near
  <2>2. DOMAIN f = LineFields /\ f.page = e.page /\ f.word = least
    BY <1>6 DEF LineFields
  <2> HIDE DEF f
  <2>3. /\ least \in DOMAIN walk.words /\ walk.words[least].page = e.page
        /\ walk.words[least].unit = walk.words[e.word].unit
    BY <2>1 DEF Candidates
  <2>4. walk.words[f.word].page <= f.page
    BY <2>2, <2>3
  <2>5. f = Reassigned(e)
    BY DEF f
  <2> QED BY <2>2, <2>3, <2>4, <2>5
<1> HIDE DEF least, near, f
<1>7. f = e \/ (near # {} /\ f = [e EXCEPT !.word = least])
  BY <1>2
<1>8. f = Reassigned(e)
  BY DEF f
<1> QED BY <1>5, <1>6, <1>7

UnitOfLine(w, i) == w.words[w.attached[i].word].unit

LEMMA EmitStep ==
  ASSUME SegInv, Emit
  PROVE  /\ SegInv'
         /\ walk'.words = walk.words
         /\ DOMAIN walk'.attached = DOMAIN walk.attached
         /\ \A i \in DOMAIN walk.attached : UnitOfLine(walk, i)' = UnitOfLine(walk, i)
<1> DEFINE A == [i \in DOMAIN walk.attached |-> Reassigned(walk.attached[i])]
<1>0. DOMAIN walk = WalkFields /\ Sound(walk, page) /\ page \in Nat \ {0}
  BY DEF SegInv, Sound, IsWalk
<1>1. walk' = [walk EXCEPT !.attached = A]
  BY DEF Emit
<1>2. DOMAIN A = DOMAIN walk.attached /\ \A i \in DOMAIN A : A[i] = Reassigned(walk.attached[i])
  OBVIOUS
<1>3. A \in Seq({A[i] : i \in DOMAIN A})
  <2>1. PICK n \in Nat : DOMAIN walk.attached = 1 .. n
    BY <1>0, LenProperties DEF Sound, IsWalk
  <2>2. A \in [1 .. n -> {A[i] : i \in DOMAIN A}]
    BY <2>1
  <2> QED BY <2>2, SeqDef
<1> HIDE DEF A
<1>4. /\ DOMAIN walk' = WalkFields /\ walk'.unit = walk.unit /\ walk'.opened = walk.opened
      /\ walk'.words = walk.words /\ walk'.attached = A /\ walk'.word = walk.word
  BY <1>0, <1>1 DEF WalkFields
<1>5. \A i \in DOMAIN A :
        /\ DOMAIN A[i] = LineFields /\ A[i].page = walk.attached[i].page
        /\ A[i].word \in DOMAIN walk.words
        /\ walk.words[A[i].word].unit = UnitOfLine(walk, i)
        /\ walk.words[A[i].word].page <= A[i].page
  <2> SUFFICES ASSUME NEW i \in DOMAIN A
               PROVE  /\ DOMAIN A[i] = LineFields /\ A[i].page = walk.attached[i].page
                      /\ A[i].word \in DOMAIN walk.words
                      /\ walk.words[A[i].word].unit = UnitOfLine(walk, i)
                      /\ walk.words[A[i].word].page <= A[i].page
    OBVIOUS
  <2> DEFINE e == walk.attached[i]
  <2>1. /\ DOMAIN e = LineFields /\ e.word \in DOMAIN walk.words
        /\ e.page \in Nat /\ walk.words[e.word].page <= e.page
    BY <1>0, <1>2 DEF Sound, LinesHaveWords
  <2>2. A[i] = Reassigned(e)
    BY <1>2
  <2>3. UnitOfLine(walk, i) = walk.words[e.word].unit
    BY DEF UnitOfLine
  <2>4. e.page = walk.attached[i].page
    OBVIOUS
  <2> HIDE DEF e
  <2>5. /\ DOMAIN Reassigned(e) = LineFields /\ Reassigned(e).page = e.page
        /\ Reassigned(e).word \in DOMAIN walk.words
        /\ walk.words[Reassigned(e).word].unit = walk.words[e.word].unit
        /\ walk.words[Reassigned(e).word].page <= Reassigned(e).page
    BY <1>0, <2>1, ReassignedLine
  <2> QED BY <2>2, <2>3, <2>4, <2>5
<1>6. IsWalk(walk')
  BY <1>0, <1>3, <1>4 DEF Sound, IsWalk
<1>7. OpensOnce(walk') /\ WordsTogether(walk')
  BY <1>0, <1>4 DEF Sound, OpensOnce, WordsTogether, Opened
<1>8. LinesHaveWords(walk', page)
  BY <1>0, <1>2, <1>4, <1>5 DEF Sound, LinesHaveWords
<1>9. /\ page' = page
      /\ outcome' = IF \E i \in DOMAIN walk.words : walk.words[i].unit = NoUnit THEN "failed"
                    ELSE "emitted"
  BY DEF Emit
<1>10. SegInv'
  BY <1>0, <1>4, <1>6, <1>7, <1>8, <1>9 DEF SegInv, Sound
<1>11. \A i \in DOMAIN walk.attached : UnitOfLine(walk, i)' = UnitOfLine(walk, i)
  BY <1>2, <1>4, <1>5 DEF UnitOfLine
<1> QED BY <1>2, <1>4, <1>10, <1>11

(* The walk is sound on every book, readable or not: no unit opens twice, *)
(* the words of a unit follow one another, and every line has a word that *)
(* was printed before it (segmentation.ts:1559-1645, 1696-1890).          *)
THEOREM WalkInvariance == SegSpec => []SegInv
<1>1. SegInit => SegInv
  BY InitSound DEF SegInit
<1>2. SegInv /\ [SegNext]_segVars => SegInv'
  <2> SUFFICES ASSUME SegInv, [SegNext]_segVars PROVE SegInv'
    OBVIOUS
  <2>1. CASE SegNext
    BY <2>1, OpenPageStep, ReadLineStep, EmitStep DEF SegNext
  <2>2. CASE UNCHANGED segVars
    BY <2>2 DEF segVars, SegInv
  <2> QED BY <2>1, <2>2
<1> QED BY <1>1, <1>2, PTL DEF SegSpec

(* A book that is emitted has every word in a unit and every unit in one  *)
(* piece, and none of its lines is of a word that comes later in the      *)
(* book.                                                                  *)
UnitsTogether ==
  outcome = "emitted" =>
    /\ \A i \in DOMAIN walk.words : walk.words[i].unit # NoUnit
    /\ \A i, j, k \in DOMAIN walk.words :
         i <= j /\ j <= k /\ walk.words[i].unit = walk.words[k].unit =>
           walk.words[j].unit = walk.words[i].unit
    /\ \A i \in DOMAIN walk.attached : LET e == walk.attached[i] IN
         e.word \in DOMAIN walk.words /\ walk.words[e.word].page <= e.page

(* Whatever signals a book has, lost or misread, the stage stops or no    *)
(* unit is interrupted by another (startUnit, segmentation.ts:1559-1645). *)
THEOREM UnitsStayTogether == SegSpec => []UnitsTogether
<1>1. SegInv => UnitsTogether
  BY DEF SegInv, Sound, WordsTogether, LinesHaveWords, UnitsTogether
<1> QED BY <1>1, WalkInvariance, PTL

(* A step of the walk, or the move of examples at its end, leaves the     *)
(* words, and every line in its unit; a new line is of the unit of the    *)
(* open word.                                                             *)
LinesAreKept ==
  /\ \A i \in DOMAIN walk.words : i \in DOMAIN walk'.words /\ walk'.words[i] = walk.words[i]
  /\ \A i \in DOMAIN walk.attached :
       i \in DOMAIN walk'.attached /\ UnitOfLine(walk, i)' = UnitOfLine(walk, i)
  /\ \A i \in DOMAIN walk'.attached \ DOMAIN walk.attached :
       walk.word # 0 /\ UnitOfLine(walk, i)' = walk.words[walk.word].unit

(* Which unit a line is of is decided when it is read: neither a later    *)
(* banner nor the reassignment of examples takes it to another            *)
(* (segmentation.ts:1796-1890, 2779-2850).                                *)
THEOREM LinesKeepTheirUnit == SegSpec => [][LinesAreKept]_segVars
<1>1. SegInv /\ [SegNext]_segVars => [LinesAreKept]_segVars
  <2> SUFFICES ASSUME SegInv, SegNext PROVE LinesAreKept
    OBVIOUS
  <2>1. \A i \in DOMAIN walk.attached : walk.attached[i].word \in DOMAIN walk.words
    BY DEF SegInv, Sound, LinesHaveWords
  <2>2. CASE Grown(walk, walk')
    BY <2>1, <2>2 DEF Grown, LinesAreKept, UnitOfLine
  <2>3. CASE Emit
    BY <2>3, EmitStep DEF LinesAreKept
  <2> QED BY <2>2, <2>3, OpenPageStep, ReadLineStep DEF SegNext
<1> QED BY <1>1, WalkInvariance, PTL DEF SegSpec
==============================================================================
