----------------------------- MODULE LearnClient -----------------------------
(***************************************************************************)
(* The learning page of the web application (useStudySession.ts and        *)
(* LearnSetupPage.tsx) against the study API: a group of new words is      *)
(* studied word by word, each presentation is recorded, and the cards of   *)
(* the session are then recalled and graded one by one.                    *)
(*                                                                         *)
(* The hook reads stateRef, which is what was last rendered, and an answer *)
(* is dispatched before the next render: within one action reads are of    *)
(* learn and dispatches make learn'.  A render comes before the next click *)
(* or answer, so an action that dispatches phase, words or studyIndex ends *)
(* with the effects of that render: it is built with Renders.              *)
(*                                                                         *)
(* A word has one card here, named by the word.                            *)
(***************************************************************************)
EXTENDS Naturals, Sequences, FiniteSets

CONSTANTS
  Book,             \* the words of the release in textbook order
  Selections,       \* what unit and tier choices list: sequences of words
  LearnGroupSize,   \* new_words_per_group
  Generic,          \* the prompt of a card that could not be matched
  MaxLearnReveals, MaxLearnLosses   \* bounds: reveals, requests or answers lost

LearnWords == {Book[i] : i \in DOMAIN Book}

ASSUME LearnAssumption ==
  /\ \A s \in Selections : s \in Seq(LearnWords)
  /\ Generic \notin LearnWords
  /\ {LearnGroupSize, MaxLearnReveals, MaxLearnLosses} \subseteq Nat

VARIABLES
  records,   \* the worker: the NEW_WORDS session and the user's progress
  learn,     \* MachineState of useStudySession
  work,      \* the awaited request of each asynchronous function
  loads,     \* word contents being read: [word, background]
  silent,    \* backgroundContentFailuresRef
  idle,      \* the word the idle task will prefetch, or Generic
  sights,    \* history: the card graded when event id e was generated
  misses

learnVars == <<records, learn, work, loads, silent, idle, sights, misses>>

LearnPhases == {"SETUP", "STUDY_WORDS", "QUESTION", "REVEALED", "COMPLETE"}
Functions == {"starting", "presenting", "choosing", "rating", "retrying"}
Recalling == {"QUESTION", "REVEALED"}
Presentations == {"untried", "pending", "acked", "deferred", "failed"}

None == [step |-> "none", word |-> Generic, event |-> 0, code |-> "none", position |-> 0]
Request(step, w, e) == [None EXCEPT !.step = step, !.word = w, !.event = e]

Members(s) == {s[i] : i \in DOMAIN s}
FirstOpen(s) ==
  LET open == SelectSeq(s, LAMBDA w : w \notin records.introduced)
  IN  SubSeq(open, 1, IF Len(open) < LearnGroupSize THEN Len(open) ELSE LearnGroupSize)

------------------------------------------------------------------------------
(* The worker.  It takes its group from the whole book (newWordsCards),    *)
(* whatever unit and tier the page has selected.                           *)

Reply(r, code) == [r EXCEPT !.code = code, !.position = records.position]

ServesCreate(f) ==
  LET queue == FirstOpen(Book)
  IN  IF queue = <<>>
      THEN records' = records /\ work' = [work EXCEPT ![f].code = "refused"]
      ELSE /\ records' = [records EXCEPT !.queue = queue, !.position = 0, !.open = TRUE]
           /\ work' = [work EXCEPT ![f].code = "ok", ![f].position = 0]

(* applyStudyPatch: presented or familiar, the row is IN_PROGRESS.         *)
ServesPatch(f, w) ==
  IF ~records.open THEN records' = records /\ work' = [work EXCEPT ![f].code = "refused"]
  ELSE IF w \notin Members(records.queue)
       THEN records' = records /\ work' = [work EXCEPT ![f].code = "not_in_group"]
       ELSE /\ records' = [records EXCEPT !.presented = @ \union {w}]
            /\ work' = [work EXCEPT ![f].code = "ok"]

RecordedEvents == {records.log[i].event : i \in DOMAIN records.log}

ServesGrade(f, e, c) ==
  IF e \in RecordedEvents THEN records' = records /\ work' = [work EXCEPT ![f].code = "ok"]
  ELSE IF /\ records.open /\ records.position < Len(records.queue)
          /\ records.queue[records.position + 1] = c
       THEN /\ records' = [records EXCEPT
                 !.position = @ + 1,
                 !.log = Append(@, [event |-> e, card |-> c]),
                 !.introduced = IF c \in records.presented THEN @ \union {c} ELSE @]
            /\ work' = [work EXCEPT ![f].code = "ok"]
       ELSE records' = records /\ work' = [work EXCEPT ![f].code = "refused"]

ServesRead(f) ==
  /\ records' = records
  /\ work' = [work EXCEPT ![f] = Reply(@, IF records.open THEN "ok" ELSE "refused")]

(* The summary's reads and a familiarity choice of a recorded word change  *)
(* nothing this module looks at: they are answered in one step.            *)
AtOnce == {"none", "familiar", "summary"}
Unanswered(f) == work[f].step \notin AtOnce /\ work[f].code = "none"
HasAnswer(f) == work[f].step \in AtOnce \ {"none"} \/ work[f].code # "none"

LearnServes(f) ==
  /\ Unanswered(f)
  /\ CASE work[f].step = "create" -> ServesCreate(f)
       [] work[f].step = "present" -> ServesPatch(f, work[f].word)
       [] work[f].step = "grade" -> ServesGrade(f, work[f].event, work[f].word)
       [] work[f].step \in {"resume", "reread"} -> ServesRead(f)
  /\ UNCHANGED <<learn, loads, silent, idle, sights, misses>>

LearnSessionExpires ==
  /\ records.open
  /\ records' = [records EXCEPT !.open = FALSE]
  /\ UNCHANGED <<learn, work, loads, silent, idle, sights, misses>>

LearnLoses(f) ==
  /\ work[f].step \notin AtOnce /\ work[f].code # "lost" /\ misses < MaxLearnLosses
  /\ work' = [work EXCEPT ![f].code = "lost"]
  /\ misses' = misses + 1
  /\ UNCHANGED <<records, learn, loads, silent, idle, sights>>

------------------------------------------------------------------------------
(* The reducer, and the functions' next requests.                          *)

Setup ==
  [phase |-> "SETUP", group |-> <<>>, studyIndex |-> 0, starting |-> FALSE,
   content |-> [w \in LearnWords |-> "none"],
   presentation |-> [w \in LearnWords |-> "untried"],
   key |-> Generic, familiarityPending |-> FALSE, prompts |-> <<>>, session |-> FALSE,
   index |-> 0, event |-> 0, gradePending |-> FALSE, summary |-> FALSE]

(* What an earlier visit may have left: nothing, or an unexpired session   *)
(* with some words presented and its first cards graded.                   *)
FreshStart ==
  [queue |-> <<>>, open |-> FALSE, position |-> 0,
   presented |-> {}, introduced |-> {}, log |-> <<>>]

FirstGroup == SubSeq(Book, 1, LearnGroupSize)

Interrupted ==
  {[queue |-> FirstGroup, open |-> TRUE, position |-> n, presented |-> seen,
    introduced |-> done, log |-> <<>>] :
      n \in 0..(LearnGroupSize - 1), seen \in SUBSET Members(FirstGroup),
      done \in SUBSET Members(FirstGroup)}

LearnInit ==
  /\ records \in {FreshStart} \union
       {r \in Interrupted :
          r.introduced \subseteq r.presented \intersect Members(SubSeq(r.queue, 1, r.position))}
  /\ learn = Setup
  /\ work = [f \in Functions |-> None]
  /\ loads = {} /\ silent = {}
  /\ idle = Generic
  /\ sights = <<>>
  /\ misses = 0

(* Only the number of the derived cards is compared with the queue's.      *)
QuickRecallCards(group, content) ==
  LET derived == SelectSeq(group, LAMBDA w : content[w] = "loaded")
  IN  IF Len(derived) # Len(records.queue)
      THEN [i \in DOMAIN records.queue |-> Generic]
      ELSE derived

Started(presentation, content, index, phase, position) ==
  [learn EXCEPT !.starting = FALSE, !.session = TRUE, !.presentation = presentation,
     !.content = content, !.studyIndex = index, !.phase = phase, !.index = position,
     !.summary = FALSE,
     !.prompts = IF phase = "QUESTION" THEN QuickRecallCards(learn.group, content) ELSE <<>>]

Presented(m, w, state) == [m EXCEPT !.key = w, !.presentation[w] = state]

(* Fault: a refused membership counts as recorded.                         *)
DeferralIsAck(code) ==
  IF code = "lost" \/ code = "refused" THEN "failed" ELSE "acked"

Outcome(code) ==
  CASE code = "ok" -> "acked"
    [] code = "not_in_group" -> "deferred"
    [] OTHER -> "failed"

PresentationSettles(m, w, code) ==
  [m EXCEPT !.presentation[w] = Outcome(code),
            !.key = IF m.key = w THEN Generic ELSE m.key]

------------------------------------------------------------------------------
(* The effects of a render.                                                *)

MayLoad(m, ls, w, background) ==
  /\ m.content[w] = "none"
  /\ ~\E l \in ls : l.word = w
  /\ background => w \notin silent

Loading(w, background) == [word |-> w, background |-> background]

Visible(m) == m.group[m.studyIndex + 1]

Untried(m) == m.presentation[Visible(m)] = "untried"

PresentsVisible(m, w) ==
  /\ m.content[Visible(m)] = "loaded" /\ Untried(m)
  /\ m.key = Generic /\ w["presenting"] = None

NextToPrefetch(m) ==
  LET rest == {i \in DOMAIN m.group : /\ i > m.studyIndex + 1
                                      /\ m.content[m.group[i]] = "none"}
  IN  IF m.content[Visible(m)] # "loaded" \/ rest = {} THEN Generic
      ELSE m.group[CHOOSE i \in rest : \A j \in rest : i <= j]

(* m was dispatched, w are the requests and ls the loads so far.           *)
Renders(m, w, ls) ==
  IF m.phase # "STUDY_WORDS"
  THEN learn' = m /\ work' = w /\ loads' = ls /\ idle' = Generic
  ELSE /\ idle' = NextToPrefetch(m)
       /\ loads' = IF MayLoad(m, ls, Visible(m), FALSE)
                   THEN ls \union {Loading(Visible(m), FALSE)} ELSE ls
       /\ IF PresentsVisible(m, w)
          THEN /\ learn' = Presented(m, Visible(m), "pending")
               /\ work' = [w EXCEPT !["presenting"] = Request("present", Visible(m), 0)]
          ELSE learn' = m /\ work' = w

Requesting(f, r) == [work EXCEPT ![f] = r]
Returning(f) == [work EXCEPT ![f] = None]

------------------------------------------------------------------------------
(* Setup.                                                                  *)

SelectedGroup(s) == FirstOpen(s)

StartGroup(s) ==
  /\ learn.phase = "SETUP" /\ ~learn.starting
  /\ SelectedGroup(s) # <<>>
  /\ learn' = [learn EXCEPT !.starting = TRUE, !.group = SelectedGroup(s)]
  /\ work' = Requesting("starting", Request("create", Generic, 0))
  /\ UNCHANGED <<records, loads, silent, idle, sights, misses>>

ResumeSession(s) ==
  /\ learn.phase = "SETUP" /\ ~learn.starting
  /\ records.open /\ Members(SelectedGroup(s)) = Members(records.queue)
  /\ learn' = [learn EXCEPT !.starting = TRUE, !.group = SelectedGroup(s)]
  /\ work' = Requesting("starting", Request("resume", Generic, 0))
  /\ UNCHANGED <<records, loads, silent, idle, sights, misses>>

(* The progress reads of a resume may fail word by word, and so may the    *)
(* content reads of a group that was all presented.                        *)
ResumedWith(known, position) ==
  LET states == [w \in LearnWords |-> IF w \in known THEN "acked" ELSE "untried"]
      open == {i \in DOMAIN learn.group : learn.group[i] \notin known}
  IN  IF open # {}
      THEN {Started(states, learn.content,
                    (CHOOSE i \in open : \A j \in open : i <= j) - 1, "STUDY_WORDS", position)}
      ELSE {Started(states, [w \in LearnWords |-> IF w \in read THEN "loaded" ELSE "none"],
                    0, "QUESTION", position) : read \in SUBSET known}

StartingContinues ==
  LET r == work["starting"] IN
  /\ HasAnswer("starting")
  /\ \/ /\ r.step = "create" /\ r.code = "ok"
        /\ Renders(Started([w \in LearnWords |-> "untried"], learn.content, 0,
                           "STUDY_WORDS", r.position), Returning("starting"), loads)
     \/ /\ r.step = "resume" /\ r.code = "ok"
        /\ \E known \in SUBSET (records.presented \intersect Members(learn.group)) :
             \E m \in ResumedWith(known, r.position) :
               Renders(m, Returning("starting"), loads)
     \/ /\ r.code # "ok"
        /\ learn' = [learn EXCEPT !.starting = FALSE] /\ work' = Returning("starting")
        /\ UNCHANGED <<loads, idle>>
  /\ UNCHANGED <<records, silent, sights, misses>>

------------------------------------------------------------------------------
(* Studying the words.                                                     *)

IdleTask ==
  /\ idle # Generic
  /\ idle' = Generic
  /\ loads' = IF MayLoad(learn, loads, idle, TRUE)
              THEN loads \union {Loading(idle, TRUE)} ELSE loads
  /\ UNCHANGED <<records, learn, work, silent, sights, misses>>

(* Words are dispatched by a load that succeeds or fails in the open; a    *)
(* failure in the background dispatches nothing.                           *)
ContentLoaded(l) ==
  /\ l \in loads
  /\ Renders([learn EXCEPT !.content[l.word] = "loaded"], work, loads \ {l})
  /\ silent' = silent \ {l.word}
  /\ UNCHANGED <<records, sights, misses>>

ContentFails(l) ==
  /\ l \in loads /\ misses < MaxLearnLosses
  /\ misses' = misses + 1
  /\ \/ /\ ~l.background
        /\ Renders([learn EXCEPT !.content[l.word] = "failed"], work, loads \ {l})
        /\ UNCHANGED silent
     \/ /\ l.background
        /\ silent' = silent \union {l.word}
        /\ loads' = loads \ {l}
        /\ UNCHANGED <<learn, work, idle>>
  /\ UNCHANGED <<records, sights>>

RetryContent ==
  /\ learn.phase = "STUDY_WORDS"
  /\ learn.content[Visible(learn)] = "failed"
  /\ Renders([learn EXCEPT !.content[Visible(learn)] = "none"], work, loads)
  /\ UNCHANGED <<records, silent, sights, misses>>

RetryPresentation ==
  /\ learn.phase = "STUDY_WORDS"
  /\ learn.presentation[Visible(learn)] = "failed"
  /\ learn.key = Generic
  /\ Renders(Presented(learn, Visible(learn), "pending"),
             Requesting("presenting", Request("present", Visible(learn), 0)), loads)
  /\ UNCHANGED <<records, silent, sights, misses>>

PresentingContinues ==
  LET r == work["presenting"] IN
  /\ HasAnswer("presenting")
  /\ Renders(PresentationSettles(learn, r.word, r.code), Returning("presenting"), loads)
  /\ UNCHANGED <<records, silent, sights, misses>>

ChooseFamiliarity ==
  /\ learn.phase = "STUDY_WORDS"
  /\ ~learn.familiarityPending /\ learn.presentation[Visible(learn)] = "acked"
  /\ learn' = [learn EXCEPT !.familiarityPending = TRUE]
  /\ work' = Requesting("choosing", Request("familiar", Visible(learn), 0))
  /\ UNCHANGED <<records, loads, silent, idle, sights, misses>>

ChoosingContinues ==
  /\ HasAnswer("choosing")
  /\ LET m == [learn EXCEPT !.familiarityPending = FALSE]
     IN  \/ Renders(m, Returning("choosing"), loads)
         \/ /\ learn' = m /\ work' = Returning("choosing")   \* it failed
            /\ UNCHANGED <<loads, idle>>
  /\ UNCHANGED <<records, silent, sights, misses>>

(* The next word, or after the last one the recall; contents still missing *)
(* are read once more.  "Next" waits for nothing (LearnSetupPage.tsx:276). *)
AdvanceStudy ==
  /\ learn.phase = "STUDY_WORDS"
  /\ \/ /\ learn.studyIndex + 1 < Len(learn.group)
        /\ Renders([learn EXCEPT !.studyIndex = @ + 1], work, loads)
     \/ /\ learn.studyIndex + 1 = Len(learn.group)
        /\ \E read \in SUBSET {w \in Members(learn.group) : learn.content[w] # "loaded"} :
             LET content == [w \in LearnWords |->
                               IF w \in read THEN "loaded" ELSE learn.content[w]]
             IN  Renders([learn EXCEPT !.phase = "QUESTION", !.event = 0,
                            !.prompts = QuickRecallCards(learn.group, content)], work, loads)
  /\ UNCHANGED <<records, silent, sights, misses>>

------------------------------------------------------------------------------
(* The recall.                                                             *)

RevealCard ==
  /\ learn.phase = "QUESTION"
  /\ Len(sights) < MaxLearnReveals
  /\ learn.index < Len(records.queue)
  /\ learn' = [learn EXCEPT !.phase = "REVEALED", !.event = Len(sights) + 1]
  /\ sights' = Append(sights, records.queue[learn.index + 1])
  /\ UNCHANGED <<records, work, loads, silent, idle, misses>>

RateCard ==
  /\ learn.event # 0 /\ ~learn.gradePending
  /\ learn.index < Len(records.queue)
  /\ learn' = [learn EXCEPT !.gradePending = TRUE]
  /\ work' = Requesting("rating", Request("grade", records.queue[learn.index + 1], learn.event))
  /\ UNCHANGED <<records, loads, silent, idle, sights, misses>>

ToRetry ==
  SelectSeq(learn.group, LAMBDA w : learn.presentation[w] \in {"deferred", "failed"})

(* syncPendingPresentations.  Its loop meets the rendered presentationKey: *)
(* when the first attempt is answered that is still the word just sent, so *)
(* every later word is passed over.                                        *)
SyncAttempts == ToRetry # <<>> /\ learn.key = Generic

GradeAdvances(m, position) ==
  [m EXCEPT !.gradePending = FALSE, !.index = position, !.event = 0,
            !.phase = IF position >= Len(records.queue) THEN "COMPLETE" ELSE "QUESTION"]

(* Fault: a failed rating is not reported to the reducer.                  *)
StillPending(m) == m

RatingFailed(m) == [m EXCEPT !.gradePending = FALSE]

AfterSync(m, position) ==
  Renders(GradeAdvances(m, position),
          IF position >= Len(records.queue)
          THEN Requesting("rating", Request("summary", Generic, 0))
          ELSE Returning("rating"), loads)

RatingContinues ==
  LET r == work["rating"] IN
  /\ HasAnswer("rating")
  /\ \/ /\ r.step = "grade" /\ r.code = "ok"
        /\ work' = Requesting("rating", Request("reread", Generic, r.event))
        /\ UNCHANGED <<learn, loads, idle>>
     \/ /\ r.step = "reread" /\ r.code = "ok" /\ SyncAttempts
        /\ Renders(Presented(learn, Head(ToRetry), "pending"),
                   Requesting("rating", [Request("present", Head(ToRetry), r.event)
                                           EXCEPT !.position = r.position]), loads)
     \/ /\ r.step = "reread" /\ r.code = "ok" /\ ~SyncAttempts
        /\ AfterSync(learn, r.position)
     \/ /\ r.step = "present"
        /\ AfterSync(PresentationSettles(learn, r.word, r.code), r.position)
     \/ /\ r.step \in {"grade", "reread"} /\ r.code # "ok"
        /\ learn' = RatingFailed(learn) /\ work' = Returning("rating")
        /\ UNCHANGED <<loads, idle>>
     \/ /\ r.step = "summary"        \* a progress row not read counts as none
        /\ learn' = [learn EXCEPT !.summary = TRUE] /\ work' = Returning("rating")
        /\ UNCHANGED <<loads, idle>>
  /\ UNCHANGED <<records, silent, sights, misses>>

RetryPendingPresentations ==
  /\ learn.phase \in Recalling \union {"COMPLETE"}
  /\ work["retrying"] = None /\ SyncAttempts
  /\ Renders(Presented(learn, Head(ToRetry), "pending"),
             Requesting("retrying", Request("present", Head(ToRetry), 0)), loads)
  /\ UNCHANGED <<records, silent, sights, misses>>

RetryingContinues ==
  LET r == work["retrying"] IN
  /\ HasAnswer("retrying")
  /\ \/ /\ r.step = "present"
        /\ Renders(PresentationSettles(learn, r.word, r.code),
                   IF learn.phase = "COMPLETE"
                   THEN Requesting("retrying", Request("summary", Generic, 0))
                   ELSE Returning("retrying"), loads)
     \/ /\ r.step = "summary"
        /\ learn' = [learn EXCEPT !.summary = TRUE] /\ work' = Returning("retrying")
        /\ UNCHANGED <<loads, idle>>
  /\ UNCHANGED <<records, silent, sights, misses>>

LearnNext ==
  \/ \E f \in Functions : LearnServes(f) \/ LearnLoses(f)
  \/ LearnSessionExpires
  \/ \E s \in Selections : StartGroup(s) \/ ResumeSession(s)
  \/ IdleTask \/ \E l \in loads : ContentLoaded(l) \/ ContentFails(l)
  \/ RetryContent \/ RetryPresentation \/ ChooseFamiliarity \/ AdvanceStudy
  \/ RevealCard \/ RateCard \/ RetryPendingPresentations
  \/ StartingContinues \/ PresentingContinues \/ ChoosingContinues
  \/ RatingContinues \/ RetryingContinues

(* The browser delivers answers, the worker serves; what the user does and *)
(* what the network loses is free.                                         *)
LearnFairness ==
  /\ \A f \in Functions : WF_learnVars(LearnServes(f))
  /\ WF_learnVars(StartingContinues) /\ WF_learnVars(PresentingContinues)
  /\ WF_learnVars(RatingContinues) /\ WF_learnVars(RetryingContinues)

LearnSpec == LearnInit /\ [][LearnNext]_learnVars /\ LearnFairness

------------------------------------------------------------------------------

(* What the page holds for recorded the worker has recorded, so that the   *)
(* familiarity it then lets the user choose never creates the progress row *)
(* (useStudySession.ts:12-13, 549).  A grade is recorded for the card that *)
(* was current when its event id was generated.                            *)
AckedIsRecorded ==
  /\ \A w \in LearnWords : learn.presentation[w] = "acked" => w \in records.presented
  /\ \A i \in DOMAIN records.log :
       records.log[i].event \in DOMAIN sights
       /\ sights[records.log[i].event] = records.log[i].card

(* Every function comes to an end and no presentation stays pending, also  *)
(* when its request is lost or refused.                                    *)
LearnWaitsEnd ==
  /\ learn.starting ~> ~learn.starting
  /\ learn.gradePending ~> ~learn.gradePending
  /\ learn.key # Generic ~> learn.key = Generic

==============================================================================
