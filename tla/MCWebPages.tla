------------------------------ MODULE MCWebPages ------------------------------
(***************************************************************************)
(* The review page and the learning page for TLC.  A tab shows one of them *)
(* at a time, so a behaviour is of the one that Init picks; the variables  *)
(* of the other keep their initial values.                                 *)
(***************************************************************************)
EXTENDS ReviewClient, LearnClient

CONSTANTS w1, w2, w3

MCBook == <<w1, w2, w3>>
MCSelections == {<<w1, w2, w3>>, <<w2, w3>>}   \* the whole book, a later unit
MCReviewCards == {1, 2}

VARIABLE page
pageVars == <<page, reviewVars, learnVars>>

MCInit ==
  /\ page \in {"review", "learn"}
  /\ ReviewInit
  /\ LearnInit
  /\ page = "review" => records = FreshStart

OnReview(A) == page = "review" /\ A /\ UNCHANGED <<page, learnVars>>
OnLearn(A) == page = "learn" /\ A /\ UNCHANGED <<page, reviewVars>>

MCNext ==
  \/ \E l \in Lanes : OnReview(WorkerServes(l))
  \/ \E l \in Lanes : OnReview(Lose(l))
  \/ \E s \in DOMAIN worker.sessions : OnReview(SessionExpires(s))
  \/ \E call \in late : OnReview(LateServed(call))
  \/ OnReview(BootSettles)
  \/ OnReview(Start)
  \/ OnReview(OpeningContinues)
  \/ OnReview(Derive)
  \/ OnReview(Reveal)
  \/ OnReview(Rate)
  \/ OnReview(GradingContinues)
  \/ OnReview(Undo)
  \/ OnReview(UndoingContinues)
  \/ OnReview(Remount)
  \/ \E f \in Functions : OnLearn(LearnServes(f))
  \/ \E f \in Functions : OnLearn(LearnLoses(f))
  \/ OnLearn(LearnSessionExpires)
  \/ \E s \in Selections : OnLearn(StartGroup(s))
  \/ \E s \in Selections : OnLearn(ResumeSession(s))
  \/ OnLearn(IdleTask)
  \/ \E l \in loads : OnLearn(ContentLoaded(l))
  \/ \E l \in loads : OnLearn(ContentFails(l))
  \/ OnLearn(RetryContent)
  \/ OnLearn(RetryPresentation)
  \/ OnLearn(ChooseFamiliarity)
  \/ OnLearn(AdvanceStudy)
  \/ OnLearn(RevealCard)
  \/ OnLearn(RateCard)
  \/ OnLearn(RetryPendingPresentations)
  \/ OnLearn(StartingContinues)
  \/ OnLearn(PresentingContinues)
  \/ OnLearn(ChoosingContinues)
  \/ OnLearn(RatingContinues)
  \/ OnLearn(RetryingContinues)

(* ReviewFairness and LearnFairness, of the page that is shown: one of the *)
(* two actions of a conjunct is disabled throughout a behaviour.           *)
MCFairness ==
  /\ WF_pageVars(OnReview(WorkerServes("opening")) \/ OnLearn(LearnServes("starting")))
  /\ WF_pageVars(OnReview(WorkerServes("grading")) \/ OnLearn(LearnServes("rating")))
  /\ WF_pageVars(OnReview(WorkerServes("undoing")) \/ OnLearn(LearnServes("presenting")))
  /\ WF_pageVars(OnReview(OpeningContinues) \/ OnLearn(StartingContinues))
  /\ WF_pageVars(OnReview(GradingContinues) \/ OnLearn(RatingContinues))
  /\ WF_pageVars(OnReview(UndoingContinues) \/ OnLearn(PresentingContinues))
  /\ WF_pageVars(OnReview(BootSettles) \/ OnLearn(LearnServes("retrying")))
  /\ WF_pageVars(OnReview(Derive) \/ OnLearn(RetryingContinues))

MCSpec == MCInit /\ [][MCNext]_pageVars /\ MCFairness

(* ReviewWaitsEnd and LearnWaitsEnd of the page that is shown: nothing the *)
(* user waits for in either page waits for ever.                           *)
ReviewPageWaitsEnd == page = "review" => ReviewWaitsEnd
LearnPageWaitsEnd == page = "learn" => LearnWaitsEnd
==============================================================================
