--------------------------- MODULE ServicesProofs ---------------------------
(***************************************************************************)
(* What is proved of the services one by one, said of the services as the  *)
(* run checks them: they share no state, so a behaviour whose part is one  *)
(* of them keeps the invariant of that part, and the other invariants say  *)
(* nothing of it.                                                          *)
(***************************************************************************)
EXTENDS MCServices, AccessProofs, LimitsProofs, FeedProofs, DeskProofs

ServicesInv ==
    /\ part = "limiter" => LimiterInv
    /\ part = "signals" => SignalsInv
    /\ part = "sessions" => SessInv
    /\ part = "market" => MarketInv
    /\ part = "tickets" => TicketsInv
    /\ part = "assistant" => AssistantInv
    /\ part = "control" => NonceInv /\ CostInv
    /\ part = "pitches" => PitchesInv
    /\ part = "masters" => MastersInv
    /\ part = "proposals" => ProposalsInv
    /\ part = "matching" => MatchingInv
    /\ part = "language" => LanguageInv
    /\ part = "registers" => RegistersInv
    /\ part = "monitoring" => MonitoringInv

(* A step is one of the part's own, or leaves everything of it alone.      *)
LEMMA PartSteps ==
    ASSUME [ServicesNext]_servicesVars
    PROVE  /\ part' = part
           /\ part = "limiter" => [Next]_vars
           /\ part = "signals" => [SignalsNext]_signalsVars
           /\ part = "sessions" => [SessNext]_sessVars
           /\ part = "market" => [MarketNext]_marketVars
           /\ part = "tickets" => [TicketsNext]_ticketsVars
           /\ part = "assistant" => [AssistantNext]_assistantVars
           /\ part = "control" => [ControlNext]_controlVars
           /\ part = "pitches" => [PitchesNext]_pitchesVars
           /\ part = "masters" => [MastersNext]_mastersVars
           /\ part = "proposals" => [ProposalsNext]_proposalsVars
           /\ part = "matching" => [MatchingNext]_matchingVars
           /\ part = "language" => [LanguageNext]_languageVars
           /\ part = "registers" => [RegistersNext]_registersVars
           /\ part = "monitoring" => [MonitoringNext]_monitoringVars
<1>1. CASE UNCHANGED servicesVars
  BY <1>1 DEF servicesVars
<1>2. CASE part = "limiter" /\ Next /\ UNCHANGED onlyLimiter
  BY <1>2 DEF onlyLimiter
<1>3. CASE part = "signals" /\ SignalsNext /\ UNCHANGED onlySignals
  BY <1>3 DEF onlySignals
<1>4. CASE part = "sessions" /\ SessNext /\ UNCHANGED onlySessions
  BY <1>4 DEF onlySessions
<1>5. CASE part = "market" /\ MarketNext /\ UNCHANGED onlyMarket
  BY <1>5 DEF onlyMarket
<1>6. CASE part = "tickets" /\ TicketsNext /\ UNCHANGED onlyTickets
  BY <1>6 DEF onlyTickets
<1>7. CASE part = "assistant" /\ AssistantNext /\ UNCHANGED onlyAssistant
  BY <1>7 DEF onlyAssistant
<1>8. CASE part = "control" /\ ControlNext /\ UNCHANGED onlyControl
  BY <1>8 DEF onlyControl
<1>9. CASE part = "pitches" /\ PitchesNext /\ UNCHANGED onlyPitches
  BY <1>9 DEF onlyPitches
<1>10. CASE part = "masters" /\ MastersNext /\ UNCHANGED onlyMasters
  BY <1>10 DEF onlyMasters
<1>11. CASE part = "proposals" /\ ProposalsNext /\ UNCHANGED onlyProposals
  BY <1>11 DEF onlyProposals
<1>12. CASE part = "matching" /\ MatchingNext /\ UNCHANGED onlyMatching
  BY <1>12 DEF onlyMatching
<1>13. CASE part = "language" /\ LanguageNext /\ UNCHANGED onlyLanguage
  BY <1>13 DEF onlyLanguage
<1>14. CASE part = "registers" /\ RegistersNext /\ UNCHANGED onlyRegisters
  BY <1>14 DEF onlyRegisters
<1>15. CASE part = "monitoring" /\ MonitoringNext /\ UNCHANGED onlyMonitoring
  BY <1>15 DEF onlyMonitoring
<1> QED
  BY <1>1, <1>2, <1>3, <1>4, <1>5, <1>6, <1>7, <1>8, <1>9, <1>10, <1>11, <1>12, <1>13,
     <1>14, <1>15 DEF ServicesNext

LEMMA ServicesInvInit == ServicesInit => ServicesInv
  BY LimiterInvInit, SignalsInvInit, SessInvInit, MarketInvInit, TicketsInvInit,
     AssistantInvInit, NonceInvInit, CostInvInit, PitchesInvInit, MastersInvInit,
     ProposalsInvInit, MatchingInvInit, LanguageInvInit, RegistersInvInit, MonitoringInvInit
     DEF ServicesInit, ServicesInv

LEMMA ServicesInvStep == ServicesInv /\ [ServicesNext]_servicesVars => ServicesInv'
<1> SUFFICES ASSUME ServicesInv, [ServicesNext]_servicesVars
             PROVE  ServicesInv'
  OBVIOUS
<1>1. part' = "limiter" => LimiterInv'
  BY PartSteps, LimiterInvStep DEF ServicesInv
<1>2. part' = "signals" => SignalsInv'
  BY PartSteps, SignalsInvStep DEF ServicesInv
<1>3. part' = "sessions" => SessInv'
  BY PartSteps, SessInvStep DEF ServicesInv
<1>4. part' = "market" => MarketInv'
  BY PartSteps, MarketInvStep DEF ServicesInv
<1>5. part' = "tickets" => TicketsInv'
  BY PartSteps, TicketsInvStep DEF ServicesInv
<1>6. part' = "assistant" => AssistantInv'
  BY PartSteps, AssistantInvStep DEF ServicesInv
<1>7. part' = "control" => (NonceInv /\ CostInv)'
  BY PartSteps, NonceInvStep, CostInvStep DEF ServicesInv
<1>8. part' = "pitches" => PitchesInv'
  BY PartSteps, PitchesInvStep DEF ServicesInv
<1>9. part' = "masters" => MastersInv'
  BY PartSteps, MastersInvStep DEF ServicesInv
<1>10. part' = "proposals" => ProposalsInv'
  BY PartSteps, ProposalsInvStep DEF ServicesInv
<1>11. part' = "matching" => MatchingInv'
  BY PartSteps, MatchingInvStep DEF ServicesInv
<1>12. part' = "language" => LanguageInv'
  BY PartSteps, LanguageInvStep DEF ServicesInv
<1>13. part' = "registers" => RegistersInv'
  BY PartSteps, RegistersInvStep DEF ServicesInv
<1>14. part' = "monitoring" => MonitoringInv'
  BY PartSteps, MonitoringInvStep DEF ServicesInv
<1> QED
  BY <1>1, <1>2, <1>3, <1>4, <1>5, <1>6, <1>7, <1>8, <1>9, <1>10, <1>11, <1>12, <1>13, <1>14 DEF ServicesInv

(* The invariants of the parts hold in every behaviour.                    *)
THEOREM ServicesCorrect == ServicesSpec => []ServicesInv
  BY ServicesInvInit, ServicesInvStep, PTL DEF ServicesSpec

(* The state of every service is well typed, and its parts belong together *)
(* as its type invariant says: what a row names exists, and what is waited *)
(* for is there.                                                           *)
THEOREM TypesHold == ServicesSpec => []TypesOK
<1>1. ServicesInv => TypesOK
  BY LimiterInvImplies, SessTypesFrom, ProposalsInvImplies, LanguageInvImplies, MatchingInvImplies
     DEF ServicesInv, TypesOK, SignalsInv, MarketInv, TicketsInv, AssistantInv, NonceInv,
         PitchesInv, MastersInv, RegistersInv, MonitoringInv
<1> QED
  BY <1>1, ServicesCorrect, PTL

(* In the length of a window a key is admitted no more than the largest    *)
(* limit twice, and once for each request whose window the clean-up        *)
(* removed under it.                                                       *)
THEOREM SpanBoundHolds == ServicesSpec => []LimiterSpanBound
<1>1. ServicesInv => LimiterSpanBound
  BY LimiterInvImplies DEF ServicesInv, LimiterSpanBound
<1> QED
  BY <1>1, ServicesCorrect, PTL

(* Who is refused was admitted as often as its limit allows within the     *)
(* length of a window before, also when its window was removed meanwhile.  *)
THEOREM NoFalseRejectionHolds == ServicesSpec => LimiterNoFalseRejection
<1>1. ServicesInv /\ [ServicesNext]_servicesVars
          => [part = "limiter" => NoFalseRejection]_servicesVars
  BY LimiterInvImplies DEF ServicesInv
<1> QED
  BY <1>1, ServicesCorrect, PTL DEF ServicesSpec, LimiterNoFalseRejection

(* A retracted row stays hidden until its page is extracted anew.          *)
THEOREM RetractedHolds == ServicesSpec => []SignalsRetractedIsHidden
<1>1. ServicesInv => SignalsRetractedIsHidden
  BY DEF ServicesInv, SignalsInv, SignalsRetractedIsHidden
<1> QED
  BY <1>1, ServicesCorrect, PTL

(* Only a review changes the verdict of a review, however often the agent  *)
(* submits its finding again.                                              *)
THEOREM ReviewSurvivesHolds == ServicesSpec => SignalsReviewSurvives
<1>1. ServicesInv /\ [ServicesNext]_servicesVars
          => [part = "signals" => ReviewSurvives]_servicesVars
  BY PartSteps, ReviewSurvivesStep DEF ServicesInv
<1> QED
  BY <1>1, ServicesCorrect, PTL DEF ServicesSpec, SignalsReviewSurvives

(* A retraction that reports success left no row of its claim but those    *)
(* that were held or written while it ran.                                 *)
THEOREM RetractionHolds == ServicesSpec => SignalsRetractionLeavesNone
<1>1. ServicesInv /\ [ServicesNext]_servicesVars
          => [part = "signals" => RetractionLeavesNone]_servicesVars
  BY RetractionLeavesNoneStep DEF ServicesInv
<1> QED
  BY <1>1, ServicesCorrect, PTL DEF ServicesSpec, SignalsRetractionLeavesNone

(* A token that was logged out while Redis obeyed is refused whenever      *)
(* Redis answers and the token has not expired.                            *)
THEOREM LoggedOutHolds == ServicesSpec => []SessionsLoggedOutIsRefused
<1>1. ServicesInv => SessionsLoggedOutIsRefused
  BY RefusedFrom DEF ServicesInv, SessionsLoggedOutIsRefused
<1> QED
  BY <1>1, ServicesCorrect, PTL

(* What was taken from an account is lost to its tokens within a day.      *)
THEOREM RightsHold == ServicesSpec => []SessionsRightsEndWithinADay
<1>1. ServicesInv => SessionsRightsEndWithinADay
  BY RightsFrom DEF ServicesInv, SessionsRightsEndWithinADay
<1> QED
  BY <1>1, ServicesCorrect, PTL

(* Nobody holds a company without an approved claim to it, also after      *)
(* mergers and when two claims are decided at the same time.               *)
THEOREM HoldersHold == ServicesSpec => []MarketHoldersWereApproved
<1>1. ServicesInv => MarketHoldersWereApproved
  BY DEF ServicesInv, MarketInv, MarketHoldersWereApproved
<1> QED
  BY <1>1, ServicesCorrect, PTL

(* Private programmes are listed to approved claimants only.               *)
THEOREM PrivateHolds == ServicesSpec => []MarketPrivateSeenByClaimant
<1>1. ServicesInv => MarketPrivateSeenByClaimant
  BY PrivateFrom DEF ServicesInv, MarketPrivateSeenByClaimant
<1> QED
  BY <1>1, ServicesCorrect, PTL

(* The visibility of a programme is changed by an approved claimant of the *)
(* company it had when the right was checked.                              *)
THEOREM ManagedHolds == ServicesSpec => MarketManagedByClaimant
<1>1. ServicesInv /\ [ServicesNext]_servicesVars
          => [part = "market" => ManagedByClaimant]_servicesVars
  BY PartSteps, ManagedStep DEF ServicesInv
<1> QED
  BY <1>1, ServicesCorrect, PTL DEF ServicesSpec, MarketManagedByClaimant

(* A customer is mailed only a text that was in review, whoever edits the  *)
(* draft while its approval is served.                                     *)
THEOREM RepliesHold == ServicesSpec => []TicketsRepliesWereInReview
<1>1. ServicesInv => TicketsRepliesWereInReview
  BY DEF ServicesInv, TicketsInv, TicketsRepliesWereInReview
<1> QED
  BY <1>1, ServicesCorrect, PTL

(* However the poller, its marks and its failures interleave, an e-mail    *)
(* becomes one ticket at most, and one that became none is accounted for.  *)
THEOREM MailsHold == ServicesSpec => []TicketsEachMailOnce
<1>1. ServicesInv => TicketsEachMailOnce
  BY DEF ServicesInv, TicketsInv, TicketsEachMailOnce
<1> QED
  BY <1>1, ServicesCorrect, PTL

(* Whatever threads are opened and asked for, and whatever is logged and   *)
(* read again, a reply tells of its reader and the reader's organisation,  *)
(* and of the others the signals and the watch list at most.               *)
THEOREM OwnWordsHold == ServicesSpec => []AssistantNothingOfOthersButFeed
<1>1. ServicesInv => AssistantNothingOfOthersButFeed
  BY NothingOfOthersFrom DEF ServicesInv, AssistantNothingOfOthersButFeed
<1> QED
  BY <1>1, ServicesCorrect, PTL

(* A thread holds messages of its owner only.                              *)
THEOREM ThreadsHold == ServicesSpec => []AssistantThreadsKeepToOwner
<1>1. ServicesInv => AssistantThreadsKeepToOwner
  BY ThreadsKeepFrom DEF ServicesInv, AssistantThreadsKeepToOwner
<1> QED
  BY <1>1, ServicesCorrect, PTL

(* A context is accepted a second time only after a whole life.            *)
THEOREM AcceptedHolds == ServicesSpec => []ControlAcceptedALifeApart
<1>1. ServicesInv => ControlAcceptedALifeApart
  BY DEF ServicesInv, NonceInv, ControlAcceptedALifeApart
<1> QED
  BY <1>1, ServicesCorrect, PTL

(* However many runs are started at the same time, a cap is exceeded by    *)
(* what they cost and by no more.                                          *)
THEOREM OvershootHolds == ServicesSpec => []ControlOvershootBounded
<1>1. ServicesInv => ControlOvershootBounded
  BY OvershootFrom DEF ServicesInv, ControlOvershootBounded
<1> QED
  BY <1>1, ServicesCorrect, PTL

(* A pitch is made of what the institution's own programmes said, also     *)
(* when programme and deal are edited or removed while it is written.      *)
THEOREM PitchesHold == ServicesSpec => []PitchesFromOwnPrograms
<1>1. ServicesInv => PitchesFromOwnPrograms
  BY DEF ServicesInv, PitchesInv, PitchesFromOwnPrograms
<1> QED
  BY <1>1, ServicesCorrect, PTL

(* Uploads and exports that interleave or break off make a document from   *)
(* the own master or the built-in one, and a key in use names a written    *)
(* file.                                                                   *)
THEOREM MastersHold == ServicesSpec => []OwnMastersOnly
<1>1. ServicesInv => OwnMastersOnly
  BY MastersAreOwnFrom DEF ServicesInv, OwnMastersOnly
<1> QED
  BY <1>1, ServicesCorrect, PTL

(* Who reads page after page has seen every proposal that was there all    *)
(* along, however many are submitted and withdrawn between two pages.      *)
THEOREM NoneSkippedHolds == ServicesSpec => []ProposalsNoneSkipped
<1>1. ServicesInv => ProposalsNoneSkipped
  BY ProposalsInvImplies DEF ServicesInv, ProposalsNoneSkipped
<1> QED
  BY <1>1, ServicesCorrect, PTL

(* For any number of companies the exchange sort puts the better ones      *)
(* first, and what is sent is a start of that order.                       *)
THEOREM BestHold == ServicesSpec => []MatchingBestAreListed
<1>1. ServicesInv => MatchingBestAreListed
  BY MatchingInvImplies DEF ServicesInv, MatchingBestAreListed
<1> QED
  BY <1>1, ServicesCorrect, PTL

(* For every number of models and attempts, a finding comes from the first *)
(* model that was not given up on, and is rated by what its text shows.    *)
THEOREM FoundedHolds == ServicesSpec => []LanguageFindingIsFounded
<1>1. ServicesInv => LanguageFindingIsFounded
  BY LanguageInvImplies DEF ServicesInv, LanguageFindingIsFounded
<1> QED
  BY <1>1, ServicesCorrect, PTL

(* A registration names no company whose own row says nothing of that      *)
(* register, also after mergers.                                           *)
THEOREM NumbersHold == ServicesSpec => []RegistersRegisteredHasNumber
<1>1. ServicesInv => RegistersRegisteredHasNumber
  BY NumbersAreShown DEF ServicesInv, RegistersInv, RegistersRegisteredHasNumber
<1> QED
  BY <1>1, ServicesCorrect, PTL

(* Whatever companies are merged or removed as duplicates while requests   *)
(* are served and people move or are added: what is watched of a company   *)
(* ends with it, nobody is left in a company that is gone, no post names   *)
(* somebody who is, and no plea is overlooked.                             *)
THEOREM WatchedHolds == ServicesSpec => []MonitoringWatchedExists
<1>1. ServicesInv => MonitoringWatchedExists
  BY DEF ServicesInv, MonitoringInv, MonitoringWatchedExists
<1> QED
  BY <1>1, ServicesCorrect, PTL
=============================================================================
