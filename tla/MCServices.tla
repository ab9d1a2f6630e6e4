----------------------------- MODULE MCServices -----------------------------
(***************************************************************************)
(* The services of the API for TLC: throttling, signals, sessions, claims, *)
(* tickets, the assistant, the control of the agents, pitches, masters,    *)
(* proposals, matching, language models, registers and monitoring.  They   *)
(* share no state, so a behaviour picks one of them and is a behaviour of  *)
(* it, in which the variables of the others hold Unused; a property is     *)
(* said of the behaviours of its part.                                     *)
(***************************************************************************)
EXTENDS RateLimiter, Signals, Sessions, Marketplace, Tickets, Assistant,
        AgentControl, Pitches, Masters, Proposals, Matching, LanguageModels,
        Registers, Monitoring, TLC

CONSTANTS
    a1, a2, b1, b2, c1, c2,     \* pairs of interchangeable values, for sets of each service
    a3                          \* one more

(* The page and the finding report the same article.                       *)
SameUrl == [x \in {"job", "finding"} |-> "url"]
Citing == [f \in {"finding"} |-> {"claim"}]

(* Two colleagues, one of them an administrator, and somebody else.        *)
Employer == [p \in {"p1", "p2", "p3"} |-> IF p = "p3" THEN "B" ELSE "A"]

(* The context of a tenant and a global one.                               *)
Tasks == [x \in {"task1", "task2"} |-> IF x = "task1" THEN "o1" ELSE Nobodys]

(* Companies of each tier, the first and the third with better and worse   *)
(* matching texts; requests with and without a category and a place.       *)
Appearances ==
    [tier : {1, 3}, says : {{}, {"category", "keyword"}}, near : {FALSE}]
    \cup [tier : {2}, says : {{"keyword"}}, near : {TRUE}]
Requirements == [category : BOOLEAN, place : {"none", "named"}, limit : {0, 2}]

(* What a model reports: nothing, a name with or without proof, programmes *)
(* with a quote that is in the text, is not, or is missing.                *)
Reports ==
    {[name |-> "none", csr |-> FALSE, quote |-> "none", budget |-> FALSE, contact |-> FALSE],
     [name |-> "Unknown", csr |-> TRUE, quote |-> "verbatim", budget |-> TRUE, contact |-> TRUE],
     [name |-> "given", csr |-> FALSE, quote |-> "verbatim", budget |-> TRUE, contact |-> TRUE],
     [name |-> "given", csr |-> TRUE, quote |-> "other", budget |-> TRUE, contact |-> TRUE],
     [name |-> "given", csr |-> TRUE, quote |-> "other", budget |-> TRUE, contact |-> FALSE],
     [name |-> "unknown", csr |-> FALSE, quote |-> "verbatim", budget |-> TRUE, contact |-> FALSE]}

ServicesSymmetric ==
    Permutations({a1, a2}) \cup Permutations({b1, b2}) \cup Permutations({c1, c2})

VARIABLE part

Unused == "unused"

onlyLimiter == <<part, signalsVars, sessVars, marketVars, ticketsVars, assistantVars,
    controlVars, pitchesVars, mastersVars, proposalsVars, matchingVars,
    languageVars, registersVars, monitoringVars>>
onlySignals == <<part, vars, sessVars, marketVars, ticketsVars, assistantVars,
    controlVars, pitchesVars, mastersVars, proposalsVars, matchingVars,
    languageVars, registersVars, monitoringVars>>
onlySessions == <<part, vars, signalsVars, marketVars, ticketsVars, assistantVars,
    controlVars, pitchesVars, mastersVars, proposalsVars, matchingVars,
    languageVars, registersVars, monitoringVars>>
onlyMarket == <<part, vars, signalsVars, sessVars, ticketsVars, assistantVars,
    controlVars, pitchesVars, mastersVars, proposalsVars, matchingVars,
    languageVars, registersVars, monitoringVars>>
onlyTickets == <<part, vars, signalsVars, sessVars, marketVars, assistantVars,
    controlVars, pitchesVars, mastersVars, proposalsVars, matchingVars,
    languageVars, registersVars, monitoringVars>>
onlyAssistant == <<part, vars, signalsVars, sessVars, marketVars, ticketsVars,
    controlVars, pitchesVars, mastersVars, proposalsVars, matchingVars,
    languageVars, registersVars, monitoringVars>>
onlyControl == <<part, vars, signalsVars, sessVars, marketVars, ticketsVars,
    assistantVars, pitchesVars, mastersVars, proposalsVars, matchingVars,
    languageVars, registersVars, monitoringVars>>
onlyPitches == <<part, vars, signalsVars, sessVars, marketVars, ticketsVars,
    assistantVars, controlVars, mastersVars, proposalsVars, matchingVars,
    languageVars, registersVars, monitoringVars>>
onlyMasters == <<part, vars, signalsVars, sessVars, marketVars, ticketsVars,
    assistantVars, controlVars, pitchesVars, proposalsVars, matchingVars,
    languageVars, registersVars, monitoringVars>>
onlyProposals == <<part, vars, signalsVars, sessVars, marketVars, ticketsVars,
    assistantVars, controlVars, pitchesVars, mastersVars, matchingVars,
    languageVars, registersVars, monitoringVars>>
onlyMatching == <<part, vars, signalsVars, sessVars, marketVars, ticketsVars,
    assistantVars, controlVars, pitchesVars, mastersVars, proposalsVars,
    languageVars, registersVars, monitoringVars>>
onlyLanguage == <<part, vars, signalsVars, sessVars, marketVars, ticketsVars,
    assistantVars, controlVars, pitchesVars, mastersVars, proposalsVars,
    matchingVars, registersVars, monitoringVars>>
onlyRegisters == <<part, vars, signalsVars, sessVars, marketVars, ticketsVars,
    assistantVars, controlVars, pitchesVars, mastersVars, proposalsVars,
    matchingVars, languageVars, monitoringVars>>
onlyMonitoring == <<part, vars, signalsVars, sessVars, marketVars, ticketsVars,
    assistantVars, controlVars, pitchesVars, mastersVars, proposalsVars,
    matchingVars, languageVars, registersVars>>
servicesVars == <<part, vars, signalsVars, sessVars, marketVars, ticketsVars,
    assistantVars, controlVars, pitchesVars, mastersVars, proposalsVars,
    matchingVars, languageVars, registersVars, monitoringVars>>

LimiterUnused ==
    /\ now = Unused /\ store = Unused /\ windows = Unused /\ request = Unused
    /\ sweep = Unused /\ swept = Unused /\ admitted = Unused /\ stray = Unused

SignalsUnused ==
    /\ signals = Unused /\ task = Unused /\ finding = Unused /\ call = Unused
    /\ resaved = Unused

SessionsUnused ==
    /\ clock = Unused /\ user = Unused /\ token = Unused /\ revoked = Unused
    /\ expiry = Unused /\ key = Unused /\ loggedOut = Unused /\ stood = Unused

MarketUnused ==
    /\ firm = Unused /\ tenant = Unused /\ claim = Unused /\ program = Unused
    /\ dealing = Unused /\ approved = Unused

TicketsUnused ==
    /\ mailbox = Unused /\ poll = Unused /\ ticket = Unused /\ draft = Unused
    /\ review = Unused /\ outbox = Unused /\ replied = Unused /\ inReview = Unused
    /\ lost = Unused

AssistantUnused ==
    /\ thread = Unused /\ chat = Unused /\ log = Unused

ControlUnused ==
    /\ tick = Unused /\ today = Unused /\ context = Unused /\ nonce = Unused
    /\ accepted = Unused /\ run = Unused /\ taskCost = Unused /\ tenantDaily = Unused
    /\ halted = Unused

PitchesUnused ==
    /\ drive = Unused /\ deal = Unused /\ writer = Unused /\ usage = Unused
    /\ said = Unused

MastersUnused ==
    /\ file = Unused /\ masterKey = Unused /\ desk = Unused /\ exported = Unused

ProposalsUnused ==
    /\ letter = Unused /\ older = Unused /\ reader = Unused

MatchingUnused ==
    /\ look = Unused /\ answer = Unused

LanguageUnused ==
    /\ talk = Unused /\ asked = Unused /\ slept = Unused

RegistersUnused ==
    /\ house = Unused /\ deed = Unused /\ permit = Unused

MonitoringUnused ==
    /\ parent = Unused /\ watch = Unused /\ person = Unused /\ post = Unused
    /\ watcher = Unused /\ merge = Unused /\ first = Unused

ServicesInit ==
    /\ part \in {"limiter", "signals", "sessions", "market", "tickets", "assistant",
                "control", "pitches", "masters", "proposals", "matching", "language", "registers", "monitoring"}
    /\ IF part = "limiter" THEN Init ELSE LimiterUnused
    /\ IF part = "signals" THEN SignalsInit ELSE SignalsUnused
    /\ IF part = "sessions" THEN SessInit ELSE SessionsUnused
    /\ IF part = "market" THEN MarketInit ELSE MarketUnused
    /\ IF part = "tickets" THEN TicketsInit ELSE TicketsUnused
    /\ IF part = "assistant" THEN AssistantInit ELSE AssistantUnused
    /\ IF part = "control" THEN ControlInit ELSE ControlUnused
    /\ IF part = "pitches" THEN PitchesInit ELSE PitchesUnused
    /\ IF part = "masters" THEN MastersInit ELSE MastersUnused
    /\ IF part = "proposals" THEN ProposalsInit ELSE ProposalsUnused
    /\ IF part = "matching" THEN MatchingInit ELSE MatchingUnused
    /\ IF part = "language" THEN LanguageInit ELSE LanguageUnused
    /\ IF part = "registers" THEN RegistersInit ELSE RegistersUnused
    /\ IF part = "monitoring" THEN MonitoringInit ELSE MonitoringUnused

ServicesNext ==
    \/ part = "limiter" /\ Next /\ UNCHANGED onlyLimiter
    \/ part = "signals" /\ SignalsNext /\ UNCHANGED onlySignals
    \/ part = "sessions" /\ SessNext /\ UNCHANGED onlySessions
    \/ part = "market" /\ MarketNext /\ UNCHANGED onlyMarket
    \/ part = "tickets" /\ TicketsNext /\ UNCHANGED onlyTickets
    \/ part = "assistant" /\ AssistantNext /\ UNCHANGED onlyAssistant
    \/ part = "control" /\ ControlNext /\ UNCHANGED onlyControl
    \/ part = "pitches" /\ PitchesNext /\ UNCHANGED onlyPitches
    \/ part = "masters" /\ MastersNext /\ UNCHANGED onlyMasters
    \/ part = "proposals" /\ ProposalsNext /\ UNCHANGED onlyProposals
    \/ part = "matching" /\ MatchingNext /\ UNCHANGED onlyMatching
    \/ part = "language" /\ LanguageNext /\ UNCHANGED onlyLanguage
    \/ part = "registers" /\ RegistersNext /\ UNCHANGED onlyRegisters
    \/ part = "monitoring" /\ MonitoringNext /\ UNCHANGED onlyMonitoring

ServicesSpec == ServicesInit /\ [][ServicesNext]_servicesVars

----------------------------------------------------------------------------
(* The state of every service is well typed, with what each module's type  *)
(* invariant says of how its parts belong together.                        *)
TypesOK ==
    /\ part = "limiter" => TypeOK
    /\ part = "signals" => SignalsTypeOK
    /\ part = "sessions" => SessionsTypeOK
    /\ part = "market" => MarketTypeOK
    /\ part = "tickets" => TicketsTypeOK
    /\ part = "assistant" => AssistantTypeOK
    /\ part = "control" => ControlTypeOK
    /\ part = "pitches" => PitchesTypeOK
    /\ part = "masters" => MastersTypeOK
    /\ part = "proposals" => ProposalsTypeOK
    /\ part = "matching" => MatchingTypeOK
    /\ part = "language" => LanguageTypeOK
    /\ part = "registers" => RegistersTypeOK
    /\ part = "monitoring" => MonitoringTypeOK

(* The limiter admits no more in the length of a window than its windows   *)
(* and the clean-up explain (RateLimiter).                                 *)
LimiterSpanBound == part = "limiter" => SpanBound

(* A tenant is refused only after as many admitted requests of its own,    *)
(* also when the clean-up removed its window in between (RateLimiter).     *)
LimiterNoFalseRejection ==
    [][part = "limiter" => NoFalseRejection]_servicesVars

(* A retracted row is shown again only when its page is extracted anew     *)
(* (Signals).                                                              *)
SignalsRetractedIsHidden == part = "signals" => RetractedIsHidden

(* A verdict of a review is changed by a review only, in whatever order an *)
(* agent repeats its finding (Signals).                                    *)
SignalsReviewSurvives ==
    [][part = "signals" => ReviewSurvives]_servicesVars

(* A retraction that reports success left no row of its claim but those    *)
(* that were held or written while it ran (Signals).                       *)
SignalsRetractionLeavesNone ==
    [][part = "signals" => RetractionLeavesNone]_servicesVars

(* A token whose logout Redis obeyed is refused whenever Redis answers, as *)
(* long as the token is valid (Sessions).                                  *)
SessionsLoggedOutIsRefused == part = "sessions" => LoggedOutIsRefused

(* What was taken from an account is lost to its tokens within a day       *)
(* (Sessions).                                                             *)
SessionsRightsEndWithinADay == part = "sessions" => RightsEndWithinADay

(* Nobody holds a company without an approval of a claim to it, and no row *)
(* names a company that a merge removed (Marketplace).                     *)
MarketHoldersWereApproved == part = "market" => HoldersWereApproved

(* Private programmes are listed to an approved claimant of their company  *)
(* only (Marketplace).                                                     *)
MarketPrivateSeenByClaimant == part = "market" => PrivateSeenByClaimant

(* Whoever changes the visibility of a programme was approved for the      *)
(* company it had when the right was checked (Marketplace).                *)
MarketManagedByClaimant ==
    [][part = "market" => ManagedByClaimant]_servicesVars

(* A customer is mailed only a text the draft had when it was approved, or *)
(* got while the approval was being served (Tickets).                      *)
TicketsRepliesWereInReview == part = "tickets" => RepliesWereInReview

(* An e-mail becomes one ticket at most, and one that became none is       *)
(* accounted for (Tickets).                                                *)
TicketsEachMailOnce == part = "tickets" => EachMailOnce

(* A reply is made from its reader's own words, the programmes of the      *)
(* reader's own organisation and the feed only (Assistant).                *)
AssistantNothingOfOthersButFeed == part = "assistant" => NothingOfOthersButFeed

(* A thread holds messages of its owner only, and an administrator who     *)
(* finds it in the list is shown them all (Assistant).                     *)
AssistantThreadsKeepToOwner == part = "assistant" => ThreadsKeepToOwner

(* A context is accepted a second time only after a whole life of a        *)
(* context (AgentControl).                                                 *)
ControlAcceptedALifeApart == part = "control" => AcceptedALifeApart

(* Caps are exceeded by what runs at the same time can cost, and no more   *)
(* (AgentControl).                                                         *)
ControlOvershootBounded == part = "control" => OvershootBounded

(* The proposal of a deal speaks of what the institution's own programmes  *)
(* said at some time, and own deals alone are charged to it (Pitches).     *)
PitchesFromOwnPrograms == part = "pitches" => PitchFromOwnProgram

(* A document is made from the own master or the built-in one, and a key   *)
(* in use names a file that was written (Masters).                         *)
OwnMastersOnly == part = "masters" => MastersAreOwn

(* Who reads page after page until one is empty has seen every proposal    *)
(* that was there at the start (Proposals).                                *)
ProposalsNoneSkipped == part = "proposals" => NoneSkipped

(* The companies that suit a programme best are answered, the better first *)
(* (Matching).                                                             *)
MatchingBestAreListed == part = "matching" => BestAreListed

(* A finding comes from the first model that answers and is rated by what  *)
(* its text shows (LanguageModels).                                        *)
LanguageFindingIsFounded == part = "language" => FindingIsFounded

(* A registration names no company whose own row says nothing of that      *)
(* register (Registers).                                                   *)
RegistersRegisteredHasNumber == part = "registers" => RegisteredHasNumber

(* What is watched of a company ends with it, and no plea is overlooked    *)
(* (Monitoring).                                                           *)
MonitoringWatchedExists == part = "monitoring" => WatchedExists
=============================================================================
