# Sovera CSR intelligence backend: TLA+ models, checks and proofs

This directory is a verification development kept beside the repository
`sovera-csr-api`: TLA+ modules that model the stateful parts of the backend, TLC
configurations that check them on small instances, and proofs, checked by TLAPS, of
the safety properties that matter most.  File names below are relative to `src/`.

## 1. Inventory

The system is a Go backend in two processes that share a PostgreSQL database and a
Redis (task queue `asynq`, and a set of revoked tokens).

* `cmd/api` serves HTTP: users, tenants, companies, claims, programmes, proposals, deals,
  subscriptions, support, webhooks of the scraper and of two payment gateways, and the
  endpoints the OpenClaw agents call.  It also runs the IMAP ingestion goroutine and the
  migrations at every start.
* `cmd/worker` runs an asynq server (10 goroutines, 15 queues) and a cron scheduler.
  Dispatch of crawl tasks every 2 minutes and once at start-up, fallback polling every
  15, a URL health check every 5, enrichment, discovery and social sweeps every 6-12
  hours.
* Outside: the WebScraper service, Midtrans and Faspay, an LLM gateway, Serper, IMAP and
  Telegram, and the OpenClaw node scripts (`openclaw/`).

Nothing in the Go code takes a row lock across statements, except the retraction
worker's `FOR UPDATE SKIP LOCKED`; few handlers run more than one statement in a
transaction (settlement of a payment, registrations, a batch of a retraction, reads scoped
to a tenant).  So most handlers are sequences of atomic SQL statements whose errors are
often logged and ignored, and the interesting behaviour is in how those sequences
interleave, what a crash between two of them leaves behind, and what happens when an
outside call is lost, repeated or late.

| component | state | operations | hard behaviour | correct when | module |
|---|---|---|---|---|---|
| crawl pipeline (`internal/queue/crawler_dispatcher_worker.go`, `internal/handler/webhook.go`, `internal/repository/crawler_repo.go`) | `crawling_targets`, `crawling_logs`, the scraper's tasks | dispatch cycle, callback, poll, create, reset | overlapping cycles, lost / repeated / late callbacks, crash between statements, LIMIT of a poll | log and scraper agree, a report takes effect once, every finished task is settled | `Crawler` |
| URL health check (`internal/queue/url_health_check_worker.go`) | the same rows, through a snapshot | sweep | writes from a snapshot minutes old | columns stay consistent, dead URLs end switched off | `CrawlerHealth` |
| subscriptions and payments (`internal/service/subscription_service.go`, `internal/repository/subscription_repo.go`, webhooks) | `tenant_subscriptions`, tiers, invoices, transactions | usage, checkout, two webhooks | repeated and reordered notifications, first-use race, restart | a plan is in force because it is the trial or was paid | `Billing` |
| throttling (`internal/middleware/rate_limiter.go`) | windows per tenant and per IP | request, clean-up | two locks, entries removed while held | nobody is refused without cause; a bound on what a minute admits | `RateLimiter` |
| signals (`internal/queue/extraction_worker.go`, `retraction_worker.go`, `signal_repo.go`, findings in `ai_agent_repo.go`) | `company_signals`, findings of the agents, claims | extract, submit, mirror, review, promote, retract | retries of a paid call, a batch against an upsert, a finding repeated after its review | a retracted row stays hidden until its page is extracted anew; a verdict survives | `Signals` |
| sweeps over profiles (`internal/queue/company_*_worker.go`, `internal/service/urlverifier`) | links and status columns of `companies` | verify, search, fill, trigger, edit | stale batches, goroutines beside the queue, a batch loop that an error keeps going | VALID means accepted; nothing is erased unrefused; a sweep ends | `Profiles` |
| sessions (`internal/handler/auth.go`, `internal/middleware`) | tokens, `revoked_tokens` in Redis, keys of agents | register, login, logout, guards | one expiry for the whole set, rights inside tokens, failing Redis | a token logged out is refused; rights end within a day | `Sessions` |
| claims and visibility (`internal/handler/company_claim.go`, `company_claim_repo.go`, `cmd/merge_duplicates`) | claims, owners, programmes | submit, decide, change visibility, list, merge | check and write in separate statements, a merge in between | who holds or manages was approved | `Marketplace` |
| support (`internal/service/support`, `support_handler.go`) | mailbox, tickets, drafts | poll, draft, edit, decide, send | stops between store and mark, an edit during an approval | a mail is one ticket; what is sent was in review | `Tickets` |
| tenant assistant (`internal/handler/org_ai_*.go`, `internal/service/ai/tenant_chat.go`) | threads, chat log | chat, list, archive | threads of others, tools, failures, readers that forget the organisation | of others' words and programmes a reply tells nothing | `Assistant` |
| control of agents (`internal/service/ai`) | contexts, nonces, cost counters | sign, verify, run, count, halt | check and count apart, two precisions of time | no early replay, overshoot bounded | `AgentControl` |
| programmes, deals, pitches (`internal/handler/deals.go`, `program_repo.go`, `deal_repo.go`) | rows of an institution | create, move, generate | a pitch over several transactions | a pitch speaks of own programmes | `Pitches` |
| masters and exports (`internal/handler/templates.go`, `internal/service/exporter`) | files, their keys | upload, reset, export | file and row apart | a document is made from the own master or the built-in one | `Masters` |
| proposals (`proposal.go`, `proposal_repo.go`) | proposals | submit, review, list | pages over a list that grows | none is skipped | `Proposals` |
| matching (`internal/repository/ai_agent_repo.go`) | directory | score, sort, cut | only the first rows are read | the best are answered | `Matching` |
| language models (`internal/service/ai/gemini.go`) | one extraction | ask, wait, parse, rate | seven models, retries | founded ratings | `LanguageModels` |
| registers (`ahu_repo.go`, `oss_repo.go`, `kbli_repo.go`) | registrations and their copy | upsert, link | copy written with its error ignored | a company that a registration names has some number of that register in its own row | `Registers` |
| watch list, people, groups (`watchlist_repo.go`, `key_person_repo.go`, `company_repo.go`) | rows hanging on companies | add, toggle, ingest, link, merge, deduplicate | a company merged or removed in between, with or without its people | what is watched exists | `Monitoring` |
| administration, other queries, adapters, tools, configuration | none shared by several steps | read, single writes | - | - | section 6 |

## 2. Plan

Modules, in the order of what the backend would lose most by getting wrong.

| # | modules | checked by | proved |
|---|---|---|---|
| 1 | `CrawlerTables`, `Crawler` | `CrawlerRaces`, `CrawlerAdmin`, `CrawlerLive`, two claims | `CrawlerProofs` |
| 2 | `CrawlerHealth`, which composes the pipeline with the health check over the same rows | `HealthColumns`, `SweepsLive` | `SweepsProofs` |
| 3 | `Entitlement`, `Billing`: payments, and the promise they implement | `BillingRaces`, `BillingLive`, two claims | `BillingProofs`, with the refinement |
| 4 | `Profiles` | `SweepsLive` | `SweepsProofs` |
| 5 | `Sessions`, `Marketplace` | `Services` | `AccessProofs`, `ServicesProofs` |
| 6 | `RateLimiter`, `AgentControl` | `Services` | `LimitsProofs`, `ServicesProofs` |
| 7 | `Signals`, `Registers`, `Monitoring` | `Services` | `FeedProofs`, `ServicesProofs` |
| 8 | `Tickets`, `Assistant`, `Pitches`, `Masters`, `Proposals`, `LanguageModels`, `Matching` | `Services` | `DeskProofs`, `ServicesProofs` |

Abstract specifications: `Entitlement`.  The crawl pipeline and the health check share rows
and are composed step by step; so are extraction, findings and retraction in `Signals`,
and claims, visibility and merging in `Marketplace`, because they meet in the same rows.
The other services have no table that another one's properties read, and are put side by side
(section 4).

Every safety invariant and action property of a passing run is a theorem.  Next, in the order
of their worth: abstract specifications of `Signals` (a row is shown or it is not) and of
`Tickets` (a mail is waiting, filed or lost), with refinements; the step lemmas that
liveness of the crawl pipeline rests on (a finished task stays finished, a poll takes the oldest rows).

## 3. Modules and code

Conventions.  One SQL statement, one request to an outside service, or one critical
section is one step; a handler is a state machine with a program counter that walks
through its statements in the order of the code, and every error path is a disjunct.  A
call fails only if its name is in the constant `Faults`, so an instance says which.
Mutants (variants of a definition with a plausible bug, used to show that a property can
fail) stand beside the definition they vary and say so.

**CrawlerTables** holds the two tables and their statements as functions on rows:
`CreateTarget`, `UpdateTargetNextRun`, `RecordSuccess`, `RecordFailure`, `ResetRow`,
`Due`, `CreateLog`, `UpdateLogStatus`, `Pending` are the functions of the same name in
`internal/repository/crawler_repo.go`.  Time is a clock of small integers, the back-off
windows a sequence (`Backoff`), and a task id a pair of target and clock reading, because
the code builds it from the target and `time.Now().Unix()`.

**Crawler** has the handlers: the dispatch cycle (`StartCycle`, `LogDispatch`, `PostTask`,
`DispatchFailed`, `AdvanceNextRun`), the callback (`Deliver`, `CallbackFailLog`,
`CallbackFailTarget`, `CallbackOkTarget`, `CallbackOkLog`, `CallbackEnqueue`), the fallback
poll (`StartPoll`, `AskStatus`, `PollLog`, `PollTarget`), the administrator's `AddTarget`,
`ResetTarget`, `ResetAll`, and a crash of each handler between any two of its steps.  The
scraper is external: `FinishTask` and how often it calls back.  Left open: the order
inside a batch (any) and the delay between hosts (any).

**CrawlerHealth** adds the health check.  A sweep reads up to `CheckLimit` rows with
their failure count (`StartCheck`), and later writes each row from that count (`Verify`),
while the pipeline goes on.  The verifier may return any of the results its code can
build.  `last_http_status` may be NULL or 0; the rows write NULL as 0, so the verifier's 0 is
`NoAnswer`.

**Billing** has the checkout (invoice, gateway order, transaction, answer), the webhook
(log, settlement, final status and answer), the trial that `GetTenantSubscription` writes
when it finds no row, tiers given by administrators, and `Restart`: the API runs every
migration again at each start (`cmd/api/main.go:62`), seed data included, so
seeded organisations get their tier and status again and organisations without a
subscription get one.  Settlement is one step, because its statements run in one
transaction and lock the rows they change.  The gateway is external: `Progress` lists how
a payment may go, and a notification not answered 200 is delivered again.
**Entitlement** is the abstract promise: `Purchase` records a payment and puts its plan in
force together, `Enter` puts a plan in force that has a cause, `Give` and `Reseed` are tiers
given.  The mapping reads a plan in force from `tenant_subscriptions`, what was paid from
PAID invoices.

**RateLimiter** has requests (`Arrive`, `Lookup` under the mutex of the store,
`EnterWindow` to `Reject` or `Admit` under the mutex of the window) and the clean-up
(`StartSweep`, `SweepEntry` per entry, `EndSweep`), which holds the first and takes the second in
turn.  A request keeps its pointer between the two critical sections, so windows are
objects with addresses and one that was removed from the map can still be counted in.  `admitted` is
a history: the admissions of each key by the clock reading at which they came, numbered
within it.  The
middlewares for tenants and for IPs are the same code over two stores; one is
modelled.

**Signals** has the queue's extraction of a page (`EnqueueExtraction`, `Extract`,
`ResolveCompany`, `Skip`, `SaveSignal`, `TaskFails`), with a retry after each failure, the
submission of a finding and its mirror in the feed, the review and the promotion of an approved
finding, and a retraction (`StartRetraction`, `SelectBatch`, `CommitBatch`), which locks the
rows of a batch and skips those another one locked.  `SaveSignal` is the upsert on
`content_hash` of `signal_repo.go`; a page and a finding that name the same URL meet in
one row.

**Profiles** has the eight workers: four that verify a link on a social network, two that
search for one, two that fill in a website or a contact.  They differ in their query, the
verifier and the statements, which are definitions of their own, and share their loop: take a
batch, ask, write, take the next.  The endpoints start the same loops as goroutines beside the
queue.  `UpdateCompany`, `CreateCompany` and the callback's `DiscoveredWebsite` write
the same columns; a behaviour watches the columns of one network.

**Sessions** has accounts, tokens and keys; the guards (`AuthenticateJWT`,
`AuthenticateJWTOrAgentKey`, `OrgAIAuthMiddleware`, `RequireRole`,
`RequireVisibilityAccess`, `AIAgentAuthMiddleware`) are predicates of a token and of whether Redis
answers.  Hours pass (`Hour`): tokens expire, and Redis drops the whole set of
revoked tokens when the time it was last given is over.  `stood` is a history
variable: when an account last had a role and was active.

**Marketplace** has a request to claim a company (`SubmitClaim`, `InsertClaim`), to decide a
claim (`DecideClaim`, `ClaimFirm`, `VerifyTenant`: three statements) and to change
the visibility of a programme (the check of the right, then the write), each of which may be cut short
(`Abandon`), and the merge of two companies.

**Tickets** has the mailbox and its poller, drafts and their edits, decisions, and the
reply, which reads the text after the decision was written.  **Assistant** has a chat from the
resolution of its thread to its log; texts carry labels of whose words,
programmes and feed (signals and watch list) they were made from, which is what a reply could give away.
`SearchSignalsByOrg` and `ListWatchlistByOrg` are given the organisation and do not use it, so
their answers carry the feed of every organisation.  **AgentControl** has
signed contexts (`CreateSignedContext`, `VerifyAndParseContext`, seconds against ticks), the store of
nonces with its janitor, and runs between `CheckLimit` and `TrackUsage`.

**Pitches** and **Masters** have what an institution generates: programmes, deals and their stages,
the pitch in its transactions, and the master a document is made from.
**Proposals** has the list on both sides and its readers; the order of the list is that of the
rows each row was created after (`older`), so that a row's place in a list is the number of newer
rows in it.  **Matching** has the query and the scores as functions over every directory of a few
companies, and the exchange sort comparison by comparison (`Compare`), since each exchange rests on
the ones before.  **LanguageModels** has one extraction: models asked in turn, waits, the choice of an answer
and its rating.  **Registers** and **Monitoring** have what hangs on the row of a company.
Companies go in two ways.  `cmd/merge_duplicates` merges a pair in a transaction: `TransferKeyPersons` moves
the people of the duplicate, unseen until the commit, and `DeleteDuplicate` deletes it, with its posts, its row
of the watch list and whoever was added to it in between; `RollBackMerge` is any failure.  Posts a moved person wrote
about other companies stay.  `POST /admin/dedup` (`DeduplicateCompanies`) moves no people, so they and all their posts go.
The locks that the transaction holds are guards: a person being moved is not deleted, and a deduplication of the same companies waits.

**MCServices** puts fourteen of these services side by side.  They share no state, so an interleaving
of two of them shows nothing that each alone does not: a variable `part` picks one, the
behaviour is one of that service, and the variables of the others hold `Unused`.  A
property of the run is that of the module under `part = ...`.  **MCSweeps** does the same for the
health check and the profiles, and has the fairness of both.

## 4. Runs

| run | question | outcome |
|---|---|---|
| `CrawlerRaces` | two overlapping cycles, a callback and a poll on one target, requests failing before or after the scraper has them | a task the scraper knows is in the log (`AcceptedIsLogged`); a log says COMPLETED only if the scraper said so (`CompletedMeansScraped`); a failure found by callback and poll counts once for each, and no more (`EachReportOnce`) |
| `CrawlerAdmin` | creation and resets racing a cycle and two repeated callbacks, with failing statements and a crash | the breaker columns agree (`HealthDerivable`); no report counts or is extracted twice (`EachReportOnce`) |
| `CrawlerLive` | callbacks lost, refused or killed half-way, log rows not inserted | every finished task leaves DISPATCHED (`FinishedIsSettled`) |
| `HealthColumns` | the sweep's late writes against cycles, callbacks, resets, a crash | what holds of the columns with two writers (`BreakerColumnsAgree`); a target that is off and unread stays off (`OffStaysOff`) |
| `SweepsLive` | the sweeps with fairness: overlapping health checks with LIMIT 1, or overlapping passes over two companies in batches of one, with an edit, an hour, a failed update or a kill | a URL that keeps failing ends switched off (`DeadUrlIsSwitchedOff`); a pass ends (`SweepEnds`); VALID is what a verifier accepted (`ValidIsAccepted`); a sweep erases only what was refused (`ErasedOnlyRefused`) |
| `BillingRaces` | two orders, repeated and reordered notifications on two goroutines, a trial, a tier given, a restart, a failing call | `PaidWasReported`, `PayableIsRecorded`, and the refinement `KeepsPromise` |
| `BillingLive` | failing settlements and a restart | `EveryPaymentSettles` |
| `Services` | the other services, one in each behaviour | the properties below |
| `ClaimThrottled` | "If non-429 failures >= 5" (`crawler_repo.go:127`) | violated: a 429 counts towards the limit, it only does not trip by itself |
| `ClaimPollerReaches` | "the periodic poll will synchronise the status" (`docs/CRAWLER_ORCHESTRATION_SPEC.md:159`) | violated when rows that never settle fill the LIMIT of the poll |
| `ClaimIdempotent` | idempotent webhook processing | violated: a notification that is repeated restarts its plan, over a later one |
| `ClaimTrial` | "Auto create free trial if missing" (`subscription_repo.go:137`) | violated: the trial is written over a plan settled after the read |

What `Services` shows of each service:

| service | properties | instance |
|---|---|---|
| throttling | `LimiterSpanBound`: up to twice the largest limit of the routes that share the store in a window's length, and one more for each request that held a removed window; `LimiterNoFalseRejection` | two requests to routes with different limits, windows of one tick, removal after two, five ticks: a window is removed while held, and its successor fills, expires and fills again |
| signals | `SignalsRetractedIsHidden`, `SignalsReviewSurvives`, `SignalsRetractionLeavesNone` | a page and a finding with one URL, two calls, batches of one, one retry |
| sessions | `SessionsLoggedOutIsRefused`, `SessionsRightsEndWithinADay` | one account, two tokens, a key, a life of two hours within three |
| claims | `MarketHoldersWereApproved`, `MarketPrivateSeenByClaimant`, `MarketManagedByClaimant` | two tenants, two companies, a programme, two requests |
| tickets | `TicketsRepliesWereInReview`, `TicketsEachMailOnce` | two mails, one of them blank, two texts, two reviewers, a stop |
| assistant | `AssistantNothingOfOthersButFeed`, `AssistantThreadsKeepToOwner` | two colleagues, one an administrator, a stranger, two threads, two logged turns, which a third reads |
| agent control | `ControlAcceptedALifeApart`, `ControlOvershootBounded` | a tenant's and a global context, two runs, two ticks a second |
| pitches | `PitchesFromOwnPrograms` | two institutions, two programmes and wordings, two writers |
| masters | `OwnMastersOnly` | two institutions, two requests, a broken upload |
| proposals | `ProposalsNoneSkipped` | three proposals, pages of two, a reader |
| matching | `MatchingBestAreListed` | four companies of three tiers, three of them read, every kind of request |
| language models | `LanguageFindingIsFounded` | three models, three attempts, every kind of answer |
| registers | `RegistersRegisteredHasNumber` | two companies and deeds, a permit, a code |
| monitoring | `MonitoringWatchedExists` | two companies, two people (one moves, one comes too late), a post, a request to the watch list, a merge |

`TypesOK` is the type invariant of the fourteen.  Those of `Crawler`, `CrawlerHealth`, `Billing` and `Profiles` are
proved (section 5) and not run.  The run has 783,338 distinct states.  `part` is chosen at the start, so deadlock is not
checked here: a service that has done all its bounds allow stops.

**Bounds.**  One target (two in `SweepsLive`): rows never refer to one another, and what
targets share is the LIMIT of a query, which `SweepsLive` and `ClaimPollerReaches` set to 1.
`BreakerLimit` is 2 instead of 5 and `CheckFailures` 2 instead of 3, so that a breaker trips, is
reset and trips again within two log rows; the value is compared with a counter and
nothing else.  `MaxLogs` 2 gives two tasks, hence an old and a new one to confuse;
`MaxDeliveries` 2 a repeated callback; `MaxCrashes` 1 a handler that dies; `MaxTime` 1 or 2 a
log that becomes old enough to poll, a target that becomes due again.  No new task is made
so late that the clock could not reach the age at which it is polled (the guard of
`LogDispatch`), else the bound itself would break `FinishedIsSettled`.  `MaxFailures` bounds
the count that overlapping sweeps write.  In `Billing`, two orders are an old purchase and a
later one, two hooks two goroutines, `MaxErrors` one failing call in the safety run and two in
the liveness run; `BillingLive` has no readers, for they write no order.  `MaxEvents` of
`Profiles` is one event (edit, hour, failure or kill) beside two passes: each event alone is what a pass
can miss, and two passes are two events for one another.  Readers of `Proposals` ask for
pages of the standard or of the largest size, which are equal in the instance.

**Symmetry.**  `Services` permutes three pairs of values, each of which stands for two interchangeable
members of one or more sets.  No set is ordered by a CHOOSE over model values, no liveness property is
checked in that run, and the constants that distinguish members (`OrgOf`, `TenantOf`, `Blank`,
`Admins`) are of strings and not of permuted values.

`CHECK_DEADLOCK FALSE` is set where a bound stops the system at the end of the explored
horizon; `CrawlerAdmin`, which does not stop, checks deadlock.

**What each property says at its limits.**  `HealthDerivable` is about the pipeline alone:
the health check writes the same columns by other rules, and with it only
`BreakerColumnsAgree` is true.  `EachReportOnce` counts each callback that was
delivered once, so a repeated callback counts again; a poller that finds the same failure counts it once more, for
each log and poller at most once; it says nothing of pollers where the marking of a log can fail, since the next poll then
reads that log again.  `FinishedIsSettled` holds as long as all logs that never
settle fit in one poll's LIMIT, and `ClaimPollerReaches` shows why.  `KeepsPromise`
says that plans have causes and payments are never taken back; it does not say that
the plan in force is the one bought last.  `RetractedIsHidden` excepts a page that is
extracted again after its retraction, since the upsert gives it its relevance back.
`LoggedOutIsRefused` is about the guard that reads Redis, logouts Redis obeyed and
requests it answers.  `EachMailOnce` counts a mail lost by a stop or a failed INSERT as accounted for.
`RepliesWereInReview` allows a text that was put into the draft while its approval was being served.
`BestAreListed` promises nothing between companies of neighbouring tiers, because only the first
rows are read and ranked.

**Fairness.**  asynq keeps starting cron tasks and retries those a crash interrupted, and a
handler that runs goes on (weak fairness of each goroutine's steps); the clock moves; the
scraper finishes what it accepted.  Callbacks, administrators and crashes get none.  For
payments, a gateway delivers a notification until it is answered 200; the goroutine that
serves it is shared with other notifications, hence strong fairness, as an assumption on
the environment.  A sweep over profiles goes on while it runs (weak fairness of its own step
`Work`), and nothing starts one.  In the liveness runs failures are bounded in number: no retry helps
against a call that always fails.

**Seen in the model, kept as remarks.**  Facts about the code that modelling and exploring
showed, where no document says otherwise clearly enough:

Crawling and payments
* one failure reported by callback and found by a poll is counted twice;
* `UpdateTargetNextRun` of a cycle overwrites the back-off window that a fast 429 callback set;
* a poll that dies between the log and the target loses that failure for good;
* an enqueue that fails leaves a COMPLETED log without an extraction job, and the answer is 202;
* two cycles in one second give a target the same task id twice;
* a success of an older task leaves a tripped target HEALTHY and off;
* a target that is switched off while a cycle works on its batch is still sent;
* a sweep's write from its snapshot undoes a breaker that tripped meanwhile, and a 429 seen by
  a sweep switches a target on; `GetDueTargets` does not exclude `DEAD`, only `DISABLED_DEAD_LINK`;
* a restart gives a seeded organisation that has paid its old tier again, and seeds
  subscriptions for organisations that are not active;
* a failed payment leaves invoice and transaction PENDING;
* routes with limits 20 and 10 share one store, and limits 60, 10 and 5 another, so calls to one
  route exhaust another's.

Companies and their data
* `POST /admin/dedup` (`admin.go:643-648`) deletes the people of the duplicates, whom the merging tool moves, and their posts;
  that tool can never merge two companies that both have a CSR profile, whose `company_id` is UNIQUE, because the failed move (`main.go:86`) aborts the transaction;
* a network error makes a link INVALID, where `docs/ARCHITECTURE.md:273` speaks of dead links;
* `CreateCompany` relies on a conflict on the trimmed, lower-case name (`company_repo.go:437`), for which no migration
  makes a unique index;
* the automatic linking of one group can make its root its own parent (`company_repo.go:717-719`);
* an AHU number that moves stays with the former company as well, and `LinkCompanyAHU` writes numbers no register has;
* a post that is reported again stays with the first company's row and changes it; a toggle of
  the watch list resets its keywords to the defaults;
* `csr_opportunity` queries name a column `org_id` that the table does not have (`tenant_id`), so they always fail;
* the search of the agents scans six of seven columns (`ai_agent.go:173`), so its second source yields nothing;
* a model's answer with a quote that is not in the text can still be HIGH_CONFIDENCE (`gemini.go:215-219`), and a
  third 429 still sleeps before the next model; the exchange sort of the matching is not stable.

People and texts
* the assistant's signals and watch list are those of every organisation: `org_ai_repo.go:289-357` takes the
  organisation and does not use it, and neither table has a column for it.  `docs/PRD-Dashboard-AI-Chat-Multi-Tenant.md:188` says "List
  watchlist milik tenant aktif saja", :226 that the tool calls `ListWatchlistByTenant(ctx.TenantID)`, :429 "Query ke tabel data
  tenant (signals, watchlist) selalu punya `WHERE org_id = $1`", and the tool's description
  (`tenant_chat.go:157`) and a comment (`org_ai_chat.go:128`) speak of the organisation's list.  No run is made of it: it is one statement without a
  condition, which the labels of `Assistant` show, and `NothingOfOthersButFeed` says that nothing else gets out that way;
* an agent's key that was deactivated is active again after a restart, against
  `docs/PRD-Implementasi-OpenClaw-CSR-Intelligence.md:630`; two guards never read the set of revoked tokens;
* fetching a mail's body marks it as seen before it is stored (`imap_ingest.go:240` marks it again), so a failure in between
  loses it; a rejected draft is never pending again, and a reply is SENT before it is sent;
* an upload is compared with its own extension and not with the declared kind (`templates.go:116`), a failed one leaves a
  broken master in use, and a reset leaves the file;
* the stage of a deal is moved by a suffix of its id; a proposal that is stored is answered 500 when its
  reviewer's notes are NULL, so a retry stores it twice; `limit=0` divides by zero in the number of
  pages (`proposal.go:95`, `csr_opportunity.go:109`), and total and page are read by two queries;
* token numbers are invented when a call to a model fails (`token_log_repo.go`);
* a context may be accepted twice at the boundary of a second, a whole life apart (`security.go:80`).

## 5. Proofs

Eight modules prove, for every value of the constants that satisfies the assumptions their
modules name (`CrawlerAssumption`, `BillingAssumption`, `SessionsAssumption`,
`MarketAssumption`, `ControlAssumption`, `LimiterAssumption` and those of the other modules), with no bound on
processes, rows or time beyond the guards of the model.  The assumptions say that limits and
bounds are naturals, that marks such as Nobody are not members of the sets they are
distinguished from, that the sets a proof counts (webhooks, requests, proposals, companies, runs) are finite,
that the trial is a plan and the seed part of the organisations, and, in
`Sessions`, that the set of revoked tokens is kept no shorter than a token lives (both are 24 hours),
and, in `RateLimiter`, that an entry is removed no earlier than its window ends (2 minutes against 1).
A theorem of the services is proved of its own module and then said of the composition.

| theorem | statement | argument |
|---|---|---|
| `TypeCorrect` | `Spec => []TypeOK` of `Crawler` | inductive by itself; one lemma per handler |
| `HealthCorrect` | `[]HealthDerivable` | inductive given types: each statement on a row computes the three columns together (`RowHealth`) |
| `CompletedCorrect` | `[]CompletedMeansScraped` | needs `CarriesAnswer`: what a callback or poll carries across its statements is still what the scraper says, since a finished task never changes, and the callback branches that write COMPLETED carry a success |
| `LoggedCorrect` | `[]AcceptedIsLogged` | needs `CyclesLogged`: a cycle between insert and answer has its row, and rows are never removed |
| `HealthTypeCorrect` | `HealthSpec => []HealthTypeOK` | the pipeline's lemmas for its steps; a sweep holds natural counts for the rows it read and only gives rows up |
| `BreakerColumnsCorrect` | `[]BreakerColumnsAgree` with two writers | inductive given types: each row the sweep writes, from whatever count it holds, satisfies it (`RowMarks`, `VerifyMarks`) |
| `BillingTypeCorrect`, `PaidCorrect`, `PayableCorrect` | `[]TypeOK`, `[]PaidWasReported`, `[]PayableIsRecorded` | parts of one inductive invariant `BillingInv` |
| `BillingKeepsPromise` | `Spec => KeepsPromise`, the refinement of `Entitlement` | `BillingInv` and `TiersGiven` |
| `BillingGivesNoFreePlan` | `Spec => []E!NoFreePlan` | follows from the abstract steps alone |
| `ProfilesTypeCorrect`, `ValidCorrect` | `[]ProfilesTypeOK`, `[]ValidIsAccepted` | parts of `ProfilesInv` |
| `ErasedCorrect` | `ErasedOnlyRefused` | steps from states of `ProfilesInv` |
| `ReportsCorrect` | `[]EachReportOnce` | `ReportsKept`: there are rows in the pollers' hands with which `ReportsInv` holds, which counts the callbacks and polls under way as well |
| `OffStaysOffHolds` | `HealthSpec => OffStaysOff` | steps from well-typed states; a sweep that does not hold the row cannot write it |
| `ServicesCorrect`, `TypesHold` | the inductive invariants of the fourteen services, and `[]TypesOK` | every step of the composition is a step of the part or leaves its variables alone (`PartSteps`) |
| `LoggedOutHolds`, `RightsHold` | the two properties of `Sessions` | `SessInv` |
| `HoldersHold`, `PrivateHolds`, `ManagedHolds` | the three of `Marketplace` | `MarketInv` |
| `SpanBoundHolds`, `NoFalseRejectionHolds` | the two of `RateLimiter` | `LimiterInv` |
| `AcceptedHolds`, `OvershootHolds` | the two of `AgentControl` | `NonceInv`, `CostInv` |
| `RetractedHolds`, `ReviewSurvivesHolds`, `RetractionHolds` | the three of `Signals` | `SignalsInv` |
| `NumbersHold`; `WatchedHolds` | of `Registers`; of `Monitoring` | `RegistersInv`; `MonitoringInv`: inductive with their types, said row by row; a merge under way keeps the duplicate, the people it moves in it, and the company they go to (`MergeKept`) |
| `RepliesHold`, `MailsHold` | the two of `Tickets` | `TicketsInv` |
| `OwnWordsHold`, `ThreadsHold` | the two of `Assistant` | `AssistantInv` |
| `PitchesHold`; `MastersHold` | of `Pitches`; of `Masters` | `PitchesInv`; `MastersInv` |
| `NoneSkippedHolds` | of `Proposals` | `ProposalsInv` |
| `FoundedHolds` | of `LanguageModels` | `LanguageInv` |
| `BestHold` | of `Matching` | `MatchingInv` |

Each service's own module of proofs says, for an invariant `XInv`, that it holds at the start
(`XInvInit`), is kept by each step (`XInvStep`) and implies the properties; `ServicesProofs` puts them
together.

`BillingInv` is stronger than what the runs check because none of the three is inductive:
that a settled order was reported needs that a goroutine about to settle holds a notice
which was sent (`HooksCarry`); that its transaction exists needs that notices are only
sent for orders offered to a customer (`NoticesAreOffered`), and that an order is offered
only after its transaction was recorded, which in turn needs that a checkout works on an
order of its own that no other checkout holds (`CheckoutsOwn`).  The refinement needs
`TiersGiven`: an organisation without a subscription still has a tier it was given (a
purchase or trial that changes the tier also leaves a subscription), so that a restart,
which turns tiers into subscriptions, has a cause for each.

`ProfilesInv` adds two things to `ValidIsAccepted`: a sweep holds each company of its batch once,
and an answer that says a link is good is one the verifier gave about the URL it carries
(`SweepsSound`); and the link it has read is still the row's, unless the company was edited,
two sweeps held it, or a link that was checked came instead (`ReadsCurrent`).  Without the second, a write
by id alone would not show what it makes VALID.

`SessInv` holds that a token was made in the past, when its user was active in its role
(`TokensStood`), that the history does not run ahead of the clock (`StoodBefore`), and that the
set of revoked tokens still contains every valid token whose logout was obeyed, with as much time
to live as that token (`LoggedOutKept`), which is where the assumption on the two lives is needed.
`MarketInv`
holds of a request in flight what its check established: a company it is about to give away was
approved for it, and so was the right to a programme it is about to change (`RequestsApproved`).

`NonceInv` says that after each acceptance a nonce is kept for a whole life or that life is
over (`NoncesKept`); the janitor removes only what is past, and the clock moves forward.
`CostInv` is stronger than `OvershootBounded`: what is counted for a task *and* what its runs under
way may still add stay below the cap and the cost of all runs together (`TasksBounded`), and the same for a
tenant on this day and every day to come, on which nothing is counted yet (`TenantsBounded`):
midnight moves the runs under way to a day whose counter is still zero.

`ReportsInv` adds to each target's count the failed callbacks that were received and not yet
counted, and to each task's jobs those that may still enqueue one (`FailuresOwed`, `JobsOwed`): what was counted and
what is still owed together do not exceed what was reported.  A poller owes a failure after it marked the log FAILED, and
what stands against that is the pair of log and poller (`Counted`), once no poller's batch or hand can bring it that log again;
which row a poller has in hand is not in the state, so the invariant says that there is one (`held`).  A handler that dies takes a debt with it, a counter that is
overwritten or reset falls, and no step raises the sum but a report.

`LimiterInv` counts the admissions of a key since the start of its window (`InWindow`): those that the
window counts, those of strays (requests that counted in a window which is no longer the key's), and
before its start at most one full window more.  For a key without a window only strays were admitted at the present
reading, and at most one full window in the length of a window before (`OutOfWindow`), because an entry is
removed no earlier than its window ends.  From this the bound
on every span follows by cases on where the span begins.  `NoFalseRejection` rests on the converse, that a window
never counts more than its key was admitted since it began (`Counted`).  Admissions are
numbered within a clock reading (`Counting`), so that sets of them are finite and have cardinalities; the model kept a
count per reading before, over which no installed prover can sum.

`SignalsInv` says that a batch which is not full holds all rows that its claim has left, except the
rows others held at its selection and those written since (`BatchHoldsRest`), so the last batch leaves none.
`TicketsInv` follows an e-mail from the poller's answer to its ticket (`UnreadHasNoTicket`), and the text of an
approval while it is served (`ApprovedTextIsNoted`).  `AssistantInv` says what a chat has gathered at each of its
statements (`GatheredOwn`), `PitchesInv` whose programme a writer read (`WritersKeepToOwn`), and `MastersInv` that a
path in anybody's hands is the own one of a file that was written (`OwnKeys`, `OwnDesks`).

`ProposalsInv` says that each row a reader must not miss is among those seen or still in the list at
a place no smaller than the offset of the next page (`Ahead`): a new row comes before all others and only raises
places, and a merge that removes rows ends the promise.  That an empty page is the end needs that the places of a list have no
gap (`PlacesAreTaken`), which holds because of any set of rows one has none newer (`Smallest`).
`MatchingInv` says that the rows being sorted are those that were read, each once (`Arranged`), that each
place before the one being filled scores no less than any after it, and the one being filled no less than those it was
compared with (`SortedUpTo`).  `LanguageInv` counts the attempts on the model being asked, holds that all models before it
were given up on, and bounds what was waited by the models and attempts behind (`Asking`).

Induction over numbers, which the library states for operators only, is proved here from well-founded
orderings of finite sets (`Least`, `Induction`, `Smallest`); that finitely many limits have a largest and that a page has no gap
need it.  Models were changed only where a definition could not be reasoned about, and
stand for the same code: the exchange sort takes one step for each comparison instead of a
fold, the order of proposals is a relation between rows, the choice of a finding is a least index, and
admissions and failed reports are sets instead of sums.

Only model-checked: liveness (`FinishedIsSettled`, `EveryPaymentSettles`, `DeadUrlIsSwitchedOff`,
`SweepEnds`), because the prover has neither fairness nor ENABLED; and the four claims, which are
violated.

## 6. Not modelled

* **Administration, other company and agent endpoints, ESG profiles, reports**: queries, and single upserts of
  rows that no other step relates to.  What several steps share of them is in the modules above.
* **Capability tokens of callbacks**: a signature over one request, checked without state.
* **Registers and agents started beside the queue**: a fetch of the exchange's list, a process that is started and not
  waited for, a counter of queries per process.
* **Verification, notifications, text and layout**: adapters and text processing.  `llm_adapter.go`,
  `verification_workflow.go`, `grounding_verifier.go` and `FilterUniqueArticles` are called by tests only,
  `UpdateCompanyLegalDetails` by nothing.  The generators of built-in documents lay out files.
* **Tools run by hand**, **configuration** and **tenant scoping**: single passes over rows, values read once at start, and a
  transaction-local setting around one query; row level security belongs to the database.

Within the modelled parts, these are left out: amounts, billing cycles and the plan
catalogue; signatures of webhooks and the hashing of passwords; the Telegram alert after a callback; the heuristics by
which verifiers read pages (any answer is possible); the wording of prompts and pitches; the figure in `Retry-After`; the
columns of a company that describe it and that no step reads.  External and modelled from their use: the scraper, the gateways,
the mail servers, the language models, Redis, and the repository of tickets, whose source is not part of the
tree.  One hazard, the possible deadlock of a poll that marks mails while the fetch that feeds it is under way
(`imap_ingest.go:121`), is up to the IMAP library and has no property; neither has the lost back-off window above, because
there is nothing that holds to state.
