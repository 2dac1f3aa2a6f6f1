# Formal models of robo-api

robo-api is a NestJS service around labour-court lawsuits. It answers users who
look a lawsuit up, asks an external scraper (scraping-robo-api) to extract it,
takes the results back by webhook, and drives lawsuits through a pipeline of
validations to an investment decision. The state is spread over MongoDB, Redis
(keys and BullMQ queues), S3 and Athena, and hardly any of it is written in a
transaction: what can go wrong goes wrong between two awaits.

The modules of the synchronisation, the S3 record and the pipeline model
**one** lawsuit (one CNJ number): each Redis key, S3 object and status document
belongs to one, so different lawsuits do not interact, except through the queue
limits, which the models treat as an environment that may refuse at any time.
The others model one of what their component is about (a document, an address,
a browser, a company, a list), or the few lawsuits that it relates.
**A step is what the code awaits**: one Redis command,
one query or update, one S3 or HTTP call. Values that a call has read stay with
it (`seen`, `owed`, `got`, `old`, `read`) however old they have become.

## Inventory

| Component | State | Operations | Hard behaviour | Correct when | Module |
|---|---|---|---|---|---|
| Lawsuit synchronisation (`lawsuits/services/trigger-scraping`, `cache-processo-to-redis`, `find-processo`, `process/services/webhook`) | Redis: per-user entry, waiters set, in-flight lock, `webhook:<id>` | sync request, webhook delivery, read | requests, two parallel webhook branches, redelivery, expiry, crash | each user is answered and sees only what he asked for; one extraction at a time | `ScrapeSync` |
| comunicacao-spot record (`save-webhook-to-comunicacao-spot`, `insert-lawsuit-placeholder`, `fetch-comunicacao-spot`) | one JSON object in S3 | marker, merge, other collector | get / decide / put without condition | nothing collected is lost; the marker ends with the search | `ComunicacaoSpot` |
| Intake (`create-process`, `upload-xlsx`, `webhook-pipedrive`) | insert queue | request, sheet, CRM webhook | a queue that fails between batches | no number is left behind untold | `LawsuitIntake`, `UniqueNumbers` |
| Processing pipeline (`process-state-machine`, `insert-process`, `process-validation`, `solvency-validation`, `extract-documents-info`, `initial-petition`, `next-steps`) | status document, four step queues, insert queue | insert, resend, validate, rerun | compare-and-set, retries, duplicate jobs, restarts, refused queues | status follows the table; one insert sends the lawsuit | `ProcessPipeline`, `StatusGraph` |
| Resends (`loss-revalidation.cron`, `run-list-lawsuits-validation`) | decision history, situation, documents | nightly cron, list by filter or number | choose first, send later | each lawsuit that qualifies is sent once | `Resends` |
| Document extraction (`extract-documents-info`, `find-insights`, `delete-insights`, Vertex) | per-document status and data, GCS object | extract, ask, delete | runs over old snapshots, 429s, lost answers | PROCESSING ends; COMPLETED stays; the object is there | `DocumentExtraction` |
| Stage and owners (`change-stage`, `bulk-update`, `insert-execution`, `remove-provisional-lawsuit-number`) | stage, code, link, decisions, owners | HTTP requests | several writes without transaction | a pair at one stage, a history without gaps, one owner | `StageBoard` |
| Activities (`activity/*`, `metrics`, notifications) | list in the lawsuit, notifications | create, pass on, complete | check, then push | one of a type, one each, everybody told | `ActivityBoard` |
| Form (`update-lawsuit`) | `formPipedrive` | PATCH | read, merge, write whole | a field changes by who gives it | `LawsuitForm` |
| Queries (`process-counters`, `bulk-update`'s filters, `find-lawsuit`'s joins) | none | read | two translations of one filter | what is changed is what was counted | `LawsuitQueries` |
| Login (`login`) | attempt counter, lock | login | INCR / EXPIRE / SET / DEL, crash | attempts are limited, and forgotten | `LoginLock` |
| Accounts (`sign-up`, `sso-provisioning`, `user/update`) | users | sign-up, first SSO session, update | spellings, read and write back | one account each, as asked | `UserAccounts` |
| Sessions (`authentication.controller`, `jwt-strategy.guard`, `extract-token`) | tokens, revocations, two cookies | login, logout, request | expiries, another API's cookie | a logout holds; the right user | `UserSessions` |
| Companies and CNDT (`solvency-validation`, `company/*`) | companies, claims, certificate | validate, sheet, request, webhook | no unique index; error path racing the webhook | one record each; PENDING means one is to come | `CompanyRecords` |
| Athena queries (`athena-query`) | one query | start, poll, page | limit, header of the first page | every row once, or a failure | `AthenaQuery` |
| Batch (`concurrency`, `syncBatch`) | shared index | worker pool | workers and awaits, odd pool sizes | one trigger and one answer for each number | `SyncBatch`, `UniqueNumbers` |
| Paged lists (notifications, prompts, companies, loss reasons) | collections | list, create, delete | a list that changes between pages | everything is shown, once | `PagedLists` |

What of the system has no module is under "Not modelled".

How they interact: the controller calls `TriggerScrapingService`, which
registers a waiter, marks the user's cache entry, wins or loses the lock and
posts to the scraper. The pipeline's `fetchProcessExtract` posts to the *same*
endpoint without waiter or lock. Both results come back to
`WebhookService.execute`, which runs the S3 save and the Redis fan-out side by
side under one idempotency key. Validation jobs reach each other only through
queues and the status document. The components around the pipeline share no
state with each other that their properties depend on, but for what a module
names itself (`Resends` has the bulk update's situation and the stage change's
history, `LawsuitIntake` the insert job's lawsuit). `PROJECT.json` lists the hazards of each at the
line where they bite, with the properties that look at them.

## ScrapeSync

Variables are the four Redis keys (`cache`, `waiters` with `waitersTTL`,
`inflight`, `idem`), the official record `athena`, the scraper's jobs (`job`,
`outcome`), and the local state of requests (`pc`, `seen`) and deliveries
(`hpc`, `hjob`, `owed`, `got`, `rejected`). A request is one use of
`TriggerScrapingService.execute`: `AddWaiter`, `ExpireWaiters` (the second
command of `addLawsuitWaiter`), `ReadCache` / `QueryAthena` (the
`FindProcessoService` call inside `markAsSincronizando`), `MarkSincronizando`
or `MarkFails`, `Claim` (SET NX), `PostAccepted` / `PostRejected`,
`ReleaseInflight`. A delivery is `Acquire` (the Lua script), then the cache
branch: `ReadWaiters`, per user `SetForWaiter` or `GetForWaiter` +
`StatusForWaiter`, `DelWaiters`, `DelInflight`, `Finish`. The S3 branch of the
same `Promise.all` appears by its effect: `SpotFails` rejects the delivery
while the cache branch runs on (`FinishDetached`).

Data is abstracted to *whose* it is: the extraction it came from, or `NoData`.
An outcome is its status, whether it has a `motivo_erro`, and whether it
carries data: what `decideWebhookPersist` looks at.

What the environment may do is the constant `Faults`, so that each run and each
theorem names what it tolerates: `crash`, `rejected`, `lostReply` (the POST
fails for the API although the scraper took it), `jobLost`, `branchFails`,
`pipeline` (a post outside the lock) and `slow` (a key expires although the
extraction is still about). Without `slow`, the expiries of an hour run out on
idle keys only, as the comment on them says ("bem acima do tempo real").

| Run | Instance | Shows |
|---|---|---|
| `scrape_faults` | 2 requests of one user beside one who never asks, 2 deliveries, all kinds of outcome; branchFails, slow, pipeline | `OnlyOfficialDataUnlessAsked`, `OneOwnerPerWebhook` |
| `scrape_crash` | 2 users, 3 requests, 1 delivery at a time; crash, rejected, jobLost | `OneExtraction`, `LockCoversExtraction`, `LockFreedEventually` |
| `scrape_calm` | 2 users, 2 requests, 2 deliveries, all kinds of outcome; pipeline, lostReply | `AnsweredUnlessOverlap` |
| `scrape_lost_waiter` | 2 requests, no fault | `EveryoneAnswered` **violated** |
| `scrape_redelivery` | 3 requests, branchFails | `OneRunningExtraction` **violated** |
| `scrape_data` | 2 requests, no fault | `LastGoodDataKept` **violated** |

The three violations are disagreements between comments and code, under
`findings`. `AnsweredUnlessOverlap` is the other half of the first one: unless a
request stands before its claim while a fan-out stands behind its snapshot, no
user stays at SINCRONIZANDO.

Bounds. Two users are a user and his neighbour; three requests are the holder of
the lock, one who waits, and one who comes after the release (what
`scrape_redelivery` needs). Two deliveries are the fewest that meet. Where both
would be too many states together, `scrape_faults` and `scrape_calm` take two
deliveries and `scrape_crash` three requests.

Fairness (`FairSpec`) is what the code's scheduling justifies: a call that has
begun goes on (weak fairness of the step of each request and delivery, which
are Node continuations), the scraper answers or drops an extraction and offers
its result until a delivery takes it, Redis expires keys. Nobody has to make a
request, and no fairness is asked of a fault. Under `crash` a call may end at
any await: liveness then rests on the expiries alone.

`CHECK_DEADLOCK FALSE`: requests and results are used once, so that the model
stops when all are done. The program does not.

Left out: the 30-day expiry of the cache entries, `FAILED_PROCESS_NOT_FOUND`
(the Lua script reads it, nothing writes it), reloading the Lua script,
`registerWaiter`, which nobody calls, and notifications.

## ComunicacaoSpot

`spot` is the S3 object: a status and, for each instancia id, the origin of its
content. `InsertCheck` / `InsertPut` are `InsertLawsuitPlaceholderService`;
`SaveGet`, then `SaveSkip` or `SavePut` are
`SaveWebhookToComunicacaoSpotService`, with `Persists`
(`decideComunicacaoSpotPersist`) and `Merge` (`mergeInstancias`) as operators.
Faults: a GET that fails and is taken for an absent object, as the code does; a
PUT that fails for the API whether or not S3 carried it out; a delivery whose
other branch rejected, so that the same body is saved twice at a time.
`CollectorPuts` is the other writer of the bucket, outside the repository.
`todo` holds the bodies that still have a delivery to come.

`spot_merge` checks, with two saves, two inserts, two bodies and two
instancias: a document that says BUSCANDO or NAO_ENCONTRADO is empty
(`NotFoundMeansEmpty`); once a body has been saved the marker is gone, as long
as nobody has put over what he had not read (`SearchEnds`); and every step keeps the
instancias, unless it is such a put (`InstancesPreserved`). The exception is the
lost update that get-then-put cannot exclude; the property says that there is
no *other* way to lose data. `spot_marker` shows the disagreement: the code
means never to overwrite, and between its check and its put it can. Two of each
are the fewest that can overlap; a third save meets a document that two have
already made. Inserts are used once, which is why deadlock is not checked.

## ProcessPipeline

`name` is `processStatus.name`, `jobs` the waiting jobs of step-1 to step-4,
`call` the local state of each job or request that is running: which handler
(`kind`), where it stands (`at`), the patch of its current transition (`want`),
the status it read (`read`) and what comes after (`goal`). `TransitionGet` and
`TransitionPut` are the two round trips of `ProcessStateMachineService.transition`;
every handler begins (`Begins`) or continues (`Transit`) with a call of it and
resumes in `Resolves` or `Throws`. `Throws` sends a transition inside
`fetchProcessExtract`'s try to that try's catch, as in the code. `Dies` is a
restart: BullMQ runs the job again, a request is gone.

`pipeline` checks with two concurrent calls and any number of them one after
another: racing inserts send a lawsuit once (`InsertedOnce`), PENDING means that
somebody is about to send it or that an insert was abandoned
(`PendingIsBeingSent`), and every change of status is one of
`ALLOWED_TRANSITIONS`, but for the unconditional rewrite of an unchanged name
(`AllowedUnlessSameName`). The two violation runs are that exception, and a
failing transition taken for a refused POST (`TakenIsNotError`). Deadlock is
checked.

`ImplementsStatusGraph` is a refinement: `StatusGraph` says what the status
machine promises of a lawsuit's status whoever calls it, in five atomic steps
over `status` and `held` (the statuses that some call has read and not yet
acted on), and `ProcessPipeline` implements it with `status <- name` and `held
<-` the statuses in `read` of the calls that stand before their put. The
abstract module is where the promise and its limit can be read off:
`CompareAndSet` needs the status to be held *and* current, `WriteBack` (the
unconditional same-name update) only held.

Bounds. Two calls at a time: all properties relate two calls at most, and
`transition` involves the call and whoever changed the status since its read.
`Attempts` = 2 is a job that may run again and one that may not; the code's 3
adds another of the first kind (the theorems hold for any). `MaxJobs` = 1 per
queue makes a queue empty or full.

Left out: statuses of legacy records that the table does not know
(`canTransition` lets them through), the `step-0` case no code writes, how long
a stalled job waits. `NextStepsService` is one step: the limit is soft.

## The components around the pipeline

`MCServices` composes fourteen modules in one run. Each behaviour runs one of
them: the variable `part` is chosen at the start and every other component
stays as it began (`OnlyPart`). They share no variable, so that the interleaving
of two of them shows nothing that each alone does not, and the states to
explore add up instead of multiplying. All properties of a component hold of
the initial states of the others, so that a violation is always one of the part
that runs.

The properties say what is promised *up to the races the code does allow*:
where two requests overlap in a way that check-then-write cannot exclude, a
history variable (`raced`, `apart`, `unsettled`, `overlapped`, `crossed`,
`twiceType`, ...) records exactly that, and the property holds for everything
else. What a property claims is then that there is no *other* way to go wrong,
with failing steps, restarts and any other interleaving included. Each of these
exceptions is necessary: without it TLC finds the race.

- **StageBoard**: `stage` and `code` of one provisional execution and the mains
  that call it by its number (`link`), the `ProcessDecisions` documents, the
  number of active owners. `ChangeStage` (findById and checks), `WriteStage`,
  `FindDecision`, `SaveDecision`, `FollowLink` are `ChangeStageService`;
  `BulkUpdate`, `UpdateMany`, `RetireOwners`, `AppointOwners` are
  `BulkUpdateService`; `InsertExecution` / `LinkExecution` and
  `RemoveProvisionalNumber` make and unmake the link. `BoardStepFails` ends a
  request between two writes. `TimesListed` is what `FindLawsuit`'s unwinds make
  of one activity. Properties: `ActivitiesListedOnce`, `HistoryTellsStages`,
  `LinkedAtOneStage`, `OneActiveOwner`.
- **ActivityBoard**: the activities of a lawsuit in their order, the
  notifications, what each request is about to do. `CreateActivity` /
  `PushActivity`, `ChangeAssigned` / `SetAssigned` are a check and a write;
  `CompleteActivity` is one update; each ends in `Notify` or `NotifyFailed`.
  `Metrics` is `MetricsService`'s grouping. Properties: `MetricsCountOnce`,
  `OneActivityEach`, `EveryoneTold`, `CompletedKeepsItsUser`.
- **LawsuitForm**: the stored form and what each PATCH was given and has read
  (`ReadForm`, `WriteForm`). A request gives the fields, or the whole form, or
  the whole form beside other fields; both with many fields at once is left out
  (named in the guard), since the code then ignores the fields.
  Property: `FormFieldsKept`.
- **LawsuitQueries**: `Counted` (`ProcessCountersService`) and `BulkUpdated`
  (`BulkUpdateService.buildQuery`) as predicates on a lawsuit and a filter, over
  324 lawsuits that differ in what some filter looks at and 324 filters.
  `BulkUpdatesTheCounted` names when the two agree; where they do not (several
  conditions in one `$or`, a loss reason, a status beside a search) the bulk
  update changes other lawsuits than the board shows. A lawsuit has one of the
  three situations of the schema's enum or IN_PROGRESS, which
  `run-lawsuit-validation` writes by an update that the enum is not checked on
  (line 128): the board's three counters do not add up to its total for those,
  and the property counts them apart.
- **LoginLock**: the counter `login:failed:<email>`, whether it has a time to
  live, the lock, and the next command of each login, one command a step, with
  stops at any of them. Properties: `CounterWillExpire`, `CountedAttemptsLock`.
- **UserAccounts**: the users by address, as sign-up, the SSO's upsert and the
  profile update leave them, addresses being spelled in several ways.
  Properties: `OneAccountPerAddress`, `AccountsAsGiven`.
- **UserSessions**: tokens with their expiry, revocations with theirs, the
  cookie of this API and the one juri-api sets for both, and a clock.
  `CookieUser` is `extractAuthToken` and the guard. Properties:
  `RevokedStaysOut`, `SessionOfTheBrowser`.
- **DocumentExtraction**: a document's status and data, the objects in the
  bucket, and the runs on it: extraction jobs and insights (`StartRun`,
  `BeginRun`, `Upload`, `AskVertex` with `Retries`, `SaveAnswer` or `FailRun`,
  `DeleteObject`), `DeleteInsights` beside them, and `RunStops`. Properties:
  `ObjectIsThere`, `ProcessingIsWorkedOn`, `CompletedIsKept`, and the liveness
  of `ExtractionEnds`.
- **AthenaQuery**: start, `Poll` up to the limit, `FetchPage` for any cut of
  the result into pages, empty ones included. A result without any rows has an
  empty first page and no names; one with rows has its header on the first page,
  which the comment in `fetchResults` takes of Athena. `QueryAnswers` is liveness and correctness in one: the
  query ends, and if it does not fail the records are all rows in order
  (`EveryRow`, the reference definition).
- **SyncBatch**: `comConcorrenciaLimitada` under `syncBatch`: the shared index,
  what each worker holds, the answers. `BatchAnswersEach`.
- **CompanyRecords**: the documents of one CNPJ in their order, the claims of
  one lawsuit, validation jobs, spreadsheet rows, certificate requests and
  deliveries. A request writes PENDING (`AskCertificate`), the scraper has its
  POST and owes a certificate (`ScraperTakes`), and the POST is answered or
  fails (`PostAnswered`, `PostFails`), before or after the certificate comes
  (`DeliverCertificate`, `RefuseCertificate`, from `ScraperSends`).
  `AskWithoutType` is a request without `type`, which the controller lets
  through: `DocumentService` throws inside its own try, and the catch writes
  ERROR whatever was there; a write of PENDING that fails ends the same way.
  Properties: `OneRecordEach`, `CertificateAccounted`: a company at PENDING has
  a POST under way or a certificate owed, unless a request stopped or a delivery
  was refused, and a delivered certificate stays until the next request, of
  whatever type. The exception in it is a request that fails after a certificate
  has come: its catch leaves CONCLUDED for ERROR, with the link, as
  `AskWithoutType` does at once. `docs/brain/features/company-module.md` has
  CONCLUDED as an end of the status.
- **PagedLists**: entries by `createdAt`, and a client who walks through the
  pages (`AskNotifications`, `AskReasons`, `AskPrompts`, `AskCompanies` with its
  separate `CountCompanies`) while others add and delete. `PagesShowEach`.
- **LawsuitIntake**: numbers there and queued, and each request with its list,
  its batches and its answer. `IntakeAccounted`.
- **Resends**: situation, decision history and documents of the lawsuits, what
  a run was asked, the rows it has chosen (`Night`, `AskByFilter`,
  `AskByNumber`) and sends (`SendRow`, `RowFails`), while others change the
  lawsuits. `ResendsTheQualified` is about every lawsuit, changed or failed or
  not: what was sent and what failed (`failed`) is together what the query
  found to qualify (`asOf`, the lawsuits at that moment), and what has no
  documents when it is sent does not go to step-3. `LocalDay` is the reference
  definition of a day in the zone -03:00.

Fairness. Only two components promise that something ends. The runs of
`DocumentExtraction` and the steps of an Athena query are continuations of
promises and timers, which Node runs (weak fairness); nothing is asked of the
clients, of the order of events, or of the answers, which may be failures or
"not yet" for ever. Of Athena's pages it is asked that they come to an end.

Deadlock is not checked here: each of these models stops when its requests are
used up, which the bounds do and the program does not.

Bounds (`Services.cfg`). Two requests at a time everywhere, since every
property relates a request to one that overlaps it; one more request altogether
(`BoardRequests`, `ActivityRequests`, `RunsBound`, `FormEditsBound` = 3), so
that an overlap can meet what an earlier request left. Two mains, because a
second one that calls the same execution is what multiplies rows; codes 781 and
769 are of two stages and 1 is of none. Logins: three at a time with
`MaxAttempts` 3, so that the limit is reached and passed together, and one that
dies. Sessions: a life of 3 seconds and a clock up to 7 let a token expire, be
revoked and be followed by a second one. Pages of 1 with 3 entries are a page
before, the page, and a page behind; `BatchSize` 2 with 3 numbers a full batch
and a rest. Athena results without rows and with 0, 1 and 3 rows behind the
header, with every cut. Companies: four requests of any kind, two at a time,
and two deliveries, so that one may be late or come twice. Resends: a lawsuit created in the last
hour of a local day and three changes, before and after the query.

The modules were also explored alone with larger values, none of which showed
anything new: StageBoard with 4 requests and 3 stage codes (1.6 million
states), ActivityBoard with 3 requests at a time, UserAccounts with 3 accounts
and 3 updates, DocumentExtraction with 3 runs at a time and 4 altogether (9
million), PagedLists with 5 entries in pages of 2, LawsuitForm with 2 values,
LawsuitIntake with 2 requests of 3 numbers (6.6 million), Resends with 2
lawsuits and 4 changes (5.2 million).

## Proofs

Eight `...Proofs` modules, proved by TLAPS for every value of the constants
that satisfies the assumptions named in the module they extend. The type
invariants of the models are proved and not part of a run.

- **ScrapeSync**. `TypeCorrect`; `Isolation` (`OnlyOfficialDataUnlessAsked`):
  a user who has not asked has no entry, is no waiter and is in no snapshot,
  which is the invariant that carries it through every fault. `Ownership`
  (`OneOwnerPerWebhook`), from an invariant that ties the idempotency key to
  the deliveries. `Exclusion` (`OneExtraction`) and `LockCovers`
  (`LockCoversExtraction`): not true under every fault, as `scrape_redelivery`
  shows, so they assume `NoLockFaults`: none of lostReply, pipeline, slow,
  branchFails. The inductive invariant `LockInv` says that whoever occupies the
  lawsuit (a poster, a running extraction, an undelivered result, a fan-out up
  to its last DEL) is alone and has the lock; neither half is inductive without
  the other, since only the lock keeps a second request out and only being
  alone makes a release harmless.
- **ComunicacaoSpot**. `TypeCorrect`; `Honesty` (`NotFoundMeansEmpty`), which
  needs the same of every document a save has in hand; `SearchOver`
  (`SearchEnds`), carried by what overlapping saves have in hand: as long as
  nobody has put over what he had not read, data that a save has seen are still
  in the object, so that no later put goes back to the marker;
  `Preservation` (`InstancesPreserved`), an action property that follows from
  what `Merge` keeps.
- **ProcessPipeline**. `TypeCorrect`; `Insertion` (`PendingIsBeingSent` and
  `InsertedOnce`) and `Once`, whose invariant `PipelineInv` adds where each kind
  of call can stand, that a call past its lookup and a queued job mean that the
  lawsuit exists, and that a pending put was allowed from the name it read;
  `Table` (`AllowedUnlessSameName`), an action property over the same
  invariant; `Refinement` (`ImplementsStatusGraph`): initial states map to
  initial states, and each action to one of the abstract steps or a stutter,
  for which a put needs of the invariant that its `read` is among the held.
- **Authentication** (`AuthenticationProofs`, of LoginLock, UserSessions and
  UserAccounts). `LoginTypeCorrect`; `Forgetting` (`CounterWillExpire`);
  `Limit` (`CountedAttemptsLock`), which counts: an increment that reaches the
  limit adds the login to those that lock, and each of these leaves only with
  the counter's deletion or by dying, so that the cardinality of `Locking`
  grows and shrinks with the counter. `Revocation` (`RevokedStaysOut`), with the
  invariant that no token outlives `TokenLife` from now, without which the cap
  in `RevokedFor` would cut a revocation short; `Identity`
  (`SessionOfTheBrowser`). `OneAccount` (`OneAccountPerAddress`) and `AsGiven`
  (`AccountsAsGiven`): no two accounts have one address, and one that was not
  respelled has its in the normal form, which is what the look-ups ask for
  (`AddressInv`); an update under way on an account that no other update
  overlaps has in hand what the account holds, but for the fields it gives
  (`GivenInv`).
- **DocumentExtraction**. `Working` (`ProcessingIsWorkedOn`) with the type
  invariant; `Objects` (`ObjectIsThere`), whose invariant adds that the ids of
  runs are fresh and that two runs have one object name only if both are
  collided insights (`NamesApart`): a deletion can then not hit another's
  object. `Kept` (`CompletedIsKept`), an action property over the invariant that
  a run that is past its check had not read COMPLETED (`PassedUnread`).
- **CompanyRecords**. `Certificate` (`CertificateAccounted`), with
  `CertificateInv` for the types and that a delivered certificate has a company;
  and `Records`
  (`OneRecordEach`), which needs of every job in progress that what it knows
  and what it has claimed are in the database.
- **StageBoard**. `Owners` (`OneActiveOwner`); `Links` (`LinkedAtOneStage`),
  with `LinkInv`: a change in progress has moved its own lawsuit first
  (`MovedFirst`), knows the link it is going to follow (`KnowsLink`), and a pair
  that disagrees has such a change under way (`AgreeOrMoving`). `HistoryTold`
  (`HistoryTellsStages`) and `ListedOnce` (`ActivitiesListedOnce`), from
  `HistoryInv`: where changes of a lawsuit did not overlap there is one document
  at most, and none while one is about to be inserted (`OneDocument`); its
  history ends at the present code, or at the one that the only change under
  way has read (`Told`).
- **Services** (`ServicesProofs`): the other components of `MCServices`.
  - *ActivityBoard*: `OneEach` (`OneActivityEach`), `CountedOnce`
    (`MetricsCountOnce`), `Telling` (`EveryoneTold`) and the action property
    `KeepsItsUser` (`CompletedKeepsItsUser`), all from one invariant: a type or
    a user that no requests overlapped on is in the list once at most, and not
    at all while a request is about to add it (`TypeOnce`, `UserOnce`), and a
    request knows whether the activity it is about to pass on was completed
    (`KnowsLate`). What is first in a list needs its own lemmas (`FirstInSeq`,
    `FirstStays`), by the least element of a set of naturals.
  - *LawsuitForm*: `FieldsKept` (`FormFieldsKept`), an action property over the
    invariant that a request on whose read no write came since has read the form
    that is stored (`ReadsTheForm`).
  - *LawsuitQueries*: `BulkAsCounted` (`BulkUpdatesTheCounted`), for any finite
    set of lawsuits and any filters: with one condition of the `$or` at most the
    two predicates are the same, and the lawsuits of a stage are the disjoint
    union of those of the four situations.
  - *SyncBatch*: `AnswersEach` (`BatchAnswersEach`), for requests of any length
    and pools of any size. The invariant says that no two workers hold one index
    (`Distribution`), that a number was triggered once if it was given out
    (`Tally`), and that what was given out is in work or has its one answer
    (`Answers`).
  - *LawsuitIntake*: `NoneLeftBehind` (`IntakeAccounted`), for any number of
    requests, of any length, and batches of any size. `Owed`: the numbers of a
    request are there or among its missing ones, and those of the batches it has
    passed are queued.
  - *Resends*: `SendsTheQualified` (`ResendsTheQualified`). What was sent of a
    lawsuit, what failed and the rows left of it add up to what is due (`Due`)
    by what the query found, whatever became of the lawsuit since; at the end no
    row is left. A row may be left out only for a lack of documents, which the
    query then found too, since documents only arrive. `DaysAreHours` proves that the boundaries of `toBoundaryDate` are those
    of the local days, for every hour.
  - *PagedLists*: `WalkShowsEach` (`PagesShowEach`). The rank of an entry is the
    number of newer ones; `PageIs` shows that, if no two have one
    `createdAt`, a page has those entries whose rank it covers, and the
    invariant `Seen` that a reader has been shown every entry of a lower rank
    than the next page begins with: new entries can only raise a rank.
  - *AthenaQuery*: `EveryRowOnce`: a query that is done has made every row into
    a record, once and in order, however the result was cut, into empty pages
    too, and a result without rows into none. The run checks this
    as a part of `QueryAnswers`, whose other part, that it ends, is liveness.
  - What the two modules say of lists of numbers (`UniqueNumbers`: `new Set`, the
    filter of those that are there) is proved once: `UniqueIs`, `WithoutIs`.

Every invariant and every action property of the passing runs has a theorem.
Model-checked only: liveness (`LockFreedEventually`, `AnsweredUnlessOverlap`,
`ExtractionEnds`, and that the query of `QueryAnswers` ends), since the prover
has neither ENABLED nor fairness, and the properties of the runs that expect a
violation, which do not hold. The theorems keep the assumptions the modules name
and one more where the text above says so (`NoLockFaults`). `Unique` and
`Without` describe the one list that a loop over a list makes; that the loop
makes it is induction over data and not stated.

## Not modelled

- `SaveWebhookToAthenaService` and the Parquet writer: registered in their
  module, called by nobody. The same holds of `conditional-validations.ts`,
  `getDocumentByContent.ts`, `createOrUpdateCompanyData` (its batch version is
  modelled) and `registerWaiter`.
- Insights of a movement (`find-movement-insights`, `executeTextWithRetry`):
  one question to Vertex, whose answer goes to the client and nowhere else.
- The orphaned-process cron: its decorator is commented out.
- Single writes of one field or document that nothing else in the code
  relates to: notes of an activity, saved movements, the read flag of a
  lawsuit (nothing in src/ adds to the list it takes a user from), PUT of a
  company, updates of prompts and loss reasons, observations, steps, the list
  of users.
- `ProcessPipeline`: the lawsuit's parts, the upsert of its complainant, the
  links that initial-petition sets.
- Documents of a lawsuit are stored by a robot outside the repository;
  `Resends` takes their arrival as an environment step. A rejection reason given
  by a bulk update is stored with the lawsuit and not in the history that the
  nightly cron reads; the model keeps that.
- Keys of loss reasons: a reason is checked for and then created; the model
  takes the two as one step.
- `FindLawsuit`'s filters, sort and projection, `getAvailableStages` and
  `getDefaultStageId` (look-ups in a table).
- Pipedrive, the SharePoint download, the webhook guard, the notifications
  gateway, the Redis connection: calls and connections without state of their
  own. That their failures do not stop their callers is in the callers' models.
- Signatures, issuers, roles and deactivation of users: data that is valid or
  not; no code in src/ changes them after the insert.
