----------------------------- MODULE ScrapeSync -----------------------------
(***************************************************************************)
(* The synchronisation of ONE lawsuit (one CNJ number) between its users,  *)
(* Redis, the external scraper and the webhook that brings the result      *)
(* back: TriggerScrapingService, FindProcessoService,                      *)
(* CacheProcessoToRedisService and WebhookService.  Every Redis key of     *)
(* that code carries the CNJ, so two lawsuits never interact.              *)
(*                                                                         *)
(* A step is one Redis command, one HTTP call or one query: what the code  *)
(* awaits.  What a call read before an await it still holds afterwards     *)
(* (seen, owed, got), however old it has become.                           *)
(***************************************************************************)
CONSTANTS
    Users,      \* authenticated users
    Requests,   \* calls of TriggerScrapingService.execute, one use each; a
                \* request also names the extraction it starts, that
                \* extraction's data and the webhookId of its result
    Caller,     \* Caller[r]: the user who makes request r
    Handlers,   \* webhook deliveries the API can be processing at a time
    Outcomes,   \* what an extraction can bring back
    NoData,     \* no partes/movimentacoes/instancias (an empty placeholder)
    Faults      \* what the environment may do wrong, a subset of AllFaults

Statuses == {"NONE", "SINCRONIZANDO", "SUCESSO", "ERRO", "NAO_ENCONTRADO"}

\* crash        a call dies at an await (process restart, Redis error)
\* rejected     the scraper refuses the POST
\* lostReply    the POST fails for the API although the scraper took it
\* jobLost      the scraper drops an extraction and never calls back
\* branchFails  one branch of the webhook's Promise.all fails
\* pipeline     InsertProcessService posts the same CNJ, outside the lock
\* slow         a key's TTL runs out although the extraction or its result is
\*              still about
AllFaults == {"crash", "rejected", "lostReply", "jobLost", "branchFails",
              "pipeline", "slow"}

ASSUME CallerAssumption == Caller \in [Requests -> Users]
ASSUME OutcomesAssumption ==
    Outcomes \subseteq [status : {"SUCESSO", "ERRO", "NAO_ENCONTRADO"},
                        motivo : BOOLEAN, data : BOOLEAN]
ASSUME RequestsAssumption == Requests # {}
ASSUME NoDataAssumption == NoData \notin Requests
ASSUME FaultsAssumption == Faults \subseteq AllFaults

VARIABLES
    validCnj,   \* parseCnj accepts the number
    cache,      \* lawsuit:processo:<cnj>:user:<u>
    waiters,    \* lawsuit:waiters:<cnj>, absent when empty
    waitersTTL, \* that key has an expiry
    inflight,   \* lawsuit:inflight:<cnj> exists (it always has an expiry)
    athena,     \* the official record: the extraction it comes from
    pc,         \* where each request is
    seen,       \* what the request's FindProcessoService call returned
    job,        \* the scraper's extraction for each request
    outcome,    \* what it brought back
    idem,       \* webhook:<webhookId>
    hpc,        \* where each delivery's cache branch is
    hjob,       \* the extraction whose result it carries
    owed,       \* users of its SMEMBERS snapshot not written yet
    got,        \* cache entries read by applyStatusOnlyUpdateForUser
    rejected    \* Promise.all of the delivery has rejected already

env == <<validCnj, athena, job, outcome>>
redisVars == <<cache, waiters, waitersTTL, inflight>>
requestVars == <<pc, seen>>
hookVars == <<hpc, hjob, owed, got, rejected>>
vars == <<validCnj, cache, waiters, waitersTTL, inflight, athena, pc, seen,
          job, outcome, idem, hpc, hjob, owed, got, rejected>>

Data == Requests \cup {NoData}
Entries == [status : Statuses, data : Data]
NoEntry == [status |-> "NONE", data |-> NoData]
NoJob == CHOOSE r \in Requests : TRUE    \* what an idle handler shows
NoOutcome == [status |-> "NONE", motivo |-> FALSE, data |-> FALSE]

-----------------------------------------------------------------------------
(* What the code computes without touching shared state.                   *)

\* decideWebhookPersist: does this result carry new data for the cache?
Persists(o) == ~ \/ o.status = "NAO_ENCONTRADO"
                 \/ o.status = "ERRO" /\ o.motivo

\* buildProcessoResponse, seen from outside: a status and whose data it is.
Response(r) == [status |-> outcome[r].status,
                data   |-> IF outcome[r].data THEN r ELSE NoData]

\* What GET /lawsuits/:cnj shows user u: his own key, else Athena.
FindProcesso(u) == IF cache[u] # NoEntry THEN cache[u].data ELSE athena

BeforeClaim == {"expire", "read", "athena", "mark", "claim"}
Posting == {"post", "release"}
Active(r) == pc[r] \in BeforeClaim \cup Posting
CacheBranch == {"set", "status", "delWaiters", "delInflight"}

\* Mutation of Undelivered: the acquisition tests DONE only.
UndeliveredOrBusy(r) == job[r] = "finished" /\ idem[r] # "DONE"

\* Result r still has to be processed by some delivery.
Undelivered(r) == job[r] = "finished" /\ idem[r] \in {"NEW", "FAILED"}

\* Nothing is going on for this lawsuit.
Quiet == /\ \A r \in Requests : /\ ~Active(r)
                                /\ job[r] # "running"
                                /\ ~Undelivered(r)
         /\ \A h \in Handlers : hpc[h] = "idle"

\* The comment on WAITERS_TTL/INFLIGHT_TTL puts them "bem acima do tempo
\* real de uma extracao": they run out on idle keys, unless "slow".
TTLMayRunOut == Quiet \/ "slow" \in Faults

-----------------------------------------------------------------------------
Init ==
    /\ validCnj \in BOOLEAN
    /\ cache = [u \in Users |-> NoEntry]
    /\ waiters = {} /\ waitersTTL = FALSE
    /\ inflight = FALSE
    /\ athena = NoData
    /\ pc = [r \in Requests |-> "idle"]
    /\ seen = [r \in Requests |-> NoEntry]
    /\ job = [r \in Requests |-> "none"]
    /\ outcome = [r \in Requests |-> NoOutcome]
    /\ idem = [r \in Requests |-> "NEW"]
    /\ hpc = [h \in Handlers |-> "idle"]
    /\ hjob = [h \in Handlers |-> NoJob]
    /\ owed = [h \in Handlers |-> {}]
    /\ got = [h \in Handlers |-> [u \in Users |-> NoEntry]]
    /\ rejected = [h \in Handlers |-> FALSE]
-----------------------------------------------------------------------------
(* TriggerScrapingService.execute                                          *)

\* addLawsuitWaiter, first command: the user waits before anything else.
AddWaiter(r) ==
    /\ pc[r] = "idle"
    /\ waiters' = waiters \cup {Caller[r]}
    /\ pc' = [pc EXCEPT ![r] = "expire"]
    /\ UNCHANGED <<env, cache, waitersTTL, inflight, seen, idem, hookVars>>

\* addLawsuitWaiter, second command; EXPIRE on an absent key does nothing.
ExpireWaiters(r) ==
    /\ pc[r] = "expire"
    /\ waitersTTL' = (waiters # {})
    /\ pc' = [pc EXCEPT ![r] = "read"]
    /\ UNCHANGED <<env, cache, waiters, inflight, seen, idem, hookVars>>

\* markAsSincronizando calls FindProcessoService: the user's own key first.
ReadCache(r) ==
    /\ pc[r] = "read" /\ validCnj
    /\ LET current == cache[Caller[r]] IN
         IF current # NoEntry
         THEN /\ seen' = [seen EXCEPT ![r] = current]
              /\ pc' = [pc EXCEPT ![r] = "mark"]
         ELSE /\ pc' = [pc EXCEPT ![r] = "athena"]
              /\ UNCHANGED seen
    /\ UNCHANGED <<env, redisVars, idem, hookVars>>

\* ... then Athena, which may know nothing (the placeholder is empty).
QueryAthena(r) ==
    /\ pc[r] = "athena"
    /\ seen' = [seen EXCEPT ![r] = [status |-> "SUCESSO", data |-> athena]]
    /\ pc' = [pc EXCEPT ![r] = "mark"]
    /\ UNCHANGED <<env, redisVars, idem, hookVars>>

\* The entry read earlier goes back with another status.
MarkSincronizando(r) ==
    /\ pc[r] = "mark"
    /\ cache' = [cache EXCEPT ![Caller[r]] =
                    [seen[r] EXCEPT !.status = "SINCRONIZANDO"]]
    /\ seen' = [seen EXCEPT ![r] = NoEntry]
    /\ pc' = [pc EXCEPT ![r] = "claim"]
    /\ UNCHANGED <<env, waiters, waitersTTL, inflight, idem, hookVars>>

\* Any error while marking (an invalid CNJ among them) is swallowed.
MarkFails(r) ==
    /\ pc[r] \in {"read", "athena", "mark"}
    /\ seen' = [seen EXCEPT ![r] = NoEntry]
    /\ pc' = [pc EXCEPT ![r] = "claim"]
    /\ UNCHANGED <<env, redisVars, idem, hookVars>>

\* Mutation of Claim: SET EX without NX, everybody wins.
ClaimWithoutNX(r) ==
    /\ pc[r] = "claim"
    /\ inflight' = TRUE
    /\ pc' = [pc EXCEPT ![r] = "post"]
    /\ UNCHANGED <<env, cache, waiters, waitersTTL, seen, idem, hookVars>>

\* claimInflight, SET NX EX: the loser only waits.
Claim(r) ==
    /\ pc[r] = "claim"
    /\ inflight' = TRUE
    /\ pc' = [pc EXCEPT ![r] = IF inflight THEN "done" ELSE "post"]
    /\ UNCHANGED <<env, cache, waiters, waitersTTL, seen, idem, hookVars>>

\* Mutation of PostAccepted: the lock is released in a finally block.
PostThenRelease(r) ==
    /\ pc[r] = "post"
    /\ job' = [job EXCEPT ![r] = "running"]
    /\ pc' = [pc EXCEPT ![r] = "release"]
    /\ UNCHANGED <<validCnj, athena, redisVars, seen, outcome, idem, hookVars>>

\* The POST: the scraper takes the extraction (and its answer arrives or
\* not) or refuses it.
PostAccepted(r) ==
    /\ pc[r] = "post"
    /\ job' = [job EXCEPT ![r] = "running"]
    /\ \/ pc' = [pc EXCEPT ![r] = "done"]
       \/ /\ "lostReply" \in Faults
          /\ pc' = [pc EXCEPT ![r] = "release"]
    /\ UNCHANGED <<validCnj, redisVars, athena, seen, outcome, idem, hookVars>>

PostRejected(r) ==
    /\ "rejected" \in Faults
    /\ pc[r] = "post"
    /\ pc' = [pc EXCEPT ![r] = "release"]
    /\ UNCHANGED <<env, redisVars, seen, idem, hookVars>>

\* The catch block: only the lock goes; the waiter and the mark stay.
ReleaseInflight(r) ==
    /\ pc[r] = "release"
    /\ inflight' = FALSE
    /\ pc' = [pc EXCEPT ![r] = "done"]
    /\ UNCHANGED <<env, cache, waiters, waitersTTL, seen, idem, hookVars>>

\* A restart or an uncaught Redis error ends the call where it stands.
RequestDies(r) ==
    /\ "crash" \in Faults
    /\ Active(r)
    /\ seen' = [seen EXCEPT ![r] = NoEntry]
    /\ pc' = [pc EXCEPT ![r] = "done"]
    /\ UNCHANGED <<env, redisVars, idem, hookVars>>

-----------------------------------------------------------------------------
(* The scraper and the Athena batch (outside this repository) and the keys *)
(* that Redis expires.                                                     *)

JobFinishes(r) ==
    /\ job[r] = "running"
    /\ job' = [job EXCEPT ![r] = "finished"]
    /\ \E o \in Outcomes : outcome' = [outcome EXCEPT ![r] = o]
    /\ UNCHANGED <<validCnj, redisVars, athena, requestVars, idem, hookVars>>

JobLost(r) ==
    /\ "jobLost" \in Faults
    /\ job[r] = "running"
    /\ job' = [job EXCEPT ![r] = "lost"]
    /\ UNCHANGED <<validCnj, redisVars, athena, requestVars, outcome, idem,
                   hookVars>>

\* InsertProcessService.fetchProcessExtract posts the same endpoint without
\* waiter or lock; its result comes back by the same webhook.
PipelineExtraction(r) ==
    /\ "pipeline" \in Faults
    /\ pc[r] = "idle"
    /\ pc' = [pc EXCEPT ![r] = "external"]
    /\ job' = [job EXCEPT ![r] = "running"]
    /\ UNCHANGED <<validCnj, redisVars, athena, seen, outcome, idem, hookVars>>

\* A result becomes the official record.
AthenaLoads(r) ==
    /\ job[r] = "finished" /\ outcome[r].data /\ athena # r
    /\ athena' = r
    /\ UNCHANGED <<validCnj, redisVars, requestVars, job, outcome, idem,
                   hookVars>>

WaitersExpire ==
    /\ TTLMayRunOut
    /\ waitersTTL
    /\ waiters' = {} /\ waitersTTL' = FALSE
    /\ UNCHANGED <<env, cache, inflight, requestVars, idem, hookVars>>

\* Mutation of InflightExpires: the lock is set without EX.
InflightNeverExpires == FALSE /\ UNCHANGED vars

InflightExpires ==
    /\ TTLMayRunOut
    /\ inflight
    /\ inflight' = FALSE
    /\ UNCHANGED <<env, cache, waiters, waitersTTL, requestVars, idem,
                   hookVars>>

\* webhook:<webhookId> lives an hour (FAILED) or a day: delivered again after
\* that, a result is new.
IdemExpires(r) ==
    /\ "slow" \in Faults
    /\ idem[r] # "NEW"
    /\ \A h \in Handlers : hpc[h] # "idle" => hjob[h] # r
    /\ idem' = [idem EXCEPT ![r] = "NEW"]
    /\ UNCHANGED <<env, redisVars, requestVars, hookVars>>

-----------------------------------------------------------------------------
(* WebhookService.execute, with its two branches running side by side; the *)
(* cache branch is CacheProcessoToRedisService.execute.                    *)

\* The Lua script: a result is taken up when it is new or has failed.  Any
\* other delivery of it is ignored.
Acquire(h, r) ==
    /\ hpc[h] = "idle"
    /\ Undelivered(r)
    /\ idem' = [idem EXCEPT ![r] = "PROCESSING"]
    /\ hjob' = [hjob EXCEPT ![h] = r]
    /\ hpc' = [hpc EXCEPT ![h] = "smembers"]
    /\ UNCHANGED <<env, redisVars, requestVars, owed, got, rejected>>

\* The snapshot of the waiters decides whose cache this delivery writes; an
\* empty one ends the branch and leaves the lock alone.
ReadWaiters(h) ==
    /\ hpc[h] = "smembers"
    /\ LET persists == Persists(outcome[hjob[h]])
           serve == waiters # {} /\ ~(persists /\ ~validCnj)
       IN /\ owed' = [owed EXCEPT ![h] = IF serve THEN waiters ELSE {}]
          /\ hpc' = [hpc EXCEPT ![h] = CASE waiters = {} -> "end"
                                         [] serve /\ persists -> "set"
                                         [] serve /\ ~persists -> "status"
                                         [] OTHER -> "delWaiters"]
    /\ UNCHANGED <<env, redisVars, requestVars, idem, hjob, got, rejected>>

\* Promise.all over the snapshot: the branch moves on with its last user.
Settle(h, u) ==
    /\ owed' = [owed EXCEPT ![h] = @ \ {u}]
    /\ hpc' = [hpc EXCEPT ![h] = IF owed[h] = {u} THEN "delWaiters" ELSE @]

\* Mutation of SetForWaiter: the result goes to a key all users share.
SetForEverybody(h, u) ==
    /\ hpc[h] = "set" /\ u \in owed[h]
    /\ cache' = [v \in Users |-> Response(hjob[h])]
    /\ Settle(h, u)
    /\ UNCHANGED <<env, waiters, waitersTTL, inflight, requestVars, idem, hjob,
                   got, rejected>>

\* New data: SET the same payload for each waiter of the snapshot.
SetForWaiter(h, u) ==
    /\ hpc[h] = "set" /\ u \in owed[h]
    /\ cache' = [cache EXCEPT ![u] = Response(hjob[h])]
    /\ Settle(h, u)
    /\ UNCHANGED <<env, waiters, waitersTTL, inflight, requestVars, idem,
                   hjob, got, rejected>>

\* No new data, applyStatusOnlyUpdateForUser: read the entry ...
GetForWaiter(h, u) ==
    /\ hpc[h] = "status" /\ u \in owed[h] /\ got[h][u] = NoEntry
    /\ IF cache[u] = NoEntry
       THEN Settle(h, u) /\ UNCHANGED got
       ELSE /\ got' = [got EXCEPT ![h][u] = cache[u]]
            /\ UNCHANGED <<owed, hpc>>
    /\ UNCHANGED <<env, redisVars, requestVars, idem, hjob, rejected>>

\* Mutation of StatusForWaiter: a failed extraction leaves the entry alone.
StatusIgnored(h, u) ==
    /\ hpc[h] = "status" /\ u \in owed[h] /\ got[h][u] # NoEntry
    /\ got' = [got EXCEPT ![h][u] = NoEntry]
    /\ Settle(h, u)
    /\ UNCHANGED <<env, redisVars, requestVars, idem, hjob, rejected>>

\* ... and write it back with the status of the result; an error of this SET
\* is swallowed.
StatusForWaiter(h, u) ==
    /\ hpc[h] = "status" /\ u \in owed[h] /\ got[h][u] # NoEntry
    /\ \/ cache' = [cache EXCEPT ![u] =
                       [got[h][u] EXCEPT !.status = outcome[hjob[h]].status]]
       \/ "branchFails" \in Faults /\ UNCHANGED cache
    /\ got' = [got EXCEPT ![h][u] = NoEntry]
    /\ Settle(h, u)
    /\ UNCHANGED <<env, waiters, waitersTTL, inflight, requestVars, idem,
                   hjob, rejected>>

\* clearWaitState: the two DELs leave in this order on one connection.
DelWaiters(h) ==
    /\ hpc[h] = "delWaiters"
    /\ waiters' = {} /\ waitersTTL' = FALSE
    /\ hpc' = [hpc EXCEPT ![h] = "delInflight"]
    /\ UNCHANGED <<env, cache, inflight, requestVars, idem, hjob, owed, got,
                   rejected>>

DelInflight(h) ==
    /\ hpc[h] = "delInflight"
    /\ inflight' = FALSE
    /\ hpc' = [hpc EXCEPT ![h] = "end"]
    /\ UNCHANGED <<env, cache, waiters, waitersTTL, requestVars, idem, hjob,
                   owed, got, rejected>>

\* SaveWebhookToComunicacaoSpotService.execute rejects: Promise.all rejects
\* at once, the key says FAILED and the scraper may redeliver while this
\* delivery's cache branch is still running.
SpotFails(h) ==
    /\ "branchFails" \in Faults
    /\ hpc[h] # "idle" /\ ~rejected[h]
    /\ rejected' = [rejected EXCEPT ![h] = TRUE]
    /\ idem' = [idem EXCEPT ![hjob[h]] = "FAILED"]
    /\ UNCHANGED <<env, redisVars, requestVars, hpc, hjob, owed, got>>

\* Delivery h leaves the stage.
Retire(h) ==
    /\ hpc' = [hpc EXCEPT ![h] = "idle"]
    /\ hjob' = [hjob EXCEPT ![h] = NoJob]
    /\ owed' = [owed EXCEPT ![h] = {}]
    /\ got' = [got EXCEPT ![h] = [u \in Users |-> NoEntry]]
    /\ rejected' = [rejected EXCEPT ![h] = FALSE]
    /\ UNCHANGED <<env, redisVars, requestVars>>

\* The cache branch rejects, or the SET of DONE after both: FAILED, unless
\* the other branch did that first.
CacheFails(h) ==
    /\ "branchFails" \in Faults
    /\ hpc[h] # "idle"
    /\ idem' = [idem EXCEPT ![hjob[h]] =
                   IF rejected[h] THEN @ ELSE "FAILED"]
    /\ Retire(h)

\* Both branches are through (the other one resolves by now): DONE.
Finish(h) ==
    /\ hpc[h] = "end" /\ ~rejected[h]
    /\ idem' = [idem EXCEPT ![hjob[h]] = "DONE"]
    /\ Retire(h)

\* The cache branch of a delivery that has already been reported FAILED.
FinishDetached(h) ==
    /\ hpc[h] = "end" /\ rejected[h]
    /\ UNCHANGED idem
    /\ Retire(h)

\* A restart leaves the key at PROCESSING: redeliveries are ignored.
HandlerDies(h) ==
    /\ "crash" \in Faults
    /\ hpc[h] # "idle"
    /\ UNCHANGED idem
    /\ Retire(h)

-----------------------------------------------------------------------------
RequestStep(r) ==
    \/ ExpireWaiters(r) \/ ReadCache(r) \/ QueryAthena(r)
    \/ MarkSincronizando(r) \/ MarkFails(r) \/ Claim(r)
    \/ PostAccepted(r) \/ PostRejected(r) \/ ReleaseInflight(r)

HandlerStep(h) ==
    \/ ReadWaiters(h)
    \/ \E u \in Users : \/ SetForWaiter(h, u)
                        \/ GetForWaiter(h, u)
                        \/ StatusForWaiter(h, u)
    \/ DelWaiters(h) \/ DelInflight(h)
    \/ Finish(h) \/ FinishDetached(h)

KeyExpires ==
    WaitersExpire \/ InflightExpires \/ \E r \in Requests : IdemExpires(r)

Next ==
    \/ \E r \in Requests :
         \/ AddWaiter(r) \/ RequestStep(r) \/ RequestDies(r)
         \/ JobFinishes(r) \/ JobLost(r) \/ PipelineExtraction(r)
         \/ AthenaLoads(r)
         \/ \E h \in Handlers : Acquire(h, r)
    \/ \E h \in Handlers :
         \/ HandlerStep(h) \/ SpotFails(h) \/ CacheFails(h) \/ HandlerDies(h)
    \/ KeyExpires

Spec == Init /\ [][Next]_vars

\* A call the API has begun goes on, the scraper answers and keeps trying to
\* deliver, Redis expires.  Nobody has to make a request.
Fairness ==
    /\ \A r \in Requests : /\ WF_vars(RequestStep(r))
                           /\ WF_vars(JobFinishes(r) \/ JobLost(r))
                           /\ WF_vars(\E h \in Handlers : Acquire(h, r))
    /\ \A h \in Handlers : WF_vars(HandlerStep(h))
    /\ WF_vars(WaitersExpire) /\ WF_vars(InflightExpires)

FairSpec == Spec /\ Fairness

-----------------------------------------------------------------------------
(* Properties.                                                             *)

\* Every variable stays within what the code can store in it.
TypeOK ==
    /\ validCnj \in BOOLEAN
    /\ cache \in [Users -> Entries]
    /\ waiters \subseteq Users
    /\ waitersTTL \in BOOLEAN
    /\ inflight \in BOOLEAN
    /\ athena \in Data
    /\ pc \in [Requests -> {"idle", "done", "external"}
                             \cup BeforeClaim \cup Posting]
    /\ seen \in [Requests -> Entries]
    /\ job \in [Requests -> {"none", "running", "finished", "lost"}]
    /\ outcome \in [Requests -> Outcomes \cup {NoOutcome}]
    /\ idem \in [Requests -> {"NEW", "PROCESSING", "DONE", "FAILED"}]
    /\ hpc \in [Handlers -> {"idle", "smembers", "end"} \cup CacheBranch]
    /\ hjob \in [Handlers -> Requests]
    /\ owed \in [Handlers -> SUBSET Users]
    /\ got \in [Handlers -> [Users -> Entries]]
    /\ rejected \in [Handlers -> BOOLEAN]

Asked(u) == \E r \in Requests : Caller[r] = u /\ pc[r] \notin {"idle", "external"}

\* Per-user isolation: whoever never asked for a synchronisation is shown
\* the official record and nothing else, whatever the other users scraped
\* (the keys of redisKeyForProcesso and the fan-out over the waiters).
OnlyOfficialDataUnlessAsked ==
    \A u \in Users : ~Asked(u) => FindProcesso(u) = athena

\* An extraction of request r occupies the lawsuit: from winning the lock
\* until the delivery of its result has released it.
Occupies(r) ==
    \/ pc[r] = "post"
    \/ job[r] = "running"
    \/ Undelivered(r)
    \/ \E h \in Handlers : hjob[h] = r /\ hpc[h] \in {"smembers"} \cup CacheBranch

\* The captcha is paid once: two extractions of one CNJ never overlap, the
\* unprocessed result and its fan-out included.
OneExtraction ==
    \A r, s \in Requests : Occupies(r) /\ Occupies(s) => r = s

\* While an extraction occupies the lawsuit, the lock is held, so that the
\* next request only waits.
LockCoversExtraction == (\E r \in Requests : Occupies(r)) => inflight

\* The scraper alone: at most one extraction is running.
OneRunningExtraction ==
    \A r, s \in Requests : job[r] = "running" /\ job[s] = "running" => r = s

\* Two deliveries of one result are processed together only if the older
\* one has been reported FAILED, and a result marked DONE belongs to none.
OneOwnerPerWebhook ==
    \A h \in Handlers : hpc[h] # "idle" /\ ~rejected[h] =>
        /\ idem[hjob[h]] = "PROCESSING"
        /\ \A g \in Handlers \ {h} :
              hpc[g] # "idle" /\ hjob[g] = hjob[h] => rejected[g]

\* A call overlaps a fan-out: a request has not reached the lock while a
\* delivery stands between its snapshot and its last DEL.
Overlap == \E r \in Requests, h \in Handlers :
              pc[r] \in BeforeClaim /\ hpc[h] \in CacheBranch

Sincronizando(u) == cache[u].status = "SINCRONIZANDO"

\* Without such an overlap, no user is left at SINCRONIZANDO.
AnsweredUnlessOverlap ==
    [](~Overlap) => \A u \in Users : Sincronizando(u) ~> ~Sincronizando(u)

\* The lock is never held for good, whatever fails or dies: the key is
\* created together with its expiry.
LockFreedEventually == inflight ~> ~inflight

\* Every user who is marked is answered in the end, a call deduplicated
\* behind a running extraction included.
EveryoneAnswered == \A u \in Users : Sincronizando(u) ~> ~Sincronizando(u)

\* Data shown to a user is not lost again.
LastGoodDataKept ==
    [][\A u \in Users : cache[u].data # NoData => cache'[u].data # NoData]_cache
=============================================================================
