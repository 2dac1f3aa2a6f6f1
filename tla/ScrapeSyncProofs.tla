-------------------------- MODULE ScrapeSyncProofs --------------------------
(***************************************************************************)
(* Theorems about ScrapeSync for any number of users, requests and         *)
(* deliveries: type correctness, per-user isolation under every fault, and *)
(* the exclusion of overlapping extractions in the absence of the faults   *)
(* that break the lock.                                                    *)
(***************************************************************************)
EXTENDS ScrapeSync, TLAPS

USE DEF Data, BeforeClaim, Posting, CacheBranch

\* The absent entry is one of the entries.
LEMMA NoEntryType == NoEntry \in Entries
  BY DEF NoEntry, Entries, Statuses

\* An entry read earlier and given a new status is an entry.
LEMMA StatusUpdateType ==
  ASSUME NEW e \in Entries, NEW s \in Statuses
  PROVE  [e EXCEPT !.status = s] \in Entries
  BY DEF Entries

\* What Athena returns, as an entry.
LEMMA AthenaEntryType ==
  ASSUME NEW d \in Data
  PROVE  [status |-> "SUCESSO", data |-> d] \in Entries
  BY DEF Entries, Statuses

\* NoJob, what an idle delivery shows, is one of the requests.
LEMMA NoJobType == NoJob \in Requests
  BY RequestsAssumption DEF NoJob

\* The response built from a stored outcome is a cache entry.
LEMMA ResponseType ==
  ASSUME TypeOK, NEW r \in Requests
  PROVE  Response(r) \in Entries
  BY OutcomesAssumption DEF TypeOK, Response, Entries, Statuses, NoOutcome

\* The initial state stores only values of the declared types.
LEMMA InitType == Init => TypeOK
  <1> SUFFICES ASSUME Init PROVE TypeOK
    OBVIOUS
  <1>1. /\ cache \in [Users -> Entries]
        /\ seen \in [Requests -> Entries]
        /\ got \in [Handlers -> [Users -> Entries]]
    BY NoEntryType DEF Init
  <1>2. /\ hjob \in [Handlers -> Requests]
        /\ hpc \in [Handlers -> {"idle", "smembers", "end"} \cup CacheBranch]
        /\ owed \in [Handlers -> SUBSET Users]
        /\ rejected \in [Handlers -> BOOLEAN]
    BY NoJobType DEF Init
  <1>3. QED
    BY <1>1, <1>2 DEF Init, TypeOK

\* A step of one call of TriggerScrapingService keeps the types.
LEMMA RequestType ==
  ASSUME TypeOK, NEW r \in Requests,
         AddWaiter(r) \/ RequestStep(r) \/ RequestDies(r)
  PROVE  TypeOK'
  <1> USE CallerAssumption, NoEntryType DEF TypeOK, env, hookVars, redisVars
  <1>1. CASE AddWaiter(r)
    BY <1>1 DEF AddWaiter
  <1>2. CASE ExpireWaiters(r)
    BY <1>2 DEF ExpireWaiters
  <1>3. CASE ReadCache(r)
    <2>1. cache[Caller[r]] \in Entries
      OBVIOUS
    <2>2. seen' \in [Requests -> Entries]
      BY <1>3, <2>1 DEF ReadCache
    <2>3. QED
      BY <1>3, <2>2 DEF ReadCache
  <1>4. CASE QueryAthena(r)
    BY <1>4, AthenaEntryType DEF QueryAthena
  <1>5. CASE MarkSincronizando(r)
    <2>1. [seen[r] EXCEPT !.status = "SINCRONIZANDO"] \in Entries
      BY StatusUpdateType DEF Statuses
    <2>2. QED
      BY <1>5, <2>1 DEF MarkSincronizando
  <1>6. CASE MarkFails(r)
    BY <1>6 DEF MarkFails
  <1>7. CASE Claim(r)
    BY <1>7 DEF Claim
  <1>8. CASE PostAccepted(r)
    BY <1>8 DEF PostAccepted
  <1>9. CASE PostRejected(r)
    BY <1>9 DEF PostRejected
  <1>10. CASE ReleaseInflight(r)
    BY <1>10 DEF ReleaseInflight
  <1>11. CASE RequestDies(r)
    BY <1>11 DEF RequestDies
  <1>12. QED
    BY <1>1, <1>2, <1>3, <1>4, <1>5, <1>6, <1>7, <1>8, <1>9, <1>10, <1>11
       DEF RequestStep

\* A step of the scraper, of Athena or of the other pipeline keeps the types.
LEMMA ScraperType ==
  ASSUME TypeOK, NEW r \in Requests,
         JobFinishes(r) \/ JobLost(r) \/ PipelineExtraction(r) \/ AthenaLoads(r)
  PROVE  TypeOK'
  <1> USE DEF TypeOK, hookVars, redisVars, requestVars, env
  <1>1. CASE JobFinishes(r)
    BY <1>1 DEF JobFinishes
  <1>2. CASE JobLost(r)
    BY <1>2 DEF JobLost
  <1>3. CASE PipelineExtraction(r)
    BY <1>3 DEF PipelineExtraction
  <1>4. CASE AthenaLoads(r)
    BY <1>4 DEF AthenaLoads
  <1>5. QED
    BY <1>1, <1>2, <1>3, <1>4

\* A step of a delivery keeps the types.
LEMMA HandlerType ==
  ASSUME TypeOK, NEW h \in Handlers,
         HandlerStep(h) \/ SpotFails(h) \/ CacheFails(h) \/ HandlerDies(h)
  PROVE  TypeOK'
  <1> USE NoEntryType DEF TypeOK, env, redisVars, requestVars
  <1>1. CASE ReadWaiters(h)
    BY <1>1 DEF ReadWaiters
  <1>2. ASSUME NEW u \in Users, SetForWaiter(h, u)
        PROVE  TypeOK'
    <2>1. Response(hjob[h]) \in Entries
      BY ResponseType
    <2>2. QED
      BY <1>2, <2>1 DEF SetForWaiter, Settle
  <1>3. ASSUME NEW u \in Users, GetForWaiter(h, u)
        PROVE  TypeOK'
    <2>1. CASE cache[u] = NoEntry
      <3>1. Settle(h, u) /\ UNCHANGED got
        BY <1>3, <2>1 DEF GetForWaiter
      <3>2. QED
        BY <1>3, <3>1 DEF GetForWaiter, Settle
    <2>2. CASE cache[u] # NoEntry
      <3>1. /\ got' = [got EXCEPT ![h][u] = cache[u]]
            /\ UNCHANGED <<owed, hpc>>
        BY <1>3, <2>2 DEF GetForWaiter
      <3>2. cache[u] \in Entries /\ got[h] \in [Users -> Entries]
        OBVIOUS
      <3>3. got' \in [Handlers -> [Users -> Entries]]
        BY <3>1, <3>2
      <3>4. QED
        BY <1>3, <3>1, <3>3 DEF GetForWaiter
    <2>3. QED
      BY <2>1, <2>2
  <1>4. ASSUME NEW u \in Users, StatusForWaiter(h, u)
        PROVE  TypeOK'
    <2>1. outcome[hjob[h]].status \in Statuses
      BY OutcomesAssumption DEF NoOutcome, Statuses
    <2>2. [got[h][u] EXCEPT !.status = outcome[hjob[h]].status] \in Entries
      BY <2>1, StatusUpdateType
    <2>3. QED
      BY <1>4, <2>2 DEF StatusForWaiter, Settle
  <1>5. CASE DelWaiters(h)
    BY <1>5 DEF DelWaiters
  <1>6. CASE DelInflight(h)
    BY <1>6 DEF DelInflight
  <1>7. CASE SpotFails(h)
    BY <1>7 DEF SpotFails
  <1>8. CASE Finish(h) \/ FinishDetached(h) \/ HandlerDies(h) \/ CacheFails(h)
    <2>1. Retire(h) /\ idem' \in [Requests -> {"NEW", "PROCESSING", "DONE",
                                               "FAILED"}]
      BY <1>8 DEF Finish, FinishDetached, HandlerDies, CacheFails
    <2>2. QED
      BY <2>1, NoJobType DEF Retire
  <1>9. QED
    BY <1>1, <1>2, <1>3, <1>4, <1>5, <1>6, <1>7, <1>8 DEF HandlerStep

\* Every step keeps the types.
LEMMA NextType == TypeOK /\ [Next]_vars => TypeOK'
  <1> SUFFICES ASSUME TypeOK, [Next]_vars PROVE TypeOK'
    OBVIOUS
  <1>1. ASSUME NEW r \in Requests, NEW h \in Handlers, Acquire(h, r)
        PROVE  TypeOK'
    BY <1>1 DEF TypeOK, Acquire, redisVars, requestVars, env
  <1>2. CASE KeyExpires
    <2>1. CASE WaitersExpire
      BY <2>1 DEF TypeOK, WaitersExpire, requestVars, hookVars, env
    <2>2. CASE InflightExpires
      BY <2>2 DEF TypeOK, InflightExpires, requestVars, hookVars, env
    <2>3. ASSUME NEW r \in Requests, IdemExpires(r)
          PROVE  TypeOK'
      BY <2>3 DEF TypeOK, IdemExpires, redisVars, requestVars, hookVars, env
    <2>4. QED
      BY <1>2, <2>1, <2>2, <2>3 DEF KeyExpires
  <1>3. CASE UNCHANGED vars
    BY <1>3 DEF TypeOK, vars
  <1>4. QED
    BY <1>1, <1>2, <1>3, RequestType, ScraperType, HandlerType DEF Next

\* Whatever the faults, every variable keeps its type.
THEOREM TypeCorrect == Spec => []TypeOK
  BY InitType, NextType, PTL DEF Spec

-----------------------------------------------------------------------------
(* Per-user isolation.                                                     *)

\* The inductive form of OnlyOfficialDataUnlessAsked: only users who asked
\* wait, are in a snapshot, or have an entry of their own.
IsolationInv ==
    /\ \A u \in Users : cache[u] # NoEntry => Asked(u)
    /\ \A u \in waiters : Asked(u)
    /\ \A h \in Handlers : \A u \in owed[h] : Asked(u)

\* A request never becomes unasked again.
LEMMA AskedForever ==
  ASSUME TypeOK, [Next]_vars, NEW u \in Users, Asked(u)
  PROVE  Asked(u)'
  <1>1. PICK r \in Requests :
             Caller[r] = u /\ pc[r] \notin {"idle", "external"}
    BY DEF Asked
  <1>2. pc'[r] \notin {"idle", "external"}
    <2> USE <1>1 DEF TypeOK, requestVars
    <2>1. CASE \E s \in Requests : AddWaiter(s) \/ RequestStep(s)
                                     \/ RequestDies(s) \/ PipelineExtraction(s)
      BY <2>1 DEF RequestStep, AddWaiter, ExpireWaiters, ReadCache,
              QueryAthena, MarkSincronizando, MarkFails, Claim, PostAccepted,
              PostRejected, ReleaseInflight, RequestDies, PipelineExtraction
    <2>2. CASE \E s \in Requests : JobFinishes(s) \/ JobLost(s)
                                     \/ AthenaLoads(s)
      BY <2>2 DEF JobFinishes, JobLost, AthenaLoads
    <2>3. CASE \E h \in Handlers : (\E s \in Requests : Acquire(h, s))
                    \/ HandlerStep(h) \/ SpotFails(h) \/ CacheFails(h)
                    \/ HandlerDies(h)
      BY <2>3 DEF Acquire, HandlerStep, SpotFails, CacheFails, HandlerDies,
              ReadWaiters, SetForWaiter, GetForWaiter, StatusForWaiter,
              DelWaiters, DelInflight, Finish, FinishDetached, Retire
    <2>4. CASE KeyExpires \/ UNCHANGED vars
      BY <2>4 DEF KeyExpires, WaitersExpire, InflightExpires, IdemExpires,
              requestVars, vars
    <2>5. QED
      BY <2>1, <2>2, <2>3, <2>4 DEF Next
  <1>3. QED
    BY <1>1, <1>2 DEF Asked

\* A step keeps IsolationInv: what it adds to a cache, to the waiters or to a
\* snapshot belongs to someone who asked.
LEMMA NextIsolation ==
  TypeOK /\ IsolationInv /\ [Next]_vars => IsolationInv'
  <1> SUFFICES ASSUME TypeOK, IsolationInv, [Next]_vars
               PROVE  IsolationInv'
    OBVIOUS
  <1>0. \A u \in Users : Asked(u) => Asked(u)'
    BY AskedForever
  <1>1. \A u \in Users : cache'[u] # NoEntry => Asked(u) \/ Asked(u)'
    <2> USE DEF IsolationInv, TypeOK, redisVars
    <2>1. ASSUME NEW r \in Requests, MarkSincronizando(r)
          PROVE  \A u \in Users : cache'[u] # NoEntry => Asked(u)
      BY <2>1, CallerAssumption, SMTT(30) DEF MarkSincronizando, Asked
    <2>2. ASSUME NEW h \in Handlers, NEW v \in Users,
                 SetForWaiter(h, v) \/ StatusForWaiter(h, v)
          PROVE  \A u \in Users : cache'[u] # NoEntry => Asked(u)
      BY <2>2 DEF SetForWaiter, StatusForWaiter
    <2>3. CASE UNCHANGED cache
      BY <2>3
    <2>4. QED
      BY <2>1, <2>2, <2>3 DEF Next, RequestStep, AddWaiter, ExpireWaiters,
         ReadCache, QueryAthena, MarkFails, Claim, PostAccepted, PostRejected,
         ReleaseInflight, RequestDies, JobFinishes, JobLost,
         PipelineExtraction, AthenaLoads, Acquire, HandlerStep, ReadWaiters,
         GetForWaiter, DelWaiters, DelInflight, Finish, FinishDetached,
         SpotFails, CacheFails, HandlerDies, Retire, KeyExpires,
         WaitersExpire, InflightExpires, IdemExpires, requestVars, vars
  <1>2. \A u \in waiters' : Asked(u) \/ Asked(u)'
    <2> USE DEF IsolationInv, TypeOK, redisVars
    <2>1. ASSUME NEW r \in Requests, AddWaiter(r)
          PROVE  \A u \in waiters' : Asked(u) \/ Asked(u)'
      BY <2>1, CallerAssumption DEF AddWaiter, Asked
    <2>2. CASE waiters' \subseteq waiters
      BY <2>2
    <2>3. QED
      BY <2>1, <2>2, ZenonT(60) DEF Next, RequestStep, ExpireWaiters,
         ReadCache, QueryAthena, MarkSincronizando, MarkFails, Claim,
         PostAccepted, PostRejected, ReleaseInflight, RequestDies,
         JobFinishes, JobLost, PipelineExtraction, AthenaLoads, Acquire,
         HandlerStep, ReadWaiters, SetForWaiter, GetForWaiter,
         StatusForWaiter, DelWaiters, DelInflight, Finish, FinishDetached,
         SpotFails, CacheFails, HandlerDies, Retire, KeyExpires,
         WaitersExpire, InflightExpires, IdemExpires, requestVars, vars
  <1>3. ASSUME NEW h \in Handlers, NEW u \in owed'[h]
        PROVE  Asked(u)
    <2> USE DEF TypeOK
    <2>1. ASSUME NEW g \in Handlers, ReadWaiters(g)
          PROVE  owed'[h] \subseteq owed[h] \/ owed'[h] \subseteq waiters
      BY <2>1 DEF ReadWaiters
    <2>2. ASSUME NEW g \in Handlers, NEW v \in Users,
                 Settle(g, v) \/ UNCHANGED owed
          PROVE  owed'[h] \subseteq owed[h]
      BY <2>2 DEF Settle
    <2>3. ASSUME NEW g \in Handlers, Retire(g)
          PROVE  owed'[h] \subseteq owed[h]
      BY <2>3 DEF Retire
    <2>4. ASSUME NEW g \in Handlers, NEW v \in Users,
                 SetForWaiter(g, v) \/ GetForWaiter(g, v)
                   \/ StatusForWaiter(g, v)
          PROVE  Settle(g, v) \/ UNCHANGED owed
      BY <2>4 DEF SetForWaiter, GetForWaiter, StatusForWaiter
    <2>5. ASSUME NEW g \in Handlers,
                 Finish(g) \/ FinishDetached(g) \/ CacheFails(g)
                   \/ HandlerDies(g)
          PROVE  Retire(g)
      BY <2>5 DEF Finish, FinishDetached, CacheFails, HandlerDies
    <2>6. UNCHANGED owed => owed'[h] \subseteq owed[h]
      OBVIOUS
    <2>7. ASSUME NEW g \in Handlers,
                 (\E r \in Requests : Acquire(g, r))
                   \/ DelWaiters(g) \/ DelInflight(g) \/ SpotFails(g)
          PROVE  UNCHANGED owed
      BY <2>7 DEF Acquire, DelWaiters, DelInflight, SpotFails
    <2>8. ASSUME NEW r \in Requests,
                 AddWaiter(r) \/ RequestStep(r) \/ RequestDies(r)
                   \/ JobFinishes(r) \/ JobLost(r) \/ PipelineExtraction(r)
                   \/ AthenaLoads(r)
          PROVE  UNCHANGED owed
      BY <2>8 DEF AddWaiter, RequestStep, ExpireWaiters, ReadCache,
         QueryAthena, MarkSincronizando, MarkFails, Claim, PostAccepted,
         PostRejected, ReleaseInflight, RequestDies, JobFinishes, JobLost,
         PipelineExtraction, AthenaLoads, hookVars
    <2>9. owed'[h] \subseteq owed[h] \/ owed'[h] \subseteq waiters
      <3>1. CASE \E r \in Requests : AddWaiter(r) \/ RequestStep(r)
                   \/ RequestDies(r) \/ JobFinishes(r) \/ JobLost(r)
                   \/ PipelineExtraction(r) \/ AthenaLoads(r)
        BY <3>1, <2>8, <2>6
      <3>2. CASE \E g \in Handlers : HandlerStep(g) \/ SpotFails(g)
                   \/ CacheFails(g) \/ HandlerDies(g)
                   \/ \E r \in Requests : Acquire(g, r)
        BY <3>2, <2>1, <2>2, <2>3, <2>4, <2>5, <2>6, <2>7 DEF HandlerStep
      <3>3. CASE KeyExpires \/ UNCHANGED vars
        BY <3>3, <2>6
           DEF KeyExpires, WaitersExpire, InflightExpires, IdemExpires,
               hookVars, vars
      <3>4. QED
        BY <3>1, <3>2, <3>3 DEF Next
    <2>10. QED
      BY <2>9 DEF IsolationInv
  <1>4. waiters' \subseteq Users /\ \A h \in Handlers : owed'[h] \subseteq Users
    BY NextType DEF TypeOK
  <1>5. QED
    BY <1>0, <1>1, <1>2, <1>3, <1>4 DEF IsolationInv

\* Under every fault, a user who never asked for a synchronisation is shown
\* the official record only: no cache entry is ever his.
THEOREM Isolation == Spec => []OnlyOfficialDataUnlessAsked
  <1>1. Init => IsolationInv
    BY DEF Init, IsolationInv
  <1>2. IsolationInv => OnlyOfficialDataUnlessAsked
    BY DEF IsolationInv, OnlyOfficialDataUnlessAsked, FindProcesso
  <1>3. QED
    BY <1>1, <1>2, NextIsolation, TypeCorrect, PTL DEF Spec

-----------------------------------------------------------------------------
(* Ownership of a delivery, under every fault.                             *)

\* What leaves the deliveries and the idempotency keys alone keeps it.
LEMMA OwnerFrame ==
  ASSUME OneOwnerPerWebhook, UNCHANGED <<idem, hjob, rejected>>,
         \A g \in Handlers : hpc'[g] # "idle" => hpc[g] # "idle"
  PROVE  OneOwnerPerWebhook'
  BY DEF OneOwnerPerWebhook

\* A delivery that reports its result takes nobody else's result with it.
LEMMA OwnerRetires ==
  ASSUME TypeOK, OneOwnerPerWebhook, NEW h \in Handlers, Retire(h),
         \/ idem' = idem
         \/ /\ hpc[h] # "idle" /\ ~rejected[h]
            /\ \E s \in {"DONE", "FAILED"} :
                  idem' = [idem EXCEPT ![hjob[h]] = s]
  PROVE  OneOwnerPerWebhook'
  <1> USE DEF TypeOK
  <1>1. /\ hpc' = [hpc EXCEPT ![h] = "idle"]
        /\ hjob' = [hjob EXCEPT ![h] = NoJob]
        /\ rejected' = [rejected EXCEPT ![h] = FALSE]
    BY DEF Retire
  <1>2. \A g \in Handlers : hpc'[g] # "idle" =>
           g # h /\ hpc[g] # "idle" /\ hjob'[g] = hjob[g]
             /\ rejected'[g] = rejected[g]
    BY <1>1
  <1>3. ASSUME NEW g \in Handlers, hpc'[g] # "idle", ~rejected'[g]
        PROVE  idem'[hjob[g]] = "PROCESSING"
    <2>1. g # h /\ hpc[g] # "idle" /\ ~rejected[g]
      BY <1>2, <1>3
    <2>2. idem[hjob[g]] = "PROCESSING"
      BY <2>1 DEF OneOwnerPerWebhook
    <2>3. CASE hpc[h] # "idle" /\ ~rejected[h]
      <3>1. hjob[g] # hjob[h]
        BY <2>1, <2>3 DEF OneOwnerPerWebhook
      <3>2. QED
        BY <2>2, <3>1
    <2>4. QED
      BY <2>2, <2>3
  <1>4. QED
    BY <1>2, <1>3 DEF OneOwnerPerWebhook

LEMMA HandlerOwner ==
  ASSUME TypeOK, OneOwnerPerWebhook, NEW h \in Handlers,
         HandlerStep(h) \/ SpotFails(h) \/ CacheFails(h) \/ HandlerDies(h)
           \/ \E r \in Requests : Acquire(h, r)
  PROVE  OneOwnerPerWebhook'
  <1> USE DEF TypeOK, requestVars, env
  <1>1. ASSUME NEW r \in Requests, Acquire(h, r)
        PROVE  OneOwnerPerWebhook'
    <2>1. /\ idem' = [idem EXCEPT ![r] = "PROCESSING"]
          /\ hjob' = [hjob EXCEPT ![h] = r]
          /\ hpc' = [hpc EXCEPT ![h] = "smembers"]
          /\ rejected' = rejected
          /\ hpc[h] = "idle" /\ idem[r] # "PROCESSING"
      BY <1>1 DEF Acquire, Undelivered
    <2>2. \A g \in Handlers \ {h} :
             hpc[g] # "idle" /\ hjob[g] = r => rejected[g]
      BY <2>1 DEF OneOwnerPerWebhook
    <2>3. QED
      BY <2>1, <2>2 DEF OneOwnerPerWebhook
  <1>2. ASSUME NEW u \in Users,
               SetForWaiter(h, u) \/ StatusForWaiter(h, u)
        PROVE  OneOwnerPerWebhook'
    <2>1. UNCHANGED <<idem, hjob, rejected>> /\ Settle(h, u)
      BY <1>2 DEF SetForWaiter, StatusForWaiter
    <2>2. hpc[h] # "idle"
      BY <1>2 DEF SetForWaiter, StatusForWaiter
    <2>3. QED
      BY <2>1, <2>2, OwnerFrame DEF Settle
  <1>3. ASSUME NEW u \in Users, GetForWaiter(h, u)
        PROVE  OneOwnerPerWebhook'
    <2>1. UNCHANGED <<idem, hjob, rejected>> /\ hpc[h] # "idle"
      BY <1>3 DEF GetForWaiter
    <2>2. Settle(h, u) \/ UNCHANGED hpc
      BY <1>3 DEF GetForWaiter
    <2>3. QED
      BY <2>1, <2>2, OwnerFrame DEF Settle
  <1>4. CASE ReadWaiters(h) \/ DelWaiters(h) \/ DelInflight(h)
    <2>1. UNCHANGED <<idem, hjob, rejected>> /\ hpc[h] # "idle"
      BY <1>4 DEF ReadWaiters, DelWaiters, DelInflight
    <2>2. hpc' = [hpc EXCEPT ![h] = hpc'[h]]
      BY <1>4 DEF ReadWaiters, DelWaiters, DelInflight
    <2>3. QED
      BY <2>1, <2>2, OwnerFrame
  <1>5. CASE SpotFails(h)
    <2>1. /\ UNCHANGED <<hpc, hjob>> /\ hpc[h] # "idle" /\ ~rejected[h]
          /\ rejected' = [rejected EXCEPT ![h] = TRUE]
          /\ idem' = [idem EXCEPT ![hjob[h]] = "FAILED"]
      BY <1>5 DEF SpotFails
    <2>2. \A g \in Handlers \ {h} :
             hpc[g] # "idle" /\ hjob[g] = hjob[h] => rejected[g]
      BY <2>1 DEF OneOwnerPerWebhook
    <2>3. QED
      BY <2>1, <2>2 DEF OneOwnerPerWebhook
  <1>6. CASE Finish(h) \/ FinishDetached(h) \/ HandlerDies(h)
    BY <1>6, OwnerRetires DEF Finish, FinishDetached, HandlerDies
  <1>7. CASE CacheFails(h)
    <2>1. Retire(h) /\ hpc[h] # "idle"
      BY <1>7 DEF CacheFails
    <2>2. rejected[h] => idem' = idem
      BY <1>7 DEF CacheFails
    <2>3. ~rejected[h] => idem' = [idem EXCEPT ![hjob[h]] = "FAILED"]
      BY <1>7 DEF CacheFails
    <2>4. QED
      BY <2>1, <2>2, <2>3, OwnerRetires
  <1>8. QED
    BY <1>1, <1>2, <1>3, <1>4, <1>5, <1>6, <1>7 DEF HandlerStep

\* Under every fault, at most one delivery that can still report a result
\* works on it, and its idempotency key says so: the Lua script's promise.
THEOREM Ownership == Spec => []OneOwnerPerWebhook
  <1>1. Init => OneOwnerPerWebhook
    BY DEF Init, OneOwnerPerWebhook
  <1>2. TypeOK /\ OneOwnerPerWebhook /\ [Next]_vars => OneOwnerPerWebhook'
    <2> SUFFICES ASSUME TypeOK, OneOwnerPerWebhook, [Next]_vars
                 PROVE  OneOwnerPerWebhook'
      OBVIOUS
    <2>1. ASSUME NEW r \in Requests,
                 AddWaiter(r) \/ RequestStep(r) \/ RequestDies(r)
                   \/ JobFinishes(r) \/ JobLost(r) \/ PipelineExtraction(r)
                   \/ AthenaLoads(r)
          PROVE  UNCHANGED <<idem, hookVars>>
      BY <2>1 DEF RequestStep, AddWaiter, ExpireWaiters, ReadCache,
              QueryAthena, MarkSincronizando, MarkFails, Claim, PostAccepted,
              PostRejected, ReleaseInflight, RequestDies, JobFinishes,
              JobLost, PipelineExtraction, AthenaLoads, hookVars
    <2>2. ASSUME WaitersExpire \/ InflightExpires \/ UNCHANGED vars
          PROVE  UNCHANGED <<idem, hookVars>>
      BY <2>2 DEF WaitersExpire, InflightExpires, vars, hookVars
    <2>3. ASSUME UNCHANGED <<idem, hookVars>>
          PROVE  OneOwnerPerWebhook'
      BY <2>3, OwnerFrame DEF hookVars
    <2>4. ASSUME NEW r \in Requests, IdemExpires(r)
          PROVE  OneOwnerPerWebhook'
      BY <2>4 DEF IdemExpires, OneOwnerPerWebhook, hookVars, TypeOK
    <2>5. QED
      BY <2>1, <2>2, <2>3, <2>4, HandlerOwner DEF Next, KeyExpires
  <1>3. QED
    BY <1>1, <1>2, TypeCorrect, PTL DEF Spec

-----------------------------------------------------------------------------
(* Exclusion: without the faults that the lock was not made for.           *)

\* The TTLs outlast an extraction, the answer to the POST arrives, both
\* branches of a delivery succeed and the old pipeline is off.  Crashes, lost
\* extractions and refused POSTs stay.
NoLockFaults ==
    Faults \cap {"slow", "lostReply", "branchFails", "pipeline"} = {}

Holds(r) == Occupies(r) \/ pc[r] = "release"

\* The holder is unique and the lock exists while there is one; the rest says
\* why only the holder deletes it.
DeliveryInv ==
    /\ \A r \in Requests : /\ idem[r] # "FAILED"
                           /\ pc[r] \in {"idle"} \cup BeforeClaim \cup Posting
                                => job[r] = "none"
    /\ \A h \in Handlers :
          /\ ~rejected[h]
          /\ hpc[h] # "idle" => /\ job[hjob[h]] = "finished"
                                /\ idem[hjob[h]] = "PROCESSING"
          /\ \A g \in Handlers : hpc[h] # "idle" /\ hpc[g] # "idle"
                                   /\ hjob[g] = hjob[h] => g = h

HolderInv ==
    /\ \A r, s \in Requests : Holds(r) /\ Holds(s) => r = s
    /\ \A r \in Requests : Holds(r) => inflight

LockInv == DeliveryInv /\ HolderInv

\* A request's own step: nothing of the deliveries changes, and its job
\* starts when it leaves the path for good.
LEMMA RequestDelivery ==
  ASSUME TypeOK, DeliveryInv, NoLockFaults, NEW r \in Requests,
         AddWaiter(r) \/ RequestStep(r) \/ RequestDies(r)
  PROVE  DeliveryInv'
  <1> USE DEF TypeOK, DeliveryInv, hookVars, env, BeforeClaim, Posting
  <1>1. CASE PostAccepted(r)
    BY <1>1 DEF PostAccepted, NoLockFaults
  <1>2. CASE \/ AddWaiter(r) \/ ExpireWaiters(r) \/ QueryAthena(r)
             \/ MarkSincronizando(r) \/ MarkFails(r) \/ PostRejected(r)
             \/ ReleaseInflight(r) \/ RequestDies(r)
    BY <1>2 DEF AddWaiter, ExpireWaiters, QueryAthena, MarkSincronizando,
            MarkFails, PostRejected, ReleaseInflight, RequestDies, Active
  <1>3. CASE ReadCache(r)
    <2>1. pc'[r] \in {"mark", "athena"} /\ job[r] = "none"
      BY <1>3 DEF ReadCache
    <2>2. pc' = [pc EXCEPT ![r] = pc'[r]]
      BY <1>3 DEF ReadCache
    <2>3. UNCHANGED <<job, idem, hpc, hjob, rejected>>
      BY <1>3 DEF ReadCache
    <2>4. QED
      BY <2>1, <2>2, <2>3
  <1>4. CASE Claim(r)
    <2>1. pc'[r] \in {"done", "post"} /\ job[r] = "none"
      BY <1>4 DEF Claim
    <2>2. pc' = [pc EXCEPT ![r] = pc'[r]]
      BY <1>4 DEF Claim
    <2>3. UNCHANGED <<job, idem, hpc, hjob, rejected>>
      BY <1>4 DEF Claim
    <2>4. QED
      BY <2>1, <2>2, <2>3
  <1>5. QED
    BY <1>1, <1>2, <1>3, <1>4 DEF RequestStep

\* The scraper's step: a finished extraction never runs again.
LEMMA ScraperDelivery ==
  ASSUME TypeOK, DeliveryInv, NoLockFaults, NEW r \in Requests,
         JobFinishes(r) \/ JobLost(r) \/ PipelineExtraction(r)
           \/ AthenaLoads(r)
  PROVE  DeliveryInv'
  <1> USE DEF TypeOK, DeliveryInv, hookVars, requestVars, BeforeClaim, Posting
  <1>1. CASE JobFinishes(r) \/ JobLost(r)
    BY <1>1 DEF JobFinishes, JobLost
  <1>2. CASE AthenaLoads(r)
    BY <1>2 DEF AthenaLoads
  <1>3. ~PipelineExtraction(r)
    BY DEF PipelineExtraction, NoLockFaults
  <1>4. QED
    BY <1>1, <1>2, <1>3

\* A delivery's step: it takes up a result nobody has, and gives it back as
\* DONE or, dying, as PROCESSING.
LEMMA HandlerDelivery ==
  ASSUME TypeOK, DeliveryInv, NoLockFaults, NEW h \in Handlers,
         HandlerStep(h) \/ SpotFails(h) \/ CacheFails(h) \/ HandlerDies(h)
           \/ \E r \in Requests : Acquire(h, r)
  PROVE  DeliveryInv'
  <1> USE DEF TypeOK, DeliveryInv, requestVars, env, BeforeClaim, Posting
  <1>1. ASSUME NEW r \in Requests, Acquire(h, r)
        PROVE  DeliveryInv'
    BY <1>1 DEF Acquire, Undelivered
  <1>2. ASSUME hpc'[h] # "idle", hpc[h] # "idle",
               hpc' = [hpc EXCEPT ![h] = hpc'[h]],
               UNCHANGED <<pc, job, idem, hjob, rejected>>
        PROVE  DeliveryInv'
    BY <1>2
  <1>3. CASE ReadWaiters(h)
    BY <1>3, <1>2 DEF ReadWaiters
  <1>4. ASSUME NEW u \in Users, hpc[h] # "idle", Settle(h, u)
        PROVE  hpc'[h] # "idle" /\ hpc' = [hpc EXCEPT ![h] = hpc'[h]]
    BY <1>4 DEF Settle
  <1>5. ASSUME NEW u \in Users, SetForWaiter(h, u) \/ StatusForWaiter(h, u)
        PROVE  DeliveryInv'
    BY <1>5, <1>2, <1>4 DEF SetForWaiter, StatusForWaiter
  <1>6. ASSUME NEW u \in Users, GetForWaiter(h, u)
        PROVE  DeliveryInv'
    <2>1. CASE cache[u] = NoEntry
      BY <1>6, <2>1, <1>2, <1>4 DEF GetForWaiter
    <2>2. CASE cache[u] # NoEntry
      BY <1>6, <2>2 DEF GetForWaiter
    <2>3. QED
      BY <2>1, <2>2
  <1>7. CASE DelWaiters(h) \/ DelInflight(h)
    BY <1>7 DEF DelWaiters, DelInflight
  <1>8. CASE Finish(h) \/ FinishDetached(h) \/ HandlerDies(h)
    <2>1. /\ UNCHANGED <<pc, job>>
          /\ hpc' = [hpc EXCEPT ![h] = "idle"]
          /\ hjob' = [hjob EXCEPT ![h] = NoJob]
          /\ rejected' = [rejected EXCEPT ![h] = FALSE]
      BY <1>8 DEF Finish, FinishDetached, HandlerDies, Retire
    <2>2. idem' = idem \/ idem' = [idem EXCEPT ![hjob[h]] = "DONE"]
      BY <1>8 DEF Finish, FinishDetached, HandlerDies
    <2>3. hpc[h] # "idle"
      BY <1>8 DEF Finish, FinishDetached, HandlerDies
    <2>4. \A g \in Handlers : hpc'[g] # "idle" =>
             g # h /\ hpc[g] # "idle" /\ hjob'[g] = hjob[g]
               /\ idem'[hjob[g]] = idem[hjob[g]]
      BY <2>1, <2>2, <2>3
    <2>5. \A r \in Requests : idem'[r] # "FAILED"
      BY <2>2
    <2>6. \A g \in Handlers : ~rejected'[g]
      BY <2>1
    <2>7. QED
      BY <2>1, <2>4, <2>5, <2>6
  <1>9. ~SpotFails(h) /\ ~CacheFails(h)
    BY DEF SpotFails, CacheFails, NoLockFaults
  <1>10. QED
    BY <1>1, <1>3, <1>5, <1>6, <1>7, <1>8, <1>9 DEF HandlerStep

LEMMA NextDelivery ==
  TypeOK /\ DeliveryInv /\ NoLockFaults /\ [Next]_vars => DeliveryInv'
  <1> SUFFICES ASSUME TypeOK, DeliveryInv, NoLockFaults, [Next]_vars
               PROVE  DeliveryInv'
    OBVIOUS
  <1>1. CASE KeyExpires \/ UNCHANGED vars
    BY <1>1 DEF NoLockFaults, KeyExpires, WaitersExpire, InflightExpires,
            IdemExpires, vars, env, requestVars, hookVars, DeliveryInv
  <1>2. QED
    BY <1>1, RequestDelivery, ScraperDelivery, HandlerDelivery DEF Next

\* The holder does not change and neither does the lock.
LEMMA SameHolder ==
  ASSUME HolderInv, inflight' = inflight,
         \A r \in Requests : Holds(r)' => Holds(r)
  PROVE  HolderInv'
  BY DEF HolderInv

\* What a step leaves alone decides Holds.
LEMMA HoldsFrame ==
  ASSUME UNCHANGED <<pc, job, idem, hpc, hjob>>, NEW r \in Requests
  PROVE  Holds(r)' <=> Holds(r)
  BY DEF Holds, Occupies, Undelivered

LEMMA RequestHolder ==
  ASSUME TypeOK, LockInv, NoLockFaults, NEW r \in Requests,
         AddWaiter(r) \/ RequestStep(r) \/ RequestDies(r)
  PROVE  HolderInv'
  <1> USE DEF TypeOK, LockInv, hookVars, env, BeforeClaim, Posting
  <1>1. CASE \/ AddWaiter(r) \/ ExpireWaiters(r) \/ ReadCache(r)
             \/ QueryAthena(r) \/ MarkSincronizando(r) \/ MarkFails(r)
             \/ RequestDies(r) \/ PostRejected(r)
    <2>1. UNCHANGED <<inflight, job, idem, hpc, hjob>>
      BY <1>1 DEF AddWaiter, ExpireWaiters, ReadCache, QueryAthena,
              MarkSincronizando, MarkFails, RequestDies, PostRejected,
              redisVars
    <2>2. pc' = [pc EXCEPT ![r] = pc'[r]]
      BY <1>1 DEF AddWaiter, ExpireWaiters, ReadCache, QueryAthena,
              MarkSincronizando, MarkFails, RequestDies, PostRejected
    <2>3. pc'[r] # "post" /\ (pc'[r] = "release" => pc[r] = "post")
      BY <1>1 DEF AddWaiter, ExpireWaiters, ReadCache, QueryAthena,
              MarkSincronizando, MarkFails, RequestDies, PostRejected
    <2>4. \A s \in Requests : Holds(s)' => Holds(s)
      BY <2>1, <2>2, <2>3 DEF Holds, Occupies, Undelivered
    <2>5. QED
      BY <2>1, <2>4, SameHolder
  <1>2. CASE Claim(r)
    <2>1. UNCHANGED <<job, idem, hpc, hjob>> /\ inflight'
      BY <1>2 DEF Claim
    <2>2. pc' = [pc EXCEPT ![r] = pc'[r]]
      BY <1>2 DEF Claim
    <2>3. \A s \in Requests : Holds(s)' =>
             Holds(s) \/ (s = r /\ pc'[r] \in Posting)
      BY <2>1, <2>2 DEF Holds, Occupies, Undelivered
    <2>4. pc'[r] \in Posting => ~inflight
      BY <1>2 DEF Claim
    <2>5. QED
      BY <2>1, <2>3, <2>4 DEF HolderInv
  <1>3. CASE PostAccepted(r)
    <2>1. /\ UNCHANGED <<inflight, idem, hpc, hjob>>
          /\ job' = [job EXCEPT ![r] = "running"]
          /\ pc' = [pc EXCEPT ![r] = "done"]
          /\ pc[r] = "post"
      BY <1>3 DEF PostAccepted, NoLockFaults, redisVars
    <2>2. \A s \in Requests : Holds(s)' => Holds(s)
      BY <2>1 DEF Holds, Occupies, Undelivered
    <2>3. QED
      BY <2>1, <2>2, SameHolder
  <1>4. CASE ReleaseInflight(r)
    <2>1. /\ UNCHANGED <<job, idem, hpc, hjob>>
          /\ pc' = [pc EXCEPT ![r] = "done"]
          /\ pc[r] = "release"
      BY <1>4 DEF ReleaseInflight
    <2>2. Holds(r) /\ job[r] = "none"
      BY <2>1 DEF Holds, DeliveryInv
    <2>3. ~Holds(r)'
      BY <2>1, <2>2 DEF Holds, Occupies, Undelivered, DeliveryInv, CacheBranch
    <2>4. \A s \in Requests : Holds(s)' => Holds(s)
      BY <2>1 DEF Holds, Occupies, Undelivered
    <2>5. \A s \in Requests : ~Holds(s)'
      BY <2>2, <2>3, <2>4 DEF HolderInv
    <2>6. QED
      BY <2>5 DEF HolderInv
  <1>5. QED
    BY <1>1, <1>2, <1>3, <1>4 DEF RequestStep

LEMMA ScraperHolder ==
  ASSUME TypeOK, LockInv, NoLockFaults, NEW r \in Requests,
         JobFinishes(r) \/ JobLost(r) \/ PipelineExtraction(r)
           \/ AthenaLoads(r)
  PROVE  HolderInv'
  <1> USE DEF TypeOK, LockInv, hookVars, requestVars, redisVars
  <1>1. CASE JobFinishes(r) \/ JobLost(r)
    <2>1. UNCHANGED <<inflight, pc, idem, hpc, hjob>> /\ job[r] = "running"
      BY <1>1 DEF JobFinishes, JobLost
    <2>2. job' = [job EXCEPT ![r] = job'[r]]
      BY <1>1 DEF JobFinishes, JobLost
    <2>3. \A s \in Requests : Holds(s)' => Holds(s)
      BY <2>1, <2>2 DEF Holds, Occupies, Undelivered
    <2>4. QED
      BY <2>1, <2>3, SameHolder
  <1>2. CASE AthenaLoads(r)
    BY <1>2, HoldsFrame, SameHolder DEF AthenaLoads
  <1>3. ~PipelineExtraction(r)
    BY DEF PipelineExtraction, NoLockFaults
  <1>4. QED
    BY <1>1, <1>2, <1>3

LEMMA HandlerHolder ==
  ASSUME TypeOK, LockInv, NoLockFaults, NEW h \in Handlers,
         HandlerStep(h) \/ SpotFails(h) \/ CacheFails(h) \/ HandlerDies(h)
           \/ \E r \in Requests : Acquire(h, r)
  PROVE  HolderInv'
  <1> USE DEF TypeOK, LockInv, requestVars, redisVars, env
  <1>1. ASSUME NEW r \in Requests, Acquire(h, r)
        PROVE  HolderInv'
    <2>1. /\ UNCHANGED <<inflight, pc, job>> /\ Undelivered(r)
          /\ idem' = [idem EXCEPT ![r] = "PROCESSING"]
          /\ hjob' = [hjob EXCEPT ![h] = r]
          /\ hpc' = [hpc EXCEPT ![h] = "smembers"]
          /\ hpc[h] = "idle"
      BY <1>1 DEF Acquire
    <2>2. \A s \in Requests : Holds(s)' => Holds(s)
      BY <2>1 DEF Holds, Occupies, Undelivered, CacheBranch
    <2>3. QED
      BY <2>1, <2>2, SameHolder
  <1>2. ASSUME inflight' = inflight, UNCHANGED <<pc, job, idem, hjob>>,
               hpc' = [hpc EXCEPT ![h] = hpc'[h]],
               hpc[h] \in {"smembers"} \cup CacheBranch
        PROVE  HolderInv'
    <2>1. \A s \in Requests : Holds(s)' => Holds(s)
      BY <1>2 DEF Holds, Occupies, Undelivered
    <2>2. QED
      BY <1>2, <2>1, SameHolder
  <1>3. CASE ReadWaiters(h)
    BY <1>3, <1>2 DEF ReadWaiters
  <1>4. ASSUME NEW u \in Users, Settle(h, u)
        PROVE  hpc' = [hpc EXCEPT ![h] = hpc'[h]]
    BY <1>4 DEF Settle
  <1>5. ASSUME NEW u \in Users, SetForWaiter(h, u) \/ StatusForWaiter(h, u)
        PROVE  HolderInv'
    BY <1>5, <1>2, <1>4 DEF SetForWaiter, StatusForWaiter, CacheBranch
  <1>6. ASSUME NEW u \in Users, GetForWaiter(h, u)
        PROVE  HolderInv'
    <2>1. CASE cache[u] = NoEntry
      BY <1>6, <2>1, <1>2, <1>4 DEF GetForWaiter, CacheBranch
    <2>2. CASE cache[u] # NoEntry
      BY <1>6, <2>2, HoldsFrame, SameHolder DEF GetForWaiter
    <2>3. QED
      BY <2>1, <2>2
  <1>7. CASE DelWaiters(h)
    BY <1>7, <1>2 DEF DelWaiters, CacheBranch
  <1>8. CASE DelInflight(h)
    <2>1. /\ UNCHANGED <<pc, job, idem, hjob>> /\ hpc[h] = "delInflight"
          /\ hpc' = [hpc EXCEPT ![h] = "end"]
      BY <1>8 DEF DelInflight
    <2>2. Holds(hjob[h])
      BY <2>1 DEF Holds, Occupies, CacheBranch
    <2>3. \A s \in Requests : Holds(s)' => Holds(s)
      BY <2>1 DEF Holds, Occupies, Undelivered, CacheBranch
    <2>4. job[hjob[h]] = "finished" /\ idem[hjob[h]] = "PROCESSING"
      BY <2>1 DEF DeliveryInv
    <2>5. pc[hjob[h]] \notin Posting
      BY <2>4 DEF DeliveryInv
    <2>6. \A g \in Handlers \ {h} : hpc[g] # "idle" => hjob[g] # hjob[h]
      BY <2>1 DEF DeliveryInv
    <2>7. ~Holds(hjob[h])'
      BY <2>1, <2>4, <2>5, <2>6
         DEF Holds, Occupies, Undelivered, CacheBranch, Posting
    <2>8. \A s \in Requests : ~Holds(s)'
      BY <2>2, <2>3, <2>7, <2>1 DEF HolderInv
    <2>9. QED
      BY <2>8 DEF HolderInv
  <1>9. CASE Finish(h) \/ FinishDetached(h) \/ HandlerDies(h)
    <2>1. /\ UNCHANGED <<inflight, pc, job>>
          /\ hpc' = [hpc EXCEPT ![h] = "idle"]
          /\ hjob' = [hjob EXCEPT ![h] = NoJob]
      BY <1>9 DEF Finish, FinishDetached, HandlerDies, Retire
    <2>2. idem' = idem \/ idem' = [idem EXCEPT ![hjob[h]] = "DONE"]
      BY <1>9 DEF Finish, FinishDetached, HandlerDies
    <2>3. \A s \in Requests : Undelivered(s)' => Undelivered(s)
      BY <2>1, <2>2 DEF Undelivered
    <2>4. \A s \in Requests : Holds(s)' => Holds(s)
      BY <2>1, <2>3 DEF Holds, Occupies, CacheBranch
    <2>5. QED
      BY <2>1, <2>4, SameHolder
  <1>10. ~SpotFails(h) /\ ~CacheFails(h)
    BY DEF SpotFails, CacheFails, NoLockFaults
  <1>11. QED
    BY <1>1, <1>3, <1>5, <1>6, <1>7, <1>8, <1>9, <1>10 DEF HandlerStep

\* A TTL ends nothing that is alive: the lock expires without a holder.
LEMMA ExpiryHolder ==
  ASSUME TypeOK, LockInv, NoLockFaults, KeyExpires
  PROVE  HolderInv'
  <1>1. CASE WaitersExpire
    BY <1>1, HoldsFrame, SameHolder
       DEF WaitersExpire, LockInv, requestVars, hookVars, env
  <1>2. CASE InflightExpires
    <2>1. Quiet /\ UNCHANGED <<pc, job, idem, hpc, hjob>>
      BY <1>2 DEF InflightExpires, TTLMayRunOut, NoLockFaults, requestVars,
              hookVars, env
    <2>2. \A r \in Requests : ~Holds(r)
      BY <2>1 DEF Quiet, Holds, Occupies, Active, Posting, CacheBranch
    <2>3. \A r \in Requests : ~Holds(r)'
      BY <2>1, <2>2, HoldsFrame
    <2>4. QED
      BY <2>3 DEF HolderInv
  <1>3. ASSUME NEW r \in Requests, IdemExpires(r)
        PROVE  FALSE
    BY <1>3 DEF IdemExpires, NoLockFaults
  <1>4. QED
    BY <1>1, <1>2, <1>3 DEF KeyExpires

LEMMA NextHolder ==
  TypeOK /\ LockInv /\ NoLockFaults /\ [Next]_vars => HolderInv'
  <1> SUFFICES ASSUME TypeOK, LockInv, NoLockFaults, [Next]_vars
               PROVE  HolderInv'
    OBVIOUS
  <1>1. CASE UNCHANGED vars
    BY <1>1, HoldsFrame, SameHolder DEF vars, LockInv
  <1>2. QED
    BY <1>1, RequestHolder, ScraperHolder, HandlerHolder, ExpiryHolder DEF Next

\* The captcha is paid once.  With TTLs that outlast an extraction, with
\* whatever crashes, lost extractions and refused POSTs, two extractions of
\* one lawsuit never overlap and the lock covers each of them until its
\* result has been fanned out.
THEOREM Exclusion ==
  NoLockFaults => (Spec => [](OneExtraction /\ LockCoversExtraction))
  <1> SUFFICES ASSUME NoLockFaults
               PROVE  Spec => [](OneExtraction /\ LockCoversExtraction)
    OBVIOUS
  <1>1. Init => LockInv
    BY DEF Init, LockInv, DeliveryInv, HolderInv, Holds, Occupies,
           Undelivered, CacheBranch
  <1>2. TypeOK /\ LockInv /\ [Next]_vars => LockInv'
    BY NextDelivery, NextHolder DEF LockInv
  <1>3. LockInv => OneExtraction /\ LockCoversExtraction
    BY DEF LockInv, HolderInv, Holds, OneExtraction, LockCoversExtraction
  <1>4. QED
    BY <1>1, <1>2, <1>3, TypeCorrect, PTL DEF Spec

\* The lock is there for as long as anybody works under it: no other user's
\* trigger finds it free while an extraction or its fan-out is under way.
THEOREM LockCovers == NoLockFaults => (Spec => []LockCoversExtraction)
  BY Exclusion, PTL
=============================================================================
