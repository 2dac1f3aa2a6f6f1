------------------------------ MODULE SyncBatch ------------------------------
(***************************************************************************)
(* POST lawsuits/sync-batch: the numbers of the request without duplicates *)
(* go to TriggerScrapingService, a few at a time (comConcorrenciaLimitada: *)
(* workers that share an index), and each gets an answer of its own.       *)
(***************************************************************************)
EXTENDS UniqueNumbers

CONSTANTS
    Requested,    \* the numbers a client may send
    ValidCnjs,    \* those of them that parseCnj takes
    BatchBound,   \* bound: numbers in a request
    PoolSizes     \* values of concorrencia, 0 for any that is not a number

ASSUME BatchAssumption == /\ ValidCnjs \subseteq Requested
                          /\ BatchBound \in Nat /\ PoolSizes \subseteq Nat

VARIABLES
    batch,      \* "idle", "running" or "answered"
    body,       \* numerosCnj
    items,      \* the valid numbers, each once, in the order they came
    nextItem,   \* proximoIndice
    workers,    \* what each worker of the pool holds: an index, 0 between two
                \* items, -1 when it has ended
    results,    \* resultados, and the answers to invalid numbers
    triggered   \* history: how often each number was triggered

batchVars == <<batch, body, items, nextItem, workers, results, triggered>>

BatchInit == /\ batch = "idle" /\ body = <<>> /\ items = <<>>
             /\ nextItem = 1 /\ workers = <<>> /\ results = {}
             /\ triggered = [n \in Requested |-> 0]

-----------------------------------------------------------------------------
\* poolSize: at least one worker, at most one for each item.
PoolSize(c, n) == IF n = 0 THEN 0 ELSE IF c < 1 THEN 1 ELSE IF c < n THEN c ELSE n

\* Duplicates are dropped, invalid numbers answered at once.
Receive ==
    /\ batch = "idle"
    /\ \E numbers \in UNION {[1..k -> Requested] : k \in 1..BatchBound}, c \in PoolSizes :
       \E valid \in Unique(numbers, ValidCnjs) :
         /\ body' = numbers
         /\ items' = valid
         /\ workers' = [w \in 1..PoolSize(c, Len(valid)) |-> 0]
         /\ results' = {<<n, "invalid">> : n \in ToSet(numbers) \ ValidCnjs}
    /\ batch' = "running"
    /\ UNCHANGED <<nextItem, triggered>>

\* Mutation of TakeItem: the index moves on after the item is done.
TakeItemLate(w) ==
    /\ workers[w] = 0 /\ nextItem <= Len(items)
    /\ workers' = [workers EXCEPT ![w] = nextItem]
    /\ triggered' = [triggered EXCEPT ![items[nextItem]] = @ + 1]
    /\ nextItem' = IF \E v \in DOMAIN workers : workers[v] > 0 THEN nextItem + 1
                                                              ELSE nextItem
    /\ UNCHANGED <<batch, body, items, results>>

\* A worker takes the next index and calls fn, without an await between.
TakeItem(w) ==
    /\ workers[w] = 0 /\ nextItem <= Len(items)
    /\ workers' = [workers EXCEPT ![w] = nextItem]
    /\ triggered' = [triggered EXCEPT ![items[nextItem]] = @ + 1]
    /\ nextItem' = nextItem + 1
    /\ UNCHANGED <<batch, body, items, results>>

\* TriggerScrapingService returned or threw; fn answers either way.
AnswerItem(w) ==
    /\ workers[w] > 0
    /\ \E status \in {"accepted", "error"} :
         results' = results \cup {<<items[workers[w]], status>>}
    /\ workers' = [workers EXCEPT ![w] = 0]
    /\ UNCHANGED <<batch, body, items, nextItem, triggered>>

EndWorker(w) ==
    /\ workers[w] = 0 /\ nextItem > Len(items)
    /\ workers' = [workers EXCEPT ![w] = -1]
    /\ UNCHANGED <<batch, body, items, nextItem, results, triggered>>

\* Promise.all of the workers: the answer.
Respond ==
    /\ batch = "running" /\ \A w \in DOMAIN workers : workers[w] = -1
    /\ batch' = "answered"
    /\ UNCHANGED <<body, items, nextItem, workers, results, triggered>>

BatchNext == \/ Receive \/ Respond
             \/ \E w \in DOMAIN workers : TakeItem(w) \/ AnswerItem(w) \/ EndWorker(w)

BatchSpec == BatchInit /\ [][BatchNext]_batchVars

-----------------------------------------------------------------------------
(* Properties.                                                             *)

\* However the workers interleave and whatever fails, each number of the
\* request is triggered once if it is valid and never otherwise, and the
\* answer has one status for each number; a pool without a size works too.
BatchAnswersEach ==
    batch = "answered" =>
        /\ \A n \in Requested : triggered[n] = IF n \in ToSet(body) \cap ValidCnjs
                                               THEN 1 ELSE 0
        /\ {r[1] : r \in results} = ToSet(body)
        /\ \A r, s \in results : r[1] = s[1] => r = s
=============================================================================
