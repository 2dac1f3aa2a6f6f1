----------------------------- MODULE AthenaQuery -----------------------------
(***************************************************************************)
(* AthenaQueryService.query: the query is started, its state polled, and   *)
(* its result read page by page.  Athena itself is external: it may stay   *)
(* RUNNING, fail, and cut the result into pages as it likes, empty ones    *)
(* too, the only one among them.  If the result has rows, its first page   *)
(* has the header, as the comment in fetchResults relies on.               *)
(***************************************************************************)
EXTENDS Naturals, Sequences

CONSTANTS
    ResultRows,  \* numbers of data rows a result may have
    PollLimit    \* MAX_POLL_ATTEMPTS

ASSUME AthenaAssumption == ResultRows \subseteq Nat /\ PollLimit \in Nat

VARIABLES
    query,    \* "idle", "wait", "fetch", "done" or "failed"
    polls,    \* attempt, of waitForCompletion
    rows,     \* how many rows the result has; row 0 is its header
    unread,   \* the rows that were not fetched yet
    columns,  \* {} while not known, then the set of the rows that name them
    records   \* the records made so far

athenaVars == <<query, polls, rows, unread, columns, records>>

AthenaInit == /\ query = "idle" /\ polls = 0 /\ rows = 0
              /\ unread = <<>> /\ columns = {} /\ records = <<>>

-----------------------------------------------------------------------------
StartQuery ==
    /\ query = "idle"
    /\ query' = "wait"
    /\ \/ /\ rows' \in ResultRows
          /\ unread' = [i \in 1..(rows' + 1) |-> i - 1]
       \/ rows' = 0 /\ unread' = <<>>
    /\ UNCHANGED <<polls, columns, records>>

\* QUEUED or RUNNING: at the limit it is a timeout.
StillRunning == IF polls >= PollLimit THEN query' = "failed" /\ UNCHANGED polls
                ELSE polls' = polls + 1 /\ UNCHANGED query

\* waitForCompletion, one attempt.
Poll ==
    /\ query = "wait"
    /\ \/ query' \in {"fetch", "failed"} /\ UNCHANGED polls
       \/ StillRunning
    /\ UNCHANGED <<rows, unread, columns, records>>

\* Mutation of DataRows: every page is taken to begin with the header.
DataRowsOfAny(page) == IF page = <<>> THEN page ELSE Tail(page)

\* Only the first page begins with the header; an empty one has no names.
DataRows(page) == IF columns = {} /\ page # <<>> THEN Tail(page) ELSE page
Header(page) == IF page = <<>> THEN {} ELSE {Head(page)}

\* fetchResults, one page; after the last row a page may follow, or none.
FetchPage ==
    /\ query = "fetch"
    /\ \/ \E k \in 0..Len(unread) :
            LET page == SubSeq(unread, 1, k) IN
              /\ columns = {} /\ unread # <<>> => k > 0
              /\ records' = records \o DataRows(page)
              /\ columns' = IF columns = {} THEN {Header(page)} ELSE columns
              /\ unread' = SubSeq(unread, k + 1, Len(unread))
              /\ query' \in IF unread' = <<>> THEN {"fetch", "done"} ELSE {"fetch"}
       \/ query' = "failed" /\ UNCHANGED <<unread, columns, records>>
    /\ UNCHANGED <<polls, rows>>

AthenaStep == Poll \/ FetchPage
AthenaNext == StartQuery \/ AthenaStep

\* The timer of each poll fires, Athena answers, one way or another, and its
\* pages come to an end.
AthenaSpec == AthenaInit /\ [][AthenaNext]_athenaVars /\ WF_athenaVars(AthenaStep)

-----------------------------------------------------------------------------
(* Properties.                                                             *)

EveryRow == /\ records = [i \in 1..rows |-> i]
            /\ columns \in {{{0}}, {{}}} /\ (rows # 0 => columns = {{0}})

\* A query that was started ends, even if Athena never finishes it: with a
\* failure, or with every row of the result once, in order, under the names
\* of the header, however the result is cut into pages; a result without any
\* rows has no names.
QueryAnswers ==
    query = "wait" ~> (query = "failed" \/ (query = "done" /\ EveryRow))
=============================================================================
