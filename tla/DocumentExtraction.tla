------------------------- MODULE DocumentExtraction -------------------------
(***************************************************************************)
(* What becomes of ONE document of a lawsuit: the extraction job of the    *)
(* pipeline (ExtractDocumentsInfoService), the insights users ask for      *)
(* (FindDocumentInsightsService) and delete, the copy in the bucket that   *)
(* Vertex reads, and Vertex's retries.                                     *)
(***************************************************************************)
EXTENDS Naturals, FiniteSets

CONSTANTS
    Runs,         \* jobs and requests on the document that run at a time
    RunsBound,    \* bound: runs altogether
    Millis,       \* values of Date.now(), of which two runs may share one
    FaultsBound,  \* bound: deletions failed, answers lost and stops altogether
    VertexTries   \* retries, of executeWithRetry

ASSUME ExtractionAssumption == /\ RunsBound \in Nat /\ FaultsBound \in Nat
                               /\ VertexTries \in Nat \ {0}

VARIABLES
    docStatus, docData,  \* documents.$.status, and whether documents.$.data
    bucket,      \* the objects in robo-raspagem-temp
    run,         \* the runs
    started,     \* runs so far
    collided,    \* history: runs whose object had the name of another's
    abandoned,   \* history: a run left the document without a result
    faults       \* faults so far

docVars == <<docStatus, docData, bucket, run, started, collided, abandoned,
             faults>>

NoKey == <<"none", 0>>
NoRun == [at |-> "idle", id |-> 0, kind |-> "none", key |-> NoKey, tries |-> 1,
          read |-> "none", uploaded |-> FALSE]
Active == {r \in Runs : run[r].at # "idle"}
RunAt(r, step) == run' = [run EXCEPT ![r].at = step, ![r].tries = 1]
Fault == faults < FaultsBound /\ faults' = faults + 1
RunEnds(r) == /\ run' = [run EXCEPT ![r] = NoRun]
              /\ collided' = collided \ {r}

ExtractionInit == /\ docStatus = "PENDING" /\ docData = FALSE
                  /\ bucket = {} /\ run = [r \in Runs |-> NoRun] /\ started = 0
                  /\ collided = {} /\ abandoned = FALSE
                  /\ faults = 0

-----------------------------------------------------------------------------
\* The lawsuit is read, with its documents, by the job or by the request.
StartRun(r) ==
    /\ run[r].at = "idle" /\ started < RunsBound
    /\ \E kind \in {"extraction", "insights"} :
         run' = [run EXCEPT ![r] = [NoRun EXCEPT !.at = "begin", !.kind = kind,
                                 !.id = started + 1, !.read = docStatus]]
    /\ started' = started + 1
    /\ UNCHANGED <<docStatus, docData, bucket, collided, abandoned, faults>>

\* Mutation of GsKey: the object is named after the document alone.
GsKeyOfDocument(r, ms) == <<run[r].kind, 0>>

\* The extraction names its object with a UUID, the insights with the time.
GsKey(r, ms) == IF run[r].kind = "extraction" THEN <<"uuid", run[r].id>>
                                              ELSE <<"ms", ms>>

\* Mutation of Skips: extracted documents are extracted again.
SkipsNone(r) == FALSE

\* The extraction leaves a document that it read as COMPLETED.
Skips(r) == run[r].kind = "extraction" /\ run[r].read = "COMPLETED"

\* PROCESSING, and the object's name.  Insights for a prompt that does not
\* exist throw right after PROCESSING, outside their try.
BeginRun(r) ==
    /\ run[r].at = "begin"
    /\ \/ /\ Skips(r)
          /\ RunEnds(r)
          /\ UNCHANGED <<docStatus, abandoned>>
       \/ /\ ~Skips(r)
          /\ docStatus' = "PROCESSING"
          /\ \E ms \in Millis :
               LET key == GsKey(r, ms)
                   same == {q \in Active : run[q].key = key} IN
               /\ run' = [run EXCEPT ![r] = [NoRun EXCEPT !.at = "upload",
                                  !.kind = run[r].kind, !.key = key]]
               /\ collided' = IF run[r].kind = "insights" /\ same # {}
                              THEN collided \cup same \cup {r} ELSE collided
          /\ UNCHANGED abandoned
       \/ /\ run[r].kind = "insights"
          /\ docStatus' = "PROCESSING" /\ abandoned' = TRUE
          /\ RunEnds(r)
    /\ UNCHANGED <<docData, bucket, started, faults>>

\* The signed URL, the download from S3 and the save in the bucket: they
\* succeed, fail, or the save is done and its answer is lost.
Upload(r) ==
    /\ run[r].at = "upload"
    /\ \/ /\ bucket' = bucket \cup {run[r].key}
          /\ run' = [run EXCEPT ![r].at = "ask", ![r].uploaded = TRUE]
          /\ UNCHANGED faults
       \/ /\ RunAt(r, "fail") /\ UNCHANGED <<bucket, faults>>
       \/ /\ bucket' = bucket \cup {run[r].key}
          /\ RunAt(r, "fail") /\ Fault
    /\ UNCHANGED <<docStatus, docData, started, collided, abandoned>>

\* Mutation of Retries: when the tries are over they start again.
RetriesEver(r) == IF run[r].tries < VertexTries
                  THEN run' = [run EXCEPT ![r].tries = @ + 1]
                  ELSE RunAt(r, "ask")

\* A 429, at the attempt-th try.
Retries(r) == IF run[r].tries < VertexTries
              THEN run' = [run EXCEPT ![r].tries = @ + 1]
              ELSE RunAt(r, "fail")

\* executeWithRetry: an answer, a 429, or another error; an object that is
\* no longer there is one.
AskVertex(r) ==
    /\ run[r].at = "ask"
    /\ \/ run[r].key \in bucket /\ RunAt(r, "save")
       \/ Retries(r)
       \/ RunAt(r, "fail")
    /\ UNCHANGED <<docStatus, docData, bucket, started, collided, abandoned,
                   faults>>

\* Data and COMPLETED, in one update.
SaveAnswer(r) ==
    /\ run[r].at = "save"
    /\ docData' = TRUE /\ docStatus' = "COMPLETED" /\ abandoned' = FALSE
    /\ RunAt(r, "delete")
    /\ UNCHANGED <<bucket, started, collided, faults>>

\* Mutation of FailRun: a failure is only logged.
FailRunLogged(r) ==
    /\ run[r].at = "fail"
    /\ RunAt(r, "delete")
    /\ UNCHANGED <<docStatus, docData, bucket, started, collided, abandoned,
                   faults>>

\* catch: ERROR; the data stay as they are.
FailRun(r) ==
    /\ run[r].at = "fail"
    /\ docStatus' = "ERROR" /\ abandoned' = FALSE
    /\ RunAt(r, "delete")
    /\ UNCHANGED <<docData, bucket, started, collided, faults>>

\* The extraction deletes what it knows that it uploaded.
DeletionDue(r) == run[r].kind = "insights" \/ run[r].uploaded

\* finally: the object is deleted; a failure to is logged.
DeleteObject(r) ==
    /\ run[r].at = "delete"
    /\ \/ /\ DeletionDue(r)
          /\ bucket' = bucket \ {run[r].key}
          /\ UNCHANGED faults
       \/ DeletionDue(r) /\ Fault /\ UNCHANGED bucket
       \/ ~DeletionDue(r) /\ UNCHANGED <<bucket, faults>>
    /\ RunEnds(r)
    /\ UNCHANGED <<docStatus, docData, started, abandoned>>

\* The process stops in the middle of a run.
RunStops(r) ==
    /\ run[r].at # "idle" /\ Fault
    /\ abandoned' = (abandoned \/ run[r].at \in {"upload", "ask", "save", "fail"})
    /\ RunEnds(r)
    /\ UNCHANGED <<docStatus, docData, bucket, started>>

\* DeleteInsightsDocumentService: data and status, in one update.
DeleteInsights ==
    /\ docData' = FALSE /\ docStatus' = "PENDING" /\ abandoned' = FALSE
    /\ UNCHANGED <<bucket, run, started, collided, faults>>

RunSteps(r) == \/ BeginRun(r) \/ Upload(r) \/ AskVertex(r) \/ SaveAnswer(r)
               \/ FailRun(r) \/ DeleteObject(r)

ExtractionNext == \/ \E r \in Runs : StartRun(r) \/ RunSteps(r) \/ RunStops(r)
                  \/ DeleteInsights

\* The event loop gets to every run: promises settle, timers fire.
ExtractionFairness == \A r \in Runs : WF_docVars(RunSteps(r))

ExtractionSpec == ExtractionInit /\ [][ExtractionNext]_docVars /\ ExtractionFairness

-----------------------------------------------------------------------------
(* Properties.                                                             *)

\* What Vertex is asked to read is there: the other runs on the document
\* delete objects of their own, whatever order they end in, unless two
\* insights of the document began in one millisecond.
ObjectIsThere ==
    \A r \in Runs \ collided : run[r].at = "ask" => run[r].key \in bucket

\* A document is PROCESSING while a run works on it, and no longer: every
\* way a run ends gives it another status, even among other runs that begin
\* and end meanwhile; except when the process stops, or insights are asked
\* for a prompt that does not exist.
ProcessingIsWorkedOn ==
    docStatus = "PROCESSING" =>
        abandoned \/ \E r \in Runs : run[r].at \in {"upload", "ask", "save", "fail"}

\* The pipeline never undoes an extraction: a document that leaves COMPLETED
\* had its insights deleted or asked for, or the job read it before it was.
CompletedIsKept ==
    [][docStatus = "COMPLETED" /\ docStatus' # "COMPLETED" =>
          \/ ~docData'
          \/ \E r \in Runs : /\ run[r] # run'[r]
                             /\ run[r].kind = "insights" \/ run[r].read # "COMPLETED"
      ]_docVars

\* A run that began ends, however long Vertex answers 429.
ExtractionEnds == \A r \in Runs : run[r].at = "ask" ~> run[r].at = "idle"
=============================================================================
