-------------------------- MODULE ProcessPipeline --------------------------
(***************************************************************************)
(* The processing status of ONE lawsuit, from the insert job that creates  *)
(* it through the validation queues, under the calls that resend it to the *)
(* scraper.  Every writer goes through                                     *)
(* ProcessStateMachineService.transition: a findById, a check, and an      *)
(* update that is conditional on the status read - when the name changes.  *)
(*                                                                         *)
(* A step is one awaited query, update, HTTP call or queue operation.      *)
(***************************************************************************)
EXTENDS Naturals

CONSTANTS
    Calls,     \* jobs and requests of this lawsuit running at a time
    Attempts,  \* how often BullMQ runs an insert-process job of CreateProcess
    MaxJobs,   \* MAX_QUEUE_PENDING, for the jobs of this lawsuit
    Faults     \* subset of AllFaults

\* dies  a process restarts: requests are lost, BullMQ runs stalled jobs again
\* full  other lawsuits fill a queue up to its limit
AllFaults == {"dies", "full"}

ASSUME AttemptsAssumption == Attempts \in Nat \ {0}
ASSUME MaxJobsAssumption == MaxJobs \in Nat
ASSUME PipelineFaultsAssumption == Faults \subseteq AllFaults

VARIABLES
    name,       \* processStatus.name, "NONE" before the lawsuit exists
    jobs,       \* jobs waiting in the queues of step-1 to step-4
    call,       \* what each call is doing
    abandoned   \* history: an insert died or failed with the lawsuit created

vars == <<name, jobs, call, abandoned>>

-----------------------------------------------------------------------------
(* The state machine's table.                                              *)

PWM == "PROCESSING_WITH_MOVIMENTS"
PWD == "PROCESSING_WITH_DOCUMENTS"
EMF == "EXTRACTION_MOVIMENTS_FINISHED"
EDF == "EXTRACTION_DOCUMENTS_FINISHED"
WAITDOC == "PROCESS_WAITING_EXTRACTION_DOCUMENTS"
WMAIN == "WAITING_FOR_LAWSUIT_MAIN"

Names == {"PENDING", PWM, PWD, EMF, EDF, WAITDOC, WMAIN, "SUCCESS", "ERROR"}
NoName == "NONE"

ALLOWED_TRANSITIONS ==
    [from \in Names |->
        CASE from = "PENDING" -> {PWM, PWD, "ERROR"}
          [] from = PWM -> {EMF, EDF, "ERROR"}
          [] from = PWD -> {PWM, WAITDOC, EDF, "ERROR"}
          [] from = EMF -> {PWM, PWD, WAITDOC, EDF, "SUCCESS", "ERROR"}
          [] from = WAITDOC -> {PWD, PWM, EDF, WMAIN, "SUCCESS", "ERROR"}
          [] from = EDF -> {PWM, PWD, WMAIN, "SUCCESS", "ERROR"}
          [] from = WMAIN -> {PWD, EDF, "SUCCESS", "ERROR"}
          [] from = "ERROR" -> {PWM, PWD, WAITDOC}
          [] from = "SUCCESS" -> {}]

\* A patch without a name, or with the present one, is always accepted.
canTransition(from, to) ==
    to = NoName \/ from = to \/ to \in ALLOWED_TRANSITIONS[from]

\* The status of a lawsuit the scraper has taken.
Sent(docs) == IF docs THEN PWD ELSE PWM

-----------------------------------------------------------------------------
(* A call: which handler, where it stands (at), and inside it the patch of  *)
(* its current transition (want), the status findById returned (read) and   *)
(* what the transition is for (goal).                                       *)
Kinds == {"none", "insert", "relist", "rerun", "loss",
          "validate", "solvency", "extract"}
QueueOf == [validate |-> 1, solvency |-> 2, extract |-> 3]
Idle == [kind |-> "none", at |-> "idle", docs |-> FALSE, want |-> NoName,
         read |-> NoName, goal |-> "none", next |-> 0, left |-> 0,
         taken |-> FALSE]

\* An insert-process job that BullMQ will run n times at most.
InsertJob(n) == [Idle EXCEPT !.kind = "insert", !.at = "check",
                             !.docs = TRUE, !.left = n]

Becomes(c, r) == call' = [call EXCEPT ![c] = r]
Goes(c, place) == Becomes(c, [call[c] EXCEPT !.at = place])
Ends(c) == Becomes(c, Idle)

\* A handler of kind k calls transition with name n first of all.
Begins(c, k, docs, n, g, s) ==
    Becomes(c, [Idle EXCEPT !.kind = k, !.at = "get", !.docs = docs,
                            !.want = n, !.goal = g, !.next = s])

\* Call c calls transition with name n; g says what comes after it.
Transit(c, n, g) ==
    Becomes(c, [call[c] EXCEPT !.at = "get", !.want = n, !.goal = g,
                               !.read = NoName])

\* Inserting, the lawsuit created, the scraper not yet told.
Inserting(c) == /\ call[c].kind = "insert"
                /\ call[c].at \in {"decide", "post", "get", "put"}

\* Call c rejects.  An insert-process job with attempts left runs again.
Rejects(c) ==
    /\ IF call[c].kind = "insert" /\ call[c].left > 1
       THEN Becomes(c, InsertJob(call[c].left - 1))
       ELSE Ends(c)
    /\ abandoned' = (abandoned \/ Inserting(c))

Init ==
    /\ name \in {NoName, WMAIN, "SUCCESS"}   \* the last two: older records
    /\ jobs = [s \in 1..4 |-> 0]
    /\ call = [c \in Calls |-> Idle]
    /\ abandoned = FALSE

-----------------------------------------------------------------------------
(* InsertProcessService.execute, a job of insert-process-queue.  Its        *)
(* producers look for the lawsuit before they add the job, so several jobs  *)
(* for one lawsuit may be about.                                            *)

StartInsert(c) ==
    /\ call[c] = Idle
    /\ \E n \in {1, Attempts} : Becomes(c, InsertJob(n))
    /\ UNCHANGED <<name, jobs, abandoned>>

CheckExists(c) ==
    /\ call[c].at = "check"
    /\ IF name = NoName THEN Goes(c, "create") ELSE Ends(c)
    /\ UNCHANGED <<name, jobs, abandoned>>

\* Mutation of CreateLawsuit: processes.number without its unique index.
CreateTwice(c) ==
    /\ call[c].at = "create"
    /\ name' = "PENDING"
    /\ \E place \in {"decide", "post"} : Goes(c, place)
    /\ UNCHANGED <<jobs, abandoned>>

\* The status document and the lawsuit pointing to it; the number is a
\* unique index, whose error rejects the job.  A lawsuit with a main one
\* gets no decision document.
CreateLawsuit(c) ==
    /\ call[c].at = "create"
    /\ IF name = NoName
       THEN /\ name' = "PENDING"
            /\ \E place \in {"decide", "post"} : Goes(c, place)
            /\ UNCHANGED abandoned
       ELSE /\ Rejects(c)
            /\ UNCHANGED name
    /\ UNCHANGED jobs

\* The ProcessDecisions document, which no transition looks at.
CreateDecision(c) ==
    /\ call[c].at = "decide"
    /\ Goes(c, "post")
    /\ UNCHANGED <<name, jobs, abandoned>>

-----------------------------------------------------------------------------
(* fetchProcessExtract: the scraper takes the lawsuit, says 422 (it has it  *)
(* already) or refuses.                                                     *)

PostTaken(c) ==
    /\ call[c].at = "post"
    /\ Becomes(c, [call[c] EXCEPT !.at = "get", !.want = Sent(call[c].docs),
                                  !.goal = "sent", !.read = NoName,
                                  !.taken = TRUE])
    /\ UNCHANGED <<name, jobs, abandoned>>

PostKnown(c) ==
    /\ call[c].at = "post"
    /\ Transit(c, Sent(call[c].docs), "end")
    /\ UNCHANGED <<name, jobs, abandoned>>

\* Mutation of PostRefused: the refusal is logged and nothing else.
RefusalLogged(c) ==
    /\ call[c].at = "post"
    /\ Ends(c)
    /\ UNCHANGED <<name, jobs, abandoned>>

PostRefused(c) ==
    /\ call[c].at = "post"
    /\ Transit(c, "ERROR", "end")
    /\ UNCHANGED <<name, jobs, abandoned>>

-----------------------------------------------------------------------------
(* ProcessStateMachineService.transition                                    *)

\* After the transition of call c.
Resolves(c) ==
    CASE call[c].goal = "resend" -> Goes(c, "post")
      [] call[c].goal = "enqueue" -> Goes(c, "enqueue")
      [] OTHER -> Ends(c)

\* A transition inside fetchProcessExtract's try lands in its catch, and
\* has no response status to tell it from a refused POST.
Throws(c) ==
    IF call[c].goal = "sent"
    THEN Transit(c, "ERROR", "end") /\ UNCHANGED abandoned
    ELSE Rejects(c)

\* Mutation of TransitionGet: canTransition is not asked.
GetUnchecked(c) ==
    /\ call[c].at = "get"
    /\ Becomes(c, [call[c] EXCEPT !.at = "put", !.read = name])
    /\ UNCHANGED <<name, jobs, abandoned>>

TransitionGet(c) ==
    /\ call[c].at = "get"
    /\ IF canTransition(name, call[c].want)
       THEN /\ Becomes(c, [call[c] EXCEPT !.at = "put", !.read = name])
            /\ UNCHANGED abandoned
       ELSE Throws(c)
    /\ UNCHANGED <<name, jobs>>

\* The patch does not change the name that was read.
SameName(c) == call[c].want \in {NoName, call[c].read}

\* Mutation of TransitionPut: findByIdAndUpdate in every case.
PutUnconditionally(c) ==
    /\ call[c].at = "put"
    /\ name' = IF call[c].want = NoName THEN name ELSE call[c].want
    /\ Resolves(c)
    /\ UNCHANGED <<jobs, abandoned>>

\* Unconditional for the same name, else a compare-and-set on the name.
TransitionPut(c) ==
    /\ call[c].at = "put"
    /\ IF SameName(c) \/ name = call[c].read
       THEN /\ name' = IF call[c].want = NoName THEN name ELSE call[c].want
            /\ Resolves(c)
            /\ UNCHANGED abandoned
       ELSE /\ Throws(c)
            /\ UNCHANGED name
    /\ UNCHANGED jobs

-----------------------------------------------------------------------------
(* The callers of transition.                                               *)

\* RunListLawsuitsValidationService, per lawsuit: the status of a resent
\* lawsuit first, then fetchProcessExtract, which sets it again.
Relist(c) ==
    /\ call[c] = Idle /\ name # NoName
    /\ \E docs \in BOOLEAN : Begins(c, "relist", docs, Sent(docs), "resend", 0)
    /\ UNCHANGED <<name, jobs, abandoned>>

\* LossRevalidationCron: step-1, then fetchProcessExtract with documents,
\* whatever the status.
RevalidateLoss(c) ==
    /\ call[c] = Idle /\ name # NoName
    /\ Begins(c, "loss", TRUE, NoName, "resend", 0)
    /\ UNCHANGED <<name, jobs, abandoned>>

\* LawsuitValidationService: an administrator puts a lawsuit at some step.
\* (No code of this repository writes its other case, step-0.)
Rerun(c) ==
    /\ call[c] = Idle /\ name # NoName
    /\ \E s \in 1..4 : Begins(c, "rerun", FALSE, NoName, "enqueue", s)
    /\ UNCHANGED <<name, jobs, abandoned>>

\* A worker takes a job of its queue.
Take(s) == jobs[s] > 0 /\ jobs' = [jobs EXCEPT ![s] = @ - 1]

\* ProcessValidationService: the step of the status, then step-2's queue.
Validate(c) ==
    /\ call[c] = Idle
    /\ Take(1)
    /\ Begins(c, "validate", FALSE, NoName, "enqueue", 2)
    /\ UNCHANGED <<name, abandoned>>

\* SolvencyValidationService: its aggregate reads the status; the companies
\* are asked for one by one before the transition that status decides.
Solvency(c) ==
    /\ call[c] = Idle
    /\ Take(2)
    /\ Begins(c, "solvency", FALSE, IF name = PWM THEN EMF ELSE WAITDOC,
              "end", 0)
    /\ UNCHANGED <<name, abandoned>>

\* ExtractDocumentsInfoService asks Vertex about each document.
Extract(c) ==
    /\ call[c] = Idle
    /\ Take(3)
    /\ Becomes(c, [Idle EXCEPT !.kind = "extract", !.at = "vertex"])
    /\ UNCHANGED <<name, abandoned>>

\* No document extracted: ERROR.
ExtractedNothing(c) ==
    /\ call[c].at = "vertex"
    /\ Transit(c, "ERROR", "end")
    /\ UNCHANGED <<name, jobs, abandoned>>

\* Some document extracted: step-4's queue first, the status afterwards.
ExtractedSome(c) ==
    /\ call[c].at = "vertex"
    /\ Becomes(c, [call[c] EXCEPT !.at = "enqueue", !.next = 4])
    /\ UNCHANGED <<name, jobs, abandoned>>

\* NextStepsService.execute, check and add in one step (the limit is a soft
\* one); only the extraction has a transition to come.
NextStep(c) ==
    /\ call[c].at = "enqueue"
    /\ jobs[call[c].next] < MaxJobs
    /\ jobs' = [jobs EXCEPT ![call[c].next] = @ + 1]
    /\ IF call[c].kind = "extract" THEN Transit(c, EDF, "end") ELSE Ends(c)
    /\ UNCHANGED <<name, abandoned>>

\* checkBackpressure throws; the extraction's transition is skipped.
NextStepRefused(c) ==
    /\ call[c].at = "enqueue"
    /\ "full" \in Faults \/ jobs[call[c].next] >= MaxJobs
    /\ Ends(c)
    /\ UNCHANGED <<name, jobs, abandoned>>

\* InitialPetitionService links other lawsuits; it leaves this status alone.
InitialPetition ==
    /\ Take(4)
    /\ UNCHANGED <<name, call, abandoned>>

\* A restart: a stalled job goes back to its queue, a request is gone.
Dies(c) ==
    /\ "dies" \in Faults
    /\ call[c] # Idle
    /\ CASE call[c].kind = "insert" ->
              /\ Becomes(c, InsertJob(call[c].left))
              /\ UNCHANGED jobs
         [] call[c].kind \in DOMAIN QueueOf ->
              /\ jobs' = [jobs EXCEPT ![QueueOf[call[c].kind]] =
                             IF @ < MaxJobs THEN @ + 1 ELSE @]
              /\ Ends(c)
         [] OTHER -> Ends(c) /\ UNCHANGED jobs
    /\ abandoned' = (abandoned \/ Inserting(c))
    /\ UNCHANGED name

-----------------------------------------------------------------------------
Next ==
    \/ \E c \in Calls :
         \/ StartInsert(c) \/ CheckExists(c) \/ CreateLawsuit(c)
         \/ CreateDecision(c)
         \/ PostTaken(c) \/ PostKnown(c) \/ PostRefused(c)
         \/ TransitionGet(c) \/ TransitionPut(c)
         \/ Relist(c) \/ RevalidateLoss(c) \/ Rerun(c)
         \/ Validate(c) \/ Solvency(c) \/ Extract(c)
         \/ ExtractedNothing(c) \/ ExtractedSome(c)
         \/ NextStep(c) \/ NextStepRefused(c) \/ Dies(c)
    \/ InitialPetition

Spec == Init /\ [][Next]_vars

-----------------------------------------------------------------------------
(* Properties.                                                             *)

Places == {"idle", "check", "create", "decide", "post", "get", "put",
           "vertex", "enqueue"}
Goals == {"none", "sent", "resend", "enqueue", "end"}
NameOrNone == Names \cup {NoName}
CallRecords == [kind : Kinds, at : Places, docs : BOOLEAN, want : NameOrNone,
                read : NameOrNone, goal : Goals, next : 0..4,
                left : 0..Attempts, taken : BOOLEAN]

\* Every variable stays within what the code can store in it.
TypeOK ==
    /\ name \in NameOrNone
    /\ jobs \in [1..4 -> 0..MaxJobs]
    /\ call \in [Calls -> CallRecords]
    /\ abandoned \in BOOLEAN

\* The step follows the table, or creates the lawsuit.
Allowed == name' \in IF name = NoName THEN {"PENDING"}
                                      ELSE ALLOWED_TRANSITIONS[name]

\* A call writes the name it read although another call has changed it.
StaleSameName ==
    \E c \in Calls : /\ call[c].at = "put" /\ call'[c].at # "put"
                     /\ call[c].want = call[c].read /\ call[c].read # name
                     /\ name' = call[c].want

\* Every change of status is one of the table's, whatever calls race for
\* it, except when a call rewrites the status it has read: the one update
\* of transition that is not a compare-and-set.
AllowedUnlessSameName == [][Allowed \/ StaleSameName]_name

\* What the calls about to update have read.
Held == {call[c].read : c \in {d \in Calls : call[d].at = "put"}}

Graph == INSTANCE StatusGraph
             WITH Statuses <- Names, Table <- ALLOWED_TRANSITIONS,
                  Absent <- NoName, First <- "PENDING",
                  Older <- {WMAIN, "SUCCESS"}, status <- name, held <- Held

\* The whole pipeline, its retries and restarts, implements the status graph:
\* a new status is one of the table's from a status that is read and current,
\* or one that a call still holds from its own read, never any other.
ImplementsStatusGraph == Graph!GraphSpec

\* A lawsuit is at PENDING only while the job that created it is about to
\* tell the scraper, or was abandoned: racing jobs and retries, which find
\* the lawsuit and stop, leave none behind.
PendingIsBeingSent ==
    name = "PENDING" => abandoned \/ \E c \in Calls : Inserting(c)

\* The check-then-add of the producers may queue several inserts of one
\* lawsuit: only one of them gets to send it.
InsertedOnce ==
    \A c, d \in Calls : Inserting(c) /\ Inserting(d) => c = d

\* "uses compare-and-set update when status actually changes": a change
\* that the table does not have never happens.
OnlyAllowedChanges == [][Allowed]_name

\* "Sucesso: atualiza processStatus para PROCESSING_WITH_DOCUMENTS ou
\* PROCESSING_WITH_MOVIMENTS": a call whose POST the scraper took does not
\* write ERROR.
TakenIsNotError ==
    [][\A c \in Calls : call[c].taken /\ name # "ERROR" /\ name' = "ERROR"
          => ~(call[c].at = "put" /\ call'[c] = Idle)]_vars
=============================================================================
