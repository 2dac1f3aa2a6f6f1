---------------------------- MODULE LawsuitIntake ----------------------------
(***************************************************************************)
(* How lawsuit numbers come in: POST processes (CreateProcessService), a   *)
(* spreadsheet (UploadXLSXService, which calls it) and the CRM's webhook   *)
(* (WebhookPipedriveService).  Each looks for the numbers there are and    *)
(* queues an insert job for the others, batch by batch.                    *)
(***************************************************************************)
EXTENDS UniqueNumbers

CONSTANTS
    GivenNumbers,   \* what a request or a cell may hold
    CnjNumbers,     \* those that are numbers of lawsuits
    Intakes,        \* requests
    BatchSize,      \* batchSize
    NumbersBound,   \* bound: numbers in a request
    QueueFaults     \* bound: failed calls of the queue

ASSUME IntakeAssumption == /\ CnjNumbers \subseteq GivenNumbers
                           /\ BatchSize \in Nat \ {0}
                           /\ NumbersBound \in Nat /\ QueueFaults \in Nat

VARIABLES
    inserted,   \* numbers of the lawsuits there are
    queued,     \* history: numbers for which an insert job was queued
    intake,     \* each request
    faultsLeft  \* calls of the queue that may still fail

intakeVars == <<inserted, queued, intake, faultsLeft>>

NoIntake == [kind |-> "none", given |-> <<>>, missing |-> <<>>, next |-> 1,
             answer |-> "none", reported |-> {}]

IntakeInit == /\ inserted = {} /\ queued = {} /\ faultsLeft = QueueFaults
              /\ intake = [c \in Intakes |-> NoIntake]

NumberLists(S) == UNION {[1..k -> S] : k \in 1..NumbersBound}
Going(c, kind) == intake[c].kind = kind /\ intake[c].answer = "none"

-----------------------------------------------------------------------------
(* The requests arrive and look for the numbers (not together with what     *)
(* they do then).                                                          *)

Look(c, kind, given) ==
    \E missing \in Without(given, inserted) :
      intake' = [intake EXCEPT ![c] =
          [kind |-> kind, given |-> given, missing |-> missing,
           next |-> IF kind = "sheet" THEN 0 ELSE 1,   \* 0: execute looks again
           answer |-> IF missing = <<>> THEN "exist" ELSE "none", reported |-> {}]]

\* Every number is looked for, however often it is in the body.
CreateProcesses(c) ==
    /\ intake[c].kind = "none"
    /\ \E given \in NumberLists(GivenNumbers) : Look(c, "create", given)
    /\ UNCHANGED <<inserted, queued, faultsLeft>>

\* The cells that are numbers, once each; the others are passed over.
UploadSheet(c) ==
    /\ intake[c].kind = "none"
    /\ \E cells \in NumberLists(GivenNumbers) :
       \E once \in Unique(cells, CnjNumbers) : Look(c, "sheet", once)
    /\ UNCHANGED <<inserted, queued, faultsLeft>>

WebhookPipedrive(c) ==
    /\ intake[c].kind = "none"
    /\ \E n \in GivenNumbers : Look(c, "hook", <<n>>)
    /\ UNCHANGED <<inserted, queued, faultsLeft>>

-----------------------------------------------------------------------------
(* CreateProcessService.execute from the batches on.                       *)

\* Mutation of LastIndex: a batch that is not full is left out.
LastIndexFull(c) == (Len(intake[c].missing) \div BatchSize) * BatchSize
LastIndex(c) == Len(intake[c].missing)

Batch(c) == SubSeq(intake[c].missing, intake[c].next,
                   IF intake[c].next + BatchSize - 1 < LastIndex(c)
                   THEN intake[c].next + BatchSize - 1 ELSE LastIndex(c))

Batching(c) == /\ Going(c, "create") \/ Going(c, "sheet")
               /\ intake[c].next \in 1..LastIndex(c)

\* The sheet's look is followed by execute's own.
LookAgain(c) ==
    /\ Going(c, "sheet") /\ intake[c].next = 0
    /\ \E missing \in Without(intake[c].missing, inserted) :
         intake' = [intake EXCEPT ![c].missing = missing, ![c].next = 1,
                                  ![c].answer = IF missing = <<>> THEN "exist" ELSE "none"]
    /\ UNCHANGED <<inserted, queued, faultsLeft>>

QueueBatch(c) ==
    /\ Batching(c)
    /\ queued' = queued \cup ToSet(Batch(c))
    /\ intake' = [intake EXCEPT ![c].next = @ + BatchSize]
    /\ UNCHANGED <<inserted, faultsLeft>>

Added(c) ==
    /\ Going(c, "create") \/ Going(c, "sheet")
    /\ intake[c].next > LastIndex(c)
    /\ intake' = [intake EXCEPT ![c].answer = "added"]
    /\ UNCHANGED <<inserted, queued, faultsLeft>>

\* Promise.all rejects: some of the batch may be queued.  Without Redis the
\* answer is a message with this batch; any other error is a 400.
QueueFails(c) ==
    /\ Batching(c) /\ faultsLeft > 0 /\ faultsLeft' = faultsLeft - 1
    /\ \E part \in SUBSET ToSet(Batch(c)) : queued' = queued \cup part
    /\ \E how \in {"queueError", "refused"} :
         intake' = [intake EXCEPT ![c].answer = how,
             ![c].reported = IF how = "queueError" THEN ToSet(Batch(c)) ELSE {}]
    /\ UNCHANGED inserted

\* The webhook queues its one number, or logs the error and returns.
QueueHook(c) ==
    /\ Going(c, "hook")
    /\ \/ /\ queued' = queued \cup ToSet(intake[c].missing)
          /\ intake' = [intake EXCEPT ![c].answer = "added"]
          /\ UNCHANGED faultsLeft
       \/ /\ faultsLeft > 0 /\ faultsLeft' = faultsLeft - 1
          /\ intake' = [intake EXCEPT ![c].answer = "swallowed"]
          /\ UNCHANGED queued
    /\ UNCHANGED inserted

\* An insert job is done, of one of these requests or of an earlier one
\* (ProcessPipeline has what happens to it).
InsertQueued == /\ \E n \in CnjNumbers \cup queued :
                     n \notin inserted /\ inserted' = inserted \cup {n}
                /\ UNCHANGED <<queued, intake, faultsLeft>>

IntakeNext == \/ InsertQueued
              \/ \E c \in Intakes :
                   \/ CreateProcesses(c) \/ UploadSheet(c) \/ WebhookPipedrive(c)
                   \/ LookAgain(c) \/ QueueBatch(c) \/ Added(c) \/ QueueFails(c)
                   \/ QueueHook(c)

IntakeSpec == IntakeInit /\ [][IntakeNext]_intakeVars

-----------------------------------------------------------------------------
(* Properties.                                                             *)

\* A request that was answered "added", or that all exist, has left no number
\* behind: each one it gave (of a sheet: each that is a lawsuit's number) is a
\* lawsuit or was queued.  When the queue failed, the numbers neither there
\* nor queued are in the batch it names or come after it, in batches that it
\* does not name.  A sheet's answer and the webhook's do not tell the failure.
IntakeAccounted ==
    \A c \in Intakes :
        LET i == intake[c]
            lost == ToSet(i.given) \ (inserted \cup queued)
            reached == ToSet(SubSeq(i.missing, 1, i.next - 1))
        IN /\ i.answer \in {"added", "exist"} => lost = {}
           /\ i.answer = "queueError" =>
                 /\ i.reported # {} /\ reached \cap lost = {}
                 /\ lost \subseteq i.reported \cup
                        ToSet(SubSeq(i.missing, i.next + BatchSize, Len(i.missing)))
=============================================================================
