----------------------- MODULE ProcessPipelineProofs -----------------------
(***************************************************************************)
(* Proofs about ProcessPipeline, for every set of concurrent calls, number *)
(* of attempts, queue limit and set of faults.                             *)
(***************************************************************************)
EXTENDS ProcessPipeline, TLAPS

\* The names a call may carry.
LEMMA SomeNames == /\ NoName \in NameOrNone
                   /\ \A docs : Sent(docs) \in Names \ {"PENDING", NoName}
                   /\ {EMF, EDF, WAITDOC, "ERROR"}
                         \subseteq Names \ {"PENDING", NoName}
                   /\ Names \subseteq NameOrNone
  BY DEF NameOrNone, Names, NoName, Sent, PWM, PWD, EMF, EDF, WAITDOC, WMAIN

LEMMA IdleRecord == Idle \in CallRecords
  BY AttemptsAssumption, SomeNames DEF CallRecords, Idle, Kinds, Places, Goals

LEMMA InsertRecord ==
    ASSUME NEW n \in 0..Attempts
    PROVE  InsertJob(n) \in CallRecords
  BY IdleRecord DEF CallRecords, InsertJob, Kinds, Places

\* Only call c changes, and it becomes the record r.
LEMMA Update ==
    ASSUME call \in [Calls -> CallRecords], NEW c \in Calls,
           NEW r \in CallRecords, Becomes(c, r)
    PROVE  /\ call' \in [Calls -> CallRecords]
           /\ call'[c] = r
           /\ \A d \in Calls \ {c} : call'[d] = call[d]
  BY DEF Becomes

LEMMA GoesTyped ==
    ASSUME call \in [Calls -> CallRecords], NEW c \in Calls,
           NEW p \in Places, Goes(c, p)
    PROVE  /\ call' \in [Calls -> CallRecords]
           /\ call'[c] = [call[c] EXCEPT !.at = p]
           /\ \A d \in Calls \ {c} : call'[d] = call[d]
<1>1. [call[c] EXCEPT !.at = p] \in CallRecords
  BY DEF CallRecords
<1>2. QED
  BY <1>1, Update DEF Goes

LEMMA EndsTyped ==
    ASSUME call \in [Calls -> CallRecords], NEW c \in Calls, Ends(c)
    PROVE  /\ call' \in [Calls -> CallRecords]
           /\ call'[c] = Idle
           /\ \A d \in Calls \ {c} : call'[d] = call[d]
  BY IdleRecord, Update DEF Ends

LEMMA BeginsTyped ==
    ASSUME call \in [Calls -> CallRecords], NEW c \in Calls, NEW k \in Kinds,
           NEW docs \in BOOLEAN, NEW n \in NameOrNone, NEW g \in Goals,
           NEW s \in 0..4, Begins(c, k, docs, n, g, s)
    PROVE  /\ call' \in [Calls -> CallRecords]
           /\ call'[c] = [Idle EXCEPT !.kind = k, !.at = "get", !.docs = docs,
                                      !.want = n, !.goal = g, !.next = s]
           /\ \A d \in Calls \ {c} : call'[d] = call[d]
<1>1. "get" \in Places
  BY DEF Places
<1>2. [Idle EXCEPT !.kind = k, !.at = "get", !.docs = docs, !.want = n,
                   !.goal = g, !.next = s] \in CallRecords
  BY <1>1, IdleRecord DEF CallRecords
<1>3. QED
  BY <1>2, Update DEF Begins

LEMMA TransitTyped ==
    ASSUME call \in [Calls -> CallRecords], NEW c \in Calls,
           NEW n \in NameOrNone, NEW g \in Goals, Transit(c, n, g)
    PROVE  /\ call' \in [Calls -> CallRecords]
           /\ call'[c] = [call[c] EXCEPT !.at = "get", !.want = n, !.goal = g,
                                         !.read = NoName]
           /\ \A d \in Calls \ {c} : call'[d] = call[d]
<1>1. [call[c] EXCEPT !.at = "get", !.want = n, !.goal = g, !.read = NoName]
         \in CallRecords
  BY SomeNames DEF CallRecords, Places
<1>2. QED
  BY <1>1, Update DEF Transit

\* A rejected call is gone or starts again.
LEMMA RejectsTyped ==
    ASSUME TypeOK, NEW c \in Calls, Rejects(c)
    PROVE  /\ call' \in [Calls -> CallRecords]
           /\ \/ call'[c] = Idle
              \/ \E n \in 0..Attempts : call'[c] = InsertJob(n)
           /\ \A d \in Calls \ {c} : call'[d] = call[d]
           /\ abandoned' = (abandoned \/ Inserting(c))
           /\ abandoned' \in BOOLEAN
<1>1. abandoned' = (abandoned \/ Inserting(c)) /\ abandoned' \in BOOLEAN
  BY DEF Rejects, TypeOK
<1>2. CASE call[c].kind = "insert" /\ call[c].left > 1
  <2>1. call[c].left - 1 \in 0..Attempts
    <3>1. call[c].left \in 0..Attempts
      BY DEF TypeOK, CallRecords
    <3>2. QED
      BY <1>2, <3>1, AttemptsAssumption
  <2>2. Becomes(c, InsertJob(call[c].left - 1))
    BY <1>2 DEF Rejects
  <2>3. InsertJob(call[c].left - 1) \in CallRecords
    BY <2>1, InsertRecord
  <2>4. QED
    BY <1>1, <2>1, <2>2, <2>3, Update DEF TypeOK
<1>3. CASE ~(call[c].kind = "insert" /\ call[c].left > 1)
  <2>1. Ends(c)
    BY <1>3 DEF Rejects
  <2>2. QED
    BY <1>1, <2>1, EndsTyped DEF TypeOK
<1>4. QED
  BY <1>2, <1>3

-----------------------------------------------------------------------------
\* The type invariant, for every value of the constants.
THEOREM TypeCorrect == Spec => []TypeOK
<1>1. Init => TypeOK
  <2> SUFFICES ASSUME Init PROVE TypeOK
    OBVIOUS
  <2>1. name \in NameOrNone
    BY DEF Init, NameOrNone, Names
  <2>2. jobs \in [1..4 -> 0..MaxJobs]
    BY MaxJobsAssumption DEF Init
  <2>3. call \in [Calls -> CallRecords]
    BY IdleRecord DEF Init
  <2>4. QED
    BY <2>1, <2>2, <2>3 DEF Init, TypeOK
<1>2. TypeOK /\ [Next]_vars => TypeOK'
  <2> SUFFICES ASSUME TypeOK, [Next]_vars PROVE TypeOK'
    OBVIOUS
  <2>a. call \in [Calls -> CallRecords]
    BY DEF TypeOK
  <2>b. \A c \in Calls : /\ call[c].docs \in BOOLEAN
                         /\ call[c].left \in 0..Attempts
                         /\ call[c].want \in NameOrNone
                         /\ call[c].next \in 0..4
                         /\ call[c].kind \in Kinds
    BY <2>a DEF CallRecords
  <2>1. ASSUME NEW c \in Calls, StartInsert(c) PROVE TypeOK'
    <3>1. PICK n \in {1, Attempts} : Becomes(c, InsertJob(n))
      BY <2>1 DEF StartInsert
    <3>2. n \in 0..Attempts
      BY <3>1, AttemptsAssumption
    <3>3. call' \in [Calls -> CallRecords]
      BY <2>a, <3>1, <3>2, InsertRecord, Update
    <3>4. QED
      BY <2>1, <3>3 DEF StartInsert, TypeOK
  <2>2. ASSUME NEW c \in Calls, CheckExists(c) PROVE TypeOK'
    <3>1. "create" \in Places
      BY DEF Places
    <3>2. call' \in [Calls -> CallRecords]
      BY <2>2, <2>a, <3>1, GoesTyped, EndsTyped DEF CheckExists
    <3>3. QED
      BY <2>2, <3>2 DEF CheckExists, TypeOK
  <2>3. ASSUME NEW c \in Calls, CreateLawsuit(c) PROVE TypeOK'
    <3>1. CASE name = NoName
      <4>1. {"decide", "post"} \subseteq Places /\ "PENDING" \in NameOrNone
        BY DEF Places, NameOrNone, Names
      <4>2. call' \in [Calls -> CallRecords]
        BY <2>3, <2>a, <3>1, <4>1, GoesTyped DEF CreateLawsuit
      <4>3. QED
        BY <2>3, <3>1, <4>1, <4>2 DEF CreateLawsuit, TypeOK
    <3>2. CASE name # NoName
      BY <2>3, <3>2, RejectsTyped DEF CreateLawsuit, TypeOK
    <3>3. QED
      BY <3>1, <3>2
  <2>4. ASSUME NEW c \in Calls, CreateDecision(c) PROVE TypeOK'
    <3>1. "post" \in Places
      BY DEF Places
    <3>2. QED
      BY <2>4, <2>a, <3>1, GoesTyped DEF CreateDecision, TypeOK
  <2>5. ASSUME NEW c \in Calls, PostTaken(c) PROVE TypeOK'
    <3>1. [call[c] EXCEPT !.at = "get", !.want = Sent(call[c].docs),
                          !.goal = "sent", !.read = NoName, !.taken = TRUE]
             \in CallRecords
      BY <2>a, SomeNames, ZenonT(60) DEF CallRecords, Places, Goals
    <3>2. call' \in [Calls -> CallRecords]
      BY <2>5, <2>a, <3>1, Update DEF PostTaken
    <3>3. QED
      BY <2>5, <3>2 DEF PostTaken, TypeOK
  <2>6. ASSUME NEW c \in Calls, PostKnown(c) PROVE TypeOK'
    <3>1. Sent(call[c].docs) \in NameOrNone /\ "end" \in Goals
      BY SomeNames DEF Goals
    <3>2. QED
      BY <2>6, <2>a, <3>1, TransitTyped DEF PostKnown, TypeOK
  <2>7. ASSUME NEW c \in Calls, PostRefused(c) PROVE TypeOK'
    <3>1. "ERROR" \in NameOrNone /\ "end" \in Goals
      BY SomeNames DEF Goals
    <3>2. QED
      BY <2>7, <2>a, <3>1, TransitTyped DEF PostRefused, TypeOK
  <2>c. ASSUME NEW c \in Calls, Throws(c)
        PROVE  call' \in [Calls -> CallRecords] /\ abandoned' \in BOOLEAN
    <3>1. "ERROR" \in NameOrNone /\ "end" \in Goals
      BY SomeNames DEF Goals
    <3>2. QED
      BY <2>c, <2>a, <3>1, TransitTyped, RejectsTyped DEF Throws, TypeOK
  <2>8. ASSUME NEW c \in Calls, TransitionGet(c) PROVE TypeOK'
    <3>1. CASE canTransition(name, call[c].want)
      <4>1. [call[c] EXCEPT !.at = "put", !.read = name] \in CallRecords
        BY <2>a DEF CallRecords, Places, TypeOK
      <4>2. call' \in [Calls -> CallRecords]
        BY <2>8, <2>a, <3>1, <4>1, Update DEF TransitionGet
      <4>3. QED
        BY <2>8, <3>1, <4>2 DEF TransitionGet, TypeOK
    <3>2. CASE ~canTransition(name, call[c].want)
      BY <2>8, <2>c, <3>2 DEF TransitionGet, TypeOK
    <3>3. QED
      BY <3>1, <3>2
  <2>9. ASSUME NEW c \in Calls, TransitionPut(c) PROVE TypeOK'
    <3>1. CASE SameName(c) \/ name = call[c].read
      <4>1. name' \in NameOrNone
        BY <2>9, <2>b, <3>1 DEF TransitionPut, TypeOK
      <4>2. {"post", "enqueue"} \subseteq Places
        BY DEF Places
      <4>3. Goes(c, "post") \/ Goes(c, "enqueue") \/ Ends(c)
        BY <2>9, <3>1 DEF TransitionPut, Resolves
      <4>4. call' \in [Calls -> CallRecords]
        BY <2>a, <4>2, <4>3, GoesTyped, EndsTyped
      <4>5. QED
        BY <2>9, <3>1, <4>1, <4>4 DEF TransitionPut, TypeOK
    <3>2. CASE ~(SameName(c) \/ name = call[c].read)
      BY <2>9, <2>c, <3>2 DEF TransitionPut, TypeOK
    <3>3. QED
      BY <3>1, <3>2
  <2>d. /\ "relist" \in Kinds /\ "loss" \in Kinds /\ "rerun" \in Kinds
        /\ "validate" \in Kinds /\ "solvency" \in Kinds
        /\ "resend" \in Goals /\ "enqueue" \in Goals /\ "end" \in Goals
        /\ 0 \in 0..4 /\ 2 \in 0..4
        /\ FALSE \in BOOLEAN /\ TRUE \in BOOLEAN
    BY DEF Kinds, Goals
  <2>f. NoName \in NameOrNone
    BY SomeNames
  <2>10. ASSUME NEW c \in Calls, Relist(c) PROVE TypeOK'
    <3>1. PICK docs \in BOOLEAN :
             Begins(c, "relist", docs, Sent(docs), "resend", 0)
      BY <2>10 DEF Relist
    <3>2. Sent(docs) \in NameOrNone
      BY SomeNames
    <3>3. call' \in [Calls -> CallRecords]
      BY <2>a, <2>d, <3>1, <3>2, BeginsTyped
    <3>4. QED
      BY <2>10, <3>3 DEF Relist, TypeOK
  <2>11. ASSUME NEW c \in Calls, RevalidateLoss(c) PROVE TypeOK'
    <3>1. Begins(c, "loss", TRUE, NoName, "resend", 0)
      BY <2>11 DEF RevalidateLoss
    <3>2. call' \in [Calls -> CallRecords]
      BY <2>a, <2>d, <2>f, <3>1, BeginsTyped
    <3>3. QED
      BY <2>11, <3>2 DEF RevalidateLoss, TypeOK
  <2>12. ASSUME NEW c \in Calls, Rerun(c) PROVE TypeOK'
    <3>1. PICK s \in 1..4 : Begins(c, "rerun", FALSE, NoName, "enqueue", s)
      BY <2>12 DEF Rerun
    <3>2. s \in 0..4
      OBVIOUS
    <3>3. call' \in [Calls -> CallRecords]
      BY <2>a, <2>d, <3>1, <3>2, SomeNames, BeginsTyped
    <3>4. QED
      BY <2>12, <3>3 DEF Rerun, TypeOK
  <2>e. ASSUME NEW s \in 1..4, Take(s) PROVE jobs' \in [1..4 -> 0..MaxJobs]
    <3>1. jobs[s] - 1 \in 0..MaxJobs
      <4>1. jobs[s] \in 0..MaxJobs /\ jobs[s] > 0
        BY <2>e DEF Take, TypeOK
      <4>2. QED
        BY <4>1, MaxJobsAssumption
    <3>2. jobs' = [jobs EXCEPT ![s] = jobs[s] - 1]
      BY <2>e DEF Take
    <3>3. QED
      BY <3>1, <3>2 DEF TypeOK
  <2>13. ASSUME NEW c \in Calls, Validate(c) PROVE TypeOK'
    <3>1. Begins(c, "validate", FALSE, NoName, "enqueue", 2)
      BY <2>13 DEF Validate
    <3>2. call' \in [Calls -> CallRecords]
      BY <2>a, <2>d, <2>f, <3>1, BeginsTyped
    <3>3. QED
      BY <2>13, <2>e, <3>2 DEF Validate, TypeOK
  <2>14. ASSUME NEW c \in Calls, Solvency(c) PROVE TypeOK'
    <3> DEFINE target == IF name = PWM THEN EMF ELSE WAITDOC
    <3>1. target \in NameOrNone
      BY SomeNames
    <3>2. Begins(c, "solvency", FALSE, target, "end", 0)
      BY <2>14 DEF Solvency
    <3> HIDE DEF target
    <3>3. call' \in [Calls -> CallRecords]
      BY <2>a, <2>d, <3>1, <3>2, BeginsTyped
    <3>4. QED
      BY <2>14, <2>e, <3>3 DEF Solvency, TypeOK
  <2>15. ASSUME NEW c \in Calls, Extract(c) PROVE TypeOK'
    <3>1. [Idle EXCEPT !.kind = "extract", !.at = "vertex"] \in CallRecords
      BY IdleRecord DEF CallRecords, Kinds, Places
    <3>2. QED
      BY <2>15, <2>a, <2>e, <3>1, Update DEF Extract, TypeOK
  <2>16. ASSUME NEW c \in Calls, ExtractedNothing(c) PROVE TypeOK'
    <3>1. "ERROR" \in NameOrNone
      BY SomeNames
    <3>2. QED
      BY <2>16, <2>a, <2>d, <3>1, TransitTyped DEF ExtractedNothing, TypeOK
  <2>17. ASSUME NEW c \in Calls, ExtractedSome(c) PROVE TypeOK'
    <3>0. "enqueue" \in Places /\ 4 \in 0..4
      BY DEF Places
    <3>1. [call[c] EXCEPT !.at = "enqueue", !.next = 4] \in CallRecords
      BY <2>a, <3>0 DEF CallRecords
    <3>2. QED
      BY <2>17, <2>a, <3>1, Update DEF ExtractedSome, TypeOK
  <2>18. ASSUME NEW c \in Calls, NextStep(c) PROVE TypeOK'
    <3>1. EDF \in NameOrNone
      BY SomeNames
    <3>2. call' \in [Calls -> CallRecords]
      BY <2>18, <2>a, <2>d, <3>1, TransitTyped, EndsTyped DEF NextStep
    <3>3. jobs' \in [1..4 -> 0..MaxJobs]
      <4>1. call[c].next \in 1..4 => jobs[call[c].next] \in 0..MaxJobs
        BY DEF TypeOK
      <4>2. call[c].next \in 1..4 => jobs[call[c].next] + 1 \in 0..MaxJobs
        BY <2>18, <4>1, MaxJobsAssumption DEF NextStep
      <4>3. QED
        BY <2>18, <4>2 DEF NextStep, TypeOK
    <3>4. QED
      BY <2>18, <3>2, <3>3 DEF NextStep, TypeOK
  <2>19. ASSUME NEW c \in Calls, NextStepRefused(c) PROVE TypeOK'
    BY <2>19, <2>a, EndsTyped DEF NextStepRefused, TypeOK
  <2>20. ASSUME NEW c \in Calls, Dies(c) PROVE TypeOK'
    <3>1. call' \in [Calls -> CallRecords]
      <4>1. Becomes(c, InsertJob(call[c].left)) \/ Ends(c)
        BY <2>20 DEF Dies
      <4>2. QED
        BY <2>a, <2>b, <4>1, InsertRecord, Update, EndsTyped
    <3>2. jobs' \in [1..4 -> 0..MaxJobs]
      <4>1. \/ UNCHANGED jobs
            \/ \E s \in 1..4 : jobs' = [jobs EXCEPT ![s] =
                                           IF @ < MaxJobs THEN @ + 1 ELSE @]
        BY <2>20 DEF Dies, QueueOf
      <4>2. ASSUME NEW s \in 1..4,
                   jobs' = [jobs EXCEPT ![s] = IF @ < MaxJobs THEN @ + 1 ELSE @]
            PROVE  jobs' \in [1..4 -> 0..MaxJobs]
        <5>1. jobs[s] \in 0..MaxJobs
          BY DEF TypeOK
        <5>2. (IF jobs[s] < MaxJobs THEN jobs[s] + 1 ELSE jobs[s]) \in 0..MaxJobs
          BY <5>1, MaxJobsAssumption
        <5>3. QED
          BY <4>2, <5>2 DEF TypeOK
      <4>3. QED
        BY <4>1, <4>2 DEF TypeOK
    <3>3. abandoned' \in BOOLEAN
      BY <2>20 DEF Dies, TypeOK
    <3>4. QED
      BY <2>20, <3>1, <3>2, <3>3 DEF Dies, TypeOK
  <2>21. CASE InitialPetition
    BY <2>21, <2>e DEF InitialPetition, TypeOK
  <2>22. CASE UNCHANGED vars
    BY <2>22 DEF vars, TypeOK
  <2>23. QED
    BY <2>1, <2>2, <2>3, <2>4, <2>5, <2>6, <2>7, <2>8, <2>9, <2>10, <2>11,
       <2>12, <2>13, <2>14, <2>15, <2>16, <2>17, <2>18, <2>19, <2>20, <2>21,
       <2>22 DEF Next
<1>3. QED
  BY <1>1, <1>2, PTL DEF Spec

-----------------------------------------------------------------------------
(* The inductive invariant: which handler stands where, that a transition  *)
(* was checked against the status it read, and that the lawsuit exists     *)
(* once anything but the look-up of an insert is going on.                 *)

CallOK(c) ==
    /\ call[c].at = "idle" => call[c].kind = "none"
    /\ call[c].at \in {"check", "create", "decide"} => call[c].kind = "insert"
    /\ call[c].kind = "insert" =>
          /\ call[c].at \in {"check", "create", "decide", "post", "get", "put"}
          /\ call[c].at \in {"get", "put"} => /\ call[c].goal \in {"sent", "end"}
                                             /\ call[c].want # NoName
    /\ call[c].want # "PENDING"
    /\ call[c].at = "put" => /\ call[c].read \in Names
                             /\ canTransition(call[c].read, call[c].want)
    /\ call[c].at \notin {"idle", "check", "create"} => name # NoName

PipelineInv ==
    /\ \A c \in Calls : CallOK(c)
    /\ \A s \in 1..4 : jobs[s] > 0 => name # NoName
    /\ InsertedOnce
    /\ PendingIsBeingSent

\* What a step of call c has to show: itself in order, the lawsuit still
\* there, and no insert begun, or ended with the lawsuit at PENDING.
LEMMA Carry ==
    ASSUME TypeOK, PipelineInv, NEW c \in Calls,
           \A d \in Calls \ {c} : call'[d] = call[d],
           name # NoName => name' # NoName,
           CallOK(c)',
           Inserting(c)' => Inserting(c),
           name' = name \/ name' # "PENDING",
           Inserting(c) => Inserting(c)' \/ abandoned' \/ name' # "PENDING",
           abandoned => abandoned',
           \A s \in 1..4 : jobs'[s] > 0 => name' # NoName
    PROVE  PipelineInv'
<1>1. \A d \in Calls \ {c} : CallOK(d)' /\ (Inserting(d)' <=> Inserting(d))
  BY DEF PipelineInv, CallOK, Inserting, canTransition
<1>2. \A d \in Calls : CallOK(d)'
  BY <1>1
<1>3. InsertedOnce'
  BY <1>1 DEF PipelineInv, InsertedOnce
<1>4. PendingIsBeingSent'
  <2> SUFFICES ASSUME name' = "PENDING", ~abandoned'
               PROVE  \E d \in Calls : Inserting(d)'
    BY DEF PendingIsBeingSent
  <2>1. name = "PENDING" /\ ~abandoned
    OBVIOUS
  <2>2. PICK d \in Calls : Inserting(d)
    BY <2>1 DEF PipelineInv, PendingIsBeingSent
  <2>3. QED
    BY <1>1, <2>2
<1>5. QED
  BY <1>2, <1>3, <1>4 DEF PipelineInv

\* A call that is gone or starts again is in order.
LEMMA Restarted ==
    ASSUME NEW c \in Calls,
           call'[c] = Idle \/ \E n \in 0..Attempts : call'[c] = InsertJob(n)
    PROVE  CallOK(c)' /\ ~Inserting(c)'
<1>1. \A n : /\ InsertJob(n).kind = "insert"
             /\ InsertJob(n).at = "check"
             /\ InsertJob(n).want = NoName
  BY DEF InsertJob, Idle
<1>2. /\ Idle.kind = "none" /\ Idle.at = "idle" /\ Idle.want = NoName
  BY DEF Idle
<1>3. QED
  BY <1>1, <1>2 DEF CallOK, Inserting, NoName

\* The invariant holds of every behaviour.
LEMMA Inductive == Spec => []PipelineInv
<1>1. Init => PipelineInv
  <2> SUFFICES ASSUME Init PROVE PipelineInv
    OBVIOUS
  <2>1. \A c \in Calls : CallOK(c) /\ ~Inserting(c)
    BY DEF Init, CallOK, Inserting, Idle, NoName
  <2>2. name # "PENDING"
    BY DEF Init, NoName, WMAIN
  <2>3. QED
    BY <2>1, <2>2 DEF Init, PipelineInv, InsertedOnce, PendingIsBeingSent
<1>2. TypeOK /\ TypeOK' /\ PipelineInv /\ [Next]_vars => PipelineInv'
  <2> SUFFICES ASSUME TypeOK, TypeOK', PipelineInv, [Next]_vars
               PROVE  PipelineInv'
    OBVIOUS
  <2>a. call \in [Calls -> CallRecords]
    BY DEF TypeOK
  <2>b. \A c \in Calls : CallOK(c)
    BY DEF PipelineInv
  <2>c. \A s \in 1..4 : jobs[s] > 0 => name # NoName
    BY DEF PipelineInv
  \* A step of call c that leaves the lawsuit alone.
  <2>d. ASSUME NEW c \in Calls, UNCHANGED <<name, jobs>>,
               \A d \in Calls \ {c} : call'[d] = call[d],
               CallOK(c)', Inserting(c)' => Inserting(c),
               abandoned' = abandoned, Inserting(c) => Inserting(c)'
        PROVE  PipelineInv'
    BY <2>c, <2>d, Carry
  <2>1. ASSUME NEW c \in Calls, StartInsert(c) PROVE PipelineInv'
    <3>1. PICK n \in {1, Attempts} : Becomes(c, InsertJob(n))
      BY <2>1 DEF StartInsert
    <3>2. n \in 0..Attempts
      BY <3>1, AttemptsAssumption
    <3>3. /\ call'[c] = InsertJob(n)
          /\ \A d \in Calls \ {c} : call'[d] = call[d]
      BY <2>a, <3>1, <3>2, InsertRecord, Update
    <3>4. ~Inserting(c)
      BY <2>1 DEF StartInsert, Inserting, Idle
    <3>5. QED
      BY <2>1, <2>d, <3>2, <3>3, <3>4, Restarted DEF StartInsert
  <2>2. ASSUME NEW c \in Calls, CheckExists(c) PROVE PipelineInv'
    <3>1. ~Inserting(c)
      BY <2>2 DEF CheckExists, Inserting
    <3>2. CASE name = NoName
      <4>1. "create" \in Places
        BY DEF Places
      <4>2. /\ call'[c] = [call[c] EXCEPT !.at = "create"]
            /\ \A d \in Calls \ {c} : call'[d] = call[d]
        BY <2>2, <2>a, <3>2, <4>1, GoesTyped DEF CheckExists
      <4>3. /\ call'[c].at = "create"
            /\ call'[c].kind = call[c].kind /\ call'[c].want = call[c].want
        BY <2>a, <4>2 DEF CallRecords
      <4>4. CallOK(c)' /\ ~Inserting(c)'
        BY <2>2, <2>b, <4>3 DEF CheckExists, CallOK, Inserting
      <4>5. QED
        BY <2>2, <2>d, <3>1, <4>2, <4>4 DEF CheckExists
    <3>3. CASE name # NoName
      <4>1. call'[c] = Idle /\ \A d \in Calls \ {c} : call'[d] = call[d]
        BY <2>2, <2>a, <3>3, EndsTyped DEF CheckExists
      <4>2. QED
        BY <2>2, <2>d, <3>1, <4>1, Restarted DEF CheckExists
    <3>4. QED
      BY <3>2, <3>3
  <2>3. ASSUME NEW c \in Calls, CreateLawsuit(c) PROVE PipelineInv'
    <3>1. CASE name = NoName
      <4>1. {"decide", "post"} \subseteq Places
        BY DEF Places
      <4>2. PICK place \in {"decide", "post"} : Goes(c, place)
        BY <2>3, <3>1 DEF CreateLawsuit
      <4>3. /\ call'[c] = [call[c] EXCEPT !.at = place]
            /\ \A d \in Calls \ {c} : call'[d] = call[d]
        BY <2>a, <4>1, <4>2, GoesTyped
      <4>4. /\ call'[c].at = place
            /\ call'[c].kind = "insert" /\ call'[c].want = call[c].want
        BY <2>3, <2>a, <2>b, <4>3 DEF CallRecords, CreateLawsuit, CallOK
      <4>5. name' = "PENDING" /\ name' # NoName
            /\ UNCHANGED <<jobs, abandoned>>
        BY <2>3, <3>1 DEF CreateLawsuit, NoName
      <4>6. CallOK(c)' /\ Inserting(c)'
        BY <2>b, <4>2, <4>4, <4>5 DEF CallOK, Inserting
      <4>7. \A d \in Calls \ {c} : CallOK(d)' /\ ~Inserting(d)'
        BY <2>b, <3>1, <4>3, <4>5
           DEF CallOK, Inserting, canTransition
      <4>8. QED
        BY <4>5, <4>6, <4>7
           DEF PipelineInv, InsertedOnce, PendingIsBeingSent
    <3>2. CASE name # NoName
      <4>1. Rejects(c) /\ UNCHANGED <<name, jobs>>
        BY <2>3, <3>2 DEF CreateLawsuit
      <4>2. ~Inserting(c)
        BY <2>3 DEF CreateLawsuit, Inserting
      <4>3. CallOK(c)' /\ ~Inserting(c)'
        BY <4>1, RejectsTyped, Restarted
      <4>4. abandoned' = abandoned
        BY <4>1, <4>2, RejectsTyped DEF TypeOK
      <4>5. QED
        BY <2>d, <4>1, <4>2, <4>3, <4>4, RejectsTyped
    <3>3. QED
      BY <3>1, <3>2
  <2>4. ASSUME NEW c \in Calls, CreateDecision(c) PROVE PipelineInv'
    <3>1. "post" \in Places
      BY DEF Places
    <3>2. /\ call'[c] = [call[c] EXCEPT !.at = "post"]
          /\ \A d \in Calls \ {c} : call'[d] = call[d]
      BY <2>4, <2>a, <3>1, GoesTyped DEF CreateDecision
    <3>3. /\ call'[c].at = "post"
          /\ call'[c].kind = call[c].kind /\ call'[c].want = call[c].want
      BY <2>a, <3>2 DEF CallRecords
    <3>4. CallOK(c)' /\ Inserting(c) /\ Inserting(c)'
      BY <2>4, <2>b, <3>3 DEF CreateDecision, CallOK, Inserting
    <3>5. QED
      BY <2>4, <2>d, <3>2, <3>4 DEF CreateDecision
  \* A transition that call c, standing at p, begins inside the handler.
  <2>e. ASSUME NEW c \in Calls, NEW n \in Names \ {"PENDING", NoName},
               NEW g \in {"sent", "end"}, NEW t \in BOOLEAN,
               call'[c] = [call[c] EXCEPT !.at = "get", !.want = n, !.goal = g,
                                          !.read = NoName]
               \/ call'[c] = [call[c] EXCEPT !.at = "get", !.want = n,
                                  !.goal = g, !.read = NoName, !.taken = t],
               call[c].at \in {"post", "get", "put", "vertex", "enqueue"},
               name' = name
        PROVE  CallOK(c)' /\ (Inserting(c)' <=> Inserting(c))
    <3>1. /\ call'[c].at = "get" /\ call'[c].want = n /\ call'[c].goal = g
          /\ call'[c].kind = call[c].kind
      BY <2>a, <2>e DEF CallRecords
    <3>2. name # NoName
      BY <2>b, <2>e DEF CallOK
    <3>3. call[c].at \in {"vertex", "enqueue"} => call[c].kind # "insert"
      BY <2>b DEF CallOK
    <3>4. QED
      BY <2>e, <3>1, <3>2, <3>3 DEF CallOK, Inserting
  <2>5. ASSUME NEW c \in Calls, PostTaken(c) PROVE PipelineInv'
    <3>1. [call[c] EXCEPT !.at = "get", !.want = Sent(call[c].docs),
                          !.goal = "sent", !.read = NoName, !.taken = TRUE]
             \in CallRecords
      BY <2>a, SomeNames, ZenonT(60) DEF CallRecords, Places, Goals
    <3>2. /\ call'[c] = [call[c] EXCEPT !.at = "get",
                            !.want = Sent(call[c].docs), !.goal = "sent",
                            !.read = NoName, !.taken = TRUE]
          /\ \A d \in Calls \ {c} : call'[d] = call[d]
      BY <2>5, <2>a, <3>1, Update DEF PostTaken
    <3>3. Sent(call[c].docs) \in Names \ {"PENDING", NoName}
      BY SomeNames
    <3>4. CallOK(c)' /\ (Inserting(c)' <=> Inserting(c))
      BY <2>5, <2>e, <3>2, <3>3 DEF PostTaken
    <3>5. QED
      BY <2>5, <2>d, <3>2, <3>4 DEF PostTaken
  <2>f. ASSUME NEW c \in Calls, NEW n \in Names \ {"PENDING", NoName},
               Transit(c, n, "end"), UNCHANGED <<name, jobs, abandoned>>,
               call[c].at \in {"post", "get", "put", "vertex", "enqueue"}
        PROVE  PipelineInv'
    <3>1. n \in NameOrNone /\ "end" \in Goals
      BY SomeNames DEF Goals
    <3>a. Transit(c, n, "end")
      BY <2>f
    <3>b. [call[c] EXCEPT !.at = "get", !.want = n, !.goal = "end",
                          !.read = NoName] \in CallRecords
      BY <2>a, <3>1, SomeNames DEF CallRecords, Places
    <3>2. /\ call'[c] = [call[c] EXCEPT !.at = "get", !.want = n,
                            !.goal = "end", !.read = NoName]
          /\ \A d \in Calls \ {c} : call'[d] = call[d]
      BY <2>a, <3>b, <3>a, Update DEF Transit
    <3>3. CallOK(c)' /\ (Inserting(c)' <=> Inserting(c))
      BY <2>e, <2>f, <3>2
    <3>4. QED
      BY <2>d, <2>f, <3>2, <3>3
  <2>6. ASSUME NEW c \in Calls, PostKnown(c) PROVE PipelineInv'
    <3>1. Sent(call[c].docs) \in Names \ {"PENDING", NoName}
      BY SomeNames
    <3>2. QED
      BY <2>6, <2>f, <3>1 DEF PostKnown
  <2>g. "ERROR" \in Names \ {"PENDING", NoName}
    BY SomeNames
  <2>7. ASSUME NEW c \in Calls, PostRefused(c) PROVE PipelineInv'
    BY <2>7, <2>f, <2>g DEF PostRefused
  \* A rejection abandons what the call was inserting.
  <2>h. ASSUME NEW c \in Calls, Rejects(c), UNCHANGED <<name, jobs>>
        PROVE  PipelineInv'
    <3>1. CallOK(c)' /\ ~Inserting(c)'
      BY <2>h, RejectsTyped, Restarted
    <3>2. /\ \A d \in Calls \ {c} : call'[d] = call[d]
          /\ abandoned' = (abandoned \/ Inserting(c))
      BY <2>h, RejectsTyped
    <3>3. QED
      BY <2>c, <2>h, <3>1, <3>2, Carry
  <2>i. ASSUME NEW c \in Calls, Throws(c), UNCHANGED <<name, jobs>>,
               call[c].at \in {"get", "put"}
        PROVE  PipelineInv'
    <3>1. CASE call[c].goal = "sent"
      BY <2>f, <2>g, <2>i, <3>1 DEF Throws
    <3>2. CASE call[c].goal # "sent"
      BY <2>h, <2>i, <3>2 DEF Throws
    <3>3. QED
      BY <3>1, <3>2
  <2>8. ASSUME NEW c \in Calls, TransitionGet(c) PROVE PipelineInv'
    <3>1. CASE canTransition(name, call[c].want)
      <4>1. [call[c] EXCEPT !.at = "put", !.read = name] \in CallRecords
        BY <2>a DEF CallRecords, Places, TypeOK
      <4>2. /\ call'[c] = [call[c] EXCEPT !.at = "put", !.read = name]
            /\ \A d \in Calls \ {c} : call'[d] = call[d]
        BY <2>8, <2>a, <3>1, <4>1, Update DEF TransitionGet
      <4>3. /\ call'[c].at = "put" /\ call'[c].read = name
            /\ call'[c].want = call[c].want /\ call'[c].goal = call[c].goal
            /\ call'[c].kind = call[c].kind
        BY <2>a, <4>2 DEF CallRecords
      <4>4. name \in Names /\ name' = name
        BY <2>8, <2>b DEF TransitionGet, CallOK, TypeOK, NameOrNone
      <4>5. name # NoName
        BY <4>4 DEF Names, NoName, PWM, PWD, EMF, EDF, WAITDOC, WMAIN
      <4>6. CallOK(c)' /\ (Inserting(c)' <=> Inserting(c))
        BY <2>8, <2>b, <3>1, <4>3, <4>4, <4>5
           DEF TransitionGet, CallOK, Inserting, canTransition
      <4>7. QED
        BY <2>8, <2>d, <3>1, <4>2, <4>6 DEF TransitionGet
    <3>2. CASE ~canTransition(name, call[c].want)
      BY <2>8, <2>i, <3>2 DEF TransitionGet
    <3>3. QED
      BY <3>1, <3>2
  <2>9. ASSUME NEW c \in Calls, TransitionPut(c) PROVE PipelineInv'
    <3>1. CASE SameName(c) \/ name = call[c].read
      <4>1. /\ name' = IF call[c].want = NoName THEN name ELSE call[c].want
            /\ Resolves(c) /\ UNCHANGED <<jobs, abandoned>>
        BY <2>9, <3>1 DEF TransitionPut
      <4>2. call[c].want # "PENDING" /\ name # NoName
        BY <2>9, <2>b DEF TransitionPut, CallOK
      <4>3. name' # NoName /\ (name' = name \/ name' # "PENDING")
        BY <4>1, <4>2
      <4>4. CASE call[c].kind = "insert"
        <5>1. call[c].goal \in {"sent", "end"} /\ call[c].want # NoName
          BY <2>9, <2>b, <4>4 DEF TransitionPut, CallOK
        <5>2. Ends(c) /\ name' # "PENDING"
          BY <4>1, <4>2, <5>1 DEF Resolves
        <5>3. call'[c] = Idle /\ \A d \in Calls \ {c} : call'[d] = call[d]
          BY <2>a, <5>2, EndsTyped
        <5>4. CallOK(c)' /\ ~Inserting(c)'
          BY <5>3, Restarted
        <5>5. QED
          BY <4>1, <4>3, <5>2, <5>3, <5>4, Carry
      <4>5. CASE call[c].kind # "insert"
        <5>1. ~Inserting(c)
          BY <4>5 DEF Inserting
        <5>2. CASE Ends(c)
          <6>1. call'[c] = Idle /\ \A d \in Calls \ {c} : call'[d] = call[d]
            BY <2>a, <5>2, EndsTyped
          <6>2. CallOK(c)' /\ ~Inserting(c)'
            BY <6>1, Restarted
          <6>3. QED
            BY <4>1, <4>3, <5>1, <6>1, <6>2, Carry
        <5>3. ASSUME NEW p \in {"post", "enqueue"}, Goes(c, p)
              PROVE  PipelineInv'
          <6>1. p \in Places
            BY DEF Places
          <6>2. /\ call'[c] = [call[c] EXCEPT !.at = p]
                /\ \A d \in Calls \ {c} : call'[d] = call[d]
            BY <2>a, <5>3, <6>1, GoesTyped
          <6>3. /\ call'[c].at = p /\ call'[c].kind = call[c].kind
                /\ call'[c].want = call[c].want
            BY <2>a, <6>2 DEF CallRecords
          <6>4. CallOK(c)' /\ ~Inserting(c)'
            BY <4>2, <4>3, <4>5, <6>3 DEF CallOK, Inserting
          <6>5. QED
            BY <4>1, <4>3, <5>1, <6>2, <6>4, Carry
        <5>4. QED
          BY <4>1, <5>2, <5>3 DEF Resolves
      <4>6. QED
        BY <4>4, <4>5
    <3>2. CASE ~(SameName(c) \/ name = call[c].read)
      BY <2>9, <2>i, <3>2 DEF TransitionPut
    <3>3. QED
      BY <3>1, <3>2
  \* A handler of kind k begins with a transition.
  <2>j. ASSUME NEW c \in Calls, NEW k \in Kinds \ {"none", "insert"},
               NEW docs \in BOOLEAN, NEW n \in NameOrNone \ {"PENDING"},
               NEW g \in Goals, NEW s \in 0..4, Begins(c, k, docs, n, g, s),
               call[c] = Idle, name # NoName, UNCHANGED <<name, abandoned>>,
               \A q \in 1..4 : jobs'[q] > 0 => name # NoName
        PROVE  PipelineInv'
    <3>a. Begins(c, k, docs, n, g, s)
      BY <2>j
    <3>b. k \in Kinds /\ n \in NameOrNone
      OBVIOUS
    <3>c. [Idle EXCEPT !.kind = k, !.at = "get", !.docs = docs, !.want = n,
                       !.goal = g, !.next = s] \in CallRecords
      BY <3>b, IdleRecord DEF CallRecords, Places
    <3>1. /\ call'[c] = [Idle EXCEPT !.kind = k, !.at = "get", !.docs = docs,
                                     !.want = n, !.goal = g, !.next = s]
          /\ \A d \in Calls \ {c} : call'[d] = call[d]
      BY <2>a, <3>a, <3>c, Update DEF Begins
    <3>2. /\ call'[c].kind = k /\ call'[c].at = "get" /\ call'[c].want = n
      BY <3>1 DEF Idle
    <3>3. ~Inserting(c) /\ CallOK(c)' /\ ~Inserting(c)'
      BY <2>j, <3>2 DEF CallOK, Inserting, Idle
    <3>4. QED
      BY <2>j, <3>1, <3>3, Carry
  <2>k. /\ "relist" \in Kinds \ {"none", "insert"}
        /\ "loss" \in Kinds \ {"none", "insert"}
        /\ "rerun" \in Kinds \ {"none", "insert"}
        /\ "validate" \in Kinds \ {"none", "insert"}
        /\ "solvency" \in Kinds \ {"none", "insert"}
        /\ "resend" \in Goals /\ "enqueue" \in Goals /\ "end" \in Goals
        /\ 0 \in 0..4 /\ 2 \in 0..4
        /\ FALSE \in BOOLEAN /\ TRUE \in BOOLEAN
        /\ NoName \in NameOrNone \ {"PENDING"}
    BY SomeNames DEF Kinds, Goals, NoName
  <2>10. ASSUME NEW c \in Calls, Relist(c) PROVE PipelineInv'
    <3>1. PICK docs \in BOOLEAN :
             Begins(c, "relist", docs, Sent(docs), "resend", 0)
      BY <2>10 DEF Relist
    <3>2. Sent(docs) \in NameOrNone \ {"PENDING"}
      BY SomeNames
    <3>3. /\ call[c] = Idle /\ name # NoName
          /\ UNCHANGED <<name, jobs, abandoned>>
      BY <2>10 DEF Relist
    <3>4. QED
      BY <2>j, <2>k, <3>1, <3>2, <3>3
  <2>11. ASSUME NEW c \in Calls, RevalidateLoss(c) PROVE PipelineInv'
    <3>1. /\ Begins(c, "loss", TRUE, NoName, "resend", 0)
          /\ call[c] = Idle /\ name # NoName
          /\ UNCHANGED <<name, jobs, abandoned>>
      BY <2>11 DEF RevalidateLoss
    <3>2. QED
      BY <2>j, <2>k, <3>1
  <2>12. ASSUME NEW c \in Calls, Rerun(c) PROVE PipelineInv'
    <3>1. PICK s \in 1..4 : Begins(c, "rerun", FALSE, NoName, "enqueue", s)
      BY <2>12 DEF Rerun
    <3>2. /\ call[c] = Idle /\ name # NoName /\ s \in 0..4
          /\ UNCHANGED <<name, jobs, abandoned>>
      BY <2>12 DEF Rerun
    <3>3. QED
      BY <2>j, <2>k, <3>1, <3>2
  \* A job taken from a queue belongs to a lawsuit that exists.
  <2>l. ASSUME NEW s \in 1..4, Take(s), name' = name
        PROVE  name # NoName /\ \A q \in 1..4 : jobs'[q] > 0 => name # NoName
    BY <2>c, <2>l DEF Take
  <2>13. ASSUME NEW c \in Calls, Validate(c) PROVE PipelineInv'
    <3>1. /\ Begins(c, "validate", FALSE, NoName, "enqueue", 2)
          /\ call[c] = Idle /\ Take(1) /\ UNCHANGED <<name, abandoned>>
      BY <2>13 DEF Validate
    <3>2. name # NoName /\ \A q \in 1..4 : jobs'[q] > 0 => name # NoName
      BY <2>l, <3>1
    <3>3. QED
      BY <2>j, <2>k, <3>1, <3>2
  <2>14. ASSUME NEW c \in Calls, Solvency(c) PROVE PipelineInv'
    <3> DEFINE target == IF name = PWM THEN EMF ELSE WAITDOC
    <3>1. /\ Begins(c, "solvency", FALSE, target, "end", 0)
          /\ call[c] = Idle /\ Take(2) /\ UNCHANGED <<name, abandoned>>
      BY <2>14 DEF Solvency
    <3>2. target \in NameOrNone \ {"PENDING"}
      BY SomeNames
    <3> HIDE DEF target
    <3>3. name # NoName /\ \A q \in 1..4 : jobs'[q] > 0 => name # NoName
      BY <2>l, <3>1
    <3>4. QED
      BY <2>j, <2>k, <3>1, <3>2, <3>3
  <2>15. ASSUME NEW c \in Calls, Extract(c) PROVE PipelineInv'
    <3>1. [Idle EXCEPT !.kind = "extract", !.at = "vertex"] \in CallRecords
      BY IdleRecord DEF CallRecords, Kinds, Places
    <3>2. /\ call'[c] = [Idle EXCEPT !.kind = "extract", !.at = "vertex"]
          /\ \A d \in Calls \ {c} : call'[d] = call[d]
      BY <2>15, <2>a, <3>1, Update DEF Extract
    <3>3. /\ call'[c].kind = "extract" /\ call'[c].at = "vertex"
          /\ call'[c].want = NoName
      BY <3>2 DEF Idle
    <3>4. /\ name # NoName /\ UNCHANGED <<name, abandoned>>
          /\ \A q \in 1..4 : jobs'[q] > 0 => name # NoName
      BY <2>15, <2>l DEF Extract
    <3>5. ~Inserting(c) /\ CallOK(c)' /\ ~Inserting(c)'
      BY <2>15, <3>3, <3>4 DEF Extract, CallOK, Inserting, Idle, NoName
    <3>6. QED
      BY <3>2, <3>4, <3>5, Carry
  <2>16. ASSUME NEW c \in Calls, ExtractedNothing(c) PROVE PipelineInv'
    BY <2>16, <2>f, <2>g DEF ExtractedNothing
  <2>17. ASSUME NEW c \in Calls, ExtractedSome(c) PROVE PipelineInv'
    <3>0. "enqueue" \in Places /\ 4 \in 0..4
      BY DEF Places
    <3>1. [call[c] EXCEPT !.at = "enqueue", !.next = 4] \in CallRecords
      BY <2>a, <3>0 DEF CallRecords
    <3>2. /\ call'[c] = [call[c] EXCEPT !.at = "enqueue", !.next = 4]
          /\ \A d \in Calls \ {c} : call'[d] = call[d]
      BY <2>17, <2>a, <3>1, Update DEF ExtractedSome
    <3>3. /\ call'[c].at = "enqueue" /\ call'[c].kind = call[c].kind
          /\ call'[c].want = call[c].want
      BY <2>a, <3>2 DEF CallRecords
    <3>4. CallOK(c)' /\ ~Inserting(c) /\ ~Inserting(c)'
      BY <2>17, <2>b, <3>3 DEF ExtractedSome, CallOK, Inserting
    <3>5. QED
      BY <2>17, <2>d, <3>2, <3>4 DEF ExtractedSome
  <2>18. ASSUME NEW c \in Calls, NextStep(c) PROVE PipelineInv'
    <3>1. /\ name # NoName /\ ~Inserting(c)
          /\ UNCHANGED <<name, abandoned>>
          /\ \A q \in 1..4 : jobs'[q] > 0 => name' # NoName
      BY <2>18, <2>b DEF NextStep, CallOK, Inserting
    <3>2. CASE call[c].kind = "extract"
      <4>1. EDF \in NameOrNone /\ EDF \in Names \ {"PENDING", NoName}
            /\ "end" \in Goals
        BY SomeNames DEF Goals
      <4>a. Transit(c, EDF, "end")
        BY <2>18, <3>2 DEF NextStep
      <4>b. [call[c] EXCEPT !.at = "get", !.want = EDF, !.goal = "end",
                            !.read = NoName] \in CallRecords
        BY <2>a, <4>1, SomeNames DEF CallRecords, Places
      <4>2. /\ call'[c] = [call[c] EXCEPT !.at = "get", !.want = EDF,
                              !.goal = "end", !.read = NoName]
            /\ \A d \in Calls \ {c} : call'[d] = call[d]
        BY <2>a, <4>b, <4>a, Update DEF Transit
      <4>3. CallOK(c)' /\ (Inserting(c)' <=> Inserting(c))
        BY <2>18, <2>e, <3>1, <4>1, <4>2 DEF NextStep
      <4>4. QED
        BY <3>1, <4>2, <4>3, Carry
    <3>3. CASE call[c].kind # "extract"
      <4>1. call'[c] = Idle /\ \A d \in Calls \ {c} : call'[d] = call[d]
        BY <2>18, <2>a, <3>3, EndsTyped DEF NextStep
      <4>2. CallOK(c)' /\ ~Inserting(c)'
        BY <4>1, Restarted
      <4>3. QED
        BY <3>1, <4>1, <4>2, Carry
    <3>4. QED
      BY <3>2, <3>3
  <2>19. ASSUME NEW c \in Calls, NextStepRefused(c) PROVE PipelineInv'
    <3>1. call'[c] = Idle /\ \A d \in Calls \ {c} : call'[d] = call[d]
      BY <2>19, <2>a, EndsTyped DEF NextStepRefused
    <3>2. CallOK(c)' /\ ~Inserting(c)'
      BY <3>1, Restarted
    <3>3. ~Inserting(c)
      BY <2>19, <2>b DEF NextStepRefused, CallOK, Inserting
    <3>4. QED
      BY <2>19, <2>d, <3>1, <3>2, <3>3 DEF NextStepRefused
  <2>20. ASSUME NEW c \in Calls, Dies(c) PROVE PipelineInv'
    <3>1. /\ call'[c] = Idle \/ \E n \in 0..Attempts : call'[c] = InsertJob(n)
          /\ \A d \in Calls \ {c} : call'[d] = call[d]
      <4>1. Becomes(c, InsertJob(call[c].left)) \/ Ends(c)
        BY <2>20 DEF Dies
      <4>2. call[c].left \in 0..Attempts
        BY <2>a DEF CallRecords
      <4>3. InsertJob(call[c].left) \in CallRecords
        BY <4>2, InsertRecord
      <4>4. QED
        BY <2>a, <4>1, <4>2, <4>3, Update, EndsTyped
    <3>2. CallOK(c)' /\ ~Inserting(c)'
      BY <3>1, Restarted
    <3>3. name' = name /\ abandoned' = (abandoned \/ Inserting(c))
      BY <2>20 DEF Dies
    <3>4. \A q \in 1..4 : jobs'[q] > 0 => name' # NoName
      <4>1. CASE UNCHANGED jobs
        BY <2>c, <3>3, <4>1
      <4>2. CASE ~UNCHANGED jobs
        <5>1. call[c].kind \in {"validate", "solvency", "extract"}
          BY <2>20, <4>2 DEF Dies, QueueOf
        <5>2. call[c].at \notin {"idle", "check", "create"}
          BY <2>b, <5>1 DEF CallOK
        <5>3. name # NoName
          BY <2>b, <5>2 DEF CallOK
        <5>4. QED
          BY <3>3, <5>3
      <4>3. QED
        BY <4>1, <4>2
    <3>5. QED
      BY <3>1, <3>2, <3>3, <3>4, Carry
  <2>21. CASE InitialPetition
    <3>1. /\ UNCHANGED <<name, call, abandoned>>
          /\ \A q \in 1..4 : jobs'[q] > 0 => name # NoName
      BY <2>21, <2>l DEF InitialPetition
    <3>2. QED
      BY <3>1 DEF PipelineInv, CallOK, InsertedOnce, PendingIsBeingSent,
                  Inserting, canTransition
  <2>22. CASE UNCHANGED vars
    BY <2>22 DEF vars, PipelineInv, CallOK, InsertedOnce, PendingIsBeingSent,
                 Inserting, canTransition
  <2>23. QED
    BY <2>1, <2>2, <2>3, <2>4, <2>5, <2>6, <2>7, <2>8, <2>9, <2>10, <2>11,
       <2>12, <2>13, <2>14, <2>15, <2>16, <2>17, <2>18, <2>19, <2>20, <2>21,
       <2>22 DEF Next
<1>3. QED
  BY <1>1, <1>2, TypeCorrect, PTL DEF Spec

-----------------------------------------------------------------------------
\* Racing inserts of one lawsuit, their retries and restarts: one of them
\* sends it, and only an abandoned one leaves it at PENDING.
THEOREM Insertion == Spec => [](PendingIsBeingSent /\ InsertedOnce)
<1>1. PipelineInv => PendingIsBeingSent /\ InsertedOnce
  BY DEF PipelineInv
<1>2. QED
  BY <1>1, Inductive, PTL

\* However many producers queue the lawsuit, and however often their jobs are
\* run again, no two of them are on the way to the scraper at once.
THEOREM Once == Spec => []InsertedOnce
  BY Insertion, PTL

\* Every change of the status is in the table, whatever calls race for it,
\* but for the update of an unchanged name that is not a compare-and-set.
THEOREM Table == Spec => AllowedUnlessSameName
<1>1. /\ TypeOK /\ PipelineInv /\ [Next]_vars
      => [Allowed \/ StaleSameName]_name
  <2> SUFFICES ASSUME TypeOK, PipelineInv, [Next]_vars, name' # name
               PROVE  Allowed \/ StaleSameName
    OBVIOUS
  <2>a. call \in [Calls -> CallRecords]
    BY DEF TypeOK
  <2>1. ASSUME NEW c \in Calls, CreateLawsuit(c)
        PROVE  Allowed \/ StaleSameName
    <3>1. name = NoName /\ name' = "PENDING"
      BY <2>1 DEF CreateLawsuit
    <3>2. QED
      BY <3>1 DEF Allowed
  <2>2. ASSUME NEW c \in Calls, TransitionPut(c)
        PROVE  Allowed \/ StaleSameName
    <3>1. /\ call[c].at = "put"
          /\ SameName(c) \/ name = call[c].read
          /\ call[c].want # NoName /\ name' = call[c].want
          /\ Resolves(c)
      BY <2>2 DEF TransitionPut
    <3>2. call[c].read \in Names /\ canTransition(call[c].read, call[c].want)
      BY <3>1 DEF PipelineInv, CallOK
    <3>3. CASE SameName(c)
      <4>1. call[c].want = call[c].read /\ call[c].read # name
        BY <3>1, <3>3 DEF SameName
      <4>2. {"post", "enqueue"} \subseteq Places
        BY DEF Places
      <4>3. Goes(c, "post") \/ Goes(c, "enqueue") \/ Ends(c)
        BY <3>1 DEF Resolves
      <4>4. \/ call'[c] = [call[c] EXCEPT !.at = "post"]
            \/ call'[c] = [call[c] EXCEPT !.at = "enqueue"]
            \/ call'[c] = Idle
        BY <2>a, <4>2, <4>3, GoesTyped, EndsTyped
      <4>5. call'[c].at # "put"
        BY <2>a, <4>4 DEF CallRecords, Idle
      <4>6. QED
        BY <3>1, <4>1, <4>5 DEF StaleSameName
    <3>4. CASE ~SameName(c)
      <4>1. name = call[c].read /\ call[c].want # call[c].read
        BY <3>1, <3>4 DEF SameName
      <4>2. call[c].want \in ALLOWED_TRANSITIONS[name]
        BY <3>1, <3>2, <4>1 DEF canTransition
      <4>3. name # NoName
        BY <3>2, <4>1 DEF Names, NoName, PWM, PWD, EMF, EDF, WAITDOC, WMAIN
      <4>4. QED
        BY <3>1, <4>2, <4>3 DEF Allowed
    <3>5. QED
      BY <3>3, <3>4
  <2>3. \/ \E c \in Calls : CreateLawsuit(c)
        \/ \E c \in Calls : TransitionPut(c)
    BY DEF Next, vars, StartInsert, CheckExists, CreateDecision, PostTaken,
           PostKnown, PostRefused, TransitionGet, Relist, RevalidateLoss,
           Rerun, Validate, Solvency, Extract, ExtractedNothing,
           ExtractedSome, NextStep, NextStepRefused, Dies, InitialPetition
  <2>4. QED
    BY <2>1, <2>2, <2>3
<1>2. QED
  BY <1>1, TypeCorrect, Inductive, PTL DEF Spec, AllowedUnlessSameName

-----------------------------------------------------------------------------
(* The refinement of StatusGraph: what is held only grows by a findById.   *)

\* A call that changes without coming to its update holds nothing new.
LEMMA HeldShrinks ==
    ASSUME NEW c \in Calls, \A d \in Calls \ {c} : call'[d] = call[d],
           call'[c].at # "put"
    PROVE  Held' \in SUBSET Held
  BY DEF Held

\* A call that has read the status holds it, and drops nothing others hold.
LEMMA HeldGrows ==
    ASSUME NEW c \in Calls, \A d \in Calls \ {c} : call'[d] = call[d],
           call[c].at # "put", call'[c].at = "put"
    PROVE  Held' = Held \cup {call'[c].read}
  BY DEF Held

\* A step that writes a place of its own into a call leaves the call there.
LEMMA LeavesReleases ==
    ASSUME call \in [Calls -> CallRecords], NEW c \in Calls,
           NEW r \in CallRecords, r.at # "put", Becomes(c, r)
    PROVE  Held' \in SUBSET Held
  BY Update, HeldShrinks

LEMMA GoesReleases ==
    ASSUME call \in [Calls -> CallRecords], NEW c \in Calls,
           NEW p \in Places \ {"put"}, Goes(c, p)
    PROVE  Held' \in SUBSET Held
<1>1. /\ call'[c] = [call[c] EXCEPT !.at = p]
      /\ \A d \in Calls \ {c} : call'[d] = call[d]
  BY GoesTyped
<1>2. call'[c].at # "put"
  BY <1>1 DEF CallRecords
<1>3. QED
  BY <1>1, <1>2, HeldShrinks

LEMMA EndsReleases ==
    ASSUME call \in [Calls -> CallRecords], NEW c \in Calls, Ends(c)
    PROVE  Held' \in SUBSET Held
<1>1. call'[c].at = "idle"
  BY EndsTyped DEF Idle
<1>2. QED
  BY <1>1, EndsTyped, HeldShrinks

LEMMA BeginsReleases ==
    ASSUME call \in [Calls -> CallRecords], NEW c \in Calls, NEW k \in Kinds,
           NEW docs \in BOOLEAN, NEW n \in NameOrNone, NEW g \in Goals,
           NEW q \in 0..4, Begins(c, k, docs, n, g, q)
    PROVE  Held' \in SUBSET Held
<1> DEFINE r == [Idle EXCEPT !.kind = k, !.at = "get", !.docs = docs,
                             !.want = n, !.goal = g, !.next = q]
<1>1. "get" \in Places
  BY DEF Places
<1>2. r \in CallRecords /\ r.at # "put"
  BY <1>1, IdleRecord DEF CallRecords
<1>3. Becomes(c, r)
  BY DEF Begins
<1> HIDE DEF r
<1>4. QED
  BY <1>2, <1>3, LeavesReleases

LEMMA TransitReleases ==
    ASSUME call \in [Calls -> CallRecords], NEW c \in Calls,
           NEW n \in NameOrNone, NEW g \in Goals, Transit(c, n, g)
    PROVE  Held' \in SUBSET Held
<1> DEFINE r == [call[c] EXCEPT !.at = "get", !.want = n, !.goal = g,
                                !.read = NoName]
<1>1. r \in CallRecords /\ r.at # "put"
  BY SomeNames DEF CallRecords, Places
<1>2. Becomes(c, r)
  BY DEF Transit
<1> HIDE DEF r
<1>3. QED
  BY <1>1, <1>2, LeavesReleases

LEMMA RejectsReleases ==
    ASSUME TypeOK, NEW c \in Calls, Rejects(c)
    PROVE  Held' \in SUBSET Held
<1>1. /\ call'[c] = Idle \/ \E n \in 0..Attempts : call'[c] = InsertJob(n)
      /\ \A d \in Calls \ {c} : call'[d] = call[d]
  BY RejectsTyped
<1>2. Idle.at = "idle" /\ \A n : InsertJob(n).at = "check"
  BY DEF Idle, InsertJob
<1>3. QED
  BY <1>1, <1>2, HeldShrinks

LEMMA ThrowsReleases ==
    ASSUME TypeOK, NEW c \in Calls, Throws(c)
    PROVE  Held' \in SUBSET Held
<1>1. "ERROR" \in NameOrNone /\ "end" \in Goals
  BY SomeNames DEF Goals
<1>2. QED
  BY <1>1, TransitReleases, RejectsReleases DEF Throws, TypeOK

LEMMA ResolvesReleases ==
    ASSUME call \in [Calls -> CallRecords], NEW c \in Calls, Resolves(c)
    PROVE  Held' \in SUBSET Held
<1>1. {"post", "enqueue"} \subseteq Places \ {"put"}
  BY DEF Places
<1>2. Goes(c, "post") \/ Goes(c, "enqueue") \/ Ends(c)
  BY DEF Resolves
<1>3. QED
  BY <1>1, <1>2, GoesReleases, EndsReleases

\* The handlers' own steps, which leave the status alone, hold nothing new.
LEMMA HandlersRelease ==
    ASSUME TypeOK, NEW c \in Calls,
           \/ StartInsert(c) \/ CheckExists(c) \/ CreateDecision(c)
           \/ PostTaken(c) \/ PostKnown(c) \/ PostRefused(c)
           \/ Relist(c) \/ RevalidateLoss(c) \/ Rerun(c)
           \/ Validate(c) \/ Solvency(c) \/ Extract(c)
           \/ ExtractedNothing(c) \/ ExtractedSome(c)
           \/ NextStep(c) \/ NextStepRefused(c) \/ Dies(c)
    PROVE  Held' \in SUBSET Held /\ UNCHANGED name
<1>a. call \in [Calls -> CallRecords] /\ call[c] \in CallRecords
  BY DEF TypeOK
<1>b. /\ {"create", "decide", "post"} \subseteq Places \ {"put"}
      /\ {"relist", "loss", "rerun", "validate", "solvency"} \subseteq Kinds
      /\ {"resend", "enqueue", "end"} \subseteq Goals
      /\ 0 \in 0..4 /\ 2 \in 0..4 /\ 1..4 \subseteq 0..4
  BY DEF Places, Kinds, Goals
<1>c. /\ \A docs : Sent(docs) \in NameOrNone
      /\ {EMF, EDF, WAITDOC, "ERROR", NoName} \subseteq NameOrNone
  BY SomeNames
<1>d. \A n \in 0..Attempts : Becomes(c, InsertJob(n)) => Held' \in SUBSET Held
  BY <1>a, InsertRecord, LeavesReleases DEF InsertJob, Idle
<1>1. CASE StartInsert(c)
  <2>1. {1, Attempts} \subseteq 0..Attempts
    BY AttemptsAssumption
  <2>2. QED
    BY <1>1, <1>d, <2>1 DEF StartInsert
<1>2. CASE CheckExists(c) \/ CreateDecision(c)
  BY <1>2, <1>a, <1>b, GoesReleases, EndsReleases
     DEF CheckExists, CreateDecision
<1>3. CASE PostTaken(c)
  <2> DEFINE r == [call[c] EXCEPT !.at = "get", !.want = Sent(call[c].docs),
                                  !.goal = "sent", !.read = NoName,
                                  !.taken = TRUE]
  <2>1. r \in CallRecords /\ r.at # "put"
    BY <1>a, <1>c DEF CallRecords, Places, Goals
  <2>2. Becomes(c, r) /\ UNCHANGED name
    BY <1>3 DEF PostTaken
  <2> HIDE DEF r
  <2>3. QED
    BY <1>a, <2>1, <2>2, LeavesReleases
<1>4. CASE PostKnown(c) \/ PostRefused(c) \/ ExtractedNothing(c)
  BY <1>4, <1>a, <1>b, <1>c, TransitReleases
     DEF PostKnown, PostRefused, ExtractedNothing
<1>5. CASE Relist(c) \/ RevalidateLoss(c)
  BY <1>5, <1>a, <1>b, <1>c, BeginsReleases DEF Relist, RevalidateLoss
<1>6. CASE Rerun(c) \/ Validate(c)
  BY <1>6, <1>a, <1>b, <1>c, BeginsReleases DEF Rerun, Validate
<1>7. CASE Solvency(c)
  <2> DEFINE target == IF name = PWM THEN EMF ELSE WAITDOC
  <2>1. target \in NameOrNone
    BY <1>c
  <2>2. Begins(c, "solvency", FALSE, target, "end", 0) /\ UNCHANGED name
    BY <1>7 DEF Solvency
  <2> HIDE DEF target
  <2>3. QED
    BY <1>a, <1>b, <2>1, <2>2, BeginsReleases
<1>8. CASE Extract(c)
  <2>1. /\ [Idle EXCEPT !.kind = "extract", !.at = "vertex"] \in CallRecords
        /\ [Idle EXCEPT !.kind = "extract", !.at = "vertex"].at # "put"
    BY IdleRecord DEF CallRecords, Kinds, Places
  <2>2. QED
    BY <1>8, <1>a, <2>1, LeavesReleases DEF Extract
<1>9. CASE ExtractedSome(c)
  <2>1. "enqueue" \in Places /\ 4 \in 0..4
    BY DEF Places
  <2>2. /\ [call[c] EXCEPT !.at = "enqueue", !.next = 4] \in CallRecords
        /\ [call[c] EXCEPT !.at = "enqueue", !.next = 4].at # "put"
    BY <1>a, <2>1 DEF CallRecords
  <2>3. QED
    BY <1>9, <1>a, <2>2, LeavesReleases DEF ExtractedSome
<1>10. CASE NextStep(c) \/ NextStepRefused(c)
  BY <1>10, <1>a, <1>b, <1>c, TransitReleases, EndsReleases
     DEF NextStep, NextStepRefused
<1>11. CASE Dies(c)
  <2>1. Becomes(c, InsertJob(call[c].left)) \/ Ends(c)
    BY <1>11 DEF Dies
  <2>2. call[c].left \in 0..Attempts
    BY <1>a DEF CallRecords
  <2>3. QED
    BY <1>11, <1>a, <1>d, <2>1, <2>2, EndsReleases DEF Dies
<1>12. QED
  BY <1>1, <1>2, <1>3, <1>4, <1>5, <1>6, <1>7, <1>8, <1>9, <1>10, <1>11

\* Every step of the pipeline is a step of the status graph or none.
LEMMA StepsOfTheGraph ==
    ASSUME TypeOK, PipelineInv, [Next]_vars
    PROVE  [Graph!GraphNext]_(Graph!graphVars)
<1> USE DEF Graph!GraphNext, Graph!graphVars, Graph!Releases
<1>a. call \in [Calls -> CallRecords]
  BY DEF TypeOK
<1>b. \A c \in Calls : CallOK(c)
  BY DEF PipelineInv
<1>1. ASSUME Held' \in SUBSET Held, UNCHANGED name
      PROVE  Graph!GraphNext
  BY <1>1 DEF Graph!GiveUp
<1>2. ASSUME NEW c \in Calls, CreateLawsuit(c) PROVE Graph!GraphNext
  <2>1. CASE name = NoName
    <3>1. {"decide", "post"} \subseteq Places \ {"put"}
      BY DEF Places
    <3>2. Held' \in SUBSET Held
      BY <1>2, <1>a, <2>1, <3>1, GoesReleases DEF CreateLawsuit
    <3>3. QED
      BY <1>2, <2>1, <3>2 DEF CreateLawsuit, Graph!Create
  <2>2. CASE name # NoName
    BY <1>1, <1>2, <2>2, RejectsReleases DEF CreateLawsuit
  <2>3. QED
    BY <2>1, <2>2
<1>3. ASSUME NEW c \in Calls, TransitionGet(c) PROVE Graph!GraphNext
  <2>1. name \in Names /\ UNCHANGED name /\ call[c].at = "get"
    BY <1>3, <1>b DEF TransitionGet, CallOK, TypeOK, NameOrNone
  <2>2. CASE canTransition(name, call[c].want)
    <3>1. [call[c] EXCEPT !.at = "put", !.read = name] \in CallRecords
      BY <1>a DEF CallRecords, Places, TypeOK
    <3>2. Becomes(c, [call[c] EXCEPT !.at = "put", !.read = name])
      BY <1>3, <2>2 DEF TransitionGet
    <3>3. /\ call'[c] = [call[c] EXCEPT !.at = "put", !.read = name]
          /\ \A d \in Calls \ {c} : call'[d] = call[d]
      BY <1>a, <3>1, <3>2, Update
    <3>4. call'[c].at = "put" /\ call'[c].read = name
      BY <1>a, <3>3 DEF CallRecords
    <3>5. Held' = Held \cup {name}
      BY <2>1, <3>3, <3>4, HeldGrows
    <3>6. QED
      BY <2>1, <3>5 DEF Graph!Read
  <2>3. CASE ~canTransition(name, call[c].want)
    BY <1>1, <1>3, <2>3, ThrowsReleases DEF TransitionGet
  <2>4. QED
    BY <2>2, <2>3
<1>4. ASSUME NEW c \in Calls, TransitionPut(c) PROVE Graph!GraphNext
  <2>1. /\ call[c].at = "put" /\ call[c].read \in Held
        /\ call[c].read \in Names
        /\ canTransition(call[c].read, call[c].want)
    BY <1>4, <1>b DEF TransitionPut, CallOK, Held
  <2>2. CASE SameName(c) \/ name = call[c].read
    <3>1. /\ name' = IF call[c].want = NoName THEN name ELSE call[c].want
          /\ Held' \in SUBSET Held
      BY <1>4, <1>a, <2>2, ResolvesReleases DEF TransitionPut
    <3>2. CASE call[c].want = NoName
      BY <1>1, <3>1, <3>2
    <3>3. CASE call[c].want = call[c].read
      <4>1. name' \in Held
        BY <2>1, <3>1, <3>3 DEF Names, NoName, PWM, PWD, EMF, EDF, WAITDOC,
                                WMAIN
      <4>2. QED
        BY <3>1, <4>1 DEF Graph!WriteBack
    <3>4. CASE call[c].want \notin {NoName, call[c].read}
      <4>1. name = call[c].read /\ name' = call[c].want
        BY <2>2, <3>1, <3>4 DEF SameName
      <4>2. name' \in ALLOWED_TRANSITIONS[name]
        BY <2>1, <3>4, <4>1 DEF canTransition
      <4>3. QED
        BY <2>1, <3>1, <4>1, <4>2 DEF Graph!CompareAndSet
    <3>5. QED
      BY <3>2, <3>3, <3>4
  <2>3. CASE ~(SameName(c) \/ name = call[c].read)
    BY <1>1, <1>4, <2>3, ThrowsReleases DEF TransitionPut
  <2>4. QED
    BY <2>2, <2>3
<1>5. CASE InitialPetition \/ UNCHANGED vars
  <2>1. UNCHANGED <<name, Held>>
    BY <1>5 DEF InitialPetition, vars, Held
  <2>2. QED
    BY <2>1
<1>6. QED
  BY <1>1, <1>2, <1>3, <1>4, <1>5, HandlersRelease DEF Next

\* The pipeline implements the status graph: whatever jobs, requests, retries
\* and restarts interleave, a lawsuit's status is created at PENDING, moves
\* along the table from a status that is both read and current, or is
\* written back by a call that read it, and changes in no other way.
THEOREM Refinement == Spec => ImplementsStatusGraph
<1>1. Init => Graph!GraphInit
  <2> SUFFICES ASSUME Init PROVE Graph!GraphInit
    OBVIOUS
  <2>1. \A c \in Calls : call[c].at # "put"
    BY DEF Init, Idle
  <2>2. Held = {}
    BY <2>1 DEF Held
  <2>3. QED
    BY <2>2 DEF Init, Graph!GraphInit
<1>2. TypeOK /\ PipelineInv /\ [Next]_vars
         => [Graph!GraphNext]_(Graph!graphVars)
  BY StepsOfTheGraph
<1>3. QED
  BY <1>1, <1>2, TypeCorrect, Inductive, PTL
     DEF Spec, ImplementsStatusGraph, Graph!GraphSpec
=============================================================================
