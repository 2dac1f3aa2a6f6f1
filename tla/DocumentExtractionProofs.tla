---------------------- MODULE DocumentExtractionProofs ----------------------
(* Proofs about DocumentExtraction, for any number of runs at a time and    *)
(* altogether, any clock, any number of retries and of faults.              *)
EXTENDS DocumentExtraction, TLAPS

Statuses == {"PENDING", "PROCESSING", "COMPLETED", "ERROR"}
Steps == {"idle", "begin", "upload", "ask", "save", "fail", "delete"}
Kinds == {"none", "extraction", "insights"}
RunRecords == [at : Steps, id : Nat, kind : Kinds,
               key : {"none", "uuid", "ms"} \X (Nat \cup Millis),
               tries : Nat, read : Statuses \cup {"none"}, uploaded : BOOLEAN]

ExtractionTypeOK == /\ docStatus \in Statuses
                    /\ run \in [Runs -> RunRecords]
                    /\ started \in Nat

LEMMA NoRunType == NoRun \in RunRecords /\ NoRun.at = "idle"
  BY DEF NoRun, NoKey, RunRecords, Steps, Kinds

LEMMA InitType == ExtractionInit => ExtractionTypeOK
  BY NoRunType DEF ExtractionInit, ExtractionTypeOK, Statuses

\* What the steps do to the run that takes them.
LEMMA RunEndsType ==
  ASSUME ExtractionTypeOK, NEW r \in Runs, RunEnds(r)
  PROVE  /\ run' \in [Runs -> RunRecords] /\ run'[r] = NoRun
         /\ \A q \in Runs \ {r} : run'[q] = run[q]
  BY NoRunType DEF ExtractionTypeOK, RunEnds

LEMMA RunAtType ==
  ASSUME ExtractionTypeOK, NEW r \in Runs, NEW step \in Steps, RunAt(r, step)
  PROVE  /\ run' \in [Runs -> RunRecords] /\ run'[r].at = step
         /\ run'[r].key = run[r].key /\ run'[r].read = run[r].read
         /\ \A q \in Runs \ {r} : run'[q] = run[q]
  <1>1. run[r] \in RunRecords
    BY DEF ExtractionTypeOK
  <1>2. [run[r] EXCEPT !.at = step, !.tries = 1] \in RunRecords
    BY <1>1 DEF RunRecords
  <1>3. /\ [run[r] EXCEPT !.at = step, !.tries = 1].key = run[r].key
        /\ [run[r] EXCEPT !.at = step, !.tries = 1].at = step
        /\ [run[r] EXCEPT !.at = step, !.tries = 1].read = run[r].read
    BY <1>1 DEF RunRecords
  <1>4. run' = [run EXCEPT ![r] = [run[r] EXCEPT !.at = step, !.tries = 1]]
    BY DEF ExtractionTypeOK, RunAt
  <1>5. QED
    BY <1>2, <1>3, <1>4 DEF ExtractionTypeOK

LEMMA RetriesType ==
  ASSUME ExtractionTypeOK, NEW r \in Runs, Retries(r), run[r].at = "ask"
  PROVE  /\ run' \in [Runs -> RunRecords] /\ run'[r].at \in {"ask", "fail"}
         /\ run'[r].key = run[r].key /\ run'[r].read = run[r].read
         /\ \A q \in Runs \ {r} : run'[q] = run[q]
  <1>1. CASE run[r].tries < VertexTries
    BY <1>1 DEF Retries, ExtractionTypeOK, RunRecords
  <1>2. CASE ~(run[r].tries < VertexTries)
    BY <1>2, RunAtType DEF Retries, Steps
  <1>3. QED
    BY <1>1, <1>2

LEMMA StartRunType ==
  ASSUME ExtractionTypeOK, NEW r \in Runs, StartRun(r)
  PROVE  /\ run' \in [Runs -> RunRecords] /\ run'[r].at = "begin"
         /\ run'[r].id = started + 1 /\ run'[r].kind # "none"
         /\ run[r].at = "idle" /\ started' = started + 1
         /\ \A q \in Runs \ {r} : run'[q] = run[q]
  <1>1. PICK kind \in {"extraction", "insights"} :
          run' = [run EXCEPT ![r] = [NoRun EXCEPT !.at = "begin", !.kind = kind,
                                 !.id = started + 1, !.read = docStatus]]
    BY DEF StartRun
  <1> DEFINE new == [NoRun EXCEPT !.at = "begin", !.kind = kind,
                              !.id = started + 1, !.read = docStatus]
  <1>2. new \in RunRecords
    <2>1. \A k \in Kinds, i \in Nat, d \in Statuses :
            [NoRun EXCEPT !.at = "begin", !.kind = k, !.id = i, !.read = d]
              \in RunRecords
      BY NoRunType DEF RunRecords, Steps
    <2>2. kind \in Kinds /\ started + 1 \in Nat /\ docStatus \in Statuses
      BY DEF Kinds, ExtractionTypeOK
    <2>3. QED
      BY <2>1, <2>2
  <1>3. new.at = "begin" /\ new.id = started + 1 /\ new.kind = kind
    BY DEF NoRun
  <1>4. QED
    BY <1>1, <1>2, <1>3 DEF StartRun, ExtractionTypeOK

LEMMA BeginRunType ==
  ASSUME ExtractionTypeOK, NEW r \in Runs, BeginRun(r)
  PROVE  /\ run' \in [Runs -> RunRecords]
         /\ \A q \in Runs \ {r} : run'[q] = run[q]
         /\ \/ run'[r] = NoRun /\ docStatus' = docStatus
                 /\ abandoned' = abandoned /\ collided' = collided \ {r}
            \/ run'[r] = NoRun /\ docStatus' = "PROCESSING" /\ abandoned' = TRUE
                 /\ collided' = collided \ {r}
            \/ /\ run'[r].at = "upload" /\ docStatus' = "PROCESSING"
               /\ run'[r].read = "none" /\ ~Skips(r)
               /\ \E ms \in Millis :
                    /\ run'[r].key = GsKey(r, ms)
                    /\ LET same == {q \in Active : run[q].key = GsKey(r, ms)} IN
                         collided' = IF run[r].kind = "insights" /\ same # {}
                                     THEN collided \cup same \cup {r} ELSE collided
  <1>1. CASE RunEnds(r) /\ UNCHANGED <<docStatus, abandoned>>
    BY <1>1, RunEndsType DEF RunEnds
  <1>2. CASE RunEnds(r) /\ docStatus' = "PROCESSING" /\ abandoned' = TRUE
    BY <1>2, RunEndsType DEF RunEnds
  <1>3. ASSUME NEW ms \in Millis,
               run' = [run EXCEPT ![r] = [NoRun EXCEPT !.at = "upload",
                           !.kind = run[r].kind, !.key = GsKey(r, ms)]]
        PROVE  /\ run' \in [Runs -> RunRecords] /\ run'[r].at = "upload"
               /\ run'[r].key = GsKey(r, ms) /\ run'[r].read = "none"
               /\ \A q \in Runs \ {r} : run'[q] = run[q]
    <2> DEFINE new == [NoRun EXCEPT !.at = "upload", !.kind = run[r].kind,
                                !.key = GsKey(r, ms)]
    <2>1. run[r].id \in Nat /\ run[r].kind \in Kinds
      BY DEF ExtractionTypeOK, RunRecords
    <2>2. GsKey(r, ms) \in {"none", "uuid", "ms"} \X (Nat \cup Millis)
      BY <2>1 DEF GsKey
    <2>3. \A kind \in Kinds, key \in {"none", "uuid", "ms"} \X (Nat \cup Millis) :
            [NoRun EXCEPT !.at = "upload", !.kind = kind, !.key = key] \in RunRecords
      BY NoRunType DEF RunRecords, Steps
    <2>4. new \in RunRecords
      BY <2>1, <2>2, <2>3
    <2>5. new.at = "upload" /\ new.key = GsKey(r, ms) /\ new.read = "none"
      BY DEF NoRun
    <2>6. QED
      BY <1>3, <2>4, <2>5 DEF ExtractionTypeOK
  <1>4. CASE /\ ~Skips(r)
             /\ docStatus' = "PROCESSING"
             /\ \E ms \in Millis :
                   LET key == GsKey(r, ms)
                       same == {q \in Active : run[q].key = key} IN
                   /\ run' = [run EXCEPT ![r] = [NoRun EXCEPT !.at = "upload",
                                      !.kind = run[r].kind, !.key = key]]
                   /\ collided' = IF run[r].kind = "insights" /\ same # {}
                                  THEN collided \cup same \cup {r} ELSE collided
    BY <1>3, <1>4
  <1>5. QED
    BY <1>1, <1>2, <1>4 DEF BeginRun

LEMMA UploadType ==
  ASSUME ExtractionTypeOK, NEW r \in Runs, Upload(r)
  PROVE  /\ run' \in [Runs -> RunRecords] /\ run'[r].key = run[r].key
         /\ run'[r].read = run[r].read
         /\ \A q \in Runs \ {r} : run'[q] = run[q]
         /\ bucket \subseteq bucket'
         /\ \/ run'[r].at = "ask" /\ run[r].key \in bucket'
            \/ run'[r].at = "fail"
  <1>1. ASSUME run' = [run EXCEPT ![r].at = "ask", ![r].uploaded = TRUE]
        PROVE  /\ run' \in [Runs -> RunRecords] /\ run'[r].key = run[r].key
               /\ run'[r].at = "ask" /\ run'[r].read = run[r].read
               /\ \A q \in Runs \ {r} : run'[q] = run[q]
    <2>1. run[r] \in RunRecords
      BY DEF ExtractionTypeOK
    <2>2. [run[r] EXCEPT !.at = "ask", !.uploaded = TRUE] \in RunRecords
      BY <2>1 DEF RunRecords, Steps
    <2>3. /\ [run[r] EXCEPT !.at = "ask", !.uploaded = TRUE].key = run[r].key
          /\ [run[r] EXCEPT !.at = "ask", !.uploaded = TRUE].at = "ask"
          /\ [run[r] EXCEPT !.at = "ask", !.uploaded = TRUE].read = run[r].read
      BY <2>1 DEF RunRecords
    <2>4. run' = [run EXCEPT ![r] = [run[r] EXCEPT !.at = "ask", !.uploaded = TRUE]]
      BY <1>1 DEF ExtractionTypeOK
    <2>5. QED
      BY <2>2, <2>3, <2>4 DEF ExtractionTypeOK
  <1>2. QED
    BY <1>1, RunAtType DEF Upload, Steps

LEMMA NextType ==
  ExtractionTypeOK /\ [ExtractionNext]_docVars => ExtractionTypeOK'
  <1> SUFFICES ASSUME ExtractionTypeOK, [ExtractionNext]_docVars
               PROVE  ExtractionTypeOK'
    OBVIOUS
  <1>1. ASSUME NEW r \in Runs, StartRun(r) PROVE ExtractionTypeOK'
    <2>1. run' \in [Runs -> RunRecords] /\ started' = started + 1
      BY <1>1, StartRunType
    <2>2. docStatus' = docStatus
      BY <1>1 DEF StartRun
    <2>3. QED
      BY <2>1, <2>2 DEF ExtractionTypeOK
  <1>2. ASSUME NEW r \in Runs, BeginRun(r) PROVE ExtractionTypeOK'
    BY <1>2, BeginRunType DEF BeginRun, ExtractionTypeOK, Statuses
  <1>3. ASSUME NEW r \in Runs, Upload(r) PROVE ExtractionTypeOK'
    BY <1>3, UploadType DEF Upload, ExtractionTypeOK
  <1>4. ASSUME NEW r \in Runs, AskVertex(r) PROVE ExtractionTypeOK'
    BY <1>4, RunAtType, RetriesType DEF AskVertex, ExtractionTypeOK, Steps
  <1>5. ASSUME NEW r \in Runs, SaveAnswer(r) PROVE ExtractionTypeOK'
    BY <1>5, RunAtType DEF SaveAnswer, ExtractionTypeOK, Steps, Statuses
  <1>6. ASSUME NEW r \in Runs, FailRun(r) PROVE ExtractionTypeOK'
    BY <1>6, RunAtType DEF FailRun, ExtractionTypeOK, Steps, Statuses
  <1>7. ASSUME NEW r \in Runs, DeleteObject(r) \/ RunStops(r)
        PROVE  ExtractionTypeOK'
    BY <1>7, RunEndsType DEF DeleteObject, RunStops, ExtractionTypeOK
  <1>8. CASE DeleteInsights
    BY <1>8 DEF DeleteInsights, ExtractionTypeOK, Statuses
  <1>9. CASE UNCHANGED docVars
    BY <1>9 DEF docVars, ExtractionTypeOK
  <1>10. QED
    BY <1>1, <1>2, <1>3, <1>4, <1>5, <1>6, <1>7, <1>8, <1>9
       DEF ExtractionNext, RunSteps

LEMMA TypeCorrect == ExtractionSpec => []ExtractionTypeOK
  BY InitType, NextType, PTL DEF ExtractionSpec

-----------------------------------------------------------------------------
(* ProcessingIsWorkedOn is inductive beside the types.                     *)

WorkedOn(r) == run[r].at \in {"upload", "ask", "save", "fail"}

\* A run that goes from one step of the work to another leaves it worked on.
LEMMA StillWorked ==
  ASSUME ProcessingIsWorkedOn, NEW r \in Runs, WorkedOn(r)', docStatus' = docStatus,
         abandoned' = abandoned, \A q \in Runs \ {r} : run'[q] = run[q]
  PROVE  ProcessingIsWorkedOn'
  BY DEF ProcessingIsWorkedOn, WorkedOn

LEMMA WorkedStep ==
  ExtractionTypeOK /\ ProcessingIsWorkedOn /\ [ExtractionNext]_docVars
    => ProcessingIsWorkedOn'
  <1> SUFFICES ASSUME ExtractionTypeOK, ProcessingIsWorkedOn,
                      [ExtractionNext]_docVars
               PROVE  ProcessingIsWorkedOn'
    OBVIOUS
  <1>1. ASSUME NEW r \in Runs, StartRun(r) PROVE ProcessingIsWorkedOn'
    BY <1>1, StartRunType DEF StartRun, ProcessingIsWorkedOn
  <1>2. ASSUME NEW r \in Runs, BeginRun(r) PROVE ProcessingIsWorkedOn'
    <2>1. run[r].at = "begin"
      BY <1>2 DEF BeginRun
    <2>2. CASE run'[r] = NoRun /\ docStatus' = docStatus /\ abandoned' = abandoned
      BY <1>2, <2>1, <2>2, BeginRunType DEF ProcessingIsWorkedOn
    <2>3. CASE abandoned' = TRUE
      BY <2>3 DEF ProcessingIsWorkedOn
    <2>4. CASE run'[r].at = "upload"
      BY <2>4 DEF ProcessingIsWorkedOn
    <2>5. QED
      BY <1>2, <2>2, <2>3, <2>4, BeginRunType
  <1>3. ASSUME NEW r \in Runs, Upload(r) PROVE ProcessingIsWorkedOn'
    BY <1>3, UploadType, StillWorked DEF Upload, WorkedOn
  <1>4. ASSUME NEW r \in Runs, AskVertex(r) PROVE ProcessingIsWorkedOn'
    BY <1>4, RunAtType, RetriesType, StillWorked DEF AskVertex, WorkedOn, Steps
  <1>5. ASSUME NEW r \in Runs, SaveAnswer(r) \/ FailRun(r)
        PROVE  ProcessingIsWorkedOn'
    BY <1>5 DEF SaveAnswer, FailRun, ProcessingIsWorkedOn
  <1>6. ASSUME NEW r \in Runs, DeleteObject(r) PROVE ProcessingIsWorkedOn'
    BY <1>6, RunEndsType DEF DeleteObject, ProcessingIsWorkedOn
  <1>7. ASSUME NEW r \in Runs, RunStops(r) PROVE ProcessingIsWorkedOn'
    BY <1>7, RunEndsType DEF RunStops, ProcessingIsWorkedOn
  <1>8. CASE DeleteInsights
    BY <1>8 DEF DeleteInsights, ProcessingIsWorkedOn
  <1>9. CASE UNCHANGED docVars
    BY <1>9 DEF docVars, ProcessingIsWorkedOn
  <1>10. QED
    BY <1>1, <1>2, <1>3, <1>4, <1>5, <1>6, <1>7, <1>8, <1>9
       DEF ExtractionNext, RunSteps

\* A document is PROCESSING only while a run works on it, however many runs
\* begin and end meanwhile, unless one of them stopped half-way.
THEOREM Working == ExtractionSpec => []ProcessingIsWorkedOn
  <1>1. ExtractionInit => ProcessingIsWorkedOn
    BY DEF ExtractionInit, ProcessingIsWorkedOn
  <1>2. QED
    BY <1>1, WorkedStep, TypeCorrect, PTL DEF ExtractionSpec

-----------------------------------------------------------------------------
(* ObjectIsThere, strengthened: the names of the objects are apart.  A run  *)
(* that has not named its object has an id of its own, which no UUID has;   *)
(* two runs with one name are both among those that collided.              *)

Named(r) == run[r].at \notin {"idle", "begin"}

FreshIds ==
    /\ \A r \in Runs : run[r].at = "begin" =>
           run[r].kind # "none" /\ run[r].id <= started
    /\ \A r, q \in Runs :
           run[r].at = "begin" /\ run[q].at = "begin" /\ r # q =>
               run[r].id # run[q].id

NamesApart ==
    /\ \A r \in Runs, n \in Nat :
           Named(r) /\ run[r].key = <<"uuid", n>> =>
               /\ n <= started
               /\ \A q \in Runs : run[q].at = "begin" => run[q].id # n
    /\ \A r, q \in Runs :
           Named(r) /\ Named(q) /\ r # q /\ run[r].key = run[q].key => r \in collided

ObjectInv == ExtractionTypeOK /\ FreshIds /\ NamesApart /\ ObjectIsThere

LEMMA ObjectInit == ExtractionInit => ObjectInv
  <1> SUFFICES ASSUME ExtractionInit PROVE ObjectInv
    OBVIOUS
  <1>1. \A r \in Runs : run[r].at = "idle"
    BY DEF ExtractionInit, NoRun
  <1>2. QED
    BY <1>1, InitType DEF ObjectInv, FreshIds, NamesApart, ObjectIsThere, Named

\* A run that has a name goes on under it, and the others do nothing.
LEMMA ObjectGoesOn ==
  ASSUME ObjectInv, NEW r \in Runs, Named(r), Named(r)',
         run' \in [Runs -> RunRecords], run'[r].key = run[r].key,
         \A q \in Runs \ {r} : run'[q] = run[q],
         UNCHANGED <<started, collided>>, bucket \subseteq bucket',
         run'[r].at = "ask" => run[r].key \in bucket'
  PROVE  FreshIds' /\ NamesApart' /\ ObjectIsThere'
  <1>1. FreshIds'
    BY DEF ObjectInv, FreshIds, Named
  <1>2. NamesApart'
    BY DEF ObjectInv, NamesApart, Named
  <1>3. ObjectIsThere'
    BY DEF ObjectInv, ObjectIsThere
  <1>4. QED
    BY <1>1, <1>2, <1>3

\* A run ends, and takes the object of its name with it, or leaves it.
LEMMA ObjectEnds ==
  ASSUME ObjectInv, NEW r \in Runs, run[r].at # "idle",
         run'[r] = NoRun, \A q \in Runs \ {r} : run'[q] = run[q],
         started' = started, collided' = collided \ {r},
         \/ bucket' = bucket
         \/ Named(r) /\ bucket' = bucket \ {run[r].key}
  PROVE  FreshIds' /\ NamesApart' /\ ObjectIsThere'
  <1>1. run'[r].at = "idle"
    BY NoRunType
  <1>2. FreshIds'
    BY <1>1 DEF ObjectInv, FreshIds
  <1>3. NamesApart'
    BY <1>1 DEF ObjectInv, NamesApart, Named
  <1>4. ObjectIsThere'
    <2> SUFFICES ASSUME NEW q \in Runs, q \notin collided', run'[q].at = "ask"
                 PROVE  run'[q].key \in bucket'
      BY DEF ObjectIsThere
    <2>1. q # r /\ run'[q] = run[q]
      BY <1>1
    <2>2. q \notin collided /\ run[q].key \in bucket /\ Named(q)
      BY <2>1 DEF ObjectInv, ObjectIsThere, Named
    <2>3. Named(r) => run[q].key # run[r].key
      BY <2>1, <2>2 DEF ObjectInv, NamesApart
    <2>4. QED
      BY <2>1, <2>2, <2>3
  <1>5. QED
    BY <1>2, <1>3, <1>4

LEMMA ObjectStart ==
  ASSUME ObjectInv, NEW r \in Runs, StartRun(r)
  PROVE  FreshIds' /\ NamesApart' /\ ObjectIsThere'
  <1>1. /\ run'[r].at = "begin" /\ run'[r].id = started + 1
        /\ run'[r].kind # "none" /\ started' = started + 1 /\ started \in Nat
        /\ \A q \in Runs \ {r} : run'[q] = run[q]
    BY StartRunType DEF ObjectInv, ExtractionTypeOK
  <1>2. UNCHANGED <<bucket, collided>>
    BY DEF StartRun
  <1>3. \A q \in Runs : run[q].id \in Nat
    BY DEF ObjectInv, ExtractionTypeOK, RunRecords
  <1>4. FreshIds'
    BY <1>1, <1>3 DEF ObjectInv, FreshIds
  <1>5. NamesApart'
    BY <1>1, <1>2, <1>3 DEF ObjectInv, NamesApart, Named
  <1>6. ObjectIsThere'
    BY <1>1, <1>2 DEF ObjectInv, ObjectIsThere
  <1>7. QED
    BY <1>4, <1>5, <1>6

LEMMA ObjectBegin ==
  ASSUME ObjectInv, NEW r \in Runs, BeginRun(r)
  PROVE  FreshIds' /\ NamesApart' /\ ObjectIsThere'
  <1> USE DEF ObjectInv
  <1>1. /\ run[r].at = "begin" /\ UNCHANGED <<bucket, started>>
        /\ \A q \in Runs \ {r} : run'[q] = run[q]
    BY BeginRunType DEF BeginRun
  <1>2. CASE run'[r] = NoRun /\ collided' = collided \ {r}
    BY <1>1, <1>2, ObjectEnds
  <1>3. ASSUME NEW ms \in Millis, run'[r].at = "upload",
               run'[r].key = GsKey(r, ms),
               LET same == {q \in Active : run[q].key = GsKey(r, ms)} IN
                 collided' = IF run[r].kind = "insights" /\ same # {}
                             THEN collided \cup same \cup {r} ELSE collided
        PROVE  FreshIds' /\ NamesApart' /\ ObjectIsThere'
    <2>1. /\ run[r].id \in Nat /\ run[r].id <= started
          /\ run[r].kind \in {"extraction", "insights"}
      BY <1>1 DEF ExtractionTypeOK, RunRecords, Kinds, FreshIds
    <2>2. collided \subseteq collided'
      BY <1>3
    <2>3. FreshIds'
      BY <1>1, <1>3 DEF FreshIds
    <2>4. ASSUME NEW q \in Runs, q # r, Named(q)', run'[q].key = run'[r].key
          PROVE  q \in collided' /\ r \in collided'
      <3>1. Named(q) /\ run[q].key = GsKey(r, ms)
        BY <2>4, <1>1, <1>3 DEF Named
      <3>2. CASE run[r].kind = "extraction"
        <4>1. run[q].key = <<"uuid", run[r].id>>
          BY <3>1, <3>2 DEF GsKey
        <4>2. QED
          BY <4>1, <3>1, <2>1, <1>1 DEF NamesApart
      <3>3. CASE run[r].kind = "insights"
        BY <3>1, <3>3, <1>3 DEF Active, Named
      <3>4. QED
        BY <2>1, <3>2, <3>3
    <2>5. ASSUME NEW n \in Nat, run'[r].key = <<"uuid", n>>
          PROVE  n = run[r].id
      BY <2>5, <1>3, <2>1 DEF GsKey
    <2>6. \A q \in Runs \ {r} : run'[q].at = "begin" => run'[q].id # run[r].id
      BY <1>1 DEF FreshIds
    <2>7. NamesApart'
      <3>1. ASSUME NEW q \in Runs, NEW n \in Nat, Named(q)', run'[q].key = <<"uuid", n>>
            PROVE  /\ n <= started'
                   /\ \A p \in Runs : run'[p].at = "begin" => run'[p].id # n
        <4>1. CASE q = r
          BY <4>1, <3>1, <2>5, <2>6, <2>1, <1>1, <1>3
        <4>2. CASE q # r
          <5>1. Named(q) /\ run[q].key = <<"uuid", n>>
            BY <4>2, <3>1, <1>1 DEF Named
          <5>2. /\ n <= started
                /\ \A p \in Runs : run[p].at = "begin" => run[p].id # n
            BY <5>1 DEF NamesApart
          <5>3. QED
            BY <5>2, <1>1, <1>3
        <4>3. QED
          BY <4>1, <4>2
      <3>2. ASSUME NEW q \in Runs, NEW p \in Runs, Named(q)', Named(p)', q # p,
                   run'[q].key = run'[p].key
            PROVE  q \in collided'
        <4>1. CASE q = r
          BY <4>1, <3>2, <2>4
        <4>2. CASE p = r
          BY <4>2, <3>2, <2>4
        <4>3. CASE q # r /\ p # r
          BY <4>3, <3>2, <1>1, <2>2 DEF NamesApart, Named
        <4>4. QED
          BY <4>1, <4>2, <4>3
      <3>3. QED
        BY <3>1, <3>2 DEF NamesApart
    <2>8. ObjectIsThere'
      BY <1>1, <1>3, <2>2 DEF ObjectIsThere
    <2>9. QED
      BY <2>3, <2>7, <2>8
  <1>4. QED
    BY <1>2, <1>3, BeginRunType

LEMMA ObjectStep == ObjectInv /\ [ExtractionNext]_docVars => ObjectInv'
  <1> SUFFICES ASSUME ObjectInv, [ExtractionNext]_docVars
               PROVE  FreshIds' /\ NamesApart' /\ ObjectIsThere'
    BY NextType DEF ObjectInv
  <1>0. ExtractionTypeOK
    BY DEF ObjectInv
  <1>1. ASSUME NEW r \in Runs, StartRun(r)
        PROVE  FreshIds' /\ NamesApart' /\ ObjectIsThere'
    BY <1>1, ObjectStart
  <1>2. ASSUME NEW r \in Runs, BeginRun(r)
        PROVE  FreshIds' /\ NamesApart' /\ ObjectIsThere'
    BY <1>2, ObjectBegin
  <1>3. ASSUME NEW r \in Runs, Upload(r)
        PROVE  FreshIds' /\ NamesApart' /\ ObjectIsThere'
    BY <1>3, <1>0, UploadType, ObjectGoesOn DEF Upload, Named
  <1>4. ASSUME NEW r \in Runs, AskVertex(r)
        PROVE  FreshIds' /\ NamesApart' /\ ObjectIsThere'
    <2>1. /\ run' \in [Runs -> RunRecords] /\ run'[r].key = run[r].key
          /\ run'[r].at \in {"ask", "save", "fail"}
          /\ \A q \in Runs \ {r} : run'[q] = run[q]
      BY <1>0, <1>4, RunAtType, RetriesType DEF AskVertex, Steps
    <2>2. run[r].at = "ask" /\ UNCHANGED <<started, collided, bucket>>
      BY <1>4 DEF AskVertex
    <2>3. FreshIds'
      BY <2>1, <2>2 DEF ObjectInv, FreshIds
    <2>4. NamesApart'
      BY <2>1, <2>2 DEF ObjectInv, NamesApart, Named
    <2>5. ObjectIsThere'
      BY <2>1, <2>2 DEF ObjectInv, ObjectIsThere
    <2>6. QED
      BY <2>3, <2>4, <2>5
  <1>5. ASSUME NEW r \in Runs, SaveAnswer(r) \/ FailRun(r)
        PROVE  FreshIds' /\ NamesApart' /\ ObjectIsThere'
    <2>1. RunAt(r, "delete") /\ run[r].at \in {"save", "fail"}
          /\ UNCHANGED <<bucket, started, collided>>
      BY <1>5 DEF SaveAnswer, FailRun
    <2>2. QED
      BY <2>1, <1>0, RunAtType, ObjectGoesOn DEF Named, Steps
  <1>6. ASSUME NEW r \in Runs, DeleteObject(r) \/ RunStops(r)
        PROVE  FreshIds' /\ NamesApart' /\ ObjectIsThere'
    <2>1. /\ RunEnds(r) /\ run[r].at # "idle" /\ started' = started
          /\ \/ bucket' = bucket
             \/ Named(r) /\ bucket' = bucket \ {run[r].key}
      BY <1>6 DEF DeleteObject, RunStops, Named
    <2>2. QED
      BY <2>1, <1>0, RunEndsType, ObjectEnds DEF RunEnds
  <1>7. ASSUME UNCHANGED <<bucket, run, started, collided>>
        PROVE  FreshIds' /\ NamesApart' /\ ObjectIsThere'
    BY <1>7 DEF ObjectInv, FreshIds, NamesApart, ObjectIsThere, Named
  <1>8. QED
    BY <1>1, <1>2, <1>3, <1>4, <1>5, <1>6, <1>7
       DEF ExtractionNext, RunSteps, DeleteInsights, docVars

\* What Vertex is asked to read is in the bucket, in whatever order the runs
\* on the document upload, fail, stop and delete, unless two insights of it
\* began in one millisecond.
THEOREM Objects == ExtractionSpec => []ObjectIsThere
  <1>1. ObjectInv => ObjectIsThere
    BY DEF ObjectInv
  <1>2. QED
    BY <1>1, ObjectInit, ObjectStep, PTL DEF ExtractionSpec

-----------------------------------------------------------------------------
(* CompletedIsKept: a run that got past Skips did not read COMPLETED, and a *)
(* failure it meets later may take the status of another run's answer.      *)

PassedUnread == \A r \in Runs : Named(r) => run[r].read # "COMPLETED"

LEMMA UnreadStep ==
  ExtractionTypeOK /\ PassedUnread /\ [ExtractionNext]_docVars => PassedUnread'
  <1> SUFFICES ASSUME ExtractionTypeOK, PassedUnread, [ExtractionNext]_docVars
               PROVE  PassedUnread'
    OBVIOUS
  <1>0. NoRun.at = "idle"
    BY DEF NoRun
  <1>1. ASSUME NEW r \in Runs, StartRun(r) PROVE PassedUnread'
    BY <1>1, StartRunType DEF PassedUnread, Named
  <1>2. ASSUME NEW r \in Runs, BeginRun(r) PROVE PassedUnread'
    BY <1>0, <1>2, BeginRunType DEF PassedUnread, Named
  <1>3. ASSUME NEW r \in Runs, Upload(r) PROVE PassedUnread'
    BY <1>3, UploadType DEF Upload, PassedUnread, Named
  <1>4. ASSUME NEW r \in Runs, AskVertex(r) PROVE PassedUnread'
    BY <1>4, RunAtType, RetriesType DEF AskVertex, PassedUnread, Named, Steps
  <1>5. ASSUME NEW r \in Runs, SaveAnswer(r) \/ FailRun(r) PROVE PassedUnread'
    BY <1>5, RunAtType DEF SaveAnswer, FailRun, PassedUnread, Named, Steps
  <1>6. ASSUME NEW r \in Runs, DeleteObject(r) \/ RunStops(r) PROVE PassedUnread'
    BY <1>0, <1>6, RunEndsType DEF DeleteObject, RunStops, PassedUnread, Named
  <1>7. ASSUME run' = run PROVE PassedUnread'
    BY <1>7 DEF PassedUnread, Named
  <1>8. QED
    BY <1>1, <1>2, <1>3, <1>4, <1>5, <1>6, <1>7
       DEF ExtractionNext, RunSteps, DeleteInsights, docVars

\* A step that takes COMPLETED away is one of the three that may.
LEMMA CompletedStep ==
  ASSUME ObjectInv, PassedUnread, [ExtractionNext]_docVars,
         docStatus = "COMPLETED", docStatus' # "COMPLETED"
  PROVE  \/ ~docData'
         \/ \E r \in Runs : /\ run[r] # run'[r]
                            /\ run[r].kind = "insights" \/ run[r].read # "COMPLETED"
  <1>a. ExtractionTypeOK
    BY DEF ObjectInv
  <1>0. NoRun.at = "idle"
    BY DEF NoRun
  <1>1. ASSUME NEW r \in Runs, BeginRun(r)
        PROVE  /\ run[r] # run'[r]
               /\ run[r].kind = "insights" \/ run[r].read # "COMPLETED"
    <2>1. run[r].at = "begin" /\ (~Skips(r) \/ run[r].kind = "insights")
      BY <1>1 DEF BeginRun
    <2>2. run'[r].at \in {"idle", "upload"}
      BY <1>a, <1>0, <1>1, BeginRunType
    <2>3. run[r].kind \in {"extraction", "insights"}
      BY <1>a, <2>1 DEF ObjectInv, FreshIds, ExtractionTypeOK, RunRecords, Kinds
    <2>4. QED
      BY <2>1, <2>2, <2>3 DEF Skips
  <1>2. ASSUME NEW r \in Runs, FailRun(r)
        PROVE  run[r] # run'[r] /\ run[r].read # "COMPLETED"
    <2>1. run[r].at = "fail" /\ run'[r].at = "delete"
      BY <1>a, <1>2, RunAtType DEF FailRun, Steps
    <2>2. QED
      BY <2>1 DEF PassedUnread, Named
  <1>3. ASSUME NEW r \in Runs,
               \/ StartRun(r) \/ Upload(r) \/ AskVertex(r) \/ SaveAnswer(r)
               \/ DeleteObject(r) \/ RunStops(r)
        PROVE  FALSE
    BY <1>3 DEF StartRun, Upload, AskVertex, SaveAnswer, DeleteObject, RunStops
  <1>4. CASE DeleteInsights
    BY <1>4 DEF DeleteInsights
  <1>5. CASE UNCHANGED docVars
    BY <1>5 DEF docVars
  <1>6. QED
    BY <1>1, <1>2, <1>3, <1>4, <1>5 DEF ExtractionNext, RunSteps

\* Whatever the runs on a document do in between, its extraction is undone
\* only by a deletion, by insights, or by a job that read it before.
THEOREM Kept == ExtractionSpec => CompletedIsKept
  <1>1. ExtractionInit => PassedUnread
    BY DEF ExtractionInit, PassedUnread, Named, NoRun
  <1>2. ExtractionSpec => []PassedUnread
    BY <1>1, UnreadStep, TypeCorrect, PTL DEF ExtractionSpec
  <1>3. ASSUME ObjectInv, PassedUnread, [ExtractionNext]_docVars
        PROVE  [docStatus = "COMPLETED" /\ docStatus' # "COMPLETED" =>
                  \/ ~docData'
                  \/ \E r \in Runs :
                       /\ run[r] # run'[r]
                       /\ run[r].kind = "insights" \/ run[r].read # "COMPLETED"
               ]_docVars
    BY <1>3, CompletedStep
  <1>4. ExtractionSpec => []ObjectInv
    BY ObjectInit, ObjectStep, PTL DEF ExtractionSpec
  <1>5. QED
    BY <1>2, <1>3, <1>4, PTL DEF ExtractionSpec, CompletedIsKept
=============================================================================
