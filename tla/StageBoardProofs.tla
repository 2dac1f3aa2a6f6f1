-------------------------- MODULE StageBoardProofs --------------------------
(* Proofs about StageBoard, for any lawsuits, any codes and any number of   *)
(* requests.                                                                *)
EXTENDS StageBoard, FiniteSetTheorems, SequenceTheorems, TLAPS

Places == {"idle", "write", "decide", "record", "follow", "many", "retire",
           "appoint", "link"}
Gives == {g \in [stage : Stages \cup {""}, code : Nat, owner : BOOLEAN] :
             g.owner => g.stage = "" /\ g.code = 0}
RequestRecords ==
    [at : Places, of : Lawsuits, to : Nat, read : Stages, calls : BOOLEAN,
     doc : BOOLEAN, ids : SUBSET Lawsuits, give : Gives]

\* Since a change of stage was asked for, its code is a known one.
Asked(c) == request[c].at \in {"write", "decide", "record", "follow"}

BoardTypeOK ==
    /\ stage \in [Lawsuits -> Stages]
    /\ code \in [Lawsuits -> Nat]
    /\ link \subseteq Mains
    /\ active \in [Lawsuits -> Nat]
    /\ request \in [BoardCalls -> RequestRecords]
    /\ \A c \in BoardCalls :
         /\ Asked(c) => Known(request[c].to)
         /\ request[c].at = "link" => request[c].of \in Mains

-----------------------------------------------------------------------------
(* What the steps do to the request that takes them.                       *)

LEMMA CodesType == \A k : Known(k) => StageByCode[k] \in Stages
  BY DEF Known, StageByCode, Stages

LEMMA NoRequestType == NoRequest \in RequestRecords /\ NoRequest.at = "idle"
  <1>1. Nothing \in Gives
    BY DEF Nothing, Gives
  <1>2. QED
    BY <1>1 DEF NoRequest, RequestRecords, Places, Lawsuits, Stages

OthersRest(c) == \A d \in BoardCalls \ {c} : request'[d] = request[d]

LEMMA OnType ==
  ASSUME BoardTypeOK, NEW c \in BoardCalls, NEW place \in Places, On(c, place)
  PROVE  /\ request' \in [BoardCalls -> RequestRecords] /\ OthersRest(c)
         /\ request'[c].at = place /\ request'[c].of = request[c].of
         /\ request'[c].to = request[c].to /\ request'[c].calls = request[c].calls
         /\ request'[c].ids = request[c].ids /\ request'[c].read = request[c].read
  <1>1. request[c] \in RequestRecords
    BY DEF BoardTypeOK
  <1>2. request' = [request EXCEPT ![c] = [request[c] EXCEPT !.at = place]]
    BY DEF On, BoardTypeOK
  <1>3. [request[c] EXCEPT !.at = place] \in RequestRecords
    BY <1>1 DEF RequestRecords
  <1>4. /\ [request[c] EXCEPT !.at = place].at = place
        /\ [request[c] EXCEPT !.at = place].of = request[c].of
        /\ [request[c] EXCEPT !.at = place].to = request[c].to
        /\ [request[c] EXCEPT !.at = place].calls = request[c].calls
        /\ [request[c] EXCEPT !.at = place].ids = request[c].ids
        /\ [request[c] EXCEPT !.at = place].read = request[c].read
    BY <1>1 DEF RequestRecords
  <1>5. QED
    BY <1>2, <1>3, <1>4 DEF BoardTypeOK, OthersRest

LEMMA FindDecisionType ==
  ASSUME BoardTypeOK, NEW c \in BoardCalls, FindDecision(c)
  PROVE  /\ request' \in [BoardCalls -> RequestRecords] /\ OthersRest(c)
         /\ request'[c].at = "record" /\ request'[c].of = request[c].of
         /\ request'[c].to = request[c].to /\ request'[c].calls = request[c].calls
         /\ request'[c].read = request[c].read
         /\ request'[c].doc = (decisions[request[c].of] # <<>>)
  <1> DEFINE found == decisions[request[c].of] # <<>>
  <1>1. request[c] \in RequestRecords
    BY DEF BoardTypeOK
  <1>2. request' = [request EXCEPT ![c] = [request[c] EXCEPT !.at = "record",
                                                        !.doc = found]]
    BY DEF FindDecision, BoardTypeOK
  <1>3. [request[c] EXCEPT !.at = "record", !.doc = found] \in RequestRecords
    BY <1>1 DEF RequestRecords, Places
  <1>4. /\ [request[c] EXCEPT !.at = "record", !.doc = found].at = "record"
        /\ [request[c] EXCEPT !.at = "record", !.doc = found].of = request[c].of
        /\ [request[c] EXCEPT !.at = "record", !.doc = found].to = request[c].to
        /\ [request[c] EXCEPT !.at = "record", !.doc = found].calls = request[c].calls
        /\ [request[c] EXCEPT !.at = "record", !.doc = found].read = request[c].read
        /\ [request[c] EXCEPT !.at = "record", !.doc = found].doc = found
    BY <1>1 DEF RequestRecords
  <1>5. QED
    BY <1>2, <1>3, <1>4 DEF BoardTypeOK, OthersRest

LEMMA DoneType ==
  ASSUME BoardTypeOK, NEW c \in BoardCalls, Done(c)
  PROVE  /\ request' \in [BoardCalls -> RequestRecords] /\ OthersRest(c)
         /\ request'[c].at = "idle"
  BY NoRequestType DEF BoardTypeOK, Done, OthersRest

LEMMA AsksType ==
  ASSUME BoardTypeOK, NEW c \in BoardCalls, NEW r \in RequestRecords, Asks(c, r)
  PROVE  /\ request' \in [BoardCalls -> RequestRecords] /\ OthersRest(c)
         /\ request'[c] = r /\ request[c].at = "idle"
         /\ UNCHANGED <<boardData, boardHistory>>
  BY DEF BoardTypeOK, Asks, OthersRest, Busy

LEMMA ChangeStageType ==
  ASSUME BoardTypeOK, NEW c \in BoardCalls, ChangeStage(c)
  PROVE  /\ request' \in [BoardCalls -> RequestRecords] /\ OthersRest(c)
         /\ request[c].at = "idle" /\ request'[c].at = "write"
         /\ Known(request'[c].to)
         /\ request'[c].calls = (request'[c].of \in link)
         /\ request'[c].read = stage[request'[c].of]
         /\ UNCHANGED <<boardData, boardHistory>>
  <1>1. PICK l \in Lawsuits, k \in NewCodes :
          /\ Known(k)
          /\ Asks(c, [NoRequest EXCEPT !.at = "write", !.of = l, !.to = k,
                         !.read = stage[l], !.calls = l \in link])
    BY DEF ChangeStage
  <1> DEFINE r == [NoRequest EXCEPT !.at = "write", !.of = l, !.to = k,
                       !.read = stage[l], !.calls = l \in link]
  <1>2. \A s \in Stages, b \in BOOLEAN, n \in Nat :
          [NoRequest EXCEPT !.at = "write", !.of = l, !.to = n, !.read = s, !.calls = b]
            \in RequestRecords
    BY NoRequestType DEF RequestRecords, Places
  <1>3. stage[l] \in Stages /\ (l \in link) \in BOOLEAN /\ k \in Nat
    BY BoardAssumption DEF BoardTypeOK
  <1>4. r \in RequestRecords
    BY <1>2, <1>3
  <1>5. r.at = "write" /\ r.of = l /\ r.to = k /\ r.calls = (l \in link)
        /\ r.read = stage[l]
    BY DEF NoRequest
  <1>6. QED
    BY <1>1, <1>4, <1>5, AsksType

LEMMA BulkUpdateType ==
  ASSUME BoardTypeOK, NEW c \in BoardCalls, BulkUpdate(c)
  PROVE  /\ request' \in [BoardCalls -> RequestRecords] /\ OthersRest(c)
         /\ request[c].at = "idle" /\ request'[c].at = "many"
         /\ UNCHANGED <<boardData, boardHistory>>
  <1>1. PICK ids \in {Lawsuits} \cup {{l \in Lawsuits : stage[l] = s} : s \in Stages},
             give \in {[Nothing EXCEPT !.stage = "CALCULO"],
                       [Nothing EXCEPT !.owner = TRUE]}
                      \cup {[Nothing EXCEPT !.code = k] : k \in NewCodes} :
          Asks(c, [NoRequest EXCEPT !.at = "many", !.ids = ids, !.give = give])
    BY DEF BulkUpdate
  <1> DEFINE r == [NoRequest EXCEPT !.at = "many", !.ids = ids, !.give = give]
  <1>2. ids \in SUBSET Lawsuits
    BY <1>1
  <1>3. give \in Gives
    <2>1. [Nothing EXCEPT !.stage = "CALCULO"] \in Gives
      BY DEF Nothing, Gives, Stages
    <2>2. [Nothing EXCEPT !.owner = TRUE] \in Gives
      BY DEF Nothing, Gives, Stages
    <2>3. \A k \in NewCodes : [Nothing EXCEPT !.code = k] \in Gives
      BY BoardAssumption DEF Nothing, Gives, Stages
    <2>4. QED
      BY <1>1, <2>1, <2>2, <2>3
  <1>4. \A i \in SUBSET Lawsuits, g \in Gives :
          [NoRequest EXCEPT !.at = "many", !.ids = i, !.give = g] \in RequestRecords
    BY NoRequestType DEF RequestRecords, Places
  <1>5. r \in RequestRecords
    BY <1>2, <1>3, <1>4
  <1>6. r.at = "many"
    BY DEF NoRequest
  <1>7. QED
    BY <1>1, <1>5, <1>6, AsksType

LEMMA InsertExecutionType ==
  ASSUME BoardTypeOK, NEW c \in BoardCalls, InsertExecution(c)
  PROVE  /\ request' \in [BoardCalls -> RequestRecords] /\ OthersRest(c)
         /\ request[c].at = "idle" /\ request'[c].at = "link"
         /\ request'[c].of \in Mains
         /\ UNCHANGED <<boardData, boardHistory>>
  <1>1. PICK m \in Mains : Asks(c, [NoRequest EXCEPT !.at = "link", !.of = m])
    BY DEF InsertExecution
  <1>2. \A l \in Lawsuits :
          [NoRequest EXCEPT !.at = "link", !.of = l] \in RequestRecords
    BY NoRequestType DEF RequestRecords, Places
  <1>3. [NoRequest EXCEPT !.at = "link", !.of = m] \in RequestRecords
    BY <1>2 DEF Lawsuits
  <1>4. /\ [NoRequest EXCEPT !.at = "link", !.of = m].at = "link"
        /\ [NoRequest EXCEPT !.at = "link", !.of = m].of = m
    BY DEF NoRequest
  <1>5. QED
    BY <1>1, <1>3, <1>4, AsksType

LEMMA PlaceType ==
  ASSUME BoardTypeOK, NEW S, NEW k \in Nat, Known(k), Place(S, k)
  PROVE  /\ stage' \in [Lawsuits -> Stages] /\ code' \in [Lawsuits -> Nat]
         /\ \A l \in Lawsuits :
              IF l \in S THEN stage'[l] = StageByCode[k] /\ code'[l] = k
                         ELSE stage'[l] = stage[l] /\ code'[l] = code[l]
  BY CodesType DEF BoardTypeOK, Place

\* A bulk update that gives an owner gives no stage.
LEMMA UpdateManyType ==
  ASSUME BoardTypeOK, NEW c \in BoardCalls, UpdateMany(c)
  PROVE  /\ stage' \in [Lawsuits -> Stages] /\ code' \in [Lawsuits -> Nat]
         /\ \/ On(c, "retire") /\ UNCHANGED apart /\ UNCHANGED <<stage, code>>
            \/ Done(c) /\ apart' = apart \cup link
         /\ undocumented \subseteq undocumented'
         /\ \A l \in Lawsuits \ undocumented' : stage'[l] = stage[l] /\ code'[l] = code[l]
  <1> DEFINE give == request[c].give
             to == IF give.stage # "" THEN give.stage
                   ELSE IF Known(give.code) THEN StageByCode[give.code] ELSE ""
  <1>1. request[c].give \in Gives
    BY DEF BoardTypeOK, RequestRecords
  <1>2. give.stage \in Stages \cup {""} /\ give.code \in Nat
        /\ (give.owner => give.stage = "" /\ give.code = 0)
    BY <1>1 DEF Gives
  <1>3. to \in Stages \cup {""}
    BY <1>2, CodesType
  <1>4. /\ stage' = [l \in Lawsuits |-> IF l \in request[c].ids /\ to # "" THEN to
                                        ELSE stage[l]]
        /\ code' = [l \in Lawsuits |-> IF l \in request[c].ids /\ give.code # 0
                                       THEN give.code ELSE code[l]]
    BY DEF UpdateMany
  <1> HIDE DEF to
  <1>5. stage' \in [Lawsuits -> Stages] /\ code' \in [Lawsuits -> Nat]
    BY <1>2, <1>3, <1>4 DEF BoardTypeOK
  <1>6. ASSUME give.owner PROVE UNCHANGED <<stage, code>>
    <2>1. ~Known(0)
      BY DEF Known, StageByCode
    <2>2. to = "" /\ give.code = 0
      BY <1>2, <1>6, <2>1 DEF to
    <2>3. QED
      BY <1>4, <2>2 DEF BoardTypeOK
  <1>7. CASE give.owner
    BY <1>5, <1>6, <1>7 DEF UpdateMany
  <1>8. CASE ~give.owner
    <2>1. undocumented' = undocumented \cup request[c].ids
      BY <1>8 DEF UpdateMany
    <2>2. \A l \in Lawsuits \ undocumented' : stage'[l] = stage[l] /\ code'[l] = code[l]
      BY <1>4, <2>1
    <2>3. Done(c) /\ apart' = apart \cup link
      BY <1>8 DEF UpdateMany
    <2>4. QED
      BY <1>5, <2>1, <2>2, <2>3
  <1>9. QED
    BY <1>7, <1>8
-----------------------------------------------------------------------------
(* Type correctness.                                                       *)

LEMMA InitType == BoardInit => BoardTypeOK
  <1> SUFFICES ASSUME BoardInit PROVE BoardTypeOK
    OBVIOUS
  <1>1. /\ request \in [BoardCalls -> RequestRecords]
        /\ \A c \in BoardCalls : request[c].at = "idle"
    BY NoRequestType DEF BoardInit
  <1>2. QED
    BY <1>1 DEF BoardInit, BoardTypeOK, Stages, Asked

\* The call of a step keeps what it was asked, or asks nothing any more.
LEMMA RequestType ==
  ASSUME BoardTypeOK, NEW c \in BoardCalls, OthersRest(c),
         request' \in [BoardCalls -> RequestRecords],
         Asked(c)' => (Asked(c) /\ request'[c].to = request[c].to) \/ Known(request'[c].to),
         request'[c].at = "link" => request'[c].of \in Mains,
         stage' \in [Lawsuits -> Stages], code' \in [Lawsuits -> Nat],
         link' \subseteq Mains, active' \in [Lawsuits -> Nat]
  PROVE  BoardTypeOK'
  BY DEF BoardTypeOK, OthersRest, Asked

LEMMA StepType ==
  ASSUME BoardTypeOK, NEW c \in BoardCalls,
         \/ ChangeStage(c) \/ WriteStage(c) \/ FindDecision(c)
         \/ SaveDecision(c) \/ FollowLink(c)
         \/ BulkUpdate(c) \/ UpdateMany(c) \/ RetireOwners(c) \/ AppointOwners(c)
         \/ InsertExecution(c) \/ LinkExecution(c) \/ BoardStepFails(c)
  PROVE  BoardTypeOK'
  <1>0. /\ stage \in [Lawsuits -> Stages] /\ code \in [Lawsuits -> Nat]
        /\ link \subseteq Mains /\ active \in [Lawsuits -> Nat]
        /\ request[c] \in RequestRecords
    BY DEF BoardTypeOK
  <1>1. CASE ChangeStage(c)
    BY <1>0, <1>1, ChangeStageType, RequestType DEF boardData
  <1>2. CASE WriteStage(c)
    <2>1. Known(request[c].to) /\ request[c].to \in Nat /\ Asked(c)
      BY <1>0, <1>2 DEF WriteStage, BoardTypeOK, Asked, RequestRecords
    <2>2. stage' \in [Lawsuits -> Stages] /\ code' \in [Lawsuits -> Nat]
      BY <1>2, <2>1, PlaceType DEF WriteStage
    <2>3. On(c, "decide") /\ UNCHANGED <<link, active>>
      BY <1>2 DEF WriteStage
    <2>4. QED
      BY <1>0, <2>1, <2>2, <2>3, OnType, RequestType DEF Places
  <1>3. CASE FindDecision(c)
    BY <1>0, <1>3, FindDecisionType, RequestType DEF FindDecision, boardData, Asked
  <1>4. CASE SaveDecision(c)
    <2>1. /\ On(c, "follow") /\ Asked(c) /\ UNCHANGED <<stage, code, link, active>>
      BY <1>4 DEF SaveDecision, Asked
    <2>2. QED
      BY <1>0, <2>1, OnType, RequestType DEF Places
  <1>5. CASE FollowLink(c)
    <2>1. Known(request[c].to) /\ request[c].to \in Nat
      BY <1>0, <1>5 DEF FollowLink, BoardTypeOK, Asked, RequestRecords
    <2>2. stage' \in [Lawsuits -> Stages] /\ code' \in [Lawsuits -> Nat]
      BY <1>5, <2>1, PlaceType DEF FollowLink
    <2>3. Done(c) /\ UNCHANGED <<link, active>>
      BY <1>5 DEF FollowLink
    <2>4. QED
      BY <1>0, <2>2, <2>3, DoneType, RequestType DEF Asked
  <1>6. CASE BulkUpdate(c)
    BY <1>0, <1>6, BulkUpdateType, RequestType DEF boardData, Asked
  <1>7. CASE UpdateMany(c)
    <2>1. stage' \in [Lawsuits -> Stages] /\ code' \in [Lawsuits -> Nat]
          /\ (On(c, "retire") \/ Done(c))
      BY <1>7, UpdateManyType
    <2>2. UNCHANGED <<link, active>>
      BY <1>7 DEF UpdateMany
    <2>3. QED
      BY <1>0, <2>1, <2>2, OnType, DoneType, RequestType DEF Places, Asked
  <1>8. CASE RetireOwners(c)
    <2>1. /\ On(c, "appoint") /\ UNCHANGED <<stage, code, link>>
          /\ active' \in [Lawsuits -> Nat]
      BY <1>0, <1>8 DEF RetireOwners
    <2>2. QED
      BY <1>0, <2>1, OnType, RequestType DEF Places, Asked
  <1>9. CASE AppointOwners(c)
    <2>1. /\ Done(c) /\ UNCHANGED <<stage, code, link>>
          /\ active' \in [Lawsuits -> Nat]
      BY <1>0, <1>9 DEF AppointOwners
    <2>2. QED
      BY <1>0, <2>1, DoneType, RequestType DEF Asked
  <1>10. CASE InsertExecution(c)
    BY <1>0, <1>10, InsertExecutionType, RequestType DEF boardData, Asked
  <1>11. CASE LinkExecution(c)
    <2>1. Done(c) /\ UNCHANGED <<stage, code, active>>
      BY <1>11 DEF LinkExecution
    <2>2. link' \subseteq Mains
      BY <1>0, <1>11 DEF LinkExecution, BoardTypeOK
    <2>3. QED
      BY <1>0, <2>1, <2>2, DoneType, RequestType DEF Asked
  <1>12. CASE BoardStepFails(c)
    <2>1. Done(c) /\ UNCHANGED boardData
      BY <1>12 DEF BoardStepFails
    <2>2. QED
      BY <1>0, <2>1, DoneType, RequestType DEF Asked, boardData
  <1>13. QED
    BY <1>1, <1>2, <1>3, <1>4, <1>5, <1>6, <1>7, <1>8, <1>9, <1>10, <1>11, <1>12

LEMMA NextType == BoardTypeOK /\ [BoardNext]_boardVars => BoardTypeOK'
  <1> SUFFICES ASSUME BoardTypeOK, [BoardNext]_boardVars PROVE BoardTypeOK'
    OBVIOUS
  <1>1. CASE RemoveProvisionalNumber
    BY <1>1 DEF RemoveProvisionalNumber, BoardTypeOK, Asked
  <1>2. CASE UNCHANGED boardVars
    BY <1>2 DEF boardVars, boardData, BoardTypeOK, Asked
  <1>3. QED
    BY <1>1, <1>2, StepType DEF BoardNext

LEMMA TypeCorrect == BoardSpec => []BoardTypeOK
  BY InitType, NextType, PTL DEF BoardSpec
-----------------------------------------------------------------------------
(* One active owner.  Between its two writes a replacement finds the        *)
(* lawsuit without an owner, unless another one is between its own.         *)

OwnerInv ==
    /\ owned \subseteq Lawsuits
    /\ \A l \in Lawsuits \ unsettled, c \in BoardCalls :
         l \in Appointing(c) => active[l] = 0
    /\ OneActiveOwner

\* A step that neither retires nor appoints: the appointing are the same.
LEMMA OwnerSame ==
  ASSUME BoardTypeOK, OwnerInv, NEW c \in BoardCalls, OthersRest(c),
         request[c].at # "appoint", request'[c].at # "appoint",
         UNCHANGED <<active, owned, unsettled>>
  PROVE  OwnerInv'
  <1>1. \A d \in BoardCalls : Appointing(d)' = Appointing(d)
    BY DEF Appointing, OthersRest
  <1>2. QED
    BY <1>1 DEF OwnerInv, OneActiveOwner

LEMMA OwnerStep ==
  BoardTypeOK /\ OwnerInv /\ [BoardNext]_boardVars => OwnerInv'
  <1> SUFFICES ASSUME BoardTypeOK, OwnerInv, [BoardNext]_boardVars PROVE OwnerInv'
    OBVIOUS
  <1>1. ASSUME NEW c \in BoardCalls,
               ChangeStage(c) \/ BulkUpdate(c) \/ InsertExecution(c)
        PROVE  OwnerInv'
    BY <1>1, ChangeStageType, BulkUpdateType, InsertExecutionType, OwnerSame
       DEF boardData, boardHistory
  <1>2. ASSUME NEW c \in BoardCalls,
               WriteStage(c) \/ FindDecision(c) \/ SaveDecision(c) \/ FollowLink(c)
        PROVE  OwnerInv'
    <2>1. OthersRest(c) /\ request'[c].at # "appoint"
      BY <1>2, OnType, DoneType, FindDecisionType
         DEF WriteStage, SaveDecision, FollowLink, Places
    <2>2. request[c].at # "appoint" /\ UNCHANGED <<active, owned, unsettled>>
      BY <1>2 DEF WriteStage, FindDecision, SaveDecision, FollowLink, boardData
    <2>3. QED
      BY <2>1, <2>2, OwnerSame
  <1>3. ASSUME NEW c \in BoardCalls, UpdateMany(c) \/ LinkExecution(c)
        PROVE  OwnerInv'
    <2>1. On(c, "retire") \/ Done(c)
      BY <1>3, UpdateManyType DEF LinkExecution
    <2>2. OthersRest(c) /\ request'[c].at # "appoint"
      BY <2>1, OnType, DoneType DEF Places
    <2>3. request[c].at # "appoint" /\ UNCHANGED <<active, owned, unsettled>>
      BY <1>3 DEF UpdateMany, LinkExecution
    <2>4. QED
      BY <2>2, <2>3, OwnerSame
  <1>4. ASSUME NEW c \in BoardCalls, RetireOwners(c) PROVE OwnerInv'
    <2>1. /\ OthersRest(c) /\ request'[c].at = "appoint"
          /\ request'[c].ids = request[c].ids
      BY <1>4, OnType DEF RetireOwners, Places
    <2>2. /\ request[c].at = "retire" /\ UNCHANGED <<owned, unsettled>>
          /\ \A l \in Lawsuits :
               active'[l] = IF l \in request[c].ids THEN 0 ELSE active[l]
      BY <1>4 DEF RetireOwners, boardHistory
    <2>3. Appointing(c)' = request[c].ids
      BY <2>1 DEF Appointing
    <2>4. \A d \in BoardCalls \ {c} : Appointing(d)' = Appointing(d)
      BY <2>1 DEF Appointing, OthersRest
    <2>5. \A l \in Lawsuits \ unsettled', d \in BoardCalls :
            l \in Appointing(d)' => active'[l] = 0
      BY <2>2, <2>3, <2>4 DEF OwnerInv
    <2>6. OneActiveOwner'
      <3> SUFFICES ASSUME NEW l \in owned', l \notin unsettled',
                          \A d \in BoardCalls : l \notin Appointing(d)'
                   PROVE  active'[l] = 1
        BY DEF OneActiveOwner
      <3>1. l \in Lawsuits /\ l \notin request[c].ids
        BY <2>2, <2>3 DEF OwnerInv
      <3>2. \A d \in BoardCalls : l \notin Appointing(d)
        BY <2>2, <2>4 DEF Appointing
      <3>3. QED
        BY <2>2, <3>1, <3>2 DEF OwnerInv, OneActiveOwner
    <2>7. QED
      BY <2>2, <2>5, <2>6 DEF OwnerInv
  <1>5. ASSUME NEW c \in BoardCalls, AppointOwners(c) PROVE OwnerInv'
    <2>1. OthersRest(c) /\ request'[c].at = "idle"
      BY <1>5, DoneType DEF AppointOwners
    <2>2. /\ Appointing(c) = request[c].ids /\ request[c].ids \subseteq Lawsuits
          /\ owned' = owned \cup request[c].ids
          /\ unsettled' = unsettled \cup UNION {Appointing(c) \cap Appointing(d) :
                                                    d \in BoardCalls \ {c}}
          /\ \A l \in Lawsuits :
               active'[l] = active[l] + IF l \in request[c].ids THEN 1 ELSE 0
      BY <1>5 DEF AppointOwners, Appointing, BoardTypeOK, RequestRecords
    <2>3. Appointing(c)' = {}
      BY <2>1 DEF Appointing
    <2>4. \A d \in BoardCalls \ {c} : Appointing(d)' = Appointing(d)
      BY <2>1 DEF Appointing, OthersRest
    <2>5. unsettled \subseteq unsettled'
      BY <2>2
    <2>6. \A l \in request[c].ids \ unsettled' :
            \A d \in BoardCalls \ {c} : l \notin Appointing(d)
      BY <2>2
    <2>7. \A l \in Lawsuits : active[l] \in Nat
      BY DEF BoardTypeOK
    <2>8. ASSUME NEW l \in Lawsuits \ unsettled', NEW d \in BoardCalls,
                 l \in Appointing(d)'
          PROVE  active'[l] = 0
      <3>1. d # c /\ l \in Appointing(d) /\ l \notin request[c].ids
        BY <2>3, <2>4, <2>6, <2>8
      <3>2. active[l] = 0
        BY <2>5, <3>1 DEF OwnerInv
      <3>3. QED
        BY <2>2, <3>1, <3>2
    <2>9. OneActiveOwner'
      <3> SUFFICES ASSUME NEW l \in owned', l \notin unsettled',
                          \A d \in BoardCalls : l \notin Appointing(d)'
                   PROVE  active'[l] = 1
        BY DEF OneActiveOwner
      <3>1. l \in Lawsuits /\ l \notin unsettled
        BY <2>2, <2>5 DEF OwnerInv
      <3>2. CASE l \in request[c].ids
        <4>1. active[l] = 0
          BY <2>2, <3>1, <3>2 DEF OwnerInv
        <4>2. QED
          BY <2>2, <3>1, <3>2, <4>1
      <3>3. CASE l \notin request[c].ids
        <4>1. \A d \in BoardCalls : l \notin Appointing(d)
          BY <2>2, <2>4, <3>3
        <4>2. active[l] = 1
          BY <2>2, <3>1, <3>3, <4>1 DEF OwnerInv, OneActiveOwner
        <4>3. QED
          BY <2>2, <3>1, <3>3, <4>2
      <3>4. QED
        BY <3>2, <3>3
    <2>10. owned' \subseteq Lawsuits
      BY <2>2 DEF OwnerInv
    <2>11. QED
      BY <2>8, <2>9, <2>10 DEF OwnerInv
  <1>6. ASSUME NEW c \in BoardCalls, BoardStepFails(c) PROVE OwnerInv'
    <2>1. OthersRest(c) /\ request'[c].at = "idle"
      BY <1>6, DoneType DEF BoardStepFails
    <2>2. UNCHANGED <<active, owned>> /\ unsettled' = unsettled \cup Appointing(c)
      BY <1>6 DEF BoardStepFails, boardData
    <2>3. Appointing(c)' = {}
      BY <2>1 DEF Appointing
    <2>4. \A d \in BoardCalls \ {c} : Appointing(d)' = Appointing(d)
      BY <2>1 DEF Appointing, OthersRest
    <2>5. \A l \in Lawsuits \ unsettled', d \in BoardCalls :
            l \in Appointing(d)' => active'[l] = 0
      BY <2>2, <2>3, <2>4 DEF OwnerInv
    <2>6. OneActiveOwner'
      <3> SUFFICES ASSUME NEW l \in owned', l \notin unsettled',
                          \A d \in BoardCalls : l \notin Appointing(d)'
                   PROVE  active'[l] = 1
        BY DEF OneActiveOwner
      <3>1. \A d \in BoardCalls : l \notin Appointing(d)
        BY <2>2, <2>4
      <3>2. QED
        BY <2>2, <3>1 DEF OwnerInv, OneActiveOwner
    <2>7. QED
      BY <2>2, <2>5, <2>6 DEF OwnerInv
  <1>7. ASSUME UNCHANGED <<active, owned, unsettled, request>> PROVE OwnerInv'
    BY <1>7 DEF OwnerInv, OneActiveOwner, Appointing
  <1>8. QED
    BY <1>1, <1>2, <1>3, <1>4, <1>5, <1>6, <1>7
       DEF BoardNext, RemoveProvisionalNumber, boardVars, boardData, boardHistory

\* A lawsuit that was given an owner has exactly one, whoever replaces it and
\* however often, unless two replacements overlapped or one failed half-way.
THEOREM Owners == BoardSpec => []OneActiveOwner
  <1>1. BoardInit => OwnerInv
    BY DEF BoardInit, OwnerInv, OneActiveOwner, Appointing, NoRequest
  <1>2. OwnerInv => OneActiveOwner
    BY DEF OwnerInv
  <1>3. QED
    BY <1>1, <1>2, OwnerStep, TypeCorrect, PTL DEF BoardSpec
-----------------------------------------------------------------------------
(* A main and its execution at one stage.  While a request moves one of the *)
(* two, they may differ; it knows whether there is another one to move, and *)
(* moves it last.                                                           *)

Moving(c) == request[c].at \in {"decide", "record", "follow"}
Agree(m) == stage[m] = stage[Prov] /\ code[m] = code[Prov]

MovedFirst ==
    \A c \in BoardCalls : Moving(c) =>
        \/ link \subseteq apart
        \/ /\ stage[request[c].of] = StageByCode[request[c].to]
           /\ code[request[c].of] = request[c].to

KnowsLink ==
    \A c \in BoardCalls : Asked(c) /\ request[c].of # Prov =>
        /\ request[c].of \in link \ apart => request[c].calls
        /\ request[c].calls /\ request[c].of \notin link => link \subseteq apart

AgreeOrMoving ==
    \A m \in link \ apart :
        Agree(m) \/ \E c \in BoardCalls : Moving(c) /\ request[c].of \in {m, Prov}

LinkInv == MovedFirst /\ KnowsLink /\ AgreeOrMoving

LEMMA AllApart == ASSUME link' \subseteq apart' PROVE LinkInv'
  BY DEF LinkInv, MovedFirst, KnowsLink, AgreeOrMoving

LEMMA LinkAlone ==
  ASSUME BoardTypeOK, ~(Cardinality(link) > 1), NEW m \in link
  PROVE  link = {m}
  <1>1. IsFiniteSet(link)
    BY BoardAssumption, FS_Subset DEF BoardTypeOK
  <1>2. ASSUME NEW n \in link, n # m PROVE FALSE
    <2>1. IsFiniteSet({m}) /\ Cardinality({m}) = 1
      BY FS_Singleton
    <2>2. Cardinality({m} \cup {n}) = 2
      BY <1>2, <2>1, FS_AddElement
    <2>3. {m} \cup {n} \subseteq link
      BY <1>2
    <2>4. Cardinality({m} \cup {n}) <= Cardinality(link)
      BY <1>1, <2>3, FS_Subset
    <2>5. Cardinality(link) \in Nat
      BY <1>1, FS_CardinalityType
    <2>6. QED
      BY <2>2, <2>4, <2>5
  <1>3. QED
    BY <1>2

\* The call of a step goes on or ends, and neither moves nor links anything.
LEMMA LinkSame ==
  ASSUME BoardTypeOK, LinkInv, NEW c \in BoardCalls, OthersRest(c),
         UNCHANGED <<stage, code, link, apart>>,
         \/ /\ ~Moving(c) /\ ~Asked(c)'
         \/ /\ Moving(c) /\ Moving(c)' /\ request'[c].of = request[c].of
            /\ request'[c].to = request[c].to /\ request'[c].calls = request[c].calls
  PROVE  LinkInv'
  <1>1. MovedFirst'
    BY DEF LinkInv, MovedFirst, OthersRest, Moving, Asked
  <1>2. KnowsLink'
    BY DEF LinkInv, KnowsLink, OthersRest, Moving, Asked
  <1>3. AgreeOrMoving'
    <2> SUFFICES ASSUME NEW m \in link \ apart
                 PROVE  \/ Agree(m)'
                        \/ \E d \in BoardCalls : Moving(d)' /\ request'[d].of \in {m, Prov}
      BY DEF AgreeOrMoving
    <2>1. CASE Agree(m)
      BY <2>1 DEF Agree
    <2>2. ASSUME NEW d \in BoardCalls, Moving(d), request[d].of \in {m, Prov}
          PROVE  Moving(d)' /\ request'[d].of \in {m, Prov}
      BY <2>2 DEF OthersRest, Moving
    <2>3. QED
      BY <2>1, <2>2 DEF LinkInv, AgreeOrMoving
  <1>4. QED
    BY <1>1, <1>2, <1>3 DEF LinkInv

LEMMA LinkWrite ==
  ASSUME BoardTypeOK, LinkInv, NEW c \in BoardCalls, WriteStage(c)
  PROVE  LinkInv'
  <1>0. /\ request[c].at = "write" /\ link' = link
        /\ Place({request[c].of}, request[c].to) /\ On(c, "decide")
        /\ apart' = IF OthersBusy(c) THEN apart \cup link ELSE apart
        /\ request[c].to \in Nat /\ Known(request[c].to) /\ request[c].of \in Lawsuits
    BY DEF WriteStage, BoardTypeOK, Asked, RequestRecords
  <1>1. CASE OthersBusy(c)
    <2>1. link' \subseteq apart'
      BY <1>0, <1>1
    <2>2. QED
      BY <2>1, AllApart
  <1>2. CASE ~OthersBusy(c)
    <2>1. /\ OthersRest(c) /\ request'[c].at = "decide"
          /\ request'[c].of = request[c].of /\ request'[c].to = request[c].to
          /\ request'[c].calls = request[c].calls
      BY <1>0, OnType DEF Places
    <2>2. \A d \in BoardCalls \ {c} : request[d].at = "idle" /\ request'[d].at = "idle"
      BY <1>2, <2>1 DEF OthersBusy, Busy, OthersRest
    <2>3. \A l \in Lawsuits :
            IF l = request[c].of
            THEN stage'[l] = StageByCode[request[c].to] /\ code'[l] = request[c].to
            ELSE stage'[l] = stage[l] /\ code'[l] = code[l]
      BY <1>0, PlaceType
    <2>4. MovedFirst'
      BY <1>0, <2>1, <2>2, <2>3 DEF MovedFirst, Moving
    <2>5. KnowsLink'
      BY <1>0, <1>2, <2>1, <2>2 DEF LinkInv, KnowsLink, Asked
    <2>6. \A d \in BoardCalls : ~Moving(d)
      BY <1>0, <2>2 DEF Moving
    <2>7. AgreeOrMoving'
      <3> SUFFICES ASSUME NEW m \in link \ apart, request[c].of \notin {m, Prov}
                   PROVE  Agree(m)'
        BY <1>0, <1>2, <2>1 DEF AgreeOrMoving, Moving
      <3>1. Agree(m)
        BY <2>6 DEF LinkInv, AgreeOrMoving
      <3>2. m \in Lawsuits /\ Prov \in Lawsuits
        BY DEF BoardTypeOK, Lawsuits
      <3>3. QED
        BY <2>3, <3>1, <3>2 DEF Agree
    <2>8. QED
      BY <2>4, <2>5, <2>7 DEF LinkInv
  <1>3. QED
    BY <1>1, <1>2

LEMMA LinkFollow ==
  ASSUME BoardTypeOK, LinkInv, NEW c \in BoardCalls, FollowLink(c)
  PROVE  LinkInv'
  <1>0. /\ request[c].at = "follow" /\ link' = link /\ Done(c)
        /\ apart' = IF OthersBusy(c) \/ Cardinality(link) > 1
                    THEN apart \cup link ELSE apart
        /\ request[c].to \in Nat /\ Known(request[c].to) /\ request[c].of \in Lawsuits
    BY DEF FollowLink, BoardTypeOK, Asked, RequestRecords
  <1>1. CASE OthersBusy(c) \/ Cardinality(link) > 1
    <2>1. link' \subseteq apart'
      BY <1>0, <1>1
    <2>2. QED
      BY <2>1, AllApart
  <1>2. CASE link \subseteq apart
    <2>1. link' \subseteq apart'
      BY <1>0, <1>2
    <2>2. QED
      BY <2>1, AllApart
  <1>3. CASE ~OthersBusy(c) /\ ~(Cardinality(link) > 1) /\ ~(link \subseteq apart)
    <2>1. PICK m \in link : m \notin apart
      BY <1>3
    <2>2. link = {m} /\ m \in Lawsuits /\ Prov \in Lawsuits /\ m # Prov
      BY <1>3, LinkAlone, BoardAssumption DEF BoardTypeOK, Lawsuits
    <2>3. PICK F \in IF FollowersOf(c) = {} THEN {{}} ELSE FollowersOf(c) :
            Place(F, request[c].to)
      BY DEF FollowLink
    <2>4. \A l \in Lawsuits :
            IF l \in F
            THEN stage'[l] = StageByCode[request[c].to] /\ code'[l] = request[c].to
            ELSE stage'[l] = stage[l] /\ code'[l] = code[l]
      BY <1>0, <2>3, PlaceType
    <2>5. /\ stage[request[c].of] = StageByCode[request[c].to]
          /\ code[request[c].of] = request[c].to
      BY <1>0, <1>3 DEF LinkInv, MovedFirst, Moving
    <2>6. /\ OthersRest(c) /\ request'[c].at = "idle"
          /\ \A d \in BoardCalls \ {c} : request[d].at = "idle"
      BY <1>0, <1>3, DoneType DEF OthersBusy, Busy
    <2>7. \A d \in BoardCalls : request'[d].at = "idle"
      BY <2>6 DEF OthersRest
    <2>8. Agree(m)'
      <3>1. CASE request[c].of = Prov
        <4>1. FollowersOf(c) = {{m}}
          BY <2>2, <3>1 DEF FollowersOf
        <4>2. F = {m}
          BY <2>3, <4>1
        <4>3. QED
          BY <2>2, <2>4, <2>5, <3>1, <4>2 DEF Agree
      <3>2. CASE request[c].of = m
        <4>1. request[c].calls
          BY <1>0, <2>1, <2>2, <3>2 DEF LinkInv, KnowsLink, Asked
        <4>2. F = {Prov}
          BY <2>2, <2>3, <3>2, <4>1 DEF FollowersOf
        <4>3. QED
          BY <2>2, <2>4, <2>5, <3>2, <4>2 DEF Agree
      <3>3. CASE request[c].of \notin {m, Prov}
        <4>1. ~request[c].calls
          BY <1>0, <1>3, <2>2, <3>3 DEF LinkInv, KnowsLink, Asked
        <4>2. F = {}
          BY <2>3, <3>3, <4>1 DEF FollowersOf
        <4>3. Agree(m)
          BY <2>1, <2>6, <3>3 DEF LinkInv, AgreeOrMoving, Moving
        <4>4. QED
          BY <2>2, <2>4, <4>2, <4>3 DEF Agree
      <3>4. QED
        BY <3>1, <3>2, <3>3
    <2>9. MovedFirst' /\ KnowsLink'
      BY <2>7 DEF MovedFirst, KnowsLink, Moving, Asked
    <2>10. AgreeOrMoving'
      BY <1>0, <2>2, <2>8 DEF AgreeOrMoving
    <2>11. QED
      BY <2>9, <2>10 DEF LinkInv
  <1>4. QED
    BY <1>1, <1>2, <1>3

LEMMA LinkLink ==
  ASSUME BoardTypeOK, LinkInv, NEW c \in BoardCalls, LinkExecution(c)
  PROVE  LinkInv'
  <1> DEFINE m == request[c].of
  <1>0. /\ request[c].at = "link" /\ link' = link \cup {m} /\ Done(c)
        /\ apart' = IF ~OthersBusy(c) /\ Agree(m) THEN apart \ {m} ELSE apart \cup {m}
        /\ UNCHANGED <<stage, code>>
    BY DEF LinkExecution, Agree
  <1>1. OthersRest(c) /\ request'[c].at = "idle"
    BY <1>0, DoneType
  <1>2. \A n : Agree(n)' <=> Agree(n)
    BY <1>0 DEF Agree
  <1>3. CASE ~OthersBusy(c) /\ Agree(m)
    <2>1. \A d \in BoardCalls : request'[d].at = "idle" /\ ~Moving(d)
      BY <1>0, <1>1, <1>3 DEF OthersBusy, Busy, OthersRest, Moving
    <2>2. MovedFirst' /\ KnowsLink'
      BY <2>1 DEF MovedFirst, KnowsLink, Moving, Asked
    <2>3. \A n \in link' \ apart' : n = m \/ n \in link \ apart
      BY <1>0, <1>3
    <2>4. \A n \in link \ apart : Agree(n)
      BY <2>1 DEF LinkInv, AgreeOrMoving
    <2>5. AgreeOrMoving'
      BY <1>2, <1>3, <2>3, <2>4 DEF AgreeOrMoving
    <2>6. QED
      BY <2>2, <2>5 DEF LinkInv
  <1>4. CASE ~(~OthersBusy(c) /\ Agree(m))
    <2>1. apart' = apart \cup {m}
      BY <1>0, <1>4
    <2>2. /\ link \subseteq apart => link' \subseteq apart'
          /\ link' \ apart' \subseteq link \ apart
      BY <1>0, <2>1
    <2>3. \A d \in BoardCalls : request'[d] = IF d = c THEN request'[c] ELSE request[d]
      BY <1>1 DEF OthersRest
    <2>4. MovedFirst'
      <3> SUFFICES ASSUME NEW d \in BoardCalls, Moving(d)', ~(link' \subseteq apart')
                   PROVE  /\ stage[request'[d].of] = StageByCode[request'[d].to]
                          /\ code[request'[d].of] = request'[d].to
        BY <1>0 DEF MovedFirst
      <3>1. d # c /\ request'[d] = request[d] /\ Moving(d)
        BY <1>1, <2>3 DEF Moving
      <3>2. ~(link \subseteq apart)
        BY <2>2
      <3>3. QED
        BY <3>1, <3>2 DEF LinkInv, MovedFirst
    <2>5. KnowsLink'
      <3> SUFFICES ASSUME NEW d \in BoardCalls, Asked(d)', request'[d].of # Prov
                   PROVE  /\ request'[d].of \in link' \ apart' => request'[d].calls
                          /\ request'[d].calls /\ request'[d].of \notin link'
                               => link' \subseteq apart'
        BY DEF KnowsLink
      <3>1. d # c /\ request'[d] = request[d] /\ Asked(d)
        BY <1>1, <2>3 DEF Asked
      <3>2. /\ request[d].of \in link \ apart => request[d].calls
            /\ request[d].calls /\ request[d].of \notin link => link \subseteq apart
        BY <3>1 DEF LinkInv, KnowsLink
      <3>3. request[d].of \notin link' => request[d].of \notin link
        BY <1>0
      <3>4. QED
        BY <2>2, <3>1, <3>2, <3>3
    <2>6. AgreeOrMoving'
      <3> SUFFICES ASSUME NEW n \in link' \ apart'
                   PROVE  \/ Agree(n)'
                          \/ \E d \in BoardCalls : Moving(d)' /\ request'[d].of \in {n, Prov}
        BY DEF AgreeOrMoving
      <3>1. n \in link \ apart
        BY <2>2
      <3>2. CASE Agree(n)
        BY <1>2, <3>2
      <3>3. ASSUME NEW d \in BoardCalls, Moving(d), request[d].of \in {n, Prov}
            PROVE  Moving(d)' /\ request'[d].of \in {n, Prov}
        BY <1>0, <2>3, <3>3 DEF Moving
      <3>4. QED
        BY <3>1, <3>2, <3>3 DEF LinkInv, AgreeOrMoving
    <2>7. QED
      BY <2>4, <2>5, <2>6 DEF LinkInv
  <1>5. QED
    BY <1>3, <1>4

LEMMA LinkAsked ==
  ASSUME BoardTypeOK, LinkInv, NEW c \in BoardCalls, ChangeStage(c)
  PROVE  LinkInv'
  <1>1. /\ OthersRest(c) /\ request[c].at = "idle" /\ request'[c].at = "write"
        /\ request'[c].calls = (request'[c].of \in link)
        /\ UNCHANGED <<stage, code, link, apart>>
    BY ChangeStageType DEF boardData, boardHistory
  <1>2. \A d \in BoardCalls : request'[d] = IF d = c THEN request'[c] ELSE request[d]
    BY <1>1 DEF OthersRest
  <1>3. MovedFirst'
    BY <1>1, <1>2 DEF LinkInv, MovedFirst, Moving
  <1>4. KnowsLink'
    BY <1>1, <1>2 DEF LinkInv, KnowsLink, Asked
  <1>5. AgreeOrMoving'
    <2> SUFFICES ASSUME NEW m \in link \ apart
                 PROVE  \/ Agree(m)'
                        \/ \E d \in BoardCalls : Moving(d)' /\ request'[d].of \in {m, Prov}
      BY <1>1 DEF AgreeOrMoving
    <2>1. CASE Agree(m)
      BY <1>1, <2>1 DEF Agree
    <2>2. ASSUME NEW d \in BoardCalls, Moving(d), request[d].of \in {m, Prov}
          PROVE  Moving(d)' /\ request'[d].of \in {m, Prov}
      BY <1>1, <1>2, <2>2 DEF Moving
    <2>3. QED
      BY <2>1, <2>2 DEF LinkInv, AgreeOrMoving
  <1>6. QED
    BY <1>3, <1>4, <1>5 DEF LinkInv

LEMMA LinkFails ==
  ASSUME BoardTypeOK, LinkInv, NEW c \in BoardCalls, BoardStepFails(c)
  PROVE  LinkInv'
  <1>1. /\ Done(c) /\ UNCHANGED <<stage, code, link>>
        /\ apart' = apart \cup (IF Moving(c) THEN link ELSE {})
    BY DEF BoardStepFails, Moving, boardData
  <1>2. CASE Moving(c)
    <2>1. link' \subseteq apart'
      BY <1>1, <1>2
    <2>2. QED
      BY <2>1, AllApart
  <1>3. CASE ~Moving(c)
    <2>1. OthersRest(c) /\ ~Asked(c)'
      BY <1>1, DoneType DEF Asked
    <2>2. QED
      BY <1>1, <1>3, <2>1, LinkSame
  <1>4. QED
    BY <1>2, <1>3

\* A main that calls the execution no more leaves nothing to follow: a change
\* of stage that read it calling would still move the execution.
LEMMA LinkRemove ==
  ASSUME BoardTypeOK, LinkInv, RemoveProvisionalNumber
  PROVE  LinkInv'
  <1>1. /\ link' \subseteq link /\ UNCHANGED <<stage, code, request>>
        /\ apart' = IF \E c \in BoardCalls : Busy(c) THEN apart \cup link ELSE apart
    BY DEF RemoveProvisionalNumber
  <1>2. CASE \E c \in BoardCalls : Busy(c)
    <2>1. link' \subseteq apart'
      BY <1>1, <1>2
    <2>2. QED
      BY <2>1, AllApart
  <1>3. CASE ~\E c \in BoardCalls : Busy(c)
    <2>1. \A c \in BoardCalls : request[c].at = "idle" /\ request'[c].at = "idle"
      BY <1>1, <1>3 DEF Busy
    <2>2. MovedFirst' /\ KnowsLink'
      BY <2>1 DEF MovedFirst, KnowsLink, Moving, Asked
    <2>3. \A m \in link \ apart : Agree(m)
      BY <2>1 DEF LinkInv, AgreeOrMoving, Moving
    <2>4. AgreeOrMoving'
      BY <1>1, <1>3, <2>3 DEF AgreeOrMoving, Agree
    <2>5. QED
      BY <2>2, <2>4 DEF LinkInv
  <1>4. QED
    BY <1>2, <1>3

LEMMA LinkStep == BoardTypeOK /\ LinkInv /\ [BoardNext]_boardVars => LinkInv'
  <1> SUFFICES ASSUME BoardTypeOK, LinkInv, [BoardNext]_boardVars PROVE LinkInv'
    OBVIOUS
  <1>1. ASSUME NEW c \in BoardCalls, FindDecision(c) PROVE LinkInv'
    <2>1. Moving(c) /\ Moving(c)' /\ UNCHANGED <<stage, code, link, apart>>
      BY <1>1, FindDecisionType DEF FindDecision, Moving, boardData
    <2>2. QED
      BY <1>1, <2>1, FindDecisionType, LinkSame
  <1>2. ASSUME NEW c \in BoardCalls, SaveDecision(c) PROVE LinkInv'
    <2>1. On(c, "follow") /\ Moving(c) /\ UNCHANGED <<stage, code, link, apart>>
      BY <1>2 DEF SaveDecision, Moving
    <2>2. Moving(c)'
      BY <2>1, OnType DEF Moving, Places
    <2>3. QED
      BY <2>1, <2>2, OnType, LinkSame DEF Places
  <1>3. ASSUME NEW c \in BoardCalls, BulkUpdate(c) PROVE LinkInv'
    <2>1. ~Moving(c) /\ ~Asked(c)' /\ UNCHANGED <<stage, code, link, apart>>
      BY <1>3, BulkUpdateType DEF Moving, Asked, boardData, boardHistory
    <2>2. QED
      BY <1>3, <2>1, BulkUpdateType, LinkSame
  <1>4. ASSUME NEW c \in BoardCalls, UpdateMany(c) PROVE LinkInv'
    <2>0. link' = link
      BY <1>4 DEF UpdateMany
    <2>1. link' = link /\ request[c].at = "many"
      BY <1>4, <2>0, Zenon DEF UpdateMany
    <2>2. CASE On(c, "retire") /\ UNCHANGED <<apart, stage, code>>
      <3>1. OthersRest(c) /\ ~Moving(c) /\ ~Asked(c)'
        BY <2>1, <2>2, OnType DEF Places, Moving, Asked
      <3>2. QED
        BY <2>1, <2>2, <3>1, LinkSame
    <2>3. CASE apart' = apart \cup link
      <3>1. link' \subseteq apart'
        BY <2>1, <2>3
      <3>2. QED
        BY <3>1, AllApart
    <2>4. QED
      BY <1>4, <2>2, <2>3, UpdateManyType
  <1>5. ASSUME NEW c \in BoardCalls, RetireOwners(c) PROVE LinkInv'
    <2>1. /\ On(c, "appoint") /\ request[c].at = "retire"
          /\ UNCHANGED <<stage, code, link, apart>>
      BY <1>5 DEF RetireOwners, boardHistory
    <2>2. OthersRest(c) /\ ~Moving(c) /\ ~Asked(c)'
      BY <2>1, OnType DEF Places, Moving, Asked
    <2>3. QED
      BY <2>1, <2>2, LinkSame
  <1>6. ASSUME NEW c \in BoardCalls, AppointOwners(c) PROVE LinkInv'
    <2>1. /\ Done(c) /\ request[c].at = "appoint"
          /\ UNCHANGED <<stage, code, link, apart>>
      BY <1>6 DEF AppointOwners
    <2>2. OthersRest(c) /\ ~Moving(c) /\ ~Asked(c)'
      BY <2>1, DoneType DEF Moving, Asked
    <2>3. QED
      BY <2>1, <2>2, LinkSame
  <1>7. ASSUME NEW c \in BoardCalls, InsertExecution(c) PROVE LinkInv'
    <2>1. ~Moving(c) /\ ~Asked(c)' /\ UNCHANGED <<stage, code, link, apart>>
      BY <1>7, InsertExecutionType DEF Moving, Asked, boardData, boardHistory
    <2>2. QED
      BY <1>7, <2>1, InsertExecutionType, LinkSame
  <1>8. ASSUME UNCHANGED <<stage, code, link, apart, request>> PROVE LinkInv'
    BY <1>8 DEF LinkInv, MovedFirst, KnowsLink, AgreeOrMoving, Moving, Asked, Agree
  <1>9. QED
    BY <1>1, <1>2, <1>3, <1>4, <1>5, <1>6, <1>7, <1>8, LinkAsked, LinkWrite,
       LinkFollow, LinkLink, LinkFails, LinkRemove
       DEF BoardNext, boardVars, boardData, boardHistory

\* A change of stage carries a main and the execution it calls along, for any
\* number of requests, whichever of the two is moved and by whatever code.
THEOREM Links == BoardSpec => []LinkedAtOneStage
  <1>1. BoardInit => LinkInv
    BY DEF BoardInit, LinkInv, MovedFirst, KnowsLink, AgreeOrMoving, Moving, Asked,
           NoRequest
  <1>2. LinkInv => LinkedAtOneStage
    BY DEF LinkInv, AgreeOrMoving, LinkedAtOneStage, Busy, Moving, Agree
  <1>3. QED
    BY <1>1, <1>2, LinkStep, TypeCorrect, PTL DEF BoardSpec
-----------------------------------------------------------------------------
(* The history of the stages.  While a lawsuit is neither raced nor given a *)
(* stage without a record, one request at a time is between its write and   *)
(* its record, and the stage it read is the one the history ends with.      *)

Entries == [stage : Stages, stage_id : DOMAIN StageByCode]
Histories == Seq(Entries) \ {<<>>}

Changing(c, l) == request[c].at \in {"write", "decide", "record"} /\ request[c].of = l
Recording(c, l) == request[c].at \in {"decide", "record"} /\ request[c].of = l

LastCode(h) == h[Len(h)].stage_id
NoGap(h) == \A i \in 1..Len(h) - 1 : h[i + 1].stage = StageByCode[h[i].stage_id]

\* At most one document, and whoever records knows whether it is there.
OneDocument(l) ==
    /\ Len(decisions[l]) <= 1
    /\ \A c, d \in BoardCalls : Recording(c, l) /\ Recording(d, l) => c = d
    /\ \A c \in BoardCalls : Recording(c, l) /\ request[c].at = "record" =>
         request[c].doc = (decisions[l] # <<>>)

\* Who changes the lawsuit has read the stage its next entry is to start at.
ReadsTheEnd(c, l) ==
    /\ request[c].at = "write" /\ request[c].of = l => request[c].read = stage[l]
    /\ Recording(c, l) => request[c].to = code[l]
    /\ Recording(c, l) /\ decisions[l] # <<>> =>
         request[c].read = StageByCode[LastCode(decisions[l][1])]

Told(l) ==
    /\ Known(code[l]) /\ stage[l] = StageByCode[code[l]]
    /\ \A c \in BoardCalls : ReadsTheEnd(c, l)
    /\ decisions[l] # <<>> =>
         /\ NoGap(decisions[l][1])
         /\ \/ LastCode(decisions[l][1]) = code[l]
            \/ \E c \in BoardCalls : Recording(c, l)

HistoryInv ==
    /\ decisions \in [Lawsuits -> Seq(Histories)]
    /\ \A l \in Lawsuits \ raced : OneDocument(l)
    /\ \A l \in Lawsuits \ (raced \cup undocumented) : Told(l)

\* A history grows by an entry that starts where it ended.
LEMMA HistoryGrows ==
  ASSUME NEW h \in Histories, NEW e \in Entries
  PROVE  /\ Append(h, e) \in Histories
         /\ LastCode(Append(h, e)) = e.stage_id
         /\ NoGap(h) /\ e.stage = StageByCode[LastCode(h)] => NoGap(Append(h, e))
  <1>1. /\ h \in Seq(Entries) /\ h # <<>> /\ Len(h) \in Nat \ {0}
    BY EmptySeq, LenProperties DEF Histories
  <1>2. /\ Append(h, e) \in Seq(Entries) /\ Append(h, e) # <<>>
        /\ Len(Append(h, e)) = Len(h) + 1
        /\ \A i \in 1..Len(h) : Append(h, e)[i] = h[i]
        /\ Append(h, e)[Len(h) + 1] = e
    BY <1>1, AppendProperties
  <1>3. LastCode(Append(h, e)) = e.stage_id
    BY <1>2 DEF LastCode
  <1>4. ASSUME NoGap(h), e.stage = StageByCode[LastCode(h)]
        PROVE  NoGap(Append(h, e))
    <2> SUFFICES ASSUME NEW i \in 1..Len(h)
                 PROVE  Append(h, e)[i + 1].stage
                          = StageByCode[Append(h, e)[i].stage_id]
      BY <1>1, <1>2 DEF NoGap
    <2>1. CASE i = Len(h)
      BY <1>1, <1>2, <1>4, <2>1 DEF LastCode
    <2>2. CASE i # Len(h)
      <3>1. i \in 1..Len(h) - 1 /\ i + 1 \in 1..Len(h)
        BY <1>1, <2>2
      <3>2. h[i + 1].stage = StageByCode[h[i].stage_id]
        BY <1>4, <3>1 DEF NoGap
      <3>3. QED
        BY <1>2, <3>1, <3>2
    <2>3. QED
      BY <2>1, <2>2
  <1>5. QED
    BY <1>2, <1>3, <1>4 DEF Histories

LEMMA HistoryBegins ==
  ASSUME NEW e \in Entries
  PROVE  <<e>> \in Histories /\ LastCode(<<e>>) = e.stage_id /\ NoGap(<<e>>)
  <1>1. <<e>> \in Seq(Entries) /\ <<e>> # <<>> /\ Len(<<e>>) = 1 /\ <<e>>[1] = e
    OBVIOUS
  <1>2. QED
    BY <1>1 DEF Histories, LastCode, NoGap

\* What saving an entry does to the documents of a lawsuit.
LEMMA DocumentsGrow ==
  ASSUME NEW s \in Seq(Histories), NEW e \in Entries
  PROVE  /\ [s EXCEPT ![1] = Append(s[1], e)] \in Seq(Histories)
         /\ Append(s, <<e>>) \in Seq(Histories)
         /\ Len(s) <= 1 /\ s # <<>> =>
              /\ Len([s EXCEPT ![1] = Append(s[1], e)]) = 1
              /\ [s EXCEPT ![1] = Append(s[1], e)][1] = Append(s[1], e)
              /\ s[1] \in Histories
         /\ s = <<>> => Append(s, <<e>>) = <<<<e>>>>
  <1>1. Len(s) \in Nat /\ (s = <<>> <=> Len(s) = 0)
    BY EmptySeq, LenProperties
  <1>2. Append(s, <<e>>) \in Seq(Histories)
    BY HistoryBegins, AppendProperties
  <1>3. CASE s = <<>>
    <2>1. DOMAIN s = {}
      BY <1>3
    <2>2. [s EXCEPT ![1] = Append(s[1], e)] = s
      BY <2>1
    <2>3. Append(s, <<e>>) = <<<<e>>>>
      BY <1>3
    <2>4. QED
      BY <1>2, <1>3, <2>2, <2>3
  <1>4. CASE s # <<>>
    <2>1. 1 \in 1..Len(s)
      BY <1>1, <1>4
    <2>2. s[1] \in Histories
      BY <2>1, ElementOfSeq
    <2>3. Append(s[1], e) \in Histories
      BY <2>2, HistoryGrows
    <2>4. /\ [s EXCEPT ![1] = Append(s[1], e)] \in Seq(Histories)
          /\ Len([s EXCEPT ![1] = Append(s[1], e)]) = Len(s)
          /\ [s EXCEPT ![1] = Append(s[1], e)][1] = Append(s[1], e)
      BY <2>1, <2>3, ExceptSeq
    <2>6. QED
      BY <1>1, <1>2, <1>4, <2>2, <2>4
  <1>5. QED
    BY <1>3, <1>4

\* A call that does not record leaves the documents of a lawsuit alone.
LEMMA OneDocumentSame ==
  ASSUME NEW l \in Lawsuits, NEW c \in BoardCalls, OneDocument(l), OthersRest(c),
         decisions'[l] = decisions[l], ~Recording(c, l)'
  PROVE  OneDocument(l)'
  BY DEF OneDocument, Recording, OthersRest

LEMMA ToldSame ==
  ASSUME NEW l \in Lawsuits, NEW c \in BoardCalls, Told(l), OthersRest(c),
         decisions'[l] = decisions[l], stage'[l] = stage[l], code'[l] = code[l],
         ~Recording(c, l), ~Recording(c, l)',
         request'[c].at = "write" /\ request'[c].of = l => request'[c].read = stage[l]
  PROVE  Told(l)'
  <1>1. ReadsTheEnd(c, l)'
    BY DEF ReadsTheEnd, Recording
  <1>2. \A d \in BoardCalls \ {c} : ReadsTheEnd(d, l)' /\ (Recording(d, l)' <=> Recording(d, l))
    BY DEF Told, ReadsTheEnd, Recording, OthersRest
  <1>3. QED
    BY <1>1, <1>2 DEF Told

\* Neither before nor after the step does its call record, unless it leaves a
\* lawsuit undocumented.
LEMMA HistorySame ==
  ASSUME BoardTypeOK, HistoryInv, NEW c \in BoardCalls, OthersRest(c),
         decisions' = decisions, raced' = raced, undocumented \subseteq undocumented',
         request'[c].at \notin {"decide", "record"},
         request'[c].at = "write" => request'[c].read = stage[request'[c].of],
         \A l \in Lawsuits \ undocumented' :
            ~Recording(c, l) /\ stage'[l] = stage[l] /\ code'[l] = code[l]
  PROVE  HistoryInv'
  <1>1. \A l : ~Recording(c, l)'
    BY DEF Recording
  <1>2. \A l \in Lawsuits \ raced' : OneDocument(l)'
    BY <1>1, OneDocumentSame DEF HistoryInv
  <1>3. \A l \in Lawsuits \ (raced' \cup undocumented') : Told(l)'
    BY <1>1, ToldSame DEF HistoryInv
  <1>4. QED
    BY <1>2, <1>3 DEF HistoryInv

LEMMA HistoryWrite ==
  ASSUME BoardTypeOK, HistoryInv, NEW c \in BoardCalls, WriteStage(c)
  PROVE  HistoryInv'
  <1>a. request[c].of \in Lawsuits /\ request[c].to \in Nat
    BY DEF BoardTypeOK, RequestRecords
  <1>b. PICK m \in Lawsuits, k \in Nat : m = request[c].of /\ k = request[c].to
    BY <1>a
  <1>0. /\ request[c].at = "write" /\ Place({m}, k) /\ On(c, "decide")
        /\ raced' = IF AlsoChanging(c) THEN raced \cup {m} ELSE raced
        /\ UNCHANGED <<decisions, undocumented>>
        /\ Known(k)
    BY <1>b DEF WriteStage, BoardTypeOK, Asked
  <1>1. /\ OthersRest(c) /\ request'[c].at = "decide" /\ request'[c].of = m
        /\ request'[c].to = k /\ request'[c].read = request[c].read
    BY <1>0, <1>b, OnType DEF Places
  <1>2. \A l \in Lawsuits :
          IF l = m THEN stage'[l] = StageByCode[k] /\ code'[l] = k
                   ELSE stage'[l] = stage[l] /\ code'[l] = code[l]
    BY <1>0, PlaceType
  <1>3. raced \subseteq raced' /\ \A l : l # m => (l \in raced' <=> l \in raced)
    BY <1>0
  <1>4. \A l : ~Recording(c, l)
    BY <1>0 DEF Recording
  <1>5. \A l : l # m => ~Recording(c, l)'
    BY <1>1 DEF Recording
  <1>6. ASSUME NEW l \in Lawsuits, l # m, l \notin raced'
        PROVE  /\ OneDocument(l)'
               /\ l \notin undocumented' => Told(l)'
    <2>1. l \notin raced /\ OneDocument(l) /\ (l \notin undocumented => Told(l))
      BY <1>3, <1>6 DEF HistoryInv
    <2>2. OneDocument(l)'
      BY <1>0, <1>1, <1>5, <1>6, <2>1, OneDocumentSame
    <2>3. Told(l) => Told(l)'
      BY <1>0, <1>1, <1>2, <1>4, <1>5, <1>6, ToldSame
    <2>4. QED
      BY <1>0, <2>1, <2>2, <2>3
  <1>7. ASSUME m \notin raced'
        PROVE  /\ OneDocument(m)'
               /\ m \notin undocumented' => Told(m)'
    <2>1. m \notin raced /\ ~AlsoChanging(c)
      BY <1>0, <1>7
    <2>2. \A d \in BoardCalls \ {c} : ~Changing(d, m) /\ ~Changing(d, m)'
      BY <1>1, <1>b, <2>1 DEF AlsoChanging, Changing, OthersRest
    <2>3. OneDocument(m)'
      <3>1. \A d \in BoardCalls : Recording(d, m)' => d = c
        BY <2>2 DEF Recording, Changing
      <3>2. Len(decisions[m]) <= 1
        BY <1>0, <2>1 DEF HistoryInv, OneDocument
      <3>3. QED
        BY <1>0, <1>1, <3>1, <3>2 DEF OneDocument
    <2>4. ASSUME m \notin undocumented' PROVE Told(m)'
      <3>1. Told(m)
        BY <1>0, <2>1, <2>4 DEF HistoryInv
      <3>2. request[c].read = StageByCode[code[m]]
        BY <1>0, <1>b, <3>1 DEF Told, ReadsTheEnd
      <3>3. decisions[m] # <<>> =>
              NoGap(decisions[m][1]) /\ LastCode(decisions[m][1]) = code[m]
        BY <1>4, <2>2, <3>1 DEF Told, Recording, Changing
      <3>4. ReadsTheEnd(c, m)'
        BY <1>0, <1>1, <1>2, <3>2, <3>3 DEF ReadsTheEnd
      <3>5. \A d \in BoardCalls \ {c} : ReadsTheEnd(d, m)'
        BY <2>2 DEF ReadsTheEnd, Recording, Changing
      <3>6. Recording(c, m)'
        BY <1>1 DEF Recording
      <3>7. Known(code'[m]) /\ stage'[m] = StageByCode[code'[m]]
        BY <1>0, <1>2
      <3>8. decisions' = decisions
        BY <1>0
      <3>9. QED
        BY <3>3, <3>4, <3>5, <3>6, <3>7, <3>8 DEF Told
    <2>5. QED
      BY <2>3, <2>4
  <1>8. QED
    BY <1>0, <1>6, <1>7 DEF HistoryInv

LEMMA HistoryFind ==
  ASSUME BoardTypeOK, HistoryInv, NEW c \in BoardCalls, FindDecision(c)
  PROVE  HistoryInv'
  <1> DEFINE m == request[c].of
  <1>0. /\ request[c].at = "decide" /\ m \in Lawsuits
        /\ raced \subseteq raced'
        /\ UNCHANGED <<stage, code, decisions, undocumented>>
    BY DEF FindDecision, BoardTypeOK, RequestRecords, boardData
  <1>1. /\ OthersRest(c) /\ request'[c].at = "record" /\ request'[c].of = m
        /\ request'[c].to = request[c].to /\ request'[c].read = request[c].read
        /\ request'[c].doc = (decisions[m] # <<>>)
    BY FindDecisionType
  <1>2. \A d \in BoardCalls, l \in Lawsuits :
          /\ Recording(d, l)' <=> Recording(d, l)
          /\ ReadsTheEnd(d, l) => ReadsTheEnd(d, l)'
    BY <1>0, <1>1 DEF Recording, ReadsTheEnd, OthersRest
  <1>3. ASSUME NEW l \in Lawsuits, OneDocument(l) PROVE OneDocument(l)'
    <2>1. \A d \in BoardCalls : Recording(d, l)' /\ request'[d].at = "record" =>
            request'[d].doc = (decisions[l] # <<>>)
      BY <1>0, <1>1, <1>3 DEF OneDocument, Recording, OthersRest
    <2>2. QED
      BY <1>0, <1>2, <1>3, <2>1 DEF OneDocument
  <1>4. ASSUME NEW l \in Lawsuits, Told(l) PROVE Told(l)'
    BY <1>0, <1>2, <1>4 DEF Told
  <1>5. QED
    BY <1>0, <1>3, <1>4 DEF HistoryInv

LEMMA HistorySave ==
  ASSUME BoardTypeOK, HistoryInv, NEW c \in BoardCalls, SaveDecision(c)
  PROVE  HistoryInv'
  <1>a. request[c] \in RequestRecords /\ request[c].at = "record"
    BY DEF BoardTypeOK, SaveDecision
  <1>b. PICK m \in Lawsuits : m = request[c].of
    BY <1>a DEF RequestRecords
  <1>c. PICK e \in Entries : e = Entry(c) /\ e.stage = request[c].read
                                          /\ e.stage_id = request[c].to
    <2>1. request[c].read \in Stages /\ request[c].to \in DOMAIN StageByCode
      BY <1>a DEF RequestRecords, BoardTypeOK, Asked, Known
    <2>2. /\ Entry(c) = [stage |-> request[c].read, stage_id |-> request[c].to]
          /\ Entry(c) \in [stage : Stages, stage_id : DOMAIN StageByCode]
      BY <2>1 DEF Entry
    <2>3. Entry(c).stage = request[c].read /\ Entry(c).stage_id = request[c].to
      BY <2>2
    <2>4. QED
      BY <2>2, <2>3 DEF Entries
  <1>d. PICK s \in Seq(Histories) : s = decisions[m]
    BY DEF HistoryInv
  <1>0. /\ decisions' = [decisions EXCEPT ![m] =
             IF request[c].doc THEN [s EXCEPT ![1] = Append(s[1], e)]
                               ELSE Append(s, <<e>>)]
        /\ raced' = IF AlsoChanging(c) THEN raced \cup {m} ELSE raced
        /\ On(c, "follow")
        /\ UNCHANGED <<stage, code, undocumented>>
    BY <1>b, <1>c, <1>d DEF SaveDecision
  <1>1. /\ decisions'[m] = IF request[c].doc THEN [s EXCEPT ![1] = Append(s[1], e)]
                                            ELSE Append(s, <<e>>)
        /\ \A l \in Lawsuits : l # m => decisions'[l] = decisions[l]
        /\ decisions' \in [Lawsuits -> Seq(Histories)]
    <2>1. /\ [s EXCEPT ![1] = Append(s[1], e)] \in Seq(Histories)
          /\ Append(s, <<e>>) \in Seq(Histories)
      BY DocumentsGrow
    <2> DEFINE t == IF request[c].doc THEN [s EXCEPT ![1] = Append(s[1], e)]
                                      ELSE Append(s, <<e>>)
    <2>2. t \in Seq(Histories)
      BY <2>1
    <2>3. decisions' = [decisions EXCEPT ![m] = t]
      BY <1>0
    <2> HIDE DEF t
    <2>4. /\ decisions'[m] = t /\ decisions' \in [Lawsuits -> Seq(Histories)]
          /\ \A l \in Lawsuits : l # m => decisions'[l] = decisions[l]
      BY <2>2, <2>3 DEF HistoryInv
    <2>5. QED
      BY <2>4 DEF t
  <1>2. OthersRest(c) /\ request'[c].at = "follow" /\ request'[c].of = m
    BY <1>0, <1>b, OnType DEF Places
  <1>3. raced \subseteq raced' /\ \A l : l # m => (l \in raced' <=> l \in raced)
    BY <1>0
  <1>4. \A l : ~Recording(c, l)' /\ (l # m => ~Recording(c, l))
    BY <1>2, <1>b DEF Recording
  <1>5. ASSUME NEW l \in Lawsuits, l # m, l \notin raced'
        PROVE  /\ OneDocument(l)'
               /\ l \notin undocumented' => Told(l)'
    <2>1. l \notin raced /\ OneDocument(l) /\ (l \notin undocumented => Told(l))
      BY <1>3, <1>5 DEF HistoryInv
    <2>2. OneDocument(l)'
      BY <1>1, <1>2, <1>4, <1>5, <2>1, OneDocumentSame
    <2>3. Told(l) => Told(l)'
      BY <1>0, <1>1, <1>2, <1>4, <1>5, ToldSame
    <2>4. QED
      BY <1>0, <2>1, <2>2, <2>3
  <1>6. ASSUME m \notin raced'
        PROVE  /\ OneDocument(m)'
               /\ m \notin undocumented' => Told(m)'
    <2>1. m \notin raced /\ ~AlsoChanging(c)
      BY <1>0, <1>6
    <2>2. \A d \in BoardCalls : ~Changing(d, m)'
      BY <1>2, <1>b, <2>1 DEF AlsoChanging, Changing, OthersRest
    <2>3. \A d \in BoardCalls : ~Recording(d, m)' /\ ReadsTheEnd(d, m)'
      BY <2>2 DEF Recording, Changing, ReadsTheEnd
    <2>4. Recording(c, m)
      BY <1>a, <1>b DEF Recording
    <2>5. Len(s) <= 1 /\ request[c].doc = (s # <<>>)
      BY <1>a, <1>d, <2>1, <2>4 DEF HistoryInv, OneDocument
    <2>6. PICK h \in Histories :
            /\ decisions'[m][1] = h /\ Len(decisions'[m]) = 1 /\ LastCode(h) = e.stage_id
            /\ s # <<>> => h = Append(s[1], e) /\ s[1] \in Histories
            /\ s = <<>> => NoGap(h)
      <3>1. CASE s # <<>>
        <4>1. /\ s[1] \in Histories /\ Len(decisions'[m]) = 1
              /\ decisions'[m][1] = Append(s[1], e)
          <5>1. decisions'[m] = [s EXCEPT ![1] = Append(s[1], e)]
            BY <1>1, <2>5, <3>1
          <5>2. /\ Len([s EXCEPT ![1] = Append(s[1], e)]) = 1
                /\ [s EXCEPT ![1] = Append(s[1], e)][1] = Append(s[1], e)
                /\ s[1] \in Histories
            BY <2>5, <3>1, DocumentsGrow
          <5>3. QED
            BY <5>1, <5>2
        <4>2. QED
          BY <3>1, <4>1, HistoryGrows
      <3>2. CASE s = <<>>
        <4>1. decisions'[m] = <<<<e>>>>
          BY <1>1, <2>5, <3>2, DocumentsGrow
        <4>2. Len(decisions'[m]) = 1 /\ decisions'[m][1] = <<e>>
          BY <4>1
        <4>3. QED
          BY <3>2, <4>2, HistoryBegins
      <3>3. QED
        BY <3>1, <3>2
    <2>7. OneDocument(m)'
      BY <2>3, <2>6 DEF OneDocument
    <2>8. ASSUME m \notin undocumented' PROVE Told(m)'
      <3>1. Told(m)
        BY <1>0, <2>1, <2>8 DEF HistoryInv
      <3>2. request[c].to = code[m] /\
            (s # <<>> => NoGap(s[1]) /\ request[c].read = StageByCode[LastCode(s[1])])
        BY <1>d, <2>4, <3>1 DEF Told, ReadsTheEnd
      <3>3. NoGap(h) /\ LastCode(h) = code[m]
        BY <1>c, <2>6, <3>2, HistoryGrows
      <3>4. Known(code'[m]) /\ stage'[m] = StageByCode[code'[m]] /\ code'[m] = code[m]
        BY <1>0, <3>1 DEF Told
      <3>5. QED
        BY <2>3, <2>6, <3>3, <3>4 DEF Told
    <2>9. QED
      BY <2>7, <2>8
  <1>7. QED
    BY <1>1, <1>5, <1>6 DEF HistoryInv

LEMMA HistoryStep == BoardTypeOK /\ HistoryInv /\ [BoardNext]_boardVars => HistoryInv'
  <1> SUFFICES ASSUME BoardTypeOK, HistoryInv, [BoardNext]_boardVars PROVE HistoryInv'
    OBVIOUS
  <1>1. ASSUME NEW c \in BoardCalls,
               ChangeStage(c) \/ BulkUpdate(c) \/ InsertExecution(c)
        PROVE  HistoryInv'
    <2>1. /\ OthersRest(c) /\ request[c].at = "idle"
          /\ request'[c].at \in {"write", "many", "link"}
          /\ request'[c].at = "write" => request'[c].read = stage[request'[c].of]
          /\ UNCHANGED <<stage, code, decisions, raced, undocumented>>
      BY <1>1, ChangeStageType, BulkUpdateType, InsertExecutionType
         DEF boardData, boardHistory
    <2>2. QED
      BY <2>1, HistorySame DEF Recording
  <1>2. ASSUME NEW c \in BoardCalls, FollowLink(c) PROVE HistoryInv'
    <2>1. PICK F \in IF FollowersOf(c) = {} THEN {{}} ELSE FollowersOf(c) :
            Place(F, request[c].to) /\ undocumented' = undocumented \cup F
      BY <1>2 DEF FollowLink
    <2>2. /\ Done(c) /\ UNCHANGED <<decisions, raced>> /\ request[c].at = "follow"
          /\ Known(request[c].to) /\ request[c].to \in Nat
      BY <1>2 DEF FollowLink, BoardTypeOK, Asked, RequestRecords
    <2>3. \A l \in Lawsuits \ undocumented' : stage'[l] = stage[l] /\ code'[l] = code[l]
      BY <2>1, <2>2, PlaceType
    <2>4. QED
      BY <2>1, <2>2, <2>3, DoneType, HistorySame DEF Recording
  <1>3. ASSUME NEW c \in BoardCalls, UpdateMany(c) PROVE HistoryInv'
    <2>1. /\ undocumented \subseteq undocumented'
          /\ \A l \in Lawsuits \ undocumented' : stage'[l] = stage[l] /\ code'[l] = code[l]
          /\ On(c, "retire") \/ Done(c)
      BY <1>3, UpdateManyType
    <2>2. OthersRest(c) /\ request'[c].at \in {"retire", "idle"}
      BY <2>1, OnType, DoneType DEF Places
    <2>3. request[c].at = "many" /\ UNCHANGED <<decisions, raced>>
      BY <1>3 DEF UpdateMany
    <2>4. QED
      BY <2>1, <2>2, <2>3, HistorySame DEF Recording
  <1>4. ASSUME NEW c \in BoardCalls, RetireOwners(c) PROVE HistoryInv'
    <2>1. /\ On(c, "appoint") /\ request[c].at = "retire"
          /\ UNCHANGED <<stage, code, decisions, raced, undocumented>>
      BY <1>4 DEF RetireOwners, boardHistory
    <2>2. OthersRest(c) /\ request'[c].at = "appoint"
      BY <2>1, OnType DEF Places
    <2>3. QED
      BY <2>1, <2>2, HistorySame DEF Recording
  <1>5. ASSUME NEW c \in BoardCalls, AppointOwners(c) \/ LinkExecution(c) PROVE HistoryInv'
    <2>1. /\ Done(c) /\ request[c].at \in {"appoint", "link"}
          /\ UNCHANGED <<stage, code, decisions, raced, undocumented>>
      BY <1>5 DEF AppointOwners, LinkExecution
    <2>2. QED
      BY <2>1, DoneType, HistorySame DEF Recording
  <1>6. ASSUME NEW c \in BoardCalls, BoardStepFails(c) PROVE HistoryInv'
    <2>1. /\ Done(c) /\ UNCHANGED <<stage, code, decisions, raced>>
          /\ undocumented' = undocumented \cup
               (IF request[c].at \in {"decide", "record"} THEN {request[c].of} ELSE {})
      BY <1>6 DEF BoardStepFails, boardData
    <2>2. \A l \in Lawsuits \ undocumented' : ~Recording(c, l)
      BY <2>1 DEF Recording
    <2>3. QED
      BY <2>1, <2>2, DoneType, HistorySame
  <1>7. ASSUME UNCHANGED <<stage, code, decisions, request, raced, undocumented>>
        PROVE  HistoryInv'
    <2>1. \A c, l : (Recording(c, l)' <=> Recording(c, l))
                    /\ (ReadsTheEnd(c, l)' <=> ReadsTheEnd(c, l))
      BY <1>7 DEF Recording, ReadsTheEnd
    <2>2. \A l : (OneDocument(l)' <=> OneDocument(l)) /\ (Told(l)' <=> Told(l))
      BY <1>7, <2>1 DEF OneDocument, Told
    <2>3. QED
      BY <1>7, <2>2 DEF HistoryInv
  <1>8. CASE RemoveProvisionalNumber
    BY <1>7, <1>8 DEF RemoveProvisionalNumber
  <1>9. CASE UNCHANGED boardVars
    BY <1>7, <1>9 DEF boardVars, boardData, boardHistory
  <1>10. QED
    BY <1>1, <1>2, <1>3, <1>4, <1>5, <1>6, <1>8, <1>9,
       HistoryWrite, HistoryFind, HistorySave DEF BoardNext

LEMMA HistoryInit == BoardInit => HistoryInv
  <1> SUFFICES ASSUME BoardInit PROVE HistoryInv
    OBVIOUS
  <1>1. \A c \in BoardCalls, l \in Lawsuits :
          ~Recording(c, l) /\ request[c].at = "idle"
    BY DEF BoardInit, NoRequest, Recording
  <1>2. decisions = [l \in Lawsuits |-> <<>>] /\ <<>> \in Seq(Histories)
    BY EmptySeq DEF BoardInit
  <1>3. decisions \in [Lawsuits -> Seq(Histories)] /\ \A l \in Lawsuits : decisions[l] = <<>>
    BY <1>2
  <1>4. \A l \in Lawsuits : OneDocument(l)
    BY <1>1, <1>3 DEF OneDocument
  <1>5. \A l \in Lawsuits : stage[l] = "PRE_ANALISE" /\ code[l] = 781
    BY DEF BoardInit
  <1>6. Known(781) /\ StageByCode[781] = "PRE_ANALISE"
    BY DEF Known, StageByCode
  <1>7. \A l \in Lawsuits : Told(l)
    BY <1>1, <1>3, <1>5, <1>6 DEF Told, ReadsTheEnd
  <1>8. QED
    BY <1>3, <1>4, <1>7 DEF HistoryInv

LEMMA HistoryCorrect == BoardSpec => []HistoryInv
  BY HistoryInit, HistoryStep, TypeCorrect, PTL DEF BoardSpec

\* For any number of requests, the history of a lawsuit has no gap and ends at
\* its stage, unless a stage went in without a record or two changes raced.
THEOREM HistoryTold == BoardSpec => []HistoryTellsStages
  <1>1. HistoryInv => HistoryTellsStages
    BY DEF HistoryInv, Told, NoGap, LastCode, Recording, HistoryTellsStages
  <1>2. QED
    BY <1>1, HistoryCorrect, PTL

\* The joins of FindLawsuit find one row of the decisions, and one of the
\* mains, of every lawsuit the changes of stage did not race on.
THEOREM ListedOnce == BoardSpec => []ActivitiesListedOnce
  <1>1. ASSUME BoardTypeOK, HistoryInv PROVE ActivitiesListedOnce
    <2> SUFFICES ASSUME NEW l \in Lawsuits \ raced,
                        l = Prov => Cardinality(link) <= 1
                 PROVE  TimesListed(l) = 1
      BY DEF ActivitiesListedOnce
    <2>1. Cardinality(link) \in Nat
      <3>1. link \subseteq Mains /\ IsFiniteSet(Mains)
        BY <1>1, BoardAssumption DEF BoardTypeOK
      <3>2. QED
        BY <3>1, FS_Subset, FS_CardinalityType
    <2>2. Len(decisions[l]) \in Nat /\ Len(decisions[l]) <= 1
      BY <1>1, LenProperties DEF HistoryInv, OneDocument
    <2>3. OneAtLeast(Len(decisions[l])) = 1
      <3> DEFINE n == Len(decisions[l])
      <3>1. n \in Nat /\ n <= 1
        BY <2>2
      <3> HIDE DEF n
      <3>2. OneAtLeast(n) = 1
        BY <3>1 DEF OneAtLeast
      <3>3. QED
        BY <3>2 DEF n
    <2>4. OneAtLeast(IF l = Prov THEN Cardinality(link) ELSE 0) = 1
      <3> DEFINE n == IF l = Prov THEN Cardinality(link) ELSE 0
      <3>1. n \in Nat /\ n <= 1
        BY <2>1
      <3> HIDE DEF n
      <3>2. n = 0 \/ n = 1
        BY <3>1
      <3>3. OneAtLeast(n) = 1
        BY <3>2 DEF OneAtLeast
      <3>4. QED
        BY <3>3 DEF n
    <2>5. QED
      BY <2>3, <2>4 DEF TimesListed
  <1>2. QED
    BY <1>1, HistoryCorrect, TypeCorrect, PTL
=============================================================================
