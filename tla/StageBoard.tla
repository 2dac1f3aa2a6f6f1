----------------------------- MODULE StageBoard -----------------------------
(***************************************************************************)
(* The stage of the lawsuits on the board and who owns them: change-stage, *)
(* bulk-update, insert-execution, remove-provisional-lawsuit-number, and   *)
(* find-lawsuit, which shows a lawsuit with what is linked to it.          *)
(*                                                                         *)
(* One provisional execution (Prov) and the main lawsuits that call it by  *)
(* its number.  A step is one awaited query or update; no request holds a  *)
(* transaction over two of them.                                           *)
(***************************************************************************)
EXTENDS Naturals, Sequences, FiniteSets

CONSTANTS
    Mains, Prov,    \* the lawsuits: class MAIN, and a provisional execution
    BoardCalls,     \* requests running at a time
    BoardRequests,  \* bound: requests altogether
    NewCodes,       \* the stage codes requests ask for
    BoardFails      \* whether a step may fail (database error, restart)

ASSUME BoardAssumption == /\ IsFiniteSet(Mains) /\ Prov \notin Mains
                          /\ BoardRequests \in Nat
                          /\ NewCodes \subseteq Nat
                          /\ BoardFails \in BOOLEAN

Lawsuits == Mains \cup {Prov}

VARIABLES
    stage, code,   \* stage and stageId of each lawsuit
    link,          \* the mains whose calledByProvisionalLawsuitNumber is Prov
    decisions,     \* the ProcessDecisions documents: the history in each
    active,        \* how many active ProcessOwner documents a lawsuit has
    request,       \* what each request is doing
    asked,         \* requests so far
    raced,         \* history: lawsuits two change-stage requests overlapped on
    undocumented,  \* history: lawsuits given a stage without a history entry
    apart,         \* history: mains that may have lost their Prov's stage
    owned,         \* history: lawsuits that were given an owner
    unsettled      \* history: owners overlapped, or the second step failed

boardData == <<stage, code, link, decisions, active>>
boardHistory == <<raced, undocumented, apart, owned, unsettled>>
boardVars == <<boardData, request, asked, boardHistory>>

-----------------------------------------------------------------------------
Stages == {"PRE_ANALISE", "ANALISE", "CALCULO"}

StageByCode ==
    [k \in {781, 779, 777, 802, 769, 762, 755, 787, 770, 763, 756, 797} |->
        CASE k \in {781, 779, 777, 802} -> "PRE_ANALISE"
          [] k \in {769, 762, 755, 787} -> "ANALISE"
          [] OTHER -> "CALCULO"]

Known(k) == k \in DOMAIN StageByCode

\* What a request knows: its lawsuit (of), the code it asks for (to), and of
\* its findById the stage (read) and whether the lawsuit calls Prov (calls);
\* doc: findOne found a decisions document; ids: the lawsuits of a bulk
\* update; give: it sets stage ("" for none), code (0 for none) or owner.
Nothing == [stage |-> "", code |-> 0, owner |-> FALSE]
NoRequest == [at |-> "idle", of |-> Prov, to |-> 0, read |-> "PRE_ANALISE",
              calls |-> FALSE, doc |-> FALSE, ids |-> {}, give |-> Nothing]

Busy(c) == request[c].at # "idle"
OthersBusy(c) == \E d \in BoardCalls \ {c} : Busy(d)
AlsoChanging(c) == \E d \in BoardCalls \ {c} :
                      /\ request[d].at \in {"write", "decide", "record"}
                      /\ request[d].of = request[c].of

On(c, place) == request' = [request EXCEPT ![c].at = place]
Done(c) == request' = [request EXCEPT ![c] = NoRequest]
Asks(c, r) == /\ ~Busy(c) /\ asked < BoardRequests
              /\ asked' = asked + 1
              /\ request' = [request EXCEPT ![c] = r]
              /\ UNCHANGED <<boardData, boardHistory>>

\* Insert-process creates the lawsuit with stage and code agreeing.  The
\* decisions document it creates has no process_id (it sets "process",
\* which the schema does not have), so no query by process_id finds it.
BoardInit ==
    /\ stage = [l \in Lawsuits |-> "PRE_ANALISE"]
    /\ code = [l \in Lawsuits |-> 781]
    /\ link = {}
    /\ decisions = [l \in Lawsuits |-> <<>>]
    /\ active = [l \in Lawsuits |-> 0]
    /\ request = [c \in BoardCalls |-> NoRequest]
    /\ asked = 0
    /\ raced = {} /\ undocumented = {} /\ apart = {}
    /\ owned = {} /\ unsettled = {}

-----------------------------------------------------------------------------
(* ChangeStageService.execute                                              *)

\* findById and the checks before any write; a refused request changes
\* nothing.
ChangeStage(c) ==
    \E l \in Lawsuits, k \in NewCodes :
        /\ Known(k)
        /\ stage[l] # StageByCode[k]
        /\ Asks(c, [NoRequest EXCEPT !.at = "write", !.of = l, !.to = k,
                       !.read = stage[l], !.calls = l \in link])

Place(S, k) ==
    /\ stage' = [l \in Lawsuits |-> IF l \in S THEN StageByCode[k] ELSE stage[l]]
    /\ code' = [l \in Lawsuits |-> IF l \in S THEN k ELSE code[l]]

WriteStage(c) ==
    /\ request[c].at = "write"
    /\ Place({request[c].of}, request[c].to)
    /\ On(c, "decide")
    /\ raced' = IF AlsoChanging(c) THEN raced \cup {request[c].of} ELSE raced
    /\ apart' = IF OthersBusy(c) THEN apart \cup link ELSE apart
    /\ UNCHANGED <<link, decisions, active, asked, undocumented, owned, unsettled>>

FindDecision(c) ==
    /\ request[c].at = "decide"
    /\ request' = [request EXCEPT ![c].at = "record",
                      ![c].doc = decisions[request[c].of] # <<>>]
    /\ raced' = IF AlsoChanging(c) THEN raced \cup {request[c].of} ELSE raced
    /\ UNCHANGED <<boardData, asked, undocumented, apart, owned, unsettled>>

\* Mutation of Entry: the lawsuit is read again after the write.
EntryAfterwards(c) ==
    [stage |-> stage[request[c].of], stage_id |-> request[c].to]

Entry(c) == [stage |-> request[c].read, stage_id |-> request[c].to]

\* Mutation of SaveDecision: every change inserts a document.
SaveNewDocument(c) ==
    /\ request[c].at = "record"
    /\ LET l == request[c].of IN
         decisions' = [decisions EXCEPT ![l] = Append(@, <<Entry(c)>>)]
    /\ On(c, "follow")
    /\ UNCHANGED <<stage, code, link, active, asked, boardHistory>>

\* A document that was found gets the entry pushed, a new one is inserted.
\* Then Pipedrive, whose errors are logged.
SaveDecision(c) ==
    /\ request[c].at = "record"
    /\ LET l == request[c].of
           docs == decisions[l]
       IN decisions' = [decisions EXCEPT ![l] =
             IF request[c].doc THEN [docs EXCEPT ![1] = Append(docs[1], Entry(c))]
                               ELSE Append(docs, <<Entry(c)>>)]
    /\ raced' = IF AlsoChanging(c) THEN raced \cup {request[c].of} ELSE raced
    /\ On(c, "follow")
    /\ UNCHANGED <<stage, code, link, active, asked, undocumented, apart, owned,
                   unsettled>>

\* Mutation of FollowersOf: only the change of a main is carried over.
FollowersOfMain(c) ==
    IF request[c].of # Prov /\ request[c].calls THEN {{Prov}} ELSE {}

\* The lawsuits the last write of c may go to: Prov, if the main called it
\* when it was read, or the first of the mains that call it now.
FollowersOf(c) ==
    IF request[c].of = Prov THEN {{m} : m \in link}
    ELSE IF request[c].calls THEN {{Prov}} ELSE {}

FollowLink(c) ==
    /\ request[c].at = "follow"
    /\ \E F \in IF FollowersOf(c) = {} THEN {{}} ELSE FollowersOf(c) :
         /\ Place(F, request[c].to)
         /\ undocumented' = undocumented \cup F
         /\ apart' = IF OthersBusy(c) \/ Cardinality(link) > 1
                     THEN apart \cup link ELSE apart
    /\ Done(c)
    /\ UNCHANGED <<link, decisions, active, asked, raced, owned, unsettled>>

-----------------------------------------------------------------------------
(* BulkUpdateService.execute                                               *)

\* The find of the filters, by stage or without any; the updates have a
\* stage, a stageId or an owner.  No lawsuit found: nothing happens.
BulkUpdate(c) ==
    \E ids \in {Lawsuits} \cup {{l \in Lawsuits : stage[l] = s} : s \in Stages},
       give \in {[Nothing EXCEPT !.stage = "CALCULO"],
                 [Nothing EXCEPT !.owner = TRUE]}
                \cup {[Nothing EXCEPT !.code = k] : k \in NewCodes} :
        /\ ids # {}
        /\ Asks(c, [NoRequest EXCEPT !.at = "many", !.ids = ids, !.give = give])

\* updateMany.  A stage alone leaves stageId, and a code without a stage sets
\* stage to undefined, which Mongoose leaves out of the update.
UpdateMany(c) ==
    /\ request[c].at = "many"
    /\ LET give == request[c].give
           to == IF give.stage # "" THEN give.stage
                 ELSE IF Known(give.code) THEN StageByCode[give.code] ELSE ""
           S == request[c].ids
       IN /\ stage' = [l \in Lawsuits |->
                          IF l \in S /\ to # "" THEN to ELSE stage[l]]
          /\ code' = [l \in Lawsuits |->
                          IF l \in S /\ give.code # 0 THEN give.code ELSE code[l]]
          /\ IF give.owner
             THEN On(c, "retire") /\ UNCHANGED <<undocumented, apart>>
             ELSE /\ Done(c)
                  /\ undocumented' = undocumented \cup S
                  /\ apart' = apart \cup link
    /\ UNCHANGED <<link, decisions, active, asked, raced, owned, unsettled>>

\* Mutation of RetireOwners: the owners there are stay active.
RetireNone(c) ==
    /\ request[c].at = "retire"
    /\ On(c, "appoint")
    /\ UNCHANGED <<boardData, asked, boardHistory>>

\* bulkUpdateOwners: deactivate the owners there are ...
RetireOwners(c) ==
    /\ request[c].at = "retire"
    /\ active' = [l \in Lawsuits |-> IF l \in request[c].ids THEN 0 ELSE active[l]]
    /\ On(c, "appoint")
    /\ UNCHANGED <<stage, code, link, decisions, asked, boardHistory>>

Appointing(c) == IF request[c].at = "appoint" THEN request[c].ids ELSE {}

\* ... and insert the new ones.
AppointOwners(c) ==
    /\ request[c].at = "appoint"
    /\ active' = [l \in Lawsuits |->
                     active[l] + IF l \in request[c].ids THEN 1 ELSE 0]
    /\ owned' = owned \cup request[c].ids
    /\ unsettled' = unsettled \cup UNION {Appointing(c) \cap Appointing(d) :
                                             d \in BoardCalls \ {c}}
    /\ Done(c)
    /\ UNCHANGED <<stage, code, link, decisions, asked, raced, undocumented, apart>>

-----------------------------------------------------------------------------
(* InsertExecutionService and RemoveProvisionalLawsuitNumberService.       *)

\* The two finds; an execution that is not there yet is left to
\* insert-process (ProcessPipeline), and a second of sleep, whatever comes.
InsertExecution(c) ==
    \E m \in Mains : Asks(c, [NoRequest EXCEPT !.at = "link", !.of = m])

LinkExecution(c) ==
    /\ request[c].at = "link"
    /\ LET m == request[c].of IN
         /\ link' = link \cup {m}
         /\ apart' = IF ~OthersBusy(c) /\ stage[m] = stage[Prov]
                                      /\ code[m] = code[Prov]
                     THEN apart \ {m} ELSE apart \cup {m}
    /\ Done(c)
    /\ UNCHANGED <<stage, code, decisions, active, asked, raced, undocumented,
                   owned, unsettled>>

RemoveProvisionalNumber ==
    /\ asked < BoardRequests /\ asked' = asked + 1
    /\ \E m \in link : link' = link \ {m}
    /\ apart' = IF \E c \in BoardCalls : Busy(c) THEN apart \cup link ELSE apart
    /\ UNCHANGED <<stage, code, decisions, active, request, raced, undocumented,
                   owned, unsettled>>

\* A step fails: the request is answered with an error and leaves what it
\* has written.
BoardStepFails(c) ==
    /\ BoardFails /\ Busy(c)
    /\ LET r == request[c] IN
         /\ undocumented' = undocumented \cup
               (IF r.at \in {"decide", "record"} THEN {r.of} ELSE {})
         /\ apart' = apart \cup
               (IF r.at \in {"decide", "record", "follow"} THEN link ELSE {})
         /\ unsettled' = unsettled \cup Appointing(c)
    /\ Done(c)
    /\ UNCHANGED <<boardData, asked, raced, owned>>

BoardNext ==
    \/ \E c \in BoardCalls :
         \/ ChangeStage(c) \/ WriteStage(c) \/ FindDecision(c)
         \/ SaveDecision(c) \/ FollowLink(c)
         \/ BulkUpdate(c) \/ UpdateMany(c) \/ RetireOwners(c) \/ AppointOwners(c)
         \/ InsertExecution(c) \/ LinkExecution(c) \/ BoardStepFails(c)
    \/ RemoveProvisionalNumber

BoardSpec == BoardInit /\ [][BoardNext]_boardVars

-----------------------------------------------------------------------------
(* FindLawsuit: its aggregation unwinds the execution, the mains and the    *)
(* decisions it joins, and then pushes the activities of every row.        *)

OneAtLeast(n) == IF n = 0 THEN 1 ELSE n

\* How often FindLawsuit lists each activity of lawsuit l.
TimesListed(l) ==
    LET mains == IF l = Prov THEN Cardinality(link) ELSE 0
    IN OneAtLeast(mains) * OneAtLeast(Len(decisions[l]))

-----------------------------------------------------------------------------
(* Properties.                                                             *)

\* FindLawsuit shows each activity once: its joins find one row each, unless
\* two mains call the lawsuit, or two first changes of stage overlapped and
\* each inserted a decisions document.
ActivitiesListedOnce ==
    \A l \in Lawsuits \ raced :
        (l = Prov => Cardinality(link) <= 1) => TimesListed(l) = 1

\* The history of a lawsuit tells its stages without a gap, up to the present
\* one: an entry starts at the stage the one before it led to.  Not for a
\* lawsuit that got a stage by a bulk update, as the linked one or from a
\* request that failed half-way, and not under overlapping changes.
HistoryTellsStages ==
    \A l \in Lawsuits \ (raced \cup undocumented) :
        decisions[l] # <<>> =>
            LET h == decisions[l][1] IN
            /\ \A i \in 1..Len(h) - 1 :
                   h[i + 1].stage = StageByCode[h[i].stage_id]
            /\ \/ h[Len(h)].stage_id = code[l]
               \/ \E c \in BoardCalls : /\ request[c].at \in {"decide", "record"}
                                        /\ request[c].of = l

\* A main and the execution it calls stand at one stage whenever no request
\* is running, unless requests overlapped, one failed half-way, a bulk
\* update moved them, or they did not agree when they were linked.
LinkedAtOneStage ==
    (\A c \in BoardCalls : ~Busy(c)) =>
        \A m \in link \ apart : stage[m] = stage[Prov] /\ code[m] = code[Prov]

\* A lawsuit that was given an owner has exactly one, although replacing it
\* takes two writes: unless two replacements overlapped or one failed
\* between its writes.
OneActiveOwner ==
    \A l \in owned \ unsettled :
        (\A c \in BoardCalls : l \notin Appointing(c)) => active[l] = 1
=============================================================================
