---------------------------- MODULE ActivityBoard ----------------------------
(***************************************************************************)
(* The activities of ONE lawsuit: create, change-assigned and completed,   *)
(* the notifications they send, and what metrics.service counts.           *)
(*                                                                         *)
(* create runs its lawsuits at once (Promise.all), so that a request which *)
(* names this lawsuit twice is two creates running together.               *)
(***************************************************************************)
EXTENDS Naturals, Sequences, FiniteSets, SequencesExt

CONSTANTS
    ActivityTypes, Users,
    ActivityCalls,     \* requests of this lawsuit running at a time
    ActivityRequests,  \* bound: requests altogether
    NotifyFails        \* whether a notification may fail

ASSUME ActivityAssumption == /\ ActivityRequests \in Nat
                             /\ NotifyFails \in BOOLEAN

VARIABLES
    activities,   \* the list in the lawsuit
    told,         \* notifications created: <<what, type, user>>
    call,         \* what each request is doing
    calls,        \* requests so far
    twiceType,    \* history: types created by two overlapping requests
    twiceUser,    \* history: users given to two overlapping requests
    untold        \* history: notifications that failed

activityVars == <<activities, told, call, calls, twiceType, twiceUser, untold>>

-----------------------------------------------------------------------------
Resting == [at |-> "idle", type |-> "", user |-> "", what |-> "", late |-> FALSE]

\* The assigner is not one of the users activities are assigned to.
Assigner == "assigner"
People == Users \cup {Assigner}

HasType(t) == \E i \in DOMAIN activities : activities[i].type = t
HasActivity(u) == \E i \in DOMAIN activities : activities[i].to = u

\* activities.find, and the element "activities.$" stands for: the first.
FirstOf(t) == SelectInSeq(activities, LAMBDA a : a.type = t)

Starts(c, r) == /\ call[c] = Resting /\ calls < ActivityRequests
                /\ calls' = calls + 1
                /\ call' = [call EXCEPT ![c] = r]

\* Mutation of Tells: the notification goes to whoever assigned it.
TellsAssigner(c, what, user) ==
    call' = [call EXCEPT ![c].at = "notify", ![c].what = what, ![c].user = Assigner]

Tells(c, what, user) ==
    call' = [call EXCEPT ![c].at = "notify", ![c].what = what, ![c].user = user]

\* Another request, past its checks, that the write of c escapes.
Escaping(c) == {call[d] : d \in {d \in ActivityCalls \ {c} :
                                    call[d].at \in {"push", "set"}}}
Overlaps(c) ==
    /\ twiceType' = twiceType \cup
           {r.type : r \in {r \in Escaping(c) : /\ call[c].at = "push"
                                                /\ r.at = "push"
                                                /\ r.type = call[c].type}}
    /\ twiceUser' = twiceUser \cup
           {r.user : r \in {r \in Escaping(c) : r.user = call[c].user}}

ActivityInit ==
    /\ activities = <<>> /\ told = {}
    /\ call = [c \in ActivityCalls |-> Resting] /\ calls = 0
    /\ twiceType = {} /\ twiceUser = {} /\ untold = {}

-----------------------------------------------------------------------------
(* createActivityInProcess                                                 *)

\* Mutation of CreateActivity: the type is not looked for.
CreateAnyway(c) ==
    \E t \in ActivityTypes, u \in Users :
        /\ ~HasActivity(u)
        /\ Starts(c, [Resting EXCEPT !.at = "push", !.type = t, !.user = u])
        /\ UNCHANGED <<activities, told, twiceType, twiceUser, untold>>

\* findById; the type exists: skipped; the user has an activity: refused.
CreateActivity(c) ==
    \E t \in ActivityTypes, u \in Users :
        /\ ~HasType(t) /\ ~HasActivity(u)
        /\ Starts(c, [Resting EXCEPT !.at = "push", !.type = t, !.user = u])
        /\ UNCHANGED <<activities, told, twiceType, twiceUser, untold>>

\* $push, whatever was pushed since the findById.
PushActivity(c) ==
    /\ call[c].at = "push"
    /\ activities' = Append(activities,
                            [type |-> call[c].type, to |-> call[c].user,
                             done |-> FALSE, status |-> ""])
    /\ Tells(c, "assigned", call[c].user)
    /\ Overlaps(c)
    /\ UNCHANGED <<told, calls, untold>>

-----------------------------------------------------------------------------
(* ChangeAssignedService.execute                                           *)

\* Mutation of ChangeAssigned: a completed activity is not refused.
ChangeAssignedOfAny(c) ==
    \E t \in ActivityTypes, u \in Users :
        /\ HasType(t) /\ ~HasActivity(u)
        /\ Starts(c, [Resting EXCEPT !.at = "set", !.type = t, !.user = u])
        /\ UNCHANGED <<activities, told, twiceType, twiceUser, untold>>

\* Mutation of ChangeAssigned: another activity of the user is not looked for.
ChangeAssignedToAny(c) ==
    \E t \in ActivityTypes, u \in Users :
        /\ HasType(t) /\ ~activities[FirstOf(t)].done
        /\ Starts(c, [Resting EXCEPT !.at = "set", !.type = t, !.user = u])
        /\ UNCHANGED <<activities, told, twiceType, twiceUser, untold>>

ChangeAssigned(c) ==
    \E t \in ActivityTypes, u \in Users :
        /\ HasType(t) /\ ~HasActivity(u) /\ ~activities[FirstOf(t)].done
        /\ Starts(c, [Resting EXCEPT !.at = "set", !.type = t, !.user = u])
        /\ UNCHANGED <<activities, told, twiceType, twiceUser, untold>>

\* updateOne by the type alone.
SetAssigned(c) ==
    /\ call[c].at = "set"
    /\ activities' = [activities EXCEPT ![FirstOf(call[c].type)].to = call[c].user]
    /\ Tells(c, "assigned", call[c].user)
    /\ Overlaps(c)
    /\ UNCHANGED <<told, calls, untold>>

-----------------------------------------------------------------------------
(* CompletedActivityService.execute: one findOneAndUpdate, again and again  *)
(* if asked; then a notification to the one of the two who did not do it.  *)

CompleteActivity(c) ==
    \E t \in ActivityTypes, by \in People, s \in {"APROVED", "LOSS"} :
        /\ HasType(t)
        /\ LET i == FirstOf(t) IN
             /\ activities' = [activities EXCEPT ![i].done = TRUE, ![i].status = s]
             /\ call[c] = Resting /\ calls < ActivityRequests
             /\ calls' = calls + 1
             /\ call' = [d \in ActivityCalls |->
                    IF d = c
                    THEN [Resting EXCEPT !.at = "notify", !.type = t,
                             !.what = "completed",
                             !.user = IF activities[i].to = by THEN Assigner
                                      ELSE activities[i].to]
                    ELSE IF call[d].at = "set" /\ call[d].type = t
                    THEN [call[d] EXCEPT !.late = TRUE] ELSE call[d]]
        /\ UNCHANGED <<told, twiceType, twiceUser, untold>>

\* CreateNotificationsService: the document, then the socket.
Notify(c) ==
    /\ call[c].at = "notify"
    /\ told' = told \cup {<<call[c].what, call[c].type, call[c].user>>}
    /\ call' = [call EXCEPT ![c] = Resting]
    /\ UNCHANGED <<activities, calls, twiceType, twiceUser, untold>>

\* It fails: the request is answered with an error, the activity is there.
NotifyFailed(c) ==
    /\ NotifyFails /\ call[c].at = "notify"
    /\ untold' = untold \cup {<<call[c].what, call[c].type, call[c].user>>}
    /\ call' = [call EXCEPT ![c] = Resting]
    /\ UNCHANGED <<activities, told, calls, twiceType, twiceUser>>

ActivityNext ==
    \E c \in ActivityCalls :
        \/ CreateActivity(c) \/ PushActivity(c)
        \/ ChangeAssigned(c) \/ SetAssigned(c)
        \/ CompleteActivity(c) \/ Notify(c) \/ NotifyFailed(c)

ActivitySpec == ActivityInit /\ [][ActivityNext]_activityVars

-----------------------------------------------------------------------------
(* MetricsService: the lawsuit is grouped by type, completion and status,   *)
(* and then each group counts one.                                         *)

Groups(t) == {<<activities[i].done, activities[i].status>> :
                 i \in {j \in DOMAIN activities : activities[j].type = t}}
Metrics(t) ==
    [total |-> Cardinality(Groups(t)),
     pending |-> Cardinality({g \in Groups(t) : ~g[1]}),
     approved |-> Cardinality({g \in Groups(t) : g[1] /\ g[2] = "APROVED"}),
     rejected |-> Cardinality({g \in Groups(t) : g[1] /\ g[2] = "LOSS"})]

-----------------------------------------------------------------------------
(* Properties.                                                             *)

\* The metrics count a lawsuit once for each type of activity it has, as
\* pending, approved or rejected: unless two overlapping requests created
\* the type, which the check before the $push cannot see.
MetricsCountOnce ==
    \A t \in ActivityTypes \ twiceType :
        LET n == IF HasType(t) THEN 1 ELSE 0 IN
        /\ Metrics(t).total = n
        /\ Metrics(t).pending + Metrics(t).approved + Metrics(t).rejected = n

\* Nobody has two activities of a lawsuit, whether created for them or
\* passed on to them, unless two overlapping requests gave them both.
OneActivityEach ==
    \A u \in Users \ twiceUser :
        Cardinality({i \in DOMAIN activities : activities[i].to = u}) <= 1

\* "Não é possível alterar o responsável de uma atividade já concluída": a
\* completed activity keeps its user, unless it was completed between the
\* check and the write of a request to pass it on.
CompletedKeepsItsUser ==
    [][\A i \in DOMAIN activities :
          activities[i].done /\ activities'[i].to # activities[i].to =>
              \E c \in ActivityCalls : call[c].at = "set" /\ call[c].late]_activityVars

\* Whoever has an activity was told of it, and the end of an activity was
\* told to one of the two it concerns; or the notification is still to come,
\* or failed.  (A repeated create skips the activity, so it does not tell.)
EveryoneTold ==
    LET coming == {<<call[c].what, call[c].type, call[c].user>> :
                      c \in {d \in ActivityCalls : call[d].at = "notify"}}
        sent == told \cup untold \cup coming
    IN \A i \in DOMAIN activities :
          LET a == activities[i] IN
          /\ <<"assigned", a.type, a.to>> \in sent
          /\ a.done => \E u \in People : <<"completed", a.type, u>> \in sent
=============================================================================
