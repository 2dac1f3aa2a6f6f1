--------------------------- MODULE ServicesProofs ---------------------------
(* Proofs about the components around the board: ActivityBoard,             *)
(* LawsuitForm, LawsuitQueries, SyncBatch, LawsuitIntake, Resends,        *)
(* PagedLists and AthenaQuery.                                              *)
EXTENDS ActivityBoard, LawsuitForm, LawsuitQueries, SyncBatch, LawsuitIntake,
        Resends, PagedLists, AthenaQuery, FiniteSetTheorems, SequenceTheorems, WellFoundedInduction, TLAPS

-----------------------------------------------------------------------------
(* Facts about the helpers of the component modules.                       *)

\* Some number of a set of naturals is the least, so Min finds it.
LEMMA LeastOf ==
  ASSUME NEW S \in SUBSET Nat, S # {}
  PROVE  Min(S) \in S /\ \A n \in S : Min(S) <= n
  <1>1. PICK n \in S : \A m \in S : ~(<<m, n>> \in OpToRel(<, Nat))
    BY NatLessThanWellFounded, WFMin
  <1>2. \A m \in S : n <= m
    <2> TAKE m \in S
    <2>1. ~(m < n)
      BY <1>1 DEF OpToRel
    <2>2. QED
      BY <2>1
  <1>3. QED
    BY <1>2 DEF Min

LEMMA AtMostOne ==
  ASSUME NEW S, \A x, y \in S : x = y
  PROVE  Cardinality(S) <= 1 /\ IsFiniteSet(S)
  <1>1. CASE S = {}
    BY <1>1, FS_EmptySet
  <1>2. CASE S # {}
    <2>1. PICK x : S = {x}
      BY <1>2
    <2>2. QED
      BY <2>1, FS_Singleton
  <1>3. QED
    BY <1>1, <1>2

LEMMA NoTwo ==
  ASSUME NEW S, IsFiniteSet(S), Cardinality(S) <= 1, NEW x \in S, NEW y \in S
  PROVE  x = y
  <1> SUFFICES ASSUME x # y PROVE FALSE
    OBVIOUS
  <1>1. IsFiniteSet({x, y}) /\ Cardinality({x, y}) = 2
    <2>1. IsFiniteSet({x}) /\ Cardinality({x}) = 1
      BY FS_Singleton
    <2>2. {x, y} = {x} \cup {y} /\ y \notin {x}
      OBVIOUS
    <2> DEFINE T == {x}
    <2> HIDE DEF T
    <2>3. IsFiniteSet(T \cup {y}) /\ Cardinality(T \cup {y}) = 2
      BY <2>1, <2>2, FS_AddElement DEF T
    <2>4. QED
      BY <2>2, <2>3 DEF T
  <1>2. Cardinality({x, y}) <= Cardinality(S) /\ Cardinality(S) \in Nat
    BY FS_Subset, FS_CardinalityType
  <1>3. QED
    BY <1>1, <1>2

LEMMA InTwoParts ==
  ASSUME NEW S, IsFiniteSet(S), NEW A, NEW B, S = A \cup B, A \cap B = {}
  PROVE  /\ Cardinality(S) = Cardinality(A) + Cardinality(B)
         /\ IsFiniteSet(A) /\ IsFiniteSet(B)
         /\ Cardinality(A) \in Nat /\ Cardinality(B) \in Nat
  <1>1. IsFiniteSet(A) /\ IsFiniteSet(B)
    BY FS_Subset
  <1>2. Cardinality(A \cup B) = Cardinality(A) + Cardinality(B) - Cardinality(A \cap B)
    BY <1>1, FS_Union
  <1>3. Cardinality(A) \in Nat /\ Cardinality(B) \in Nat
    BY <1>1, FS_CardinalityType
  <1>4. Cardinality(A \cap B) = 0
    BY FS_EmptySet
  <1>5. QED
    BY <1>1, <1>2, <1>3, <1>4

-----------------------------------------------------------------------------
(* ActivityBoard.                                                          *)
FirstIn(s, t) == SelectInSeq(s, LAMBDA a : a.type = t)

LEMMA FirstInSeq ==
  ASSUME NEW s, Len(s) \in Nat, DOMAIN s = 1..Len(s), NEW t,
         \E i \in DOMAIN s : s[i].type = t
  PROVE  /\ FirstIn(s, t) \in DOMAIN s
         /\ s[FirstIn(s, t)].type = t
         /\ \A i \in DOMAIN s : s[i].type = t => FirstIn(s, t) <= i
  <1> DEFINE I == {i \in 1..Len(s) : s[i].type = t}
  <1>1. I \in SUBSET Nat /\ I # {}
    OBVIOUS
  <1>2. FirstIn(s, t) = Min(I)
    BY <1>1 DEF FirstIn, SelectInSeq
  <1> HIDE DEF I
  <1>3. Min(I) \in I /\ \A n \in I : Min(I) <= n
    BY <1>1, LeastOf
  <1>4. QED
    BY <1>2, <1>3 DEF I

\* The first activity of a type stays the first when the list grows.
LEMMA FirstStays ==
  ASSUME NEW s, Len(s) \in Nat, DOMAIN s = 1..Len(s), NEW t,
         \E i \in DOMAIN s : s[i].type = t,
         NEW z, Len(z) \in Nat, DOMAIN z = 1..Len(z), Len(s) <= Len(z),
         \A i \in DOMAIN s : z[i].type = s[i].type
  PROVE  FirstIn(z, t) = FirstIn(s, t)
  <1>1. /\ FirstIn(s, t) \in 1..Len(s) /\ s[FirstIn(s, t)].type = t
        /\ \A i \in 1..Len(s) : s[i].type = t => FirstIn(s, t) <= i
    BY FirstInSeq
  <1>2. \E i \in DOMAIN z : z[i].type = t
    BY <1>1
  <1>3. /\ FirstIn(z, t) \in 1..Len(z) /\ z[FirstIn(z, t)].type = t
        /\ \A i \in 1..Len(z) : z[i].type = t => FirstIn(z, t) <= i
    BY <1>2, FirstInSeq
  <1> DEFINE p == FirstIn(s, t)
             q == FirstIn(z, t)
  <1> HIDE DEF p, q
  <1>4. /\ p \in 1..Len(s) /\ s[p].type = t
        /\ \A i \in 1..Len(s) : s[i].type = t => p <= i
    BY <1>1 DEF p
  <1>5. /\ q \in 1..Len(z) /\ z[q].type = t
        /\ \A i \in 1..Len(z) : z[i].type = t => q <= i
    BY <1>3 DEF q
  <1>6. q <= p
    BY <1>4, <1>5
  <1>7. q \in 1..Len(s) /\ s[q].type = t
    BY <1>4, <1>5, <1>6
  <1>8. p = q
    BY <1>4, <1>6, <1>7
  <1>9. QED
    BY <1>8 DEF p, q

-----------------------------------------------------------------------------
(* ActivityBoard: any types and users, any number of requests.  The lists   *)
(* of a step and of the one before differ in one place.                    *)

CallRecords == [at : {"idle", "push", "set", "notify"}, type : ActivityTypes \cup {""},
                user : People \cup {""}, what : {"", "assigned", "completed"},
                late : BOOLEAN]
Activities == {a \in [type : ActivityTypes, to : Users, done : BOOLEAN,
                      status : {"", "APROVED", "LOSS"}] :
                  a.done => a.status # ""}

\* Past its checks a request names a type and a user; the activity that it is
\* to pass on stays in the list.
ActivityTypeOK ==
    /\ activities \in Seq(Activities)
    /\ call \in [ActivityCalls -> CallRecords]
    /\ \A c \in ActivityCalls :
         /\ call[c].at \in {"push", "set"} =>
              call[c].type \in ActivityTypes /\ call[c].user \in Users
         /\ call[c].at = "set" => HasType(call[c].type)

\* A type, or a user, that requests did not overlap on is in the list once at
\* most, and not at all while a request is about to add it.
TypeOnce ==
    \A t \in ActivityTypes \ twiceType :
        /\ \A i, j \in DOMAIN activities :
              activities[i].type = t /\ activities[j].type = t => i = j
        /\ \A c \in ActivityCalls :
              call[c].at = "push" /\ call[c].type = t => ~HasType(t)

UserOnce ==
    \A u \in Users \ twiceUser :
        /\ \A i, j \in DOMAIN activities :
              activities[i].to = u /\ activities[j].to = u => i = j
        /\ \A c \in ActivityCalls :
              call[c].at \in {"push", "set"} /\ call[c].user = u => ~HasActivity(u)

\* A request knows whether the activity it is to pass on was completed.
KnowsLate ==
    \A c \in ActivityCalls :
        call[c].at = "set" /\ activities[FirstOf(call[c].type)].done => call[c].late

ActivityInv == ActivityTypeOK /\ TypeOnce /\ UserOnce /\ KnowsLate /\ EveryoneTold

LEMMA ActivitiesSeq ==
  ASSUME ActivityTypeOK
  PROVE  /\ Len(activities) \in Nat /\ DOMAIN activities = 1..Len(activities)
         /\ \A i \in DOMAIN activities : activities[i] \in Activities
  BY LenProperties, ElementOfSeq DEF ActivityTypeOK

LEMMA FirstIsThere ==
  ASSUME ActivityTypeOK, NEW t, HasType(t)
  PROVE  /\ FirstOf(t) \in DOMAIN activities
         /\ activities[FirstOf(t)].type = t
         /\ FirstOf(t) = FirstIn(activities, t)
  <1>1. FirstOf(t) = FirstIn(activities, t)
    BY DEF FirstOf, FirstIn
  <1>2. \E i \in DOMAIN activities : activities[i].type = t
    BY DEF HasType
  <1>3. QED
    BY <1>1, <1>2, ActivitiesSeq, FirstInSeq

LEMMA FirstSame ==
  ASSUME ActivityTypeOK, NEW t, HasType(t), activities' \in Seq(Activities),
         Len(activities) <= Len(activities'),
         \A i \in DOMAIN activities : activities'[i].type = activities[i].type
  PROVE  FirstOf(t)' = FirstOf(t)
  <1>1. /\ Len(activities) \in Nat /\ DOMAIN activities = 1..Len(activities)
        /\ Len(activities') \in Nat /\ DOMAIN activities' = 1..Len(activities')
    BY ActivitiesSeq, LenProperties
  <1>2. \E i \in DOMAIN activities : activities[i].type = t
    BY DEF HasType
  <1>3. FirstIn(activities', t) = FirstIn(activities, t)
    BY <1>1, <1>2, FirstStays
  <1>4. FirstOf(t)' = FirstIn(activities', t)
    BY DEF FirstOf, FirstIn, SelectInSeq
  <1>5. QED
    BY <1>3, <1>4, FirstIsThere

OthersRest(c) == \A d \in ActivityCalls \ {c} : call'[d] = call[d]

LEMMA RestingType == Resting \in CallRecords /\ Resting.at = "idle"
  BY DEF Resting, CallRecords

LEMMA StartsType ==
  ASSUME ActivityTypeOK, NEW c \in ActivityCalls, NEW r \in CallRecords, Starts(c, r)
  PROVE  /\ call' \in [ActivityCalls -> CallRecords] /\ OthersRest(c)
         /\ call'[c] = r /\ call[c].at = "idle"
  BY RestingType DEF ActivityTypeOK, Starts, OthersRest

LEMMA RestsType ==
  ASSUME ActivityTypeOK, NEW c \in ActivityCalls,
         call' = [call EXCEPT ![c] = Resting]
  PROVE  /\ call' \in [ActivityCalls -> CallRecords] /\ OthersRest(c)
         /\ call'[c].at = "idle"
  BY RestingType DEF ActivityTypeOK, OthersRest

LEMMA TellsType ==
  ASSUME ActivityTypeOK, NEW c \in ActivityCalls, NEW user \in People,
         Tells(c, "assigned", user)
  PROVE  /\ call' \in [ActivityCalls -> CallRecords] /\ OthersRest(c)
         /\ call'[c].at = "notify" /\ call'[c].type = call[c].type
         /\ call'[c].what = "assigned" /\ call'[c].user = user
  <1> DEFINE new == [call[c] EXCEPT !.at = "notify", !.what = "assigned", !.user = user]
  <1>1. call[c] \in CallRecords
    BY DEF ActivityTypeOK
  <1>2. /\ new \in CallRecords /\ new.at = "notify" /\ new.type = call[c].type
        /\ new.what = "assigned" /\ new.user = user
    BY <1>1 DEF CallRecords
  <1>3. call' = [call EXCEPT ![c] = new]
    BY DEF Tells, ActivityTypeOK
  <1> HIDE DEF new
  <1>4. QED
    BY <1>2, <1>3 DEF ActivityTypeOK, OthersRest

\* What a request that passes its checks becomes.
LEMMA BeginsType ==
  ASSUME ActivityTypeOK, NEW c \in ActivityCalls, NEW t \in ActivityTypes,
         NEW u \in Users, NEW place \in {"push", "set"},
         Starts(c, [Resting EXCEPT !.at = place, !.type = t, !.user = u])
  PROVE  /\ call' \in [ActivityCalls -> CallRecords] /\ OthersRest(c)
         /\ call'[c].at = place /\ call'[c].type = t /\ call'[c].user = u
         /\ call[c].at = "idle"
  <1> DEFINE r == [Resting EXCEPT !.at = place, !.type = t, !.user = u]
  <1>1. r \in CallRecords /\ r.at = place /\ r.type = t /\ r.user = u
    BY DEF Resting, CallRecords, People
  <1> HIDE DEF r
  <1>2. Starts(c, r)
    BY DEF r
  <1>3. QED
    BY <1>1, <1>2, StartsType

\* The list after a $push.
LEMMA PushType ==
  ASSUME ActivityTypeOK, NEW c \in ActivityCalls, PushActivity(c)
  PROVE  /\ activities' \in Seq(Activities) /\ Len(activities') = Len(activities) + 1
         /\ DOMAIN activities' = DOMAIN activities \cup {Len(activities) + 1}
         /\ \A i \in DOMAIN activities : activities'[i] = activities[i]
         /\ Len(activities) + 1 \notin DOMAIN activities
         /\ LET a == activities'[Len(activities) + 1] IN
              a.type = call[c].type /\ a.to = call[c].user /\ ~a.done
  <1> DEFINE a == [type |-> call[c].type, to |-> call[c].user,
                   done |-> FALSE, status |-> ""]
  <1>1. a \in Activities /\ a.type = call[c].type /\ a.to = call[c].user /\ ~a.done
    BY DEF PushActivity, ActivityTypeOK, Activities
  <1>2. activities' = Append(activities, a)
    BY DEF PushActivity
  <1> HIDE DEF a
  <1>3. activities \in Seq(Activities)
    BY DEF ActivityTypeOK
  <1>4. /\ activities' \in Seq(Activities) /\ Len(activities') = Len(activities) + 1
        /\ \A i \in 1..Len(activities) : activities'[i] = activities[i]
        /\ activities'[Len(activities) + 1] = a
    BY <1>1, <1>2, <1>3, AppendProperties
  <1>5. Len(activities) \in Nat /\ DOMAIN activities = 1..Len(activities)
    BY ActivitiesSeq
  <1>6. DOMAIN activities' = 1..Len(activities) + 1
    BY <1>4, LenProperties
  <1>7. 1..Len(activities) + 1 = 1..Len(activities) \cup {Len(activities) + 1}
    BY <1>5
  <1>8. QED
    BY <1>1, <1>4, <1>5, <1>6, <1>7

\* The list after an update of one activity.
LEMMA UpdateType ==
  ASSUME ActivityTypeOK, NEW i \in DOMAIN activities, NEW a \in Activities,
         a.type = activities[i].type, activities' = [activities EXCEPT ![i] = a]
  PROVE  /\ activities' \in Seq(Activities) /\ DOMAIN activities' = DOMAIN activities
         /\ Len(activities') = Len(activities)
         /\ \A j \in DOMAIN activities :
              /\ activities'[j] = IF j = i THEN a ELSE activities[j]
              /\ activities'[j].type = activities[j].type
  <1>1. DOMAIN activities = 1..Len(activities) /\ activities \in Seq(Activities)
    BY ActivitiesSeq DEF ActivityTypeOK
  <1>2. /\ activities' \in Seq(Activities) /\ Len(activities') = Len(activities)
        /\ \A j \in 1..Len(activities) :
             activities'[j] = IF j = i THEN a ELSE activities[j]
    BY <1>1, ExceptSeq
  <1>3. DOMAIN activities' = 1..Len(activities')
    BY <1>2, LenProperties
  <1>4. QED
    BY <1>1, <1>2, <1>3

LEMMA SetType ==
  ASSUME ActivityTypeOK, NEW c \in ActivityCalls, SetAssigned(c)
  PROVE  /\ activities' \in Seq(Activities) /\ DOMAIN activities' = DOMAIN activities
         /\ Len(activities') = Len(activities)
         /\ FirstOf(call[c].type) \in DOMAIN activities
         /\ activities[FirstOf(call[c].type)].type = call[c].type
         /\ \A j \in DOMAIN activities :
              /\ activities'[j].type = activities[j].type
              /\ activities'[j].done = activities[j].done
              /\ activities'[j].to = IF j = FirstOf(call[c].type) THEN call[c].user
                                     ELSE activities[j].to
  <1>0. HasType(call[c].type) /\ call[c].user \in Users
    BY DEF SetAssigned, ActivityTypeOK
  <1>1. PICK i \in DOMAIN activities : i = FirstOf(call[c].type)
                                       /\ activities[i].type = call[c].type
    BY <1>0, FirstIsThere
  <1>2. activities[i] \in Activities
    BY ActivitiesSeq
  <1> DEFINE a == [activities[i] EXCEPT !.to = call[c].user]
  <1>3. /\ a \in Activities /\ a.type = activities[i].type /\ a.to = call[c].user
        /\ a.done = activities[i].done
    BY <1>0, <1>2 DEF Activities
  <1>4. activities' = [activities EXCEPT ![i] = a]
    BY <1>1 DEF SetAssigned
  <1> HIDE DEF a
  <1>5. QED
    BY <1>1, <1>3, <1>4, UpdateType

LEMMA CompleteType ==
  ASSUME ActivityTypeOK, NEW c \in ActivityCalls, CompleteActivity(c)
  PROVE  \E t \in ActivityTypes, i \in DOMAIN activities, u \in People :
           /\ i = FirstOf(t) /\ activities[i].type = t /\ HasType(t)
           /\ activities' \in Seq(Activities) /\ DOMAIN activities' = DOMAIN activities
           /\ Len(activities') = Len(activities)
           /\ \A j \in DOMAIN activities :
                /\ activities'[j].type = activities[j].type
                /\ activities'[j].to = activities[j].to
                /\ activities'[j].done = (j = i \/ activities[j].done)
           /\ call[c].at = "idle" /\ call' \in [ActivityCalls -> CallRecords]
           /\ call'[c].at = "notify" /\ call'[c].type = t
           /\ call'[c].what = "completed" /\ call'[c].user = u
           /\ \A d \in ActivityCalls \ {c} :
                /\ call'[d].at = call[d].at /\ call'[d].type = call[d].type
                /\ call'[d].what = call[d].what /\ call'[d].user = call[d].user
                /\ call'[d].late = IF call[d].at = "set" /\ call[d].type = t
                                   THEN TRUE ELSE call[d].late
  <1>1. PICK t \in ActivityTypes, by \in People, s \in {"APROVED", "LOSS"} :
          /\ HasType(t)
          /\ activities' = [activities EXCEPT ![FirstOf(t)].done = TRUE,
                                              ![FirstOf(t)].status = s]
          /\ call[c] = Resting
          /\ call' = [d \in ActivityCalls |->
                 IF d = c
                 THEN [Resting EXCEPT !.at = "notify", !.type = t,
                          !.what = "completed",
                          !.user = IF activities[FirstOf(t)].to = by THEN Assigner
                                   ELSE activities[FirstOf(t)].to]
                 ELSE IF call[d].at = "set" /\ call[d].type = t
                 THEN [call[d] EXCEPT !.late = TRUE] ELSE call[d]]
    BY ZenonT(60) DEF CompleteActivity
  <1>2. PICK i \in DOMAIN activities : i = FirstOf(t) /\ activities[i].type = t
    BY <1>1, FirstIsThere
  <1>3. activities[i] \in Activities /\ activities \in Seq(Activities)
    BY ActivitiesSeq DEF ActivityTypeOK
  <1> DEFINE a == [activities[i] EXCEPT !.done = TRUE, !.status = s]
             u == IF activities[i].to = by THEN Assigner ELSE activities[i].to
             r == [Resting EXCEPT !.at = "notify", !.type = t, !.what = "completed",
                                  !.user = u]
  <1>4. /\ a \in Activities /\ a.type = activities[i].type
        /\ a.to = activities[i].to /\ a.done = TRUE
    BY <1>1, <1>3 DEF Activities
  <1>5. activities' = [activities EXCEPT ![i] = a]
    BY <1>1, <1>2, <1>3
  <1>6. u \in People
    BY <1>1, <1>3 DEF Activities, People
  <1>7. call' = [d \in ActivityCalls |->
                 IF d = c THEN r
                 ELSE IF call[d].at = "set" /\ call[d].type = t
                 THEN [call[d] EXCEPT !.late = TRUE] ELSE call[d]]
    BY <1>1, <1>2
  <1> HIDE DEF a, u
  <1>8. /\ r \in CallRecords /\ r.at = "notify" /\ r.type = t
        /\ r.what = "completed" /\ r.user = u
    BY <1>1, <1>6 DEF Resting, CallRecords
  <1> HIDE DEF r
  <1>9. \A d \in ActivityCalls :
          /\ call[d] \in CallRecords
          /\ [call[d] EXCEPT !.late = TRUE] \in CallRecords
          /\ [call[d] EXCEPT !.late = TRUE].at = call[d].at
          /\ [call[d] EXCEPT !.late = TRUE].type = call[d].type
          /\ [call[d] EXCEPT !.late = TRUE].what = call[d].what
          /\ [call[d] EXCEPT !.late = TRUE].user = call[d].user
          /\ [call[d] EXCEPT !.late = TRUE].late = TRUE
          /\ call[d].late \in BOOLEAN
    BY DEF ActivityTypeOK, CallRecords
  <1>10. call' \in [ActivityCalls -> CallRecords] /\ call'[c] = r
    BY <1>7, <1>8, <1>9
  <1>11. \A d \in ActivityCalls \ {c} :
                /\ call'[d].at = call[d].at /\ call'[d].type = call[d].type
                /\ call'[d].what = call[d].what /\ call'[d].user = call[d].user
                /\ call'[d].late = IF call[d].at = "set" /\ call[d].type = t
                                   THEN TRUE ELSE call[d].late
    BY <1>7, <1>9
  <1>12. /\ activities' \in Seq(Activities) /\ DOMAIN activities' = DOMAIN activities
         /\ Len(activities') = Len(activities)
         /\ \A j \in DOMAIN activities :
              /\ activities'[j] = IF j = i THEN a ELSE activities[j]
              /\ activities'[j].type = activities[j].type
    BY <1>4, <1>5, UpdateType
  <1>13. \A j \in DOMAIN activities :
              /\ activities'[j].to = activities[j].to
              /\ activities'[j].done = (j = i \/ activities[j].done)
    <2> TAKE j \in DOMAIN activities
    <2>1. activities[j].done \in BOOLEAN
      BY ActivitiesSeq DEF Activities
    <2>2. CASE j = i
      BY <1>4, <1>12, <2>2
    <2>3. CASE j # i
      BY <1>12, <2>1, <2>3
    <2>4. QED
      BY <2>2, <2>3
  <1>14. call[c].at = "idle"
    BY <1>1, RestingType
  <1>15. /\ call'[c].at = "notify" /\ call'[c].type = t
         /\ call'[c].what = "completed" /\ call'[c].user = u
    BY <1>8, <1>10
  <1>16. u \in People /\ HasType(t) /\ i = FirstOf(t) /\ activities[i].type = t
    BY <1>1, <1>2, <1>6
  <1> WITNESS t \in ActivityTypes, i \in DOMAIN activities, u \in People
  <1>17. QED
    BY <1>10, <1>11, <1>12, <1>13, <1>14, <1>15, <1>16

\* Everything that was sent, failed to be or is still to come.
Sent == told \cup untold \cup
          {<<call[c].what, call[c].type, call[c].user>> :
              c \in {d \in ActivityCalls : call[d].at = "notify"}}

LEMMA EveryoneSent ==
  EveryoneTold <=>
    \A i \in DOMAIN activities :
      /\ <<"assigned", activities[i].type, activities[i].to>> \in Sent
      /\ activities[i].done =>
           \E u \in People : <<"completed", activities[i].type, u>> \in Sent
  BY DEF EveryoneTold, Sent

\* A request that was not sending loses no notification, and one that was
\* leaves its own behind.
LEMMA SentStays ==
  ASSUME NEW c \in ActivityCalls,
         \A d \in ActivityCalls \ {c} : call[d].at = "notify" =>
            /\ call'[d].at = "notify" /\ call'[d].what = call[d].what
            /\ call'[d].type = call[d].type /\ call'[d].user = call[d].user,
         told \subseteq told', untold \subseteq untold',
         call[c].at = "notify" =>
            <<call[c].what, call[c].type, call[c].user>> \in told' \cup untold'
  PROVE  /\ Sent \subseteq Sent'
         /\ call'[c].at = "notify" =>
              <<call'[c].what, call'[c].type, call'[c].user>> \in Sent'
  <1>1. ASSUME NEW x \in Sent PROVE x \in Sent'
    <2>1. CASE x \in told \cup untold
      BY <2>1 DEF Sent
    <2>2. ASSUME NEW d \in ActivityCalls, call[d].at = "notify",
                 x = <<call[d].what, call[d].type, call[d].user>>
          PROVE  x \in Sent'
      <3>1. CASE d = c
        BY <2>2, <3>1 DEF Sent
      <3>2. CASE d # c
        <4>1. /\ call'[d].at = "notify"
              /\ x = <<call'[d].what, call'[d].type, call'[d].user>>
          BY <2>2, <3>2
        <4>2. QED
          BY <4>1 DEF Sent
      <3>3. QED
        BY <3>1, <3>2
    <2>3. QED
      BY <1>1, <2>1, <2>2 DEF Sent
  <1>2. QED
    BY <1>1 DEF Sent

LEMMA ToldSame ==
  ASSUME EveryoneTold, Sent \subseteq Sent', DOMAIN activities' = DOMAIN activities,
         \A i \in DOMAIN activities :
            /\ activities'[i].type = activities[i].type
            /\ activities'[i].to = activities[i].to
            /\ activities'[i].done = activities[i].done
  PROVE  EveryoneTold'
  <1>1. \A i \in DOMAIN activities :
          /\ <<"assigned", activities[i].type, activities[i].to>> \in Sent
          /\ activities[i].done =>
               \E u \in People : <<"completed", activities[i].type, u>> \in Sent
    BY EveryoneSent
  <1>2. \A i \in DOMAIN activities' :
          /\ <<"assigned", activities'[i].type, activities'[i].to>> \in Sent'
          /\ activities'[i].done =>
               \E u \in People : <<"completed", activities'[i].type, u>> \in Sent'
    BY <1>1
  <1>3. QED
    BY <1>2 DEF EveryoneTold, Sent

\* What the overlap of a write with others leaves in the histories.
LEMMA OverlapsType ==
  ASSUME NEW c \in ActivityCalls, Overlaps(c)
  PROVE  /\ twiceType \subseteq twiceType' /\ twiceUser \subseteq twiceUser'
         /\ \A d \in ActivityCalls \ {c} :
              /\ /\ call[c].at = "push" /\ call[d].at = "push"
                 /\ call[d].type = call[c].type
                 => call[c].type \in twiceType'
              /\ /\ call[d].at \in {"push", "set"} /\ call[d].user = call[c].user
                 => call[c].user \in twiceUser'
  <1>1. twiceType \subseteq twiceType' /\ twiceUser \subseteq twiceUser'
    BY DEF Overlaps
  <1>2. ASSUME NEW d \in ActivityCalls \ {c}, call[c].at = "push", call[d].at = "push",
               call[d].type = call[c].type
        PROVE  call[c].type \in twiceType'
    <2>1. call[d] \in Escaping(c)
      BY <1>2 DEF Escaping
    <2>2. QED
      BY <1>2, <2>1 DEF Overlaps
  <1>3. ASSUME NEW d \in ActivityCalls \ {c}, call[d].at \in {"push", "set"},
               call[d].user = call[c].user
        PROVE  call[c].user \in twiceUser'
    <2>1. call[d] \in Escaping(c)
      BY <1>3 DEF Escaping
    <2>2. QED
      BY <1>3, <2>1 DEF Overlaps
  <1>4. QED
    BY <1>1, <1>2, <1>3

LEMMA PushStep ==
  ASSUME ActivityInv, NEW c \in ActivityCalls, PushActivity(c)
  PROVE  ActivityInv'
  <1> USE DEF ActivityInv
  <1>a. PICK t0 \in ActivityTypes, u0 \in Users : t0 = call[c].type /\ u0 = call[c].user
    BY DEF PushActivity, ActivityTypeOK
  <1>b. PICK n : n = Len(activities) + 1
    OBVIOUS
  <1>1. /\ activities' \in Seq(Activities) /\ Len(activities') = Len(activities) + 1
        /\ DOMAIN activities' = DOMAIN activities \cup {n}
        /\ \A i \in DOMAIN activities : activities'[i] = activities[i]
        /\ n \notin DOMAIN activities
        /\ activities'[n].type = t0 /\ activities'[n].to = u0 /\ ~activities'[n].done
    BY <1>a, <1>b, PushType
  <1>2. /\ call[c].at = "push" /\ call' \in [ActivityCalls -> CallRecords]
        /\ OthersRest(c) /\ call'[c].at = "notify" /\ call'[c].type = t0
        /\ call'[c].what = "assigned" /\ call'[c].user = u0
        /\ UNCHANGED <<told, untold>>
    BY <1>a, TellsType DEF PushActivity, People
  <1>3. /\ twiceType \subseteq twiceType' /\ twiceUser \subseteq twiceUser'
        /\ \A d \in ActivityCalls \ {c} :
             /\ call[d].at = "push" /\ call[d].type = t0 => t0 \in twiceType'
             /\ call[d].at \in {"push", "set"} /\ call[d].user = u0 => u0 \in twiceUser'
    BY <1>a, <1>2, OverlapsType DEF PushActivity
  <1>4. \A d \in ActivityCalls : call'[d].at # "notify" => d # c /\ call'[d] = call[d]
    BY <1>2 DEF OthersRest
  <1>5. ActivityTypeOK'
    <2>1. \A d \in ActivityCalls : call'[d].at = "set" => HasType(call[d].type)'
      BY <1>1, <1>4 DEF ActivityTypeOK, HasType
    <2>2. QED
      BY <1>1, <1>2, <1>4, <2>1 DEF ActivityTypeOK, HasType
  <1>6. TypeOnce'
    <2> SUFFICES ASSUME NEW t \in ActivityTypes \ twiceType'
                 PROVE  /\ \A i, j \in DOMAIN activities' :
                             activities'[i].type = t /\ activities'[j].type = t => i = j
                        /\ \A d \in ActivityCalls :
                             call'[d].at = "push" /\ call'[d].type = t => ~HasType(t)'
      BY DEF TypeOnce
    <2>1. t \notin twiceType
      BY <1>3
    <2>2. CASE t # t0
      BY <1>1, <1>4, <2>1, <2>2 DEF TypeOnce, HasType
    <2>3. CASE t = t0
      <3>1. \A i \in DOMAIN activities : activities[i].type # t
        BY <1>a, <1>2, <2>1, <2>3 DEF TypeOnce, HasType
      <3>2. \A d \in ActivityCalls : ~(call'[d].at = "push" /\ call'[d].type = t)
        BY <1>3, <1>4, <2>3
      <3>3. QED
        BY <1>1, <3>1, <3>2
    <2>4. QED
      BY <2>2, <2>3
  <1>7. UserOnce'
    <2> SUFFICES ASSUME NEW u \in Users \ twiceUser'
                 PROVE  /\ \A i, j \in DOMAIN activities' :
                             activities'[i].to = u /\ activities'[j].to = u => i = j
                        /\ \A d \in ActivityCalls :
                             call'[d].at \in {"push", "set"} /\ call'[d].user = u
                               => ~HasActivity(u)'
      BY DEF UserOnce
    <2>1. u \notin twiceUser
      BY <1>3
    <2>2. CASE u # u0
      BY <1>1, <1>4, <2>1, <2>2 DEF UserOnce, HasActivity
    <2>3. CASE u = u0
      <3>1. \A i \in DOMAIN activities : activities[i].to # u
        BY <1>a, <1>2, <2>1, <2>3 DEF UserOnce, HasActivity
      <3>2. \A d \in ActivityCalls :
              ~(call'[d].at \in {"push", "set"} /\ call'[d].user = u)
        BY <1>3, <1>4, <2>3
      <3>3. QED
        BY <1>1, <3>1, <3>2
    <2>4. QED
      BY <2>2, <2>3
  <1>8. KnowsLate'
    <2> SUFFICES ASSUME NEW d \in ActivityCalls, call'[d].at = "set",
                        activities'[FirstOf(call[d].type)'].done
                 PROVE  call'[d].late
      BY <1>4 DEF KnowsLate
    <2>1. call'[d] = call[d] /\ HasType(call[d].type)
      BY <1>4 DEF ActivityTypeOK
    <2>2. PICK t : t = call[d].type /\ t = call'[d].type
      BY <2>1
    <2>3. FirstOf(t) \in DOMAIN activities
      BY <2>1, <2>2, FirstIsThere
    <2>4. FirstOf(t)' = FirstOf(t)
      <3>1. Len(activities) <= Len(activities')
        BY <1>1, ActivitiesSeq
      <3>2. QED
        BY <1>1, <2>1, <2>2, <3>1, FirstSame
    <2>5. QED
      BY <1>1, <2>1, <2>2, <2>3, <2>4 DEF KnowsLate
  <1>9. EveryoneTold'
    <2>1. Sent \subseteq Sent' /\ <<"assigned", t0, u0>> \in Sent'
      BY <1>2, SentStays DEF OthersRest
    <2>2. \A i \in DOMAIN activities :
            /\ <<"assigned", activities[i].type, activities[i].to>> \in Sent
            /\ activities[i].done =>
                 \E u \in People : <<"completed", activities[i].type, u>> \in Sent
      BY EveryoneSent
    <2>3. \A i \in DOMAIN activities' :
            /\ <<"assigned", activities'[i].type, activities'[i].to>> \in Sent'
            /\ activities'[i].done =>
                 \E u \in People : <<"completed", activities'[i].type, u>> \in Sent'
      BY <1>1, <2>1, <2>2
    <2>4. QED
      BY <2>3 DEF EveryoneTold, Sent
  <1>10. QED
    BY <1>5, <1>6, <1>7, <1>8, <1>9

LEMMA SetStep ==
  ASSUME ActivityInv, NEW c \in ActivityCalls, SetAssigned(c)
  PROVE  ActivityInv'
  <1> USE DEF ActivityInv
  <1>a. PICK t0 \in ActivityTypes, u0 \in Users : t0 = call[c].type /\ u0 = call[c].user
    BY DEF SetAssigned, ActivityTypeOK
  <1>b. PICK n : n = FirstOf(t0)
    OBVIOUS
  <1>1. /\ activities' \in Seq(Activities) /\ DOMAIN activities' = DOMAIN activities
        /\ Len(activities') = Len(activities)
        /\ n \in DOMAIN activities /\ activities[n].type = t0
        /\ \A j \in DOMAIN activities :
             /\ activities'[j].type = activities[j].type
             /\ activities'[j].done = activities[j].done
             /\ activities'[j].to = IF j = n THEN u0 ELSE activities[j].to
    BY <1>a, <1>b, SetType
  <1>2. /\ call[c].at = "set" /\ call' \in [ActivityCalls -> CallRecords]
        /\ OthersRest(c) /\ call'[c].at = "notify" /\ call'[c].type = t0
        /\ call'[c].what = "assigned" /\ call'[c].user = u0
        /\ UNCHANGED <<told, untold>>
    BY <1>a, TellsType DEF SetAssigned, People
  <1>3. /\ twiceType \subseteq twiceType' /\ twiceUser \subseteq twiceUser'
        /\ \A d \in ActivityCalls \ {c} :
             call[d].at \in {"push", "set"} /\ call[d].user = u0 => u0 \in twiceUser'
    BY <1>a, <1>2, OverlapsType DEF SetAssigned
  <1>4. \A d \in ActivityCalls : call'[d].at # "notify" => d # c /\ call'[d] = call[d]
    BY <1>2 DEF OthersRest
  <1>5. \A t : HasType(t)' <=> HasType(t)
    BY <1>1 DEF HasType
  <1>6. ActivityTypeOK'
    <2>1. \A d \in ActivityCalls : call'[d].at = "set" => HasType(call[d].type)'
      BY <1>1, <1>4 DEF ActivityTypeOK, HasType
    <2>2. QED
      BY <1>1, <1>2, <1>4, <2>1 DEF ActivityTypeOK, HasType
  <1>7. TypeOnce'
    BY <1>1, <1>3, <1>4, <1>5 DEF TypeOnce
  <1>8. UserOnce'
    <2> SUFFICES ASSUME NEW u \in Users \ twiceUser'
                 PROVE  /\ \A i, j \in DOMAIN activities' :
                             activities'[i].to = u /\ activities'[j].to = u => i = j
                        /\ \A d \in ActivityCalls :
                             call'[d].at \in {"push", "set"} /\ call'[d].user = u
                               => ~HasActivity(u)'
      BY DEF UserOnce
    <2>1. u \notin twiceUser
      BY <1>3
    <2>2. CASE u # u0
      BY <1>1, <1>4, <2>1, <2>2 DEF UserOnce, HasActivity
    <2>3. CASE u = u0
      <3>1. \A i \in DOMAIN activities : activities[i].to # u
        BY <1>a, <1>2, <2>1, <2>3 DEF UserOnce, HasActivity
      <3>2. \A d \in ActivityCalls :
              ~(call'[d].at \in {"push", "set"} /\ call'[d].user = u)
        BY <1>3, <1>4, <2>3
      <3>3. QED
        BY <1>1, <3>1, <3>2
    <2>4. QED
      BY <2>2, <2>3
  <1>9. KnowsLate'
    <2> SUFFICES ASSUME NEW d \in ActivityCalls, call'[d].at = "set",
                        activities'[FirstOf(call[d].type)'].done
                 PROVE  call'[d].late
      BY <1>4 DEF KnowsLate
    <2>1. call'[d] = call[d] /\ HasType(call[d].type)
      BY <1>4 DEF ActivityTypeOK
    <2>2. PICK t : t = call[d].type /\ t = call'[d].type
      BY <2>1
    <2>3. FirstOf(t) \in DOMAIN activities
      BY <2>1, <2>2, FirstIsThere
    <2>4. FirstOf(t)' = FirstOf(t)
      <3>1. Len(activities) <= Len(activities')
        BY <1>1, ActivitiesSeq
      <3>2. QED
        BY <1>1, <2>1, <2>2, <3>1, FirstSame
    <2>5. QED
      BY <1>1, <2>1, <2>2, <2>3, <2>4 DEF KnowsLate
  <1>10. EveryoneTold'
    <2>1. Sent \subseteq Sent' /\ <<"assigned", t0, u0>> \in Sent'
      BY <1>2, SentStays DEF OthersRest
    <2>2. \A i \in DOMAIN activities :
            /\ <<"assigned", activities[i].type, activities[i].to>> \in Sent
            /\ activities[i].done =>
                 \E u \in People : <<"completed", activities[i].type, u>> \in Sent
      BY EveryoneSent
    <2>3. \A i \in DOMAIN activities' :
            /\ <<"assigned", activities'[i].type, activities'[i].to>> \in Sent'
            /\ activities'[i].done =>
                 \E u \in People : <<"completed", activities'[i].type, u>> \in Sent'
      BY <1>1, <2>1, <2>2
    <2>4. QED
      BY <2>3 DEF EveryoneTold, Sent
  <1>11. QED
    BY <1>6, <1>7, <1>8, <1>9, <1>10

LEMMA CompleteStep ==
  ASSUME ActivityInv, NEW c \in ActivityCalls, CompleteActivity(c)
  PROVE  ActivityInv'
  <1> USE DEF ActivityInv
  <1>1. PICK t \in ActivityTypes, n \in DOMAIN activities, u \in People :
           /\ n = FirstOf(t) /\ activities[n].type = t /\ HasType(t)
           /\ activities' \in Seq(Activities) /\ DOMAIN activities' = DOMAIN activities
           /\ Len(activities') = Len(activities)
           /\ \A j \in DOMAIN activities :
                /\ activities'[j].type = activities[j].type
                /\ activities'[j].to = activities[j].to
                /\ activities'[j].done = (j = n \/ activities[j].done)
           /\ call[c].at = "idle" /\ call' \in [ActivityCalls -> CallRecords]
           /\ call'[c].at = "notify" /\ call'[c].type = t
           /\ call'[c].what = "completed" /\ call'[c].user = u
           /\ \A d \in ActivityCalls \ {c} :
                /\ call'[d].at = call[d].at /\ call'[d].type = call[d].type
                /\ call'[d].what = call[d].what /\ call'[d].user = call[d].user
                /\ call'[d].late = IF call[d].at = "set" /\ call[d].type = t
                                   THEN TRUE ELSE call[d].late
    BY CompleteType
  <1>2. UNCHANGED <<told, untold, twiceType, twiceUser>>
    BY DEF CompleteActivity
  <1>3. \A d \in ActivityCalls : call'[d].at # "notify" =>
          d # c /\ call'[d].at = call[d].at /\ call'[d].type = call[d].type
          /\ call'[d].user = call[d].user
    BY <1>1
  <1>4. \A x : (HasType(x)' <=> HasType(x)) /\ (HasActivity(x)' <=> HasActivity(x))
    BY <1>1 DEF HasType, HasActivity
  <1>5. ActivityTypeOK'
    <2>1. \A d \in ActivityCalls : call'[d].at = "set" => HasType(call[d].type)'
      BY <1>1, <1>3 DEF ActivityTypeOK, HasType
    <2>2. QED
      BY <1>1, <1>3, <2>1 DEF ActivityTypeOK, HasType
  <1>6. TypeOnce' /\ UserOnce'
    BY <1>1, <1>2, <1>3, <1>4, SMTT(30) DEF TypeOnce, UserOnce
  <1>7. KnowsLate'
    <2> SUFFICES ASSUME NEW d \in ActivityCalls, call'[d].at = "set",
                        activities'[FirstOf(call[d].type)'].done
                 PROVE  call'[d].late
      BY <1>3 DEF KnowsLate
    <2>1. /\ d # c /\ call[d].at = "set" /\ call'[d].type = call[d].type
          /\ HasType(call[d].type)
      BY <1>3 DEF ActivityTypeOK
    <2>2. PICK x : x = call[d].type /\ x = call'[d].type
      BY <2>1
    <2>3. FirstOf(x) \in DOMAIN activities
      BY <2>1, <2>2, FirstIsThere
    <2>4. FirstOf(x)' = FirstOf(x)
      <3>1. Len(activities) <= Len(activities')
        BY <1>1, ActivitiesSeq
      <3>2. QED
        BY <1>1, <2>1, <2>2, <3>1, FirstSame
    <2>5. CASE x = t
      <3>1. call'[d].late = IF call[d].at = "set" /\ call[d].type = t
                            THEN TRUE ELSE call[d].late
        BY <1>1, <2>1
      <3>2. call'[d].late = TRUE
        BY <2>1, <2>2, <2>5, <3>1
      <3>3. QED
        BY <3>2, Zenon
    <2>6. CASE x # t
      <3>1. activities[FirstOf(x)].type = x
        BY <2>1, <2>2, FirstIsThere
      <3>2. FirstOf(x) # n
        BY <1>1, <2>6, <3>1
      <3>3. activities[FirstOf(x)].done
        BY <1>1, <2>2, <2>3, <2>4, <3>2
      <3>4. call[d].late
        BY <2>1, <2>2, <3>3 DEF KnowsLate
      <3>5. QED
        BY <1>1, <2>1, <2>2, <2>6, <3>4
    <2>7. QED
      BY <2>5, <2>6
  <1>8. EveryoneTold'
    <2>1. Sent \subseteq Sent' /\ <<"completed", t, u>> \in Sent'
      BY <1>1, <1>2, SentStays
    <2>2. \A i \in DOMAIN activities :
            /\ <<"assigned", activities[i].type, activities[i].to>> \in Sent
            /\ activities[i].done =>
                 \E v \in People : <<"completed", activities[i].type, v>> \in Sent
      BY EveryoneSent
    <2>3. \A i \in DOMAIN activities' :
            /\ <<"assigned", activities'[i].type, activities'[i].to>> \in Sent'
            /\ activities'[i].done =>
                 \E v \in People : <<"completed", activities'[i].type, v>> \in Sent'
      <3> SUFFICES ASSUME NEW i \in DOMAIN activities
                   PROVE  /\ <<"assigned", activities'[i].type, activities'[i].to>> \in Sent'
                          /\ activities'[i].done =>
                               \E v \in People :
                                 <<"completed", activities'[i].type, v>> \in Sent'
        BY <1>1
      <3>1. /\ activities'[i].type = activities[i].type
            /\ activities'[i].to = activities[i].to
            /\ activities'[i].done = (i = n \/ activities[i].done)
        BY <1>1
      <3>2. <<"assigned", activities'[i].type, activities'[i].to>> \in Sent'
        BY <2>1, <2>2, <3>1
      <3>3. CASE i = n
        BY <1>1, <2>1, <3>1, <3>2, <3>3, ZenonT(60)
      <3>4. CASE i # n
        BY <2>1, <2>2, <3>1, <3>2, <3>4
      <3>5. QED
        BY <3>3, <3>4
    <2>4. QED
      BY <2>3 DEF EveryoneTold, Sent
  <1>9. QED
    BY <1>5, <1>6, <1>7, <1>8

\* A request past its checks: nobody has the type, or the user is free.
LEMMA BeginStep ==
  ASSUME ActivityInv, NEW c \in ActivityCalls, CreateActivity(c) \/ ChangeAssigned(c)
  PROVE  ActivityInv'
  <1> USE DEF ActivityInv
  <1>1. PICK t \in ActivityTypes, u \in Users, place \in {"push", "set"} :
          /\ Starts(c, [Resting EXCEPT !.at = place, !.type = t, !.user = u])
          /\ ~HasActivity(u)
          /\ place = "push" => ~HasType(t)
          /\ place = "set" => HasType(t) /\ ~activities[FirstOf(t)].done
    BY Zenon DEF CreateActivity, ChangeAssigned
  <1>2. UNCHANGED <<activities, told, twiceType, twiceUser, untold>>
    BY DEF CreateActivity, ChangeAssigned
  <1>3. /\ call' \in [ActivityCalls -> CallRecords] /\ OthersRest(c)
        /\ call'[c].at = place /\ call'[c].type = t /\ call'[c].user = u
        /\ call[c].at = "idle"
    BY <1>1, BeginsType
  <1>4. \A d \in ActivityCalls : d # c => call'[d] = call[d]
    BY <1>3 DEF OthersRest
  <1>5. \A x : /\ HasType(x)' <=> HasType(x)
               /\ HasActivity(x)' <=> HasActivity(x)
               /\ FirstOf(x)' = FirstOf(x)
    BY <1>2 DEF HasType, HasActivity, FirstOf, SelectInSeq
  <1>6. ActivityTypeOK'
    <2>1. \A d \in ActivityCalls : call'[d].at = "set" => HasType(call'[d].type)
      BY <1>1, <1>3, <1>4 DEF ActivityTypeOK
    <2>2. \A d \in ActivityCalls : call'[d].at \in {"push", "set"} =>
              call'[d].type \in ActivityTypes /\ call'[d].user \in Users
      BY <1>1, <1>3, <1>4 DEF ActivityTypeOK
    <2>3. QED
      BY <1>2, <1>3, <2>1, <2>2 DEF ActivityTypeOK, HasType
  <1>7. TypeOnce' /\ UserOnce'
    BY <1>1, <1>2, <1>3, <1>4, <1>5 DEF TypeOnce, UserOnce
  <1>8. KnowsLate'
    <2>1. \A d \in ActivityCalls :
            call'[d].at = "set" /\ activities[FirstOf(call'[d].type)].done => call'[d].late
      BY <1>1, <1>3, <1>4 DEF KnowsLate
    <2>2. QED
      BY <1>2, <2>1 DEF KnowsLate, FirstOf, SelectInSeq
  <1>9. EveryoneTold'
    <2>1. Sent \subseteq Sent'
      BY <1>2, <1>3, <1>4, SentStays
    <2>2. QED
      BY <1>2, <2>1, ToldSame
  <1>10. QED
    BY <1>6, <1>7, <1>8, <1>9

LEMMA TellStep ==
  ASSUME ActivityInv, NEW c \in ActivityCalls, Notify(c) \/ NotifyFailed(c)
  PROVE  ActivityInv'
  <1> USE DEF ActivityInv
  <1>1. /\ call' = [call EXCEPT ![c] = Resting] /\ call[c].at = "notify"
        /\ UNCHANGED <<activities, twiceType, twiceUser>>
        /\ told \subseteq told' /\ untold \subseteq untold'
        /\ <<call[c].what, call[c].type, call[c].user>> \in told' \cup untold'
    BY DEF Notify, NotifyFailed
  <1>2. /\ call' \in [ActivityCalls -> CallRecords] /\ call'[c].at = "idle"
        /\ \A d \in ActivityCalls : d # c => call'[d] = call[d]
    BY <1>1, RestsType DEF OthersRest
  <1>3. \A x : /\ HasType(x)' <=> HasType(x)
               /\ HasActivity(x)' <=> HasActivity(x)
    BY <1>1 DEF HasType, HasActivity
  <1>4. ActivityTypeOK'
    <2>1. \A d \in ActivityCalls : call'[d].at = "set" => HasType(call'[d].type)
      BY <1>2 DEF ActivityTypeOK
    <2>2. QED
      BY <1>1, <1>2, <2>1 DEF ActivityTypeOK, HasType
  <1>5. TypeOnce' /\ UserOnce'
    BY <1>1, <1>2, <1>3 DEF TypeOnce, UserOnce
  <1>6. KnowsLate'
    <2>1. \A d \in ActivityCalls :
            call'[d].at = "set" /\ activities[FirstOf(call'[d].type)].done => call'[d].late
      BY <1>2 DEF KnowsLate
    <2>2. QED
      BY <1>1, <2>1 DEF KnowsLate, FirstOf, SelectInSeq
  <1>7. EveryoneTold'
    <2>1. Sent \subseteq Sent'
      BY <1>1, <1>2, SentStays
    <2>2. QED
      BY <1>1, <2>1, ToldSame
  <1>8. QED
    BY <1>4, <1>5, <1>6, <1>7

LEMMA ActivityStep == ActivityInv /\ [ActivityNext]_activityVars => ActivityInv'
  <1> SUFFICES ASSUME ActivityInv, [ActivityNext]_activityVars PROVE ActivityInv'
    OBVIOUS
  <1>1. CASE UNCHANGED activityVars
    BY <1>1 DEF activityVars, ActivityInv, ActivityTypeOK, TypeOnce, UserOnce, KnowsLate,
                EveryoneTold, HasType, HasActivity, FirstOf, SelectInSeq
  <1>2. QED
    BY <1>1, PushStep, SetStep, CompleteStep, BeginStep, TellStep DEF ActivityNext

LEMMA ActivityBegin == ActivityInit => ActivityInv
  <1> SUFFICES ASSUME ActivityInit PROVE ActivityInv
    OBVIOUS
  <1>1. activities \in Seq(Activities) /\ DOMAIN activities = {}
    BY EmptySeq DEF ActivityInit
  <1>2. /\ call \in [ActivityCalls -> CallRecords]
        /\ \A c \in ActivityCalls : call[c].at = "idle"
    BY RestingType DEF ActivityInit
  <1>3. QED
    BY <1>1, <1>2 DEF ActivityInv, ActivityTypeOK, TypeOnce, UserOnce, KnowsLate,
                      EveryoneTold

LEMMA ActivityCorrect == ActivitySpec => []ActivityInv
  BY ActivityBegin, ActivityStep, PTL DEF ActivitySpec

\* Nobody has two activities of a lawsuit, of however many types and whoever
\* else the requests are about, unless two overlapping requests gave the same
\* person an activity each: the check before the $push and before the $set.
THEOREM OneEach == ActivitySpec => []OneActivityEach
  <1>1. ActivityInv => OneActivityEach
    <2> SUFFICES ASSUME UserOnce, NEW u \in Users \ twiceUser
                 PROVE  Cardinality({i \in DOMAIN activities : activities[i].to = u}) <= 1
      BY DEF ActivityInv, OneActivityEach
    <2> DEFINE S == {i \in DOMAIN activities : activities[i].to = u}
    <2>1. \A x, y \in S : x = y
      BY DEF UserOnce
    <2> HIDE DEF S
    <2>2. Cardinality(S) <= 1
      BY <2>1, AtMostOne
    <2>3. QED
      BY <2>2 DEF S
  <1>2. QED
    BY <1>1, ActivityCorrect, PTL

\* Every activity was told to whom it was given, and its end to one of the two
\* it concerns; or the notification is still to come, or failed.
THEOREM Telling == ActivitySpec => []EveryoneTold
  BY ActivityCorrect, PTL DEF ActivityInv

\* The groups of a type that is in the list once at most.
LEMMA GroupsOfOne ==
  ASSUME ActivityTypeOK, TypeOnce, NEW t \in ActivityTypes \ twiceType
  PROVE  /\ ~HasType(t) => Groups(t) = {}
         /\ HasType(t) => \E a \in Activities : Groups(t) = {<<a.done, a.status>>}
  <1>1. CASE ~HasType(t)
    BY <1>1 DEF HasType, Groups
  <1>2. CASE HasType(t)
    <2>1. PICK i \in DOMAIN activities : activities[i].type = t
      BY <1>2 DEF HasType
    <2>2. {j \in DOMAIN activities : activities[j].type = t} = {i}
      BY <2>1 DEF TypeOnce
    <2>3. activities[i] \in Activities
      BY ActivitiesSeq
    <2>4. QED
      BY <1>2, <2>2, <2>3 DEF Groups
  <1>3. QED
    BY <1>1, <1>2

\* The metrics count a lawsuit once for each type of activity it has, as
\* pending, approved or rejected, unless two overlapping requests created the
\* type: no type is counted under two completions or two statuses.
THEOREM CountedOnce == ActivitySpec => []MetricsCountOnce
  <1>1. ActivityInv => MetricsCountOnce
    <2> SUFFICES ASSUME ActivityTypeOK, TypeOnce, NEW t \in ActivityTypes \ twiceType
                 PROVE  LET n == IF HasType(t) THEN 1 ELSE 0 IN
                        /\ Metrics(t).total = n
                        /\ Metrics(t).pending + Metrics(t).approved
                             + Metrics(t).rejected = n
      BY DEF ActivityInv, MetricsCountOnce
    <2>1. CASE ~HasType(t)
      <3>1. Groups(t) = {}
        BY <2>1, GroupsOfOne
      <3>2. /\ {g \in Groups(t) : ~g[1]} = {}
            /\ {g \in Groups(t) : g[1] /\ g[2] = "APROVED"} = {}
            /\ {g \in Groups(t) : g[1] /\ g[2] = "LOSS"} = {}
        BY <3>1
      <3>3. Cardinality({}) = 0
        BY FS_EmptySet
      <3>4. QED
        BY <2>1, <3>1, <3>2, <3>3 DEF Metrics
    <2>2. CASE HasType(t)
      <3>1. PICK a \in Activities : Groups(t) = {<<a.done, a.status>>}
        BY <2>2, GroupsOfOne
      <3>2. /\ a.done \in BOOLEAN /\ a.status \in {"", "APROVED", "LOSS"}
            /\ a.done => a.status # ""
        BY DEF Activities
      <3> DEFINE g0 == <<a.done, a.status>>
      <3>3. g0[1] = a.done /\ g0[2] = a.status
        OBVIOUS
      <3>4. Cardinality({}) = 0 /\ Cardinality({g0}) = 1
        BY FS_EmptySet, FS_Singleton
      <3>5. /\ {g \in Groups(t) : ~g[1]} = IF a.done THEN {} ELSE {g0}
            /\ {g \in Groups(t) : g[1] /\ g[2] = "APROVED"} =
                 IF a.done /\ a.status = "APROVED" THEN {g0} ELSE {}
            /\ {g \in Groups(t) : g[1] /\ g[2] = "LOSS"} =
                 IF a.done /\ a.status = "LOSS" THEN {g0} ELSE {}
        BY <3>1, <3>2, <3>3
      <3> HIDE DEF g0
      <3>6. Metrics(t).total = 1
        BY <3>1, <3>4 DEF Metrics, g0
      <3>a. /\ Metrics(t).pending = IF a.done THEN 0 ELSE 1
            /\ Metrics(t).approved = IF a.done /\ a.status = "APROVED" THEN 1 ELSE 0
            /\ Metrics(t).rejected = IF a.done /\ a.status = "LOSS" THEN 1 ELSE 0
        BY <3>4, <3>5 DEF Metrics
      <3>7. CASE ~a.done
        BY <2>2, <3>4, <3>6, <3>7, <3>a
      <3>8. CASE a.done /\ a.status = "APROVED"
        BY <2>2, <3>4, <3>6, <3>8, <3>a
      <3>9. CASE a.done /\ a.status = "LOSS"
        BY <2>2, <3>4, <3>6, <3>9, <3>a
      <3>10. QED
        BY <3>2, <3>7, <3>8, <3>9
    <2>3. QED
      BY <2>1, <2>2
  <1>2. QED
    BY <1>1, ActivityCorrect, PTL

\* A completed activity changes hands only at the write of a request that was
\* on its way when the activity was completed: all the others are refused, and
\* none mistakes which of the list's activities its write is for.
THEOREM KeepsItsUser == ActivitySpec => CompletedKeepsItsUser
  <1> DEFINE Keeps ==
        \A i \in DOMAIN activities :
          activities[i].done /\ activities'[i].to # activities[i].to =>
            \E c \in ActivityCalls : call[c].at = "set" /\ call[c].late
  <1>1. ActivityInv /\ [ActivityNext]_activityVars => [Keeps]_activityVars
    <2> SUFFICES ASSUME ActivityInv, ActivityNext,
                        NEW i \in DOMAIN activities, activities[i].done,
                        activities'[i].to # activities[i].to
                 PROVE  \E c \in ActivityCalls : call[c].at = "set" /\ call[c].late
      OBVIOUS
    <2>1. PICK c \in ActivityCalls :
            \/ CreateActivity(c) \/ PushActivity(c) \/ ChangeAssigned(c)
            \/ SetAssigned(c) \/ CompleteActivity(c) \/ Notify(c) \/ NotifyFailed(c)
      BY DEF ActivityNext
    <2>2. ActivityTypeOK
      BY DEF ActivityInv
    <2>3. ~(CreateActivity(c) \/ ChangeAssigned(c) \/ Notify(c) \/ NotifyFailed(c))
      BY DEF CreateActivity, ChangeAssigned, Notify, NotifyFailed
    <2>4. ~PushActivity(c)
      BY <2>2, PushType
    <2>5. ~CompleteActivity(c)
      BY <2>2, CompleteType
    <2>6. SetAssigned(c)
      BY <2>1, <2>3, <2>4, <2>5
    <2>7. i = FirstOf(call[c].type) /\ call[c].at = "set"
      BY <2>2, <2>6, SetType DEF SetAssigned
    <2>8. call[c].late
      BY <2>7 DEF ActivityInv, KnowsLate
    <2>9. QED
      BY <2>7, <2>8
  <1>2. ActivitySpec => [][Keeps]_activityVars
    BY <1>1, ActivityCorrect, PTL DEF ActivitySpec
  <1>3. QED
    BY <1>2 DEF CompletedKeepsItsUser

-----------------------------------------------------------------------------
(* LawsuitForm: any fields, values and number of requests.                  *)

FormType ==
    /\ form \in [FormFields -> FormValues \cup {Unset, Blank}]
    /\ patch \in [FormEdits ->
          [at : {"idle", "read"}, read : [FormFields -> FormValues \cup {Unset, Blank}],
           direct : [FormFields -> (FormValues \cup {Unset}) \ {Blank}],
           whole : [FormFields -> FormValues \cup {Unset, Blank}], hasWhole : BOOLEAN]]

\* A request writes back the form that is stored, unless another one wrote
\* it since.
ReadsTheForm ==
    \A c \in FormEdits :
        patch[c].at = "read" /\ c \notin edited => patch[c].read = form

FormInv == FormType /\ ReadsTheForm

LEMMA NoPatchType ==
  /\ NoPatch \in [at : {"idle", "read"}, read : [FormFields -> FormValues \cup {Unset, Blank}],
        direct : [FormFields -> (FormValues \cup {Unset}) \ {Blank}],
        whole : [FormFields -> FormValues \cup {Unset, Blank}], hasWhole : BOOLEAN]
  /\ NoPatch.at = "idle" /\ NoForm \in [FormFields -> FormValues \cup {Unset, Blank}]
  BY DEF NoPatch, NoForm, Unset, Blank

LEMMA MergedType ==
  ASSUME FormType, NEW c \in FormEdits
  PROVE  Merged(patch[c]) \in [FormFields -> FormValues \cup {Unset, Blank}]
  BY DEF FormType, Merged

LEMMA ReadFormStep ==
  ASSUME FormInv, NEW c \in FormEdits, ReadForm(c)
  PROVE  FormInv'
  <1>1. PICK direct \in [FormFields -> FormValues \cup {Unset, Blank}],
             whole \in [FormFields -> FormValues \cup {Unset, Blank}], has \in BOOLEAN :
          patch' = [patch EXCEPT ![c] = [at |-> "read", read |-> form,
              direct |-> [f \in FormFields |->
                            IF direct[f] = Blank THEN Unset ELSE direct[f]],
              whole |-> whole, hasWhole |-> has]]
    BY DEF ReadForm
  <1> DEFINE given == [f \in FormFields |-> IF direct[f] = Blank THEN Unset ELSE direct[f]]
  <1>2. given \in [FormFields -> (FormValues \cup {Unset}) \ {Blank}]
    BY DEF Unset, Blank
  <1>3. patch' = [patch EXCEPT ![c] = [at |-> "read", read |-> form, direct |-> given,
                                       whole |-> whole, hasWhole |-> has]]
    BY <1>1
  <1> HIDE DEF given
  <1>4. UNCHANGED form /\ edited' = edited \ {c}
    BY DEF ReadForm
  <1>5. FormType'
    BY <1>2, <1>3, <1>4 DEF FormInv, FormType
  <1>6. ReadsTheForm'
    BY <1>3, <1>4 DEF FormInv, FormType, ReadsTheForm
  <1>7. QED
    BY <1>5, <1>6 DEF FormInv

LEMMA WriteFormStep ==
  ASSUME FormInv, NEW c \in FormEdits, WriteForm(c)
  PROVE  FormInv'
  <1>1. /\ patch' = [patch EXCEPT ![c] = NoPatch]
        /\ form' \in {form, Merged(patch[c])}
        /\ edited' = {d \in FormEdits \ {c} : d \in edited \/ patch[d].at = "read"}
    BY DEF WriteForm
  <1>2. FormType'
    <2>1. form' \in [FormFields -> FormValues \cup {Unset, Blank}]
      BY <1>1, MergedType DEF FormInv, FormType
    <2>2. QED
      BY <1>1, <2>1, NoPatchType DEF FormInv, FormType
  <1>3. \A d \in FormEdits : patch'[d].at = "read" => d \in edited'
    <2> TAKE d \in FormEdits
    <2>1. CASE d = c
      BY <1>1, <2>1, NoPatchType DEF FormInv, FormType
    <2>2. CASE d # c
      BY <1>1, <2>2 DEF FormInv, FormType
    <2>3. QED
      BY <2>1, <2>2
  <1>4. QED
    BY <1>2, <1>3 DEF FormInv, ReadsTheForm

LEMMA FormCorrect == FormSpec => []FormInv
  <1>1. FormInit => FormInv
    BY NoPatchType DEF FormInit, FormInv, FormType, ReadsTheForm
  <1>2. FormInv /\ [FormNext]_formVars => FormInv'
    <2>1. CASE UNCHANGED formVars
      BY <2>1 DEF formVars, FormInv, FormType, ReadsTheForm
    <2>2. QED
      BY <2>1, ReadFormStep, WriteFormStep DEF FormNext
  <1>3. QED
    BY <1>1, <1>2, PTL DEF FormSpec

\* A field of the stored form changes only by a request that gives it a value,
\* by one that sends the whole form, or by one that read the form before
\* another request wrote it: merging into a form that is still the stored one
\* puts every other field back as it is.
THEOREM FieldsKept == FormSpec => FormFieldsKept
  <1> DEFINE Kept ==
        \A f \in FormFields : form'[f] # form[f] =>
          \E c \in FormEdits :
             LET e == patch[c] IN
             /\ e.at = "read" /\ patch'[c].at = "idle"
             /\ \/ e.hasWhole
                \/ form'[f] = e.direct[f] /\ form'[f] \notin {Unset, Blank}
                \/ c \in edited /\ form'[f] = e.read[f]
  <1>1. FormInv /\ [FormNext]_formVars => [Kept]_formVars
    <2> SUFFICES ASSUME FormInv, FormNext, NEW f \in FormFields, form'[f] # form[f]
                 PROVE  \E c \in FormEdits :
                          /\ patch[c].at = "read" /\ patch'[c].at = "idle"
                          /\ \/ patch[c].hasWhole
                             \/ /\ form'[f] = patch[c].direct[f]
                                /\ form'[f] \notin {Unset, Blank}
                             \/ c \in edited /\ form'[f] = patch[c].read[f]
      BY Zenon
    <2>1. PICK c \in FormEdits : WriteForm(c)
      BY DEF FormNext, ReadForm
    <2>2. /\ patch[c].at = "read" /\ patch' = [patch EXCEPT ![c] = NoPatch]
          /\ form' = Merged(patch[c])
      BY <2>1 DEF WriteForm
    <2>3. patch'[c].at = "idle"
      BY <2>2, NoPatchType DEF FormInv, FormType
    <2>4. CASE patch[c].hasWhole
      BY <2>2, <2>3, <2>4
    <2>5. CASE ~patch[c].hasWhole /\ patch[c].direct[f] # Unset
      <3>1. form'[f] = patch[c].direct[f]
        BY <2>2, <2>5 DEF Merged
      <3>2. patch[c].direct[f] # Blank
        BY DEF FormInv, FormType
      <3>3. QED
        BY <2>2, <2>3, <2>5, <3>1, <3>2
    <2>6. CASE ~patch[c].hasWhole /\ patch[c].direct[f] = Unset
      <3>1. form'[f] = patch[c].read[f]
        BY <2>2, <2>6 DEF Merged
      <3>2. c \in edited
        BY <2>2, <3>1 DEF FormInv, ReadsTheForm
      <3>3. QED
        BY <2>2, <2>3, <3>1, <3>2
    <2>7. QED
      BY <2>4, <2>5, <2>6
  <1>2. FormSpec => [][Kept]_formVars
    BY <1>1, FormCorrect, PTL DEF FormSpec
  <1>3. QED
    BY <1>2 DEF FormFieldsKept

-----------------------------------------------------------------------------
(* LawsuitQueries: any finite set of lawsuits and any filters.              *)

LEMMA FilterType == QuerySpec => [](filter \in Filters \cup {NoFilter})
  <1>1. QueryInit => filter \in Filters \cup {NoFilter}
    BY DEF QueryInit
  <1>2. filter \in Filters \cup {NoFilter} /\ [QueryNext]_filter
          => (filter \in Filters \cup {NoFilter})'
    BY DEF QueryNext, AskCounters
  <1>3. QED
    BY <1>1, <1>2, PTL DEF QuerySpec

\* With one filter at most in its $or, the bulk update's $or is a conjunct like
\* the others.
LEMMA SameCondition ==
  ASSUME NEW f \in Filters, NEW r \in Listed, f.lossReasons = {},
         ~(f.search /\ f.status # ""),
         ~(f.search /\ f.emptyDocuments = "yes"),
         ~(f.search /\ f.emptyInstances = "yes"),
         ~(f.emptyDocuments = "yes" /\ f.emptyInstances = "yes")
  PROVE  r.onBoard /\ BulkUpdated(r, f) <=> Counted(r, f)
  <1>1. /\ f.search \in BOOLEAN /\ f.emptyDocuments \in {"any", "yes", "no"}
        /\ f.emptyInstances \in {"any", "yes", "no"}
    BY QueryAssumption
  <1>2. r.onBoard \in BOOLEAN /\ r.matches \in BOOLEAN
    BY QueryAssumption
  <1>3. Counted(r, f) <=>
          /\ r.onBoard
          /\ IF f.search THEN r.matches ELSE f.status # "" => r.situation = f.status
          /\ f.emptyDocuments = "yes" => Empty(r.documents)
          /\ f.emptyDocuments = "no" => ~Empty(r.documents)
          /\ f.emptyInstances = "yes" => Empty(r.instancias)
          /\ f.emptyInstances = "no" => ~Empty(r.instancias)
          /\ f.hasNewMovements # "any" => r.moved = f.hasNewMovements
    <2>1. EmptinessAsked(r, f) <=>
            /\ f.emptyDocuments = "yes" => Empty(r.documents)
            /\ f.emptyDocuments = "no" => ~Empty(r.documents)
            /\ f.emptyInstances = "yes" => Empty(r.instancias)
            /\ f.emptyInstances = "no" => ~Empty(r.instancias)
      BY <1>1 DEF EmptinessAsked
    <2>2. ReasonAsked(r, f)
      BY DEF ReasonAsked
    <2>3. QED
      BY <1>2, <2>1, <2>2 DEF Counted, SearchOrStatus
  <1>4. CASE f.search
    BY <1>1, <1>2, <1>3, <1>4 DEF BulkUpdated, OrGiven, OrHolds, Empty
  <1>5. CASE f.emptyDocuments = "yes"
    BY <1>1, <1>2, <1>3, <1>5 DEF BulkUpdated, OrGiven, OrHolds, Empty
  <1>6. CASE f.emptyInstances = "yes"
    BY <1>1, <1>2, <1>3, <1>6 DEF BulkUpdated, OrGiven, OrHolds, Empty
  <1>7. CASE ~f.search /\ f.emptyDocuments # "yes" /\ f.emptyInstances # "yes"
    BY <1>1, <1>2, <1>3, <1>7 DEF BulkUpdated, OrGiven, OrHolds, Empty
  <1>8. QED
    BY <1>4, <1>5, <1>6, <1>7

\* Every lawsuit has one of the four situations.
LEMMA SituationsAddUp ==
  ASSUME NEW S \in SUBSET Listed
  PROVE  Cardinality(S) = Cardinality({r \in S : r.situation = "PENDING"})
                          + Cardinality({r \in S : r.situation = "APPROVED"})
                          + Cardinality({r \in S : r.situation = "LOSS"})
                          + Cardinality({r \in S : r.situation = "IN_PROGRESS"})
  <1> DEFINE P == {r \in S : r.situation = "PENDING"}
             A == {r \in S : r.situation = "APPROVED"}
             L == {r \in S : r.situation = "LOSS"}
             G == {r \in S : r.situation = "IN_PROGRESS"}
             LG == L \cup G
             ALG == A \cup LG
  <1>1. IsFiniteSet(S)
    BY QueryAssumption, FS_Subset
  <1>2. \A r \in S : r.situation \in {"PENDING", "APPROVED", "LOSS", "IN_PROGRESS"}
    BY QueryAssumption DEF Situations
  <1>3. S = P \cup ALG /\ P \cap ALG = {} /\ A \cap LG = {} /\ L \cap G = {}
    BY <1>2
  <1> HIDE DEF P, A, L, G, LG, ALG
  <1>4. /\ Cardinality(S) = Cardinality(P) + Cardinality(ALG) /\ IsFiniteSet(ALG)
        /\ Cardinality(P) \in Nat
    BY <1>1, <1>3, InTwoParts
  <1>5. /\ Cardinality(ALG) = Cardinality(A) + Cardinality(LG) /\ IsFiniteSet(LG)
        /\ Cardinality(A) \in Nat
    BY <1>3, <1>4, InTwoParts DEF ALG
  <1>6. /\ Cardinality(LG) = Cardinality(L) + Cardinality(G)
        /\ Cardinality(L) \in Nat /\ Cardinality(G) \in Nat
    BY <1>3, <1>5, InTwoParts DEF LG
  <1>7. Cardinality(S) = Cardinality(P) + Cardinality(A) + Cardinality(L) + Cardinality(G)
    BY <1>4, <1>5, <1>6
  <1>8. QED
    BY <1>7 DEF P, A, L, G

\* With the same filters the bulk update changes the lawsuits of the board that
\* the counters count, and as many of each stage and situation as they show;
\* where the bulk update's query does not look at the loss reason and puts its
\* conditions into one $or, the hypotheses say so.
THEOREM BulkAsCounted == QuerySpec => []BulkUpdatesTheCounted
  <1>1. filter \in Filters \cup {NoFilter} => BulkUpdatesTheCounted
    <2> DEFINE O == {x \in {"search", "documents", "instances"} :
                       \/ x = "search" /\ filter.search
                       \/ x = "documents" /\ filter.emptyDocuments = "yes"
                       \/ x = "instances" /\ filter.emptyInstances = "yes"}
               changed == {r \in Listed : r.onBoard /\ BulkUpdated(r, filter)}
    <2>0. SUFFICES ASSUME filter \in Filters, filter.lossReasons = {},
                          ~(filter.search /\ filter.status # ""), Cardinality(O) <= 1
                   PROVE  /\ changed = {r \in Listed : Counted(r, filter)}
                        /\ \A t \in QueryStages :
                             LET facet == Facet(filter, {t}) IN
                             /\ facet.total = Cardinality({r \in changed : r.stage = t})
                             /\ facet.total =
                                  facet.pending + facet.approved + facet.rejected
                                  + Cardinality({r \in changed : /\ r.stage = t
                                        /\ r.situation = "IN_PROGRESS"})
      BY DEF BulkUpdatesTheCounted
    <2>1. IsFiniteSet(O)
      <3>1. IsFiniteSet({"search"} \cup {"documents"} \cup {"instances"})
        BY FS_AddElement, FS_Singleton
      <3>2. O \subseteq {"search"} \cup {"documents"} \cup {"instances"}
        OBVIOUS
      <3> HIDE DEF O
      <3>3. QED
        BY <3>1, <3>2, FS_Subset
    <2>2. /\ filter.search => "search" \in O
          /\ filter.emptyDocuments = "yes" => "documents" \in O
          /\ filter.emptyInstances = "yes" => "instances" \in O
      OBVIOUS
    <2> HIDE DEF O
    <2>3. /\ ~(filter.search /\ filter.emptyDocuments = "yes")
          /\ ~(filter.search /\ filter.emptyInstances = "yes")
          /\ ~(filter.emptyDocuments = "yes" /\ filter.emptyInstances = "yes")
      <3>1. \A x, y \in O : x = y
        BY <2>0, <2>1, NoTwo
      <3>2. QED
        BY <2>2, <3>1
    <2>4. changed = {r \in Listed : Counted(r, filter)}
      BY <2>0, <2>3, SameCondition
    <2>5. ASSUME NEW t \in QueryStages
          PROVE  LET facet == Facet(filter, {t}) IN
                 /\ facet.total = Cardinality({r \in changed : r.stage = t})
                 /\ facet.total = facet.pending + facet.approved + facet.rejected
                      + Cardinality({r \in changed : /\ r.stage = t
                                                     /\ r.situation = "IN_PROGRESS"})
      <3> DEFINE S == {r \in Listed : Counted(r, filter) /\ r.stage \in {t}}
      <3>1. S = {r \in changed : r.stage = t}
        BY <2>4
      <3>3. S = {r \in Listed : Counted(r, filter) /\ r.stage \in {t}}
        OBVIOUS
      <3>2. {r \in changed : r.stage = t /\ r.situation = "IN_PROGRESS"}
              = {r \in S : r.situation = "IN_PROGRESS"}
        BY <3>1
      <3> HIDE DEF changed
      <3>4. S \in SUBSET Listed
        OBVIOUS
      <3> HIDE DEF S
      <3>5. Cardinality(S) = Cardinality({r \in S : r.situation = "PENDING"})
                             + Cardinality({r \in S : r.situation = "APPROVED"})
                             + Cardinality({r \in S : r.situation = "LOSS"})
                             + Cardinality({r \in S : r.situation = "IN_PROGRESS"})
        BY <3>4, SituationsAddUp
      <3>6. /\ Facet(filter, {t}).total = Cardinality(S)
            /\ Facet(filter, {t}).pending = Cardinality({r \in S : r.situation = "PENDING"})
            /\ Facet(filter, {t}).approved = Cardinality({r \in S : r.situation = "APPROVED"})
            /\ Facet(filter, {t}).rejected = Cardinality({r \in S : r.situation = "LOSS"})
        BY <3>3 DEF Facet
      <3>7. Facet(filter, {t}).total =
              Facet(filter, {t}).pending + Facet(filter, {t}).approved
                + Facet(filter, {t}).rejected
                + Cardinality({r \in S : r.situation = "IN_PROGRESS"})
        BY <3>5, <3>6, Zenon
      <3>8. QED
        BY <3>1, <3>2, <3>6, <3>7, Zenon
    <2>6. QED
      BY <2>4, <2>5
  <1>2. QED
    BY <1>1, FilterType, PTL

-----------------------------------------------------------------------------
(* UniqueNumbers.                                                          *)

\* A list has finitely many elements.
LEMMA ToSetFinite ==
  ASSUME NEW s, NEW k \in Nat, DOMAIN s = 1..k, s = [i \in 1..k |-> s[i]]
  PROVE  IsFiniteSet(ToSet(s))
  <1>1. s \in Surjection(1..k, ToSet(s))
    BY DEF Surjection, ToSet
  <1>2. IsFiniteSet(1..k)
    BY FS_Interval
  <1>3. QED
    BY <1>1, <1>2, FS_Surjection

\* A sequence that has each number once has all of them.
LEMMA UniqueIs ==
  ASSUME NEW given, NEW wanted, IsFiniteSet(ToSet(given)),
         NEW s \in Unique(given, wanted)
  PROVE  /\ s \in Seq(ToSet(given) \cap wanted) /\ Len(s) \in Nat
         /\ DOMAIN s = 1..Len(s)
         /\ \A i, j \in 1..Len(s) : s[i] = s[j] => i = j
         /\ ToSet(s) = ToSet(given) \cap wanted
  <1> DEFINE S == ToSet(given) \cap wanted
             k == Cardinality(S)
  <1>1. s \in [1..k -> S] /\ \A i, j \in 1..k : s[i] = s[j] => i = j
    BY DEF Unique, SetToSeqs
  <1>2. IsFiniteSet(S)
    BY FS_Intersection
  <1> HIDE DEF S
  <1>3. k \in Nat
    BY <1>2, FS_CardinalityType
  <1>4. IsFiniteSet(1..k) /\ Cardinality(1..k) = k
    <2> HIDE DEF k
    <2>1. QED
      BY <1>3, FS_Interval
  <1>5. s \in Injection(1..k, S)
    BY <1>1 DEF Injection, IsInjective
  <1>6. s \in Surjection(1..k, S)
    BY <1>2, <1>4, <1>5, FS_Injection
  <1>7. ToSet(s) = S
    BY <1>1, <1>6 DEF Surjection, ToSet
  <1> HIDE DEF k
  <1>8. s \in Seq(S) /\ Len(s) = k
    BY <1>1, <1>3
  <1>9. QED
    BY <1>1, <1>3, <1>7, <1>8 DEF S

\* A list without some of its numbers has all the others.
LEMMA WithoutIs ==
  ASSUME NEW S, NEW given, NEW k \in Nat, given \in [1..k -> S], NEW there,
         NEW s \in Without(given, there)
  PROVE  s \in Seq(S) /\ Len(s) \in Nat /\ ToSet(s) = ToSet(given) \ there
  <1> DEFINE I == {i \in DOMAIN given : given[i] \notin there}
             n == Cardinality(I)
  <1>1. PICK p \in SetToSeqs(I) : s = [j \in DOMAIN p |-> given[p[j]]]
    BY DEF Without
  <1>2. p \in [1..n -> I] /\ \A i, j \in 1..n : p[i] = p[j] => i = j
    BY DEF SetToSeqs
  <1>3. I \subseteq 1..k /\ ToSet(given) \ there = {given[i] : i \in I}
    BY DEF ToSet
  <1>4. IsFiniteSet(1..k)
    BY FS_Interval
  <1>5. \A i \in I : given[i] \in S
    BY <1>3
  <1> HIDE DEF I
  <1>6. IsFiniteSet(I) /\ n \in Nat
    BY <1>3, <1>4, FS_Subset, FS_CardinalityType
  <1> HIDE DEF n
  <1>7. IsFiniteSet(1..n) /\ Cardinality(1..n) = n
    BY <1>6, FS_Interval
  <1>8. p \in Surjection(1..n, I)
    <2>1. p \in Injection(1..n, I)
      BY <1>2 DEF Injection, IsInjective
    <2>2. QED
      BY <1>6, <1>7, <2>1, FS_Injection DEF n
  <1>9. s \in [1..n -> S] /\ \A j \in 1..n : s[j] = given[p[j]]
    BY <1>1, <1>2, <1>5
  <1>10. ToSet(s) = {given[i] : i \in I}
    BY <1>2, <1>8, <1>9 DEF Surjection, ToSet
  <1>11. s \in Seq(S) /\ Len(s) \in Nat
    BY <1>6, <1>9
  <1>12. QED
    BY <1>3, <1>10, <1>11

\* What is between two places of a list.
LEMMA SubSeqHas ==
  ASSUME NEW s, NEW m \in Int, NEW n \in Int
  PROVE  ToSet(SubSeq(s, m, n)) = {s[j] : j \in m..n}
  <1> DEFINE S == {s[j] : j \in m..n}
             t == SubSeq(s, m, n)
  <1>1. /\ t \in Seq(S) /\ Len(t) = IF m <= n THEN n - m + 1 ELSE 0
        /\ \A i \in 1..(n - m + 1) : t[i] = s[m + i - 1]
    BY SubSeqProperties
  <1> HIDE DEF t
  <1>2. DOMAIN t = 1..(n - m + 1)
    BY <1>1, LenProperties
  <1>3. \A i \in 1..(n - m + 1) : m + i - 1 \in m..n
    OBVIOUS
  <1>4. \A j \in m..n : j - m + 1 \in 1..(n - m + 1) /\ m + (j - m + 1) - 1 = j
    OBVIOUS
  <1>5. ASSUME NEW x \in ToSet(t)
        PROVE  x \in S
    <2>1. PICK i \in 1..(n - m + 1) : x = t[i]
      BY <1>2, <1>5 DEF ToSet
    <2>2. x = s[m + i - 1] /\ m + i - 1 \in m..n
      BY <1>1, <1>3, <2>1
    <2>3. QED
      BY <2>2, Zenon
  <1>6. ASSUME NEW x \in S
        PROVE  x \in ToSet(t)
    <2>1. PICK j \in m..n : x = s[j]
      BY <1>6
    <2>2. PICK i \in 1..(n - m + 1) : m + i - 1 = j
      BY <1>4
    <2>3. t[i] = x
      BY <1>1, <2>1, <2>2, Zenon
    <2>4. QED
      BY <1>2, <2>3, Zenon DEF ToSet
  <1>7. ToSet(t) = S
    BY <1>5, <1>6, Zenon
  <1>8. QED
    BY <1>7 DEF t

-----------------------------------------------------------------------------
(* SyncBatch: requests of any length, any number of workers.                *)

BatchType ==
    /\ batch \in {"idle", "running", "answered"} /\ ToSet(body) \subseteq Requested
    /\ items \in Seq(ValidCnjs)
    /\ \A i, j \in 1..Len(items) : items[i] = items[j] => i = j
    /\ nextItem \in 1..(Len(items) + 1)
    /\ workers \in [DOMAIN workers -> {-1} \cup 0..Len(items)]
    /\ results \subseteq Requested \X {"invalid", "accepted", "error"}
    /\ triggered \in [Requested -> Nat]

Held(i) == \E w \in DOMAIN workers : workers[w] = i
Given(n) == \E r \in results : r[1] = n

\* No index is given out twice, none is skipped, and as long as some are left
\* a worker is there to take them.
Distribution ==
    /\ batch = "idle" => nextItem = 1 /\ DOMAIN workers = {}
    /\ batch # "idle" => ToSet(items) = ToSet(body) \cap ValidCnjs
    /\ batch # "idle" /\ Len(items) > 0 => DOMAIN workers # {}
    /\ batch = "answered" => \A w \in DOMAIN workers : workers[w] = -1
    /\ \A w \in DOMAIN workers :
          /\ workers[w] < nextItem
          /\ workers[w] = -1 => nextItem > Len(items)
    /\ \A v, w \in DOMAIN workers : workers[v] > 0 /\ workers[v] = workers[w] => v = w

\* What was triggered is what was given out.
Tally == \A n \in Requested :
            triggered[n] = IF \E i \in 1..(nextItem - 1) : items[i] = n THEN 1 ELSE 0

\* What was given out is in work or has its one answer.
Answers ==
    /\ \A r, s \in results : r[1] = s[1] => r = s
    /\ \A r \in results :
          /\ r[1] \in ToSet(body)
          /\ r[1] \in ValidCnjs =>
               \E i \in 1..(nextItem - 1) : items[i] = r[1] /\ ~Held(i)
    /\ \A n \in ToSet(body) \ ValidCnjs : Given(n)
    /\ \A i \in 1..(nextItem - 1) : Held(i) \/ Given(items[i])

BatchInv == BatchType /\ Distribution /\ Tally /\ Answers

LEMMA BatchItems ==
  ASSUME BatchType
  PROVE  /\ Len(items) \in Nat /\ nextItem \in Nat /\ nextItem >= 1
         /\ DOMAIN items = 1..Len(items)
         /\ \A i \in 1..Len(items) : items[i] \in ValidCnjs /\ items[i] \in Requested
         /\ \A w \in DOMAIN workers : workers[w] \in Int /\ workers[w] <= Len(items)
  <1>1. Len(items) \in Nat /\ DOMAIN items = 1..Len(items)
    BY LenProperties DEF BatchType
  <1>2. \A i \in 1..Len(items) : items[i] \in ValidCnjs /\ items[i] \in Requested
    BY ElementOfSeq, BatchAssumption DEF BatchType
  <1>3. nextItem \in Nat /\ nextItem >= 1
    BY <1>1 DEF BatchType
  <1>4. \A w \in DOMAIN workers : workers[w] \in Int /\ workers[w] <= Len(items)
    BY <1>1 DEF BatchType
  <1>5. QED
    BY <1>1, <1>2, <1>3, <1>4

LEMMA PoolSizeType ==
  ASSUME NEW c \in Nat, NEW n \in Nat
  PROVE  PoolSize(c, n) \in Nat /\ (n > 0 => PoolSize(c, n) >= 1)
  BY DEF PoolSize

LEMMA ReceiveStep ==
  ASSUME BatchInv, Receive
  PROVE  BatchInv'
  <1> USE DEF BatchInv
  <1>1. PICK numbers \in UNION {[1..k -> Requested] : k \in 1..BatchBound},
             c \in PoolSizes :
          \E valid \in Unique(numbers, ValidCnjs) :
            /\ body' = numbers /\ items' = valid
            /\ workers' = [w \in 1..PoolSize(c, Len(valid)) |-> 0]
            /\ results' = {<<n, "invalid">> : n \in ToSet(numbers) \ ValidCnjs}
    BY DEF Receive
  <1>2. PICK valid \in Unique(numbers, ValidCnjs) :
            /\ body' = numbers /\ items' = valid
            /\ workers' = [w \in 1..PoolSize(c, Len(valid)) |-> 0]
            /\ results' = {<<n, "invalid">> : n \in ToSet(numbers) \ ValidCnjs}
    BY <1>1
  <1>3. ToSet(numbers) \subseteq Requested /\ IsFiniteSet(ToSet(numbers))
    <2>1. PICK k \in 1..BatchBound : numbers \in [1..k -> Requested]
      OBVIOUS
    <2>2. k \in Nat /\ DOMAIN numbers = 1..k /\ numbers = [i \in 1..k |-> numbers[i]]
      BY <2>1, BatchAssumption
    <2>3. QED
      BY <2>1, <2>2, ToSetFinite DEF ToSet
  <1>4. /\ valid \in Seq(ToSet(numbers) \cap ValidCnjs) /\ Len(valid) \in Nat
        /\ \A i, j \in 1..Len(valid) : valid[i] = valid[j] => i = j
        /\ ToSet(valid) = ToSet(numbers) \cap ValidCnjs
    BY <1>3, UniqueIs
  <1>5. /\ batch = "idle" /\ batch' = "running"
        /\ nextItem = 1 /\ nextItem' = 1 /\ triggered' = triggered
    BY DEF Receive, Distribution
  <1> DEFINE p == PoolSize(c, Len(valid))
  <1>6. p \in Nat /\ (Len(valid) > 0 => p >= 1)
    BY <1>4, BatchAssumption, PoolSizeType
  <1>7. /\ DOMAIN workers' = 1..p /\ workers' \in [1..p -> {0}]
    BY <1>2
  <1> HIDE DEF p
  <1>8. BatchType'
    <2>1. items' \in Seq(ValidCnjs)
      BY <1>2, <1>4
    <2>2. nextItem' \in 1..(Len(items') + 1)
      BY <1>2, <1>4, <1>5
    <2>3. workers' \in [DOMAIN workers' -> {-1} \cup 0..Len(items')]
      BY <1>2, <1>4, <1>7
    <2>4. results' \subseteq Requested \X {"invalid", "accepted", "error"}
      BY <1>2, <1>3
    <2>5. QED
      BY <1>2, <1>3, <1>4, <1>5, <2>1, <2>2, <2>3, <2>4 DEF BatchType, ToSet
  <1>9. Distribution'
    <2>1. ASSUME Len(items') > 0 PROVE DOMAIN workers' # {}
      <3>1. 1 \in 1..p
        BY <1>2, <1>6, <2>1
      <3>2. QED
        BY <1>7, <3>1
    <2>2. ToSet(items') = ToSet(body') \cap ValidCnjs
      BY <1>2, <1>4
    <2>3. \A w \in DOMAIN workers' : workers'[w] = 0
      BY <1>7
    <2>4. \A w \in DOMAIN workers' :
            /\ workers'[w] < nextItem'
            /\ workers'[w] = -1 => nextItem' > Len(items')
      BY <1>5, <2>3
    <2>5. \A v, w \in DOMAIN workers' :
             workers'[v] > 0 /\ workers'[v] = workers'[w] => v = w
      BY <2>3
    <2>6. QED
      BY <1>5, <2>1, <2>2, <2>4, <2>5 DEF Distribution, ToSet
  <1>10. Tally'
    BY <1>5 DEF Tally
  <1>11. Answers'
    <2>1. \A r \in results' : r[1] \in ToSet(body') \ ValidCnjs /\ r = <<r[1], "invalid">>
      BY <1>2
    <2>2. \A n \in ToSet(body') \ ValidCnjs : <<n, "invalid">> \in results'
      BY <1>2
    <2>3. \A n \in ToSet(body') \ ValidCnjs : \E r \in results' : r[1] = n
      <3> TAKE n \in ToSet(body') \ ValidCnjs
      <3>1. <<n, "invalid">>[1] = n
        OBVIOUS
      <3>2. QED
        BY <2>2, <3>1
    <2>4. QED
      BY <1>5, <2>1, <2>3 DEF Answers, Given, ToSet
  <1>12. QED
    BY <1>8, <1>9, <1>10, <1>11

LEMMA TakeStep ==
  ASSUME BatchInv, NEW w \in DOMAIN workers, TakeItem(w)
  PROVE  BatchInv'
  <1> USE DEF BatchInv
  <1>1. /\ workers[w] = 0 /\ nextItem <= Len(items)
        /\ workers' = [workers EXCEPT ![w] = nextItem]
        /\ triggered' = [triggered EXCEPT ![items[nextItem]] = @ + 1]
        /\ nextItem' = nextItem + 1
        /\ UNCHANGED <<batch, body, items, results>>
    BY DEF TakeItem
  <1>2. /\ Len(items) \in Nat /\ nextItem \in Nat /\ nextItem >= 1
        /\ nextItem \in 1..Len(items) /\ items[nextItem] \in Requested
        /\ \A v \in DOMAIN workers : workers[v] \in Int
    BY <1>1, BatchItems
  <1>3. /\ DOMAIN workers' = DOMAIN workers /\ workers'[w] = nextItem
        /\ \A v \in DOMAIN workers : v # w => workers'[v] = workers[v]
    BY <1>1
  <1>4. BatchType'
    <2>1. workers' \in [DOMAIN workers' -> {-1} \cup 0..Len(items')]
      BY <1>1, <1>2, <1>3 DEF BatchType
    <2>2. triggered' \in [Requested -> Nat]
      BY <1>1, <1>2 DEF BatchType
    <2>3. nextItem' \in 1..(Len(items') + 1)
      BY <1>1, <1>2
    <2>4. QED
      BY <1>1, <2>1, <2>2, <2>3 DEF BatchType, ToSet
  <1>5. Distribution'
    <2>1. \A v \in DOMAIN workers' :
            /\ workers'[v] < nextItem'
            /\ workers'[v] = -1 => nextItem' > Len(items')
      BY <1>1, <1>2, <1>3 DEF Distribution
    <2>2. \A u, v \in DOMAIN workers' :
            workers'[u] > 0 /\ workers'[u] = workers'[v] => u = v
      <3> SUFFICES ASSUME NEW u \in DOMAIN workers, NEW v \in DOMAIN workers,
                          workers'[u] > 0, workers'[u] = workers'[v]
                   PROVE  u = v
        BY <1>3
      <3>1. \A x \in DOMAIN workers : workers[x] < nextItem
        BY DEF Distribution
      <3>2. CASE u = w \/ v = w
        BY <1>2, <1>3, <3>1, <3>2
      <3>3. CASE u # w /\ v # w
        BY <1>3, <3>3 DEF Distribution
      <3>4. QED
        BY <3>2, <3>3
    <2>3. batch' # "answered"
      BY <1>1 DEF Distribution
    <2>4. batch' # "idle"
      BY <1>1 DEF Distribution
    <2>5. QED
      BY <1>1, <1>3, <2>1, <2>2, <2>3, <2>4 DEF Distribution, ToSet
  <1>6. Tally'
    <2> SUFFICES ASSUME NEW n \in Requested
                 PROVE  triggered'[n] =
                          IF \E i \in 1..(nextItem' - 1) : items[i] = n THEN 1 ELSE 0
      BY <1>1 DEF Tally
    <2>1. 1..(nextItem' - 1) = 1..(nextItem - 1) \cup {nextItem}
      BY <1>1, <1>2
    <2>2. CASE n = items[nextItem]
      <3>1. \A i \in 1..(nextItem - 1) : items[i] # n
        BY <1>2, <2>2 DEF BatchType
      <3>2. triggered[n] = 0
        BY <3>1 DEF Tally
      <3>3. triggered'[n] = 1
        BY <1>1, <2>2, <3>2 DEF BatchType
      <3>4. QED
        BY <2>1, <2>2, <3>3
    <2>3. CASE n # items[nextItem]
      <3>1. triggered'[n] = triggered[n]
        BY <1>1, <2>3 DEF BatchType
      <3>2. QED
        BY <2>1, <2>3, <3>1 DEF Tally
    <2>4. QED
      BY <2>2, <2>3
  <1>7. Answers'
    <2>1. \A i \in 1..(nextItem - 1) : Held(i)' <=> Held(i)
      BY <1>1, <1>2, <1>3 DEF Held
    <2>2. \A i \in 1..(nextItem - 1) : i \in 1..(nextItem' - 1)
      BY <1>1, <1>2
    <2>3. \A n : Given(n)' <=> Given(n)
      BY <1>1 DEF Given
    <2>4. \A i \in 1..(nextItem' - 1) : Held(i)' \/ Given(items[i])'
      <3> TAKE i \in 1..(nextItem' - 1)
      <3>1. CASE i = nextItem
        BY <1>3, <3>1 DEF Held
      <3>2. CASE i # nextItem
        <4>1. i \in 1..(nextItem - 1)
          BY <1>1, <1>2, <3>2
        <4>2. Held(i) \/ Given(items[i])
          BY <4>1 DEF Answers
        <4>3. QED
          BY <1>1, <2>1, <4>1, <4>2 DEF Given
      <3>3. QED
        BY <3>1, <3>2
    <2>5. \A r \in results' : r[1] \in ValidCnjs =>
             \E i \in 1..(nextItem' - 1) : items'[i] = r[1] /\ ~Held(i)'
      BY <1>1, <2>1, <2>2 DEF Answers
    <2>6. QED
      BY <1>1, <2>4, <2>5 DEF Answers, Given, ToSet
  <1>8. QED
    BY <1>4, <1>5, <1>6, <1>7

LEMMA AnswerStep ==
  ASSUME BatchInv, NEW w \in DOMAIN workers, AnswerItem(w)
  PROVE  BatchInv'
  <1> USE DEF BatchInv
  <1>1. /\ workers[w] > 0 /\ workers' = [workers EXCEPT ![w] = 0]
        /\ UNCHANGED <<batch, body, items, nextItem, triggered>>
    BY DEF AnswerItem
  <1>2. PICK status \in {"accepted", "error"} :
          results' = results \cup {<<items[workers[w]], status>>}
    BY DEF AnswerItem
  <1>3. PICK i : i = workers[w]
    OBVIOUS
  <1>4. /\ Len(items) \in Nat /\ nextItem \in Nat /\ nextItem >= 1
        /\ \A v \in DOMAIN workers : workers[v] \in Int /\ workers[v] <= Len(items)
    BY BatchItems
  <1>5. i \in 1..(nextItem - 1) /\ i \in 1..Len(items)
    BY <1>1, <1>3, <1>4 DEF Distribution
  <1>6. items[i] \in ValidCnjs /\ items[i] \in Requested
    BY <1>5, BatchItems
  <1>7. /\ DOMAIN workers' = DOMAIN workers /\ workers'[w] = 0
        /\ \A v \in DOMAIN workers : v # w => workers'[v] = workers[v]
    BY <1>1
  <1>8. BatchType'
    <2>1. workers' \in [DOMAIN workers' -> {-1} \cup 0..Len(items')]
      BY <1>1, <1>4, <1>7 DEF BatchType
    <2>2. results' \subseteq Requested \X {"invalid", "accepted", "error"}
      BY <1>2, <1>3, <1>6 DEF BatchType
    <2>3. QED
      BY <1>1, <2>1, <2>2 DEF BatchType, ToSet
  <1>9. Distribution'
    <2>1. \A v \in DOMAIN workers' :
            /\ workers'[v] < nextItem'
            /\ workers'[v] = -1 => nextItem' > Len(items')
      BY <1>1, <1>4, <1>7 DEF Distribution
    <2>2. \A u, v \in DOMAIN workers' :
            workers'[u] > 0 /\ workers'[u] = workers'[v] => u = v
      BY <1>4, <1>7 DEF Distribution
    <2>3. batch' \notin {"idle", "answered"}
      BY <1>1 DEF Distribution, BatchType
    <2>4. QED
      BY <1>1, <1>7, <2>1, <2>2, <2>3 DEF Distribution, ToSet
  <1>10. Tally'
    BY <1>1 DEF Tally
  <1>11. Answers'
    <2>1. ~Held(i)' /\ \A j \in 1..(nextItem - 1) : j # i => (Held(j)' <=> Held(j))
      <3>1. \A v \in DOMAIN workers : v # w => workers[v] # i
        BY <1>1, <1>3 DEF Distribution
      <3>2. ~Held(i)'
        BY <1>4, <1>5, <1>7, <3>1 DEF Held
      <3>3. ASSUME NEW j \in 1..(nextItem - 1), j # i PROVE Held(j)' <=> Held(j)
        BY <1>3, <1>4, <1>7, <3>3 DEF Held
      <3>4. QED
        BY <3>2, <3>3
    <2>2. Held(i)
      BY <1>3 DEF Held
    <2>3. \A r \in results : r[1] # items[i]
      <3> SUFFICES ASSUME NEW r \in results, r[1] = items[i] PROVE FALSE
        OBVIOUS
      <3>1. PICK j \in 1..(nextItem - 1) : items[j] = items[i] /\ ~Held(j)
        BY <1>6 DEF Answers
      <3>2. j \in 1..Len(items)
        BY <1>4, <3>1 DEF BatchType
      <3>3. j = i
        BY <1>5, <3>1, <3>2 DEF BatchType
      <3>4. QED
        BY <2>2, <3>1, <3>3
    <2>4. PICK new : /\ new[1] = items[i] /\ results' = results \cup {new}
      <3>1. <<items[i], status>>[1] = items[i]
        OBVIOUS
      <3>2. QED
        BY <1>2, <1>3, <3>1
    <2>5. \A r, t \in results' : r[1] = t[1] => r = t
      BY <2>3, <2>4 DEF Answers
    <2>6. items[i] \in ToSet(body)
      <3>1. items[i] \in ToSet(items)
        BY <1>5, BatchItems DEF ToSet
      <3>2. QED
        BY <1>1, <3>1 DEF Distribution
    <2>7. \A r \in results' :
            /\ r[1] \in ToSet(body)
            /\ r[1] \in ValidCnjs =>
                 \E j \in 1..(nextItem - 1) : items[j] = r[1] /\ ~Held(j)'
      <3> TAKE r \in results'
      <3>1. CASE r \in results
        <4>1. r[1] \in ToSet(body)
          BY <3>1 DEF Answers
        <4>2. ASSUME r[1] \in ValidCnjs
              PROVE  \E j \in 1..(nextItem - 1) : items[j] = r[1] /\ ~Held(j)'
          <5>1. PICK j \in 1..(nextItem - 1) : items[j] = r[1] /\ ~Held(j)
            BY <3>1, <4>2 DEF Answers
          <5>2. j # i
            BY <2>2, <5>1
          <5>3. QED
            BY <2>1, <5>1, <5>2
        <4>3. QED
          BY <4>1, <4>2
      <3>2. CASE r = new
        BY <1>5, <2>1, <2>4, <2>6, <3>2
      <3>3. QED
        BY <2>4, <3>1, <3>2
    <2>8. \A n : Given(n) => Given(n)'
      <3>1. \A r \in results : r \in results'
        BY <2>4
      <3>2. QED
        BY <3>1 DEF Given
    <2>9. Given(items[i])'
      BY <1>1, <2>4 DEF Given
    <2>10. \A j \in 1..(nextItem - 1) : Held(j)' \/ Given(items[j])'
      <3> TAKE j \in 1..(nextItem - 1)
      <3>1. CASE j = i
        BY <1>1, <2>9, <3>1 DEF Given
      <3>2. CASE j # i
        BY <1>1, <2>1, <2>8, <3>2 DEF Answers, Given
      <3>3. QED
        BY <3>1, <3>2
    <2>11. \A n \in ToSet(body) \ ValidCnjs : Given(n)'
      BY <2>8 DEF Answers
    <2>12. QED
      BY <1>1, <2>5, <2>7, <2>10, <2>11 DEF Answers, Given, ToSet
  <1>12. QED
    BY <1>8, <1>9, <1>10, <1>11

LEMMA EndStep ==
  ASSUME BatchInv, NEW w \in DOMAIN workers, EndWorker(w)
  PROVE  BatchInv'
  <1> USE DEF BatchInv
  <1>1. /\ workers[w] = 0 /\ nextItem > Len(items)
        /\ workers' = [workers EXCEPT ![w] = -1]
        /\ UNCHANGED <<batch, body, items, nextItem, results, triggered>>
    BY DEF EndWorker
  <1>2. /\ Len(items) \in Nat /\ nextItem \in Nat /\ nextItem >= 1
        /\ \A v \in DOMAIN workers : workers[v] \in Int
    BY BatchItems
  <1>3. /\ DOMAIN workers' = DOMAIN workers /\ workers'[w] = -1
        /\ \A v \in DOMAIN workers : v # w => workers'[v] = workers[v]
    BY <1>1
  <1>4. BatchType'
    <2>1. workers' \in [DOMAIN workers' -> {-1} \cup 0..Len(items')]
      BY <1>1, <1>2, <1>3 DEF BatchType
    <2>2. QED
      BY <1>1, <2>1 DEF BatchType, ToSet
  <1>5. Distribution'
    <2>1. \A v \in DOMAIN workers' :
            /\ workers'[v] < nextItem'
            /\ workers'[v] = -1 => nextItem' > Len(items')
      BY <1>1, <1>2, <1>3 DEF Distribution
    <2>2. \A u, v \in DOMAIN workers' :
            workers'[u] > 0 /\ workers'[u] = workers'[v] => u = v
      BY <1>2, <1>3 DEF Distribution
    <2>3. batch' \notin {"idle", "answered"}
      BY <1>1 DEF Distribution, BatchType
    <2>4. QED
      BY <1>1, <1>3, <2>1, <2>2, <2>3 DEF Distribution, ToSet
  <1>6. Tally'
    BY <1>1 DEF Tally
  <1>7. Answers'
    <2>1. \A i \in 1..(nextItem - 1) : Held(i)' <=> Held(i)
      BY <1>1, <1>2, <1>3 DEF Held
    <2>2. QED
      BY <1>1, <2>1 DEF Answers, Given, ToSet
  <1>8. QED
    BY <1>4, <1>5, <1>6, <1>7

LEMMA BatchCorrect == BatchSpec => []BatchInv
  <1>1. BatchInit => BatchInv
    <2> SUFFICES ASSUME BatchInit PROVE BatchInv
      OBVIOUS
    <2>1. items = <<>> /\ items \in Seq(ValidCnjs) /\ Len(items) = 0
      BY EmptySeq DEF BatchInit
    <2>2. DOMAIN workers = {} /\ ToSet(body) = {} /\ results = {}
      BY DEF BatchInit, ToSet
    <2>3. QED
      BY <2>1, <2>2 DEF BatchInit, BatchInv, BatchType, Distribution, Tally, Answers
  <1>2. BatchInv /\ [BatchNext]_batchVars => BatchInv'
    <2> SUFFICES ASSUME BatchInv, [BatchNext]_batchVars PROVE BatchInv'
      OBVIOUS
    <2>1. CASE UNCHANGED batchVars
      BY <2>1 DEF batchVars, BatchInv, BatchType, Distribution, Tally, Answers, Held,
                  Given, ToSet
    <2>2. CASE Respond
      <3>1. /\ \A w \in DOMAIN workers : workers[w] = -1
            /\ batch = "running" /\ batch' = "answered"
            /\ UNCHANGED <<body, items, nextItem, workers, results, triggered>>
        BY <2>2 DEF Respond
      <3>2. QED
        BY <3>1 DEF BatchInv, BatchType, Distribution, Tally, Answers, Held, Given, ToSet
    <2>3. QED
      BY <2>1, <2>2, ReceiveStep, TakeStep, AnswerStep, EndStep DEF BatchNext
  <1>3. QED
    BY <1>1, <1>2, PTL DEF BatchSpec

\* However many workers share the index and however their triggers fail, each
\* number of the batch is triggered once if it is valid and never otherwise, and
\* gets one status; so for any size of the pool, given or not, and any numbers,
\* repeated or invalid.
THEOREM AnswersEach == BatchSpec => []BatchAnswersEach
  <1>1. BatchInv => BatchAnswersEach
    <2> SUFFICES ASSUME BatchInv, batch = "answered"
                 PROVE  /\ \A n \in Requested :
                             triggered[n] = IF n \in ToSet(body) \cap ValidCnjs
                                            THEN 1 ELSE 0
                        /\ {r[1] : r \in results} = ToSet(body)
                        /\ \A r, s \in results : r[1] = s[1] => r = s
      BY DEF BatchAnswersEach
    <2> USE DEF BatchInv
    <2>1. Len(items) \in Nat /\ nextItem \in Nat /\ DOMAIN items = 1..Len(items)
      BY BatchItems
    <2>2. ToSet(items) = ToSet(body) \cap ValidCnjs
      BY DEF Distribution
    <2>3. \A i \in 1..Len(items) : i \in 1..(nextItem - 1)
      <3>1. CASE Len(items) = 0
        BY <3>1
      <3>2. CASE Len(items) > 0
        <4>1. PICK w \in DOMAIN workers : workers[w] = -1
          BY <3>2 DEF Distribution
        <4>2. nextItem > Len(items)
          BY <4>1 DEF Distribution
        <4>3. QED
          BY <2>1, <4>2
      <3>3. QED
        BY <2>1, <3>1, <3>2
    <2>4. \A i \in 1..(nextItem - 1) : i \in 1..Len(items)
      BY <2>1 DEF BatchType
    <2>5. ToSet(items) = {items[i] : i \in 1..(nextItem - 1)}
      BY <2>1, <2>3, <2>4 DEF ToSet
    <2>6. \A n \in Requested :
            triggered[n] = IF n \in ToSet(body) \cap ValidCnjs THEN 1 ELSE 0
      BY <2>2, <2>5 DEF Tally
    <2>7. \A i \in 1..(nextItem - 1) : Given(items[i])
      <3> TAKE i \in 1..(nextItem - 1)
      <3>1. ~Held(i)
        BY <2>1 DEF Held, Distribution
      <3>2. QED
        BY <3>1 DEF Answers
    <2>8. \A n \in ToSet(body) : Given(n)
      BY <2>2, <2>5, <2>7 DEF Answers
    <2>9. {r[1] : r \in results} = ToSet(body)
      BY <2>8 DEF Answers, Given
    <2>10. QED
      BY <2>6, <2>9 DEF Answers
  <1>2. QED
    BY <1>1, BatchCorrect, PTL

-----------------------------------------------------------------------------
(* LawsuitIntake: any number of requests, of any length.                    *)

IntakeRecords ==
    [kind : {"none", "create", "sheet", "hook"}, given : Seq(GivenNumbers),
     missing : Seq(GivenNumbers), next : Nat,
     answer : {"none", "added", "exist", "queueError", "refused", "swallowed"},
     reported : SUBSET GivenNumbers]

\* The places of the batch that a request is at.
Places(i) == {j \in 1..Len(i.missing) : i.next <= j /\ j < i.next + BatchSize}
NumbersAt(i, P) == {i.missing[j] : j \in P}

\* What the lawsuits there are and the jobs queued owe to a request: its
\* numbers are there or among the missing; those of the batches it has passed
\* are queued; and when it is answered, nothing is lost, or the batch is named.
Owed(i, there, que) ==
    /\ ToSet(i.given) \subseteq there \cup ToSet(i.missing)
    /\ \A j \in 1..Len(i.missing) : j < i.next => i.missing[j] \in que
    /\ i.answer \in {"added", "exist"} => ToSet(i.given) \subseteq there \cup que
    /\ i.answer = "queueError" => /\ i.next \in 1..Len(i.missing)
                                  /\ i.reported = NumbersAt(i, Places(i))

IntakeInv == /\ intake \in [Intakes -> IntakeRecords]
             /\ \A c \in Intakes : Owed(intake[c], inserted, queued)

LEMMA OwedStays ==
  ASSUME NEW i, NEW there, NEW que, NEW there2, NEW que2,
         there \subseteq there2, que \subseteq que2, Owed(i, there, que)
  PROVE  Owed(i, there2, que2)
  BY DEF Owed

\* A record of a request can be changed without the others.
LEMMA IntakeOne ==
  ASSUME IntakeInv, NEW c \in Intakes, NEW r \in IntakeRecords, NEW there, NEW que,
         inserted \subseteq there, queued \subseteq que, Owed(r, there, que),
         intake' = [intake EXCEPT ![c] = r], inserted' = there, queued' = que
  PROVE  IntakeInv'
  <1>1. intake' \in [Intakes -> IntakeRecords]
    BY DEF IntakeInv
  <1>2. ASSUME NEW d \in Intakes
        PROVE  Owed(intake'[d], there, que)
    <2>1. CASE d = c
      BY <2>1 DEF IntakeInv
    <2>2. CASE d # c
      <3>1. intake'[d] = intake[d] /\ Owed(intake[d], inserted, queued)
        BY <2>2 DEF IntakeInv
      <3>2. Owed(intake[d], there, que)
        BY <3>1, OwedStays
      <3>3. QED
        BY <3>1, <3>2
    <2>3. QED
      BY <2>1, <2>2
  <1>3. QED
    BY <1>1, <1>2 DEF IntakeInv, Owed, Places, NumbersAt

LEMMA BatchIs ==
  ASSUME NEW c \in Intakes, intake[c] \in IntakeRecords,
         intake[c].next \in 1..Len(intake[c].missing)
  PROVE  ToSet(Batch(c)) = NumbersAt(intake[c], Places(intake[c]))
  <1>1. PICK i : i = intake[c]
    OBVIOUS
  <1>2. /\ i.next \in Nat \ {0} /\ Len(i.missing) \in Nat /\ BatchSize \in Nat \ {0}
    BY <1>1, IntakeAssumption DEF IntakeRecords
  <1>3. PICK last \in Nat :
          last = IF i.next + BatchSize - 1 < Len(i.missing)
                 THEN i.next + BatchSize - 1 ELSE Len(i.missing)
    BY <1>2
  <1>4. ToSet(Batch(c)) = {i.missing[j] : j \in i.next..last}
    <2>1. Batch(c) = SubSeq(i.missing, i.next, last)
      BY <1>1, <1>3 DEF Batch, LastIndex
    <2>2. QED
      BY <1>2, <2>1, SubSeqHas
  <1>5. i.next..last = Places(i)
    BY <1>2, <1>3 DEF Places
  <1>6. QED
    BY <1>1, <1>4, <1>5 DEF NumbersAt

\* A request's look for its numbers.
LEMMA LookStep ==
  ASSUME IntakeInv, NEW c \in Intakes, NEW kind \in {"create", "sheet", "hook"},
         NEW k \in Nat, NEW given \in [1..k -> GivenNumbers],
         Look(c, kind, given), UNCHANGED <<inserted, queued>>
  PROVE  IntakeInv'
  <1>1. PICK missing \in Without(given, inserted) :
          intake' = [intake EXCEPT ![c] =
            [kind |-> kind, given |-> given, missing |-> missing,
             next |-> IF kind = "sheet" THEN 0 ELSE 1,
             answer |-> IF missing = <<>> THEN "exist" ELSE "none", reported |-> {}]]
    BY DEF Look
  <1>2. /\ missing \in Seq(GivenNumbers) /\ Len(missing) \in Nat
        /\ ToSet(missing) = ToSet(given) \ inserted
    BY WithoutIs
  <1>3. PICK r : r = [kind |-> kind, given |-> given, missing |-> missing,
             next |-> IF kind = "sheet" THEN 0 ELSE 1,
             answer |-> IF missing = <<>> THEN "exist" ELSE "none", reported |-> {}]
    OBVIOUS
  <1>4. given \in Seq(GivenNumbers)
    OBVIOUS
  <1>5. r \in IntakeRecords
    BY <1>2, <1>3, <1>4 DEF IntakeRecords
  <1>6. missing = <<>> => ToSet(given) \subseteq inserted
    <2>1. missing = <<>> => ToSet(missing) = {}
      BY DEF ToSet
    <2>2. QED
      BY <1>2, <2>1, Zenon
  <1>7. Owed(r, inserted, queued)
    BY <1>2, <1>3, <1>6 DEF Owed
  <1>8. QED
    BY <1>1, <1>3, <1>5, <1>7, IntakeOne

LEMMA LookAgainStep ==
  ASSUME IntakeInv, NEW c \in Intakes, LookAgain(c)
  PROVE  IntakeInv'
  <1>1. PICK i : i = intake[c]
    OBVIOUS
  <1>2. i \in IntakeRecords /\ Owed(i, inserted, queued)
    BY <1>1 DEF IntakeInv
  <1>3. PICK missing \in Without(i.missing, inserted) :
          intake' = [intake EXCEPT ![c].missing = missing, ![c].next = 1,
                       ![c].answer = IF missing = <<>> THEN "exist" ELSE "none"]
    BY <1>1 DEF LookAgain
  <1>4. PICK r : r = [i EXCEPT !.missing = missing, !.next = 1,
                       !.answer = IF missing = <<>> THEN "exist" ELSE "none"]
    OBVIOUS
  <1>5. intake' = [intake EXCEPT ![c] = r]
    BY <1>1, <1>3, <1>4 DEF IntakeInv
  <1>6. /\ missing \in Seq(GivenNumbers) /\ Len(missing) \in Nat
        /\ ToSet(missing) = ToSet(i.missing) \ inserted
    <2>1. PICK k \in Nat : i.missing \in [1..k -> GivenNumbers]
      BY <1>2 DEF IntakeRecords
    <2>2. QED
      BY <1>3, <2>1, WithoutIs
  <1>7. r \in IntakeRecords
    BY <1>2, <1>4, <1>6 DEF IntakeRecords
  <1>8. /\ r.given = i.given /\ r.missing = missing /\ r.next = 1
        /\ r.answer = IF missing = <<>> THEN "exist" ELSE "none"
    BY <1>2, <1>4 DEF IntakeRecords
  <1>9. ToSet(i.given) \subseteq inserted \cup ToSet(missing)
    BY <1>2, <1>6 DEF Owed
  <1>10. missing = <<>> => ToSet(missing) = {}
    BY DEF ToSet
  <1>11. Owed(r, inserted, queued)
    BY <1>6, <1>8, <1>9, <1>10 DEF Owed
  <1>12. inserted' = inserted /\ queued' = queued
    BY DEF LookAgain
  <1>13. QED
    BY <1>5, <1>7, <1>11, <1>12, IntakeOne

LEMMA QueueBatchStep ==
  ASSUME IntakeInv, NEW c \in Intakes, QueueBatch(c)
  PROVE  IntakeInv'
  <1>1. PICK i : i = intake[c]
    OBVIOUS
  <1>2. i \in IntakeRecords /\ Owed(i, inserted, queued)
    BY <1>1 DEF IntakeInv
  <1>3. PICK r : r = [i EXCEPT !.next = i.next + BatchSize]
    OBVIOUS
  <1>4. intake' = [intake EXCEPT ![c] = r]
    BY <1>1, <1>3 DEF IntakeInv, QueueBatch
  <1>5. i.next \in 1..Len(i.missing) /\ i.answer = "none" /\ BatchSize \in Nat
    BY <1>1, IntakeAssumption DEF QueueBatch, Batching, Going, LastIndex
  <1>6. r \in IntakeRecords
    BY <1>2, <1>3, <1>5, SMTT(30) DEF IntakeRecords
  <1>7. /\ r.given = i.given /\ r.missing = i.missing /\ r.next = i.next + BatchSize
        /\ r.answer = "none"
    BY <1>2, <1>3, <1>5 DEF IntakeRecords
  <1>8. queued' = queued \cup NumbersAt(i, Places(i)) /\ inserted' = inserted
    BY <1>1, <1>2, <1>5, BatchIs DEF QueueBatch
  <1>9. \A j \in 1..Len(i.missing) : j < i.next + BatchSize => i.missing[j] \in queued'
    <2> TAKE j \in 1..Len(i.missing)
    <2>1. j < i.next \/ j >= i.next
      BY <1>2 DEF IntakeRecords
    <2>2. j < i.next => i.missing[j] \in queued'
      BY <1>2, <1>8 DEF Owed
    <2>3. j >= i.next /\ j < i.next + BatchSize => j \in Places(i)
      BY <1>2 DEF Places, IntakeRecords
    <2>4. QED
      BY <1>8, <2>1, <2>2, <2>3 DEF NumbersAt
  <1>10. Owed(r, inserted, queued')
    BY <1>2, <1>7, <1>9 DEF Owed
  <1>11. queued \subseteq queued'
    BY <1>8
  <1>12. PICK que : que = queued'
    OBVIOUS
  <1>13. Owed(r, inserted, que) /\ queued \subseteq que
    BY <1>10, <1>11, <1>12
  <1>14. QED
    BY <1>4, <1>6, <1>8, <1>12, <1>13, IntakeOne

LEMMA AddedStep ==
  ASSUME IntakeInv, NEW c \in Intakes, Added(c)
  PROVE  IntakeInv'
  <1>1. PICK i : i = intake[c]
    OBVIOUS
  <1>2. i \in IntakeRecords /\ Owed(i, inserted, queued)
    BY <1>1 DEF IntakeInv
  <1>3. PICK r : r = [i EXCEPT !.answer = "added"]
    OBVIOUS
  <1>4. intake' = [intake EXCEPT ![c] = r]
    BY <1>1, <1>3 DEF IntakeInv, Added
  <1>5. r \in IntakeRecords
    BY <1>2, <1>3 DEF IntakeRecords
  <1>6. /\ r.given = i.given /\ r.missing = i.missing /\ r.next = i.next
        /\ r.answer = "added"
    BY <1>2, <1>3 DEF IntakeRecords
  <1>7. i.next > Len(i.missing) /\ i.next \in Nat /\ Len(i.missing) \in Nat
    BY <1>1, <1>2 DEF Added, LastIndex, IntakeRecords
  <1>8. \A j \in 1..Len(i.missing) : i.missing[j] \in queued
    BY <1>2, <1>7 DEF Owed
  <1>9. ToSet(i.missing) \subseteq queued
    <2>1. DOMAIN i.missing = 1..Len(i.missing)
      BY <1>2 DEF IntakeRecords
    <2>2. QED
      BY <1>8, <2>1 DEF ToSet
  <1>10. ToSet(i.given) \subseteq inserted \cup queued
    BY <1>2, <1>9 DEF Owed
  <1>11. Owed(r, inserted, queued)
    BY <1>2, <1>6, <1>10 DEF Owed
  <1>12. inserted' = inserted /\ queued' = queued
    BY DEF Added
  <1>13. QED
    BY <1>4, <1>5, <1>11, <1>12, IntakeOne

LEMMA QueueFailsStep ==
  ASSUME IntakeInv, NEW c \in Intakes, QueueFails(c)
  PROVE  IntakeInv'
  <1>1. PICK i : i = intake[c]
    OBVIOUS
  <1>2. i \in IntakeRecords /\ Owed(i, inserted, queued)
    BY <1>1 DEF IntakeInv
  <1>3. PICK how \in {"queueError", "refused"} :
          intake' = [intake EXCEPT ![c].answer = how,
             ![c].reported = IF how = "queueError" THEN ToSet(Batch(c)) ELSE {}]
    BY DEF QueueFails
  <1>4. i.next \in 1..Len(i.missing)
    BY <1>1 DEF QueueFails, Batching, LastIndex
  <1>5. ToSet(Batch(c)) = NumbersAt(i, Places(i))
    BY <1>1, <1>2, <1>4, BatchIs
  <1>6. NumbersAt(i, Places(i)) \subseteq GivenNumbers
    BY <1>2 DEF NumbersAt, Places, IntakeRecords
  <1>7. PICK named \in SUBSET GivenNumbers :
          named = IF how = "queueError" THEN NumbersAt(i, Places(i)) ELSE {}
    BY <1>6
  <1>8. PICK r : r = [i EXCEPT !.answer = how, !.reported = named]
    OBVIOUS
  <1>9. intake' = [intake EXCEPT ![c] = r]
    BY <1>1, <1>3, <1>5, <1>7, <1>8 DEF IntakeInv
  <1>10. r \in IntakeRecords
    BY <1>2, <1>3, <1>7, <1>8 DEF IntakeRecords
  <1>11. /\ r.given = i.given /\ r.missing = i.missing /\ r.next = i.next
         /\ r.answer = how /\ r.reported = named
    BY <1>2, <1>8 DEF IntakeRecords
  <1>12. NumbersAt(r, Places(r)) = NumbersAt(i, Places(i))
    BY <1>11 DEF NumbersAt, Places
  <1>13. inserted' = inserted /\ queued \subseteq queued'
    BY DEF QueueFails
  <1>14. PICK que : que = queued'
    OBVIOUS
  <1>15. Owed(i, inserted, que) /\ queued \subseteq que
    BY <1>2, <1>13, <1>14, OwedStays
  <1>16. Owed(r, inserted, que)
    BY <1>3, <1>4, <1>7, <1>11, <1>12, <1>15 DEF Owed
  <1>17. QED
    BY <1>9, <1>10, <1>13, <1>14, <1>15, <1>16, IntakeOne

LEMMA QueueHookStep ==
  ASSUME IntakeInv, NEW c \in Intakes, QueueHook(c)
  PROVE  IntakeInv'
  <1>1. PICK i : i = intake[c]
    OBVIOUS
  <1>2. i \in IntakeRecords /\ Owed(i, inserted, queued)
    BY <1>1 DEF IntakeInv
  <1>0. PICK que : que = queued'
    OBVIOUS
  <1>3. PICK how \in {"added", "swallowed"} :
          /\ intake' = [intake EXCEPT ![c].answer = how]
          /\ queued' = que /\ queued \subseteq que
          /\ how = "added" => ToSet(i.missing) \subseteq que
    BY <1>0, <1>1 DEF QueueHook
  <1>4. PICK r : r = [i EXCEPT !.answer = how]
    OBVIOUS
  <1>5. intake' = [intake EXCEPT ![c] = r]
    BY <1>1, <1>3, <1>4 DEF IntakeInv
  <1>6. r \in IntakeRecords
    BY <1>2, <1>3, <1>4 DEF IntakeRecords
  <1>7. /\ r.given = i.given /\ r.missing = i.missing /\ r.next = i.next
        /\ r.answer = how
    BY <1>2, <1>4 DEF IntakeRecords
  <1>8. Owed(i, inserted, que)
    BY <1>2, <1>3, OwedStays
  <1>9. Owed(r, inserted, que)
    BY <1>3, <1>7, <1>8 DEF Owed
  <1>10. inserted' = inserted
    BY DEF QueueHook
  <1>11. QED
    BY <1>3, <1>5, <1>6, <1>9, <1>10, IntakeOne

LEMMA IntakeCorrect == IntakeSpec => []IntakeInv
  <1>1. IntakeInit => IntakeInv
    <2> SUFFICES ASSUME IntakeInit  PROVE  IntakeInv
      OBVIOUS
    <2>1. NoIntake \in IntakeRecords
      BY DEF NoIntake, IntakeRecords
    <2>2. Owed(NoIntake, inserted, queued)
      BY DEF NoIntake, Owed, ToSet
    <2>3. QED
      BY <2>1, <2>2 DEF IntakeInit, IntakeInv
  <1>2. IntakeInv /\ [IntakeNext]_intakeVars => IntakeInv'
    <2>0. SUFFICES ASSUME IntakeInv, [IntakeNext]_intakeVars  PROVE  IntakeInv'
      OBVIOUS
    <2>1. CASE InsertQueued
      <3>1. /\ intake' = intake /\ queued' = queued /\ inserted \subseteq inserted'
        BY <2>1 DEF InsertQueued
      <3>2. PICK there : there = inserted' /\ inserted \subseteq there
        BY <3>1
      <3>3. \A c \in Intakes : Owed(intake[c], there, queued)
        BY <2>0, <3>2, OwedStays DEF IntakeInv
      <3>4. QED
        BY <2>0, <3>1, <3>2, <3>3 DEF IntakeInv, Owed, Places, NumbersAt
    <2>2. ASSUME NEW c \in Intakes, CreateProcesses(c)
          PROVE  IntakeInv'
      <3>1. PICK given \in NumberLists(GivenNumbers) : Look(c, "create", given)
        BY <2>2 DEF CreateProcesses
      <3>2. PICK k \in Nat : given \in [1..k -> GivenNumbers]
        BY IntakeAssumption DEF NumberLists
      <3>3. QED
        BY <2>0, <2>2, <3>1, <3>2, LookStep DEF CreateProcesses
    <2>3. ASSUME NEW c \in Intakes, UploadSheet(c)
          PROVE  IntakeInv'
      <3>0. PICK cells \in NumberLists(GivenNumbers) :
              \E once \in Unique(cells, CnjNumbers) : Look(c, "sheet", once)
        BY <2>3 DEF UploadSheet
      <3>1. PICK once \in Unique(cells, CnjNumbers) : Look(c, "sheet", once)
        BY <3>0
      <3>2. PICK k \in Nat : cells \in [1..k -> GivenNumbers]
        BY IntakeAssumption DEF NumberLists
      <3>3. IsFiniteSet(ToSet(cells)) /\ ToSet(cells) \subseteq GivenNumbers
        BY <3>2, ToSetFinite DEF ToSet
      <3>4. once \in Seq(ToSet(cells) \cap CnjNumbers)
        BY <3>3, UniqueIs
      <3>5. PICK n \in Nat : once \in [1..n -> GivenNumbers]
        BY <3>3, <3>4
      <3>6. QED
        BY <2>0, <2>3, <3>1, <3>5, LookStep DEF UploadSheet
    <2>4. ASSUME NEW c \in Intakes, WebhookPipedrive(c)
          PROVE  IntakeInv'
      <3>1. PICK n \in GivenNumbers : Look(c, "hook", <<n>>)
        BY <2>4 DEF WebhookPipedrive
      <3>2. <<n>> \in [1..1 -> GivenNumbers]
        OBVIOUS
      <3>3. QED
        BY <2>0, <2>4, <3>1, <3>2, LookStep DEF WebhookPipedrive
    <2>5. CASE UNCHANGED intakeVars
      BY <2>0, <2>5 DEF intakeVars, IntakeInv, Owed, Places, NumbersAt
    <2>6. QED
      BY <2>0, <2>1, <2>2, <2>3, <2>4, <2>5, LookAgainStep, QueueBatchStep,
         AddedStep, QueueFailsStep, QueueHookStep DEF IntakeNext
  <1>3. QED
    BY <1>1, <1>2, PTL DEF IntakeSpec

\* No number is left behind by a request that was answered "added" or that all
\* exist, and after a failure of the queue the numbers that are neither there
\* nor queued are in the batch that is named or in those behind it: any number
\* of requests, of any length, and batches of any size (create-process.service.ts).
THEOREM NoneLeftBehind == IntakeSpec => []IntakeAccounted
  <1>1. IntakeInv => IntakeAccounted
    <2>0. SUFFICES ASSUME IntakeInv, NEW c \in Intakes
                   PROVE  LET i == intake[c]
                              lost == ToSet(i.given) \ (inserted \cup queued)
                              reached == ToSet(SubSeq(i.missing, 1, i.next - 1))
                          IN /\ i.answer \in {"added", "exist"} => lost = {}
                             /\ i.answer = "queueError" =>
                                  /\ i.reported # {} /\ reached \cap lost = {}
                                  /\ lost \subseteq i.reported \cup
                                       ToSet(SubSeq(i.missing, i.next + BatchSize,
                                                    Len(i.missing)))
      BY DEF IntakeAccounted
    <2>1. PICK i : i = intake[c]
      OBVIOUS
    <2>2. i \in IntakeRecords /\ Owed(i, inserted, queued)
      BY <2>0, <2>1 DEF IntakeInv
    <2>3. PICK lost : lost = ToSet(i.given) \ (inserted \cup queued)
      OBVIOUS
    <2>4. i.answer \in {"added", "exist"} => lost = {}
      BY <2>2, <2>3 DEF Owed
    <2>5. /\ i.next \in Nat /\ Len(i.missing) \in Nat /\ BatchSize \in Nat \ {0}
          /\ DOMAIN i.missing = 1..Len(i.missing)
      BY <2>2, IntakeAssumption DEF IntakeRecords
    <2>6. ASSUME i.answer = "queueError"
          PROVE  /\ i.reported # {}
                 /\ ToSet(SubSeq(i.missing, 1, i.next - 1)) \cap lost = {}
                 /\ lost \subseteq i.reported \cup
                      ToSet(SubSeq(i.missing, i.next + BatchSize, Len(i.missing)))
      <3>1. i.next \in 1..Len(i.missing) /\ i.reported = NumbersAt(i, Places(i))
        BY <2>2, <2>6 DEF Owed
      <3>2. i.next \in Places(i)
        BY <2>5, <3>1 DEF Places
      <3>3. i.reported # {}
        BY <3>1, <3>2 DEF NumbersAt
      <3>4. ToSet(SubSeq(i.missing, 1, i.next - 1)) \subseteq queued
        <4>1. ToSet(SubSeq(i.missing, 1, i.next - 1)) = {i.missing[j] : j \in 1..(i.next - 1)}
          BY <2>5, SubSeqHas
        <4>2. \A j \in 1..(i.next - 1) : j \in 1..Len(i.missing) /\ j < i.next
          BY <2>5, <3>1
        <4>3. \A j \in 1..(i.next - 1) : i.missing[j] \in queued
          BY <2>2, <4>2 DEF Owed
        <4>4. QED
          BY <4>1, <4>3
      <3>5. ASSUME NEW n \in lost
            PROVE  n \in i.reported \cup
                      ToSet(SubSeq(i.missing, i.next + BatchSize, Len(i.missing)))
        <4>1. n \in ToSet(i.missing) /\ n \notin queued
          BY <2>2, <2>3, <3>5 DEF Owed
        <4>2. PICK j \in 1..Len(i.missing) : n = i.missing[j]
          BY <2>5, <4>1 DEF ToSet
        <4>3. j >= i.next
          BY <2>2, <2>5, <4>1, <4>2 DEF Owed
        <4>4. CASE j < i.next + BatchSize
          BY <3>1, <4>2, <4>3, <4>4 DEF Places, NumbersAt
        <4>5. CASE ~(j < i.next + BatchSize)
          <5>1. j \in (i.next + BatchSize)..Len(i.missing)
            BY <2>5, <4>2, <4>5
          <5>2. ToSet(SubSeq(i.missing, i.next + BatchSize, Len(i.missing)))
                  = {i.missing[m] : m \in (i.next + BatchSize)..Len(i.missing)}
            <6>0. i.next + BatchSize \in Int /\ Len(i.missing) \in Int
              BY <2>5
            <6>1. PICK first \in Int, last \in Int :
                    first = i.next + BatchSize /\ last = Len(i.missing)
              BY <6>0
            <6>2. ToSet(SubSeq(i.missing, first, last)) = {i.missing[m] : m \in first..last}
              BY SubSeqHas
            <6>3. QED
              BY <6>1, <6>2
          <5>3. QED
            BY <4>2, <5>1, <5>2
        <4>6. QED
          BY <4>4, <4>5
      <3>6. QED
        BY <2>3, <3>3, <3>4, <3>5
    <2>7. QED
      BY <2>1, <2>3, <2>4, <2>6, Zenon
  <1>2. QED
    BY <1>1, IntakeCorrect, PTL

-----------------------------------------------------------------------------
(* Resends: any lawsuits, created whenever, and any dates asked for.        *)

Entries == [status : {"PENDING", "LOSS"}, risk : BOOLEAN]
Histories == Seq(Entries) \ {<<>>}
Rows(chosen, s) == {r \in chosen : r[1] = s}

Requests ==
    [at : {"none", "going", "done", "refused"},
     kind : {"none", "night", "filter", "numbers"}, step3 : BOOLEAN,
     from : DateValues \cup {NoDate}, to : DateValues \cup {NoDate},
     match : SUBSET Suits, limit : {0, 1}, given : Seq(Suits \cup {UnknownSuit})]

ResendType ==
    /\ situation \in [Suits -> {"PENDING", "LOSS"}]
    /\ rulings \in [Suits -> Seq(Histories)] /\ papers \in [Suits -> BOOLEAN]
    /\ resend \in Requests
    /\ selected \subseteq (Suits \cup {UnknownSuit}) \X Nat
    /\ sent \in [Suits -> Nat] /\ failed \in [Suits -> Nat]
    /\ resend.at \in {"going", "done"} =>
         /\ asOf.rulings \in [Suits -> Seq(Histories)]
         /\ \A s \in Suits : asOf.papers[s] => papers[s]

Lost(S, R) == S = "LOSS" /\ \E h \in {R[d] : d \in DOMAIN R} :
                               h[Len(h)] = [status |-> "LOSS", risk |-> TRUE]

\* How often a run that was asked q is to try to send a lawsuit that its query
\* found with the situation S, the decisions R and documents or not (P).
Due(q, s, S, R, P, total) ==
    /\ q.kind = "night" /\ Len(R) <= 1 => total = IF Lost(S, R) THEN 1 ELSE 0
    /\ q.kind = "filter" /\ q.limit = 0 =>
         total = IF s \in q.match /\ CreatedIn(s, q.from, q.to) /\ P = q.step3 THEN 1 ELSE 0
    /\ q.kind = "numbers" /\ q.limit = 0 =>
         LET given == Cardinality({i \in DOMAIN q.given : q.given[i] = s}) IN
         total <= given /\ ((q.step3 => P) => total = given)

\* What was sent, what failed and what is left make up what is due.
ResendInv ==
    /\ ResendType
    /\ resend.at = "none" => \A s \in Suits : sent[s] + failed[s] = 0
    /\ resend.at # "going" => selected = {}
    /\ resend.step3 => \A s \in Suits : sent[s] > 0 => papers[s]
    /\ resend.kind = "night" => ~resend.step3
    /\ \A s \in Suits : IsFiniteSet(Rows(selected, s))
    /\ resend.at \in {"going", "done"} =>
         \A s \in Suits :
            Due(resend, s, asOf.situation[s], asOf.rulings[s], asOf.papers[s],
                sent[s] + failed[s] + Cardinality(Rows(selected, s)))

LEMMA NoResendIs ==
  /\ NoResend.at = "none" /\ NoResend.kind = "none" /\ ~NoResend.step3
  /\ NoResend \in Requests
  BY DEF NoResend, Requests

\* Nothing or one row: what the rows of a lawsuit count.
LEMMA CountRows ==
  ASSUME NEW S, NEW r, S \subseteq {r}
  PROVE  IsFiniteSet(S) /\ Cardinality(S) = IF r \in S THEN 1 ELSE 0
  <1>1. CASE S = {}
    BY <1>1, FS_EmptySet
  <1>2. CASE S = {r}
    <2>1. IsFiniteSet({r}) /\ Cardinality({r}) = 1
      BY FS_Singleton, Zenon
    <2>2. QED
      BY <1>2, <2>1
  <1>3. QED
    BY <1>1, <1>2

\* What others change is not what the query found; documents only come.
LEMMA ChangedStep ==
  ASSUME ResendInv, OthersChange, situation' \in [Suits -> {"PENDING", "LOSS"}],
         rulings' \in [Suits -> Seq(Histories)], papers' \in [Suits -> BOOLEAN],
         \A s \in Suits : papers[s] => papers'[s]
  PROVE  ResendInv'
  <1>1. UNCHANGED <<resend, selected, sent, failed, asOf>>
    BY DEF OthersChange
  <1>2. ResendType'
    BY <1>1 DEF ResendInv, ResendType
  <1>3. resend.step3 => \A s \in Suits : sent[s] > 0 => papers'[s]
    BY DEF ResendInv
  <1>4. QED
    BY <1>1, <1>2, <1>3 DEF ResendInv, Rows

LEMMA SetSituationStep ==
  ASSUME ResendInv, NEW s \in Suits, SetSituation(s)
  PROVE  ResendInv'
  <1>1. PICK x \in {"PENDING", "LOSS"} : situation' = [situation EXCEPT ![s] = x]
    BY DEF SetSituation
  <1>2. situation' \in [Suits -> {"PENDING", "LOSS"}]
    BY <1>1 DEF ResendInv, ResendType
  <1>3. UNCHANGED <<rulings, papers>> /\ OthersChange
    BY DEF SetSituation
  <1>4. QED
    BY <1>2, <1>3, ChangedStep DEF ResendInv, ResendType

LEMMA RecordRulingStep ==
  ASSUME ResendInv, NEW s \in Suits, RecordRuling(s)
  PROVE  ResendInv'
  <1>1. PICK risk \in BOOLEAN :
          LET entry == [status |-> situation[s], risk |-> risk] IN
           \/ /\ rulings[s] # <<>>
              /\ rulings' = [rulings EXCEPT ![s][1] = Append(@, entry)]
           \/ /\ Len(rulings[s]) < 2
              /\ rulings' = [rulings EXCEPT ![s] = Append(@, <<entry>>)]
    BY DEF RecordRuling
  <1>2. PICK entry \in Entries : entry = [status |-> situation[s], risk |-> risk]
    BY DEF ResendInv, ResendType, Entries
  <1>3. rulings \in [Suits -> Seq(Histories)]
    BY DEF ResendInv, ResendType
  <1>4. rulings' \in [Suits -> Seq(Histories)]
    <2>1. CASE /\ rulings[s] # <<>>
               /\ rulings' = [rulings EXCEPT ![s][1] = Append(rulings[s][1], entry)]
      <3>1. rulings[s] \in Seq(Histories) /\ 1 \in DOMAIN rulings[s]
        BY <1>3, <2>1
      <3>2. rulings[s][1] \in Seq(Entries)
        BY <3>1 DEF Histories
      <3>3. Append(rulings[s][1], entry) \in Histories
        BY <3>2, SMTT(30) DEF Histories
      <3>4. PICK longer \in Histories : longer = Append(rulings[s][1], entry)
        BY <3>3
      <3>5. [rulings[s] EXCEPT ![1] = longer] \in Seq(Histories)
        BY <3>1, <3>4
      <3>6. rulings' = [rulings EXCEPT ![s] = [rulings[s] EXCEPT ![1] = longer]]
        BY <1>3, <2>1, <3>4
      <3>7. QED
        BY <1>3, <3>5, <3>6
    <2>2. CASE rulings' = [rulings EXCEPT ![s] = Append(rulings[s], <<entry>>)]
      <3>1. <<entry>> \in Histories
        BY DEF Histories
      <3>2. Append(rulings[s], <<entry>>) \in Seq(Histories)
        BY <1>3, <3>1
      <3>3. QED
        BY <1>3, <2>2, <3>2
    <2>3. QED
      BY <1>1, <1>2, <2>1, <2>2
  <1>5. UNCHANGED <<situation, papers>> /\ OthersChange
    BY DEF RecordRuling
  <1>6. QED
    BY <1>4, <1>5, ChangedStep DEF ResendInv, ResendType

LEMMA PapersArriveStep ==
  ASSUME ResendInv, NEW s \in Suits, PapersArrive(s)
  PROVE  ResendInv'
  <1>1. /\ papers' \in [Suits -> BOOLEAN]
        /\ \A t \in Suits : papers[t] => papers'[t]
    BY DEF ResendInv, ResendType, PapersArrive
  <1>2. UNCHANGED <<situation, rulings>> /\ OthersChange
    BY DEF PapersArrive
  <1>3. QED
    BY <1>1, <1>2, ChangedStep DEF ResendInv, ResendType

\* What a run needs when it begins: the rows it has chosen are those due.
LEMMA BeginsRun ==
  ASSUME ResendInv, resend = NoResend, resend' \in Requests,
         selected' \subseteq (Suits \cup {UnknownSuit}) \X Nat,
         asOf' = Present, UNCHANGED <<suitVars, sent, failed>>,
         resend'.at = "going", resend'.kind = "night" => ~resend'.step3,
         \A s \in Suits :
            /\ IsFiniteSet(Rows(selected', s))
            /\ Due(resend', s, situation[s], rulings[s], papers[s],
                   Cardinality(Rows(selected', s)))
  PROVE  ResendInv'
  <1>1. \A s \in Suits : sent[s] = 0 /\ failed[s] = 0
    <2>1. \A s \in Suits : sent[s] + failed[s] = 0 /\ sent[s] \in Nat /\ failed[s] \in Nat
      BY NoResendIs DEF ResendInv, ResendType
    <2>2. QED
      BY <2>1
  <1>2. \A s \in Suits : /\ Cardinality(Rows(selected', s)) \in Nat
                         /\ sent[s] + failed[s] + Cardinality(Rows(selected', s))
                              = Cardinality(Rows(selected', s))
    BY <1>1, FS_CardinalityType
  <1>3. asOf'.situation = situation /\ asOf'.rulings = rulings /\ asOf'.papers = papers
    BY DEF Present
  <1>4. ResendType'
    BY <1>3 DEF ResendInv, ResendType, suitVars
  <1>5. \A s \in Suits :
            Due(resend', s, asOf'.situation[s], asOf'.rulings[s], asOf'.papers[s],
                sent'[s] + failed'[s] + Cardinality(Rows(selected', s)))
    BY <1>2, <1>3
  <1>6. resend'.step3 => \A s \in Suits : sent'[s] > 0 => papers'[s]
    BY <1>1
  <1>7. QED
    BY <1>4, <1>5, <1>6 DEF ResendInv

LEMMA NightStep ==
  ASSUME ResendInv, Night
  PROVE  ResendInv'
  <1>1. /\ resend = NoResend /\ resend' = [NoResend EXCEPT !.at = "going", !.kind = "night"]
        /\ selected' = {r \in Suits \X (1..2) :
                          /\ r[2] \in DOMAIN rulings[r[1]] /\ situation[r[1]] = "LOSS"
                          /\ RiskLoss(rulings[r[1]][r[2]])}
        /\ asOf' = Present /\ UNCHANGED <<suitVars, sent, failed, changes>>
    BY DEF Night
  <1>2. /\ resend'.at = "going" /\ resend'.kind = "night" /\ ~resend'.step3
        /\ resend' \in Requests
    BY <1>1, NoResendIs DEF Requests
  <1>3. selected' \subseteq Suits \X (1..2)
    BY <1>1
  <1>4. selected' \subseteq (Suits \cup {UnknownSuit}) \X Nat
    BY <1>3
  <1>5. ASSUME NEW s \in Suits
        PROVE  /\ IsFiniteSet(Rows(selected', s))
               /\ Due(resend', s, situation[s], rulings[s], papers[s],
                      Cardinality(Rows(selected', s)))
    <2>1. IsFiniteSet(Rows(selected', s))
      <3>1. Rows(selected', s) \subseteq {<<s, 1>>} \cup {<<s, 2>>}
        BY <1>3 DEF Rows
      <3>2. IsFiniteSet({<<s, 1>>}) /\ IsFiniteSet({<<s, 2>>})
        BY FS_Singleton, Zenon
      <3>3. IsFiniteSet({<<s, 1>>} \cup {<<s, 2>>})
        BY <3>2, FS_Union
      <3>4. QED
        BY <3>1, <3>3, FS_Subset
    <2>2. ASSUME Len(rulings[s]) <= 1
          PROVE  Cardinality(Rows(selected', s)) =
                   IF Lost(situation[s], rulings[s]) THEN 1 ELSE 0
      <3>1. rulings[s] \in Seq(Histories) /\ DOMAIN rulings[s] = 1..Len(rulings[s])
            /\ Len(rulings[s]) \in Nat
        BY DEF ResendInv, ResendType
      <3>2. DOMAIN rulings[s] \subseteq {1}
        BY <2>2, <3>1
      <3>3. Rows(selected', s) \subseteq {<<s, 1>>}
        BY <1>1, <3>2 DEF Rows
      <3>4. <<s, 1>> \in Rows(selected', s) <=>
              1 \in DOMAIN rulings[s] /\ situation[s] = "LOSS" /\ RiskLoss(rulings[s][1])
        BY <1>1 DEF Rows
      <3>5. Lost(situation[s], rulings[s]) <=>
              /\ 1 \in DOMAIN rulings[s] /\ situation[s] = "LOSS"
              /\ rulings[s][1][Len(rulings[s][1])] = [status |-> "LOSS", risk |-> TRUE]
        BY <3>2 DEF Lost
      <3>6. ASSUME 1 \in DOMAIN rulings[s]
            PROVE  RiskLoss(rulings[s][1]) <=>
                     rulings[s][1][Len(rulings[s][1])] = [status |-> "LOSS", risk |-> TRUE]
        <4>1. PICK h : h = rulings[s][1]
          OBVIOUS
        <4>2. h \in Seq(Entries) /\ h # <<>>
          BY <3>1, <3>6, <4>1 DEF Histories
        <4>3. PICK latest : latest = h[Len(h)]
          OBVIOUS
        <4>4. latest \in Entries
          BY <4>2, <4>3
        <4>5. latest = [status |-> "LOSS", risk |-> TRUE] <=>
                latest.status = "LOSS" /\ latest.risk
          BY <4>4 DEF Entries
        <4>6. RiskLoss(h) <=> latest.status = "LOSS" /\ latest.risk
          BY <4>3 DEF RiskLoss
        <4>7. QED
          BY <4>1, <4>3, <4>5, <4>6
      <3>7. QED
        BY <3>3, <3>4, <3>5, <3>6, CountRows
    <2>3. QED
      BY <1>2, <2>1, <2>2 DEF Due
  <1>6. QED
    BY <1>1, <1>2, <1>4, <1>5, BeginsRun

LEMMA FilterStep ==
  ASSUME ResendInv, AskByFilter
  PROVE  ResendInv'
  <1>0. /\ resend = NoResend /\ asOf' = Present
        /\ UNCHANGED <<suitVars, sent, failed, changes>>
    BY DEF AskByFilter
  <1>1. PICK from \in DateValues \cup {NoDate}, to \in DateValues \cup {NoDate},
             match \in SUBSET Suits, step \in {"step-1", "step-3", "?"}, limit \in {0, 1} :
         LET r == [NoResend EXCEPT !.kind = "filter", !.step3 = (step = "step-3"),
                     !.from = from, !.to = to, !.match = match, !.limit = limit]
         IN IF step = "?"
            THEN resend' = [NoResend EXCEPT !.at = "refused"] /\ selected' = {}
            ELSE /\ resend' = [r EXCEPT !.at = "going"]
                 /\ \E S \in SUBSET Listable(r) :
                      /\ IF limit = 0 \/ Cardinality(Listable(r)) <= limit
                         THEN S = Listable(r) ELSE Cardinality(S) = limit
                      /\ selected' = S \X {1}
    BY DEF AskByFilter
  <1>2. CASE step = "?"
    <2>1. resend' = [NoResend EXCEPT !.at = "refused"] /\ selected' = {}
      BY <1>1, <1>2
    <2>2. /\ resend'.at = "refused" /\ resend'.kind = "none" /\ ~resend'.step3
          /\ resend' \in Requests
      BY <2>1, NoResendIs DEF Requests
    <2>3. ResendType'
      BY <1>0, <2>1, <2>2 DEF ResendInv, ResendType, suitVars
    <2>4. \A s \in Suits : IsFiniteSet(Rows(selected', s))
      BY <2>1, FS_EmptySet DEF Rows
    <2>5. QED
      BY <1>0, <2>1, <2>2, <2>3, <2>4 DEF ResendInv, suitVars
  <1>3. CASE step # "?"
    <2>1. PICK r : r = [NoResend EXCEPT !.kind = "filter", !.step3 = (step = "step-3"),
                     !.from = from, !.to = to, !.match = match, !.limit = limit]
      OBVIOUS
    <2>2. PICK S \in SUBSET Listable(r) :
            /\ limit = 0 => S = Listable(r)
            /\ selected' = S \X {1} /\ resend' = [r EXCEPT !.at = "going"]
      BY <1>1, <1>3, <2>1
    <2>3. /\ r.kind = "filter" /\ r.match = match /\ r.from = from /\ r.to = to
          /\ r.limit = limit /\ r.step3 \in BOOLEAN
          /\ resend'.at = "going" /\ resend'.kind = "filter" /\ resend'.match = match
          /\ resend'.from = from /\ resend'.to = to /\ resend'.limit = limit
          /\ resend'.step3 = r.step3
          /\ resend' \in Requests
      <3>1. /\ r \in Requests /\ r.kind = "filter" /\ r.match = match /\ r.from = from
            /\ r.to = to /\ r.limit = limit
        BY <2>1, NoResendIs DEF Requests
      <3>2. resend' = [r EXCEPT !.at = "going"]
        BY <2>2
      <3>3. QED
        BY <3>1, <3>2 DEF Requests
    <2>4. S \subseteq Suits
      BY DEF Listable
    <2>5. selected' \subseteq Suits \X {1}
      BY <2>2, <2>4
    <2>6. selected' \subseteq (Suits \cup {UnknownSuit}) \X Nat
      BY <2>5
    <2>7. ASSUME NEW s \in Suits
          PROVE  /\ IsFiniteSet(Rows(selected', s))
                 /\ Due(resend', s, situation[s], rulings[s], papers[s],
                        Cardinality(Rows(selected', s)))
      <3>1. Rows(selected', s) \subseteq {<<s, 1>>}
        BY <2>5 DEF Rows
      <3>2. <<s, 1>> \in Rows(selected', s) <=> s \in S
        BY <2>2 DEF Rows
      <3>3. /\ IsFiniteSet(Rows(selected', s))
            /\ Cardinality(Rows(selected', s)) = IF s \in S THEN 1 ELSE 0
        BY <3>1, <3>2, CountRows
      <3>4. limit = 0 => (s \in S <=> /\ s \in match /\ CreatedIn(s, from, to)
                                      /\ papers[s] = r.step3)
        BY <2>2, <2>3 DEF Listable
      <3>5. QED
        BY <2>3, <3>3, <3>4 DEF Due
    <2>8. QED
      BY <1>0, <2>3, <2>6, <2>7, BeginsRun
  <1>4. QED
    BY <1>2, <1>3

LEMMA NumbersStep ==
  ASSUME ResendInv, AskByNumber
  PROVE  ResendInv'
  <1>0. /\ resend = NoResend /\ asOf' = Present
        /\ UNCHANGED <<suitVars, sent, failed, changes>>
    BY DEF AskByNumber
  <1>1. PICK k \in 1..2, limit \in {0, 1}, step3 \in BOOLEAN :
       \E given \in [1..k -> Suits \cup {UnknownSuit}] :
         /\ resend' = [NoResend EXCEPT !.at = "going", !.kind = "numbers", !.step3 = step3,
                      !.limit = limit, !.given = given]
         /\ selected' = {<<given[i], i>> : i \in 1..(IF limit # 0 THEN limit ELSE k)}
    BY DEF AskByNumber
  <1>2. PICK given \in [1..k -> Suits \cup {UnknownSuit}] :
         /\ resend' = [NoResend EXCEPT !.at = "going", !.kind = "numbers", !.step3 = step3,
                      !.limit = limit, !.given = given]
         /\ selected' = {<<given[i], i>> : i \in 1..(IF limit # 0 THEN limit ELSE k)}
    BY <1>1
  <1>3. PICK n \in 1..k : n = (IF limit # 0 THEN limit ELSE k)
    OBVIOUS
  <1>4. selected' = {<<given[i], i>> : i \in 1..n}
    BY <1>2, <1>3
  <1>5. given \in Seq(Suits \cup {UnknownSuit}) /\ DOMAIN given = 1..k
    OBVIOUS
  <1>6. /\ resend' \in Requests /\ resend'.at = "going" /\ resend'.kind = "numbers"
        /\ resend'.limit = limit /\ resend'.given = given
    BY <1>2, <1>5, NoResendIs DEF Requests
  <1>7. selected' \subseteq (Suits \cup {UnknownSuit}) \X Nat
    BY <1>4
  <1>8. ASSUME NEW s \in Suits
        PROVE  /\ IsFiniteSet(Rows(selected', s))
               /\ Due(resend', s, situation[s], rulings[s], papers[s],
                      Cardinality(Rows(selected', s)))
    <2>1. PICK I : I = {i \in 1..n : given[i] = s}
      OBVIOUS
    <2>2. PICK f : f = [i \in I |-> <<given[i], i>>]
      OBVIOUS
    <2>3. IsFiniteSet(1..n)
      BY FS_Interval
    <2>4. IsFiniteSet(I)
      BY <2>1, <2>3, FS_Subset
    <2>5. Rows(selected', s) = {<<given[i], i>> : i \in I}
      BY <1>4, <2>1 DEF Rows
    <2>6. f \in Surjection(I, Rows(selected', s))
      BY <2>2, <2>5 DEF Surjection
    <2>7. f \in Injection(I, Rows(selected', s))
      BY <2>2, <2>5 DEF Injection, IsInjective
    <2>8. IsFiniteSet(Rows(selected', s)) /\ Cardinality(Rows(selected', s)) = Cardinality(I)
      BY <2>4, <2>6, <2>7, FS_Surjection
    <2>9. limit = 0 => I = {i \in DOMAIN given : given[i] = s}
      BY <1>3, <1>5, <2>1
    <2>10. Cardinality(I) \in Nat
      BY <2>4, FS_CardinalityType
    <2>11. PICK total : total = Cardinality(Rows(selected', s))
      OBVIOUS
    <2>12. total \in Nat /\ total = Cardinality(I)
      BY <2>8, <2>10, <2>11
    <2>13. resend'.limit = 0 =>
             total = Cardinality({i \in DOMAIN resend'.given : resend'.given[i] = s})
      BY <1>6, <2>9, <2>12
    <2>14. Due(resend', s, situation[s], rulings[s], papers[s], total)
      <3>1. resend'.kind # "night" /\ resend'.kind # "filter"
        BY <1>6
      <3>2. QED
        BY <2>12, <2>13, <3>1 DEF Due
    <2>15. QED
      BY <2>8, <2>11, <2>14
  <1>9. QED
    BY <1>0, <1>6, <1>7, <1>8, BeginsRun

\* A row is out of the way: the rows of its lawsuit are one less, the others'
\* as they were.
LEMMA OneRowLess ==
  ASSUME ResendInv, NEW r \in selected, NEW s \in Suits
  PROVE  /\ IsFiniteSet(Rows(selected \ {r}, s)) /\ Cardinality(Rows(selected, s)) \in Nat
         /\ Cardinality(Rows(selected \ {r}, s)) =
              IF r[1] = s THEN Cardinality(Rows(selected, s)) - 1
              ELSE Cardinality(Rows(selected, s))
  <1>1. IsFiniteSet(Rows(selected, s)) /\ Cardinality(Rows(selected, s)) \in Nat
    BY FS_CardinalityType DEF ResendInv
  <1>2. CASE r[1] = s
    <2>1. Rows(selected \ {r}, s) = Rows(selected, s) \ {r} /\ r \in Rows(selected, s)
      BY <1>2 DEF Rows
    <2>2. PICK own : own = Rows(selected, s)
      OBVIOUS
    <2>3. /\ IsFiniteSet(own \ {r}) /\ r \in own
          /\ Cardinality(own \ {r}) = Cardinality(own) - 1
      BY <1>1, <2>1, <2>2, FS_RemoveElement
    <2>4. QED
      BY <1>1, <1>2, <2>1, <2>2, <2>3
  <1>3. CASE r[1] # s
    <2>1. Rows(selected \ {r}, s) = Rows(selected, s)
      BY <1>3 DEF Rows
    <2>2. QED
      BY <1>1, <1>3, <2>1
  <1>4. QED
    BY <1>2, <1>3

LEMMA SendRowStep ==
  ASSUME ResendInv, NEW r \in selected, SendRow(r)
  PROVE  ResendInv'
  <1>1. /\ selected' = selected \ {r} /\ UNCHANGED <<suitVars, resend, failed, asOf>>
        /\ sent' = IF LeftOut(r[1]) THEN sent ELSE [sent EXCEPT ![r[1]] = @ + 1]
    BY DEF SendRow
  <1>2. PICK c : c = r[1]
    OBVIOUS
  <1>3. /\ c \in Suits \cup {UnknownSuit} /\ resend.at = "going"
        /\ sent \in [Suits -> Nat] /\ failed \in [Suits -> Nat]
    BY <1>2 DEF ResendInv, ResendType
  <1>4. \A s \in Suits : /\ sent[s] \in Nat /\ failed[s] \in Nat
                         /\ sent'[s] = IF s = c /\ ~LeftOut(c) THEN sent[s] + 1 ELSE sent[s]
    BY <1>1, <1>2, <1>3
  <1>5. sent' \in [Suits -> Nat]
    BY <1>1, <1>2, <1>3, <1>4 DEF LeftOut
  <1>6. ResendType'
    BY <1>1, <1>5 DEF ResendInv, ResendType, suitVars
  <1>7. resend.step3 => \A s \in Suits : sent'[s] > 0 => papers[s]
    BY <1>4 DEF LeftOut, ResendInv
  <1>8. ASSUME NEW s \in Suits
        PROVE  Due(resend, s, asOf.situation[s], asOf.rulings[s], asOf.papers[s],
                   sent'[s] + failed[s] + Cardinality(Rows(selected', s)))
    <2>0. Due(resend, s, asOf.situation[s], asOf.rulings[s], asOf.papers[s],
              sent[s] + failed[s] + Cardinality(Rows(selected, s)))
      BY <1>3 DEF ResendInv
    <2>1. /\ Cardinality(Rows(selected, s)) \in Nat /\ sent[s] \in Nat /\ failed[s] \in Nat
          /\ Cardinality(Rows(selected', s)) =
               IF c = s THEN Cardinality(Rows(selected, s)) - 1
               ELSE Cardinality(Rows(selected, s))
      BY <1>1, <1>2, <1>4, OneRowLess
    <2>2. CASE s # c \/ ~LeftOut(c)
      <3>1. sent'[s] + failed[s] + Cardinality(Rows(selected', s))
              = sent[s] + failed[s] + Cardinality(Rows(selected, s))
        BY <1>4, <2>1, <2>2
      <3>2. QED
        BY <2>0, <3>1
    <2>3. CASE s = c /\ LeftOut(c)
      <3>1. resend.step3 /\ ~papers[s]
        BY <2>3, ResendAssumption DEF LeftOut
      <3>2. resend.kind # "night"
        BY <3>1 DEF ResendInv
      <3>3. ~asOf.papers[s]
        BY <1>3, <3>1 DEF ResendInv, ResendType
      <3>4. ~(resend.kind = "filter" /\ resend.limit = 0)
        <4>1. Cardinality(Rows(selected, s)) # 0
          <5>1. r \in Rows(selected, s)
            BY <1>2, <2>3 DEF Rows
          <5>2. IsFiniteSet(Rows(selected, s))
            BY DEF ResendInv
          <5>3. QED
            BY <5>1, <5>2, FS_EmptySet
        <4>2. sent[s] + failed[s] + Cardinality(Rows(selected, s)) # 0
          BY <2>1, <4>1
        <4>3. asOf.papers[s] # resend.step3
          BY <3>1, <3>3
        <4>4. QED
          BY <2>0, <4>2, <4>3 DEF Due
      <3>5. resend.kind = "numbers" /\ resend.limit = 0 =>
              LET given == Cardinality({i \in DOMAIN resend.given : resend.given[i] = s}) IN
              sent'[s] + failed[s] + Cardinality(Rows(selected', s)) <= given
        <4>1. PICK given : given = Cardinality({i \in DOMAIN resend.given :
                                                 resend.given[i] = s})
          OBVIOUS
        <4>2. given \in Nat
          <5>1. resend.given \in Seq(Suits \cup {UnknownSuit})
            BY DEF ResendInv, ResendType, Requests
          <5>2. DOMAIN resend.given = 1..Len(resend.given) /\ Len(resend.given) \in Nat
            BY <5>1, LenProperties
          <5>3. IsFiniteSet(DOMAIN resend.given)
            <6>1. PICK m \in Nat : DOMAIN resend.given = 1..m
              BY <5>2
            <6>2. IsFiniteSet(1..m)
              BY FS_Interval
            <6>3. QED
              BY <6>1, <6>2
          <5>4. IsFiniteSet({i \in DOMAIN resend.given : resend.given[i] = s})
            BY <5>3, FS_Subset
          <5>5. QED
            BY <4>1, <5>4, FS_CardinalityType
        <4>3. resend.kind = "numbers" /\ resend.limit = 0 =>
                sent[s] + failed[s] + Cardinality(Rows(selected, s)) <= given
          BY <2>0, <4>1 DEF Due
        <4>4. sent'[s] = sent[s]
          BY <1>4, <2>3
        <4>5. PICK held, less :
                held = Cardinality(Rows(selected, s)) /\ less = Cardinality(Rows(selected', s))
          OBVIOUS
        <4>6. held \in Nat /\ less = held - 1
          BY <2>1, <2>3, <4>5
        <4>7. sent[s] + failed[s] + held <= given => sent'[s] + failed[s] + less <= given
          BY <2>1, <4>2, <4>4, <4>6
        <4>8. QED
          BY <4>1, <4>3, <4>5, <4>7
      <3>6. QED
        BY <3>1, <3>2, <3>3, <3>4, <3>5 DEF Due
    <2>4. QED
      BY <2>2, <2>3
  <1>9. \A s \in Suits : IsFiniteSet(Rows(selected', s))
    BY <1>1, OneRowLess
  <1>10. QED
    BY <1>1, <1>3, <1>6, <1>7, <1>8, <1>9 DEF ResendInv, suitVars

LEMMA RowFailsStep ==
  ASSUME ResendInv, NEW r \in selected, RowFails(r)
  PROVE  ResendInv'
  <1>1. /\ selected' = selected \ {r} /\ ~LeftOut(r[1])
        /\ failed' = [failed EXCEPT ![r[1]] = @ + 1]
        /\ UNCHANGED <<suitVars, resend, sent, asOf, changes>>
    BY DEF RowFails
  <1>2. /\ resend.at = "going" /\ r[1] \in Suits /\ failed \in [Suits -> Nat]
        /\ sent \in [Suits -> Nat]
    BY <1>1 DEF ResendInv, ResendType, LeftOut
  <1>3. /\ failed' \in [Suits -> Nat]
        /\ \A s \in Suits : /\ failed[s] \in Nat /\ sent[s] \in Nat
                            /\ failed'[s] = IF s = r[1] THEN failed[s] + 1 ELSE failed[s]
    BY <1>1, <1>2
  <1>4. ResendType'
    BY <1>1, <1>3 DEF ResendInv, ResendType, suitVars
  <1>5. ASSUME NEW s \in Suits
        PROVE  Due(resend, s, asOf.situation[s], asOf.rulings[s], asOf.papers[s],
                   sent[s] + failed'[s] + Cardinality(Rows(selected', s)))
    <2>1. /\ Cardinality(Rows(selected, s)) \in Nat
          /\ Cardinality(Rows(selected', s)) =
               IF r[1] = s THEN Cardinality(Rows(selected, s)) - 1
               ELSE Cardinality(Rows(selected, s))
      BY <1>1, OneRowLess
    <2>2. sent[s] + failed'[s] + Cardinality(Rows(selected', s))
            = sent[s] + failed[s] + Cardinality(Rows(selected, s))
      BY <1>3, <2>1
    <2>3. Due(resend, s, asOf.situation[s], asOf.rulings[s], asOf.papers[s],
              sent[s] + failed[s] + Cardinality(Rows(selected, s)))
      BY <1>2 DEF ResendInv
    <2>4. QED
      BY <2>2, <2>3
  <1>6. \A s \in Suits : IsFiniteSet(Rows(selected', s))
    BY <1>1, OneRowLess
  <1>7. QED
    BY <1>1, <1>2, <1>4, <1>5, <1>6 DEF ResendInv, suitVars

LEMMA ResendEndsStep ==
  ASSUME ResendInv, ResendEnds
  PROVE  ResendInv'
  <1>1. /\ resend.at = "going" /\ selected = {} /\ resend' = [resend EXCEPT !.at = "done"]
        /\ UNCHANGED <<suitVars, selected, sent, failed, asOf, changes>>
    BY DEF ResendEnds
  <1>2. resend \in Requests
    BY DEF ResendInv, ResendType
  <1>3. /\ resend' \in Requests /\ resend'.at = "done" /\ resend'.kind = resend.kind
        /\ resend'.step3 = resend.step3 /\ resend'.match = resend.match
        /\ resend'.from = resend.from /\ resend'.to = resend.to
        /\ resend'.limit = resend.limit /\ resend'.given = resend.given
    BY <1>1, <1>2 DEF Requests
  <1>4. \A s \in Suits :
            Due(resend', s, asOf.situation[s], asOf.rulings[s], asOf.papers[s],
                sent[s] + failed[s] + Cardinality(Rows(selected, s)))
    BY <1>1, <1>3 DEF ResendInv, Due
  <1>5. ResendType'
    BY <1>1, <1>3 DEF ResendInv, ResendType, suitVars
  <1>6. QED
    BY <1>1, <1>3, <1>4, <1>5 DEF ResendInv, suitVars, Rows

LEMMA ResendCorrect == ResendSpec => []ResendInv
  <1>1. ResendInit => ResendInv
    <2>0. SUFFICES ASSUME ResendInit  PROVE  ResendInv
      OBVIOUS
    <2>1. ResendType
      BY <2>0, NoResendIs DEF ResendInit, ResendType
    <2>2. \A s \in Suits : IsFiniteSet(Rows(selected, s))
      BY <2>0, FS_EmptySet DEF ResendInit, Rows
    <2>3. QED
      BY <2>0, <2>1, <2>2, NoResendIs DEF ResendInit, ResendInv
  <1>2. ResendInv /\ [ResendNext]_resendVars => ResendInv'
    <2>0. SUFFICES ASSUME ResendInv, [ResendNext]_resendVars  PROVE  ResendInv'
      OBVIOUS
    <2>1. CASE UNCHANGED resendVars
      <3>1. UNCHANGED <<situation, rulings, papers, resend, selected, sent, failed, asOf>>
        BY <2>1 DEF resendVars, suitVars
      <3>2. ResendType'
        BY <2>0, <3>1 DEF ResendInv, ResendType
      <3>3. \A s \in Suits : Rows(selected', s) = Rows(selected, s)
        BY <3>1
      <3>4. QED
        BY <2>0, <3>1, <3>2, <3>3, SMTT(30) DEF ResendInv
    <2>2. QED
      BY <2>0, <2>1, NightStep, FilterStep, NumbersStep, ResendEndsStep, SendRowStep,
         RowFailsStep, SetSituationStep, RecordRulingStep, PapersArriveStep
         DEF ResendNext
  <1>3. QED
    BY <1>1, <1>2, PTL DEF ResendSpec

\* The hours of the days from .. to of the zone -03:00 are the hours between
\* the boundaries that toBoundaryDate makes of them.
LEMMA DaysAreHours ==
  ASSUME NEW s \in Suits, NEW from \in DateValues, NEW to \in DateValues,
         from.dateOnly, to.dateOnly
  PROVE  CreatedIn(s, from, to) <=> LocalDay(s) \in from.n..to.n
  <1>1. PICK h \in Nat, a \in Nat, b \in Nat : h = CreatedAt[s] /\ a = from.n /\ b = to.n
    BY ResendAssumption
  <1>2. from # NoDate /\ to # NoDate
    BY ResendAssumption
  <1>3. CreatedIn(s, from, to) <=> h >= 24 * a + 3 /\ h <= 24 * b + 26
    BY <1>1, <1>2 DEF CreatedIn, Boundary
  <1>4. LocalDay(s) = (h - 3) \div 24
    BY <1>1 DEF LocalDay
  <1>5. PICK d \in Int : d = (h - 3) \div 24
    OBVIOUS
  <1>6. 24 * d <= h - 3 /\ h - 3 < 24 * d + 24
    BY <1>5
  <1>7. d \in a..b <=> h >= 24 * a + 3 /\ h <= 24 * b + 26
    BY <1>6
  <1>8. QED
    BY <1>1, <1>3, <1>4, <1>5, <1>7

\* A run sends, or fails to send, exactly the lawsuits that its query found to
\* qualify, once, and those given by number as often as they are given: any
\* lawsuits, created at any hour, any dates, changes by others at any moment and
\* any of the sendings failing (loss-revalidation.cron.ts,
\* run-list-lawsuits-validation.service.ts).
THEOREM SendsTheQualified == ResendSpec => []ResendsTheQualified
  <1>1. ResendInv => ResendsTheQualified
    <2>0. SUFFICES ASSUME ResendInv, resend.at = "done"
                   PROVE  ResendsTheQualified
      BY DEF ResendsTheQualified
    <2>1. resend.step3 => \A s \in Suits : sent[s] > 0 => papers[s]
      BY <2>0 DEF ResendInv
    <2>2. ASSUME NEW s \in Suits
          PROVE  Due(resend, s, asOf.situation[s], asOf.rulings[s], asOf.papers[s],
                     sent[s] + failed[s])
      <3>1. Rows(selected, s) = {}
        BY <2>0 DEF ResendInv, Rows
      <3>2. Cardinality(Rows(selected, s)) = 0
        BY <3>1, FS_EmptySet
      <3>3. sent[s] \in Nat /\ failed[s] \in Nat
        BY <2>0 DEF ResendInv, ResendType
      <3>4. sent[s] + failed[s] + Cardinality(Rows(selected, s)) = sent[s] + failed[s]
        BY <3>2, <3>3
      <3>5. Due(resend, s, asOf.situation[s], asOf.rulings[s], asOf.papers[s],
                sent[s] + failed[s] + Cardinality(Rows(selected, s)))
        BY <2>0 DEF ResendInv
      <3>6. QED
        BY <3>4, <3>5
    <2>3. ASSUME NEW s \in Suits, resend.kind = "night", Len(asOf.rulings[s]) <= 1
          PROVE  sent[s] + failed[s] =
                   IF Lost(asOf.situation[s], asOf.rulings[s]) THEN 1 ELSE 0
      BY <2>2, <2>3 DEF Due
    <2>4. ASSUME NEW s \in Suits, resend.kind = "filter", resend.limit = 0,
                 resend.from # NoDate, resend.to # NoDate,
                 resend.from.dateOnly, resend.to.dateOnly
          PROVE  sent[s] + failed[s] =
                   IF /\ s \in resend.match /\ asOf.papers[s] = resend.step3
                      /\ LocalDay(s) \in resend.from.n..resend.to.n THEN 1 ELSE 0
      <3>1. resend.from \in DateValues /\ resend.to \in DateValues
        BY <2>0, <2>4 DEF ResendInv, ResendType, Requests
      <3>2. CreatedIn(s, resend.from, resend.to)
              <=> LocalDay(s) \in resend.from.n..resend.to.n
        BY <2>4, <3>1, DaysAreHours
      <3>3. sent[s] + failed[s] =
              IF /\ s \in resend.match /\ CreatedIn(s, resend.from, resend.to)
                 /\ asOf.papers[s] = resend.step3 THEN 1 ELSE 0
        BY <2>2, <2>4 DEF Due
      <3>4. QED
        BY <3>2, <3>3
    <2>5. ASSUME NEW s \in Suits, resend.kind = "numbers", resend.limit = 0
          PROVE  LET given == Cardinality({i \in DOMAIN resend.given : resend.given[i] = s})
                 IN  /\ sent[s] + failed[s] <= given
                     /\ (resend.step3 => asOf.papers[s]) => sent[s] + failed[s] = given
      BY <2>2, <2>5 DEF Due
    <2>6. QED
      BY <2>0, <2>1, <2>3, <2>4, <2>5 DEF ResendsTheQualified, Lost
  <1>2. QED
    BY <1>1, ResendCorrect, PTL

-----------------------------------------------------------------------------
(* PagedLists: pages of any size, of lists of any length.                   *)

\* The entries before e, newest first; none share their createdAt.
Above(e, there, times) == {f \in there : times[f] > times[e]}
Rank(e, there, times) == Cardinality(Above(e, there, times))
Distinct(there, times) == \A e, f \in there : times[e] = times[f] => e = f

PagedType ==
    /\ list \in Lists \cup {"none"} /\ at \in Seq(Nat) /\ Len(at) <= EntriesBound
    /\ gone \subseteq DOMAIN at /\ walk \in {"out", "asking", "counting", "done"}
    /\ page \in Nat \ {0} /\ shown \in [1..EntriesBound -> Nat]

\* Who has seen the pages up to a place has seen the entries of a lower rank:
\* at least them once they move down, once each as long as nothing moves.
Passed(count, rank, place, mv) ==
    /\ count = 0 => rank >= place
    /\ mv = {} => count = IF rank < place THEN 1 ELSE 0

Seen(w, p, mv, rank, count) ==
    /\ w = "asking" => Passed(count, rank, Skip(p), mv)
    /\ w = "counting" => Passed(count, rank, p * PageLimit, mv)
    /\ w = "done" => count >= 1 /\ (mv = {} => count = 1)

PagedInv ==
    /\ PagedType
    /\ walk = "out" => shown = [e \in 1..EntriesBound |-> 0] /\ page = 1
                       /\ moved = {}
    /\ walk # "out" /\ "delete" \notin moved =>
         /\ onList \subseteq There
         /\ Distinct(There, at) =>
              \A e \in onList : Seen(walk, page, moved, Rank(e, There, at), shown[e])

LEMMA ThereIs ==
  ASSUME PagedType
  PROVE  /\ IsFiniteSet(There) /\ There \subseteq 1..EntriesBound /\ There \subseteq 1..Len(at)
         /\ \A e \in There : at[e] \in Nat
  <1>1. Len(at) \in Nat /\ DOMAIN at = 1..Len(at) /\ EntriesBound \in Nat
    BY PagedAssumption DEF PagedType
  <1>2. IsFiniteSet(1..Len(at))
    BY <1>1, FS_Interval
  <1>3. There \subseteq 1..Len(at)
    BY <1>1 DEF There
  <1>4. IsFiniteSet(There)
    BY <1>2, <1>3, FS_Subset
  <1>5. at \in Seq(Nat) /\ Len(at) <= EntriesBound
    BY DEF PagedType
  <1>6. \A e \in 1..Len(at) : at[e] \in Nat
    BY <1>5
  <1>7. 1..Len(at) \subseteq 1..EntriesBound
    BY <1>1, <1>5
  <1>8. QED
    BY <1>3, <1>4, <1>6, <1>7

LEMMA RankIs ==
  ASSUME NEW there, IsFiniteSet(there), NEW times, \A f \in there : times[f] \in Nat,
         NEW e \in there
  PROVE  /\ Rank(e, there, times) \in Nat /\ IsFiniteSet(Above(e, there, times))
         /\ Rank(e, there, times) < Cardinality(there)
  <1>1. Above(e, there, times) \subseteq there \ {e}
    BY DEF Above
  <1>2. IsFiniteSet(there \ {e}) /\ Cardinality(there \ {e}) = Cardinality(there) - 1
    BY FS_RemoveElement
  <1>3. /\ IsFiniteSet(Above(e, there, times))
        /\ Cardinality(Above(e, there, times)) <= Cardinality(there \ {e})
    BY <1>1, <1>2, FS_Subset
  <1>4. Cardinality(there) \in Nat /\ Cardinality(Above(e, there, times)) \in Nat
    BY <1>3, FS_CardinalityType
  <1>5. QED
    BY <1>2, <1>3, <1>4 DEF Rank

\* What sort, skip and limit give of a list whose entries differ in createdAt:
\* the entries whose rank is in the page.
LEMMA PageIs ==
  ASSUME PagedType, NEW p \in Nat \ {0}, NEW P \in Pages(p), Distinct(There, at),
         NEW e \in There
  PROVE  e \in P <=> /\ Skip(p) <= Rank(e, There, at)
                     /\ Rank(e, There, at) < Skip(p) + PageLimit
  <1>1. PICK there : there = There
    OBVIOUS
  <1>2. /\ IsFiniteSet(there) /\ e \in there /\ Distinct(there, at)
        /\ \A f \in there : at[f] \in Nat
    BY <1>1, ThereIs
  <1>3. PICK n \in Nat : n = Cardinality(there)
    BY <1>2, FS_CardinalityType
  <1>4. PICK skip \in Nat : skip = Skip(p)
    <2>1. (p - 1) * PageLimit \in Nat
      <3>1. p - 1 \in Nat /\ PageLimit \in Nat
        BY PagedAssumption
      <3>2. QED
        BY <3>1
    <2>2. QED
      BY <2>1 DEF Skip
  <1>5. PICK L \in Nat \ {0} : L = PageLimit
    BY PagedAssumption
  <1>6. PICK before \in Nat : before = IF skip < n THEN skip ELSE n
    OBVIOUS
  <1>7. PICK size \in Nat : size = IF L < n - before THEN L ELSE n - before
    <2>1. n - before \in Nat
      BY <1>6
    <2>2. QED
      BY <2>1
  <1>8. /\ P \subseteq there /\ Cardinality(P) = size
        /\ \E A \in SUBSET (there \ P) :
             /\ Cardinality(A) = before
             /\ Newer(A, P) /\ Newer(A \cup P, there \ (A \cup P))
    BY <1>1, <1>3, <1>4, <1>5, <1>6, <1>7, Zenon DEF Pages, Least
  <1>9. PICK A \in SUBSET (there \ P) :
             /\ Cardinality(A) = before
             /\ Newer(A, P) /\ Newer(A \cup P, there \ (A \cup P))
    BY <1>8
  <1>10. PICK up : up = Above(e, there, at)
    OBVIOUS
  <1>11. PICK rank \in Nat : rank = Cardinality(up) /\ rank = Rank(e, there, at)
    BY <1>2, <1>10, RankIs DEF Rank
  <1>12. IsFiniteSet(up) /\ up \subseteq there /\ e \notin up
    BY <1>2, <1>10, RankIs DEF Above
  <1>13. /\ IsFiniteSet(A) /\ IsFiniteSet(P)
         /\ IsFiniteSet(A \cup P) /\ Cardinality(A \cup P) = before + size
    <2>1. IsFiniteSet(A) /\ IsFiniteSet(P)
      BY <1>2, <1>8, FS_Subset
    <2>2. A \cap P = {}
      OBVIOUS
    <2>3. /\ IsFiniteSet(A \cup P)
          /\ Cardinality(A \cup P) = Cardinality(A) + Cardinality(P) - Cardinality(A \cap P)
      BY <2>1, FS_Union
    <2>4. Cardinality(A \cap P) = 0
      BY <2>2, FS_EmptySet
    <2>5. QED
      BY <1>8, <1>9, <2>1, <2>3, <2>4
  <1>14. CASE e \in A
    <2>1. up \subseteq A \ {e}
      BY <1>2, <1>9, <1>10, <1>12, <1>14 DEF Newer, Above
    <2>2. IsFiniteSet(A \ {e}) /\ Cardinality(A \ {e}) = before - 1
      BY <1>9, <1>13, <1>14, FS_RemoveElement
    <2>3. rank <= before - 1
      BY <1>11, <2>1, <2>2, FS_Subset, ZenonT(60)
    <2>4. rank < skip
      BY <1>6, <2>3
    <2>5. e \notin P
      BY <1>14
    <2>6. QED
      BY <1>1, <1>4, <1>11, <2>4, <2>5
  <1>15. CASE e \in P
    <2>1. A \subseteq up
      <3> SUFFICES ASSUME NEW f \in A  PROVE  f \in up
        OBVIOUS
      <3>1. at[f] >= at[e] /\ f # e /\ f \in there
        BY <1>9, <1>15 DEF Newer
      <3>2. at[f] # at[e]
        BY <1>2, <3>1 DEF Distinct
      <3>3. QED
        BY <1>2, <1>10, <3>1, <3>2 DEF Above
    <2>2. up \subseteq (A \cup P) \ {e}
      <3> SUFFICES ASSUME NEW f \in up  PROVE  f \in A \cup P
        BY <1>12
      <3>1. f \in there /\ at[f] > at[e]
        BY <1>10 DEF Above
      <3>2. ASSUME f \notin A \cup P  PROVE  FALSE
        <4>1. at[e] >= at[f]
          BY <1>9, <1>15, <3>1, <3>2 DEF Newer
        <4>2. QED
          BY <1>2, <3>1, <4>1
      <3>3. QED
        BY <3>2
    <2>3. before <= rank
      BY <1>9, <1>11, <1>12, <2>1, FS_Subset
    <2>4. PICK both : both = A \cup P
      OBVIOUS
    <2>5. rank <= before + size - 1
      <3>1. /\ IsFiniteSet(both) /\ e \in both
            /\ Cardinality(both) = before + size /\ up \subseteq both \ {e}
        BY <1>13, <1>15, <2>2, <2>4
      <3>2. /\ IsFiniteSet(both \ {e})
            /\ Cardinality(both \ {e}) = Cardinality(both) - 1
        BY <3>1, FS_RemoveElement
      <3>3. Cardinality(up) <= Cardinality(both \ {e})
        BY <3>1, <3>2, FS_Subset
      <3>4. QED
        BY <1>11, <3>1, <3>2, <3>3
    <2>6. before = skip /\ size <= L
      BY <1>6, <1>7, <2>3, <2>5
    <2>7. skip <= rank /\ rank < skip + L
      BY <2>3, <2>5, <2>6
    <2>8. QED
      BY <1>1, <1>4, <1>5, <1>11, <1>15, <2>7
  <1>16. CASE e \notin A \cup P
    <2>1. A \cup P \subseteq up
      <3> SUFFICES ASSUME NEW f \in A \cup P  PROVE  f \in up
        OBVIOUS
      <3>1. at[f] >= at[e] /\ f # e /\ f \in there
        BY <1>2, <1>8, <1>9, <1>16 DEF Newer
      <3>2. at[f] # at[e]
        BY <1>2, <3>1 DEF Distinct
      <3>3. QED
        BY <1>2, <1>10, <3>1, <3>2 DEF Above
    <2>2. before + size <= rank
      BY <1>11, <1>12, <1>13, <2>1, FS_Subset
    <2>3. rank < n
      BY <1>2, <1>3, <1>11, RankIs
    <2>4. before = skip /\ size = L
      BY <1>6, <1>7, <2>2, <2>3
    <2>5. ~(rank < skip + L)
      BY <2>2, <2>4
    <2>6. QED
      BY <1>1, <1>4, <1>5, <1>11, <1>16, <2>5
  <1>17. QED
    BY <1>14, <1>15, <1>16

\* After the last page nothing is left.
LEMMA LastPage ==
  ASSUME NEW n \in Nat, NEW p \in Nat \ {0}, ~(p < TotalPages(n))
  PROVE  n <= p * PageLimit
  <1>1. PICK L \in Nat \ {0} : L = PageLimit
    BY PagedAssumption
  <1>2. PICK q \in Int : q = (n + L - 1) \div L
    OBVIOUS
  <1>3. n + L - 1 < q * L + L
    BY <1>2
  <1>4. q <= p
    BY <1>1, <1>2 DEF TotalPages
  <1>5. q * L <= p * L
    BY <1>4
  <1>6. p * L \in Int /\ q * L \in Int
    OBVIOUS
  <1>7. QED
    BY <1>1, <1>3, <1>5, <1>6

LEMMA SkipNext ==
  ASSUME NEW p \in Nat \ {0}
  PROVE  Skip(p) + PageLimit = p * PageLimit /\ Skip(p + 1) = p * PageLimit
         /\ Skip(p) \in Nat /\ p * PageLimit \in Nat
  <1>1. PICK L \in Nat : L = PageLimit
    BY PagedAssumption
  <1>2. (p - 1) * L + L = p * L
    OBVIOUS
  <1>3. p + 1 - 1 = p /\ p - 1 \in Nat
    OBVIOUS
  <1>4. (p - 1) * L \in Nat /\ p * L \in Nat
    BY <1>3
  <1>5. QED
    BY <1>1, <1>2, <1>3, <1>4 DEF Skip

LEMMA ShowType ==
  ASSUME PagedType, NEW P, Show(P)
  PROVE  /\ shown' \in [1..EntriesBound -> Nat]
         /\ \A e \in 1..EntriesBound : shown'[e] = IF e \in P THEN shown[e] + 1 ELSE shown[e]
  BY DEF PagedType, Show

\* An entry is passed when its page was shown.
LEMMA PagePassed ==
  ASSUME PagedInv, walk = "asking", "delete" \notin moved, Distinct(There, at),
         NEW P \in Pages(page), Show(P), NEW e \in onList
  PROVE  Passed(shown'[e], Rank(e, There, at), page * PageLimit, moved)
  <1>1. PagedType /\ page \in Nat \ {0}
    BY DEF PagedInv, PagedType
  <1>2. e \in There /\ Passed(shown[e], Rank(e, There, at), Skip(page), moved)
    BY DEF PagedInv, Seen
  <1>3. PICK rank \in Nat : rank = Rank(e, There, at)
    BY <1>1, <1>2, ThereIs, RankIs
  <1>4. PICK first \in Nat, next \in Nat :
          first = Skip(page) /\ next = page * PageLimit /\ next = first + PageLimit
    BY <1>1, SkipNext
  <1>5. e \in P <=> first <= rank /\ rank < next
    BY <1>1, <1>2, <1>3, <1>4, PageIs
  <1>6. e \in 1..EntriesBound /\ shown[e] \in Nat
    BY <1>1, <1>2, ThereIs DEF PagedType
  <1>7. shown'[e] = IF e \in P THEN shown[e] + 1 ELSE shown[e]
    BY <1>1, <1>6, ShowType
  <1>8. Passed(shown[e], rank, first, moved)
    BY <1>2, <1>3, <1>4
  <1>9. first < next
    BY <1>4, PagedAssumption
  <1>10. Passed(shown'[e], rank, next, moved)
    <2>1. shown'[e] = 0 => rank >= next
      BY <1>3, <1>4, <1>5, <1>6, <1>7, <1>8 DEF Passed
    <2>2. moved = {} => shown'[e] = IF rank < next THEN 1 ELSE 0
      BY <1>3, <1>4, <1>5, <1>6, <1>7, <1>8, <1>9 DEF Passed
    <2>3. QED
      BY <2>1, <2>2 DEF Passed
  <1>11. QED
    BY <1>3, <1>4, <1>10

\* The client turns the page, or has seen everything.
LEMMA PageTurned ==
  ASSUME PagedType, NEW e \in There, NEW count \in Nat,
         Passed(count, Rank(e, There, at), page * PageLimit, moved),
         TurnPage(Cardinality(There))
  PROVE  Seen(walk', page', moved, Rank(e, There, at), count)
  <1>1. PICK rank \in Nat, n \in Nat :
          rank = Rank(e, There, at) /\ n = Cardinality(There) /\ rank < n
    BY ThereIs, RankIs, FS_CardinalityType
  <1>2. page \in Nat \ {0}
    BY DEF PagedType
  <1>3. PICK next \in Nat : next = page * PageLimit /\ Skip(page + 1) = next
    BY <1>2, SkipNext
  <1>4. Passed(count, rank, next, moved)
    BY <1>1, <1>3
  <1>5. CASE page < TotalPages(n)
    <2>1. walk' = "asking" /\ page' = page + 1
      BY <1>1, <1>5 DEF TurnPage
    <2>2. Skip(page') = next
      BY <1>3, <2>1
    <2>3. QED
      BY <1>1, <1>4, <2>1, <2>2 DEF Seen
  <1>6. CASE ~(page < TotalPages(n))
    <2>1. walk' = "done" /\ page' = page
      BY <1>1, <1>6 DEF TurnPage
    <2>2. n <= next
      BY <1>2, <1>3, <1>6, LastPage
    <2>3. rank < next
      BY <1>1, <2>2
    <2>4. count >= 1 /\ (moved = {} => count = 1)
      BY <1>4, <2>3 DEF Passed
    <2>5. QED
      BY <2>1, <2>4 DEF Seen
  <1>7. QED
    BY <1>5, <1>6

LEMMA TurnType ==
  ASSUME PagedType, NEW n, TurnPage(n)
  PROVE  /\ page' \in Nat \ {0} /\ walk' \in {"asking", "done"}
  BY DEF PagedType, TurnPage

\* A request that shows a page and learns the total with it.
LEMMA AskStep ==
  ASSUME PagedInv, walk = "asking", NEW P \in Pages(page), Show(P),
         TurnPage(Cardinality(There)), UNCHANGED <<list, at, gone, onList, moved>>
  PROVE  PagedInv'
  <1>1. PagedType
    BY DEF PagedInv
  <1>2. shown' \in [1..EntriesBound -> Nat]
    BY <1>1, ShowType
  <1>3. page' \in Nat \ {0} /\ walk' \in {"asking", "done"}
    BY <1>1, TurnType
  <1>4. PagedType'
    BY <1>1, <1>2, <1>3 DEF PagedType
  <1>5. There' = There
    BY DEF There
  <1>6. ASSUME "delete" \notin moved
        PROVE  /\ onList \subseteq There
               /\ Distinct(There, at) =>
                    \A e \in onList : Seen(walk', page', moved, Rank(e, There, at), shown'[e])
    <2>1. onList \subseteq There
      BY <1>6 DEF PagedInv
    <2>2. ASSUME Distinct(There, at), NEW e \in onList
          PROVE  Seen(walk', page', moved, Rank(e, There, at), shown'[e])
      <3>1. Passed(shown'[e], Rank(e, There, at), page * PageLimit, moved)
        BY <1>6, <2>2, PagePassed
      <3>2. e \in There /\ shown'[e] \in Nat
        BY <1>1, <1>2, <2>1, ThereIs
      <3>3. PICK count \in Nat : count = shown'[e]
        BY <3>2
      <3>4. Passed(count, Rank(e, There, at), page * PageLimit, moved)
        BY <3>1, <3>3
      <3>5. Seen(walk', page', moved, Rank(e, There, at), count)
        BY <1>1, <3>2, <3>4, PageTurned
      <3>6. QED
        BY <3>3, <3>5
    <2>3. QED
      BY <2>1, <2>2
  <1>7. QED
    BY <1>3, <1>4, <1>5, <1>6 DEF PagedInv

LEMMA AllPromptsStep ==
  ASSUME PagedInv, walk = "asking", page = 1, Show(There), walk' = "done", page' = page,
         UNCHANGED <<list, at, gone, onList, moved>>
  PROVE  PagedInv'
  <1>1. PagedType
    BY DEF PagedInv
  <1>2. shown' \in [1..EntriesBound -> Nat]
    BY <1>1, ShowType
  <1>3. PagedType'
    BY <1>1, <1>2 DEF PagedType
  <1>4. There' = There
    BY DEF There
  <1>5. Skip(1) = 0
    BY PagedAssumption DEF Skip
  <1>6. ASSUME "delete" \notin moved
        PROVE  /\ onList \subseteq There
               /\ Distinct(There, at) =>
                    \A e \in onList : Seen("done", page', moved, Rank(e, There, at), shown'[e])
    <2>1. onList \subseteq There
      BY <1>6 DEF PagedInv
    <2>2. ASSUME Distinct(There, at), NEW e \in onList
          PROVE  Seen("done", page', moved, Rank(e, There, at), shown'[e])
      <3>1. e \in There /\ e \in 1..EntriesBound /\ shown[e] \in Nat
        BY <1>1, <2>1, ThereIs DEF PagedType
      <3>2. PICK rank \in Nat : rank = Rank(e, There, at)
        BY <1>1, <3>1, ThereIs, RankIs
      <3>3. Passed(shown[e], rank, 0, moved)
        BY <1>5, <1>6, <2>2, <3>2 DEF PagedInv, Seen
      <3>4. shown'[e] = shown[e] + 1
        BY <1>1, <3>1, ShowType
      <3>5. shown'[e] >= 1 /\ (moved = {} => shown'[e] = 1)
        BY <3>1, <3>2, <3>3, <3>4 DEF Passed
      <3>6. QED
        BY <3>5 DEF Seen
    <2>3. QED
      BY <2>1, <2>2
  <1>7. QED
    BY <1>3, <1>4, <1>6 DEF PagedInv

LEMMA CompaniesStep ==
  ASSUME PagedInv, AskCompanies
  PROVE  PagedInv'
  <1>1. /\ walk = "asking" /\ walk' = "counting"
        /\ UNCHANGED <<list, at, gone, page, onList, moved>>
    BY DEF AskCompanies
  <1>2. PICK P \in Pages(page) : Show(P)
    BY DEF AskCompanies
  <1>3. PagedType
    BY DEF PagedInv
  <1>4. PagedType'
    BY <1>1, <1>2, <1>3, ShowType DEF PagedType
  <1>5. There' = There
    BY <1>1 DEF There
  <1>6. ASSUME "delete" \notin moved
        PROVE  /\ onList \subseteq There
               /\ Distinct(There, at) =>
                    \A e \in onList : Seen("counting", page, moved, Rank(e, There, at), shown'[e])
    <2>1. onList \subseteq There
      BY <1>1, <1>6 DEF PagedInv
    <2>2. ASSUME Distinct(There, at), NEW e \in onList
          PROVE  Seen("counting", page, moved, Rank(e, There, at), shown'[e])
      <3>1. Passed(shown'[e], Rank(e, There, at), page * PageLimit, moved)
        BY <1>1, <1>2, <1>6, <2>2, PagePassed
      <3>2. QED
        BY <3>1 DEF Seen
    <2>3. QED
      BY <2>1, <2>2
  <1>7. QED
    BY <1>1, <1>4, <1>5, <1>6 DEF PagedInv

LEMMA CountStep ==
  ASSUME PagedInv, CountCompanies
  PROVE  PagedInv'
  <1>1. /\ walk = "counting" /\ TurnPage(Cardinality(There))
        /\ UNCHANGED <<list, at, gone, shown, onList, moved>>
    BY DEF CountCompanies
  <1>2. PagedType
    BY DEF PagedInv
  <1>3. page' \in Nat \ {0} /\ walk' \in {"asking", "done"}
    BY <1>1, <1>2, TurnType
  <1>4. PagedType'
    BY <1>1, <1>2, <1>3 DEF PagedType
  <1>5. There' = There
    BY <1>1 DEF There
  <1>6. ASSUME "delete" \notin moved
        PROVE  /\ onList \subseteq There
               /\ Distinct(There, at) =>
                    \A e \in onList : Seen(walk', page', moved, Rank(e, There, at), shown[e])
    <2>1. onList \subseteq There
      BY <1>1, <1>6 DEF PagedInv
    <2>2. ASSUME Distinct(There, at), NEW e \in onList
          PROVE  Seen(walk', page', moved, Rank(e, There, at), shown[e])
      <3>1. Passed(shown[e], Rank(e, There, at), page * PageLimit, moved)
        BY <1>1, <1>6, <2>2 DEF PagedInv, Seen
      <3>2. e \in There /\ shown[e] \in Nat
        BY <1>2, <2>1, ThereIs DEF PagedType
      <3>3. QED
        BY <1>1, <1>2, <3>1, <3>2, PageTurned
    <2>3. QED
      BY <2>1, <2>2
  <1>7. QED
    BY <1>1, <1>3, <1>4, <1>5, <1>6 DEF PagedInv

\* A new entry is in nobody's way: the ranks of the others grow, if they change.
LEMMA AddStep ==
  ASSUME PagedInv, AddEntry
  PROVE  PagedInv'
  <1>1. PICK t \in Nat : at' = Append(at, t)
    <2>1. PICK t \in IF at = <<>> THEN {0} ELSE {at[Len(at)], at[Len(at)] + 1} :
            at' = Append(at, t)
      BY DEF AddEntry
    <2>2. at \in Seq(Nat)
      BY DEF PagedInv, PagedType
    <2>3. t \in Nat
      BY <2>1, <2>2
    <2>4. QED
      BY <2>1, <2>3
  <1>2. /\ Len(at) < EntriesBound /\ UNCHANGED <<list, gone, walk, page, shown, onList>>
        /\ moved' = IF walk = "out" THEN {} ELSE moved \cup {"add"}
    BY DEF AddEntry
  <1>3. PagedType /\ at \in Seq(Nat) /\ Len(at) \in Nat /\ DOMAIN at = 1..Len(at)
    BY DEF PagedInv, PagedType
  <1>4. /\ at' \in Seq(Nat) /\ Len(at') = Len(at) + 1 /\ DOMAIN at' = 1..(Len(at) + 1)
        /\ \A e \in 1..Len(at) : at'[e] = at[e]
    BY <1>1, <1>3
  <1>5. PagedType'
    <2>1. Len(at') <= EntriesBound
      BY <1>2, <1>3, <1>4, PagedAssumption
    <2>2. DOMAIN at \subseteq DOMAIN at'
      BY <1>3, <1>4
    <2>3. QED
      BY <1>2, <1>3, <1>4, <2>1, <2>2 DEF PagedType
  <1>6. There \subseteq There'
    BY <1>2, <1>3, <1>4 DEF There
  <1>7. \A e \in There : at'[e] = at[e]
    BY <1>3, <1>4, ThereIs
  <1>8. Distinct(There', at') => Distinct(There, at)
    BY <1>6, <1>7 DEF Distinct
  <1>9. ASSUME NEW e \in There
        PROVE  Rank(e, There, at) <= Rank(e, There', at')
               /\ Rank(e, There, at) \in Nat /\ Rank(e, There', at') \in Nat
    <2>1. Above(e, There, at) \subseteq Above(e, There', at')
      BY <1>6, <1>7, <1>9 DEF Above
    <2>2. IsFiniteSet(There') /\ \A f \in There' : at'[f] \in Nat
      <3>1. DOMAIN at' = 1..Len(at') /\ Len(at') \in Nat
        BY <1>3, <1>4
      <3>2. IsFiniteSet(DOMAIN at')
        BY <3>1, FS_Interval
      <3>3. There' \subseteq DOMAIN at'
        BY DEF There
      <3>4. \A f \in DOMAIN at' : at'[f] \in Nat
        BY <1>4
      <3>5. QED
        BY <3>2, <3>3, <3>4, FS_Subset
    <2>3. PICK there2, times2 : there2 = There' /\ times2 = at'
      OBVIOUS
    <2>4. e \in there2 /\ IsFiniteSet(there2) /\ \A f \in there2 : times2[f] \in Nat
      BY <1>6, <1>9, <2>2, <2>3
    <2>5. Rank(e, there2, times2) \in Nat /\ IsFiniteSet(Above(e, there2, times2))
      BY <2>4, RankIs
    <2>6. Rank(e, There, at) \in Nat
      BY <1>3, <1>9, ThereIs, RankIs
    <2>7. Cardinality(Above(e, There, at)) <= Cardinality(Above(e, there2, times2))
      BY <2>1, <2>3, <2>5, FS_Subset
    <2>8. QED
      BY <2>3, <2>5, <2>6, <2>7 DEF Rank
  <1>10. ASSUME walk # "out", "delete" \notin moved'
         PROVE  /\ onList \subseteq There'
                /\ Distinct(There', at') =>
                     \A e \in onList :
                       Seen(walk, page, moved', Rank(e, There', at'), shown[e])
    <2>1. "delete" \notin moved /\ moved' # {}
      BY <1>2, <1>10
    <2>2. onList \subseteq There
      BY <1>10, <2>1 DEF PagedInv
    <2>3. ASSUME Distinct(There', at'), NEW e \in onList
          PROVE  Seen(walk, page, moved', Rank(e, There', at'), shown[e])
      <3>1. Seen(walk, page, moved, Rank(e, There, at), shown[e])
        BY <1>8, <1>10, <2>1, <2>3 DEF PagedInv
      <3>2. PICK rank \in Nat, rank2 \in Nat :
              rank = Rank(e, There, at) /\ rank2 = Rank(e, There', at') /\ rank <= rank2
        BY <1>9, <2>2
      <3>3. Skip(page) \in Nat /\ page * PageLimit \in Nat
        BY <1>3, SkipNext DEF PagedType
      <3>4. \A place \in Nat : Passed(shown[e], rank, place, moved)
                                 => Passed(shown[e], rank2, place, moved')
        BY <2>1, <3>2 DEF Passed
      <3>5. Seen(walk, page, moved, rank, shown[e])
        BY <3>1, <3>2
      <3>6. Seen(walk, page, moved', rank2, shown[e])
        BY <2>1, <3>3, <3>4, <3>5 DEF Seen
      <3>7. QED
        BY <3>2, <3>6
    <2>4. QED
      BY <1>6, <2>2, <2>3
  <1>11. QED
    BY <1>2, <1>5, <1>10 DEF PagedInv

LEMMA DeleteStep ==
  ASSUME PagedInv, NEW entries \in SUBSET There, Delete(entries)
  PROVE  PagedInv'
  <1>1. /\ gone' = gone \cup entries /\ UNCHANGED <<list, at, walk, page, shown, onList>>
        /\ moved' = IF walk = "out" THEN {} ELSE moved \cup {"delete"}
    BY DEF Delete
  <1>2. gone' \subseteq DOMAIN at
    BY <1>1 DEF There, PagedInv, PagedType
  <1>3. PagedType'
    BY <1>1, <1>2 DEF PagedInv, PagedType
  <1>4. QED
    BY <1>1, <1>3 DEF PagedInv

LEMMA StartStep ==
  ASSUME PagedInv, StartWalk
  PROVE  PagedInv'
  <1>1. /\ walk = "out" /\ walk' = "asking" /\ onList' = There
        /\ UNCHANGED <<list, at, gone, page, shown, moved>>
    BY DEF StartWalk
  <1>2. /\ PagedType /\ shown = [e \in 1..EntriesBound |-> 0] /\ page = 1
    BY <1>1 DEF PagedInv
  <1>3. PagedType'
    BY <1>1, <1>2 DEF PagedType
  <1>4. There' = There
    BY <1>1 DEF There
  <1>5. Skip(1) = 0
    BY PagedAssumption DEF Skip
  <1>6. ASSUME NEW e \in There
        PROVE  Seen("asking", page, moved, Rank(e, There, at), shown[e])
    <2>1. PICK rank \in Nat : rank = Rank(e, There, at)
      BY <1>2, ThereIs, RankIs
    <2>2. shown[e] = 0
      BY <1>2, ThereIs
    <2>3. Passed(0, rank, 0, moved)
      BY DEF Passed
    <2>4. QED
      BY <1>2, <1>5, <2>1, <2>2, <2>3 DEF Seen
  <1>7. QED
    BY <1>1, <1>3, <1>4, <1>6 DEF PagedInv

LEMMA PagedCorrect == PagedSpec => []PagedInv
  <1>1. PagedInit => PagedInv
    <2>0. SUFFICES ASSUME PagedInit  PROVE  PagedInv
      OBVIOUS
    <2>1. PagedType
      BY <2>0, PagedAssumption DEF PagedInit, PagedType
    <2>2. QED
      BY <2>0, <2>1 DEF PagedInit, PagedInv
  <1>2. PagedInv /\ [PagedNext]_pagedVars => PagedInv'
    <2>0. SUFFICES ASSUME PagedInv, [PagedNext]_pagedVars  PROVE  PagedInv'
      OBVIOUS
    <2>1. CASE OpenList
      BY <2>0, <2>1 DEF OpenList, PagedInv, PagedType, There
    <2>2. CASE StartWalk
      BY <2>0, <2>2, StartStep
    <2>3. CASE CreatePrompt \/ CreateReason \/ CreateOther
      BY <2>0, <2>3, AddStep DEF CreatePrompt, CreateReason, CreateOther
    <2>4. CASE DeleteNotifications \/ DeletePrompt \/ DeleteReason
      <3>1. PICK entries \in SUBSET There : Delete(entries)
        BY <2>4 DEF DeleteNotifications, DeletePrompt, DeleteReason
      <3>2. QED
        BY <2>0, <3>1, DeleteStep
    <2>5. CASE AskNotifications \/ AskReasons \/ AskPrompts
      <3>1. walk = "asking" /\ UNCHANGED <<list, at, gone, onList, moved>>
        BY <2>5 DEF AskNotifications, AskReasons, AskPrompts
      <3>2. CASE (\E P \in Pages(page) : Show(P)) /\ TurnPage(Cardinality(There))
        BY <2>0, <3>1, <3>2, AskStep
      <3>3. CASE page = 1 /\ Show(There) /\ walk' = "done" /\ page' = page
        BY <2>0, <3>1, <3>3, AllPromptsStep
      <3>4. QED
        BY <2>5, <3>2, <3>3 DEF AskNotifications, AskReasons, AskPrompts
    <2>6. CASE AskCompanies
      BY <2>0, <2>6, CompaniesStep
    <2>7. CASE CountCompanies
      BY <2>0, <2>7, CountStep
    <2>8. CASE UNCHANGED pagedVars
      BY <2>0, <2>8 DEF pagedVars, PagedInv, PagedType, There
    <2>9. QED
      BY <2>0, <2>1, <2>2, <2>3, <2>4, <2>5, <2>6, <2>7, <2>8 DEF PagedNext
  <1>3. QED
    BY <1>1, <1>2, PTL DEF PagedSpec

\* Who walks through the pages of a list sees every entry that was there when
\* the walk began unless one is deleted, and once unless one is added: pages of
\* any size, lists of any length, entries added at any moment, and whichever
\* order the database gives ($sort, $skip and $limit of the paged queries).
THEOREM WalkShowsEach == PagedSpec => []PagesShowEach
  <1>1. PagedInv => PagesShowEach
    <2>0. SUFFICES ASSUME PagedInv, walk = "done", "delete" \notin moved,
                          \A e, f \in There : at[e] = at[f] => e = f, NEW e \in onList
                   PROVE  shown[e] >= 1 /\ (moved = {} => shown[e] = 1)
      BY DEF PagesShowEach
    <2>1. Distinct(There, at)
      BY <2>0 DEF Distinct
    <2>2. QED
      BY <2>0, <2>1 DEF PagedInv, Seen
  <1>2. QED
    BY <1>1, PagedCorrect, PTL

-----------------------------------------------------------------------------
(* AthenaQuery: results of any length, cut into any pages.                  *)

\* After m rows of a result of n data rows (the header is row 0): what is
\* left, the row that names the columns, and the records made.
Left(n, m) == [i \in 1..(n + 1 - m) |-> m + i - 1]
Named(m) == IF m = 0 THEN {} ELSE {{0}}
Made(m) == [i \in 1..(IF m = 0 THEN 0 ELSE m - 1) |-> i]

WithHeader ==
    \E m \in 0..(rows + 1) :
        /\ unread = Left(rows, m) /\ columns = Named(m) /\ records = Made(m)
        /\ query = "wait" => m = 0
        /\ query = "done" => m = rows + 1

\* The result has no rows at all, not even a header.
NoRows == /\ rows = 0 /\ unread = <<>> /\ records = <<>>
          /\ columns \in {{}, {{}}} /\ (query = "done" => columns = {{}})

FetchedInv ==
    /\ query = "idle" => columns = {} /\ records = <<>>
    /\ query \in {"wait", "fetch", "done"} => rows \in Nat /\ (WithHeader \/ NoRows)

LEMMA SameSeq ==
  ASSUME NEW S, NEW s \in Seq(S), NEW n \in Nat, Len(s) = n, NEW f,
         f = [i \in 1..n |-> f[i]], \A i \in 1..n : s[i] = f[i]
  PROVE  s = f
  <1>1. DOMAIN s = 1..n /\ s = [i \in 1..n |-> s[i]]
    BY LenProperties
  <1>2. QED
    BY <1>1, Zenon

LEMMA PageLeft ==
  ASSUME NEW n \in Nat, NEW m \in 0..(n + 1), NEW k \in 1..(n + 1 - m)
  PROVE  /\ Len(Left(n, m)) = n + 1 - m
         /\ SubSeq(Left(n, m), 1, k) = [i \in 1..k |-> m + i - 1]
         /\ SubSeq(Left(n, m), k + 1, n + 1 - m) = Left(n, m + k)
  <1>1. PICK s : s = Left(n, m)
    OBVIOUS
  <1>2. PICK l \in Nat : l = n + 1 - m
    OBVIOUS
  <1>3. s = [i \in 1..l |-> m + i - 1] /\ k \in 1..l
    BY <1>1, <1>2 DEF Left
  <1>4. s \in Seq(Int) /\ Len(s) = l /\ \A i \in 1..l : s[i] = m + i - 1
    BY <1>3
  <1>5. SubSeq(s, 1, k) = [i \in 1..k |-> m + i - 1]
    <2>1. /\ SubSeq(s, 1, k) \in Seq(Int) /\ Len(SubSeq(s, 1, k)) = k
          /\ \A i \in 1..k : SubSeq(s, 1, k)[i] = s[i]
      BY <1>3, <1>4
    <2>2. \A i \in 1..k : SubSeq(s, 1, k)[i] = m + i - 1
      BY <1>3, <1>4, <2>1
    <2>3. PICK f : f = [i \in 1..k |-> m + i - 1]
      OBVIOUS
    <2>4. QED
      BY <2>1, <2>2, <2>3, SameSeq
  <1>6. SubSeq(s, k + 1, l) = Left(n, m + k)
    <2>1. PICK r \in Nat : r = l - k
      BY <1>3
    <2>2. /\ SubSeq(s, k + 1, l) \in Seq(Int) /\ Len(SubSeq(s, k + 1, l)) = r
          /\ \A i \in 1..r : SubSeq(s, k + 1, l)[i] = s[k + i]
      BY <1>3, <1>4, <2>1
    <2>3. \A i \in 1..r : SubSeq(s, k + 1, l)[i] = m + k + i - 1
      BY <1>3, <1>4, <2>1, <2>2
    <2>4. n + 1 - (m + k) = r
      BY <1>2, <2>1
    <2>5. SubSeq(s, k + 1, l) = [i \in 1..r |-> m + k + i - 1]
      <3>1. PICK f, t : f = [i \in 1..r |-> m + k + i - 1] /\ t = SubSeq(s, k + 1, l)
        OBVIOUS
      <3>2. t \in Seq(Int) /\ Len(t) = r /\ \A i \in 1..r : t[i] = f[i]
        BY <2>2, <2>3, <3>1
      <3>3. f = [i \in 1..r |-> f[i]]
        BY <3>1
      <3>4. t = f
        BY <3>2, <3>3, SameSeq
      <3>5. QED
        BY <3>1, <3>4
    <2>6. QED
      BY <2>4, <2>5 DEF Left
  <1>7. QED
    BY <1>1, <1>2, <1>4, <1>5, <1>6

LEMMA PageMade ==
  ASSUME NEW m \in Nat, NEW k \in Nat \ {0}, NEW cut,
         cut = [i \in 1..k |-> m + i - 1]
  PROVE  /\ m = 0 => Made(m) \o Tail(cut) = Made(m + k) /\ Head(cut) = 0
         /\ m # 0 => Made(m) \o cut = Made(m + k)
  <1>1. cut \in Seq(Int) /\ Len(cut) = k /\ \A i \in 1..k : cut[i] = m + i - 1
    OBVIOUS
  <1>2. ASSUME m = 0
        PROVE  Made(m) \o Tail(cut) = Made(m + k) /\ Head(cut) = 0
    <2>1. Made(m) = <<>>
      BY <1>2 DEF Made
    <2>2. PICK r \in Nat : r = k - 1
      OBVIOUS
    <2>3. /\ Tail(cut) \in Seq(Int) /\ Len(Tail(cut)) = r
          /\ \A i \in 1..r : Tail(cut)[i] = cut[i + 1]
      BY <1>1, <2>2
    <2>4. \A i \in 1..r : Tail(cut)[i] = i
      BY <1>1, <1>2, <2>2, <2>3
    <2>5. Tail(cut) = [i \in 1..r |-> i]
      <3>1. PICK f, t : f = [i \in 1..r |-> i] /\ t = Tail(cut)
        OBVIOUS
      <3>2. t \in Seq(Int) /\ Len(t) = r /\ \A i \in 1..r : t[i] = f[i]
        BY <2>3, <2>4, <3>1
      <3>3. f = [i \in 1..r |-> f[i]]
        BY <3>1
      <3>4. t = f
        BY <3>2, <3>3, SameSeq
      <3>5. QED
        BY <3>1, <3>4
    <2>6. Made(m + k) = [i \in 1..r |-> i]
      BY <1>2, <2>2 DEF Made
    <2>7. <<>> \o Tail(cut) = Tail(cut)
      BY <2>3
    <2>8. Head(cut) = 0
      BY <1>1, <1>2
    <2>9. QED
      BY <2>1, <2>5, <2>6, <2>7, <2>8
  <1>3. ASSUME m # 0
        PROVE  Made(m) \o cut = Made(m + k)
    <2>1. PICK d \in Nat : d = m - 1
      BY <1>3
    <2>2. Made(m) = [i \in 1..d |-> i]
      BY <1>3, <2>1 DEF Made
    <2>3. PICK made : made = Made(m)
      OBVIOUS
    <2>4. made \in Seq(Int) /\ Len(made) = d /\ \A i \in 1..d : made[i] = i
      BY <2>2, <2>3
    <2>5. /\ made \o cut \in Seq(Int) /\ Len(made \o cut) = d + k
          /\ \A i \in 1..(d + k) : (made \o cut)[i] = IF i <= d THEN made[i] ELSE cut[i - d]
      <3>1. made \in Seq(Int) /\ cut \in Seq(Int) /\ Len(made) = d /\ Len(cut) = k
        BY <1>1, <2>4
      <3>2. /\ made \o cut \in Seq(Int) /\ Len(made \o cut) = Len(made) + Len(cut)
            /\ \A i \in 1..(Len(made) + Len(cut)) :
                 (made \o cut)[i] = IF i <= Len(made) THEN made[i] ELSE cut[i - Len(made)]
        BY <3>1, ConcatProperties, Zenon
      <3>3. QED
        BY <3>1, <3>2, Zenon
    <2>6. \A i \in 1..(d + k) : (made \o cut)[i] = i
      <3> TAKE i \in 1..(d + k)
      <3>1. CASE i <= d
        BY <2>4, <2>5, <3>1
      <3>2. CASE ~(i <= d)
        <4>1. i - d \in 1..k
          BY <3>2
        <4>2. cut[i - d] = m + (i - d) - 1
          BY <1>1, <4>1
        <4>3. (made \o cut)[i] = cut[i - d]
          BY <2>5, <3>2
        <4>4. m + (i - d) - 1 = i
          BY <2>1
        <4>5. QED
          BY <4>2, <4>3, <4>4
      <3>3. QED
        BY <3>1, <3>2
    <2>7. made \o cut = [i \in 1..(d + k) |-> i]
      <3>1. PICK e \in Nat : e = d + k
        OBVIOUS
      <3>2. PICK f, t : f = [i \in 1..e |-> i] /\ t = made \o cut
        OBVIOUS
      <3>3. t \in Seq(Int) /\ Len(t) = e /\ \A i \in 1..e : t[i] = f[i]
        BY <2>5, <2>6, <3>1, <3>2
      <3>4. f = [i \in 1..e |-> f[i]]
        BY <3>2
      <3>5. t = f
        BY <3>3, <3>4, SameSeq
      <3>6. QED
        BY <3>1, <3>2, <3>5
    <2>8. Made(m + k) = [i \in 1..(d + k) |-> i]
      BY <1>3, <2>1 DEF Made
    <2>9. QED
      BY <2>3, <2>7, <2>8
  <1>4. QED
    BY <1>2, <1>3

LEMMA FetchStep ==
  ASSUME FetchedInv, FetchPage
  PROVE  FetchedInv'
  <1>1. CASE query' = "failed"
    BY <1>1 DEF FetchedInv
  <1>2. CASE \E k \in 0..Len(unread) :
            LET cut == SubSeq(unread, 1, k) IN
              /\ columns = {} /\ unread # <<>> => k > 0
              /\ records' = records \o DataRows(cut)
              /\ columns' = IF columns = {} THEN {Header(cut)} ELSE columns
              /\ unread' = SubSeq(unread, k + 1, Len(unread))
              /\ query' \in IF unread' = <<>> THEN {"fetch", "done"} ELSE {"fetch"}
    <2>0. PICK k \in 0..Len(unread) :
            LET cut == SubSeq(unread, 1, k) IN
              /\ columns = {} /\ unread # <<>> => k > 0
              /\ records' = records \o DataRows(cut)
              /\ columns' = IF columns = {} THEN {Header(cut)} ELSE columns
              /\ unread' = SubSeq(unread, k + 1, Len(unread))
              /\ query' \in IF unread' = <<>> THEN {"fetch", "done"} ELSE {"fetch"}
      BY <1>2
    <2>1. PICK cut :
              /\ cut = SubSeq(unread, 1, k)
              /\ columns = {} /\ unread # <<>> => k > 0
              /\ records' = records \o DataRows(cut)
              /\ columns' = IF columns = {} THEN {Header(cut)} ELSE columns
              /\ unread' = SubSeq(unread, k + 1, Len(unread))
              /\ query' \in {"fetch", "done"} /\ (query' = "done" => unread' = <<>>)
      <3>1. query' \in {"fetch", "done"} /\ (query' = "done" => unread' = <<>>)
        BY <2>0
      <3>2. QED
        BY <2>0, <3>1
    <2>2. query = "fetch" /\ rows' = rows /\ rows \in Nat
      BY DEF FetchPage, FetchedInv
    <2>3. CASE NoRows
      <3>1. unread = <<>> /\ Len(unread) = 0 /\ k = 0
        BY <2>1, <2>3 DEF NoRows
      <3>2. cut = <<>> /\ unread' = <<>>
        BY <2>1, <3>1
      <3>3. records' = <<>> /\ columns' = {{}}
        <4>1. DataRows(cut) = <<>> /\ Header(cut) = {}
          BY <3>2 DEF DataRows, Header
        <4>2. records' = <<>> \o <<>>
          BY <2>1, <2>3, <4>1 DEF NoRows
        <4>3. columns' = {{}}
          BY <2>1, <2>3, <4>1 DEF NoRows
        <4>4. QED
          BY <4>2, <4>3
      <3>4. QED
        BY <2>1, <2>2, <2>3, <3>2, <3>3 DEF FetchedInv, NoRows
    <2>4. CASE WithHeader
      <3>1. PICK n \in Nat : n = rows
        BY <2>2
      <3>2. PICK m \in 0..(n + 1) :
              unread = Left(n, m) /\ columns = Named(m) /\ records = Made(m)
        BY <2>4, <3>1 DEF WithHeader
      <3>3. Len(unread) = n + 1 - m
        BY <3>2 DEF Left
      <3>4. columns = {} <=> m = 0
        BY <3>2 DEF Named
      <3>5. m = 0 => k # 0
        <4>1. m = 0 => Len(unread) # 0
          BY <3>3
        <4>2. m = 0 => unread # <<>>
          BY <4>1
        <4>3. QED
          BY <2>1, <3>4, <4>2
      <3>6. /\ k \in 0..(n + 1 - m) /\ m \in Nat /\ m + k \in 0..(n + 1)
            /\ k = 0 => m + k = m
        BY <2>1, <3>3
      <3>7. /\ unread' = Left(n, m + k) /\ records' = Made(m + k)
            /\ columns' = Named(m + k)
        <4>1. CASE k = 0
          <5>1. m # 0
            BY <3>5, <4>1
          <5>2. unread \in Seq(Int) /\ records \in Seq(Int)
            BY <3>2, <3>6 DEF Left, Made
          <5>3. cut = <<>> /\ unread' = unread
            <6>1. SubSeq(unread, 1, 0) = <<>> /\ SubSeq(unread, 1, Len(unread)) = unread
              BY <5>2
            <6>2. QED
              BY <2>1, <4>1, <6>1
          <5>4. DataRows(cut) = <<>>
            BY <5>3 DEF DataRows
          <5>5. records' = records
            BY <2>1, <5>2, <5>4
          <5>6. columns' = columns
            BY <2>1, <3>4, <5>1
          <5>7. QED
            BY <3>2, <3>6, <4>1, <5>3, <5>5, <5>6
        <4>2. CASE k # 0
          <5>1. k \in 1..(n + 1 - m) /\ k \in Nat \ {0}
            BY <3>6, <4>2
          <5>2. cut = [i \in 1..k |-> m + i - 1] /\ unread' = Left(n, m + k)
            <6>1. /\ SubSeq(Left(n, m), 1, k) = [i \in 1..k |-> m + i - 1]
                  /\ SubSeq(Left(n, m), k + 1, n + 1 - m) = Left(n, m + k)
              BY <5>1, PageLeft
            <6>2. cut = SubSeq(Left(n, m), 1, k)
              BY <2>1, <3>2, Zenon
            <6>3. unread' = SubSeq(Left(n, m), k + 1, n + 1 - m)
              BY <2>1, <3>2, <3>3, Zenon
            <6>4. QED
              BY <6>1, <6>2, <6>3, Zenon
          <5>3. cut # <<>>
            BY <5>1, <5>2
          <5>4. records' = Made(m + k)
            <6>1. DataRows(cut) = IF m = 0 THEN Tail(cut) ELSE cut
              BY <3>4, <5>3 DEF DataRows
            <6>2. records' = Made(m) \o (IF m = 0 THEN Tail(cut) ELSE cut)
              BY <2>1, <3>2, <6>1
            <6>3. QED
              BY <3>6, <5>1, <5>2, <6>2, PageMade
          <5>5. columns' = Named(m + k)
            <6>1. m = 0 => Header(cut) = {0}
              BY <3>6, <5>1, <5>2, <5>3, PageMade DEF Header
            <6>2. m + k # 0
              BY <3>6, <5>1
            <6>3. QED
              BY <2>1, <3>2, <3>4, <6>1, <6>2 DEF Named
          <5>6. QED
            BY <5>2, <5>4, <5>5
        <4>3. QED
          BY <4>1, <4>2
      <3>8. unread' = <<>> => m + k = n + 1
        <4>1. Len(Left(n, m + k)) = n + 1 - (m + k)
          BY <3>6 DEF Left
        <4>2. QED
          BY <3>6, <3>7, <4>1
      <3>9. WithHeader'
        BY <2>1, <2>2, <3>1, <3>6, <3>7, <3>8 DEF WithHeader
      <3>10. QED
        BY <2>1, <2>2, <3>9 DEF FetchedInv
    <2>5. QED
      BY <2>2, <2>3, <2>4 DEF FetchedInv
  <1>3. QED
    BY <1>1, <1>2 DEF FetchPage

\* A query that is done has made every row of the result into a record, once
\* and in order, under the names of the header: a result of any length, cut
\* into any pages (AthenaQueryService.fetchResults).  That it ends is for TLC.
THEOREM EveryRowOnce == AthenaSpec => [](query = "done" => EveryRow)
  <1>1. AthenaInit => FetchedInv
    BY DEF AthenaInit, FetchedInv
  <1>2. FetchedInv /\ [AthenaNext]_athenaVars => FetchedInv'
    <2>0. SUFFICES ASSUME FetchedInv, [AthenaNext]_athenaVars  PROVE  FetchedInv'
      OBVIOUS
    <2>1. CASE StartQuery
      <3>1. /\ query' = "wait" /\ columns' = {} /\ records' = <<>>
            /\ \/ rows' \in Nat /\ unread' = [i \in 1..(rows' + 1) |-> i - 1]
               \/ rows' = 0 /\ unread' = <<>>
        BY <2>0, <2>1, AthenaAssumption DEF StartQuery, FetchedInv
      <3>2. CASE rows' \in Nat /\ unread' = [i \in 1..(rows' + 1) |-> i - 1]
        <4>1. PICK n \in Nat : n = rows'
          BY <3>2
        <4>2. unread' = [i \in 1..(n + 1) |-> i - 1]
          BY <3>2, <4>1, Zenon
        <4>3. Left(n, 0) = [i \in 1..(n + 1) |-> i - 1] /\ 0 \in 0..(n + 1)
          BY DEF Left
        <4>4. Named(0) = {} /\ Made(0) = <<>>
          BY DEF Named, Made
        <4>5. unread' = Left(n, 0)
          BY <4>2, <4>3, Zenon
        <4>6. WithHeader'
          BY <3>1, <4>1, <4>3, <4>4, <4>5 DEF WithHeader
        <4>7. QED
          BY <3>1, <3>2, <4>6 DEF FetchedInv
      <3>3. CASE rows' = 0 /\ unread' = <<>>
        BY <3>1, <3>3 DEF FetchedInv, NoRows
      <3>4. QED
        BY <3>1, <3>2, <3>3
    <2>2. CASE Poll
      BY <2>0, <2>2 DEF Poll, StillRunning, FetchedInv, WithHeader, NoRows
    <2>3. CASE UNCHANGED athenaVars
      BY <2>0, <2>3 DEF athenaVars, FetchedInv, WithHeader, NoRows
    <2>4. QED
      BY <2>0, <2>1, <2>2, <2>3, FetchStep DEF AthenaNext, AthenaStep
  <1>3. FetchedInv => (query = "done" => EveryRow)
    <2>1. ASSUME FetchedInv, query = "done", WithHeader PROVE EveryRow
      BY <2>1 DEF FetchedInv, WithHeader, Named, Made, EveryRow
    <2>2. ASSUME FetchedInv, query = "done", NoRows PROVE EveryRow
      BY <2>2 DEF FetchedInv, NoRows, EveryRow
    <2>3. QED
      BY <2>1, <2>2 DEF FetchedInv
  <1>4. QED
    BY <1>1, <1>2, <1>3, PTL DEF AthenaSpec
=============================================================================
