----------------------- MODULE ComunicacaoSpotProofs -----------------------
(* Proofs about ComunicacaoSpot, for any number of instancias, bodies,     *)
(* saves and inserts and under every fault.                                *)
EXTENDS ComunicacaoSpot, TLAPS

LEMMA AnyBodyType == AnyBody \in Results
  BY SomeResult DEF AnyBody

LEMMA FixedDocs == Absent \in Docs /\ Marker \in Docs
  BY DEF Absent, Marker, Docs, NoInst, Origins

\* Merging a body into a document gives a document.
LEMMA MergeType ==
  ASSUME TypeOK, NEW doc \in Docs, NEW r \in Results
  PROVE  Merge(doc, r) \in Docs
  <1>1. body[r].status \in {"SUCESSO", "ERRO", "NAO_ENCONTRADO"}
    BY BodiesAssumption DEF TypeOK
  <1>2. doc.inst \in [Ids -> Origins]
    BY DEF Docs
  <1>3. [i \in Ids |-> IF i \in body[r].ids THEN r ELSE doc.inst[i]]
          \in [Ids -> Origins]
    BY <1>2 DEF Origins
  <1>4. QED
    BY <1>1, <1>3 DEF Merge, Docs

LEMMA InitType == Init => TypeOK
  BY AnyBodyType, FixedDocs DEF Init, TypeOK

LEMMA InsertType ==
  ASSUME TypeOK, NEW i \in Inserts,
         InsertCheck(i) \/ InsertPut(i) \/ InsertFails(i)
  PROVE  TypeOK'
  <1> USE DEF TypeOK, delivered, savers
  <1>1. CASE InsertCheck(i)
    BY <1>1 DEF InsertCheck
  <1>2. CASE InsertPut(i)
    BY <1>2, FixedDocs DEF InsertPut
  <1>3. CASE InsertFails(i)
    BY <1>3 DEF InsertFails
  <1>4. QED
    BY <1>1, <1>2, <1>3

LEMMA SaveType ==
  ASSUME TypeOK, NEW s \in Saves,
         \/ \E r \in Results : SaveGet(s, r)
         \/ SaveStep(s) \/ SaveFails(s) \/ OtherBranchFails(s)
  PROVE  TypeOK'
  <1> USE DEF TypeOK, savers
  <1>1. ASSUME NEW r \in Results, SaveGet(s, r)
        PROVE  TypeOK'
    BY <1>1, FixedDocs DEF SaveGet
  <1>2. Merge(old[s], sbody[s]) \in Docs
    BY MergeType
  <1>3. ASSUME Leave(s)
        PROVE  /\ spc' \in [Saves -> {"idle", "decide"}]
               /\ sbody' \in [Saves -> Results]
               /\ old' \in [Saves -> Docs]
    BY <1>3, AnyBodyType, FixedDocs DEF Leave
  <1>4. CASE SaveSkip(s)
    BY <1>4, <1>3 DEF SaveSkip
  <1>5. CASE SavePut(s)
    BY <1>5, <1>3, <1>2 DEF SavePut
  <1>6. CASE SaveFails(s)
    BY <1>6, <1>3, <1>2 DEF SaveFails
  <1>7. CASE OtherBranchFails(s)
    BY <1>7 DEF OtherBranchFails
  <1>8. QED
    BY <1>1, <1>4, <1>5, <1>6, <1>7 DEF SaveStep

LEMMA CollectorType ==
  ASSUME TypeOK, CollectorPuts PROVE TypeOK'
  <1>1. spot' \in Docs
    BY DEF CollectorPuts, Docs, Origins
  <1>2. QED
    BY <1>1 DEF TypeOK, CollectorPuts, delivered, savers

LEMMA NextType == TypeOK /\ [Next]_vars => TypeOK'
  <1> SUFFICES ASSUME TypeOK, [Next]_vars PROVE TypeOK'
    OBVIOUS
  <1>1. CASE UNCHANGED vars
    BY <1>1 DEF TypeOK, vars
  <1>2. QED
    BY <1>1, InsertType, SaveType, CollectorType DEF Next

\* Every variable keeps its type.
THEOREM TypeCorrect == Spec => []TypeOK
  BY InitType, NextType, PTL DEF Spec

-----------------------------------------------------------------------------
(* A document that says "not found" is empty.                              *)

Honest(doc) ==
    doc.status \in {"BUSCANDO", "NAO_ENCONTRADO"} => ~HasRealData(doc)

\* What decideComunicacaoSpotPersist lets through stays honest, whatever
\* document it was decided on: "not found" is merged into an empty one only.
LEMMA MergeHonest ==
  ASSUME TypeOK, NEW doc \in Docs, NEW r \in Results,
         Persists(body[r], doc)
  PROVE  Honest(Merge(doc, r))
  <1> SUFFICES ASSUME Merge(doc, r).status \in {"BUSCANDO", "NAO_ENCONTRADO"}
               PROVE  Merge(doc, r).inst = NoInst
    BY DEF Honest, HasRealData
  <1>1. body[r] \in Bodies
    BY DEF TypeOK
  <1>2. body[r].status = "NAO_ENCONTRADO"
    BY <1>1, BodiesAssumption DEF Merge
  <1>3. body[r].ids = {}
    BY <1>1, <1>2, NotFoundAssumption
  <1>4. doc.inst = NoInst
    BY <1>2 DEF Persists, HasRealData
  <1>5. QED
    BY <1>3, <1>4 DEF Merge, NoInst

\* No PUT can tell "searching" or "not found" over data, in any interleaving
\* of readers and writers, with failing GETs and PUTs and repeated deliveries.
THEOREM Honesty == Spec => []NotFoundMeansEmpty
  <1>1. Init => NotFoundMeansEmpty
    BY DEF Init, NotFoundMeansEmpty, Absent
  <1>2. TypeOK /\ NotFoundMeansEmpty /\ [Next]_vars => NotFoundMeansEmpty'
    <2> SUFFICES ASSUME TypeOK, NotFoundMeansEmpty, [Next]_vars
                 PROVE  NotFoundMeansEmpty'
      OBVIOUS
    <2>1. ASSUME NEW s \in Saves, SavePut(s) \/ SaveFails(s),
                 spot' = Merge(old[s], sbody[s])
          PROVE  NotFoundMeansEmpty'
      <3>1. Honest(Merge(old[s], sbody[s]))
        BY <2>1, MergeHonest DEF SavePut, SaveFails, TypeOK
      <3>2. QED
        BY <2>1, <3>1 DEF NotFoundMeansEmpty, Honest, HasRealData
    <2>2. ASSUME NEW i \in Inserts, InsertPut(i)
          PROVE  NotFoundMeansEmpty'
      BY <2>2 DEF InsertPut, NotFoundMeansEmpty, Marker, HasRealData
    <2>3. CASE CollectorPuts
      BY <2>3 DEF CollectorPuts, NotFoundMeansEmpty
    <2>4. CASE UNCHANGED spot
      BY <2>4 DEF NotFoundMeansEmpty, HasRealData
    <2>5. QED
      BY <2>1, <2>2, <2>3, <2>4
         DEF Next, InsertCheck, InsertFails, SaveGet, SaveStep, SaveSkip,
             SavePut, SaveFails, OtherBranchFails, vars
  <1>3. QED
    BY <1>1, <1>2, TypeCorrect, PTL DEF Spec

-----------------------------------------------------------------------------
(* The search ends.  What carries it: as long as nobody has put over what  *)
(* he had not read, data that some save has seen are still there.          *)

\* A merge keeps the instancias of the document it merges into.
LEMMA MergeKeeps ==
  ASSUME TypeOK, NEW doc \in Docs, NEW r \in Results
  PROVE  Known(doc) \subseteq Known(Merge(doc, r))
  <1>1. \A i \in Ids : Merge(doc, r).inst[i] \in {r, doc.inst[i]}
    BY DEF Merge
  <1>2. r # Nobody
    BY OriginAssumption
  <1>3. QED
    BY <1>1, <1>2 DEF Known

LEMMA DataIsKnown ==
  ASSUME NEW doc \in Docs
  PROVE  HasRealData(doc) <=> Known(doc) # {}
  <1>1. doc.inst \in [Ids -> Origins] /\ NoInst \in [Ids -> Origins]
    BY DEF Docs, NoInst, Origins
  <1>2. doc.inst = NoInst <=> \A i \in Ids : doc.inst[i] = NoInst[i]
    BY <1>1
  <1>3. QED
    BY <1>2 DEF HasRealData, Known, NoInst

DataStays ==
    /\ spot.status = "NONE" => ~HasRealData(spot)
    /\ ~blind => \A s \in Saves : HasRealData(old[s]) => HasRealData(spot)

EndInv == NotFoundMeansEmpty /\ DataStays /\ SearchEnds

\* A PUT of save s, of the merge of what it read, that is not a blind one.
LEMMA MergedPut ==
  ASSUME TypeOK, EndInv, NEW s \in Saves,
         spot' = Merge(old[s], sbody[s]), blind' = (blind \/ spot # old[s]),
         \A t \in Saves : old'[t] \in {old[t], Absent}
  PROVE  DataStays' /\ spot'.status \notin {"NONE", "BUSCANDO"}
  <1>1. old[s] \in Docs /\ sbody[s] \in Results /\ body[sbody[s]] \in Bodies
    BY DEF TypeOK
  <1>2. spot'.status \notin {"NONE", "BUSCANDO"}
    BY <1>1, BodiesAssumption DEF Merge
  <1>3. ASSUME ~blind', HasRealData(spot) PROVE HasRealData(spot')
    <2>1. spot = old[s] /\ spot' \in Docs
      BY <1>1, <1>3, MergeType
    <2>2. QED
      BY <1>1, <1>3, <2>1, MergeKeeps, DataIsKnown
  <1>4. ~HasRealData(Absent)
    BY DEF HasRealData, Absent
  <1>5. DataStays'
    BY <1>2, <1>3, <1>4 DEF DataStays, EndInv, HasRealData
  <1>6. QED
    BY <1>2, <1>5

\* However inserts and saves interleave, and whichever of their requests
\* fail, a record that some body was saved to no longer says "searching",
\* unless a PUT has replaced a document its writer had not read.
THEOREM SearchOver == Spec => []SearchEnds
  <1>1. Init => EndInv
    BY DEF Init, EndInv, DataStays, SearchEnds, NotFoundMeansEmpty,
           HasRealData, Absent
  <1>2. TypeOK /\ EndInv /\ NotFoundMeansEmpty' /\ [Next]_vars => EndInv'
    <2> SUFFICES ASSUME TypeOK, EndInv, NotFoundMeansEmpty', [Next]_vars
                 PROVE  DataStays' /\ SearchEnds'
      BY DEF EndInv
    <2>a. ~HasRealData(Absent) /\ Absent.status = "NONE"
      BY DEF HasRealData, Absent
    <2>b. ASSUME NEW s \in Saves, Leave(s)
          PROVE  \A t \in Saves : old'[t] \in {old[t], Absent}
      BY <2>b DEF Leave, TypeOK
    <2>c. ASSUME UNCHANGED <<spot, blind>>,
                 \A t \in Saves : old'[t] \in {old[t], Absent, spot}
          PROVE  DataStays'
      BY <2>a, <2>c DEF DataStays, EndInv, HasRealData
    <2>1. ASSUME NEW i \in Inserts, InsertPut(i)
          PROVE  DataStays' /\ SearchEnds'
      <3>1. CASE spot = Absent
        BY <2>1, <2>a, <3>1
           DEF InsertPut, EndInv, DataStays, SearchEnds, Marker, HasRealData,
               delivered, savers
      <3>2. CASE spot # Absent
        BY <2>1, <3>2
           DEF InsertPut, DataStays, SearchEnds, Marker, HasRealData
      <3>3. QED
        BY <3>1, <3>2
    <2>2. ASSUME NEW s \in Saves, NEW r \in Results, SaveGet(s, r)
          PROVE  DataStays' /\ SearchEnds'
      <3>1. \A t \in Saves : old'[t] \in {old[t], Absent, spot}
        BY <2>2 DEF SaveGet, TypeOK
      <3>2. QED
        BY <2>2, <2>c, <3>1 DEF SaveGet, SearchEnds, EndInv
    <2>3. ASSUME NEW s \in Saves, SaveSkip(s)
          PROVE  DataStays' /\ SearchEnds'
      <3>1. DataStays'
        BY <2>3, <2>b, <2>c DEF SaveSkip
      <3>2. HasRealData(old[s])
        BY <2>3 DEF SaveSkip, Persists
      <3>3. ~blind => HasRealData(spot)
        BY <3>2 DEF EndInv, DataStays
      <3>4. ~blind => spot.status \notin {"NONE", "BUSCANDO"}
        BY <3>3 DEF EndInv, DataStays, NotFoundMeansEmpty
      <3>5. QED
        BY <2>3, <3>1, <3>4 DEF SaveSkip, SearchEnds
    <2>4. ASSUME NEW s \in Saves, SavePut(s)
          PROVE  DataStays' /\ SearchEnds'
      BY <2>4, <2>b, MergedPut DEF SavePut, SearchEnds
    <2>5. ASSUME NEW s \in Saves, SaveFails(s)
          PROVE  DataStays' /\ SearchEnds'
      <3>1. CASE UNCHANGED <<spot, blind>>
        BY <2>5, <2>b, <2>c, <3>1 DEF SaveFails, SearchEnds, EndInv
      <3>2. CASE ~UNCHANGED <<spot, blind>>
        BY <2>5, <2>b, <3>2, MergedPut DEF SaveFails, SearchEnds
      <3>3. QED
        BY <3>1, <3>2
    <2>6. CASE CollectorPuts
      <3>1. spot'.status = "SUCESSO" /\ UNCHANGED <<old, blind, saved>>
        BY <2>6 DEF CollectorPuts, savers, delivered
      <3>2. ~HasRealData(spot)
        BY <2>6 DEF CollectorPuts
      <3>3. DataStays'
        BY <3>1, <3>2 DEF DataStays, EndInv, HasRealData
      <3>4. QED
        BY <3>1, <3>3 DEF SearchEnds
    <2>7. CASE UNCHANGED <<spot, blind, old, saved>>
      BY <2>7 DEF DataStays, SearchEnds, EndInv, HasRealData
    <2>8. QED
      BY <2>1, <2>2, <2>3, <2>4, <2>5, <2>6, <2>7
         DEF Next, InsertCheck, InsertFails, SaveStep, OtherBranchFails, vars,
             delivered, savers
  <1>3. EndInv => SearchEnds
    BY DEF EndInv
  <1>4. QED
    BY <1>1, <1>2, <1>3, TypeCorrect, Honesty, PTL DEF Spec

\* A step loses no instancia once collected, unless it puts over a document
\* that its writer has not read: merging by id, in every interleaving.
THEOREM Preservation == Spec => InstancesPreserved
  <1>1. TypeOK /\ [Next]_vars
        => [Known(spot) \subseteq Known(spot') \/ PutsUnread]_vars
    <2> SUFFICES ASSUME TypeOK, Next
                 PROVE  Known(spot) \subseteq Known(spot') \/ PutsUnread
      OBVIOUS
    <2>1. ASSUME NEW s \in Saves, SavePut(s) \/ SaveFails(s),
                 spot' = Merge(old[s], sbody[s])
          PROVE  Known(spot) \subseteq Known(spot') \/ PutsUnread
      <3>1. spc[s] = "decide" /\ spc'[s] = "idle"
        BY <2>1 DEF SavePut, SaveFails, Leave, TypeOK
      <3>2. CASE old[s] = spot
        <4>1. Known(spot) \subseteq Known(Merge(spot, sbody[s]))
          BY MergeKeeps DEF TypeOK
        <4>2. QED
          BY <2>1, <3>2, <4>1
      <3>3. CASE old[s] # spot
        BY <3>1, <3>3 DEF PutsUnread
      <3>4. QED
        BY <3>2, <3>3
    <2>2. ASSUME NEW i \in Inserts, InsertPut(i)
          PROVE  Known(spot) \subseteq Known(spot') \/ PutsUnread
      <3>1. ipc[i] = "put" /\ ipc'[i] = "done"
        BY <2>2 DEF InsertPut, TypeOK
      <3>2. Known(Absent) = {}
        BY DEF Known, Absent, NoInst
      <3>3. QED
        BY <3>1, <3>2 DEF PutsUnread
    <2>3. CASE CollectorPuts
      BY <2>3, DataIsKnown DEF CollectorPuts, TypeOK
    <2>4. CASE UNCHANGED spot
      BY <2>4 DEF Known
    <2>5. QED
      BY <2>1, <2>2, <2>3, <2>4
         DEF Next, InsertCheck, InsertFails, SaveGet, SaveStep, SaveSkip,
             SavePut, SaveFails, OtherBranchFails
  <1>2. QED
    BY <1>1, TypeCorrect, PTL DEF Spec, InstancesPreserved
=============================================================================
