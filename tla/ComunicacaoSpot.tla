-------------------------- MODULE ComunicacaoSpot --------------------------
(***************************************************************************)
(* The comunicacao-spot record of ONE lawsuit: a JSON object in S3 that    *)
(* InsertLawsuitPlaceholderService creates as a BUSCANDO marker, that      *)
(* SaveWebhookToComunicacaoSpotService merges every webhook into, and that *)
(* another collector writes too.  S3 has no transaction: each writer gets  *)
(* the object, decides, and puts a whole new object.                       *)
(*                                                                         *)
(* A document is its status and, for each instancia id, the body that      *)
(* brought the instancia in.                                               *)
(***************************************************************************)
CONSTANTS
    Ids,       \* ids of the lawsuit's instancias (1o grau, 2o grau, ...)
    Results,   \* webhook bodies, by webhookId
    Bodies,    \* what such a body can say
    Saves,     \* SaveWebhookToComunicacaoSpotService calls, at a time
    Inserts,   \* InsertLawsuitPlaceholderService calls, one use each
    Collector, \* communication-ingestor-juri, as the origin of an instancia
    Nobody,    \* the origin of an instancia the document does not have
    Faults     \* "getFails", "putFails", "detached": subset of AllFaults

\* getFails  a GET fails and the code goes on as if there were no object
\* putFails  a PUT fails for the API, which S3 may have carried out or not
\* detached  the delivery's other branch rejected: the same body is delivered
\*           again while this branch is still running
AllFaults == {"getFails", "putFails", "detached"}

ASSUME BodiesAssumption ==
    Bodies \subseteq [status : {"SUCESSO", "ERRO", "NAO_ENCONTRADO"},
                      motivo : BOOLEAN, ids : SUBSET Ids]
\* A lawsuit that was not found has no instancias.
ASSUME NotFoundAssumption ==
    \A b \in Bodies : b.status = "NAO_ENCONTRADO" => b.ids = {}
ASSUME OriginAssumption ==
    /\ Collector \notin Results /\ Nobody \notin Results
    /\ Collector # Nobody
ASSUME SomeResult == Results # {}
ASSUME SpotFaultsAssumption == Faults \subseteq AllFaults

VARIABLES
    spot,    \* the S3 object
    body,    \* what each webhook body says
    todo,    \* bodies some delivery still has to save (new, or FAILED)
    saved,   \* bodies whose save has resolved
    spc,     \* where each save is
    sbody,   \* the body it saves
    old,     \* what its GET returned
    ipc,     \* where each insert is
    blind    \* history: some PUT replaced a document its writer had not read

vars == <<spot, body, todo, saved, spc, sbody, old, ipc, blind>>
savers == <<spc, sbody, old>>
delivered == <<body, todo, saved>>

Origins == Results \cup {Collector, Nobody}
Docs == [status : {"NONE", "BUSCANDO", "SUCESSO", "ERRO", "NAO_ENCONTRADO"},
         inst   : [Ids -> Origins]]
NoInst == [i \in Ids |-> Nobody]
Absent == [status |-> "NONE", inst |-> NoInst]

\* buildBuscandoPlaceholder
Marker == [status |-> "BUSCANDO", inst |-> NoInst]
AnyBody == CHOOSE r \in Results : TRUE    \* what an idle save shows

\* existing?.resposta?.instancias?.length > 0
HasRealData(doc) == doc.inst # NoInst

-----------------------------------------------------------------------------
\* Mutation of Persists: the rule of the Redis cache, whatever the document.
PersistsLikeRedis(b, doc) ==
    ~(b.status = "NAO_ENCONTRADO" \/ (b.status = "ERRO" /\ b.motivo))

\* Mutation of Persists: no guard at all.
PersistsAlways(b, doc) == TRUE

\* decideComunicacaoSpotPersist: a search that found nothing is news only for
\* a document without data.
Persists(b, doc) ==
    \/ ~(b.status = "NAO_ENCONTRADO" \/ (b.status = "ERRO" /\ b.motivo))
    \/ ~HasRealData(doc)

\* Mutation of Merge: the webhook's body replaces the document.
Replace(doc, r) ==
    [status |-> body[r].status,
     inst   |-> [i \in Ids |-> IF i \in body[r].ids THEN r ELSE Nobody]]

\* mergeInstancias: by id the new body wins, what it lacks is kept.
Merge(doc, r) ==
    [status |-> body[r].status,
     inst   |-> [i \in Ids |-> IF i \in body[r].ids THEN r ELSE doc.inst[i]]]

Init ==
    /\ spot = Absent
    /\ body \in [Results -> Bodies]
    /\ todo = Results
    /\ saved = {}
    /\ spc = [s \in Saves |-> "idle"]
    /\ sbody = [s \in Saves |-> AnyBody]
    /\ old = [s \in Saves |-> Absent]
    /\ ipc = [i \in Inserts |-> "idle"]
    /\ blind = FALSE

-----------------------------------------------------------------------------
(* InsertLawsuitPlaceholderService.execute                                 *)

\* FetchComunicacaoSpotService: an object, none, or an error taken for none.
InsertCheck(i) ==
    /\ ipc[i] = "idle"
    /\ \/ ipc' = [ipc EXCEPT ![i] = IF spot = Absent THEN "put" ELSE "done"]
       \/ /\ "getFails" \in Faults
          /\ ipc' = [ipc EXCEPT ![i] = "put"]
    /\ UNCHANGED <<spot, delivered, savers, blind>>

\* The PUT of the marker; the check is a round trip old by now.
InsertPut(i) ==
    /\ ipc[i] = "put"
    /\ spot' = Marker
    /\ blind' = (blind \/ spot # Absent)
    /\ ipc' = [ipc EXCEPT ![i] = "done"]
    /\ UNCHANGED <<delivered, savers>>

InsertFails(i) ==
    /\ "putFails" \in Faults
    /\ ipc[i] = "put"
    /\ ipc' = [ipc EXCEPT ![i] = "done"]
    /\ UNCHANGED <<spot, delivered, savers, blind>>

-----------------------------------------------------------------------------
(* SaveWebhookToComunicacaoSpotService.execute, run by a delivery of r that *)
(* WebhookService let through.                                             *)

\* fetchExisting, where an error means "no merge".
SaveGet(s, r) ==
    /\ spc[s] = "idle" /\ r \in todo
    /\ todo' = todo \ {r}
    /\ sbody' = [sbody EXCEPT ![s] = r]
    /\ \/ old' = [old EXCEPT ![s] = spot]
       \/ "getFails" \in Faults /\ old' = [old EXCEPT ![s] = Absent]
    /\ spc' = [spc EXCEPT ![s] = "decide"]
    /\ UNCHANGED <<spot, body, saved, ipc, blind>>

\* Save s is over.
Leave(s) ==
    /\ spc' = [spc EXCEPT ![s] = "idle"]
    /\ sbody' = [sbody EXCEPT ![s] = AnyBody]
    /\ old' = [old EXCEPT ![s] = Absent]

\* Nothing new in the body: the document stays.
SaveSkip(s) ==
    /\ spc[s] = "decide"
    /\ ~Persists(body[sbody[s]], old[s])
    /\ saved' = saved \cup {sbody[s]}
    /\ Leave(s)
    /\ UNCHANGED <<spot, body, todo, ipc, blind>>

SavePut(s) ==
    /\ spc[s] = "decide"
    /\ Persists(body[sbody[s]], old[s])
    /\ spot' = Merge(old[s], sbody[s])
    /\ blind' = (blind \/ spot # old[s])
    /\ saved' = saved \cup {sbody[s]}
    /\ Leave(s)
    /\ UNCHANGED <<body, todo, ipc>>

\* The call rejects, the delivery is FAILED, the scraper delivers it again.
SaveFails(s) ==
    /\ "putFails" \in Faults
    /\ spc[s] = "decide"
    /\ Persists(body[sbody[s]], old[s])
    /\ \/ UNCHANGED <<spot, blind>>
       \/ /\ spot' = Merge(old[s], sbody[s])
          /\ blind' = (blind \/ spot # old[s])
    /\ todo' = todo \cup {sbody[s]}
    /\ Leave(s)
    /\ UNCHANGED <<body, saved, ipc>>

\* The cache branch rejects first: FAILED, with this branch still at work.
OtherBranchFails(s) ==
    /\ "detached" \in Faults
    /\ spc[s] = "decide"
    /\ todo' = todo \cup {sbody[s]}
    /\ UNCHANGED <<spot, body, saved, savers, ipc, blind>>

\* The other collector (outside this repository) files a record where there
\* is none with data.
CollectorPuts ==
    /\ ~HasRealData(spot)
    /\ \E ids \in SUBSET Ids :
         /\ ids # {}
         /\ spot' = [status |-> "SUCESSO",
                     inst |-> [i \in Ids |-> IF i \in ids THEN Collector
                                                          ELSE Nobody]]
    /\ UNCHANGED <<delivered, savers, ipc, blind>>

-----------------------------------------------------------------------------
SaveStep(s) == SaveSkip(s) \/ SavePut(s)

Next ==
    \/ \E i \in Inserts : InsertCheck(i) \/ InsertPut(i) \/ InsertFails(i)
    \/ \E s \in Saves : \/ \E r \in Results : SaveGet(s, r)
                        \/ SaveStep(s) \/ SaveFails(s) \/ OtherBranchFails(s)
    \/ CollectorPuts

Spec == Init /\ [][Next]_vars

-----------------------------------------------------------------------------
(* Properties.                                                             *)

\* Every variable stays within what the code can store in it.
TypeOK ==
    /\ spot \in Docs
    /\ body \in [Results -> Bodies]
    /\ todo \subseteq Results /\ saved \subseteq Results
    /\ spc \in [Saves -> {"idle", "decide"}]
    /\ sbody \in [Saves -> Results]
    /\ old \in [Saves -> Docs]
    /\ ipc \in [Inserts -> {"idle", "put", "done"}]
    /\ blind \in BOOLEAN

\* A document that says "searching" or "not found" holds no data, whoever
\* wrote last and whatever failed: the point of decideComunicacaoSpotPersist.
NotFoundMeansEmpty ==
    spot.status \in {"BUSCANDO", "NAO_ENCONTRADO"} => ~HasRealData(spot)

Known(doc) == {i \in Ids : doc.inst[i] # Nobody}

\* The step puts over a document that its writer has not read.
PutsUnread ==
    \/ \E s \in Saves : spc[s] = "decide" /\ spc'[s] = "idle" /\ old[s] # spot
    \/ \E i \in Inserts : ipc[i] = "put" /\ ipc'[i] = "done" /\ spot # Absent

\* Instancias once collected are preserved by every later body that does not
\* carry them, unless the PUT replaces a document its writer has not read.
InstancesPreserved ==
    [][Known(spot) \subseteq Known(spot') \/ PutsUnread]_vars

\* The marker does not outlive the search: once a body has been saved the
\* document is not BUSCANDO, however many inserts and retries follow, as long
\* as nobody has put over what he had not read.
SearchEnds == saved # {} /\ ~blind => spot.status \notin {"NONE", "BUSCANDO"}

\* "nunca sobrescrever": inserting a marker never touches an existing record.
NeverOverwritten ==
    [][spot # Absent => spot' # Marker]_spot
=============================================================================
