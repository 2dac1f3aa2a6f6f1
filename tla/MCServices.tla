----------------------------- MODULE MCServices -----------------------------
(***************************************************************************)
(* The components around the pipeline, model-checked in one run: each      *)
(* behaviour runs ONE of them (part), and the others stay as they began.   *)
(* They share no state, so that nothing is lost by taking them in turn and *)
(* the states to explore are the sum of theirs, not the product.           *)
(***************************************************************************)
EXTENDS StageBoard, LawsuitQueries, ActivityBoard, LoginLock, UserAccounts,
        UserSessions, DocumentExtraction, AthenaQuery, SyncBatch, CompanyRecords,
        PagedLists, LawsuitForm, LawsuitIntake, Resends

VARIABLE part

Parts == {"board", "queries", "activities", "login", "accounts", "sessions",
          "documents", "athena", "batch", "company", "pages", "form", "intake",
          "resends"}

servicesVars == <<boardVars, filter, activityVars, loginVars, accountVars,
                  sessionVars, docVars, athenaVars, batchVars, companyVars,
                  pagedVars, formVars, intakeVars, resendVars, part>>

-----------------------------------------------------------------------------
(* Values of the constants.                                                *)

MCNormal == [ana |-> "ana", Ana |-> "ana", bia |-> "bia"]

\* Lawsuits that differ in what some filter looks at.
MCListed ==
    {[matches |-> p[1], onBoard |-> p[2], moved |-> p[3], situation |-> s,
      stage |-> t, documents |-> d[1], instancias |-> d[2], reason |-> k] :
        p \in {<<TRUE, TRUE, "absent">>, <<FALSE, TRUE, "yes">>,
               <<TRUE, FALSE, "absent">>},
        s \in Situations, t \in QueryStages,
        d \in {<<"absent", "some">>, <<"some", "none">>, <<"some", "some">>},
        k \in {"LIQUIDADO", "PRE_ANALISE_LIQUIDADO", "ARQUIVADO"}}

MCFilters ==
    [search : BOOLEAN, status : {"", "LOSS"}, emptyDocuments : {"any", "yes", "no"},
     emptyInstances : {"any", "yes", "no"}, hasNewMovements : {"any", "yes", "no"},
     lossReasons : {{}, {"LIQUIDADO"}, {"LIQUIDADO", "ARQUIVADO"}}]

\* Resends: the last hour of day 1 in the zone -03:00.
MCCreatedAt == [late |-> 50]
MCDateValues == {[dateOnly |-> TRUE, n |-> 1]}

-----------------------------------------------------------------------------
ServicesInit ==
    /\ part \in Parts
    /\ BoardInit /\ QueryInit /\ ActivityInit /\ LoginInit /\ AccountsInit
    /\ SessionInit /\ ExtractionInit /\ AthenaInit /\ BatchInit /\ CompanyInit
    /\ PagedInit /\ FormInit /\ IntakeInit /\ ResendInit

\* No other component than p takes a step.
OnlyPart(p) ==
    /\ part = p /\ UNCHANGED part
    /\ IF p = "board" THEN TRUE ELSE UNCHANGED boardVars
    /\ IF p = "queries" THEN TRUE ELSE UNCHANGED filter
    /\ IF p = "activities" THEN TRUE ELSE UNCHANGED activityVars
    /\ IF p = "login" THEN TRUE ELSE UNCHANGED loginVars
    /\ IF p = "accounts" THEN TRUE ELSE UNCHANGED accountVars
    /\ IF p = "sessions" THEN TRUE ELSE UNCHANGED sessionVars
    /\ IF p = "documents" THEN TRUE ELSE UNCHANGED docVars
    /\ IF p = "athena" THEN TRUE ELSE UNCHANGED athenaVars
    /\ IF p = "batch" THEN TRUE ELSE UNCHANGED batchVars
    /\ IF p = "company" THEN TRUE ELSE UNCHANGED companyVars
    /\ IF p = "pages" THEN TRUE ELSE UNCHANGED pagedVars
    /\ IF p = "form" THEN TRUE ELSE UNCHANGED formVars
    /\ IF p = "intake" THEN TRUE ELSE UNCHANGED intakeVars
    /\ IF p = "resends" THEN TRUE ELSE UNCHANGED resendVars

ServicesNext ==
    \/ OnlyPart("board") /\ BoardNext
    \/ OnlyPart("queries") /\ QueryNext
    \/ OnlyPart("activities") /\ ActivityNext
    \/ OnlyPart("login") /\ LoginNext
    \/ OnlyPart("accounts") /\ AccountsNext
    \/ OnlyPart("sessions") /\ SessionNext
    \/ OnlyPart("documents") /\ ExtractionNext
    \/ OnlyPart("athena") /\ AthenaNext
    \/ OnlyPart("batch") /\ BatchNext
    \/ OnlyPart("company") /\ CompanyNext
    \/ OnlyPart("pages") /\ PagedNext
    \/ OnlyPart("form") /\ FormNext
    \/ OnlyPart("intake") /\ IntakeNext
    \/ OnlyPart("resends") /\ ResendNext

\* With the fairness of the two components that have one.
ServicesSpec == /\ ServicesInit /\ [][ServicesNext]_servicesVars
                /\ ExtractionFairness /\ WF_athenaVars(AthenaStep)
=============================================================================
