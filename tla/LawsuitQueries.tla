--------------------------- MODULE LawsuitQueries ---------------------------
(***************************************************************************)
(* The filters of the board: which lawsuits ProcessCountersService counts, *)
(* and which ones the same filters make BulkUpdateService change.  Both    *)
(* are queries over the lawsuits there are; a state is one question.       *)
(***************************************************************************)
EXTENDS Naturals, FiniteSets

CONSTANTS Listed,   \* the lawsuits, records of the fields the filters look at
          Filters   \* the filters a client gives; "" or "any" for none

VARIABLE filter

QueryStages == {"PRE_ANALISE", "ANALISE", "CALCULO"}

\* The last is not one of the schema's enum, which an update does not check: a
\* validation asked for by number sets it.
Situations == {"PENDING", "APPROVED", "LOSS", "IN_PROGRESS"}

ASSUME QueryAssumption ==
    /\ IsFiniteSet(Listed)
    /\ Listed \subseteq
         [matches : BOOLEAN, onBoard : BOOLEAN, moved : {"absent", "yes", "no"},
          situation : Situations, stage : QueryStages,
          documents : {"absent", "none", "some"},
          instancias : {"absent", "none", "some"}, reason : STRING]
    /\ Filters \subseteq
         [search : BOOLEAN, status : STRING, emptyDocuments : {"any", "yes", "no"},
          emptyInstances : {"any", "yes", "no"},
          hasNewMovements : {"any", "yes", "no"}, lossReasons : SUBSET STRING]

\* The labels that contain another reason's label, as pairs of their keys
\* (inner, outer): "ANÁLISE – LIQUIDADO" is in "PRÉ-ANÁLISE – LIQUIDADO".
LabelInside == {<<"ANALISE_IMPROCEDENTE", "PRE_ANALISE_IMPROCEDENTE">>,
                <<"LIQUIDADO", "PRE_ANALISE_LIQUIDADO">>,
                <<"RISCO_TESE", "RISCO_TESE_PENDENTE_TRANSITO">>}

Empty(list) == list \in {"absent", "none"}

-----------------------------------------------------------------------------
(* ProcessCountersService: every condition given must hold.                *)

\* A text to search for makes the service forget the status.
SearchOrStatus(r, f) == IF f.search THEN r.matches
                        ELSE f.status # "" => r.situation = f.status

EmptinessAsked(r, f) ==
    /\ f.emptyDocuments # "any" => (f.emptyDocuments = "yes" <=> Empty(r.documents))
    /\ f.emptyInstances # "any" => (f.emptyInstances = "yes" <=> Empty(r.instancias))

\* normalizeLossReason turns a key into its label, which is matched as a
\* regular expression: anywhere in the reason of the last history entry.
MatchedBy(k) == {k} \cup {p[2] : p \in {q \in LabelInside : q[1] = k}}
ReasonAsked(r, f) ==
    f.lossReasons # {} => \E k \in f.lossReasons : r.reason \in MatchedBy(k)

Counted(r, f) == /\ r.onBoard                 \* stageId: { $ne: null }
                 /\ SearchOrStatus(r, f)
                 /\ EmptinessAsked(r, f)
                 /\ f.hasNewMovements # "any" => r.moved = f.hasNewMovements
                 /\ ReasonAsked(r, f)

\* One facet of the counters, over the lawsuits of these stages.
Facet(f, stages) ==
    LET S == {r \in Listed : Counted(r, f) /\ r.stage \in stages} IN
    [total |-> Cardinality(S),
     pending |-> Cardinality({r \in S : r.situation = "PENDING"}),
     approved |-> Cardinality({r \in S : r.situation = "APPROVED"}),
     rejected |-> Cardinality({r \in S : r.situation = "LOSS"})]

-----------------------------------------------------------------------------
(* BulkUpdateService.buildQuery: the loss reason is not looked at, and the  *)
(* search and the two "empty" filters share one $or.                       *)

OrGiven(f) == f.search \/ f.emptyDocuments = "yes" \/ f.emptyInstances = "yes"
OrHolds(r, f) == \/ f.search /\ r.matches
                 \/ f.emptyDocuments = "yes" /\ Empty(r.documents)
                 \/ f.emptyInstances = "yes" /\ Empty(r.instancias)

\* Mutation of BulkUpdated: "emptyDocuments: false" is taken for "not given".
BulkUpdatedFalsy(r, f) ==
    /\ OrGiven(f) => OrHolds(r, f)
    /\ f.status # "" => r.situation = f.status
    /\ f.hasNewMovements # "any" => r.moved = f.hasNewMovements

BulkUpdated(r, f) ==
    /\ OrGiven(f) => OrHolds(r, f)
    /\ f.status # "" => r.situation = f.status
    /\ f.hasNewMovements # "any" => r.moved = f.hasNewMovements
    /\ f.emptyDocuments = "no" => ~Empty(r.documents)
    /\ f.emptyInstances = "no" => ~Empty(r.instancias)

-----------------------------------------------------------------------------
NoFilter == [search |-> FALSE, status |-> "", emptyDocuments |-> "any",
             emptyInstances |-> "any", hasNewMovements |-> "any",
             lossReasons |-> {}]

QueryInit == filter = NoFilter

AskCounters == filter = NoFilter /\ filter' \in Filters

QueryNext == AskCounters
QuerySpec == QueryInit /\ [][QueryNext]_filter

-----------------------------------------------------------------------------
(* Properties.                                                             *)

\* A bulk update with a board's filters changes the lawsuits on the board
\* that the counters count with the same filters, and as many of each stage
\* and situation as they show (those IN_PROGRESS are in no situation that they
\* show, only in the total): if no loss reason is given, no status beside a
\* search, and at most one of the filters that the bulk update puts into its
\* $or.
BulkUpdatesTheCounted ==
    LET ors == Cardinality({x \in {"search", "documents", "instances"} :
                              \/ x = "search" /\ filter.search
                              \/ x = "documents" /\ filter.emptyDocuments = "yes"
                              \/ x = "instances" /\ filter.emptyInstances = "yes"})
        changed == {r \in Listed : r.onBoard /\ BulkUpdated(r, filter)}
    IN /\ filter # NoFilter
       /\ filter.lossReasons = {}
       /\ ~(filter.search /\ filter.status # "")
       /\ ors <= 1
       => /\ changed = {r \in Listed : Counted(r, filter)}
          /\ \A t \in QueryStages :
                 LET shown == Facet(filter, {t}) IN
                 /\ shown.total = Cardinality({r \in changed : r.stage = t})
                 /\ shown.total = shown.pending + shown.approved + shown.rejected
                      + Cardinality({r \in changed : /\ r.stage = t
                                                     /\ r.situation = "IN_PROGRESS"})
=============================================================================
