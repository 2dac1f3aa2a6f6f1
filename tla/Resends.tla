------------------------------- MODULE Resends -------------------------------
(***************************************************************************)
(* Which lawsuits are sent through the pipeline again: every night those   *)
(* lost for a risk (LossRevalidationCron), and those an administrator asks *)
(* for (RunListLawsuitsValidationService).  Both choose first and then     *)
(* send the chosen ones at the same time, while users and the robot go on  *)
(* changing them.  What sending one does to its status is in               *)
(* ProcessPipeline.                                                        *)
(***************************************************************************)
EXTENDS Integers, Sequences, FiniteSets

CONSTANTS
    Suits,          \* lawsuits
    UnknownSuit,    \* a number that no lawsuit has
    CreatedAt,      \* createdAt of each lawsuit, in hours UTC
    DateValues,     \* startDate and endDate: a day, or an hour with its zone
    NoDate,         \* not given
    ChangesBound,   \* bound: changes by others
    ResendFaults    \* bound: sendings of a lawsuit that fail

ASSUME ResendAssumption ==
    /\ CreatedAt \in [Suits -> Nat] /\ UnknownSuit \notin Suits
    /\ DateValues \subseteq [dateOnly : BOOLEAN, n : Nat] /\ NoDate \notin DateValues
    /\ ChangesBound \in Nat /\ ResendFaults \in Nat

VARIABLES
    situation,  \* of each lawsuit: "PENDING" or "LOSS"
    rulings,    \* the histories of its decisions documents
    papers,     \* whether its list of documents has some
    resend,     \* what the run was asked; "none", "going", "done" or "refused"
    selected,   \* the rows its query gave that are not sent yet
    sent,       \* how often each lawsuit was sent
    failed,     \* history: how often the sending of each lawsuit failed
    asOf,       \* history: the lawsuits as the query found them
    changes     \* history: changes by others

suitVars == <<situation, rulings, papers>>
resendVars == <<suitVars, resend, selected, sent, failed, asOf, changes>>

NoResend == [at |-> "none", kind |-> "none", step3 |-> FALSE, from |-> NoDate,
          to |-> NoDate, match |-> {}, limit |-> 0, given |-> <<>>]

Present == [situation |-> situation, rulings |-> rulings, papers |-> papers]

ResendInit ==
    /\ situation = [s \in Suits |-> "PENDING"]
    /\ rulings = [s \in Suits |-> <<>>]
    /\ papers = [s \in Suits |-> FALSE]
    /\ resend = NoResend /\ selected = {} /\ sent = [s \in Suits |-> 0]
    /\ failed = [s \in Suits |-> 0] /\ asOf = Present /\ changes = 0

-----------------------------------------------------------------------------
(* Others.                                                                 *)

OthersChange == /\ resend.at \in {"none", "going"}     \* later ones are of no account
                /\ changes < ChangesBound /\ changes' = changes + 1
                /\ UNCHANGED <<resend, selected, sent, failed, asOf>>

\* A bulk update sets the situation; its reason is not in the history.
SetSituation(s) ==
    /\ situation' \in {[situation EXCEPT ![s] = x] : x \in {"PENDING", "LOSS"}}
    /\ situation' # situation
    /\ OthersChange /\ UNCHANGED <<rulings, papers>>

\* A change of the stage, with its reason, which may be one of the two risks.
\* Two at a time may make a second document.
RecordRuling(s) ==
    /\ \E risk \in BOOLEAN :
         LET entry == [status |-> situation[s], risk |-> risk] IN
         \/ /\ rulings[s] # <<>>
            /\ rulings' = [rulings EXCEPT ![s][1] = Append(@, entry)]
         \/ /\ Len(rulings[s]) < 2
            /\ rulings' = [rulings EXCEPT ![s] = Append(@, <<entry>>)]
    /\ OthersChange /\ UNCHANGED <<situation, papers>>

\* The robot, outside of this code, stores the documents.
PapersArrive(s) == /\ ~papers[s] /\ papers' = [papers EXCEPT ![s] = TRUE]
                   /\ OthersChange /\ UNCHANGED <<situation, rulings>>

-----------------------------------------------------------------------------
(* LossRevalidationCron                                                    *)

\* Mutation of RiskLoss: any entry of the history counts.
RiskLossEver(history) == \E i \in DOMAIN history :
                            history[i].status = "LOSS" /\ history[i].risk
RiskLoss(history) == LET latest == history[Len(history)] IN
                     latest.status = "LOSS" /\ latest.risk

\* $unwind: a row for each decisions document of the lawsuit.
Night ==
    /\ resend = NoResend
    /\ resend' = [NoResend EXCEPT !.at = "going", !.kind = "night"]
    /\ selected' = {r \in Suits \X (1..2) :
                      /\ r[2] \in DOMAIN rulings[r[1]] /\ situation[r[1]] = "LOSS"
                      /\ RiskLoss(rulings[r[1]][r[2]])}
    /\ asOf' = Present /\ UNCHANGED <<suitVars, sent, failed, changes>>

-----------------------------------------------------------------------------
(* RunListLawsuitsValidationService                                        *)

\* toBoundaryDate: a day without a time is a day of the zone -03:00, from its
\* first instant to its last.
Boundary(v, isStart) == IF ~v.dateOnly THEN v.n
                        ELSE IF isStart THEN 24 * v.n + 3 ELSE 24 * v.n + 26

CreatedIn(s, from, to) ==
    /\ from # NoDate => CreatedAt[s] >= Boundary(from, TRUE)
    /\ to # NoDate => CreatedAt[s] <= Boundary(to, FALSE)

\* No list: those of the status and the dates asked for, with documents for
\* step-3 and without for every other step; with a limit, any so many.
Listable(r) == {s \in Suits : /\ s \in r.match /\ CreatedIn(s, r.from, r.to)
                              /\ papers[s] = r.step3}

AskByFilter ==
    /\ resend = NoResend
    /\ \E from, to \in DateValues \cup {NoDate}, match \in SUBSET Suits,
          step \in {"step-1", "step-3", "?"}, limit \in {0, 1} :
         LET r == [NoResend EXCEPT !.kind = "filter", !.step3 = (step = "step-3"),
                     !.from = from, !.to = to, !.match = match, !.limit = limit]
         IN IF step = "?"              \* found invalid after the query
            THEN resend' = [NoResend EXCEPT !.at = "refused"] /\ selected' = {}
            ELSE /\ resend' = [r EXCEPT !.at = "going"]
                 /\ \E S \in SUBSET Listable(r) :
                      /\ IF limit = 0 \/ Cardinality(Listable(r)) <= limit
                         THEN S = Listable(r) ELSE Cardinality(S) = limit
                      /\ selected' = S \X {1}
    /\ asOf' = Present /\ UNCHANGED <<suitVars, sent, failed, changes>>

\* A list of numbers, as it comes (and refused like the other).
AskByNumber ==
    /\ resend = NoResend
    /\ \E k \in 1..2, limit \in {0, 1}, step3 \in BOOLEAN :
       \E given \in [1..k -> Suits \cup {UnknownSuit}] :
         /\ resend' = [NoResend EXCEPT !.at = "going", !.kind = "numbers", !.step3 = step3,
                      !.limit = limit, !.given = given]
         /\ selected' = {<<given[i], i>> : i \in 1..(IF limit # 0 THEN limit ELSE k)}
    /\ asOf' = Present /\ UNCHANGED <<suitVars, sent, failed, changes>>

-----------------------------------------------------------------------------
(* Each row of its own: it is read, left out or sent.                       *)

LeftOut(s) == s = UnknownSuit \/ (resend.step3 /\ ~papers[s])

SendRow(r) ==
    /\ r \in selected /\ selected' = selected \ {r}
    /\ sent' = IF LeftOut(r[1]) THEN sent ELSE [sent EXCEPT ![r[1]] = @ + 1]
    /\ UNCHANGED <<suitVars, resend, failed, asOf, changes>>

\* The status or the request fails: the others are sent all the same.
RowFails(r) ==
    /\ r \in selected /\ ~LeftOut(r[1]) /\ failed[r[1]] < ResendFaults
    /\ selected' = selected \ {r} /\ failed' = [failed EXCEPT ![r[1]] = @ + 1]
    /\ UNCHANGED <<suitVars, resend, sent, asOf, changes>>

ResendEnds ==
    /\ resend.at = "going" /\ selected = {} /\ resend' = [resend EXCEPT !.at = "done"]
    /\ UNCHANGED <<suitVars, selected, sent, failed, asOf, changes>>

ResendNext == \/ Night \/ AskByFilter \/ AskByNumber \/ ResendEnds
              \/ \E r \in selected : SendRow(r) \/ RowFails(r)
              \/ \E s \in Suits : SetSituation(s) \/ RecordRuling(s) \/ PapersArrive(s)

ResendSpec == ResendInit /\ [][ResendNext]_resendVars

-----------------------------------------------------------------------------
(* Properties.                                                             *)

\* The day of the zone -03:00 in which a lawsuit was created.
LocalDay(s) == (CreatedAt[s] - 3) \div 24

\* A run sends, or tries to and fails, exactly what its query found to qualify,
\* whatever others change under way and whichever of the sendings fail: by
\* night, the lost lawsuits whose latest entry is a loss for a risk, once (with
\* one decisions document: two make two rows); by filter, those of the local
\* days asked for, with documents if and only if step-3 is asked, once; by
\* number, each as often as it was given, less often only if step-3 was asked
\* and it had no documents.  Nothing without documents is sent to step-3.
ResendsTheQualified ==
    resend.at = "done" =>
        /\ resend.step3 => \A s \in Suits : sent[s] > 0 => papers[s]
        /\ \A s \in Suits :
             LET tried == sent[s] + failed[s]
                 history == asOf.rulings[s]
                 given == Cardinality({i \in DOMAIN resend.given : resend.given[i] = s})
             IN
             /\ resend.kind = "night" /\ Len(history) <= 1 =>
                  tried = IF /\ asOf.situation[s] = "LOSS"
                             /\ \E h \in {history[d] : d \in DOMAIN history} :
                                  h[Len(h)] = [status |-> "LOSS", risk |-> TRUE]
                          THEN 1 ELSE 0
             /\ (/\ resend.kind = "filter" /\ resend.limit = 0
                 /\ resend.from # NoDate /\ resend.to # NoDate
                 /\ resend.from.dateOnly /\ resend.to.dateOnly) =>
                  tried = IF /\ s \in resend.match /\ asOf.papers[s] = resend.step3
                             /\ LocalDay(s) \in resend.from.n..resend.to.n THEN 1 ELSE 0
             /\ resend.kind = "numbers" /\ resend.limit = 0 =>
                  tried <= given /\ ((resend.step3 => asOf.papers[s]) => tried = given)
=============================================================================
