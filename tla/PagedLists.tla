----------------------------- MODULE PagedLists -----------------------------
(***************************************************************************)
(* The paged lists: notifications, prompts, companies and loss reasons are *)
(* sorted by createdAt, newest first, and a page is what $skip and $limit  *)
(* leave of the query's own result.  A client walks through the pages, one *)
(* request each, while others add and delete entries.                      *)
(***************************************************************************)
EXTENDS Naturals, Sequences, FiniteSets

CONSTANTS
    PageLimit,      \* limit
    EntriesBound    \* bound: entries ever added

ASSUME PagedAssumption == PageLimit \in Nat \ {0} /\ EntriesBound \in Nat

VARIABLES
    list,      \* which list the client looks at; "none" before it does
    at,        \* createdAt of every entry ever added, in the order they came
    gone,      \* the entries deleted
    walk,      \* "out", "asking" a page, "counting" the companies, "done"
    page,      \* the page the client asks for
    shown,     \* how often each entry was shown in this walk
    onList,    \* history: the entries there when the walk began
    moved      \* history: what was done to the list since: "add", "delete"

pagedVars == <<list, at, gone, walk, page, shown, onList, moved>>

Lists == {"notifications", "prompts", "companies", "reasons"}
There == DOMAIN at \ gone

PagedInit == /\ list = "none" /\ at = <<>> /\ gone = {} /\ walk = "out"
             /\ page = 1 /\ shown = [e \in 1..EntriesBound |-> 0]
             /\ onList = {} /\ moved = {}

-----------------------------------------------------------------------------
(* Others add and delete.                                                  *)

\* timestamps: createdAt is the time of the write, which two may share.
AddEntry ==
    /\ Len(at) < EntriesBound
    /\ \E t \in IF at = <<>> THEN {0} ELSE {at[Len(at)], at[Len(at)] + 1} :
         at' = Append(at, t)
    /\ moved' = IF walk = "out" THEN {} ELSE moved \cup {"add"}
    /\ UNCHANGED <<list, gone, walk, page, shown, onList>>

Delete(entries) ==
    /\ entries # {} /\ gone' = gone \cup entries
    /\ moved' = IF walk = "out" THEN {} ELSE moved \cup {"delete"}
    /\ UNCHANGED <<list, at, walk, page, shown, onList>>

CreatePrompt == list = "prompts" /\ AddEntry
CreateReason == list = "reasons" /\ AddEntry      \* of a key that none has
CreateOther == list \in {"notifications", "companies"} /\ AddEntry

\* Any of one's notifications at once; a prompt or a reason at a time;
\* nothing deletes a company.
DeleteNotifications == list = "notifications" /\ \E S \in SUBSET There : Delete(S)
DeletePrompt == list = "prompts" /\ \E e \in There : Delete({e})
DeleteReason == list = "reasons" /\ \E e \in There : Delete({e})

-----------------------------------------------------------------------------
(* The queries.                                                            *)

Newer(S, T) == \A e \in S, f \in T : at[e] >= at[f]
Least(m, n) == IF m < n THEN m ELSE n

\* Mutation of Skip: the pages are counted from 0.
SkipFromZero(p) == p * PageLimit
Skip(p) == (p - 1) * PageLimit

\* What sort, skip and limit may give: entries of one createdAt come in any
\* order, in each query anew.
Pages(p) ==
    LET before == Least(Skip(p), Cardinality(There))
        size == Least(PageLimit, Cardinality(There) - before)
    IN {P \in SUBSET There :
          /\ Cardinality(P) = size
          /\ \E A \in SUBSET (There \ P) :
               /\ Cardinality(A) = before
               /\ Newer(A, P) /\ Newer(A \cup P, There \ (A \cup P))}

TotalPages(total) == (total + PageLimit - 1) \div PageLimit

Show(P) == shown' = [e \in DOMAIN shown |-> IF e \in P THEN shown[e] + 1 ELSE shown[e]]

\* The client goes on while there are pages.
TurnPage(total) == IF page < TotalPages(total) THEN page' = page + 1 /\ walk' = "asking"
                                               ELSE walk' = "done" /\ page' = page

\* A client opens a list (not an action of the code).
OpenList == /\ list = "none" /\ list' \in Lists
            /\ UNCHANGED <<at, gone, walk, page, shown, onList, moved>>
StartWalk == /\ walk = "out" /\ list # "none" /\ walk' = "asking" /\ onList' = There
             /\ UNCHANGED <<list, at, gone, page, shown, moved>>

\* $facet: the page and the total in one query.
AskNotifications ==
    /\ list = "notifications" /\ walk = "asking"
    /\ \E P \in Pages(page) : Show(P)
    /\ TurnPage(Cardinality(There))
    /\ UNCHANGED <<list, at, gone, onList, moved>>

AskReasons ==
    /\ list = "reasons" /\ walk = "asking"
    /\ \E P \in Pages(page) : Show(P)
    /\ TurnPage(Cardinality(There))
    /\ UNCHANGED <<list, at, gone, onList, moved>>

\* Without a limit, all of them and one page.
AskPrompts ==
    /\ list = "prompts" /\ walk = "asking"
    /\ \/ (\E P \in Pages(page) : Show(P)) /\ TurnPage(Cardinality(There))
       \/ page = 1 /\ Show(There) /\ walk' = "done" /\ page' = page
    /\ UNCHANGED <<list, at, gone, onList, moved>>

\* Two queries: the page, then the number of all companies.
AskCompanies ==
    /\ list = "companies" /\ walk = "asking"
    /\ \E P \in Pages(page) : Show(P)
    /\ walk' = "counting"
    /\ UNCHANGED <<list, at, gone, page, onList, moved>>
CountCompanies ==
    /\ walk = "counting" /\ TurnPage(Cardinality(There))
    /\ UNCHANGED <<list, at, gone, shown, onList, moved>>

PagedNext == \/ OpenList \/ StartWalk
             \/ CreatePrompt \/ CreateReason \/ CreateOther
             \/ DeleteNotifications \/ DeletePrompt \/ DeleteReason
             \/ AskNotifications \/ AskReasons \/ AskPrompts
             \/ AskCompanies \/ CountCompanies

PagedSpec == PagedInit /\ [][PagedNext]_pagedVars

-----------------------------------------------------------------------------
(* Properties.                                                             *)

\* Who walks through all the pages of a list (no two entries of one
\* createdAt) sees every entry that was there when the walk began, unless an
\* entry was deleted under way (the entries behind it move up, one of them to
\* a page already seen); and sees it once, unless one was added (the entries
\* move down, one of them to the next page).
PagesShowEach ==
    (/\ walk = "done" /\ "delete" \notin moved
     /\ \A e, f \in There : at[e] = at[f] => e = f) =>
        \A e \in onList : /\ shown[e] >= 1
                          /\ moved = {} => shown[e] = 1
=============================================================================
