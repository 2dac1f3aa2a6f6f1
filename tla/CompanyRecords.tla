--------------------------- MODULE CompanyRecords ---------------------------
(***************************************************************************)
(* ONE company, by its CNPJ, and ONE lawsuit that claims it: the solvency  *)
(* validation (SolvencyValidationService), the spreadsheet upload, and the *)
(* CNDT certificate that is asked of the scraper and delivered to a        *)
(* webhook.  No index makes the CNPJ unique.                               *)
(***************************************************************************)
EXTENDS Naturals, Sequences, FiniteSets

CONSTANTS
    Validations,      \* validation jobs running at a time
    Uploads,          \* spreadsheet rows with this CNPJ handled at a time
    Certificates,     \* certificate requests running at a time
    CompaniesBound,   \* bound: company documents
    CompanyRequests,  \* bound: jobs, rows and requests altogether
    WebhooksBound     \* bound: calls of the webhook

ASSUME CompanyAssumption == /\ CompaniesBound \in Nat /\ CompanyRequests \in Nat
                            /\ WebhooksBound \in Nat

VARIABLES
    companies,   \* cndt of each document, in the order they were inserted
    claims,      \* claimedprocesses of the lawsuit: the companies, in order
    job,         \* the validation jobs
    row,         \* the spreadsheet rows: "idle", "create" or "update"
    certificate, \* the certificate requests: "idle", "post" (PENDING is written
                 \* and the POST under way) or "answer" (the scraper has it)
    owed,        \* certificates that the scraper was asked for and has not sent
    requests, delivered,
    crossed,     \* history: "create": two that had found no company overlapped
                 \* while one made it; "claim": two jobs overlapped
    concluded,   \* history: a certificate was delivered, and no request since
    lateError,   \* history: a request failed after a certificate had come
    lost         \* history: a request stopped before the scraper had it, or a
                 \* delivery was refused

certificateVars == <<certificate, owed, delivered, concluded, lateError, lost>>
companyVars == <<companies, claims, job, row, requests, crossed, certificateVars>>

NoJob == [at |-> "idle", known |-> 0, claimed |-> {}, left |-> 0]
NoCndt == "none"

CompanyInit == /\ companies = <<>> /\ claims = <<>>
               /\ job = [j \in Validations |-> NoJob]
               /\ row = [u \in Uploads |-> "idle"]
               /\ certificate = [d \in Certificates |-> "idle"]
               /\ owed = 0 /\ requests = 0 /\ delivered = 0 /\ crossed = {}
               /\ concluded = FALSE /\ lateError = FALSE /\ lost = FALSE

Begins == requests < CompanyRequests /\ requests' = requests + 1

\* findOne({cnpj}), the first document, or 0.
Found == IF companies = <<>> THEN 0 ELSE 1

\* A creation, while those of others are on their way or not.
Creates(others) ==
    /\ Len(companies) < CompaniesBound
    /\ companies' = Append(companies, NoCndt)
    /\ crossed' = IF others THEN crossed \cup {"create"} ELSE crossed

JobsToCreate == {j \in Validations : job[j].at = "fetch" /\ job[j].known = 0}
RowsToCreate == {u \in Uploads : row[u] = "create"}

-----------------------------------------------------------------------------
\* The lawsuit's parts name the CNPJ once or twice; the companies and the
\* claims are read for all of them beforehand.
ReadCompanies(j) ==
    /\ job[j].at = "idle" /\ Begins
    /\ \E n \in 1..2 :
         job' = [job EXCEPT ![j] =
             [at |-> "fetch", known |-> Found, left |-> n,
              claimed |-> {claims[i] : i \in DOMAIN claims}]]
    /\ crossed' = IF \E k \in Validations : job[k].at # "idle"
                  THEN crossed \cup {"claim"} ELSE crossed
    /\ UNCHANGED <<companies, claims, row, certificateVars>>

\* The part is done; after the last one the job goes on to the parts' update
\* and the status.
PartDone(j, id, claimed) ==
    job' = [job EXCEPT ![j] =
        IF job[j].left = 1 THEN NoJob
        ELSE [at |-> "fetch", known |-> id, claimed |-> claimed, left |-> job[j].left - 1]]

\* fetchCompany: no answer after its tries, or nothing found, skips the part.
\* Otherwise a known company is updated, its claim made first if the job
\* knows none; an unknown one is created.
FetchCompany(j) ==
    /\ job[j].at = "fetch"
    /\ \/ /\ PartDone(j, job[j].known, job[j].claimed)
          /\ UNCHANGED <<companies, crossed>>
       \/ /\ job[j].known # 0 /\ job[j].known \in job[j].claimed
          /\ PartDone(j, job[j].known, job[j].claimed)
          /\ UNCHANGED <<companies, crossed>>
       \/ /\ job[j].known # 0 /\ job[j].known \notin job[j].claimed
          /\ job' = [job EXCEPT ![j].at = "claim"]
          /\ UNCHANGED <<companies, crossed>>
       \/ /\ job[j].known = 0
          /\ Creates(JobsToCreate # {j} \/ RowsToCreate # {})
          /\ job' = [job EXCEPT ![j].at = "claim", ![j].known = Len(companies) + 1]
    /\ UNCHANGED <<claims, row, requests, certificateVars>>

\* Mutation of ClaimedAfter: the set is not given the new claim.
ClaimedAfterNothing(j) == job[j].claimed

ClaimedAfter(j) == job[j].claimed \cup {job[j].known}

\* The claim; what follows it changes nothing that is modelled.
ClaimCompany(j) ==
    /\ job[j].at = "claim"
    /\ claims' = Append(claims, job[j].known)
    /\ PartDone(j, job[j].known, ClaimedAfter(j))
    /\ UNCHANGED <<companies, row, requests, crossed, certificateVars>>

\* A write fails or the process stops: what was written stays.
JobFails(j) ==
    /\ job[j].at # "idle"
    /\ job' = [job EXCEPT ![j] = NoJob]
    /\ UNCHANGED <<companies, claims, row, requests, crossed, certificateVars>>

\* UploadXLSXCompanyService: findOne, and then create or updateOne.
ReadRow(u) ==
    /\ row[u] = "idle" /\ Begins
    /\ row' = [row EXCEPT ![u] = IF Found = 0 THEN "create" ELSE "update"]
    /\ UNCHANGED <<companies, claims, job, crossed, certificateVars>>

WriteRow(u) ==
    /\ row[u] # "idle"
    /\ IF row[u] = "create" THEN Creates(JobsToCreate # {} \/ RowsToCreate # {u})
                       ELSE UNCHANGED <<companies, crossed>>
    /\ row' = [row EXCEPT ![u] = "idle"]
    /\ UNCHANGED <<claims, job, requests, certificateVars>>

-----------------------------------------------------------------------------
\* updateOne({cnpj}): the first document, if there is one.
FirstCndt(status) == companies' = IF companies = <<>> THEN companies
                                  ELSE [companies EXCEPT ![1] = status]

\* DocumentService, type cndt: PENDING, then the POST to the scraper.
AskCertificate(d) ==
    /\ certificate[d] = "idle" /\ Begins
    /\ FirstCndt("PENDING")
    /\ certificate' = [certificate EXCEPT ![d] = "post"]
    /\ concluded' = FALSE /\ lateError' = FALSE /\ lost' = FALSE
    /\ UNCHANGED <<claims, job, row, crossed, owed, delivered>>

\* Without a type, which the controller does not ask for, it throws where its
\* own catch writes ERROR; so does a write of PENDING that fails.  A request
\* of another type changes nothing.
AskWithoutType ==
    /\ Begins
    /\ FirstCndt("ERROR")
    /\ concluded' = FALSE /\ lateError' = FALSE
    /\ UNCHANGED <<claims, job, row, crossed, certificate, owed, delivered, lost>>

\* The scraper has the POST, and owes a certificate from here on.
ScraperTakes(d) ==
    /\ certificate[d] = "post"
    /\ certificate' = [certificate EXCEPT ![d] = "answer"] /\ owed' = owed + 1
    /\ UNCHANGED <<companies, claims, job, row, requests, crossed, delivered,
                   concluded, lateError, lost>>

\* Mutation of PostAnswered: PENDING is written when the POST was answered.
AnsweredPending(d) ==
    /\ certificate[d] = "answer"
    /\ FirstCndt("PENDING")
    /\ certificate' = [certificate EXCEPT ![d] = "idle"]
    /\ UNCHANGED <<claims, job, row, requests, crossed, owed, delivered,
                   concluded, lateError, lost>>

PostAnswered(d) ==
    /\ certificate[d] = "answer"
    /\ certificate' = [certificate EXCEPT ![d] = "idle"]
    /\ UNCHANGED <<companies, claims, job, row, requests, crossed, owed, delivered,
                   concluded, lateError, lost>>

\* The POST does not arrive, is refused, or its answer is lost or late: ERROR,
\* even over a certificate that came meanwhile.
PostFails(d) ==
    /\ certificate[d] # "idle"
    /\ FirstCndt("ERROR")
    /\ lateError' = (lateError \/ (companies # <<>> /\ companies[1] = "CONCLUDED"))
    /\ certificate' = [certificate EXCEPT ![d] = "idle"]
    /\ UNCHANGED <<claims, job, row, requests, crossed, owed, delivered,
                   concluded, lost>>

\* The process stops in between, or the write of ERROR fails too.
RequestStops(d) ==
    /\ certificate[d] = "post"
    /\ certificate' = [certificate EXCEPT ![d] = "idle"] /\ lost' = TRUE
    /\ UNCHANGED <<companies, claims, job, row, requests, crossed, owed, delivered,
                   concluded, lateError>>

\* The scraper sends a certificate that it owes, or one that it has sent before.
ScraperSends ==
    /\ delivered < WebhooksBound /\ delivered' = delivered + 1
    /\ \/ owed > 0 /\ owed' = owed - 1
       \/ delivered > 0 /\ owed' = owed

\* WebhookService of the company module: CONCLUDED and the link.
DeliverCertificate ==
    /\ ScraperSends /\ Found # 0
    /\ companies' = [companies EXCEPT ![Found] = "CONCLUDED"]
    /\ concluded' = TRUE /\ lateError' = FALSE
    /\ UNCHANGED <<claims, job, row, requests, crossed, certificate, lost>>

\* No CNPJ or link in it, company not found, or a query that fails: refused.
RefuseCertificate ==
    /\ ScraperSends /\ lost' = TRUE
    /\ UNCHANGED <<companies, claims, job, row, requests, crossed, certificate,
                   concluded, lateError>>

CompanyNext ==
    \/ \E j \in Validations : ReadCompanies(j) \/ FetchCompany(j) \/ ClaimCompany(j)
                              \/ JobFails(j)
    \/ \E u \in Uploads : ReadRow(u) \/ WriteRow(u)
    \/ \E d \in Certificates : AskCertificate(d) \/ ScraperTakes(d) \/ PostAnswered(d)
                               \/ PostFails(d) \/ RequestStops(d)
    \/ AskWithoutType \/ DeliverCertificate \/ RefuseCertificate

CompanySpec == CompanyInit /\ [][CompanyNext]_companyVars

-----------------------------------------------------------------------------
(* Properties.                                                             *)

\* A CNPJ has one company document and a lawsuit claims it once, although
\* nothing in the database says so: also when the lawsuit's parts name the
\* CNPJ twice and when jobs fail half-way.  Unless two jobs or spreadsheet
\* rows overlap.
OneRecordEach ==
    /\ "create" \notin crossed => Len(companies) <= 1
    /\ "claim" \notin crossed =>
         \A i, k \in DOMAIN claims : claims[i] = claims[k] => i = k

\* A company does not stay PENDING with nothing on its way: there is a request
\* whose POST the scraper does not have yet, or a certificate that the scraper
\* owes, however the webhook overtakes the answer of the POST that it belongs
\* to and requests overlap; unless a request stopped in between or a delivery
\* was refused.  And what was delivered stays until the next request, of
\* whatever type; unless a request that was under way fails after it.
CertificateAccounted ==
    /\ companies # <<>> /\ companies[1] = "PENDING" =>
         (\E d \in Certificates : certificate[d] = "post") \/ owed > 0 \/ lost
    /\ concluded /\ ~lateError => companies[1] = "CONCLUDED"
=============================================================================
