------------------------ MODULE CompanyRecordsProofs ------------------------
(* Proofs about CompanyRecords, for any number of jobs, rows, requests and  *)
(* deliveries.                                                              *)
EXTENDS CompanyRecords, Integers, TLAPS

CndtStates == {NoCndt, "PENDING", "ERROR", "CONCLUDED"}

Waiting == \E d \in Certificates : certificate[d] = "post"

CertificateInv ==
    /\ companies \in Seq(CndtStates) /\ owed \in Nat
    /\ certificate \in [Certificates -> {"idle", "post", "answer"}]
    /\ concluded => companies # <<>>
    /\ CertificateAccounted

LEMMA CertificateInit == CompanyInit => CertificateInv
  BY DEF CompanyInit, CertificateInv, CertificateAccounted

\* Another document of the CNPJ changes nothing in the first one.
LEMMA CreatesKeeps ==
  ASSUME CertificateInv, NEW others, Creates(others), UNCHANGED certificateVars
  PROVE  CertificateInv'
  <1>1. companies' = Append(companies, NoCndt) /\ NoCndt \in CndtStates
    BY DEF Creates, CndtStates
  <1>2. /\ companies' \in Seq(CndtStates) /\ companies' # <<>>
        /\ companies # <<>> => companies'[1] = companies[1]
        /\ companies = <<>> => companies'[1] = NoCndt
    BY <1>1 DEF CertificateInv
  <1>3. companies'[1] = "PENDING" => companies # <<>> /\ companies[1] = "PENDING"
    BY <1>2 DEF NoCndt
  <1>4. QED
    BY <1>2, <1>3 DEF CertificateInv, CertificateAccounted, certificateVars

LEMMA FirstCndtType ==
  ASSUME companies \in Seq(CndtStates), NEW status \in CndtStates, FirstCndt(status)
  PROVE  /\ companies' \in Seq(CndtStates)
         /\ companies # <<>> => companies' # <<>> /\ companies'[1] = status
         /\ companies = <<>> => companies' = <<>>
  BY DEF FirstCndt

\* The steps of a request.
LEMMA RequestStep ==
  ASSUME CertificateInv, NEW d \in Certificates,
         \/ AskCertificate(d) \/ ScraperTakes(d) \/ PostAnswered(d)
         \/ PostFails(d) \/ RequestStops(d)
  PROVE  CertificateInv'
  <1>0. /\ companies \in Seq(CndtStates) /\ owed \in Nat
        /\ certificate \in [Certificates -> {"idle", "post", "answer"}]
    BY DEF CertificateInv
  <1>1. CASE AskCertificate(d)
    <2>1. /\ FirstCndt("PENDING") /\ "PENDING" \in CndtStates
          /\ certificate' = [certificate EXCEPT ![d] = "post"]
          /\ ~concluded' /\ owed' = owed
      BY <1>1 DEF AskCertificate, CndtStates
    <2>2. /\ companies' \in Seq(CndtStates) /\ certificate'[d] = "post"
          /\ certificate' \in [Certificates -> {"idle", "post", "answer"}]
      BY <1>0, <2>1, FirstCndtType
    <2>3. QED
      BY <1>0, <2>1, <2>2 DEF CertificateInv, CertificateAccounted
  <1>2. CASE ScraperTakes(d)
    <2>1. /\ certificate' = [certificate EXCEPT ![d] = "answer"] /\ owed' = owed + 1
          /\ UNCHANGED <<companies, concluded, lateError, lost>>
      BY <1>2 DEF ScraperTakes
    <2>2. owed' \in Nat /\ owed' > 0
      BY <1>0, <2>1
    <2>3. QED
      BY <1>0, <2>1, <2>2 DEF CertificateInv, CertificateAccounted
  <1>3. CASE PostAnswered(d)
    <2>1. /\ certificate[d] = "answer"
          /\ certificate' = [certificate EXCEPT ![d] = "idle"]
          /\ UNCHANGED <<companies, owed, concluded, lateError, lost>>
      BY <1>3 DEF PostAnswered
    <2>2. /\ certificate' \in [Certificates -> {"idle", "post", "answer"}]
          /\ Waiting => Waiting'
      BY <1>0, <2>1 DEF Waiting
    <2>3. QED
      BY <2>1, <2>2 DEF CertificateInv, CertificateAccounted, Waiting
  <1>4. CASE PostFails(d)
    <2>1. /\ FirstCndt("ERROR") /\ "ERROR" \in CndtStates
          /\ lateError' = (lateError \/ (companies # <<>> /\ companies[1] = "CONCLUDED"))
          /\ certificate' = [certificate EXCEPT ![d] = "idle"]
          /\ UNCHANGED <<owed, concluded, lost>>
      BY <1>4 DEF PostFails, CndtStates
    <2>2. /\ companies' \in Seq(CndtStates) /\ (companies # <<>> => companies' # <<>>)
          /\ companies' # <<>> => companies'[1] = "ERROR"
      BY <1>0, <2>1, FirstCndtType
    <2>3. concluded => lateError'
      BY <2>1 DEF CertificateInv, CertificateAccounted
    <2>4. certificate' \in [Certificates -> {"idle", "post", "answer"}]
      BY <1>0, <2>1
    <2>5. QED
      BY <1>0, <2>1, <2>2, <2>3, <2>4 DEF CertificateInv, CertificateAccounted
  <1>5. CASE RequestStops(d)
    BY <1>0, <1>5 DEF RequestStops, CertificateInv, CertificateAccounted
  <1>6. QED
    BY <1>1, <1>2, <1>3, <1>4, <1>5

LEMMA WithoutTypeStep ==
  ASSUME CertificateInv, AskWithoutType
  PROVE  CertificateInv'
  <1>1. /\ FirstCndt("ERROR") /\ "ERROR" \in CndtStates /\ ~concluded'
        /\ UNCHANGED <<certificate, owed, lost>>
    BY DEF AskWithoutType, CndtStates
  <1>2. /\ companies' \in Seq(CndtStates)
        /\ companies' # <<>> => companies'[1] = "ERROR"
    BY <1>1, FirstCndtType DEF CertificateInv
  <1>3. QED
    BY <1>1, <1>2 DEF CertificateInv, CertificateAccounted

LEMMA DeliverStep ==
  ASSUME CertificateInv, DeliverCertificate
  PROVE  CertificateInv'
  <1>1. companies # <<>> /\ Found = 1
    BY DEF DeliverCertificate, Found
  <1>2. companies' = [companies EXCEPT ![1] = "CONCLUDED"]
    BY <1>1 DEF DeliverCertificate
  <1>3. /\ companies' \in Seq(CndtStates) /\ companies' # <<>>
        /\ companies'[1] = "CONCLUDED"
    BY <1>1, <1>2 DEF CertificateInv, CndtStates
  <1>4. owed' \in Nat /\ certificate' = certificate
    BY DEF DeliverCertificate, ScraperSends, CertificateInv
  <1>5. QED
    BY <1>3, <1>4 DEF CertificateInv, CertificateAccounted

LEMMA CertificateStep ==
  CertificateInv /\ [CompanyNext]_companyVars => CertificateInv'
  <1> SUFFICES ASSUME CertificateInv, [CompanyNext]_companyVars
               PROVE  CertificateInv'
    OBVIOUS
  <1>0. ASSUME UNCHANGED <<companies, certificateVars>> PROVE CertificateInv'
    BY <1>0 DEF CertificateInv, CertificateAccounted, certificateVars
  <1>1. ASSUME NEW j \in Validations, FetchCompany(j) PROVE CertificateInv'
    BY <1>0, <1>1, CreatesKeeps DEF FetchCompany
  <1>2. ASSUME NEW u \in Uploads, WriteRow(u) PROVE CertificateInv'
    BY <1>0, <1>2, CreatesKeeps DEF WriteRow
  <1>3. CASE RefuseCertificate
    <2>1. /\ owed' \in Nat /\ lost'
          /\ UNCHANGED <<companies, certificate, concluded, lateError>>
      BY <1>3 DEF RefuseCertificate, ScraperSends, CertificateInv
    <2>2. QED
      BY <2>1 DEF CertificateInv, CertificateAccounted
  <1>4. CASE UNCHANGED companyVars
    BY <1>0, <1>4 DEF companyVars
  <1>5. ASSUME NEW j \in Validations, ReadCompanies(j) \/ ClaimCompany(j) \/ JobFails(j)
        PROVE  CertificateInv'
    BY <1>0, <1>5 DEF ReadCompanies, ClaimCompany, JobFails
  <1>6. ASSUME NEW u \in Uploads, ReadRow(u) PROVE CertificateInv'
    BY <1>0, <1>6 DEF ReadRow
  <1>7. QED
    BY <1>1, <1>2, <1>3, <1>4, <1>5, <1>6, RequestStep, WithoutTypeStep, DeliverStep
       DEF CompanyNext

\* Whatever requests of any type and deliveries overlap, a company is PENDING
\* only while a POST is on its way to the scraper or a certificate is owed,
\* unless a request stopped or a delivery was refused; and a delivered
\* certificate stays until the next request, unless one under way fails after
\* it (document.service.ts, and webhook.service.ts of the company module).
THEOREM Certificate == CompanySpec => []CertificateAccounted
  <1>1. CertificateInv => CertificateAccounted
    BY DEF CertificateInv
  <1>2. QED
    BY <1>1, CertificateInit, CertificateStep, PTL DEF CompanySpec

-----------------------------------------------------------------------------
(* One document and one claim.  Whoever is about to create the company is   *)
(* alone, and has found none; a job knows every claim of the lawsuit, as    *)
(* long as it is the only one, and claims a company it does not know of.    *)

Jobs == [at : {"idle", "fetch", "claim"}, known : Nat, claimed : SUBSET Nat,
         left : Int]
Claims == {claims[i] : i \in DOMAIN claims}

RecordsTypeOK == /\ companies \in Seq(CndtStates)
                 /\ claims \in Seq(Nat)
                 /\ job \in [Validations -> Jobs]
                 /\ row \in [Uploads -> {"idle", "create", "update"}]

CreatorAlone ==
    "create" \notin crossed =>
        /\ Len(companies) <= 1
        /\ companies # <<>> => JobsToCreate = {} /\ RowsToCreate = {}

KnownCompanies ==
    /\ \A c \in Claims : c \in 1..Len(companies)
    /\ \A j \in Validations : job[j].at # "idle" =>
         /\ job[j].known <= Len(companies)
         /\ job[j].claimed \subseteq 1..Len(companies)
         /\ job[j].at = "claim" => job[j].known # 0 /\ job[j].known \notin job[j].claimed

ClaimsKnown ==
    "claim" \notin crossed =>
        /\ \A j, k \in Validations : job[j].at # "idle" /\ job[k].at # "idle" => j = k
        /\ \A j \in Validations : job[j].at # "idle" => Claims \subseteq job[j].claimed
        /\ \A i, k \in DOMAIN claims : claims[i] = claims[k] => i = k

RecordInv == RecordsTypeOK /\ CreatorAlone /\ KnownCompanies /\ ClaimsKnown

LEMMA RecordInit == CompanyInit => RecordInv
  <1> SUFFICES ASSUME CompanyInit PROVE RecordInv
    OBVIOUS
  <1>1. NoJob \in Jobs /\ NoJob.at = "idle"
    BY DEF NoJob, Jobs
  <1>2. RecordsTypeOK
    BY <1>1 DEF CompanyInit, RecordsTypeOK
  <1>3. QED
    BY <1>1, <1>2 DEF CompanyInit, RecordInv, CreatorAlone, KnownCompanies,
                      ClaimsKnown, Claims

LEMMA PartDoneType ==
  ASSUME RecordsTypeOK, NEW j \in Validations, NEW id \in Nat,
         NEW claimed \in SUBSET Nat, PartDone(j, id, claimed)
  PROVE  /\ job' \in [Validations -> Jobs]
         /\ \A k \in Validations \ {j} : job'[k] = job[k]
         /\ \/ job'[j].at = "idle"
            \/ job'[j].at = "fetch" /\ job'[j].known = id /\ job'[j].claimed = claimed
  <1>1. NoJob \in Jobs /\ NoJob.at = "idle"
    BY DEF NoJob, Jobs
  <1>2. job[j].left \in Int
    BY DEF RecordsTypeOK, Jobs
  <1>3. [at |-> "fetch", known |-> id, claimed |-> claimed, left |-> job[j].left - 1]
          \in Jobs
    BY <1>2 DEF Jobs
  <1>4. CASE job[j].left = 1
    BY <1>1, <1>4 DEF PartDone, RecordsTypeOK
  <1>5. CASE job[j].left # 1
    BY <1>3, <1>5 DEF PartDone, RecordsTypeOK
  <1>6. QED
    BY <1>4, <1>5

\* A step in which no job acts, no document is made and no claim.
LEMMA OthersStep ==
  ASSUME RecordInv, UNCHANGED <<job, claims, crossed>>,
         companies' \in Seq(CndtStates), Len(companies') = Len(companies),
         row' \in [Uploads -> {"idle", "create", "update"}],
         companies # <<>> => RowsToCreate' \subseteq RowsToCreate
  PROVE  RecordInv'
  <1>1. RecordsTypeOK'
    BY DEF RecordInv, RecordsTypeOK
  <1>2. companies' # <<>> => companies # <<>>
    BY DEF RecordInv, RecordsTypeOK
  <1>3. CreatorAlone'
    BY <1>2 DEF RecordInv, CreatorAlone, JobsToCreate
  <1>4. KnownCompanies' /\ ClaimsKnown'
    BY DEF RecordInv, KnownCompanies, ClaimsKnown, Claims
  <1>5. QED
    BY <1>1, <1>3, <1>4 DEF RecordInv

\* One job goes on or ends, making neither a document nor a claim.
LEMMA JobStep ==
  ASSUME RecordInv, NEW j \in Validations, job[j].at # "idle",
         UNCHANGED <<companies, claims, row, crossed>>,
         job' \in [Validations -> Jobs],
         \A k \in Validations \ {j} : job'[k] = job[k],
         \/ job'[j].at = "idle"
         \/ /\ job'[j].known = job[j].known /\ job'[j].claimed = job[j].claimed
            /\ \/ job'[j].at = "fetch" /\ job[j].at = "fetch"
               \/ /\ job'[j].at = "claim" /\ job[j].known # 0
                  /\ job[j].known \notin job[j].claimed
  PROVE  RecordInv'
  <1>1. RecordsTypeOK'
    BY DEF RecordInv, RecordsTypeOK
  <1>2. JobsToCreate' \subseteq JobsToCreate
    BY DEF JobsToCreate
  <1>3. CreatorAlone'
    BY <1>2 DEF RecordInv, CreatorAlone, RowsToCreate
  <1>4. KnownCompanies'
    BY DEF RecordInv, KnownCompanies, Claims
  <1>5. ClaimsKnown'
    BY DEF RecordInv, ClaimsKnown, Claims
  <1>6. QED
    BY <1>1, <1>3, <1>4, <1>5 DEF RecordInv

LEMMA CreatesType ==
  ASSUME RecordInv, NEW others \in BOOLEAN, Creates(others)
  PROVE  /\ companies' \in Seq(CndtStates) /\ companies' # <<>>
         /\ Len(companies') = Len(companies) + 1 /\ Len(companies) \in Nat
         /\ "claim" \in crossed' <=> "claim" \in crossed
         /\ "create" \notin crossed' => ~others /\ "create" \notin crossed
         /\ 1..Len(companies) \subseteq 1..Len(companies')
  <1>1. companies \in Seq(CndtStates) /\ NoCndt \in CndtStates
    BY DEF RecordInv, RecordsTypeOK, CndtStates
  <1>2. companies' = Append(companies, NoCndt)
    BY DEF Creates
  <1>3. /\ companies' \in Seq(CndtStates) /\ companies' # <<>>
        /\ Len(companies') = Len(companies) + 1 /\ Len(companies) \in Nat
    BY <1>1, <1>2
  <1>4. 1..Len(companies) \subseteq 1..Len(companies')
    BY <1>3
  <1>5. crossed' = IF others THEN crossed \cup {"create"} ELSE crossed
    BY DEF Creates
  <1>6. "claim" \in crossed' <=> "claim" \in crossed
    BY <1>5
  <1>7. "create" \notin crossed' => ~others /\ "create" \notin crossed
    BY <1>5
  <1>8. QED
    BY <1>3, <1>4, <1>6, <1>7

LEMMA EmptyIfCreating ==
  ASSUME RecordInv, "create" \notin crossed, JobsToCreate # {} \/ RowsToCreate # {}
  PROVE  Len(companies) = 0
  BY DEF RecordInv, RecordsTypeOK, CreatorAlone

LEMMA ReadStep ==
  ASSUME RecordInv, NEW j \in Validations, ReadCompanies(j)
  PROVE  RecordInv'
  <1>1. PICK n \in 1..2 :
          job' = [job EXCEPT ![j] = [at |-> "fetch", known |-> Found, left |-> n,
                                  claimed |-> {claims[i] : i \in DOMAIN claims}]]
    BY DEF ReadCompanies
  <1>2. /\ UNCHANGED <<companies, claims, row>>
        /\ job[j].at = "idle"
        /\ crossed' = IF \E k \in Validations : job[k].at # "idle"
                      THEN crossed \cup {"claim"} ELSE crossed
    BY DEF ReadCompanies
  <1>3. Found \in Nat /\ Claims \subseteq Nat
    BY DEF Found, Claims, RecordInv, RecordsTypeOK
  <1>4. /\ job' \in [Validations -> Jobs] /\ job'[j].at = "fetch"
        /\ job'[j].known = Found /\ job'[j].claimed = Claims
        /\ \A k \in Validations \ {j} : job'[k] = job[k]
    BY <1>1, <1>3 DEF Jobs, RecordInv, RecordsTypeOK, Claims
  <1>5. RecordsTypeOK'
    BY <1>2, <1>4 DEF RecordInv, RecordsTypeOK
  <1>6. companies # <<>> => Found = 1 /\ JobsToCreate' = JobsToCreate
    BY <1>2, <1>4 DEF Found, JobsToCreate
  <1>7. CreatorAlone'
    BY <1>2, <1>6 DEF RecordInv, CreatorAlone, RowsToCreate
  <1>8. Found <= Len(companies)
    BY DEF Found, RecordInv, RecordsTypeOK
  <1>9. KnownCompanies'
    BY <1>2, <1>4, <1>8 DEF RecordInv, KnownCompanies, Claims
  <1>10. ClaimsKnown'
    BY <1>2, <1>4 DEF RecordInv, ClaimsKnown, Claims
  <1>11. QED
    BY <1>5, <1>7, <1>9, <1>10 DEF RecordInv

LEMMA FetchStep ==
  ASSUME RecordInv, NEW j \in Validations, FetchCompany(j)
  PROVE  RecordInv'
  <1>0. /\ job[j].at = "fetch" /\ UNCHANGED <<claims, row>>
        /\ job[j] \in Jobs /\ RecordsTypeOK
    BY DEF FetchCompany, RecordInv, RecordsTypeOK
  <1>1. CASE PartDone(j, job[j].known, job[j].claimed) /\ UNCHANGED <<companies, crossed>>
    <2>1. job[j].known \in Nat /\ job[j].claimed \in SUBSET Nat
      BY <1>0 DEF Jobs
    <2>2. QED
      BY <1>0, <1>1, <2>1, PartDoneType, JobStep
  <1>2. CASE /\ job[j].known # 0 /\ job[j].known \notin job[j].claimed
             /\ job' = [job EXCEPT ![j].at = "claim"]
             /\ UNCHANGED <<companies, crossed>>
    <2>1. /\ job' \in [Validations -> Jobs] /\ job'[j].at = "claim"
          /\ job'[j].known = job[j].known /\ job'[j].claimed = job[j].claimed
          /\ \A k \in Validations \ {j} : job'[k] = job[k]
      BY <1>0, <1>2 DEF RecordsTypeOK, Jobs
    <2>2. QED
      BY <1>0, <1>2, <2>1, JobStep
  <1>3. CASE /\ job[j].known = 0
             /\ Creates(JobsToCreate # {j} \/ RowsToCreate # {})
             /\ job' = [job EXCEPT ![j].at = "claim", ![j].known = Len(companies) + 1]
    <2>1. /\ companies' \in Seq(CndtStates)
          /\ Len(companies') = Len(companies) + 1 /\ Len(companies) \in Nat
          /\ 1..Len(companies) \subseteq 1..Len(companies')
          /\ "claim" \in crossed' <=> "claim" \in crossed
          /\ "create" \notin crossed' => /\ JobsToCreate = {j} /\ RowsToCreate = {}
                                        /\ "create" \notin crossed
      BY <1>3, CreatesType
    <2>2. [job[j] EXCEPT !.at = "claim", !.known = Len(companies) + 1] \in Jobs
      <3>1. \A m \in Jobs, n \in Nat : [m EXCEPT !.at = "claim", !.known = n] \in Jobs
        BY DEF Jobs
      <3>2. Len(companies) + 1 \in Nat
        BY <2>1
      <3>3. QED
        BY <1>0, <3>1, <3>2
    <2>3. job' = [job EXCEPT ![j] = [job[j] EXCEPT !.at = "claim",
                                                !.known = Len(companies) + 1]]
      BY <1>0, <1>3 DEF RecordsTypeOK
    <2>4. /\ [job[j] EXCEPT !.at = "claim", !.known = Len(companies) + 1].at = "claim"
          /\ [job[j] EXCEPT !.at = "claim", !.known = Len(companies) + 1].known
                = Len(companies) + 1
          /\ [job[j] EXCEPT !.at = "claim", !.known = Len(companies) + 1].claimed
                = job[j].claimed
      BY <1>0 DEF Jobs
    <2>5. /\ job' \in [Validations -> Jobs] /\ job'[j].at = "claim"
          /\ job'[j].known = Len(companies) + 1 /\ job'[j].claimed = job[j].claimed
          /\ \A k \in Validations \ {j} : job'[k] = job[k]
      BY <1>0, <2>2, <2>3, <2>4 DEF RecordsTypeOK
    <2>6. RecordsTypeOK'
      BY <1>0, <2>1, <2>5 DEF RecordsTypeOK
    <2>7. CreatorAlone'
      <3> SUFFICES ASSUME "create" \notin crossed'
                   PROVE  /\ Len(companies') <= 1
                          /\ JobsToCreate' = {} /\ RowsToCreate' = {}
        BY DEF CreatorAlone
      <3>1. Len(companies) = 0
        BY <2>1, EmptyIfCreating
      <3>2. JobsToCreate' = {}
        BY <2>1, <2>5 DEF JobsToCreate
      <3>3. QED
        BY <1>0, <2>1, <3>1, <3>2 DEF RowsToCreate
    <2>8. KnownCompanies'
      <3>1. \A k \in Validations : job[k].known \in Nat
        BY <1>0 DEF RecordsTypeOK, Jobs
      <3>2. Claims' = Claims
        BY <1>0 DEF Claims
      <3>3. ASSUME NEW k \in Validations, job'[k].at # "idle"
            PROVE  /\ job'[k].known <= Len(companies')
                   /\ job'[k].claimed \subseteq 1..Len(companies')
                   /\ job'[k].at = "claim" => job'[k].known # 0
                                            /\ job'[k].known \notin job'[k].claimed
        <4>1. CASE k = j
          <5>1. job[j].claimed \subseteq 1..Len(companies)
            BY <1>0 DEF RecordInv, KnownCompanies
          <5>2. Len(companies) + 1 \notin 1..Len(companies) /\ Len(companies) + 1 # 0
            BY <2>1
          <5>3. QED
            BY <2>1, <2>5, <4>1, <5>1, <5>2
        <4>2. CASE k # j
          BY <2>1, <2>5, <3>1, <3>3, <4>2 DEF RecordInv, KnownCompanies
        <4>3. QED
          BY <4>1, <4>2
      <3>4. QED
        BY <2>1, <3>2, <3>3 DEF RecordInv, KnownCompanies
    <2>9. ClaimsKnown'
      BY <1>0, <2>1, <2>5 DEF RecordInv, ClaimsKnown, Claims
    <2>10. QED
      BY <2>6, <2>7, <2>8, <2>9 DEF RecordInv
  <1>4. QED
    BY <1>1, <1>2, <1>3 DEF FetchCompany

LEMMA ClaimStep ==
  ASSUME RecordInv, NEW j \in Validations, ClaimCompany(j)
  PROVE  RecordInv'
  <1>0. /\ job[j].at = "claim" /\ UNCHANGED <<companies, row, crossed>>
        /\ claims' = Append(claims, job[j].known)
        /\ PartDone(j, job[j].known, job[j].claimed \cup {job[j].known})
        /\ RecordsTypeOK
    BY DEF ClaimCompany, ClaimedAfter, RecordInv
  <1>1. job[j].known \in Nat /\ job[j].claimed \in SUBSET Nat
    BY <1>0 DEF RecordsTypeOK, Jobs
  <1>2. /\ claims' \in Seq(Nat) /\ Len(claims') = Len(claims) + 1
        /\ claims'[Len(claims) + 1] = job[j].known
        /\ \A i \in 1..Len(claims) : claims'[i] = claims[i]
    BY <1>0, <1>1 DEF RecordsTypeOK
  <1>3. DOMAIN claims = 1..Len(claims) /\ DOMAIN claims' = 1..(Len(claims) + 1)
        /\ Len(claims) \in Nat
    BY <1>0, <1>2 DEF RecordsTypeOK
  <1>4. Claims' = Claims \cup {job[j].known}
    BY <1>2, <1>3 DEF Claims
  <1>5. /\ job' \in [Validations -> Jobs]
        /\ \A k \in Validations \ {j} : job'[k] = job[k]
        /\ \/ job'[j].at = "idle"
           \/ /\ job'[j].at = "fetch" /\ job'[j].known = job[j].known
              /\ job'[j].claimed = job[j].claimed \cup {job[j].known}
    BY <1>0, <1>1, PartDoneType
  <1>6. /\ job[j].known \in 1..Len(companies)
        /\ job[j].known \notin job[j].claimed
    BY <1>0, <1>1 DEF RecordInv, KnownCompanies
  <1>7. RecordsTypeOK'
    BY <1>0, <1>2, <1>5 DEF RecordsTypeOK
  <1>8. JobsToCreate' \subseteq JobsToCreate
    BY <1>5, <1>6 DEF JobsToCreate
  <1>9. CreatorAlone'
    BY <1>0, <1>8 DEF RecordInv, CreatorAlone, RowsToCreate
  <1>10. KnownCompanies'
    BY <1>0, <1>4, <1>5, <1>6 DEF RecordInv, KnownCompanies
  <1>11. ClaimsKnown'
    <2> SUFFICES ASSUME "claim" \notin crossed PROVE ClaimsKnown'
      BY <1>0 DEF ClaimsKnown
    <2>1. /\ \A k \in Validations : job[k].at # "idle" => k = j
          /\ Claims \subseteq job[j].claimed
          /\ \A i, k \in DOMAIN claims : claims[i] = claims[k] => i = k
      BY <1>0 DEF RecordInv, ClaimsKnown
    <2>2. \A i \in 1..Len(claims) : claims[i] # job[j].known
      BY <1>3, <1>6, <2>1 DEF Claims
    <2>3. \A i, k \in DOMAIN claims' : claims'[i] = claims'[k] => i = k
      BY <1>2, <1>3, <2>1, <2>2
    <2>4. QED
      BY <1>4, <1>5, <2>1, <2>3 DEF ClaimsKnown
  <1>12. QED
    BY <1>7, <1>9, <1>10, <1>11 DEF RecordInv

LEMMA WriteRowStep ==
  ASSUME RecordInv, NEW u \in Uploads, WriteRow(u)
  PROVE  RecordInv'
  <1>0. /\ row' = [row EXCEPT ![u] = "idle"] /\ UNCHANGED <<claims, job>>
        /\ RecordsTypeOK
    BY DEF WriteRow, RecordInv
  <1>1. /\ row' \in [Uploads -> {"idle", "create", "update"}]
        /\ RowsToCreate' = RowsToCreate \ {u}
    BY <1>0 DEF RecordsTypeOK, RowsToCreate
  <1>2. CASE UNCHANGED <<companies, crossed>>
    BY <1>0, <1>1, <1>2, OthersStep DEF RecordsTypeOK
  <1>3. CASE row[u] = "create" /\ Creates(JobsToCreate # {} \/ RowsToCreate # {u})
    <2>1. /\ companies' \in Seq(CndtStates)
          /\ Len(companies') = Len(companies) + 1 /\ Len(companies) \in Nat
          /\ 1..Len(companies) \subseteq 1..Len(companies')
          /\ "claim" \in crossed' <=> "claim" \in crossed
          /\ "create" \notin crossed' => /\ JobsToCreate = {} /\ RowsToCreate = {u}
                                        /\ "create" \notin crossed
      BY <1>3, CreatesType
    <2>2. RecordsTypeOK'
      BY <1>0, <1>1, <2>1 DEF RecordsTypeOK
    <2>3. CreatorAlone'
      <3> SUFFICES ASSUME "create" \notin crossed'
                   PROVE  /\ Len(companies') <= 1
                          /\ JobsToCreate' = {} /\ RowsToCreate' = {}
        BY DEF CreatorAlone
      <3>1. Len(companies) = 0
        BY <2>1, EmptyIfCreating
      <3>2. QED
        BY <1>0, <1>1, <2>1, <3>1 DEF JobsToCreate
    <2>4. KnownCompanies'
      <3>1. \A k \in Validations : job[k].known \in Nat
        BY <1>0 DEF RecordsTypeOK, Jobs
      <3>2. Claims' = Claims
        BY <1>0 DEF Claims
      <3>3. QED
        BY <1>0, <2>1, <3>1, <3>2 DEF RecordInv, KnownCompanies
    <2>5. ClaimsKnown'
      BY <1>0, <2>1 DEF RecordInv, ClaimsKnown, Claims
    <2>6. QED
      BY <2>2, <2>3, <2>4, <2>5 DEF RecordInv
  <1>4. QED
    BY <1>2, <1>3 DEF WriteRow

LEMMA RecordStep == RecordInv /\ [CompanyNext]_companyVars => RecordInv'
  <1> SUFFICES ASSUME RecordInv, [CompanyNext]_companyVars PROVE RecordInv'
    OBVIOUS
  <1>0. RecordsTypeOK
    BY DEF RecordInv
  <1>1. ASSUME NEW j \in Validations, JobFails(j) PROVE RecordInv'
    <2>1. /\ job' = [job EXCEPT ![j] = NoJob] /\ job[j].at # "idle"
          /\ UNCHANGED <<companies, claims, row, crossed>>
          /\ NoJob \in Jobs /\ NoJob.at = "idle"
      BY <1>1 DEF JobFails, NoJob, Jobs
    <2>2. /\ job' \in [Validations -> Jobs] /\ job'[j].at = "idle"
          /\ \A k \in Validations \ {j} : job'[k] = job[k]
      BY <1>0, <2>1 DEF RecordsTypeOK
    <2>3. QED
      BY <2>1, <2>2, JobStep
  <1>2. ASSUME NEW u \in Uploads, ReadRow(u) PROVE RecordInv'
    <2>1. row' \in [Uploads -> {"idle", "create", "update"}]
      BY <1>0, <1>2 DEF ReadRow, RecordsTypeOK
    <2>2. companies # <<>> => RowsToCreate' \subseteq RowsToCreate
      BY <1>0, <1>2 DEF ReadRow, RecordsTypeOK, RowsToCreate, Found
    <2>3. UNCHANGED <<companies, claims, job, crossed>>
      BY <1>2 DEF ReadRow
    <2>4. QED
      BY <1>0, <2>1, <2>2, <2>3, OthersStep DEF RecordsTypeOK
  <1>3. ASSUME NEW status \in CndtStates, FirstCndt(status) \/ UNCHANGED companies,
               UNCHANGED <<claims, job, row, crossed>>
        PROVE  RecordInv'
    <2>1. companies' \in Seq(CndtStates) /\ Len(companies') = Len(companies)
      BY <1>0, <1>3 DEF FirstCndt, RecordsTypeOK
    <2>2. RowsToCreate' = RowsToCreate
      BY <1>3 DEF RowsToCreate
    <2>3. QED
      BY <1>0, <1>3, <2>1, <2>2, OthersStep DEF RecordsTypeOK
  <1>4. ASSUME NEW d \in Certificates,
               \/ AskCertificate(d) \/ ScraperTakes(d) \/ PostAnswered(d)
               \/ PostFails(d) \/ RequestStops(d)
        PROVE  RecordInv'
    <2>1. \E status \in {"PENDING", "ERROR"} :
            FirstCndt(status) \/ UNCHANGED companies
      BY <1>4 DEF AskCertificate, ScraperTakes, PostAnswered, PostFails, RequestStops
    <2>2. UNCHANGED <<claims, job, row, crossed>>
      BY <1>4 DEF AskCertificate, ScraperTakes, PostAnswered, PostFails, RequestStops
    <2>3. QED
      BY <1>3, <2>1, <2>2 DEF CndtStates
  <1>5. CASE AskWithoutType
    BY <1>3, <1>5 DEF AskWithoutType, CndtStates
  <1>6. CASE RefuseCertificate
    <2>1. "ERROR" \in CndtStates
      BY DEF CndtStates
    <2>2. QED
      BY <1>3, <1>6, <2>1 DEF RefuseCertificate
  <1>7. CASE DeliverCertificate
    <2>1. companies # <<>> /\ Found = 1
      BY <1>7 DEF DeliverCertificate, Found
    <2>2. FirstCndt("CONCLUDED") /\ UNCHANGED <<claims, job, row, crossed>>
      BY <1>7, <2>1 DEF DeliverCertificate, FirstCndt
    <2>3. "CONCLUDED" \in CndtStates
      BY DEF CndtStates
    <2>4. QED
      BY <1>3, <2>2, <2>3
  <1>8. CASE UNCHANGED companyVars
    <2>1. RowsToCreate' = RowsToCreate
      BY <1>8 DEF companyVars, RowsToCreate
    <2>2. QED
      BY <1>0, <1>8, <2>1, OthersStep DEF companyVars, RecordsTypeOK
  <1>9. QED
    BY <1>1, <1>2, <1>4, <1>5, <1>8, <1>6, <1>7, ReadStep, FetchStep, ClaimStep,
       WriteRowStep
       DEF CompanyNext

\* A CNPJ has one document and one claim, however often the parts name it
\* and wherever jobs fail, unless two of those that make them overlap.
THEOREM Records == CompanySpec => []OneRecordEach
  <1>1. RecordInv => OneRecordEach
    BY DEF RecordInv, CreatorAlone, ClaimsKnown, OneRecordEach
  <1>2. QED
    BY <1>1, RecordInit, RecordStep, PTL DEF CompanySpec
=============================================================================
