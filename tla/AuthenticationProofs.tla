------------------------ MODULE AuthenticationProofs ------------------------
(* Proofs about LoginLock, UserSessions and UserAccounts, the three         *)
(* components of authentication.                                           *)
EXTENDS LoginLock, UserSessions, UserAccounts, FiniteSetTheorems, SequenceTheorems,
        TLAPS

-----------------------------------------------------------------------------
(* LoginLock: any finite set of logins that run at a time, any MAX_ATTEMPTS *)
(* above one and any number of logins that die.                            *)

LEMMA LoginInitType == LoginInit => LoginTypeOK
  <1> SUFFICES ASSUME LoginInit PROVE LoginTypeOK
    OBVIOUS
  <1>1. login \in [Logins -> LoginSteps]
    BY DEF LoginInit, LoginSteps
  <1>2. expiring \in BOOLEAN /\ locked \in BOOLEAN /\ strayed \in BOOLEAN
    BY DEF LoginInit
  <1>3. QED
    BY <1>1, <1>2 DEF LoginInit, LoginTypeOK

LEMMA LoginStepType ==
  ASSUME LoginTypeOK, NEW l \in Logins, NEW step \in LoginSteps, LoginAt(l, step)
  PROVE  login' \in [Logins -> LoginSteps]
  BY DEF LoginTypeOK, LoginAt

LEMMA LoginNextType == LoginTypeOK /\ [LoginNext]_loginVars => LoginTypeOK'
  <1> SUFFICES ASSUME LoginTypeOK, [LoginNext]_loginVars PROVE LoginTypeOK'
    OBVIOUS
  <1> USE DEF LoginTypeOK
  <1>1. ASSUME NEW l \in Logins, CheckLock(l) PROVE LoginTypeOK'
    BY <1>1, LoginStepType DEF CheckLock, LoginSteps
  <1>2. ASSUME NEW l \in Logins, Compare(l) PROVE LoginTypeOK'
    BY <1>2, LoginStepType DEF Compare, LoginSteps
  <1>3. ASSUME NEW l \in Logins, FailIncr(l) PROVE LoginTypeOK'
    <2>1. AfterIncr(attempts + 1) \in LoginSteps
      BY DEF AfterIncr, LoginSteps
    <2>2. QED
      BY <1>3, <2>1, LoginStepType DEF FailIncr
  <1>4. ASSUME NEW l \in Logins, FailExpire(l) PROVE LoginTypeOK'
    BY <1>4, LoginStepType DEF FailExpire, LoginSteps
  <1>5. ASSUME NEW l \in Logins, FailLock(l) PROVE LoginTypeOK'
    BY <1>5, LoginStepType DEF FailLock, LoginSteps
  <1>6. ASSUME NEW l \in Logins, ClearCounter(l) PROVE LoginTypeOK'
    BY <1>6, LoginStepType DEF ClearCounter, NoCounter, LoginSteps
  <1>7. ASSUME NEW l \in Logins, LoginStops(l) PROVE LoginTypeOK'
    BY <1>7, LoginStepType DEF LoginStops, LoginSteps
  <1>8. CASE CounterRunsOut
    BY <1>8 DEF CounterRunsOut, NoCounter
  <1>9. CASE LockRunsOut
    BY <1>9 DEF LockRunsOut
  <1>10. CASE UNCHANGED loginVars
    BY <1>10 DEF loginVars
  <1>11. QED
    BY <1>1, <1>2, <1>3, <1>4, <1>5, <1>6, <1>7, <1>8, <1>9, <1>10 DEF LoginNext

\* Type correctness: every variable of the lock keeps its type.
THEOREM LoginTypeCorrect == LoginSpec => []LoginTypeOK
  BY LoginInitType, LoginNextType, PTL DEF LoginSpec

-----------------------------------------------------------------------------
(* The counter's time to live.  CounterWillExpire is inductive: an attempt  *)
(* that makes the counter is itself the login that will give it its TTL.    *)

LEMMA WillExpireStep ==
  LoginTypeOK /\ CounterWillExpire /\ [LoginNext]_loginVars => CounterWillExpire'
  <1> SUFFICES ASSUME LoginTypeOK, CounterWillExpire, [LoginNext]_loginVars
               PROVE  CounterWillExpire'
    OBVIOUS
  <1> USE DEF LoginTypeOK, CounterWillExpire, LoginAt
  <1>1. ASSUME NEW l \in Logins, CheckLock(l) PROVE CounterWillExpire'
    BY <1>1 DEF CheckLock
  <1>2. ASSUME NEW l \in Logins, Compare(l) PROVE CounterWillExpire'
    BY <1>2 DEF Compare
  <1>3. ASSUME NEW l \in Logins, FailIncr(l) PROVE CounterWillExpire'
    <2>1. CASE attempts = 0
      BY <1>3, <2>1 DEF FailIncr, AfterIncr
    <2>2. CASE attempts > 0
      BY <1>3, <2>2 DEF FailIncr
    <2>3. QED
      BY <2>1, <2>2
  <1>4. ASSUME NEW l \in Logins, FailExpire(l) PROVE CounterWillExpire'
    BY <1>4 DEF FailExpire
  <1>5. ASSUME NEW l \in Logins, FailLock(l) PROVE CounterWillExpire'
    BY <1>5 DEF FailLock
  <1>6. ASSUME NEW l \in Logins, ClearCounter(l) PROVE CounterWillExpire'
    BY <1>6 DEF ClearCounter, NoCounter
  <1>7. ASSUME NEW l \in Logins, LoginStops(l) PROVE CounterWillExpire'
    BY <1>7 DEF LoginStops
  <1>8. CASE CounterRunsOut
    BY <1>8 DEF CounterRunsOut, NoCounter
  <1>9. CASE LockRunsOut
    BY <1>9 DEF LockRunsOut
  <1>10. CASE UNCHANGED loginVars
    BY <1>10 DEF loginVars
  <1>11. QED
    BY <1>1, <1>2, <1>3, <1>4, <1>5, <1>6, <1>7, <1>8, <1>9, <1>10 DEF LoginNext

\* Failed attempts are forgotten in time: only a process that stops between
\* INCR and EXPIRE leaves a counter without a time to live.
THEOREM Forgetting == LoginSpec => []CounterWillExpire
  <1>1. LoginInit => CounterWillExpire
    BY DEF LoginInit, CounterWillExpire
  <1>2. QED
    BY <1>1, WillExpireStep, LoginTypeCorrect, PTL DEF LoginSpec

-----------------------------------------------------------------------------
(* The limit of attempts.                                                  *)

Locking == {l \in Logins : login[l] \in {"lock", "clear"}}

LEMMA LockingFinite == IsFiniteSet(Locking) /\ IsFiniteSet(Locking')
  BY LoginAssumption, FS_Subset DEF Locking

\* What one login does to the set of those that lock or clear.
LEMMA LockingCount ==
  ASSUME LoginTypeOK, NEW l \in Logins, NEW step, LoginAt(l, step)
  PROVE  /\ Cardinality(Locking) \in Nat /\ Cardinality(Locking') \in Nat
         /\ (login[l] \in {"lock", "clear"} <=> step \in {"lock", "clear"})
              => Cardinality(Locking') = Cardinality(Locking)
         /\ login[l] \notin {"lock", "clear"} /\ step = "lock"
              => Cardinality(Locking') = Cardinality(Locking) + 1
         /\ login[l] \in {"lock", "clear"} /\ step = "idle"
              => Cardinality(Locking') = Cardinality(Locking) - 1
  <1>1. Cardinality(Locking) \in Nat /\ Cardinality(Locking') \in Nat
    BY LockingFinite, FS_CardinalityType
  <1>2. ASSUME login[l] \in {"lock", "clear"} <=> step \in {"lock", "clear"}
        PROVE  Locking' = Locking
    BY <1>2 DEF LoginTypeOK, LoginAt, Locking
  <1>3. ASSUME login[l] \notin {"lock", "clear"}, step = "lock"
        PROVE  Locking' = Locking \cup {l} /\ l \notin Locking
    BY <1>3 DEF LoginTypeOK, LoginAt, Locking
  <1>4. ASSUME login[l] \in {"lock", "clear"}, step = "idle"
        PROVE  Locking' = Locking \ {l} /\ l \in Locking
    BY <1>4 DEF LoginTypeOK, LoginAt, Locking
  <1>5. ASSUME login[l] \notin {"lock", "clear"}, step = "lock"
        PROVE  Cardinality(Locking') = Cardinality(Locking) + 1
    BY <1>3, <1>5, LockingFinite, FS_AddElement
  <1>6. ASSUME login[l] \in {"lock", "clear"}, step = "idle"
        PROVE  Cardinality(Locking') = Cardinality(Locking) - 1
    BY <1>4, <1>6, LockingFinite, FS_RemoveElement
  <1>7. QED
    BY <1>1, <1>2, <1>5, <1>6

LEMMA CountedStep ==
  LoginTypeOK /\ CountedAttemptsLock /\ [LoginNext]_loginVars
    => CountedAttemptsLock'
  <1> SUFFICES ASSUME LoginTypeOK, CountedAttemptsLock, [LoginNext]_loginVars
               PROVE  CountedAttemptsLock'
    OBVIOUS
  <1>a. /\ attempts \in Nat /\ missed \in Nat
        /\ attempts < MaxAttempts + missed + Cardinality(Locking)
        /\ Cardinality(Locking) \in Nat /\ Cardinality(Locking') \in Nat
        /\ MaxAttempts \in Nat /\ MaxAttempts > 1
    BY LoginAssumption, LockingFinite, FS_CardinalityType
       DEF LoginTypeOK, CountedAttemptsLock, Locking
  <1> SUFFICES attempts' < MaxAttempts + missed' + Cardinality(Locking')
    BY DEF CountedAttemptsLock, Locking
  <1>1. ASSUME NEW l \in Logins, CheckLock(l) \/ Compare(l) \/ FailExpire(l)
        PROVE  attempts' < MaxAttempts + missed' + Cardinality(Locking')
    <2>1. PICK step \in LoginSteps :
             LoginAt(l, step) /\ step \notin {"lock", "clear"}
      BY <1>1 DEF CheckLock, Compare, FailExpire, LoginSteps
    <2>2. /\ login[l] \notin {"lock", "clear"}
          /\ UNCHANGED <<attempts, missed>>
      BY <1>1 DEF CheckLock, Compare, FailExpire
    <2>3. Cardinality(Locking') = Cardinality(Locking)
      BY <2>1, <2>2, LockingCount
    <2>4. QED
      BY <2>2, <2>3, <1>a
  <1>2. ASSUME NEW l \in Logins, FailIncr(l)
        PROVE  attempts' < MaxAttempts + missed' + Cardinality(Locking')
    <2>1. /\ login[l] \notin {"lock", "clear"} /\ attempts' = attempts + 1
          /\ missed' = missed /\ LoginAt(l, AfterIncr(attempts + 1))
      BY <1>2 DEF FailIncr
    <2>2. CASE attempts + 1 = 1
      <3>1. AfterIncr(attempts + 1) = "expire"
        BY <2>2 DEF AfterIncr
      <3>2. QED
        BY <3>1, <2>1, <2>2, <1>a
    <2>3. CASE attempts + 1 # 1 /\ attempts + 1 >= MaxAttempts
      <3>1. AfterIncr(attempts + 1) = "lock"
        BY <2>3 DEF AfterIncr
      <3>2. Cardinality(Locking') = Cardinality(Locking) + 1
        BY <3>1, <2>1, LockingCount
      <3>3. QED
        BY <3>2, <2>1, <1>a
    <2>4. CASE attempts + 1 # 1 /\ ~(attempts + 1 >= MaxAttempts)
      BY <2>4, <2>1, <1>a
    <2>5. QED
      BY <2>2, <2>3, <2>4
  <1>3. ASSUME NEW l \in Logins, FailLock(l)
        PROVE  attempts' < MaxAttempts + missed' + Cardinality(Locking')
    <2>1. /\ login[l] = "lock" /\ LoginAt(l, "clear")
          /\ UNCHANGED <<attempts, missed>>
      BY <1>3 DEF FailLock
    <2>2. Cardinality(Locking') = Cardinality(Locking)
      BY <2>1, LockingCount
    <2>3. QED
      BY <2>1, <2>2, <1>a
  <1>4. ASSUME attempts' = 0, missed' = 0
        PROVE  attempts' < MaxAttempts + missed' + Cardinality(Locking')
    BY <1>4, <1>a
  <1>5. ASSUME NEW l \in Logins, LoginStops(l)
        PROVE  attempts' < MaxAttempts + missed' + Cardinality(Locking')
    <2>1. LoginAt(l, "idle") /\ attempts' = attempts
      BY <1>5 DEF LoginStops
    <2>2. CASE login[l] \in {"lock", "clear"}
      <3>1. missed' = missed + 1
        BY <1>5, <2>2 DEF LoginStops
      <3>2. Cardinality(Locking') = Cardinality(Locking) - 1
        BY <2>1, <2>2, LockingCount
      <3>3. QED
        BY <3>1, <3>2, <2>1, <1>a
    <2>3. CASE login[l] \notin {"lock", "clear"}
      <3>1. missed' = missed
        BY <1>5, <2>3, <1>a DEF LoginStops
      <3>2. Cardinality(Locking') = Cardinality(Locking)
        BY <2>1, <2>3, LockingCount
      <3>3. QED
        BY <3>1, <3>2, <2>1, <1>a
    <2>4. QED
      BY <2>2, <2>3
  <1>6. ASSUME UNCHANGED <<attempts, missed, login>>
        PROVE  attempts' < MaxAttempts + missed' + Cardinality(Locking')
    BY <1>6, <1>a DEF Locking
  <1>7. QED
    BY <1>1, <1>2, <1>3, <1>4, <1>5, <1>6
       DEF LoginNext, ClearCounter, CounterRunsOut, NoCounter, LockRunsOut,
           loginVars

\* However many logins fail side by side, each attempt from MAX_ATTEMPTS on
\* is a login that is locking the address, or one that died doing so.
THEOREM Limit == LoginSpec => []CountedAttemptsLock
  <1>1. LoginInit => CountedAttemptsLock
    <2> SUFFICES ASSUME LoginInit PROVE CountedAttemptsLock
      OBVIOUS
    <2>1. {l \in Logins : login[l] \in {"lock", "clear"}} = {}
      BY DEF LoginInit
    <2>2. Cardinality({l \in Logins : login[l] \in {"lock", "clear"}}) = 0
      BY <2>1, FS_EmptySet
    <2>3. QED
      BY <2>2, LoginAssumption DEF LoginInit, CountedAttemptsLock
  <1>2. QED
    BY <1>1, CountedStep, LoginTypeCorrect, PTL DEF LoginSpec

-----------------------------------------------------------------------------
(* UserSessions: any users, any life of a token, any number of logins.      *)

Tokens == [user : Members, exp : Int]

SessionTypeOK ==
    /\ now \in Nat
    /\ tokens \in Seq(Tokens)
    /\ revoked \in Seq(Int) /\ Len(revoked) = Len(tokens)
    /\ own \in 0..Len(tokens)
    /\ shared \in [user : Members \cup {"none"}, exp : Int]
    /\ loggedOut \subseteq 1..Len(tokens)

\* No token outlives TOKEN_TTL_SECONDS from now, and one that was logged out
\* is past its end or revoked up to there.
RevokedInv ==
    /\ SessionTypeOK
    /\ \A t \in 1..Len(tokens) : tokens[t].exp <= now + TokenLife
    /\ \A t \in loggedOut : now >= tokens[t].exp \/ revoked[t] = tokens[t].exp

LEMMA RevokedInit == SessionInit => RevokedInv
  BY DEF SessionInit, RevokedInv, SessionTypeOK, NoShared

LEMMA TokenType ==
  ASSUME SessionTypeOK, NEW t \in 1..Len(tokens)
  PROVE  tokens[t] \in Tokens /\ tokens[t].exp \in Int /\ revoked[t] \in Int
  <1>1. tokens[t] \in Tokens /\ revoked[t] \in Int
    BY DEF SessionTypeOK
  <1>2. QED
    BY <1>1 DEF Tokens

\* A revocation lives as long as the token does.
LEMMA RevokedForRest ==
  ASSUME now \in Nat, NEW exp \in Int, exp <= now + TokenLife
  PROVE  RevokedFor(exp) = exp - now
  BY SessionAssumption DEF RevokedFor

LEMMA LoginStep ==
  ASSUME RevokedInv, NEW u \in Members, LoginAs(u)
  PROVE  RevokedInv'
  <1> USE DEF RevokedInv, SessionTypeOK
  <1>1. TokenLife \in Nat
    BY SessionAssumption
  <1> DEFINE new == [user |-> u, exp |-> now + TokenLife]
  <1>2. new \in Tokens
    BY <1>1 DEF Tokens
  <1>3. /\ tokens' = Append(tokens, new) /\ revoked' = Append(revoked, 0)
        /\ own' = Len(tokens) + 1
        /\ UNCHANGED <<now, shared, loggedOut>>
    BY DEF LoginAs
  <1>4. /\ tokens' \in Seq(Tokens) /\ Len(tokens') = Len(tokens) + 1
        /\ tokens'[Len(tokens) + 1] = new
        /\ \A t \in 1..Len(tokens) : tokens'[t] = tokens[t]
    BY <1>2, <1>3
  <1>5. /\ revoked' \in Seq(Int) /\ Len(revoked') = Len(tokens) + 1
        /\ \A t \in 1..Len(tokens) : revoked'[t] = revoked[t]
    BY <1>3
  <1>6. SessionTypeOK'
    BY <1>3, <1>4, <1>5
  <1>7. \A t \in 1..Len(tokens') : tokens'[t].exp <= now' + TokenLife
    BY <1>1, <1>3, <1>4
  <1>8. \A t \in loggedOut' : now' >= tokens'[t].exp \/ revoked'[t] = tokens'[t].exp
    BY <1>3, <1>4, <1>5
  <1>9. QED
    BY <1>6, <1>7, <1>8

LEMMA LogoutStep ==
  ASSUME RevokedInv, Logout
  PROVE  RevokedInv'
  <1>1. /\ own' = 0 /\ shared' = NoShared /\ UNCHANGED <<now, tokens>>
        /\ NoShared \in [user : Members \cup {"none"}, exp : Int]
    BY DEF Logout, NoShared
  <1>2. SessionTypeOK /\ \A t \in 1..Len(tokens) : tokens[t].exp <= now + TokenLife
    BY DEF RevokedInv
  <1>3. CASE UNCHANGED <<revoked, loggedOut>>
    <2>1. SessionTypeOK'
      BY <1>1, <1>2, <1>3 DEF SessionTypeOK
    <2>2. QED
      BY <1>1, <1>3, <2>1 DEF RevokedInv
  <1>4. CASE /\ own # 0
             /\ revoked' = IF RevokedFor(tokens[own].exp) > 0
                           THEN [revoked EXCEPT ![own] = now + RevokedFor(tokens[own].exp)]
                           ELSE revoked
             /\ loggedOut' = loggedOut \cup {own}
    <2> DEFINE exp == tokens[own].exp
    <2>1. own \in 1..Len(tokens) /\ now \in Nat
      BY <1>2, <1>4 DEF SessionTypeOK
    <2>2. exp \in Int /\ exp <= now + TokenLife
      BY <1>2, <2>1, TokenType
    <2> HIDE DEF exp
    <2>3. RevokedFor(exp) = exp - now
      BY <2>1, <2>2, RevokedForRest
    <2>4. revoked' = IF exp > now THEN [revoked EXCEPT ![own] = exp] ELSE revoked
      <3>1. (exp - now > 0) = (exp > now) /\ now + (exp - now) = exp
        BY <2>1, <2>2
      <3>2. QED
        BY <1>4, <2>3, <3>1 DEF exp
    <2>5. revoked \in Seq(Int) /\ Len(revoked) = Len(tokens)
      BY <1>2 DEF SessionTypeOK
    <2>6. /\ revoked' \in Seq(Int) /\ Len(revoked') = Len(tokens)
          /\ \A t \in (1..Len(tokens)) \ {own} : revoked'[t] = revoked[t]
          /\ now >= exp \/ revoked'[own] = exp
      BY <2>1, <2>2, <2>4, <2>5
    <2>7. SessionTypeOK'
      BY <1>1, <1>2, <1>4, <2>1, <2>6 DEF SessionTypeOK
    <2>8. ASSUME NEW t \in loggedOut'
          PROVE  now' >= tokens'[t].exp \/ revoked'[t] = tokens'[t].exp
      <3>1. CASE t = own
        BY <1>1, <2>6, <3>1 DEF exp
      <3>2. CASE t # own
        <4>1. t \in loggedOut /\ t \in 1..Len(tokens)
          BY <1>2, <1>4, <3>2 DEF SessionTypeOK
        <4>2. QED
          BY <1>1, <2>6, <3>2, <4>1 DEF RevokedInv
      <3>3. QED
        BY <3>1, <3>2
    <2>9. QED
      BY <1>1, <1>2, <2>7, <2>8 DEF RevokedInv
  <1>5. QED
    BY <1>3, <1>4 DEF Logout

LEMMA RevokedStep == RevokedInv /\ [SessionNext]_sessionVars => RevokedInv'
  <1> SUFFICES ASSUME RevokedInv, [SessionNext]_sessionVars PROVE RevokedInv'
    OBVIOUS
  <1>1. ASSUME NEW u \in Members, LoginAs(u) PROVE RevokedInv'
    BY <1>1, LoginStep
  <1>2. ASSUME NEW u \in Members, SharedLogin(u) PROVE RevokedInv'
    BY <1>2, SessionAssumption DEF SharedLogin, RevokedInv, SessionTypeOK
  <1>3. CASE SharedEnds
    BY <1>3 DEF SharedEnds, NoShared, RevokedInv, SessionTypeOK
  <1>4. CASE Logout
    BY <1>4, LogoutStep
  <1>5. CASE Tick
    <2>1. \A t \in 1..Len(tokens) : tokens[t].exp \in Int
      BY TokenType DEF RevokedInv
    <2>2. SessionTypeOK'
      BY <1>5 DEF Tick, RevokedInv, SessionTypeOK
    <2>3. QED
      BY <1>5, <2>1, <2>2, SessionAssumption, SMTT(30) DEF Tick, RevokedInv, SessionTypeOK
  <1>6. CASE UNCHANGED sessionVars
    BY <1>6 DEF sessionVars, RevokedInv, SessionTypeOK
  <1>7. QED
    BY <1>1, <1>2, <1>3, <1>4, <1>5, <1>6 DEF SessionNext

\* A token that was logged out is never accepted again: its revocation lasts
\* at least as long as the token.
THEOREM Revocation == SessionSpec => []RevokedStaysOut
  <1>1. RevokedInv => RevokedStaysOut
    <2> SUFFICES ASSUME RevokedInv, NEW t \in loggedOut PROVE ~Accepts(t)
      BY DEF RevokedStaysOut
    <2>1. now \in Nat /\ tokens[t].exp \in Int
      BY TokenType DEF RevokedInv, SessionTypeOK
    <2>2. now >= tokens[t].exp \/ revoked[t] = tokens[t].exp
      BY DEF RevokedInv
    <2>3. QED
      BY <2>1, <2>2 DEF Accepts
  <1>2. QED
    BY <1>1, RevokedInit, RevokedStep, PTL DEF SessionSpec

-----------------------------------------------------------------------------
(* Whose session the browser's requests are in.                            *)

PersonInv ==
    /\ SessionTypeOK
    /\ ~shadowed => IF shared # NoShared THEN shared.user = person
                    ELSE own # 0 => tokens[own].user = person

LEMMA PersonStep ==
  RevokedInv /\ PersonInv /\ [SessionNext]_sessionVars => PersonInv'
  <1> SUFFICES ASSUME RevokedInv, PersonInv, [SessionNext]_sessionVars
               PROVE  PersonInv'
    OBVIOUS
  <1>0. SessionTypeOK /\ SessionTypeOK'
    BY RevokedStep DEF RevokedInv
  <1>1. ASSUME NEW u \in Members, LoginAs(u) PROVE PersonInv'
    <2>1. tokens'[own'].user = u /\ own' # 0
      BY <1>0, <1>1 DEF LoginAs, SessionTypeOK
    <2>2. QED
      BY <1>0, <1>1, <2>1 DEF LoginAs, PersonInv
  <1>2. ASSUME NEW u \in Members, SharedLogin(u) PROVE PersonInv'
    <2>1. shared'.exp # 0 /\ shared'.user = u /\ person' = u
      BY <1>0, <1>2, SessionAssumption DEF SharedLogin, SessionTypeOK
    <2>2. QED
      BY <1>0, <2>1 DEF PersonInv, NoShared
  <1>3. CASE SharedEnds
    BY <1>0, <1>3 DEF SharedEnds, PersonInv
  <1>4. CASE Logout
    BY <1>0, <1>4 DEF Logout, PersonInv
  <1>5. CASE Tick
    BY <1>0, <1>5 DEF Tick, PersonInv
  <1>6. CASE UNCHANGED sessionVars
    BY <1>0, <1>6 DEF sessionVars, PersonInv
  <1>7. QED
    BY <1>1, <1>2, <1>3, <1>4, <1>5, <1>6 DEF SessionNext

\* The browser's requests act for whoever logged in last, or for nobody,
\* unless the login was here and somebody else's shared cookie was there.
THEOREM Identity == SessionSpec => []SessionOfTheBrowser
  <1>1. SessionInit => PersonInv
    BY RevokedInit DEF SessionInit, PersonInv, RevokedInv
  <1>2. PersonInv => SessionOfTheBrowser
    BY DEF PersonInv, SessionOfTheBrowser, CookieUser
  <1>3. QED
    BY <1>1, <1>2, RevokedInit, RevokedStep, PersonStep, PTL DEF SessionSpec

-----------------------------------------------------------------------------
(* UserAccounts: any spellings and names, any number of updates at a time   *)
(* and of accounts.                                                         *)

Accounts == [email : Spellings, name : PersonNames]
EditRecords == [id : Nat \ {0}, given : SUBSET {"email", "name"}, doc : Accounts]

AccountsTypeOK ==
    /\ accounts \in Seq(Accounts)
    /\ meant \in Seq(Accounts) /\ Len(meant) = Len(accounts)
    /\ edit \in [Edits -> EditRecords \cup {NoEdit}]
    /\ \A c \in Edits : edit[c].id # 0 =>
         edit[c] \in EditRecords /\ edit[c].id \in 1..Len(accounts)

\* No two accounts have one address, and an address that no update left in
\* a spelling of its own is in the normal one.
AddressInv ==
    /\ \A i, j \in 1..Len(accounts) : i # j => accounts[i].email # accounts[j].email
    /\ \A i \in 1..Len(accounts) \ respelled :
          Normal[accounts[i].email] = accounts[i].email

\* Unless updates overlapped on it, an account is what it is meant to be, and
\* an update that has read it would leave what it was not given as it is.
GivenInv ==
    /\ \A i \in 1..Len(accounts) \ overlapped : accounts[i] = meant[i]
    /\ \A c \in Edits :
         edit[c].id # 0 /\ edit[c].id \notin overlapped =>
           /\ "email" \notin edit[c].given =>
                edit[c].doc.email = accounts[edit[c].id].email
           /\ "name" \notin edit[c].given =>
                edit[c].doc.name = accounts[edit[c].id].name

HistoriesInside == respelled \subseteq 1..Len(accounts) /\ overlapped \subseteq 1..Len(accounts)

AccountsInv == AccountsTypeOK /\ HistoriesInside /\ AddressInv /\ GivenInv

LEMMA NoEditId == NoEdit.id = 0
  BY DEF NoEdit

LEMMA AccountsDomain ==
  ASSUME AccountsTypeOK
  PROVE  /\ DOMAIN accounts = 1..Len(accounts) /\ Len(accounts) \in Nat
         /\ DOMAIN meant = 1..Len(accounts)
         /\ \A i \in 1..Len(accounts) : accounts[i] \in Accounts /\ meant[i] \in Accounts
  BY LenProperties, ElementOfSeq DEF AccountsTypeOK

\* An account that is inserted has an address nobody has, in its normal form.
LEMMA InsertsStep ==
  ASSUME AccountsInv, NEW e \in Spellings, NEW n \in PersonNames,
         Used(Normal[e]) = {}, Inserts(Normal[e], n),
         UNCHANGED <<edit, edits, respelled, overlapped>>
  PROVE  AccountsInv'
  <1> DEFINE doc == [email |-> Normal[e], name |-> n]
  <1> USE DEF AccountsInv
  <1>1. doc \in Accounts /\ Normal[doc.email] = doc.email /\ doc.email = Normal[e]
    BY AccountsAssumption DEF Accounts
  <1>2. accounts' = Append(accounts, doc) /\ meant' = Append(meant, doc)
    BY DEF Inserts
  <1> HIDE DEF doc
  <1>3. /\ accounts' \in Seq(Accounts) /\ meant' \in Seq(Accounts)
        /\ Len(accounts') = Len(accounts) + 1 /\ Len(meant') = Len(accounts) + 1
        /\ \A i \in 1..Len(accounts) : accounts'[i] = accounts[i] /\ meant'[i] = meant[i]
        /\ accounts'[Len(accounts) + 1] = doc /\ meant'[Len(accounts) + 1] = doc
    BY <1>1, <1>2, AppendProperties DEF AccountsTypeOK
  <1>4. Len(accounts) \in Nat /\ DOMAIN accounts = 1..Len(accounts)
    BY AccountsDomain
  <1>5. 1..Len(accounts') = 1..Len(accounts) \cup {Len(accounts) + 1}
    BY <1>3, <1>4
  <1>6. AccountsTypeOK'
    BY <1>3, <1>5 DEF AccountsTypeOK
  <1>7. \A i \in 1..Len(accounts) : accounts[i].email # doc.email
    BY <1>1, <1>4 DEF Used
  <1>8. AddressInv'
    BY <1>1, <1>3, <1>5, <1>7 DEF AddressInv
  <1>9. GivenInv'
    BY <1>3, <1>5 DEF GivenInv, AccountsTypeOK
  <1>10. HistoriesInside'
    BY <1>5 DEF HistoriesInside
  <1>11. QED
    BY <1>6, <1>8, <1>9, <1>10

LEMMA ReadUserStep ==
  ASSUME AccountsInv, NEW c \in Edits, ReadUser(c)
  PROVE  AccountsInv'
  <1> USE DEF AccountsInv
  <1>1. PICK i \in DOMAIN accounts, e \in Spellings, n \in PersonNames,
             given \in SUBSET {"email", "name"} \ {{}} :
          edit' = [edit EXCEPT ![c] =
             [id |-> i, given |-> given,
              doc |-> [email |-> IF "email" \in given THEN e ELSE accounts[i].email,
                       name |-> IF "name" \in given THEN n ELSE accounts[i].name]]]
    BY DEF ReadUser
  <1> DEFINE doc == [email |-> IF "email" \in given THEN e ELSE accounts[i].email,
                     name |-> IF "name" \in given THEN n ELSE accounts[i].name]
             new == [id |-> i, given |-> given, doc |-> doc]
  <1>2. i \in 1..Len(accounts) /\ Len(accounts) \in Nat /\ accounts[i] \in Accounts
    BY AccountsDomain
  <1>3. /\ doc \in Accounts
        /\ "email" \notin given => doc.email = accounts[i].email
        /\ "name" \notin given => doc.name = accounts[i].name
    BY <1>2 DEF Accounts
  <1> HIDE DEF doc
  <1>4. /\ new \in EditRecords /\ new.id = i /\ new.given = given /\ new.doc = doc
    BY <1>2, <1>3 DEF EditRecords
  <1>5. /\ edit'[c] = new /\ \A d \in Edits \ {c} : edit'[d] = edit[d]
        /\ edit' \in [Edits -> EditRecords \cup {NoEdit}]
    BY <1>1, <1>4 DEF AccountsTypeOK, doc
  <1> HIDE DEF new
  <1>6. UNCHANGED <<accounts, respelled, meant, overlapped>>
    BY DEF ReadUser
  <1>7. AccountsTypeOK'
    BY <1>2, <1>4, <1>5, <1>6 DEF AccountsTypeOK
  <1>8. GivenInv'
    BY <1>3, <1>4, <1>5, <1>6 DEF GivenInv
  <1>9. AddressInv' /\ HistoriesInside'
    BY <1>6 DEF AddressInv, HistoriesInside
  <1>10. QED
    BY <1>7, <1>8, <1>9

LEMMA WriteUserStep ==
  ASSUME AccountsInv, NEW c \in Edits, WriteUser(c)
  PROVE  AccountsInv'
  <1> USE DEF AccountsInv
  <1>0. edit[c].id # 0
    BY DEF WriteUser
  <1>1. PICK i \in 1..Len(accounts), doc \in Accounts, given \in SUBSET {"email", "name"} :
          i = edit[c].id /\ doc = edit[c].doc /\ given = edit[c].given
    BY <1>0 DEF AccountsTypeOK, EditRecords
  <1>2. /\ edit'[c] = NoEdit /\ \A d \in Edits \ {c} : edit'[d] = edit[d]
        /\ edit' \in [Edits -> EditRecords \cup {NoEdit}]
    BY DEF WriteUser, AccountsTypeOK
  <1>3. CASE UNCHANGED <<accounts, meant, respelled, overlapped>>
    <2>1. AccountsTypeOK'
      BY <1>2, <1>3, NoEditId DEF AccountsTypeOK
    <2>2. GivenInv'
      BY <1>2, <1>3, NoEditId DEF GivenInv
    <2>3. AddressInv' /\ HistoriesInside'
      BY <1>3 DEF AddressInv, HistoriesInside
    <2>4. QED
      BY <2>1, <2>2, <2>3
  <1>4. ASSUME Used(doc.email) \subseteq {i},
               accounts' = [accounts EXCEPT ![i] = doc],
               meant' = [meant EXCEPT ![i] =
                     [email |-> IF "email" \in given THEN doc.email ELSE meant[i].email,
                      name |-> IF "name" \in given THEN doc.name ELSE meant[i].name]],
               respelled' = IF doc.email # Normal[doc.email]
                              THEN respelled \cup {i} ELSE respelled \ {i},
               overlapped' = IF \E d \in Edits \ {c} : edit[d].id = i
                               THEN overlapped \cup {i} ELSE overlapped
        PROVE  AccountsInv'
    <2> DEFINE asked == [email |-> IF "email" \in given THEN doc.email ELSE meant[i].email,
                         name |-> IF "name" \in given THEN doc.name ELSE meant[i].name]
    <2>1. DOMAIN accounts = 1..Len(accounts) /\ Len(accounts) \in Nat
          /\ accounts[i] \in Accounts /\ meant[i] \in Accounts
      BY AccountsDomain
    <2>2. asked \in Accounts
      BY <2>1 DEF Accounts
    <2>3. /\ accounts' \in Seq(Accounts) /\ Len(accounts') = Len(accounts)
          /\ \A j \in 1..Len(accounts) :
               accounts'[j] = IF j = i THEN doc ELSE accounts[j]
      BY <1>4, ExceptSeq DEF AccountsTypeOK
    <2>4. meant' = [meant EXCEPT ![i] = asked]
      BY <1>4
    <2> HIDE DEF asked
    <2>5. /\ meant' \in Seq(Accounts) /\ Len(meant') = Len(accounts)
          /\ \A j \in 1..Len(accounts) : meant'[j] = IF j = i THEN asked ELSE meant[j]
      BY <2>2, <2>4, ExceptSeq DEF AccountsTypeOK
    <2>6. AccountsTypeOK'
      BY <1>2, <2>3, <2>5, NoEditId DEF AccountsTypeOK
    <2>7. \A j \in 1..Len(accounts) : j # i => accounts[j].email # doc.email
      BY <1>4, <2>1 DEF Used
    <2>8. AddressInv'
      BY <1>4, <2>3, <2>7 DEF AddressInv
    <2>9. overlapped \subseteq overlapped' /\ HistoriesInside'
      BY <1>4, <2>3 DEF HistoriesInside
    <2>10. i \notin overlapped => asked = doc
      <3> SUFFICES ASSUME i \notin overlapped PROVE asked = doc
        OBVIOUS
      <3>1. accounts[i] = meant[i]
        BY DEF GivenInv
      <3>2. /\ "email" \notin given => doc.email = accounts[i].email
            /\ "name" \notin given => doc.name = accounts[i].name
        BY <1>0, <1>1 DEF GivenInv
      <3>3. asked.email = doc.email /\ asked.name = doc.name
        BY <3>1, <3>2 DEF asked
      <3>4. QED
        BY <2>2, <3>3 DEF Accounts
    <2>11. \A d \in Edits : edit'[d].id # 0 /\ edit'[d].id \notin overlapped' =>
             d # c /\ edit'[d].id # i
      BY <1>2, <1>4, NoEditId
    <2>12. GivenInv'
      <3>1. \A j \in 1..Len(accounts) \ overlapped' : accounts'[j] = meant'[j]
        BY <2>3, <2>5, <2>9, <2>10 DEF GivenInv
      <3>2. \A d \in Edits : edit'[d].id # 0 /\ edit'[d].id \notin overlapped' =>
              /\ edit'[d] = edit[d]
              /\ edit[d].id \in 1..Len(accounts)
              /\ accounts'[edit[d].id] = accounts[edit[d].id]
        BY <1>2, <2>3, <2>11, SMTT(30) DEF AccountsTypeOK
      <3>3. QED
        BY <2>3, <2>9, <3>1, <3>2 DEF GivenInv
    <2>13. QED
      BY <2>6, <2>8, <2>9, <2>12
  <1>5. QED
    BY <1>1, <1>3, <1>4 DEF WriteUser

LEMMA AccountsStep == AccountsInv /\ [AccountsNext]_accountVars => AccountsInv'
  <1> SUFFICES ASSUME AccountsInv, [AccountsNext]_accountVars PROVE AccountsInv'
    OBVIOUS
  <1>1. ASSUME NEW e \in Spellings, NEW n \in PersonNames,
               SignUp(e, n) \/ ProvisionFromSso(e, n)
        PROVE  AccountsInv'
    BY <1>1, InsertsStep DEF SignUp, ProvisionFromSso
  <1>2. CASE UNCHANGED accountVars
    BY <1>2 DEF accountVars, AccountsInv, AccountsTypeOK, HistoriesInside, AddressInv,
                GivenInv
  <1>3. QED
    BY <1>1, <1>2, ReadUserStep, WriteUserStep DEF AccountsNext

LEMMA AccountsBegin == AccountsInit => AccountsInv
  <1> SUFFICES ASSUME AccountsInit PROVE AccountsInv
    OBVIOUS
  <1>1. accounts \in Seq(Accounts) /\ meant \in Seq(Accounts) /\ Len(accounts) = 0
        /\ Len(meant) = 0
    BY EmptySeq DEF AccountsInit
  <1>2. 1..Len(accounts) = {}
    BY <1>1
  <1>3. \A c \in Edits : edit[c] = NoEdit
    BY DEF AccountsInit
  <1>4. edit \in [Edits -> EditRecords \cup {NoEdit}]
    BY DEF AccountsInit
  <1>5. QED
    BY <1>1, <1>2, <1>3, <1>4, NoEditId
       DEF AccountsInit, AccountsInv, AccountsTypeOK, HistoriesInside, AddressInv, GivenInv

LEMMA AccountsCorrect == AccountsSpec => []AccountsInv
  BY AccountsBegin, AccountsStep, PTL DEF AccountsSpec

\* However addresses are spelled and whichever way accounts come, there is one
\* for each, unless an update stored a spelling that no lookup finds.
THEOREM OneAccount == AccountsSpec => []OneAccountPerAddress
  <1>1. AccountsInv => OneAccountPerAddress
    BY AccountsDomain DEF AccountsInv, AddressInv, OneAccountPerAddress
  <1>2. QED
    BY <1>1, AccountsCorrect, PTL

\* Accounts hold what was asked for, field by field, whatever sessions begin
\* and however updates of other accounts interleave.
THEOREM AsGiven == AccountsSpec => []AccountsAsGiven
  <1>1. AccountsInv => AccountsAsGiven
    BY AccountsDomain DEF AccountsInv, GivenInv, AccountsAsGiven
  <1>2. QED
    BY <1>1, AccountsCorrect, PTL
=============================================================================
