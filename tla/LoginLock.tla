------------------------------ MODULE LoginLock ------------------------------
(***************************************************************************)
(* LoginService.execute for ONE e-mail address: the counter of failed      *)
(* attempts and the lock, two Redis keys that every concurrent login reads *)
(* and writes one command at a time.                                       *)
(***************************************************************************)
EXTENDS Naturals, FiniteSets

CONSTANTS
    Logins,       \* logins for the address that run at a time
    MaxAttempts,  \* MAX_ATTEMPTS
    MissedBound   \* bound: how many logins may die while they lock or clear

ASSUME LoginAssumption == /\ IsFiniteSet(Logins)
                          /\ MaxAttempts \in Nat \ {0, 1}
                          /\ MissedBound \in Nat

VARIABLES
    attempts,  \* login:failed:<email>, 0 when there is no such key
    expiring,  \* whether that key has a time to live
    locked,    \* login:lock:<email> exists
    login,     \* what each login does next
    strayed,   \* history: a login died before it gave the counter its TTL
    missed     \* history: logins that died before they locked or cleared

loginVars == <<attempts, expiring, locked, login, strayed, missed>>

LoginInit == /\ attempts = 0 /\ expiring = FALSE /\ locked = FALSE
             /\ login = [l \in Logins |-> "idle"]
             /\ strayed = FALSE /\ missed = 0

LoginAt(l, step) == login' = [login EXCEPT ![l] = step]

-----------------------------------------------------------------------------
\* EXISTS of the lock: a locked address is refused, 429.
CheckLock(l) ==
    /\ login[l] = "idle" /\ ~locked
    /\ LoginAt(l, "compare")
    /\ UNCHANGED <<attempts, expiring, locked, strayed, missed>>

\* The user, by address, and bcrypt.compare; or a deactivated account, which
\* is refused and leaves the counter.
Compare(l) ==
    /\ login[l] = "compare"
    /\ \E step \in {"fail", "succeed", "idle"} : LoginAt(l, step)
    /\ UNCHANGED <<attempts, expiring, locked, strayed, missed>>

\* recordFailedAttempt, after INCR returned n.

\* Mutation of AfterIncr: "===" where the code has ">=".
AfterIncrExactly(n) == IF n = 1 THEN "expire"
                       ELSE IF n = MaxAttempts THEN "lock" ELSE "idle"

\* Mutation of AfterIncr: the counter is given no time to live.
AfterIncrNoTtl(n) == IF n >= MaxAttempts THEN "lock" ELSE "idle"

AfterIncr(n) == IF n = 1 THEN "expire"
                ELSE IF n >= MaxAttempts THEN "lock" ELSE "idle"

FailIncr(l) ==
    /\ login[l] = "fail"
    /\ attempts' = attempts + 1
    /\ LoginAt(l, AfterIncr(attempts + 1))
    /\ UNCHANGED <<expiring, locked, strayed, missed>>

\* EXPIRE, which does nothing to a key that is gone.
FailExpire(l) ==
    /\ login[l] = "expire"
    /\ expiring' = (attempts > 0)
    /\ LoginAt(l, "idle")
    /\ UNCHANGED <<attempts, locked, strayed, missed>>

FailLock(l) ==
    /\ login[l] = "lock"
    /\ locked' = TRUE
    /\ LoginAt(l, "clear")
    /\ UNCHANGED <<attempts, expiring, strayed, missed>>

NoCounter == /\ attempts' = 0 /\ expiring' = FALSE
             /\ strayed' = FALSE /\ missed' = 0

\* DEL of the counter: the lock has been set, or the login succeeded and the
\* token is signed.
ClearCounter(l) ==
    /\ login[l] \in {"clear", "succeed"}
    /\ NoCounter
    /\ LoginAt(l, "idle")
    /\ UNCHANGED locked

\* The keys' times run out.
CounterRunsOut == /\ expiring /\ NoCounter
                  /\ UNCHANGED <<locked, login>>
LockRunsOut == /\ locked /\ locked' = FALSE
               /\ UNCHANGED <<attempts, expiring, login, strayed, missed>>

\* The process stops: what it has sent to Redis stays.
LoginStops(l) ==
    /\ login[l] # "idle"
    /\ login[l] \in {"lock", "clear"} => missed < MissedBound
    /\ strayed' = (strayed \/ login[l] = "expire")
    /\ missed' = missed + IF login[l] \in {"lock", "clear"} THEN 1 ELSE 0
    /\ LoginAt(l, "idle")
    /\ UNCHANGED <<attempts, expiring, locked>>

LoginNext ==
    \/ \E l \in Logins :
         \/ CheckLock(l) \/ Compare(l) \/ FailIncr(l) \/ FailExpire(l)
         \/ FailLock(l) \/ ClearCounter(l) \/ LoginStops(l)
    \/ CounterRunsOut \/ LockRunsOut

LoginSpec == LoginInit /\ [][LoginNext]_loginVars

-----------------------------------------------------------------------------
(* Properties.                                                             *)

LoginSteps == {"idle", "compare", "fail", "expire", "lock", "clear", "succeed"}
LoginTypeOK == /\ attempts \in Nat /\ expiring \in BOOLEAN /\ locked \in BOOLEAN
               /\ login \in [Logins -> LoginSteps]
               /\ strayed \in BOOLEAN /\ missed \in Nat

\* Failed attempts are forgotten in time: a counter without a time to live
\* belongs to a login about to give it one, whatever successes, locks and
\* other failures come between INCR and EXPIRE.  Only a process that stops
\* there leaves one behind, until the counter is next deleted.
CounterWillExpire ==
    attempts > 0 /\ ~expiring => strayed \/ \E l \in Logins : login[l] = "expire"

\* The attempts cannot run past the limit: each one from MAX_ATTEMPTS on is a
\* login that is locking the address, or one that died doing so, and then
\* the next failure locks it.
CountedAttemptsLock ==
    attempts < MaxAttempts + missed
                 + Cardinality({l \in Logins : login[l] \in {"lock", "clear"}})
=============================================================================
