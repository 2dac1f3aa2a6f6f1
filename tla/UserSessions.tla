---------------------------- MODULE UserSessions ----------------------------
(***************************************************************************)
(* The session of ONE browser: the tokens login signs, the cookie of this  *)
(* API and the one juri-api shares, logout and its revocations in Redis,   *)
(* and the guard that resolves a request's user.  Time passes in seconds.  *)
(***************************************************************************)
EXTENDS Integers, Sequences

CONSTANTS
    Members,    \* the users
    TokenLife,  \* TOKEN_TTL_SECONDS
    Horizon,    \* bound: the time at which the clock stops
    TokensBound \* bound: tokens signed here

ASSUME SessionAssumption == /\ TokenLife \in Nat \ {0}
                            /\ Horizon \in Nat /\ TokensBound \in Nat

VARIABLES
    now,
    tokens,     \* own tokens, in the order they were signed: user and exp
    revoked,    \* jwt:revoked:<jti>: until when the key lives, 0 for no key
    own,        \* the cookie robo_auth_token: the token in it, 0 for none
    shared,     \* the cookie auth_token of juri-api: user and exp
    loggedOut,  \* history: the tokens a logout revoked
    person,     \* history: who logged in last, of the sessions still here
    shadowed    \* history: that login was here, under another's shared cookie

sessionVars == <<now, tokens, revoked, own, shared, loggedOut, person, shadowed>>

NoShared == [user |-> "none", exp |-> 0]

SessionInit == /\ now = 0 /\ tokens = <<>> /\ revoked = <<>>
               /\ own = 0 /\ shared = NoShared /\ loggedOut = {}
               /\ person = "none" /\ shadowed = FALSE

-----------------------------------------------------------------------------
\* AuthenticationController.login, the checks of LoginService passed.
LoginAs(u) ==
    /\ Len(tokens) < TokensBound
    /\ tokens' = Append(tokens, [user |-> u, exp |-> now + TokenLife])
    /\ revoked' = Append(revoked, 0)
    /\ own' = Len(tokens) + 1
    /\ person' = u
    /\ shadowed' = (shared # NoShared /\ shared.user # u)
    /\ UNCHANGED <<now, shared, loggedOut>>

\* juri-api logs somebody in, in the same browser ...
SharedLogin(u) ==
    /\ shared' = [user |-> u, exp |-> now + TokenLife]
    /\ person' = u /\ shadowed' = FALSE
    /\ UNCHANGED <<now, tokens, revoked, own, loggedOut>>

\* ... or ends that session: a session here comes back into force.
SharedEnds ==
    /\ shared # NoShared
    /\ shared' = NoShared
    /\ person' = IF own = 0 THEN "none" ELSE tokens[own].user
    /\ shadowed' = FALSE
    /\ UNCHANGED <<now, tokens, revoked, own, loggedOut>>

\* The time to live of a revocation, for a token that expires at exp.

\* Mutation of RevokedFor: the seconds since the token was signed.
RevokedForAge(exp) == TokenLife - (exp - now)

RevokedFor(exp) == IF exp - now < TokenLife THEN exp - now ELSE TokenLife

\* logout: the own token is verified, whatever its age, and revoked for the
\* rest of its life; when Redis fails it is not, and logout goes on all the
\* same.  Both cookies are cleared.  The shared token is not ours to revoke.
Logout ==
    /\ own # 0 \/ shared # NoShared
    /\ \/ /\ own # 0
          /\ revoked' = IF RevokedFor(tokens[own].exp) > 0
                        THEN [revoked EXCEPT ![own] = now + RevokedFor(tokens[own].exp)]
                        ELSE revoked
          /\ loggedOut' = loggedOut \cup {own}
       \/ UNCHANGED <<revoked, loggedOut>>
    /\ own' = 0 /\ shared' = NoShared /\ person' = "none" /\ shadowed' = FALSE
    /\ UNCHANGED <<now, tokens>>

\* A second passes.  The browser drops its own cookie with its maxAge.
Tick ==
    /\ now < Horizon
    /\ now' = now + 1
    /\ own' = IF own # 0 /\ tokens[own].exp <= now + 1 THEN 0 ELSE own
    /\ UNCHANGED <<tokens, revoked, shared, loggedOut, person, shadowed>>

SessionNext == \/ \E u \in Members : LoginAs(u) \/ SharedLogin(u)
               \/ SharedEnds \/ Logout \/ Tick

SessionSpec == SessionInit /\ [][SessionNext]_sessionVars

-----------------------------------------------------------------------------
(* JwtStrategy.validate, for a token sent in the header or in a cookie; the *)
(* account it names exists and is active.                                  *)

Accepts(t) == now < tokens[t].exp /\ now >= revoked[t]

\* Mutation of CookieUser: the cookie of this API comes first.
CookieUserOwnFirst == IF own # 0 /\ Accepts(own) THEN tokens[own].user
                      ELSE IF now < shared.exp THEN shared.user ELSE "none"

\* extractAuthToken takes one token, and looks at no other if it is refused:
\* without a header, the shared cookie before the own one.
CookieUser == IF shared # NoShared
              THEN IF now < shared.exp THEN shared.user ELSE "none"
              ELSE IF own # 0 /\ Accepts(own) THEN tokens[own].user ELSE "none"

-----------------------------------------------------------------------------
(* Properties.                                                             *)

\* A token that was logged out is never accepted again, from whatever copy:
\* its revocation, when Redis took it, lasts until the token expires.
RevokedStaysOut == \A t \in loggedOut : ~Accepts(t)

\* The browser's requests act for whoever logged in last, of the sessions it
\* still holds, or for nobody when that one is over: unless the login was
\* here and juri-api's cookie of somebody else was in the browser already.
SessionOfTheBrowser == ~shadowed => CookieUser \in {person, "none"}
=============================================================================
