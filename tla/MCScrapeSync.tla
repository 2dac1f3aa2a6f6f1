--------------------------- MODULE MCScrapeSync ---------------------------
(* Instances of ScrapeSync small enough for TLC: two requests of one user  *)
(* and one of another, so that a user meets himself and his neighbour.     *)
(* Where two deliveries run side by side, two requests: one of each user   *)
(* (MCCallerTwo), or both of one beside a user who never asks.             *)
EXTENDS ScrapeSync, TLC

CONSTANTS u1, u2, r1, r2, r3, h1, h2

MCCaller == (r1 :> u1) @@ (r2 :> u2) @@ (r3 :> u1)
MCCallerTwo == (r1 :> u1) @@ (r2 :> u2)
MCCallerOne == (r1 :> u1) @@ (r2 :> u1)

\* A result with data, a search in vain, which persists nothing (an ERRO with
\* a motivo does the same), and an ERRO without one, which overwrites.
Found == [status |-> "SUCESSO", motivo |-> FALSE, data |-> TRUE]
Missing == [status |-> "NAO_ENCONTRADO", motivo |-> FALSE, data |-> FALSE]
FailedSilently == [status |-> "ERRO", motivo |-> FALSE, data |-> FALSE]

MCOutcomes == {Found, Missing}
MCOutcomesAll == {Found, Missing, FailedSilently}

HandlerSymmetry == Permutations(Handlers)

\* The faults of each run.
DeliveryFaults == {"branchFails", "slow", "pipeline"}
PostFaults == {"pipeline", "lostReply"}
CrashFaults == {"crash", "rejected", "jobLost"}
Redelivery == {"branchFails"}
NoFaults == {}
=============================================================================
