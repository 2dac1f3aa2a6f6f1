-------------------------- MODULE MCComunicacaoSpot --------------------------
(* Two instancias (1o and 2o grau), two webhook bodies, two saves and two  *)
(* inserts at a time.                                                       *)
EXTENDS ComunicacaoSpot, TLC

CONSTANTS g1, g2, w1, w2, s1, s2, i1, i2

Body(st, m, ids) == [status |-> st, motivo |-> m, ids |-> ids]

\* One grau, the other, a search in vain, a failure with its reason.
MCBodies == {Body("SUCESSO", FALSE, {g1}), Body("SUCESSO", FALSE, {g2}),
             Body("NAO_ENCONTRADO", FALSE, {}), Body("ERRO", TRUE, {})}

MCFaults == {"getFails", "putFails", "detached"}
NoFaults == {}

\* Which save or insert does it is all the same.
CallSymmetry == Permutations(Saves) \cup Permutations(Inserts)
=============================================================================
