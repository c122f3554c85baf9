--------------------------- MODULE MCAuthThrottle ---------------------------
(***************************************************************************)
(* Two requests at a time from one address.  The clients are               *)
(* interchangeable and the properties are safety properties, so they are a *)
(* symmetry set.  A behaviour asks for the codes of one scene only: the    *)
(* scenes share no key but the block of the address, and the proofs hold   *)
(* for all of them at once.                                                *)
(***************************************************************************)
EXTENDS AuthThrottle, TLC

CONSTANTS c1, c2

MCClients == {c1, c2}

MCSymmetry == Permutations(MCClients)

Asked(s) ==
  \/ mails[s].count > 0 \/ cooldown[s] \/ mail[s].last # 0
  \/ \E c \in Clients : call[c].scene = s

\* Bound: one scene in a behaviour.
OneScene == \A s, t \in Scenes : Asked(s) /\ Asked(t) => s = t

=============================================================================
