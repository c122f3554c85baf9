---------------------------- MODULE MCAuthTokens ----------------------------
(***************************************************************************)
(* Two tabs of one account.  The tabs are interchangeable and the          *)
(* properties are safety properties, so the tabs are a symmetry set.       *)
(***************************************************************************)
EXTENDS AuthTokens, TLC

CONSTANTS t1, t2

MCTabs == {t1, t2}

MCSymmetry == Permutations(MCTabs)

=============================================================================
