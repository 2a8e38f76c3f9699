----------------------------- MODULE MCUnlock -----------------------------
(* Small instances of UnlockSession.                                       *)
EXTENDS UnlockSession, TLC

CONSTANTS t1, t2, a1

TabsAlike == Permutations(Tabs)

=============================================================================
