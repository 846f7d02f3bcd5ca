------------------------------ MODULE MCAccounts ------------------------------
(* Two tabs of one user with two requests under way, and one server process  *)
(* that may restart; AccountsProofs is about any number of processes.        *)
EXTENDS Accounts, TLC

CONSTANTS p1, t1, t2, c1, c2, q1, q2, k1, k2

MCProcs     == {p1}
MCTabs      == {t1, t2}
MCCalls     == {c1, c2}
MCPasswords == {q1, q2}
MCTokens    == {k1, k2}

Swaps ==
  Permutations(MCTabs) \cup Permutations(MCCalls) \cup Permutations(MCPasswords)
    \cup Permutations(MCTokens)
=============================================================================
