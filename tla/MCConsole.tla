------------------------------- MODULE MCConsole ------------------------------
(* Two consoles of different builds that want the same username, two workers of *)
(* the server, one strong and one weak password, and one request that may    *)
(* arrive late.                                                              *)
EXTENDS Console, TLC

CONSTANTS c1, c2, p1, p2, ann, strong, weak, x1, x2, k1, k2

MCConsoles  == {c1, c2}
MCWorkers   == {p1, p2}
MCFullArgon == {c1}
MCNames     == {ann}
MCPasswords == {strong, weak}
MCWeak      == {weak}
MCNew       == {weak}
MCKeys      == {x1, x2}
MCTokens    == {k1, k2}

Swaps == Permutations(MCKeys) \cup Permutations(MCWorkers) \cup Permutations(MCTokens)
===============================================================================
