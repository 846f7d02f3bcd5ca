-------------------------------- MODULE MCPins --------------------------------
(* Constants for the runs of Pins. *)
EXTENDS Pins, FiniteSets, TLC

CONSTANTS o1, o2, p1, p2, x1, x2, k1, k2, i1, i2

TwoOwners == {o1, o2}
TwoProcs == {p1, p2}
TwoPeers == {x1, x2}
TwoKeys == {k1, k2}
TwoIds == {i1, i2}

\* Bounds, once several clients have used the file: they look one peer up, and are
\* told one id.
Maps == {file.pins, tmp.pins} \cup {mem[p] : p \in Procs}
Few ==
  Alone \/ /\ \A m \in Maps : m[x2].by = None /\ m[x1].id # i2
           /\ \A o \in Owners : got[o][x2] = {} /\ \A a \in got[o][x1] : a.id = i1

Symmetry ==
  Permutations(Owners) \cup Permutations(Procs) \cup Permutations(Keys)
=============================================================================
