------------------------------ MODULE MCAnchor ------------------------------
(* Two server processes, each with its scheduler, and three users; two       *)
(* messages to the same recipient from different senders.                    *)
EXTENDS Anchor

CONSTANTS p1, p2, s1, s2, ann, bob, cat, m1, m2

MCProcs      == {p1, p2}
MCThreads    == {s1, s2}
MCProcOf     == [t \in MCThreads |-> IF t = s2 THEN p2 ELSE p1]
MCSchedulers == {s1, s2}
MCUsers      == {ann, bob, cat}
MCMsgs       == {m1, m2}
MCSender     == [m \in MCMsgs |-> IF m = m1 THEN ann ELSE cat]
MCRecipient  == [m \in MCMsgs |-> bob]
=============================================================================
