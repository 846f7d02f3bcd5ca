---------------------------- MODULE MCAnchorOne ----------------------------
(* One server process: its scheduler and a flush thread compete for the      *)
(* lock.  Two messages to different recipients, so that a run has two groups *)
(* and a flush may take only one of the rows.                                *)
EXTENDS Anchor

CONSTANTS p1, s1, f1, ann, bob, cat, m1, m2

MCProcs      == {p1}
MCThreads    == {s1, f1}
MCProcOf     == [t \in MCThreads |-> p1]
MCSchedulers == {s1}
MCUsers      == {ann, bob, cat}
MCMsgs       == {m1, m2}
MCSender     == [m \in MCMsgs |-> IF m = m1 THEN cat ELSE ann]
MCRecipient  == [m \in MCMsgs |-> IF m = m1 THEN bob ELSE cat]
=============================================================================
