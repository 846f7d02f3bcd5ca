------------------------------- MODULE MCInbox -------------------------------
(* An inbox of one conversation: one received message and one of the user's  *)
(* own.                                                                      *)
EXTENDS Inbox, TLC

CONSTANTS a, b, Two

MCMsgs  == {1, 2}
MCMine  == {1}
MCPolls == IF Two THEN {a, b} ELSE {a}
Swaps   == Permutations(MCPolls)

\* Bounds: a token that lasts, two requests of the tab under way at a time (two polls,
\* a poll and another one, or two others), only a received message anchored (its
\* decryption is what a patch awaits), three entries, which is what a hole in the
\* array takes, and one message of the user to himself.
UnderWay ==
  Cardinality({r \in DOMAIN act : act[r] # "none"})
    + Cardinality({p \in Polls : poll[p].pc # "idle"})
Few ==
  /\ live
  /\ UnderWay <= 2
  /\ anchored \subseteq Received
  /\ Len(thread) <= 3
  /\ toSelf => stored \subseteq {1}

\* Bound of the runs about a conversation with a partner.
WithPartner == ~toSelf
=============================================================================
