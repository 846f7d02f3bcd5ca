----------------------------- MODULE AnchorSpec -----------------------------
(***************************************************************************)
(* What anchoring promises about each message, as the verification view of *)
(* the clients sees it: a message waits, is claimed for a root, and is     *)
(* confirmed only once a root that digests it is stored on the chain.  A   *)
(* claim may be given up, a confirmation never is.                         *)
(***************************************************************************)
CONSTANT Msgs

VARIABLES
  status,   \* of each message, as its row and its record show it
  stored    \* the messages that some root stored on the chain digests

avars == <<status, stored>>

Statuses == {"unsent", "waiting", "claimed", "confirmed", "deleted"}

AInit ==
  /\ status = [m \in Msgs |-> "unsent"]
  /\ stored = {}

\* The messages of S, all of which have status s, get status t.
Move(S, s, t) ==
  /\ \A m \in S : status[m] = s
  /\ status' = [m \in Msgs |-> IF m \in S THEN t ELSE status[m]]

Post(m)   == Move({m}, "unsent", "waiting") /\ UNCHANGED stored
Claim(S)  == Move(S, "waiting", "claimed") /\ UNCHANGED stored
Unclaim(S) == Move(S, "claimed", "waiting") /\ UNCHANGED stored

\* A root over S is stored: the chain forgets nothing.
Store(S) == stored' = stored \cup S /\ UNCHANGED status

Confirmed(S) == S \subseteq stored /\ Move(S, "claimed", "confirmed") /\ UNCHANGED stored

Delete(m) ==
  /\ status[m] \in {"waiting", "claimed", "confirmed"}
  /\ status' = [status EXCEPT ![m] = "deleted"]
  /\ UNCHANGED stored

ANext ==
  \/ \E m \in Msgs : Post(m) \/ Delete(m)
  \/ \E S \in SUBSET Msgs : Claim(S) \/ Unclaim(S) \/ Store(S) \/ Confirmed(S)

ASpec == AInit /\ [][ANext]_avars
=============================================================================
