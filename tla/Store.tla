-------------------------------- MODULE Store ---------------------------------
(***************************************************************************)
(* What the C++ client keeps while a conversation is on view:              *)
(* MessageStore (messages and an index by pair of users) and Conversation  *)
(* (decrypted messages, each id once).  A view loop clears both and fills  *)
(* them again; receiveMessages adds to the store, then to the conversation.*)
(* An allocation may fail anywhere on the way.  The console then ends; the *)
(* model lets the caller go on, as the rollback in Conversation does.      *)
(* A name is a sequence of character codes.                                *)
(***************************************************************************)
EXTENDS Naturals, Sequences, SequencesExt

CONSTANTS
  Names,    \* ids of users
  Ids,      \* message ids
  MaxMsgs   \* bound: messages added between two clears

ASSUME NamesAssumption == Names \subseteq Seq(Nat)

VARIABLES
  messages,  \* MessageStore: messages_
  byPeer,    \* MessageStore: byPeer_
  added,     \* history: the messages that were added without a failure
  conv,      \* Conversation: messages_
  seen       \* Conversation: seenIds_

store == <<messages, byPeer, added>>
vars == <<store, conv, seen>>

Message == [id: Ids, from: Names, to: Names]

TypeOK ==
  /\ messages \in Seq(Message)
  /\ \A k \in DOMAIN byPeer : byPeer[k] \in Seq(Message)
  /\ added \in Seq(Message)
  /\ conv \in Seq(Message)
  /\ seen \subseteq Ids

NoBuckets == [k \in {} |-> << >>]

Init ==
  /\ messages = << >> /\ byPeer = NoBuckets /\ added = << >>
  /\ conv = << >> /\ seen = {}

-----------------------------------------------------------------------------
(* peerKey                                                                 *)

Percent == <<37, 50, 53>>  \* %25
Bar == <<37, 55, 67>>      \* %7C

\* Mutant: the escape character itself is not escaped.
EscapeBar(name) ==
  FlattenSeq([n \in DOMAIN name |-> IF name[n] = 124 THEN Bar ELSE <<name[n]>>])

Escape(name) ==
  FlattenSeq([n \in DOMAIN name |->
    IF name[n] = 37 THEN Percent ELSE IF name[n] = 124 THEN Bar ELSE <<name[n]>>])

\* operator< of strings.
Less(a, b) ==
  \/ IsStrictPrefix(a, b)
  \/ \E n \in DOMAIN a \cap DOMAIN b :
       a[n] < b[n] /\ SubSeq(a, 1, n - 1) = SubSeq(b, 1, n - 1)

PeerKey(from, to) ==
  LET a == Escape(from)
      b == Escape(to)
  IN  IF Less(a, b) THEN a \o <<124>> \o b ELSE b \o <<124>> \o a

-----------------------------------------------------------------------------
(* MessageStore                                                            *)

GetMessagesFor(key) == IF key \in DOMAIN byPeer THEN byPeer[key] ELSE << >>

\* operator[] of the index: an empty bucket if there is none.
WithBucket(key) == [k \in DOMAIN byPeer \cup {key} |-> GetMessagesFor(k)]

AddToStore(m) ==
  LET key == PeerKey(m.from, m.to) IN
  /\ messages' = Append(messages, m)
  /\ byPeer' = [WithBucket(key) EXCEPT ![key] = Append(@, m)]
  /\ added' = Append(added, m)

\* Memory runs out at the list, at the bucket, or at the message in the bucket.
StoreFails(m) ==
  /\ \/ UNCHANGED <<messages, byPeer>>
     \/ /\ messages' = Append(messages, m)
        /\ byPeer' \in {byPeer, WithBucket(PeerKey(m.from, m.to))}
  /\ added' = added

-----------------------------------------------------------------------------
(* Conversation                                                            *)

\* Mutant: the id stays when the message could not be stored.
KeepId(id) == seen \cup {id}

TakeBack(id) == seen

\* Mutant: the sender is what was seen.
AddBySender(m) ==
  \/ m.from \notin seen /\ seen' = seen \cup {m.from} /\ conv' = Append(conv, m)
  \/ m.from \in seen /\ UNCHANGED <<conv, seen>>

\* Storing a new message may throw; the conversation stays usable.
AddToConv(m) ==
  \/ m.id \notin seen /\ seen' = seen \cup {m.id} /\ conv' = Append(conv, m)
  \/ m.id \notin seen /\ seen' = TakeBack(m.id) /\ conv' = conv
  \/ m.id \in seen /\ UNCHANGED <<conv, seen>>

-----------------------------------------------------------------------------
(* receiveMessages and the view loop                                       *)

Room == Len(messages) < MaxMsgs /\ Len(conv) < MaxMsgs

Received(m) ==
  /\ Room
  /\ \/ AddToStore(m) /\ AddToConv(m)
     \/ StoreFails(m) /\ UNCHANGED <<conv, seen>>

\* The user's own messages are not stored.
Sent(m) == Room /\ AddToConv(m) /\ UNCHANGED store

\* Each turn of the view loop.
Clear ==
  /\ messages' = << >> /\ byPeer' = NoBuckets /\ added' = << >>
  /\ conv' = << >> /\ seen' = {}

Next ==
  \/ \E m \in Message : Received(m) \/ Sent(m)
  \/ Clear

Spec == Init /\ [][Next]_vars

-----------------------------------------------------------------------------
(* Properties                                                              *)

\* The messages of a sequence between two users, in its order.
Between(l, u, v) ==
  FlattenSeq([n \in DOMAIN l |->
    IF {l[n].from, l[n].to} = {u, v} THEN <<l[n]>> ELSE << >>])

(* "IDs containing '|' or '%' cannot collide with the delimiter"            *)
(* (MessageStore.hpp:49) and "both directions of the same conversation land *)
(* in the same bucket" (:16): whatever the names, a bucket holds exactly    *)
(* the messages between two users whose addition returned, in the order     *)
(* they came.  An addition that fails half way leaves its message in the     *)
(* list and an empty bucket at most.                                        *)
IndexAgrees ==
  \A u, v \in Names : GetMessagesFor(PeerKey(u, v)) = Between(added, u, v)

(* A message that could not be stored is not taken for seen: an id is seen  *)
(* when, and only when, one message of the conversation has it.             *)
SeenAgrees ==
  /\ seen = {conv[n].id : n \in DOMAIN conv}
  /\ Len(conv) = Cardinality(seen)
=============================================================================
