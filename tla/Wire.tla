--------------------------------- MODULE Wire ---------------------------------
(***************************************************************************)
(* Messages of the C++ client: Client.cpp, and the send and view loops of  *)
(* main.cpp, over the rows that the server keeps.                          *)
(*                                                                         *)
(* One client is modelled in full, for whoever is logged in; everybody,    *)
(* that user with another client included, sends, revokes and deletes      *)
(* whatever he may at any time.  The server is honest here: Pins has the   *)
(* one that is not.  Encryption is ideal: a cipher text opens under its    *)
(* own key and associated data only.                                       *)
(***************************************************************************)
EXTENDS Naturals

CONSTANTS
  Users,    \* everybody, each with a key pair
  Ids,      \* message ids, drawn at random by the sender
  Texts,    \* what users type, the wording of a placeholder if they like
  MaxTime,  \* bound: the clock, in seconds
  None      \* no user, id, text

Placeholders == {"[revoked]", "[message sent]"}

ASSUME NoneAssumption == None \notin Users \cup Ids \cup Texts \cup Placeholders
ASSUME MaxTimeAssumption == MaxTime \in Nat \ {0}

VARIABLES
  now,    \* the clock, the same for all
  msgs,   \* the messages table; a row that was deleted stays for the properties
  state,  \* of each row: not there yet, stored, revoked, or deleted
  me,     \* who is logged in
  cache,  \* sentCache: texts sent in this run of the client
  files,  \* what was downloaded
  pc,     \* the main menu, a view to fetch or shown, a request encrypted
  peer,   \* of the conversation on view, None in the main menu
  conv,   \* the conversation: an entry for each id
  draft,  \* the message encrypted and not yet posted
  told    \* history: the messages this client was told are revoked or deleted

client == <<cache, files, pc, peer, conv, draft, told>>
table == <<msgs, state>>
vars == <<now, table, me, client>>

Time == 1..MaxTime

\* X25519: the same secret from either side.
Agree(a, b) == {a, b}

\* The ephemeral pair is named by the id of the message it was drawn for.
Key == [eph: Ids, dh1: SUBSET (Users \cup Ids), dh2: SUBSET Users]
Ad == [from: Users, to: Users, id: Ids, ts: Time]
Blob == [key: Key, ad: Ad, text: Texts \cup Placeholders]

\* of: original_message_id.
Row == [from: Users, to: Users, blob: Blob, ts: Time, of: Ids \cup {None}]
NoRow == [from |-> None]

Entry == [by: Users, text: Texts \cup Placeholders]
NoEntry == [by |-> None, text |-> None]
NoConv == [i \in Ids |-> NoEntry]

\* An answer of the server that does not parse, as it was read.
Raw == "raw answer"

Draft == [id: Ids, to: Users, blob: Blob, of: Ids \cup {None}]
NoDraft == [id |-> None]

TypeOK ==
  /\ now \in Time
  /\ msgs \in [Ids -> Row \cup {NoRow}]
  /\ state \in [Ids -> {"free", "stored", "revoked", "gone"}]
  /\ me \in Users
  /\ cache \in [Ids -> Texts \cup {None}] /\ files \in [Ids -> Texts \cup {Raw, None}]
  /\ pc \in {"menu", "fetch", "shown", "encrypted"}
  /\ peer \in Users \cup {None}
  /\ conv \in [Ids -> Entry \cup {NoEntry}]
  /\ draft \in Draft \cup {NoDraft}
  /\ told \subseteq Ids

Init ==
  /\ now = 1
  /\ msgs = [i \in Ids |-> NoRow] /\ state = [i \in Ids |-> "free"]
  /\ me \in Users
  /\ cache = [i \in Ids |-> None] /\ files = [i \in Ids |-> None]
  /\ pc = "menu" /\ peer = None
  /\ conv = NoConv
  /\ draft = NoDraft
  /\ told = {}

-----------------------------------------------------------------------------
(* hpkeSend, hpkeReceive, encryptMessage, decryptMessage                   *)

HpkeSend(sk, eph, pk) == [eph |-> eph, dh1 |-> Agree(eph, pk), dh2 |-> Agree(sk, pk)]
HpkeReceive(sk, eph, pk) == [eph |-> eph, dh1 |-> Agree(sk, eph), dh2 |-> Agree(sk, pk)]

BuildAd(from, to, id, ts) == [from |-> from, to |-> to, id |-> id, ts |-> ts]

EncryptMessage(from, to, id, ts, text) ==
  [key |-> HpkeSend(from, id, to), ad |-> BuildAd(from, to, id, ts), text |-> text]

\* The key in the row is preferred to the one pinned for the conversation.
SenderKey(i) == msgs[i].from

\* Whether u can read row i, whose sender's key is pk.
Opens(i, u, pk) ==
  /\ msgs[i].blob.key = HpkeReceive(u, msgs[i].blob.key.eph, pk)
  /\ msgs[i].blob.ad = BuildAd(msgs[i].from, u, i, msgs[i].ts)

-----------------------------------------------------------------------------
(* receiveMessages                                                         *)

Stored(i) == state[i] \in {"stored", "revoked"}
InConv(i, x) == msgs[i].from = x \/ msgs[i].to = x

\* Mutant: the cache is looked at first.
CacheFirst(i) ==
  IF cache[i] # None THEN cache[i]
  ELSE IF state[i] = "revoked" THEN "[revoked]" ELSE "[message sent]"

SentText(i) ==
  IF state[i] = "revoked" THEN "[revoked]"
  ELSE IF cache[i] # None THEN cache[i] ELSE "[message sent]"

\* Mutant: the direction is not looked at.
AnyDirection(i, x) ==
  IF Stored(i) /\ InConv(i, x) THEN [by |-> msgs[i].from, text |-> SentText(i)] ELSE NoEntry

SentEntry(i, x) ==
  IF Stored(i) /\ InConv(i, x) /\ msgs[i].from = me
    THEN [by |-> me, text |-> SentText(i)] ELSE NoEntry

\* The listing has no revoked message for its recipient.
ReceivedEntry(i, x) ==
  IF /\ state[i] = "stored" /\ InConv(i, x) /\ msgs[i].to = me
     /\ Opens(i, me, SenderKey(i))
    THEN [by |-> msgs[i].from, text |-> msgs[i].blob.text] ELSE NoEntry

\* A message whose id was seen is ignored.
AddMessage(old, new) == IF old # NoEntry THEN old ELSE new

\* Mutant: the conversation is kept from one fetch to the next.
KeptConv == conv

FreshConv == NoConv

\* A message to oneself is listed twice, in any order.
Fetch ==
  /\ pc = "fetch"
  /\ \E sentFirst \in SUBSET {i \in Ids : Stored(i) /\ msgs[i].from = msgs[i].to} :
       conv' = [i \in Ids |->
         IF i \in sentFirst
           THEN AddMessage(AddMessage(FreshConv[i], SentEntry(i, peer)), ReceivedEntry(i, peer))
           ELSE AddMessage(AddMessage(FreshConv[i], ReceivedEntry(i, peer)), SentEntry(i, peer))]
  /\ pc' = "shown"
  /\ UNCHANGED <<now, table, me, cache, files, peer, draft, told>>

\* The user goes back, or the messages cannot be fetched.
Leave ==
  /\ pc \in {"fetch", "shown"}
  /\ pc' = "menu" /\ peer' = None
  /\ conv' = NoConv
  /\ UNCHANGED <<now, table, me, cache, files, draft, told>>

View(x) ==
  /\ pc = "menu"
  /\ pc' = "fetch" /\ peer' = x
  /\ UNCHANGED <<now, table, me, cache, files, conv, draft, told>>

Refresh ==
  /\ pc = "shown" /\ pc' = "fetch"
  /\ UNCHANGED <<now, table, me, cache, files, peer, conv, draft, told>>

-----------------------------------------------------------------------------
(* sendMessage and forwardMessage                                          *)

FreshId(i) == state[i] = "free" /\ i # draft.id

Encrypt(x, text, of) ==
  /\ \E i \in Ids :
       /\ FreshId(i)
       /\ draft' = [id |-> i, to |-> x, blob |-> EncryptMessage(me, x, i, now, text),
                    of |-> of]
  /\ pc' = "encrypted"
  /\ UNCHANGED <<now, table, me, cache, files, peer, conv, told>>

\* Send in the main menu, reply in a conversation.
Send(x, text) ==
  /\ \/ pc = "menu"
     \/ pc = "shown" /\ x = peer
  /\ Encrypt(x, text, None)

\* Mutant: any message that is shown.
AnyText(i) == conv[i] # NoEntry

HasPlain(i) == conv[i] # NoEntry /\ conv[i].text \notin Placeholders

Forward(i, x) ==
  /\ pc = "shown" /\ HasPlain(i)
  /\ Encrypt(x, conv[i].text, i)

\* Mutant: forwardMessage reads the clock again, as sendMessage does.
StampAgain(d) == now

\* sendMessage reads the clock again when it builds the body.
Stamp(d) == IF d.of = None THEN now ELSE d.blob.ad.ts

\* What the server takes: a forward needs its original, which must not go back
\* to those it was revoked from.
Accepts(d) ==
  d.of # None => /\ Stored(d.of)
                 /\ state[d.of] = "revoked" => d.to # msgs[d.of].to

CacheSent(d) == [cache EXCEPT ![d.id] = d.blob.text]

Answered ==
  /\ pc' = IF peer = None THEN "menu" ELSE "fetch"
  /\ draft' = NoDraft
  /\ UNCHANGED <<now, me, files, peer, conv, told>>

\* The answer may be lost: then the text is not cached.
Post ==
  /\ pc = "encrypted" /\ Accepts(draft)
  /\ msgs' = [msgs EXCEPT ![draft.id] =
       [from |-> me, to |-> draft.to, blob |-> draft.blob,
        ts |-> Stamp(draft), of |-> draft.of]]
  /\ state' = [state EXCEPT ![draft.id] = "stored"]
  /\ \/ cache' = CacheSent(draft)
     \/ cache' = cache
  /\ Answered

\* Refused, or lost on the way.
PostFails ==
  /\ pc = "encrypted"
  /\ UNCHANGED <<table, cache>>
  /\ Answered

-----------------------------------------------------------------------------
(* Message actions                                                         *)

Mark(i, s) == state' = [state EXCEPT ![i] = s]

\* Delete and revoke, for a message the view shows as one's own: served, with its
\* answer or without, or refused, or given up.  What is given up may be served later,
\* which is then a withdrawal from elsewhere.
Withdraw(i) ==
  /\ pc = "shown" /\ conv[i].by = me
  /\ \/ /\ Stored(i) /\ msgs[i].from = me
        /\ Mark(i, "gone") \/ Mark(i, "revoked")
        /\ told' \in {told, told \cup {i}}
     \/ UNCHANGED <<state, told>>
  /\ pc' = "fetch"
  /\ UNCHANGED <<now, msgs, me, cache, files, peer, conv, draft>>

\* The text saved is the one on view; the server is asked for the rest.  When its
\* answer does not parse, the answer itself is saved.
Download(i) ==
  /\ pc = "shown" /\ HasPlain(i) /\ conv[i].by # me
  /\ \/ Stored(i) /\ \E saved \in {conv[i].text, Raw} : files' = [files EXCEPT ![i] = saved]
     \/ UNCHANGED files
  /\ pc' = "fetch"
  /\ UNCHANGED <<now, table, me, cache, peer, conv, draft, told>>

\* The cache is not cleared.
SwitchUser(u) ==
  /\ pc = "menu"
  /\ me' = u
  /\ UNCHANGED <<now, table, client>>

-----------------------------------------------------------------------------
(* Everybody else                                                          *)

\* Any user, the one logged in here too, from another client, or with a request of
\* this one that it no longer waits for.  The clock may tick between the two readings
\* of a C++ client, and before the request is served.
OtherSends(u, x, text, i) ==
  /\ FreshId(i)
  /\ \E ad, ts \in 1..now :
       /\ ts \in {ad, ad + 1}
       /\ msgs' = [msgs EXCEPT ![i] =
            [from |-> u, to |-> x,
             blob |-> EncryptMessage(u, x, i, ad, text), ts |-> ts, of |-> None]]
  /\ state' = [state EXCEPT ![i] = "stored"]
  /\ UNCHANGED <<now, me, client>>

\* By its sender, in the same ways.
OtherWithdraws(i) ==
  /\ Stored(i)
  /\ Mark(i, "gone") \/ Mark(i, "revoked")
  /\ UNCHANGED <<now, msgs, me, client>>

Tick ==
  /\ now < MaxTime /\ now' = now + 1
  /\ UNCHANGED <<table, me, client>>

Next ==
  \/ \E x \in Users : View(x) \/ SwitchUser(x)
  \/ \E x \in Users, text \in Texts : Send(x, text)
  \/ \E i \in Ids, x \in Users : Forward(i, x)
  \/ \E i \in Ids : Withdraw(i) \/ Download(i) \/ OtherWithdraws(i)
  \/ \E u, x \in Users, text \in Texts, i \in Ids : OtherSends(u, x, text, i)
  \/ Fetch \/ Leave \/ Refresh \/ Post \/ PostFails \/ Tick

Spec == Init /\ [][Next]_vars

-----------------------------------------------------------------------------
(* Properties                                                              *)

(* What is on view or in the cache under an id is the text that was sent    *)
(* under that id, or a placeholder for a message of one's own; also after    *)
(* another user has logged in, for whom sentCache is kept (main.cpp:139).    *)
(* What is saved is that text, or the raw answer of the server.              *)
ShownText ==
  \A i \in Ids :
    /\ conv[i] # NoEntry =>
         /\ conv[i].by = msgs[i].from
         /\ \/ conv[i].text = msgs[i].blob.text
            \/ (conv[i].text \in Placeholders /\ conv[i].by = me)
    /\ files[i] # None => files[i] \in {msgs[i].blob.text, Raw}
    /\ cache[i] # None => cache[i] = msgs[i].blob.text

(* A message that was forwarded has the text of its original, through any   *)
(* number of forwards: no placeholder is sent in place of a text.            *)
ForwardFaithful ==
  \A i \in Ids : state[i] # "free" /\ msgs[i].of # None =>
    msgs[i].blob.text = msgs[msgs[i].of].blob.text

(* Whoever a message is forwarded to can read it, however long the request  *)
(* takes: the time in the body is the one the message was encrypted with.   *)
ForwardOpens ==
  \A i \in Ids : state[i] # "free" /\ msgs[i].of # None =>
    Opens(i, msgs[i].to, msgs[i].from)

Consistent(i) == msgs[i].ts = msgs[i].blob.ad.ts

(* "Rebuild conv fresh each time so deleted/revoked messages disappear"     *)
(* (main.cpp:290): a fetch shows what the server has at that moment and     *)
(* nothing else.  Of what one received, only what was encrypted with another *)
(* time than it carries is skipped, whoever sent it; what one sent oneself   *)
(* and revoked is marked so, and otherwise shown as it is or, when this run  *)
(* has not sent it, as sent.  In every order of the two rows of a message to *)
(* oneself, and whatever users type.                                         *)
ViewIsListing ==
  [][pc = "fetch" /\ pc' = "shown" =>
       \A i \in Ids :
         /\ conv'[i] # NoEntry <=>
              /\ Stored(i) /\ InConv(i, peer)
              /\ \/ msgs[i].from = me
                 \/ msgs[i].to = me /\ state[i] = "stored" /\ Consistent(i)
         /\ conv'[i] # NoEntry /\ state[i] = "revoked" => conv'[i].text = "[revoked]"
         /\ conv'[i] # NoEntry /\ state[i] = "stored" =>
              \/ conv'[i].text = msgs[i].blob.text
              \/ conv'[i].text = "[message sent]" /\ msgs[i].from = me]_vars

(* Once this client has told its user that a message of his is revoked or    *)
(* deleted, it does not forward it for him again, whatever it shows, caches  *)
(* and refreshes and whoever logs in meanwhile.  (The server would take the  *)
(* forward of a revoked message.)                                            *)
NotAfterTold ==
  [][\A i \in told : draft' # draft /\ draft'.id # None /\ draft'.of = i =>
       msgs[i].from # me]_vars

(* "the application-level 'timestamp' (integer unix epoch baked into the AD  *)
(* at encrypt time)" (Client.cpp:341): what this client was told it sent can *)
(* be read by its recipient.                                                 *)
SentOpens ==
  \A i \in Ids : cache[i] # None => Opens(i, msgs[i].to, msgs[i].from)
=============================================================================
