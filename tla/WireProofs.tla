------------------------------ MODULE WireProofs ------------------------------
(* Proofs about Wire, for any number of users, messages, texts and seconds.  *)
EXTENDS Wire, TLAPS

\* A request under way.
DraftShape ==
  /\ pc = "encrypted" <=> draft # NoDraft
  /\ draft # NoDraft =>
       /\ draft \in Draft /\ state[draft.id] = "free"
       /\ \E ts \in Time : draft.blob =
            EncryptMessage(me, draft.to, draft.id, ts, draft.blob.text)
       /\ draft.blob.text \in Texts
       /\ draft.of # None => /\ state[draft.of] # "free"
                             /\ draft.blob.text = msgs[draft.of].blob.text

\* Nothing is on view in the main menu.
ViewShape ==
  /\ pc = "menu" => peer = None
  /\ pc \in {"fetch", "shown"} => peer # None
  /\ peer = None => conv = NoConv

\* Rows are there, and with them whatever is known of a message.
RowShape ==
  \A i \in Ids :
    /\ state[i] # "free" <=> msgs[i] \in Row
    /\ conv[i] # NoEntry \/ files[i] # None \/ cache[i] # None => state[i] # "free"
    /\ state[i] # "free" /\ msgs[i].of # None => state[msgs[i].of] # "free"

TInv == TypeOK /\ DraftShape /\ ViewShape /\ RowShape

IInv == TInv /\ ShownText /\ ForwardFaithful /\ ForwardOpens

-----------------------------------------------------------------------------
(* Types                                                                     *)

\* What stands for nothing is told from what there is.
LEMMA NoEntryTypes ==
  NoEntry \notin Entry /\ NoRow \notin Row /\ NoDraft \notin Draft /\ NoConv \in [Ids -> {NoEntry}]
  BY NoneAssumption DEF NoEntry, Entry, NoRow, Row, NoDraft, Draft, NoConv

(* What is encrypted for a user in Users under an id in Ids is a blob.       *)
LEMMA EncryptTypes ==
  ASSUME NEW u \in Users, NEW x \in Users, NEW i \in Ids, NEW ts \in Time,
         NEW text \in Texts \cup Placeholders
  PROVE  /\ EncryptMessage(u, x, i, ts, text) \in Blob
         /\ EncryptMessage(u, x, i, ts, text).text = text
  BY DEF EncryptMessage, HpkeSend, BuildAd, Agree, Blob, Key, Ad

(* The recipient derives the sender's key, and builds the same data from a   *)
(* row that has the time of the encryption.                                  *)
LEMMA EncryptOpens ==
  ASSUME NEW i \in Ids, NEW u, NEW x, NEW ts, NEW text,
         msgs[i].blob = EncryptMessage(u, x, i, ts, text),
         msgs[i].from = u, msgs[i].ts = ts
  PROVE  Opens(i, x, u)
<1>1. Agree(i, x) = Agree(x, i) /\ Agree(u, x) = Agree(x, u)
  BY DEF Agree
<1>2. msgs[i].blob.key = [eph |-> i, dh1 |-> Agree(i, x), dh2 |-> Agree(u, x)]
  BY DEF EncryptMessage, HpkeSend
<1>3. msgs[i].blob.key.eph = i
  BY <1>2
<1>4. msgs[i].blob.ad = BuildAd(u, x, i, ts)
  BY DEF EncryptMessage
<1> QED
  BY <1>1, <1>2, <1>3, <1>4 DEF Opens, HpkeReceive

(* The initial state.                                                        *)
LEMMA WireInit == Init => IInv
<1> SUFFICES ASSUME Init PROVE IInv
  OBVIOUS
<1>1. TypeOK
  BY MaxTimeAssumption, NoEntryTypes DEF Init, TypeOK, Time
<1>2. DraftShape /\ ViewShape
  BY DEF Init, DraftShape, ViewShape
<1>3. RowShape
  BY NoEntryTypes DEF Init, RowShape, NoConv
<1>4. ShownText /\ ForwardFaithful /\ ForwardOpens
  BY DEF Init, ShownText, ForwardFaithful, ForwardOpens, NoConv
<1> QED
  BY <1>1, <1>2, <1>3, <1>4 DEF IInv, TInv

-----------------------------------------------------------------------------
(* Steps                                                                     *)

(* A fetch puts a row's own text on view, or a placeholder for one's own.    *)
LEMMA FetchedEntries ==
  ASSUME IInv, Fetch, NEW i \in Ids
  PROVE  /\ conv'[i] \in Entry \cup {NoEntry}
         /\ conv'[i] # NoEntry =>
              /\ state[i] # "free" /\ conv'[i].by = msgs[i].from
              /\ \/ conv'[i].text = msgs[i].blob.text
                 \/ conv'[i].text \in Placeholders /\ conv'[i].by = me
<1> DEFINE Good(e) ==
      /\ e \in Entry \cup {NoEntry}
      /\ e # NoEntry =>
           /\ state[i] # "free" /\ e.by = msgs[i].from
           /\ \/ e.text = msgs[i].blob.text
              \/ e.text \in Placeholders /\ e.by = me
<1>1. Stored(i) => msgs[i] \in Row /\ state[i] # "free"
  BY DEF IInv, TInv, RowShape, Stored
<1>2. Good(SentEntry(i, peer))
  <2>1. SentText(i) \in Texts \cup Placeholders
    BY DEF SentText, Placeholders, IInv, TInv, TypeOK
  <2>2. SentText(i) = msgs[i].blob.text \/ SentText(i) \in Placeholders
    BY DEF SentText, Placeholders, IInv, ShownText
  <2>3. [by |-> me, text |-> SentText(i)] \in Entry
    BY <2>1 DEF Entry, IInv, TInv, TypeOK
  <2> QED
    BY <1>1, <2>2, <2>3 DEF SentEntry
<1>3. Good(ReceivedEntry(i, peer))
  <2>1. ASSUME msgs[i] \in Row
        PROVE  [by |-> msgs[i].from, text |-> msgs[i].blob.text] \in Entry
    BY <2>1 DEF Row, Blob, Entry
  <2>2. state[i] = "stored" => msgs[i] \in Row /\ state[i] # "free"
    BY <1>1 DEF Stored
  <2> QED
    BY <2>1, <2>2 DEF ReceivedEntry
<1>4. FreshConv[i] = NoEntry
  BY DEF FreshConv, NoConv
<1>5. \/ conv'[i] \in {SentEntry(i, peer), ReceivedEntry(i, peer)}
  BY <1>4 DEF Fetch, AddMessage
<1> HIDE DEF Good
<1>6. Good(conv'[i])
  BY <1>2, <1>3, <1>5
<1> QED
  BY <1>6 DEF Good

(* The request that is encrypted becomes a row that answers its draft.       *)
LEMMA PostedRow ==
  ASSUME IInv, Post
  PROVE  /\ draft.id \in Ids /\ state[draft.id] = "free"
         /\ msgs'[draft.id] \in Row
         /\ msgs'[draft.id].blob.text \in Texts
         /\ msgs'[draft.id].blob = draft.blob
         /\ msgs'[draft.id].of = draft.of
         /\ \A i \in Ids \ {draft.id} : msgs'[i] = msgs[i] /\ state'[i] = state[i]
         /\ state'[draft.id] = "stored"
         /\ \A i \in Ids : i = draft.id /\ draft.of # None =>
              Opens(i, msgs[i].to, msgs[i].from)'
<1>1. draft \in Draft /\ state[draft.id] = "free" /\ draft.blob.text \in Texts
  BY DEF Post, IInv, TInv, DraftShape
<1>2. draft.id \in Ids /\ draft.to \in Users /\ draft.blob \in Blob
      /\ draft.of \in Ids \cup {None}
  BY <1>1 DEF Draft
<1>3. Stamp(draft) \in Time
  BY <1>2 DEF Stamp, Blob, Ad, IInv, TInv, TypeOK
<1> DEFINE row == [from |-> me, to |-> draft.to, blob |-> draft.blob,
                   ts |-> Stamp(draft), of |-> draft.of]
<1>4. row \in Row
  BY <1>2, <1>3 DEF Row, IInv, TInv, TypeOK
<1>5. msgs' = [msgs EXCEPT ![draft.id] = row] /\ state' = [state EXCEPT ![draft.id] = "stored"]
  BY DEF Post
<1>6. msgs'[draft.id] = row /\ state'[draft.id] = "stored"
  BY <1>2, <1>5 DEF IInv, TInv, TypeOK
<1>7. \A i \in Ids \ {draft.id} : msgs'[i] = msgs[i] /\ state'[i] = state[i]
  BY <1>5 DEF IInv, TInv, TypeOK
<1>8. ASSUME NEW i \in Ids, i = draft.id, draft.of # None
      PROVE  Opens(i, msgs[i].to, msgs[i].from)'
  <2>1. PICK ts \in Time :
          draft.blob = EncryptMessage(me, draft.to, draft.id, ts, draft.blob.text)
    BY DEF Post, IInv, TInv, DraftShape
  <2>2. Stamp(draft) = ts
    BY <1>8, <2>1 DEF Stamp, EncryptMessage, BuildAd
  <2>3. /\ msgs'[draft.id].blob = EncryptMessage(me, draft.to, draft.id, ts, draft.blob.text)
        /\ msgs'[draft.id].from = me /\ msgs'[draft.id].ts = ts
        /\ msgs'[draft.id].to = draft.to
    BY <1>6, <2>1, <2>2
  <2>4. draft.blob.key.eph = draft.id /\ draft.blob.ad = BuildAd(me, draft.to, draft.id, ts)
        /\ draft.blob.key = [eph |-> draft.id, dh1 |-> Agree(draft.id, draft.to),
                             dh2 |-> Agree(me, draft.to)]
    BY <2>1 DEF EncryptMessage, HpkeSend
  <2>5. Agree(draft.id, draft.to) = Agree(draft.to, draft.id)
        /\ Agree(me, draft.to) = Agree(draft.to, me)
    BY DEF Agree
  <2> DEFINE new == msgs'[i]
  <2>6. /\ new.blob.key = HpkeReceive(new.to, new.blob.key.eph, new.from)
        /\ new.blob.ad = BuildAd(new.from, new.to, i, new.ts)
    BY <1>6, <1>8, <2>3, <2>4, <2>5 DEF HpkeReceive
  <2> QED
    BY <2>6 DEF Opens
<1> QED
  BY <1>1, <1>2, <1>4, <1>6, <1>7, <1>8

(* What another user sends is a row as well.                                 *)
LEMMA OtherRow ==
  ASSUME IInv, NEW u \in Users, NEW x \in Users, NEW text \in Texts, NEW i \in Ids,
         OtherSends(u, x, text, i)
  PROVE  /\ state[i] = "free" /\ i # draft.id
         /\ msgs' \in [Ids -> Row \cup {NoRow}] /\ msgs'[i] \in Row
         /\ msgs'[i].blob.text = text /\ msgs'[i].of = None
         /\ \A j \in Ids \ {i} : msgs'[j] = msgs[j] /\ state'[j] = state[j]
         /\ state' = [state EXCEPT ![i] = "stored"]
         /\ UNCHANGED <<now, me, client>>
<1>1. PICK ad \in 1..now, ts \in 1..now :
        msgs' = [msgs EXCEPT ![i] =
          [from |-> u, to |-> x, blob |-> EncryptMessage(u, x, i, ad, text), ts |-> ts,
           of |-> None]]
  BY DEF OtherSends
<1> DEFINE row == [from |-> u, to |-> x, blob |-> EncryptMessage(u, x, i, ad, text),
                   ts |-> ts, of |-> None]
<1>a. ad \in Time /\ ts \in Time
  BY MaxTimeAssumption DEF IInv, TInv, TypeOK, Time
<1>2. EncryptMessage(u, x, i, ad, text) \in Blob
      /\ EncryptMessage(u, x, i, ad, text).text = text
  BY <1>a, EncryptTypes
<1>3. row \in Row
  BY <1>2, <1>a DEF Row, IInv, TInv, TypeOK
<1>4. msgs' = [msgs EXCEPT ![i] = row] /\ msgs'[i] = row
  BY <1>1 DEF IInv, TInv, TypeOK
<1>5. /\ msgs' \in [Ids -> Row \cup {NoRow}]
      /\ \A j \in Ids \ {i} : msgs'[j] = msgs[j]
  BY <1>3, <1>4 DEF IInv, TInv, TypeOK
<1>6. /\ state' = [state EXCEPT ![i] = "stored"] /\ state[i] = "free" /\ i # draft.id
      /\ UNCHANGED <<now, me, client>>
  BY DEF OtherSends, FreshId
<1>7. row.blob.text = text /\ row.of = None
  BY <1>2
<1> QED
  BY <1>3, <1>4, <1>5, <1>6, <1>7 DEF IInv, TInv, TypeOK

(* What is encrypted is a draft that answers to its id, text and original.   *)
LEMMA EncryptedDraft ==
  ASSUME IInv, NEW x \in Users, NEW text \in Texts, NEW of \in Ids \cup {None},
         Encrypt(x, text, of)
  PROVE  /\ draft' \in Draft /\ state[draft'.id] = "free"
         /\ \E ts \in Time : draft'.blob =
              EncryptMessage(me, draft'.to, draft'.id, ts, draft'.blob.text)
         /\ draft'.blob.text = text /\ draft'.of = of /\ draft' # NoDraft
         /\ pc' = "encrypted" /\ UNCHANGED <<now, table, me, cache, files, peer, conv, told>>
<1>1. PICK i \in Ids :
        /\ FreshId(i)
        /\ draft' = [id |-> i, to |-> x, blob |-> EncryptMessage(me, x, i, now, text),
                     of |-> of]
  BY DEF Encrypt
<1>2. /\ EncryptMessage(me, x, i, now, text) \in Blob
      /\ EncryptMessage(me, x, i, now, text).text = text
  BY EncryptTypes DEF IInv, TInv, TypeOK
<1>3. draft' \in Draft
  BY <1>1, <1>2 DEF Draft
<1>4. /\ draft'.id = i /\ draft'.to = x /\ draft'.of = of
      /\ draft'.blob = EncryptMessage(me, x, i, now, text)
  BY <1>1
<1>5. \E ts \in Time : draft'.blob =
        EncryptMessage(me, draft'.to, draft'.id, ts, draft'.blob.text)
  BY <1>2, <1>4 DEF IInv, TInv, TypeOK
<1>6. draft' # NoDraft
  BY <1>3, NoEntryTypes
<1> QED
  BY <1>1, <1>2, <1>3, <1>4, <1>5, <1>6 DEF FreshId, Encrypt

(* Send and forward encrypt a text somebody typed.                           *)
LEMMA EncryptsTyped ==
  ASSUME IInv, NEW x \in Users,
         \/ \E text \in Texts : Send(x, text)
         \/ \E i \in Ids : Forward(i, x)
  PROVE  \E text \in Texts, of \in Ids \cup {None} :
           /\ Encrypt(x, text, of)
           /\ of # None => state[of] # "free" /\ text = msgs[of].blob.text
<1>1. CASE \E text \in Texts : Send(x, text)
  BY <1>1 DEF Send
<1>2. ASSUME NEW i \in Ids, Forward(i, x)
      PROVE  \E text \in Texts, of \in Ids \cup {None} :
               /\ Encrypt(x, text, of)
               /\ of # None => state[of] # "free" /\ text = msgs[of].blob.text
  <2>1. conv[i] \in Entry /\ conv[i] # NoEntry /\ conv[i].text \notin Placeholders
    BY <1>2 DEF Forward, HasPlain, IInv, TInv, TypeOK
  <2>2. conv[i].text \in Texts
    BY <2>1 DEF Entry
  <2>3. state[i] # "free" /\ conv[i].text = msgs[i].blob.text
    BY <2>1 DEF IInv, TInv, RowShape, ShownText
  <2> QED
    BY <1>2, <2>2, <2>3 DEF Forward
<1> QED
  BY <1>1, <1>2

(* Every step but those that encrypt, post, fetch and send from elsewhere.   *)
Quiet ==
  \/ \E x \in Users : View(x) \/ SwitchUser(x)
  \/ \E i \in Ids : Withdraw(i) \/ Download(i) \/ OtherWithdraws(i)
  \/ Leave \/ Refresh \/ PostFails \/ Tick

\* The steps there are.
LEMMA NextCases ==
  ASSUME Next
  PROVE  \/ Quiet \/ Fetch \/ Post
         \/ \E x \in Users : \/ \E text \in Texts : Send(x, text)
                             \/ \E i \in Ids : Forward(i, x)
         \/ \E u, x \in Users, text \in Texts, i \in Ids : OtherSends(u, x, text, i)
  BY DEF Next, Quiet

(* A row that is there stays as it is.                                       *)
LEMMA RowsStay ==
  ASSUME IInv, Next, NEW i \in Ids, state[i] # "free"
  PROVE  msgs'[i] = msgs[i] /\ state'[i] # "free"
<1>1. CASE Quiet
  BY <1>1 DEF Quiet, View, SwitchUser, Withdraw, Download, OtherWithdraws, Leave, Refresh,
              PostFails, Tick, Mark, table, IInv, TInv, TypeOK
<1>2. CASE Fetch
  BY <1>2 DEF Fetch, table
<1>3. CASE Post
  BY <1>3, PostedRow
<1>4. ASSUME NEW x \in Users,
             (\E text \in Texts : Send(x, text)) \/ (\E j \in Ids : Forward(j, x))
      PROVE  UNCHANGED table
  BY <1>4 DEF Send, Forward, Encrypt
<1>5. ASSUME NEW u \in Users, NEW x \in Users, NEW text \in Texts, NEW j \in Ids,
             OtherSends(u, x, text, j)
      PROVE  msgs'[i] = msgs[i] /\ state'[i] # "free"
  BY <1>5, OtherRow
<1> QED
  BY <1>1, <1>2, <1>3, <1>4, <1>5, NextCases DEF table

(* A download saves a text as it was sent, or the answer of the server.      *)
LEMMA Downloaded ==
  ASSUME IInv, NEW i \in Ids, Download(i)
  PROVE  /\ files' \in [Ids -> Texts \cup {Raw, None}]
         /\ \A j \in Ids :
              \/ files'[j] = files[j]
              \/ state[j] # "free" /\ files'[j] \in {msgs[j].blob.text, Raw}
<1>1. conv[i] \in Entry /\ conv[i] # NoEntry /\ conv[i].text \notin Placeholders
  BY DEF Download, HasPlain, IInv, TInv, TypeOK
<1>2. conv[i].text \in Texts
  BY <1>1 DEF Entry
<1>3. state[i] # "free" /\ conv[i].text = msgs[i].blob.text
  BY <1>1 DEF IInv, TInv, RowShape, ShownText
<1> QED
  BY <1>2, <1>3 DEF Download, IInv, TInv, TypeOK

(* The cache gets the text that is posted.                                   *)
LEMMA CachedText ==
  ASSUME IInv, Post
  PROVE  /\ cache' \in [Ids -> Texts \cup {None}]
         /\ \A i \in Ids : cache'[i] = cache[i]
                           \/ (i = draft.id /\ cache'[i] = draft.blob.text)
<1>1. draft.id \in Ids /\ draft.blob.text \in Texts
  BY PostedRow DEF Post, IInv, TInv, DraftShape
<1> QED
  BY <1>1 DEF Post, CacheSent, IInv, TInv, TypeOK

(* Every step keeps every variable within its type.                          *)
LEMMA WireTypeStep == IInv /\ [Next]_vars => TypeOK'
<1> SUFFICES ASSUME IInv, Next PROVE TypeOK'
  BY DEF vars, client, table, IInv, TInv, TypeOK
<1>0. TypeOK
  BY DEF IInv, TInv
<1>1. CASE Quiet
  <2>1. ASSUME NEW x \in Users, View(x) \/ SwitchUser(x) PROVE TypeOK'
    BY <1>0, <2>1 DEF View, SwitchUser, TypeOK, client, table
  <2>2. ASSUME NEW i \in Ids, Withdraw(i) \/ OtherWithdraws(i) PROVE TypeOK'
    BY <1>0, <2>2 DEF Withdraw, OtherWithdraws, Mark, TypeOK, client
  <2>3. ASSUME NEW i \in Ids, Download(i) PROVE TypeOK'
    BY <1>0, <2>3, Downloaded DEF Download, TypeOK, table
  <2>4. CASE Leave \/ Refresh \/ PostFails \/ Tick
    BY <1>0, <2>4, NoEntryTypes, MaxTimeAssumption
       DEF Leave, Refresh, PostFails, Answered, Tick, TypeOK, client, table, Time
  <2> QED
    BY <1>1, <2>1, <2>2, <2>3, <2>4 DEF Quiet
<1>2. CASE Fetch
  <2>1. conv' \in [Ids -> Entry \cup {NoEntry}]
    BY <1>2, FetchedEntries DEF Fetch
  <2> QED
    BY <1>0, <1>2, <2>1 DEF Fetch, TypeOK, table
<1>3. CASE Post
  <2>1. msgs' \in [Ids -> Row \cup {NoRow}]
    BY <1>0, <1>3, PostedRow DEF Post, TypeOK
  <2>2. state' \in [Ids -> {"free", "stored", "revoked", "gone"}]
    BY <1>0, <1>3 DEF Post, TypeOK
  <2> QED
    BY <1>0, <1>3, <2>1, <2>2, CachedText DEF Post, Answered, TypeOK
<1>4. ASSUME NEW x \in Users,
             (\E text \in Texts : Send(x, text)) \/ (\E j \in Ids : Forward(j, x))
      PROVE  TypeOK'
  <2>1. /\ draft' \in Draft /\ pc' = "encrypted"
        /\ UNCHANGED <<now, table, me, cache, files, peer, conv, told>>
    BY <1>4, EncryptsTyped, EncryptedDraft
  <2> QED
    BY <1>0, <2>1 DEF TypeOK, table
<1>5. ASSUME NEW u \in Users, NEW x \in Users, NEW text \in Texts, NEW j \in Ids,
             OtherSends(u, x, text, j)
      PROVE  TypeOK'
  BY <1>0, <1>5, OtherRow DEF TypeOK, client
<1> QED
  BY <1>1, <1>2, <1>3, <1>4, <1>5, NextCases

(* A request under way keeps its id free, and is dropped with its answer.    *)
LEMMA WireShapeStep == IInv /\ [Next]_vars => DraftShape' /\ ViewShape'
<1> SUFFICES ASSUME IInv, [Next]_vars PROVE DraftShape' /\ ViewShape'
  OBVIOUS
<1>a. DraftShape /\ ViewShape /\ TypeOK
  BY DEF IInv, TInv
<1>b. ASSUME Next, UNCHANGED <<me, draft>>, pc = "encrypted" <=> pc' = "encrypted",
             draft # NoDraft => state'[draft.id] = "free"
      PROVE  DraftShape'
  <2>1. draft # NoDraft /\ draft.of # None =>
          draft.of \in Ids /\ state'[draft.of] # "free" /\ msgs'[draft.of] = msgs[draft.of]
    BY <1>a, <1>b, RowsStay DEF DraftShape, Draft
  <2> QED
    BY <1>a, <1>b, <2>1 DEF DraftShape
<1>0. CASE UNCHANGED vars
  BY <1>a, <1>0 DEF vars, client, table, DraftShape, ViewShape
<1>1. CASE Quiet
  <2>1. ASSUME NEW x \in Users, View(x) \/ SwitchUser(x) PROVE DraftShape' /\ ViewShape'
    BY <1>a, <2>1, NoneAssumption DEF View, SwitchUser, DraftShape, ViewShape, client, table
  <2>2. ASSUME NEW i \in Ids, Withdraw(i) \/ Download(i) PROVE DraftShape' /\ ViewShape'
    BY <1>a, <2>2 DEF Withdraw, Download, DraftShape, ViewShape
  <2>3. ASSUME NEW i \in Ids, OtherWithdraws(i) PROVE DraftShape' /\ ViewShape'
    <3>1. draft # NoDraft => state'[draft.id] = "free"
      BY <1>a, <2>3 DEF OtherWithdraws, Mark, Stored, DraftShape, TypeOK, Draft
    <3> QED
      BY <1>a, <1>b, <2>3, <3>1 DEF OtherWithdraws, ViewShape, client, Next
  <2>4. CASE Leave \/ Refresh \/ PostFails \/ Tick
    BY <1>a, <2>4 DEF Leave, Refresh, PostFails, Answered, Tick, DraftShape, ViewShape,
                      client, table
  <2> QED
    BY <1>1, <2>1, <2>2, <2>3, <2>4 DEF Quiet
<1>2. CASE Fetch
  BY <1>a, <1>2 DEF Fetch, DraftShape, ViewShape, table
<1>3. CASE Post
  BY <1>a, <1>3 DEF Post, Answered, DraftShape, ViewShape
<1>4. ASSUME NEW x \in Users,
             (\E text \in Texts : Send(x, text)) \/ (\E j \in Ids : Forward(j, x))
      PROVE  DraftShape' /\ ViewShape'
  <2>1. PICK text \in Texts, of \in Ids \cup {None} :
          /\ Encrypt(x, text, of)
          /\ of # None => state[of] # "free" /\ text = msgs[of].blob.text
    BY <1>4, EncryptsTyped
  <2>2. /\ draft' \in Draft /\ state[draft'.id] = "free"
        /\ \E ts \in Time : draft'.blob =
             EncryptMessage(me, draft'.to, draft'.id, ts, draft'.blob.text)
        /\ draft'.blob.text = text /\ draft'.of = of /\ draft' # NoDraft
        /\ pc' = "encrypted" /\ UNCHANGED <<now, table, me, cache, files, peer, conv, told>>
    BY <2>1, EncryptedDraft
  <2>3. DraftShape'
    BY <2>1, <2>2 DEF DraftShape, table
  <2> QED
    BY <1>a, <2>2, <2>3 DEF ViewShape
<1>5. ASSUME NEW u \in Users, NEW x \in Users, NEW text \in Texts, NEW j \in Ids,
             OtherSends(u, x, text, j)
      PROVE  DraftShape' /\ ViewShape'
  <2>1. draft # NoDraft => state'[draft.id] = "free"
    BY <1>a, <1>5, OtherRow DEF DraftShape, Draft
  <2>2. Next
    BY <1>5 DEF Next
  <2> QED
    BY <1>a, <1>b, <1>5, <2>1, <2>2, OtherRow DEF ViewShape, client
<1> QED
  BY <1>0, <1>1, <1>2, <1>3, <1>4, <1>5, NextCases

(* Nothing is known of a message before its row is there.                    *)
LEMMA WireRowStep == IInv /\ [Next]_vars => RowShape'
<1> SUFFICES ASSUME IInv, [Next]_vars PROVE RowShape'
  OBVIOUS
<1>a. RowShape /\ TypeOK
  BY DEF IInv, TInv
<1>0. CASE UNCHANGED vars
  BY <1>a, <1>0 DEF vars, client, table, RowShape
<1> SUFFICES ASSUME Next, NEW i \in Ids
             PROVE  /\ state'[i] # "free" <=> msgs'[i] \in Row
                    /\ conv'[i] # NoEntry \/ files'[i] # None \/ cache'[i] # None
                         => state'[i] # "free"
                    /\ state'[i] # "free" /\ msgs'[i].of # None
                         => state'[msgs'[i].of] # "free"
  BY <1>0 DEF RowShape
<1>b. state[i] # "free" => msgs'[i] = msgs[i] /\ state'[i] # "free"
  BY RowsStay
<1>c. state[i] # "free" /\ msgs[i].of # None => state'[msgs[i].of] # "free"
  BY <1>a, RowsStay DEF RowShape, Row
<1>d. ASSUME UNCHANGED table PROVE state'[i] # "free" <=> msgs'[i] \in Row
  BY <1>a, <1>d DEF RowShape, table
<1>1. CASE Quiet
  <2>1. ASSUME NEW x \in Users, View(x) \/ SwitchUser(x)
        PROVE  UNCHANGED <<table, conv, files, cache>>
    BY <2>1 DEF View, SwitchUser, client
  <2>2. ASSUME NEW j \in Ids, Withdraw(j) \/ OtherWithdraws(j)
        PROVE  /\ UNCHANGED <<msgs, conv, files, cache>>
               /\ state'[i] # "free" <=> state[i] # "free"
    BY <1>a, <2>2 DEF Withdraw, OtherWithdraws, Mark, Stored, client, TypeOK
  <2>3. ASSUME NEW j \in Ids, Download(j)
        PROVE  /\ UNCHANGED <<table, conv, cache>>
               /\ files'[i] = files[i] \/ state[i] # "free"
    BY <2>3, Downloaded DEF Download
  <2>5. \/ UNCHANGED <<table, conv, files, cache>>
        \/ UNCHANGED <<table, files, cache>> /\ conv' = NoConv
        \/ /\ UNCHANGED <<msgs, conv, cache>>
           /\ (state'[i] # "free" <=> state[i] # "free")
           /\ files'[i] = files[i] \/ state[i] # "free"
    BY <1>1, <2>1, <2>2, <2>3 DEF Quiet, Leave, Refresh, PostFails, Answered, Tick, client,
                                  table
  <2> QED
    BY <1>a, <1>b, <1>c, <2>5 DEF RowShape, NoConv, table
<1>2. CASE Fetch
  BY <1>a, <1>2, FetchedEntries DEF Fetch, RowShape, table
<1>3. CASE Post
  <2>1. /\ draft.id \in Ids /\ msgs'[draft.id] \in Row /\ state'[draft.id] = "stored"
        /\ i # draft.id => msgs'[i] = msgs[i] /\ state'[i] = state[i]
        /\ msgs'[draft.id].of = draft.of
    BY <1>3, PostedRow
  <2>2. /\ UNCHANGED <<conv, files>>
        /\ cache'[i] = cache[i] \/ i = draft.id
    BY <1>3, CachedText DEF Post, Answered
  <2>3. draft.of # None => state'[draft.of] # "free"
    <3>1. draft.of # None => draft.of \in Ids /\ state[draft.of] # "free"
      BY <1>3 DEF Post, IInv, TInv, DraftShape, Draft
    <3> QED
      BY <3>1, RowsStay
  <2> QED
    BY <1>a, <1>c, <2>1, <2>2, <2>3 DEF RowShape
<1>4. ASSUME NEW x \in Users,
             (\E text \in Texts : Send(x, text)) \/ (\E j \in Ids : Forward(j, x))
      PROVE  UNCHANGED <<table, conv, files, cache>>
  BY <1>4 DEF Send, Forward, Encrypt
<1>5. ASSUME NEW u \in Users, NEW x \in Users, NEW text \in Texts, NEW j \in Ids,
             OtherSends(u, x, text, j)
      PROVE  /\ UNCHANGED <<conv, files, cache>>
             /\ IF i = j THEN state'[i] # "free" /\ msgs'[i] \in Row /\ msgs'[i].of = None
                         ELSE UNCHANGED <<msgs[i], state[i]>>
  BY <1>a, <1>5, OtherRow DEF client, TypeOK
<1>6. CASE UNCHANGED <<table, conv, files, cache>>
  BY <1>a, <1>6 DEF RowShape, table
<1>7. CASE \E u, x \in Users, text \in Texts, j \in Ids : OtherSends(u, x, text, j)
  BY <1>a, <1>b, <1>c, <1>5, <1>7 DEF RowShape
<1> QED
  BY <1>1, <1>2, <1>3, <1>4, <1>6, <1>7, NextCases

(* What is shown, saved, cached or forwarded stays what it was sent as.      *)
LEMMA WireTextStep ==
  IInv /\ [Next]_vars => ShownText' /\ ForwardFaithful' /\ ForwardOpens'
<1> SUFFICES ASSUME IInv, [Next]_vars PROVE ShownText' /\ ForwardFaithful' /\ ForwardOpens'
  OBVIOUS
<1>a. RowShape /\ TypeOK /\ ShownText /\ ForwardFaithful /\ ForwardOpens
  BY DEF IInv, TInv
<1>0. CASE UNCHANGED vars
  BY <1>a, <1>0 DEF vars, client, table, ShownText, ForwardFaithful, ForwardOpens, Opens
<1> SUFFICES ASSUME Next PROVE ShownText' /\ ForwardFaithful' /\ ForwardOpens'
  BY <1>0
<1>b. \A i \in Ids : state[i] # "free" => msgs'[i] = msgs[i] /\ state'[i] # "free"
  BY RowsStay
<1> DEFINE Old(i) == state[i] # "free" /\ msgs'[i] = msgs[i]
           Faithful(i) ==
             msgs'[i].of # None => msgs'[i].blob.text = msgs'[msgs'[i].of].blob.text
           Open(i) == msgs'[i].of # None => Opens(i, msgs[i].to, msgs[i].from)'
<1>c. ASSUME NEW i \in Ids, Old(i) PROVE Faithful(i) /\ Open(i)
  <2>1. msgs[i].of # None => msgs[i].of \in Ids /\ msgs'[msgs[i].of] = msgs[msgs[i].of]
    BY <1>a, <1>b, <1>c DEF RowShape, Row
  <2>2. Faithful(i)
    BY <1>a, <1>c, <2>1 DEF ForwardFaithful
  <2>3. Open(i)
    BY <1>a, <1>c DEF ForwardOpens, Opens
  <2> QED
    BY <2>2, <2>3
<1>d. ASSUME \A i \in Ids : state'[i] # "free" => Old(i) \/ (Faithful(i) /\ Open(i))
      PROVE  ForwardFaithful' /\ ForwardOpens'
  <2>1. \A i \in Ids : state'[i] # "free" => Faithful(i) /\ Open(i)
    BY <1>c, <1>d
  <2> QED
    BY <2>1 DEF ForwardFaithful, ForwardOpens
<1>e. ASSUME UNCHANGED msgs, \A i \in Ids : state'[i] # "free" => state[i] # "free"
      PROVE  ForwardFaithful' /\ ForwardOpens'
  BY <1>d, <1>e
<1>f. ASSUME UNCHANGED <<conv, me>>,
             \A i \in Ids :
               /\ files'[i] = files[i]
                    \/ (state[i] # "free" /\ files'[i] \in {msgs[i].blob.text, Raw})
               /\ cache'[i] = cache[i] \/ cache'[i] = msgs'[i].blob.text
      PROVE  ShownText'
  <2>1. \A i \in Ids : conv[i] # NoEntry \/ files'[i] # None \/ cache[i] # None
                         => msgs'[i] = msgs[i]
    BY <1>a, <1>b, <1>f DEF RowShape
  <2> QED
    BY <1>a, <1>f, <2>1 DEF ShownText
<1>1. CASE Quiet
  <2>1. \A i \in Ids : state'[i] # "free" => state[i] # "free"
    BY <1>a, <1>1 DEF Quiet, View, SwitchUser, Withdraw, Download, OtherWithdraws, Leave,
                      Refresh, PostFails, Tick, Mark, Stored, table, TypeOK
  <2>2. UNCHANGED msgs
    BY <1>1 DEF Quiet, View, SwitchUser, Withdraw, Download, OtherWithdraws, Leave,
                Refresh, PostFails, Tick, table
  <2>3. ASSUME NEW i \in Ids, Download(i) PROVE ShownText'
    BY <1>f, <2>3, Downloaded DEF Download
  <2>4. ASSUME NEW x \in Users, SwitchUser(x) PROVE ShownText'
    <3>1. \A i \in Ids : conv[i] = NoEntry
      BY <2>4 DEF SwitchUser, IInv, TInv, ViewShape, NoConv
    <3>2. UNCHANGED <<msgs, conv, files, cache>>
      BY <2>2, <2>4 DEF SwitchUser, client
    <3> QED
      BY <1>a, <3>1, <3>2 DEF ShownText
  <2>5. ASSUME Leave PROVE ShownText'
    BY <1>a, <2>2, <2>5 DEF Leave, ShownText, NoConv
  <2>6. ASSUME NEW i \in Ids, Withdraw(i) \/ OtherWithdraws(i) PROVE ShownText'
    BY <1>f, <2>6 DEF Withdraw, OtherWithdraws, client
  <2>7. ASSUME (\E x \in Users : View(x)) \/ Refresh \/ PostFails \/ Tick PROVE ShownText'
    BY <1>f, <2>7 DEF View, Refresh, PostFails, Answered, Tick, client
  <2>8. ShownText'
    BY <1>1, <2>3, <2>4, <2>5, <2>6, <2>7 DEF Quiet
  <2> QED
    BY <1>e, <2>1, <2>2, <2>8
<1>2. CASE Fetch
  <2>1. UNCHANGED <<table, me, files, cache>>
    BY <1>2 DEF Fetch
  <2>2. ShownText'
    BY <1>a, <1>2, <2>1, FetchedEntries DEF ShownText, table
  <2> QED
    BY <1>e, <2>1, <2>2 DEF table
<1>3. CASE Post
  <2>1. /\ draft.id \in Ids
        /\ msgs'[draft.id].blob = draft.blob /\ msgs'[draft.id].blob.text \in Texts
        /\ msgs'[draft.id].of = draft.of
        /\ \A i \in Ids \ {draft.id} : msgs'[i] = msgs[i] /\ state'[i] = state[i]
    BY <1>3, PostedRow
  <2>2. ShownText'
    BY <1>3, <1>f, <2>1, CachedText DEF Post, Answered
  <2>3. draft.of # None => /\ msgs'[draft.of] = msgs[draft.of]
                           /\ draft.blob.text = msgs[draft.of].blob.text
    <3>1. draft.of # None => /\ draft.of \in Ids /\ state[draft.of] # "free"
                             /\ draft.blob.text = msgs[draft.of].blob.text
      BY <1>3 DEF Post, IInv, TInv, DraftShape, Draft
    <3> QED
      BY <1>b, <3>1
  <2>4. ASSUME NEW i \in Ids, i = draft.id PROVE Faithful(i) /\ Open(i)
    <3>1. Faithful(i)
      BY <2>1, <2>3, <2>4
    <3>2. Open(i)
      BY <1>3, <2>1, <2>4, PostedRow
    <3> QED
      BY <3>1, <3>2
  <2>5. ForwardFaithful' /\ ForwardOpens'
    BY <1>d, <2>1, <2>4
  <2> QED
    BY <2>2, <2>5
<1>4. ASSUME NEW x \in Users,
             (\E text \in Texts : Send(x, text)) \/ (\E j \in Ids : Forward(j, x))
      PROVE  UNCHANGED <<table, conv, me, files, cache>>
  BY <1>4 DEF Send, Forward, Encrypt
<1>5. CASE UNCHANGED <<table, conv, me, files, cache>>
  <2>1. UNCHANGED <<msgs, state>>
    BY <1>5 DEF table
  <2> QED
    BY <1>e, <1>f, <1>5, <2>1
<1>6. ASSUME NEW u \in Users, NEW x \in Users, NEW text \in Texts, NEW j \in Ids,
             OtherSends(u, x, text, j)
      PROVE  ShownText' /\ ForwardFaithful' /\ ForwardOpens'
  <2>1. /\ msgs'[j].blob.text = text /\ msgs'[j].of = None
        /\ \A i \in Ids \ {j} : msgs'[i] = msgs[i] /\ state'[i] = state[i]
        /\ UNCHANGED <<conv, me, files, cache>>
    BY <1>6, OtherRow DEF client
  <2>2. Faithful(j) /\ Open(j)
    BY <2>1
  <2> QED
    BY <1>d, <1>f, <2>1, <2>2
<1> QED
  BY <1>1, <1>2, <1>3, <1>4, <1>5, <1>6, NextCases

-----------------------------------------------------------------------------
(* Theorems                                                                  *)

(* The invariant of the module holds in every state.                         *)
LEMMA WireInvariant == Spec => []IInv
<1>1. IInv /\ [Next]_vars => IInv'
  BY WireTypeStep, WireShapeStep, WireRowStep, WireTextStep DEF IInv, TInv
<1> QED
  BY WireInit, <1>1, PTL DEF Spec

(* Every variable stays within its type.                                     *)
THEOREM TypesOfWire == Spec => []TypeOK
<1>1. IInv => TypeOK
  BY DEF IInv, TInv
<1> QED
  BY WireInvariant, <1>1, PTL

(* Texts on view, in files and in the cache are those sent under their ids,  *)
(* but for placeholders on view and raw answers in files, for any number of  *)
(* users that log in one after the other and whatever they type.             *)
THEOREM ShowsWhatWasSent == Spec => []ShownText
<1>1. IInv => ShownText
  BY DEF IInv
<1> QED
  BY WireInvariant, <1>1, PTL

(* A text passes any number of forwards unchanged.                           *)
THEOREM ForwardsAreFaithful == Spec => []ForwardFaithful
<1>1. IInv => ForwardFaithful
  BY DEF IInv
<1> QED
  BY WireInvariant, <1>1, PTL

(* Every forwarded message can be read, whenever the clock ticks.            *)
THEOREM ForwardsOpen == Spec => []ForwardOpens
<1>1. IInv => ForwardOpens
  BY DEF IInv
<1> QED
  BY WireInvariant, <1>1, PTL

-----------------------------------------------------------------------------
(* What a fetch shows, and what may be forwarded                             *)

\* Every row was encrypted by its sender, for its recipient and under its id.
BlobShape ==
  \A i \in Ids : state[i] # "free" =>
    \E ts \in Time :
      msgs[i].blob = EncryptMessage(msgs[i].from, msgs[i].to, i, ts, msgs[i].blob.text)

\* What the user was told is withdrawn is withdrawn, and what is on view of his own
\* with its text is not among it.
OwnNotTold ==
  \A i \in told :
    /\ state[i] \in {"revoked", "gone"}
    /\ ~(pc = "shown" /\ HasPlain(i) /\ msgs[i].from = me)

(* A row opens if, and only if, it has the time it was encrypted with.       *)
LEMMA OpensIs ==
  ASSUME BlobShape, NEW i \in Ids, state[i] # "free"
  PROVE  Opens(i, msgs[i].to, msgs[i].from) <=> Consistent(i)
<1>1. PICK ts \in Time :
        msgs[i].blob = EncryptMessage(msgs[i].from, msgs[i].to, i, ts, msgs[i].blob.text)
  BY DEF BlobShape
<1> DEFINE b == msgs[i].blob
<1>2. /\ b.key = [eph |-> i, dh1 |-> Agree(i, msgs[i].to),
                  dh2 |-> Agree(msgs[i].from, msgs[i].to)]
      /\ b.key.eph = i
      /\ b.ad = BuildAd(msgs[i].from, msgs[i].to, i, ts) /\ b.ad.ts = ts
  BY <1>1 DEF EncryptMessage, HpkeSend, BuildAd
<1>3. /\ Agree(i, msgs[i].to) = Agree(msgs[i].to, i)
      /\ Agree(msgs[i].from, msgs[i].to) = Agree(msgs[i].to, msgs[i].from)
  BY DEF Agree
<1>4. b.key = HpkeReceive(msgs[i].to, b.key.eph, msgs[i].from)
  BY <1>2, <1>3 DEF HpkeReceive
<1>5. b.ad = BuildAd(msgs[i].from, msgs[i].to, i, msgs[i].ts) <=> msgs[i].ts = ts
  BY <1>2 DEF BuildAd
<1> QED
  BY <1>2, <1>4, <1>5 DEF Opens, Consistent

(* A row that was stored keeps its blob, and a new one has such a blob.      *)
LEMMA WireBlobStep == IInv /\ BlobShape /\ [Next]_vars => BlobShape'
<1> SUFFICES ASSUME IInv, BlobShape, [Next]_vars PROVE BlobShape'
  OBVIOUS
<1>0. CASE UNCHANGED vars
  BY <1>0 DEF vars, table, BlobShape
<1> DEFINE Shaped(i) == \E ts \in Time : msgs'[i].blob =
             EncryptMessage(msgs'[i].from, msgs'[i].to, i, ts, msgs'[i].blob.text)
<1>a. ASSUME NEW i \in Ids, state[i] # "free", Next PROVE Shaped(i)
  <2>1. msgs'[i] = msgs[i]
    BY <1>a, RowsStay
  <2> QED
    BY <1>a, <2>1 DEF BlobShape
<1> HIDE DEF Shaped
<1>1. CASE Quiet
  <2>1. \A i \in Ids : state'[i] # "free" => state[i] # "free"
    BY <1>1 DEF Quiet, View, SwitchUser, Withdraw, Download, OtherWithdraws, Leave,
                Refresh, PostFails, Tick, Mark, Stored, table, IInv, TInv, TypeOK
  <2>2. Next
    BY <1>1 DEF Quiet, Next
  <2> QED
    BY <1>a, <2>1, <2>2 DEF BlobShape, Shaped
<1>2. CASE Fetch
  BY <1>2 DEF Fetch, table, BlobShape
<1>3. CASE Post
  <2>1. /\ draft.id \in Ids
        /\ \A i \in Ids \ {draft.id} : msgs'[i] = msgs[i] /\ state'[i] = state[i]
    BY <1>3, PostedRow
  <2>2. PICK ts \in Time : draft.blob =
          EncryptMessage(me, draft.to, draft.id, ts, draft.blob.text)
    BY <1>3 DEF Post, IInv, TInv, DraftShape
  <2>3. msgs'[draft.id] = [from |-> me, to |-> draft.to, blob |-> draft.blob,
                           ts |-> Stamp(draft), of |-> draft.of]
    BY <1>3, <2>1 DEF Post, IInv, TInv, TypeOK
  <2>4. Shaped(draft.id)
    BY <2>2, <2>3 DEF Shaped
  <2>5. Next
    BY <1>3 DEF Next
  <2> QED
    BY <1>a, <2>1, <2>4, <2>5 DEF BlobShape, Shaped
<1>4. ASSUME NEW x \in Users,
             (\E text \in Texts : Send(x, text)) \/ (\E j \in Ids : Forward(j, x))
      PROVE  UNCHANGED table
  BY <1>4 DEF Send, Forward, Encrypt
<1>5. ASSUME NEW u \in Users, NEW x \in Users, NEW text \in Texts, NEW j \in Ids,
             OtherSends(u, x, text, j)
      PROVE  BlobShape'
  <2>1. PICK ad \in 1..now, ts \in 1..now :
          msgs' = [msgs EXCEPT ![j] =
            [from |-> u, to |-> x, blob |-> EncryptMessage(u, x, j, ad, text),
             ts |-> ts, of |-> None]]
    BY <1>5 DEF OtherSends
  <2>2. msgs'[j] = [from |-> u, to |-> x, blob |-> EncryptMessage(u, x, j, ad, text),
                    ts |-> ts, of |-> None]
    BY <2>1 DEF IInv, TInv, TypeOK
  <2>a. ad \in Time
    BY MaxTimeAssumption DEF IInv, TInv, TypeOK, Time
  <2>3. EncryptMessage(u, x, j, ad, text).text = text
    BY <2>a, EncryptTypes
  <2>4. Shaped(j)
    BY <2>2, <2>3, <2>a DEF Shaped
  <2>5. \A i \in Ids \ {j} : state'[i] = state[i]
    BY <1>5, OtherRow
  <2>6. Next
    BY <1>5 DEF Next
  <2> QED
    BY <1>a, <2>4, <2>5, <2>6 DEF BlobShape, Shaped
<1>6. CASE UNCHANGED table
  BY <1>6 DEF table, BlobShape
<1> QED
  BY <1>0, <1>1, <1>2, <1>3, <1>4, <1>5, <1>6, NextCases

(* An entry of a fetch comes from the row sent or from the row received.     *)
LEMMA FetchedIs ==
  ASSUME IInv, BlobShape, Fetch, NEW i \in Ids
  PROVE  /\ conv'[i] # NoEntry <=>
              /\ Stored(i) /\ InConv(i, peer)
              /\ \/ msgs[i].from = me
                 \/ msgs[i].to = me /\ state[i] = "stored" /\ Consistent(i)
         /\ conv'[i] # NoEntry /\ state[i] = "revoked" => conv'[i].text = "[revoked]"
         /\ conv'[i] # NoEntry /\ state[i] = "stored" =>
              \/ conv'[i].text = msgs[i].blob.text
              \/ conv'[i].text = "[message sent]" /\ msgs[i].from = me
<1> DEFINE s == SentEntry(i, peer)
           r == ReceivedEntry(i, peer)
<1>1. \/ conv'[i] = IF s # NoEntry THEN s ELSE r
      \/ conv'[i] = IF r # NoEntry THEN r ELSE s
  BY DEF Fetch, AddMessage, FreshConv, NoConv
<1>2. state[i] # "free" => msgs[i] \in Row
  BY DEF IInv, TInv, RowShape
<1>3. me \in Users /\ me # None
  BY NoneAssumption DEF IInv, TInv, TypeOK
<1>4. cache[i] # None => cache[i] = msgs[i].blob.text
  BY DEF IInv, ShownText
<1>5. /\ s # NoEntry <=> Stored(i) /\ InConv(i, peer) /\ msgs[i].from = me
      /\ s # NoEntry /\ state[i] = "revoked" => s.text = "[revoked]"
      /\ s # NoEntry /\ state[i] = "stored" =>
           \/ s.text = msgs[i].blob.text
           \/ s.text = "[message sent]" /\ msgs[i].from = me
  <2>1. /\ state[i] = "revoked" => SentText(i) = "[revoked]"
        /\ state[i] = "stored" =>
             SentText(i) = msgs[i].blob.text \/ SentText(i) = "[message sent]"
    BY <1>4 DEF SentText
  <2>2. [by |-> me, text |-> SentText(i)] # NoEntry
    BY <1>3 DEF NoEntry
  <2> QED
    BY <2>1, <2>2 DEF SentEntry
<1>6. state[i] = "stored" /\ msgs[i].to = me =>
        (Opens(i, me, SenderKey(i)) <=> Consistent(i))
  BY OpensIs DEF SenderKey
<1>7. /\ r # NoEntry <=> /\ state[i] = "stored" /\ InConv(i, peer) /\ msgs[i].to = me
                         /\ Consistent(i)
      /\ r # NoEntry => state[i] = "stored" /\ r.text = msgs[i].blob.text
  <2>1. state[i] = "stored" =>
          [by |-> msgs[i].from, text |-> msgs[i].blob.text] # NoEntry
    BY <1>2, NoneAssumption DEF Row, NoEntry
  <2> QED
    BY <1>2, <1>6, <2>1 DEF ReceivedEntry
<1>8. state[i] = "stored" => Stored(i) /\ state[i] # "revoked"
  BY DEF Stored
<1> HIDE DEF s, r
<1> QED
  BY <1>1, <1>5, <1>7, <1>8

(* Only a fetch, or a step of others, ends with a view shown, and only this   *)
(* client tells its user anything.                                           *)
LEMMA WireOwnStep == IInv /\ BlobShape /\ OwnNotTold /\ [Next]_vars => OwnNotTold'
<1> SUFFICES ASSUME IInv, BlobShape, OwnNotTold, [Next]_vars, NEW i \in told'
             PROVE  /\ state'[i] \in {"revoked", "gone"}
                    /\ ~(pc' = "shown" /\ HasPlain(i)' /\ msgs'[i].from = me')
  BY DEF OwnNotTold
<1>a. told \subseteq Ids /\ state \in [Ids -> {"free", "stored", "revoked", "gone"}]
  BY DEF IInv, TInv, TypeOK
<1>b. i \in told => /\ state[i] \in {"revoked", "gone"}
                    /\ ~(pc = "shown" /\ HasPlain(i) /\ msgs[i].from = me)
  BY DEF OwnNotTold
<1>0. CASE UNCHANGED <<pc, conv, me, table, told>>
  BY <1>0, <1>b DEF HasPlain, table
<1>1. CASE Quiet
  <2>1. ASSUME NEW x \in Users, View(x) \/ SwitchUser(x)
        PROVE  UNCHANGED <<state, told>> /\ pc' # "shown"
    BY <2>1 DEF View, SwitchUser, client, table
  <2>2. ASSUME NEW j \in Ids, Withdraw(j)
        PROVE  state'[i] \in {"revoked", "gone"} /\ pc' # "shown"
    <3>1. \/ UNCHANGED <<state, told>>
          \/ /\ told' \in {told, told \cup {j}}
             /\ state' \in {[state EXCEPT ![j] = "gone"], [state EXCEPT ![j] = "revoked"]}
      BY <2>2 DEF Withdraw, Mark
    <3> QED
      BY <1>a, <1>b, <2>2, <3>1 DEF Withdraw
  <2>3. ASSUME NEW j \in Ids, OtherWithdraws(j)
        PROVE  /\ state'[i] \in {"revoked", "gone"} /\ i \in told
               /\ UNCHANGED <<pc, conv, me, msgs>>
    BY <1>a, <1>b, <2>3 DEF OtherWithdraws, Mark, client
  <2>4. ASSUME (\E j \in Ids : Download(j)) \/ Leave \/ Refresh \/ PostFails
        PROVE  UNCHANGED <<state, told>> /\ pc' # "shown"
    BY <2>4 DEF Download, Leave, Refresh, PostFails, Answered, table
  <2>5. ASSUME Tick PROVE UNCHANGED <<pc, conv, me, table, told>>
    BY <2>5 DEF Tick, client
  <2> QED
    BY <1>0, <1>1, <1>b, <2>1, <2>2, <2>3, <2>4, <2>5 DEF Quiet, HasPlain
<1>2. CASE Fetch
  <2>1. UNCHANGED <<state, told, msgs, me>>
    BY <1>2 DEF Fetch, table
  <2>2. CASE state[i] = "gone"
    <3>1. conv'[i] = NoEntry
      BY <1>2, <1>a, <2>1, <2>2, FetchedIs DEF Stored
    <3> QED
      BY <2>1, <2>2, <3>1 DEF HasPlain
  <2>3. CASE state[i] = "revoked"
    <3>1. conv'[i] # NoEntry => conv'[i].text \in Placeholders
      BY <1>2, <1>a, <2>1, <2>3, FetchedIs DEF Placeholders
    <3> QED
      BY <2>1, <2>3, <3>1 DEF HasPlain
  <2> QED
    BY <1>b, <2>1, <2>2, <2>3
<1>3. CASE Post
  <2>1. told' = told /\ pc' # "shown" /\ state[draft.id] = "free"
        /\ state' = [state EXCEPT ![draft.id] = "stored"]
    BY <1>3, PostedRow DEF Post, Answered
  <2> QED
    BY <1>a, <1>b, <2>1
<1>4. ASSUME NEW x \in Users,
             (\E text \in Texts : Send(x, text)) \/ (\E j \in Ids : Forward(j, x))
      PROVE  UNCHANGED <<state, told>> /\ pc' # "shown"
  BY <1>4 DEF Send, Forward, Encrypt, table
<1>5. ASSUME NEW u \in Users, NEW x \in Users, NEW text \in Texts, NEW j \in Ids,
             OtherSends(u, x, text, j)
      PROVE  /\ state'[i] \in {"revoked", "gone"}
             /\ ~(pc' = "shown" /\ HasPlain(i)' /\ msgs'[i].from = me')
  <2>1. /\ state[j] = "free" /\ UNCHANGED <<me, pc, conv, told>>
        /\ \A k \in Ids \ {j} : msgs'[k] = msgs[k] /\ state'[k] = state[k]
    BY <1>5, OtherRow DEF client
  <2> QED
    BY <1>a, <1>b, <2>1 DEF HasPlain
<1>6. CASE UNCHANGED vars
  BY <1>0, <1>6 DEF vars, client
<1> QED
  BY <1>1, <1>2, <1>3, <1>4, <1>5, <1>6, <1>b, NextCases

(* Both hold in every state.                                                 *)
LEMMA ViewInvariant == Spec => [](IInv /\ BlobShape /\ OwnNotTold)
<1>1. Init => BlobShape /\ OwnNotTold
  BY DEF Init, BlobShape, OwnNotTold
<1>2. IInv /\ [Next]_vars => IInv'
  BY WireTypeStep, WireShapeStep, WireRowStep, WireTextStep DEF IInv, TInv
<1> QED
  BY WireInit, <1>1, <1>2, WireBlobStep, WireOwnStep, PTL DEF Spec

Listed ==
  pc = "fetch" /\ pc' = "shown" =>
    \A i \in Ids :
      /\ conv'[i] # NoEntry <=>
           /\ Stored(i) /\ InConv(i, peer)
           /\ \/ msgs[i].from = me
              \/ msgs[i].to = me /\ state[i] = "stored" /\ Consistent(i)
      /\ conv'[i] # NoEntry /\ state[i] = "revoked" => conv'[i].text = "[revoked]"
      /\ conv'[i] # NoEntry /\ state[i] = "stored" =>
           \/ conv'[i].text = msgs[i].blob.text
           \/ conv'[i].text = "[message sent]" /\ msgs[i].from = me

(* A fetch shows what the server has and nothing else (main.cpp:290), for any *)
(* number of messages, whatever was on view before and whatever users type.  *)
THEOREM ViewsAreListings == Spec => ViewIsListing
<1>1. IInv /\ BlobShape /\ [Next]_vars => [Listed]_vars
  <2> SUFFICES ASSUME IInv, BlobShape, Next, pc = "fetch", pc' = "shown" PROVE Listed
    BY DEF Listed
  <2>1. Fetch
    <3>1. ~Quiet
      BY DEF Quiet, View, SwitchUser, Withdraw, Download, OtherWithdraws, Leave, Refresh,
             PostFails, Tick, client
    <3>2. ASSUME NEW x \in Users,
                 (\E text \in Texts : Send(x, text)) \/ (\E j \in Ids : Forward(j, x))
          PROVE  FALSE
      BY <3>2 DEF Send, Forward, Encrypt
    <3>3. ASSUME NEW u \in Users, NEW x \in Users, NEW text \in Texts, NEW j \in Ids,
                 OtherSends(u, x, text, j)
          PROVE  FALSE
      BY <3>3 DEF OtherSends, client
    <3> QED
      BY <3>1, <3>2, <3>3, NextCases DEF Post
  <2> QED
    BY <2>1, FetchedIs DEF Listed
<1> QED
  BY ViewInvariant, <1>1, PTL DEF Spec, ViewIsListing, Listed

Untold ==
  \A i \in told : draft' # draft /\ draft'.id # None /\ draft'.of = i =>
    msgs[i].from # me

(* What its user was told is revoked or deleted is not forwarded for him.     *)
THEOREM NoForwardAfterTold == Spec => NotAfterTold
<1>1. IInv /\ OwnNotTold /\ [Next]_vars => [Untold]_vars
  <2> SUFFICES ASSUME IInv, OwnNotTold, Next, NEW i \in told,
                      draft' # draft, draft'.id # None, draft'.of = i
               PROVE  msgs[i].from # me
    BY DEF Untold
  <2>0. i \in Ids
    BY DEF IInv, TInv, TypeOK
  <2>1. ASSUME Quiet \/ Fetch \/ Post PROVE FALSE
    BY <2>1 DEF Quiet, View, SwitchUser, Withdraw, Download, OtherWithdraws, Leave,
                Refresh, PostFails, Tick, Fetch, Post, Answered, client, NoDraft
  <2>2. ASSUME NEW x \in Users, NEW text \in Texts, Send(x, text) PROVE FALSE
    BY <2>0, <2>2, NoneAssumption DEF Send, Encrypt
  <2>3. ASSUME NEW x \in Users, NEW j \in Ids, Forward(j, x) PROVE msgs[i].from # me
    <3>1. pc = "shown" /\ HasPlain(j) /\ j = i
      BY <2>3 DEF Forward, Encrypt
    <3> QED
      BY <3>1 DEF OwnNotTold
  <2>4. ASSUME NEW u \in Users, NEW x \in Users, NEW text \in Texts, NEW j \in Ids,
               OtherSends(u, x, text, j)
        PROVE  FALSE
    BY <2>4 DEF OtherSends, client
  <2> QED
    BY <2>1, <2>2, <2>3, <2>4, NextCases
<1> QED
  BY ViewInvariant, <1>1, PTL DEF Spec, NotAfterTold, Untold
=============================================================================
