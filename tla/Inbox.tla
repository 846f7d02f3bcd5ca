-------------------------------- MODULE Inbox --------------------------------
(***************************************************************************)
(* The inbox view of the web client: client-web/js/views/inbox.js.         *)
(*                                                                         *)
(* One open inbox and the server it polls.  The view keeps an array of     *)
(* entries per conversation (currentConvMap) and the set of ids it has     *)
(* taken in (knownIds); doPoll, the send form and the delete and revoke    *)
(* buttons all change both, each after an await.  JavaScript runs one      *)
(* continuation at a time: "busy" names the poll that runs between two     *)
(* awaits that give the event loop to others.  Awaiting the decryption of  *)
(* a received message (WebCrypto) or a request does so; awaiting a sent    *)
(* message, whose plain text is cached, ends within the same task.         *)
(*                                                                         *)
(* One conversation is modelled: others have arrays and ids of their own.  *)
(* It may be the user's conversation with himself: the server lists such a *)
(* message as sent and as received, and the tab shows both rows.           *)
(* Message ids are numbered in the order of created_at, in which the       *)
(* server lists them; they are stored in any order.                        *)
(***************************************************************************)
EXTENDS Naturals, Sequences, FiniteSets, SequencesExt

CONSTANTS
  Msgs,       \* message ids
  Mine,       \* those the user of the tab sends to a partner; the others are received
  Polls,      \* calls of doPoll that may overlap
  Nobody,     \* no poll is running
  CanSend,    \* the user sends from this tab
  CanDelete,  \* the user deletes from this tab
  Anchoring   \* the server anchors (ANCHORING_ENABLED)

ASSUME MessagesAssumption == Msgs \subseteq Nat /\ IsFiniteSet(Msgs) /\ Mine \subseteq Msgs
ASSUME PollsAssumption == Nobody \notin Polls
ASSUME SwitchesAssumption == {CanSend, CanDelete, Anchoring} \subseteq BOOLEAN

VARIABLES
  toSelf,    \* server: the partner is the user
  live,      \* server: the token of the tab is accepted
  stored,    \* server: ids ever inserted
  deleted,   \* server: ids deleted
  revoked,   \* server: is_revoked
  anchored,  \* server: tx_hash is set
  tab,       \* "loading", "failed": no polling ever starts; "ready"; "muddled": as
             \* ready, but a patch has written over another entry; "broken": the array
             \* has a hole
  known,     \* knownIds
  thread,    \* the conversation's array in currentConvMap; << >>: no such key
  act,       \* the requests under way for each message
  poll,      \* the calls of doPoll
  busy       \* the poll whose continuation is running, or Nobody

server == <<toSelf, live, stored, deleted, revoked, anchored>>
view   == <<known, thread>>
vars   == <<server, tab, view, act, poll, busy>>

Sent     == IF toSelf THEN Msgs ELSE Mine
Received == IF toSelf THEN Msgs ELSE Msgs \ Mine

Tabs == {"loading", "failed", "ready", "muddled", "broken"}
Ways == {"sent", "received"}

\* raw: the fields are those of a row of the server (0, 1, null), not values the
\* tab filled in itself (true, undefined), which differ from every row.
Entry == [id: Msgs, revoked: BOOLEAN, anchored: BOOLEAN, raw: BOOLEAN]

\* A response of GET /messages.
Snapshot == [ids: SUBSET Msgs, revoked: SUBSET Msgs, anchored: SUBSET Msgs]
NoSnapshot == [ids |-> {}, revoked |-> {}, anchored |-> {}]

\* fresh is newMsgs, changed the rows of changedMsgs not yet patched, at the index
\* found before the await, and detached says that the array found is no longer in
\* the map.
Poll ==
  [pc: {"idle", "asked", "answered", "decrypting", "patching", "awaiting"},
   snap: Snapshot, fresh: SUBSET Msgs, changed: SUBSET (Msgs \X Ways), at: Nat,
   detached: BOOLEAN]
IdlePoll ==
  [pc |-> "idle", snap |-> NoSnapshot, fresh |-> {}, changed |-> {}, at |-> 0,
   detached |-> FALSE]

Kinds == {"send", "delete", "revoke"}

TypeOK ==
  /\ {toSelf, live} \subseteq BOOLEAN
  /\ {stored, deleted, revoked, anchored, known} \subseteq SUBSET Msgs
  /\ tab \in Tabs
  /\ thread \in Seq(Entry)
  /\ act \in [Msgs \X Kinds -> {"none", "asked", "done"}]
  /\ poll \in [Polls -> Poll]
  /\ busy \in Polls \cup {Nobody}

Init ==
  /\ toSelf \in BOOLEAN /\ live = TRUE
  /\ stored = {} /\ deleted = {} /\ revoked = {} /\ anchored = {}
  /\ tab = "loading"
  /\ known = {} /\ thread = << >>
  /\ act = [a \in Msgs \X Kinds |-> "none"]
  /\ poll = [p \in Polls |-> IdlePoll]
  /\ busy = Nobody

-----------------------------------------------------------------------------
(* Sets and arrays                                                         *)

Nth(S, k) == CHOOSE i \in S : Cardinality({j \in S : j <= i}) = k
Ascending(S) == [k \in 1..Cardinality(S) |-> Nth(S, k)]
Least(S) == CHOOSE i \in S : \A j \in S : i <= j

Places(m) == {i \in DOMAIN thread : thread[i].id = m}
Shown == {thread[i].id : i \in DOMAIN thread}

\* findIndex and find: the first entry of m.
Place(m) == Least(Places(m))

\* The array after splice(i, 1) for every i in I.
Without(I) ==
  LET kept == Ascending(DOMAIN thread \ I) IN [k \in DOMAIN kept |-> thread[kept[k]]]

Row(snap, m) ==
  [id |-> m, revoked |-> m \in snap.revoked, anchored |-> m \in snap.anchored,
   raw |-> TRUE]

\* GET /messages, one SELECT for each way: what was sent to the user and not
\* revoked, and all that the user sent.
SentWays(m) == {way \in Ways : way = "sent" /\ m \in Sent}
ReceivedWays(snap, m) == {way \in Ways : way = "received" /\ m \in Received \ snap.revoked}
RowWays(snap, m) == SentWays(m) \cup ReceivedWays(snap, m)

\* The rows of one message in an answer; they differ in their direction only.
Rows(snap, m) == [k \in 1..Cardinality(RowWays(snap, m)) |-> Row(snap, m)]

\* The array after push of the rows of each id of S, in their order.
Push(S, snap) ==
  LET ids == Ascending(S) IN thread \o FlattenSeq([k \in DOMAIN ids |-> Rows(snap, ids[k])])

Listing == {m \in stored \ deleted : m \in Sent \/ m \notin revoked}
Listed ==
  [ids |-> Listing, revoked |-> revoked \cap Listing, anchored |-> anchored \cap Listing]

\* currentConvMap.delete(partner): an emptied array leaves the map.
Detach(newThread, polls) ==
  IF newThread = << >>
    THEN [p \in Polls |-> [polls[p] EXCEPT !.detached = @ \/ polls[p].pc = "awaiting"]]
    ELSE polls

\* A continuation of the tab may run.
Turn == tab \in {"ready", "muddled"} /\ busy = Nobody

-----------------------------------------------------------------------------
(* Initial load                                                            *)

\* Nothing else runs in the tab before knownIds exists, so that the request and
\* the decryption are one step.
Load ==
  /\ tab = "loading" /\ live
  /\ tab' = "ready"
  /\ known' = Listing
  /\ thread' = Push(Listing, Listed)
  /\ UNCHANGED <<server, act, poll, busy>>

\* The error is shown and render returns: setInterval is never reached.
LoadFails ==
  /\ tab = "loading"
  /\ tab' = "failed"
  /\ UNCHANGED <<server, view, act, poll, busy>>

-----------------------------------------------------------------------------
(* doPoll                                                                  *)

\* The call p goes on as c.
Goto(p, c) == poll' = [poll EXCEPT ![p] = c]

StartPoll(p) ==
  /\ Turn
  /\ poll[p].pc = "idle"
  /\ Goto(p, [poll[p] EXCEPT !.pc = "asked"])
  /\ UNCHANGED <<server, tab, view, act, busy>>

AnswerPoll(p) ==
  /\ live
  /\ poll[p].pc = "asked"
  /\ Goto(p, [poll[p] EXCEPT !.pc = "answered", !.snap = Listed])
  /\ UNCHANGED <<server, tab, view, act, busy>>

\* The request failed, or the token is refused: the catch of doPoll.
PollFails(p) ==
  /\ poll[p].pc \in {"asked", "answered"}
  /\ Goto(p, IdlePoll)
  /\ UNCHANGED <<server, tab, view, act, busy>>

Differs(e, snap) == e # Row(snap, e.id)

\* Mutant: the ids already taken in are not left out.
AllMsgs(snap) == snap.ids

NewMsgs(snap) == snap.ids \ known

\* Mutant: only revocation is looked at.
RevokedOnly(snap) ==
  {m \in snap.ids \cap known : m \in Shown /\ thread[Place(m)].revoked # (m \in snap.revoked)}

ChangedMsgs(snap) ==
  {m \in snap.ids \cap known : m \in Shown /\ Differs(thread[Place(m)], snap)}

\* Every row of such a message, in the order of the listing's ids.
ChangedRows(snap) == UNION {{m} \X RowWays(snap, m) : m \in ChangedMsgs(snap)}

DeletedIds(snap) == known \ snap.ids

\* Where a poll goes on after its first await: decrypting received messages
\* gives way to others, anything else does not.
AfterAnswer(snap) ==
  IF \A m \in NewMsgs(snap) : "received" \notin RowWays(snap, m)
    THEN "patching" ELSE "decrypting"

\* Mutant: the loop lacks knownIds.delete(id).
KeepKnown(snap) == known' = known

Forget(snap) == known' = known \ DeletedIds(snap)

ReceivePoll(p) ==
  LET snap == poll[p].snap
      cut == Without({Place(m) : m \in DeletedIds(snap) \cap Shown})
      call == [poll[p] EXCEPT !.pc = AfterAnswer(snap), !.fresh = NewMsgs(snap),
                              !.changed = ChangedRows(snap)]
  IN
  /\ Turn
  /\ poll[p].pc = "answered"
  /\ Forget(snap)
  /\ thread' = cut
  /\ \/ /\ NewMsgs(snap) = {} /\ ChangedMsgs(snap) = {} /\ DeletedIds(snap) = {}
        /\ Goto(p, IdlePoll)
        /\ UNCHANGED busy
     \/ /\ NewMsgs(snap) \cup ChangedMsgs(snap) \cup DeletedIds(snap) # {}
        /\ poll' = Detach(cut, [poll EXCEPT ![p] = call])
        /\ busy' = IF call.pc = "patching" THEN p ELSE Nobody
  /\ UNCHANGED <<server, tab, act>>

\* The plain texts of the new messages are there.
Decrypted(p) ==
  /\ Turn
  /\ poll[p].pc = "decrypting"
  /\ Goto(p, [poll[p] EXCEPT !.pc = "patching"])
  /\ busy' = p
  /\ UNCHANGED <<server, tab, view, act>>

NextChanged(p) == Least({row[1] : row \in poll[p].changed})

\* Mutant: the loop is left where it should go on.
SkipAll(p, way) == [poll[p] EXCEPT !.pc = "patching", !.changed = {}]

Skip(p, way) == [poll[p] EXCEPT !.pc = "patching", !.changed = @ \ {<<NextChanged(p), way>>}]

\* The next row is that way.  Two rows of one message come in either order.
Patching(p, way) ==
  /\ busy = p
  /\ poll[p].pc = "patching" /\ poll[p].changed # {}
  /\ <<NextChanged(p), way>> \in poll[p].changed

SkipMissing(p) ==
  /\ \E way \in Ways : Patching(p, way) /\ Goto(p, Skip(p, way))
  /\ NextChanged(p) \notin Shown
  /\ UNCHANGED <<server, tab, view, act, busy>>

PatchSent(p) ==
  LET m == NextChanged(p) IN
  /\ Patching(p, "sent")
  /\ m \in Shown
  /\ thread' = [thread EXCEPT ![Place(m)] = Row(poll[p].snap, m)]
  /\ Goto(p, Skip(p, "sent"))
  /\ UNCHANGED <<server, tab, known, act, busy>>

\* The index is found, then the decryption is awaited.
AwaitPatch(p) ==
  LET m == NextChanged(p) IN
  /\ Patching(p, "received")
  /\ m \in Shown
  /\ Goto(p, [poll[p] EXCEPT !.pc = "awaiting", !.at = Place(m), !.detached = FALSE])
  /\ busy' = Nobody
  /\ UNCHANGED <<server, tab, view, act>>

\* msgs[idx] = ... after the await: the array may have moved under the index.
WritePatch(p) ==
  LET row == Row(poll[p].snap, NextChanged(p))
      at  == poll[p].at
  IN
  /\ Turn
  /\ poll[p].pc = "awaiting"
  /\ \/ /\ ~poll[p].detached
        /\ at <= Len(thread) + 1
        /\ thread' = [i \in 1..Len(thread) \cup {at} |-> IF i = at THEN row ELSE thread[i]]
        /\ Goto(p, Skip(p, "received"))
        /\ busy' = p
        /\ tab' = IF at \in Places(row.id) THEN tab ELSE "muddled"
     \/ \* A write beyond the end: every later findIndex meets the hole and throws.
        /\ ~poll[p].detached
        /\ at > Len(thread) + 1
        /\ tab' = "broken"
        /\ UNCHANGED <<thread, poll, busy>>
     \/ \* The write is lost; the loop goes on to the array that replaced it.
        /\ poll[p].detached
        /\ Goto(p, [poll[p] EXCEPT !.pc = "patching"])
        /\ busy' = p
        /\ UNCHANGED <<tab, thread>>
  /\ UNCHANGED <<server, known, act>>

Merge(p) ==
  /\ busy = p
  /\ poll[p].pc = "patching" /\ poll[p].changed = {}
  /\ thread' = Push(poll[p].fresh, poll[p].snap)
  /\ known' = known \cup poll[p].fresh
  /\ Goto(p, IdlePoll)
  /\ busy' = Nobody
  /\ UNCHANGED <<server, tab, act>>

PollStep(p) ==
  \/ StartPoll(p) \/ AnswerPoll(p) \/ PollFails(p) \/ ReceivePoll(p) \/ Decrypted(p)
  \/ SkipMissing(p) \/ PatchSent(p) \/ AwaitPatch(p) \/ WritePatch(p) \/ Merge(p)

-----------------------------------------------------------------------------
(* The send form and the buttons of an entry                               *)

Ask(m, kind) ==
  /\ Turn
  /\ act[<<m, kind>>] = "none"
  /\ act' = [act EXCEPT ![<<m, kind>>] = "asked"]
  /\ UNCHANGED <<server, tab, view, poll, busy>>

AskSend(m) ==
  /\ CanSend
  /\ m \in Sent \ stored
  /\ Ask(m, "send")

AskDelete(m) ==
  /\ CanDelete
  /\ m \in Sent \cap Shown
  /\ Ask(m, "delete")

AskRevoke(m) ==
  /\ m \in Sent
  /\ \E i \in Places(m) : ~thread[i].revoked
  /\ Ask(m, "revoke")

\* The server's handlers.
Perform(m, kind) ==
  /\ live
  /\ act[<<m, kind>>] = "asked"
  /\ m \notin deleted
  /\ act' = [act EXCEPT ![<<m, kind>>] = "done"]
  /\ UNCHANGED <<toSelf, live, anchored, tab, view, poll, busy>>

PerformSend(m) ==
  /\ Perform(m, "send")
  /\ stored' = stored \cup {m}
  /\ UNCHANGED <<deleted, revoked>>

PerformDelete(m) ==
  /\ Perform(m, "delete")
  /\ deleted' = deleted \cup {m}
  /\ UNCHANGED <<stored, revoked>>

PerformRevoke(m) ==
  /\ Perform(m, "revoke")
  /\ revoked' = revoked \cup {m}
  /\ UNCHANGED <<stored, deleted>>

\* The request or its answer is lost, or the answer is an error (401, 404).
RequestFails(m, kind) ==
  /\ act[<<m, kind>>] # "none"
  /\ act' = [act EXCEPT ![<<m, kind>>] = "none"]
  /\ UNCHANGED <<server, tab, view, poll, busy>>

\* Mutant: the tab does not wait for the answer.
FinishAtOnce(m, kind) ==
  /\ Turn
  /\ act[<<m, kind>>] # "none"
  /\ act' = [act EXCEPT ![<<m, kind>>] = "none"]
  /\ UNCHANGED <<server, tab, busy>>

Finish(m, kind) ==
  /\ Turn
  /\ act[<<m, kind>>] = "done"
  /\ act' = [act EXCEPT ![<<m, kind>>] = "none"]
  /\ UNCHANGED <<server, tab, busy>>

\* Mutant: the entry of a message just sent gets no id.
NamelessEntry(m) == [id |-> 0, revoked |-> FALSE, anchored |-> FALSE, raw |-> FALSE]

SentEntry(m) == [id |-> m, revoked |-> FALSE, anchored |-> FALSE, raw |-> FALSE]

FinishSend(m) ==
  /\ Finish(m, "send")
  /\ thread' = Append(thread, SentEntry(m))
  /\ known' = known \cup {m}
  /\ UNCHANGED poll

\* knownIds keeps the id: the next poll drops it.
FinishDelete(m) ==
  LET cut == Without({Place(n) : n \in {m} \cap Shown}) IN
  /\ Finish(m, "delete")
  /\ thread' = cut
  /\ poll' = Detach(cut, poll)
  /\ UNCHANGED known

FinishRevoke(m) ==
  /\ Finish(m, "revoke")
  /\ thread' = [i \in DOMAIN thread |->
                  IF m \in Shown /\ i = Place(m)
                    THEN [thread[i] EXCEPT !.revoked = TRUE, !.raw = FALSE]
                    ELSE thread[i]]
  /\ UNCHANGED <<known, poll>>

ActStep(m) ==
  \/ AskSend(m) \/ AskDelete(m) \/ AskRevoke(m)
  \/ PerformSend(m) \/ PerformDelete(m) \/ PerformRevoke(m)
  \/ \E kind \in Kinds : RequestFails(m, kind)
  \/ FinishSend(m) \/ FinishDelete(m) \/ FinishRevoke(m)

-----------------------------------------------------------------------------
(* What others do on the server: the partner, another client of the user, a  *)
(* forward, the anchoring job.                                              *)

Arrive(m) ==
  /\ m \notin stored /\ act[<<m, "send">>] = "none"
  /\ stored' = stored \cup {m}
  /\ UNCHANGED <<deleted, revoked, anchored>>

RevokeElsewhere(m) ==
  /\ m \in stored \ (deleted \cup revoked)
  /\ revoked' = revoked \cup {m}
  /\ UNCHANGED <<stored, deleted, anchored>>

DeleteElsewhere(m) ==
  /\ m \in stored \ deleted
  /\ deleted' = deleted \cup {m}
  /\ UNCHANGED <<stored, revoked, anchored>>

\* A digest is reserved for anchoring, or released again.
AnchorChanges(m) ==
  /\ Anchoring
  /\ m \in stored \ deleted
  /\ anchored' = IF m \in anchored THEN anchored \ {m} ELSE anchored \cup {m}
  /\ UNCHANGED <<stored, deleted, revoked>>

Elsewhere(m) ==
  /\ Arrive(m) \/ RevokeElsewhere(m) \/ DeleteElsewhere(m) \/ AnchorChanges(m)
  /\ UNCHANGED <<toSelf, live, tab, view, act, poll, busy>>

\* An hour after the login, or at a logout.
TokenExpires ==
  /\ live /\ live' = FALSE
  /\ UNCHANGED <<toSelf, stored, deleted, revoked, anchored, tab, view, act, poll, busy>>

Next ==
  \/ Load \/ LoadFails \/ TokenExpires
  \/ \E p \in Polls : PollStep(p)
  \/ \E m \in Msgs : ActStep(m) \/ Elsewhere(m)

Spec == Init /\ [][Next]_vars

-----------------------------------------------------------------------------
(* Properties                                                              *)

(* An id the tab has taken in has an entry, unless the message was deleted:  *)
(* doPoll only adds ids it does not know, so that a message whose id is in   *)
(* knownIds without an entry would never be shown again.  Until, that is, a  *)
(* patch has written to a place that is not its own.                         *)
KnownIsShown == tab \in {"loading", "ready"} => known \subseteq Shown \cup deleted

(* A message shown as revoked has been revoked, even where an entry has been  *)
(* written to the wrong place or comes from an old answer.                   *)
RevokedIsTrue == \A i \in DOMAIN thread : thread[i].revoked => thread[i].id \in revoked

(* knownIds keeps what it is for (inbox.js:467): a tab whose polls do not     *)
(* overlap and that only reads and revokes shows no message of a partner      *)
(* twice, whatever answers are old, lost or of deleted messages.  A message   *)
(* to oneself is shown twice, as it is listed.                                *)
ShownOnce ==
  ~toSelf /\ ~CanSend /\ ~CanDelete /\ (\A p, q \in Polls : p = q) =>
    \A i, j \in DOMAIN thread : thread[i].id = thread[j].id => i = j

(* The merge of doPoll (inbox.js:462-538) leaves what its answer listed: a    *)
(* tab as above, whose poll ends, shows and knows exactly those ids, each as  *)
(* it was listed unless the tab has changed the entry itself, by a revocation *)
(* that was answered while the poll awaited.  Of the two entries of a message *)
(* to oneself only the first is kept so.                                      *)
PollShowsAnswer ==
  [][~toSelf /\ ~CanSend /\ ~CanDelete /\ (\A p, q \in Polls : p = q) =>
       \A p \in Polls : poll[p].pc = "patching" /\ poll'[p].pc = "idle" =>
         /\ known' = poll[p].snap.ids /\ Shown' = poll[p].snap.ids
         /\ \A i \in DOMAIN thread' : thread'[i].raw => ~Differs(thread'[i], poll[p].snap)
    ]_vars

(* "Update changed entries in-place" (inbox.js:510): the write that follows  *)
(* the decryption replaces the entry of the same message and no other.       *)
PatchInPlace ==
  [][\A p \in Polls : poll[p].pc = "awaiting" /\ poll'[p].pc # "awaiting" =>
       [i \in DOMAIN thread |-> thread[i].id] = [i \in DOMAIN thread' |-> thread'[i].id]
    ]_vars

(* What the event loop and the network owe while the token is accepted:      *)
(* setInterval starts polls, a request that is repeated is answered in the   *)
(* end, and a continuation that is ready gets its turn although others get   *)
(* theirs.  The one request of the initial load may always fail.             *)
Fairness ==
  /\ WF_vars(Load)
  /\ WF_vars(\E p \in Polls : StartPoll(p))
  /\ \A p \in Polls :
       /\ SF_vars(AnswerPoll(p)) /\ SF_vars(ReceivePoll(p))
       /\ SF_vars(Decrypted(p)) /\ SF_vars(WritePatch(p))
       /\ WF_vars(SkipMissing(p) \/ PatchSent(p) \/ AwaitPatch(p) \/ Merge(p))

FairSpec == Spec /\ Fairness

Synced ==
  /\ known = Listing /\ Shown = Listing
  /\ Len(thread) = Cardinality(Listing)
  /\ \A i \in DOMAIN thread : ~Differs(thread[i], Listed)

(* Once nothing changes on the server, an inbox that was loaded and whose     *)
(* token is still accepted comes to show exactly its listing, each message of *)
(* a partner once and with its current state (inbox.js:469-538, 572).         *)
ViewConverges ==
  ~toSelf /\ [](live /\ tab # "failed") /\ <>[][FALSE]_server => <>[]Synced
=============================================================================
