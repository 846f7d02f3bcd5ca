------------------------------ MODULE InboxProofs -----------------------------
(* Proofs about Inbox, for any number of messages and of overlapping polls.  *)
EXTENDS Inbox, Flattening

\* What a call of doPoll was told has been so; a patch knows its place.
CallOK(c, R) ==
  /\ c \in Poll
  /\ c.snap.revoked \subseteq R \cap Sent
  /\ c.pc = "awaiting" => c.at # 0 /\ c.changed # {}

CallsOK(P, R) == P \in [Polls -> Poll] /\ \A p \in Polls : CallOK(P[p], R)

\* What is answered has been done.
ActsOK ==
  \A m \in Msgs :
    /\ act[<<m, "delete">>] = "done" => m \in deleted
    /\ act[<<m, "revoke">>] = "done" => m \in revoked

\* The entries of an array t, of which those shown as revoked are in R.
Told(t, R) == t \in Seq(Entry) /\ \A i \in DOMAIN t : t[i].revoked => t[i].id \in R

Ids(t) == {t[i].id : i \in DOMAIN t}

\* The messages a call has still to patch.
ChangedIds(c) == {row[1] : row \in c.changed}

IInv == TypeOK /\ RevokedIsTrue /\ KnownIsShown /\ CallsOK(poll, revoked) /\ ActsOK

-----------------------------------------------------------------------------
(* Ascending order                                                           *)

Rank(S, i) == Cardinality({j \in S : j <= i})

(* The rank of an element is its place, and no two have the same.            *)
LEMMA RankIs ==
  ASSUME NEW S \in SUBSET Nat, IsFiniteSet(S)
  PROVE  /\ Cardinality(S) \in Nat
         /\ \A i \in S : Rank(S, i) \in 1..Cardinality(S)
         /\ \A i, k \in S : i < k => Rank(S, i) < Rank(S, k)
<1> DEFINE Upto(i) == {j \in S : j <= i}
<1>1. Cardinality(S) \in Nat
  BY FS_CardinalityType
<1>2. ASSUME NEW i \in S
      PROVE  /\ IsFiniteSet(Upto(i)) /\ i \in Upto(i)
             /\ Cardinality(Upto(i)) \in 1..Cardinality(S)
  <2>1. /\ IsFiniteSet(Upto(i)) /\ Cardinality(Upto(i)) <= Cardinality(S)
        /\ Cardinality(Upto(i)) \in Nat
    BY FS_Subset, FS_CardinalityType
  <2>2. i \in Upto(i)
    OBVIOUS
  <2>3. Cardinality(Upto(i)) # 0
    BY <2>1, <2>2, FS_EmptySet
  <2>4. Cardinality(Upto(i)) \in 1..Cardinality(S)
    <3> HIDE DEF Upto
    <3> QED
      BY <1>1, <2>1, <2>3
  <2> QED
    BY <2>1, <2>2, <2>4
<1>3. ASSUME NEW i \in S, NEW k \in S, i < k
      PROVE  Cardinality(Upto(i)) < Cardinality(Upto(k))
  <2>a. i \in Nat /\ k \in Nat /\ \A j \in S : j \in Nat
    BY Zenon
  <2>b. \A j \in Nat : j <= i => j <= k
    BY <1>3, <2>a
  <2>c. ~(k <= i) /\ k <= k
    BY <1>3, <2>a
  <2>1. Upto(i) \in SUBSET Upto(k) /\ k \notin Upto(i) /\ k \in Upto(k)
    BY <2>a, <2>b, <2>c, Zenon
  <2> HIDE DEF Upto
  <2>2. /\ Cardinality(Upto(i)) <= Cardinality(Upto(k))
        /\ Cardinality(Upto(i)) # Cardinality(Upto(k))
    BY <1>2, <2>1, FS_Subset
  <2> QED
    BY <1>1, <1>2, <2>2
<1> QED
  BY <1>1, <1>2, <1>3 DEF Rank

(* Every element has a place, and every place an element.                    *)
LEMMA AscendingIs ==
  ASSUME NEW S \in SUBSET Nat, IsFiniteSet(S)
  PROVE  /\ Cardinality(S) \in Nat
         /\ \A k \in 1..Cardinality(S) : Nth(S, k) \in S /\ Rank(S, Nth(S, k)) = k
         /\ \A i \in S : \E k \in 1..Cardinality(S) : Nth(S, k) = i
<1> DEFINE n == Cardinality(S)
           rank == [i \in S |-> Rank(S, i)]
<1>1. n \in Nat
  BY FS_CardinalityType
<1>2. rank \in [S -> 1..n]
  BY RankIs
<1>3. \A i, k \in S : rank[i] = rank[k] => i = k
  <2> SUFFICES ASSUME NEW i \in S, NEW k \in S, i # k
               PROVE  Rank(S, i) # Rank(S, k)
    OBVIOUS
  <2>1. i < k \/ k < i
    OBVIOUS
  <2> QED
    BY <2>1, RankIs
<1>4. rank \in Injection(S, 1..n)
  BY <1>2, <1>3 DEF Injection, IsInjective
<1>5. IsFiniteSet(1..n) /\ Cardinality(1..n) = n
  BY <1>1, FS_Interval
<1>6. rank \in Surjection(S, 1..n)
  BY <1>4, <1>5, FS_Injection
<1>7. ASSUME NEW k \in 1..n PROVE \E i \in S : Rank(S, i) = k
  BY <1>6 DEF Surjection
<1>8. ASSUME NEW k \in 1..n PROVE Nth(S, k) \in S /\ Rank(S, Nth(S, k)) = k
  BY <1>7 DEF Nth, Rank
<1>9. ASSUME NEW i \in S PROVE Nth(S, Rank(S, i)) = i /\ Rank(S, i) \in 1..n
  BY <1>2, <1>3, <1>8
<1> QED
  BY <1>1, <1>8, <1>9

(* The least place is one of them.                                           *)
LEMMA LeastIs ==
  ASSUME NEW S \in SUBSET Nat, IsFiniteSet(S), S # {}
  PROVE  Least(S) \in S
<1>1. Cardinality(S) \in Nat /\ Cardinality(S) # 0
  BY FS_CardinalityType, FS_EmptySet
<1>2. Nth(S, 1) \in S /\ Rank(S, Nth(S, 1)) = 1
  BY <1>1, AscendingIs
<1>3. ASSUME NEW j \in S, j < Nth(S, 1) PROVE FALSE
  <2>1. Rank(S, j) < 1 /\ Rank(S, j) \in 1..Cardinality(S)
    BY <1>2, <1>3, RankIs
  <2> QED
    BY <1>1, <2>1
<1>4. \E x \in S : \A j \in S : x <= j
  <2>1. ASSUME NEW j \in S PROVE Nth(S, 1) <= j
    <3>1. j \in Nat /\ Nth(S, 1) \in Nat
      BY <1>2, Zenon
    <3>2. ~(j < Nth(S, 1))
      BY <1>3
    <3> QED
      BY <3>1, <3>2
  <2> QED
    BY <1>2, <2>1
<1> QED
  BY <1>4 DEF Least

-----------------------------------------------------------------------------
(* Arrays and calls                                                          *)

(* A row is an entry, with the id of its message.                            *)
LEMMA RowIs ==
  ASSUME NEW snap \in Snapshot, NEW m \in Msgs
  PROVE  /\ Row(snap, m) \in Entry /\ Row(snap, m).id = m
         /\ Row(snap, m).revoked => m \in snap.revoked
<1>1. (m \in snap.revoked) \in BOOLEAN /\ (m \in snap.anchored) \in BOOLEAN
  OBVIOUS
<1> QED
  BY <1>1 DEF Row, Entry

(* A message that is listed has a row, and but one in another's conversation. *)
LEMMA RowsAre ==
  ASSUME NEW snap \in Snapshot, snap.revoked \subseteq Sent, NEW m \in Msgs
  PROVE  /\ RowWays(snap, m) # {} /\ RowWays(snap, m) \subseteq Ways
         /\ Rows(snap, m) \in Seq({Row(snap, m)})
         /\ 1 \in 1..Len(Rows(snap, m)) /\ Rows(snap, m)[1] = Row(snap, m)
         /\ ~toSelf => Len(Rows(snap, m)) = 1
<1> DEFINE W == RowWays(snap, m)
           c == Cardinality(W)
<1>1. W # {} /\ W \subseteq Ways
  BY DEF RowWays, SentWays, ReceivedWays, Ways, Sent, Received
<1>2. IsFiniteSet(Ways) /\ IsFiniteSet(W)
  <2>1. IsFiniteSet({"sent"})
    BY FS_Singleton
  <2>2. IsFiniteSet({"sent"} \cup {"received"})
    BY <2>1, FS_AddElement
  <2>3. Ways = {"sent"} \cup {"received"}
    BY DEF Ways
  <2>4. IsFiniteSet(Ways)
    BY <2>2, <2>3
  <2> HIDE DEF W
  <2> QED
    BY <1>1, <2>4, FS_Subset
<1>3. c \in Nat /\ c # 0
  <2> HIDE DEF W
  <2> QED
    BY <1>1, <1>2, FS_CardinalityType, FS_EmptySet
<1>4. ASSUME ~toSelf PROVE c = 1
  <2>1. W = {"sent"} \/ W = {"received"}
    BY <1>4, <1>1 DEF RowWays, SentWays, ReceivedWays, Ways, Sent, Received
  <2> HIDE DEF W
  <2> QED
    BY <2>1, FS_Singleton
<1>5. Rows(snap, m) = [k \in 1..c |-> Row(snap, m)]
  BY DEF Rows
<1> HIDE DEF c, W
<1>6. Rows(snap, m) \in Seq({Row(snap, m)}) /\ Len(Rows(snap, m)) = c
  BY <1>3, <1>5
<1>7. 1 \in 1..c
  BY <1>3
<1> QED
  BY <1>1, <1>4, <1>5, <1>6, <1>7 DEF W

(* What is pushed: a row of each of the ids, in another's conversation one.    *)
LEMMA PushedAre ==
  ASSUME NEW snap \in Snapshot, snap.revoked \subseteq Sent, NEW S \in SUBSET Msgs
  PROVE  \E rows \in Seq({Row(snap, m) : m \in S}) :
           /\ Push(S, snap) = thread \o rows
           /\ \A m \in S : \E k \in 1..Len(rows) : rows[k] = Row(snap, m)
           /\ ~toSelf => \A k, l \in 1..Len(rows) : rows[k].id = rows[l].id => k = l
<1> DEFINE T    == {Row(snap, m) : m \in S}
           ids  == Ascending(S)
           s    == [k \in DOMAIN ids |-> Rows(snap, ids[k])]
           n    == Cardinality(S)
           rows == FlattenSeq(s)
<1>1. S \in SUBSET Nat /\ IsFiniteSet(S)
  BY MessagesAssumption, FS_Subset
<1>2. /\ n \in Nat /\ DOMAIN ids = 1..n
      /\ \A k \in 1..n : ids[k] \in S /\ Rank(S, ids[k]) = k
      /\ \A m \in S : \E k \in 1..n : ids[k] = m
  BY <1>1, AscendingIs DEF Ascending
<1>3. Push(S, snap) = thread \o rows
  BY DEF Push
<1> HIDE DEF ids
<1>4. ASSUME NEW k \in 1..n
      PROVE  /\ s[k] \in Seq(T) /\ 1 \in 1..Len(s[k]) /\ s[k][1] = Row(snap, ids[k])
             /\ ~toSelf => Len(s[k]) = 1
  <2>1. ids[k] \in S /\ ids[k] \in Msgs /\ s[k] = Rows(snap, ids[k])
    BY <1>2
  <2>2. {Row(snap, ids[k])} \subseteq T
    BY <2>1
  <2>3. /\ s[k] \in Seq({Row(snap, ids[k])})
        /\ 1 \in 1..Len(s[k]) /\ s[k][1] = Row(snap, ids[k])
        /\ ~toSelf => Len(s[k]) = 1
    <3> HIDE DEF s, ids
    <3> QED
      BY <2>1, RowsAre
  <2> HIDE DEF T, s
  <2>4. s[k] \in Seq(T)
    BY <2>2, <2>3
  <2> QED
    BY <2>3, <2>4
<1> HIDE DEF T, n
<1>5. s \in Seq(Seq(T)) /\ Len(s) = n
  <2>1. s = [k \in 1..n |-> s[k]]
    BY <1>2
  <2> HIDE DEF s
  <2> QED
    BY <1>2, <1>4, <2>1
<1> HIDE DEF s
<1>6. /\ Start(s, 0) = 0 /\ Start(s, n) = Len(rows) /\ rows \in Seq(T)
      /\ \A i \in 0..n : Start(s, i) \in 0..Len(rows)
      /\ \A i \in 1..n :
           /\ Start(s, i) = Start(s, i - 1) + Len(s[i])
           /\ \A k \in 1..Len(s[i]) : rows[Start(s, i - 1) + k] = s[i][k]
  BY <1>5, FlattenPieces
<1> HIDE DEF rows
<1>7. ASSUME NEW i \in 1..n
      PROVE  Start(s, i - 1) + 1 \in 1..Len(rows) /\ rows[Start(s, i - 1) + 1] = Row(snap, ids[i])
  <2>1. i \in 0..n /\ i - 1 \in 0..n /\ Len(s[i]) \in Nat /\ 1 <= Len(s[i]) /\ Len(rows) \in Nat
    BY <1>2, <1>4, <1>6
  <2>2. Start(s, i - 1) \in 0..Len(rows) /\ Start(s, i) \in 0..Len(rows)
    BY <1>6, <2>1
  <2>3. Start(s, i) = Start(s, i - 1) + Len(s[i])
    BY <1>6
  <2>4. Start(s, i - 1) + 1 \in 1..Len(rows)
    BY <2>1, <2>2, <2>3
  <2> QED
    BY <1>4, <1>6, <2>4
<1>8. ASSUME NEW m \in S PROVE \E k \in 1..Len(rows) : rows[k] = Row(snap, m)
  BY <1>2, <1>7
<1>9. ASSUME ~toSelf
      PROVE  \A k, l \in 1..Len(rows) : rows[k].id = rows[l].id => k = l
  <2> DEFINE N == {i \in Nat : i \in 0..n => Start(s, i) = i}
  <2>1. 0 \in N
    BY <1>6
  <2>2. ASSUME NEW i \in Nat, i \in N PROVE i + 1 \in N
    <3> SUFFICES ASSUME i + 1 \in 0..n PROVE Start(s, i + 1) = i + 1
      OBVIOUS
    <3>1. i \in 0..n /\ i + 1 \in 1..n /\ (i + 1) - 1 = i
      BY <1>2
    <3>2. Start(s, i) = i /\ Len(s[i + 1]) = 1
      BY <1>4, <1>9, <2>2, <3>1
    <3> QED
      BY <1>6, <3>1, <3>2
  <2>3. \A i \in Nat : i \in N
    <3> HIDE DEF N
    <3> QED
      BY <2>1, <2>2, EveryNatural
  <2>4. \A i \in 0..n : Start(s, i) = i
    BY <1>2, <2>3
  <2>5. Len(rows) = n
    BY <1>2, <1>6, <2>4
  <2>6. ASSUME NEW k \in 1..n PROVE rows[k].id = ids[k]
    <3>1. k - 1 \in 0..n /\ (k - 1) + 1 = k
      BY <1>2
    <3>2. rows[k] = Row(snap, ids[k])
      BY <1>7, <2>4, <3>1
    <3> QED
      BY <3>2 DEF Row
  <2>7. ASSUME NEW k \in 1..n, NEW l \in 1..n, ids[k] = ids[l] PROVE k = l
    BY <1>2, <2>7
  <2> QED
    BY <2>5, <2>6, <2>7
<1> QED
  BY <1>3, <1>6, <1>8, <1>9 DEF T

(* Pushing rows keeps every entry and adds one at least for each of the ids.  *)
LEMMA PushIs ==
  ASSUME NEW R, Told(thread, R), NEW snap \in Snapshot, snap.revoked \subseteq R \cap Sent,
         NEW S \in SUBSET Msgs
  PROVE  Told(Push(S, snap), R) /\ Ids(thread) \cup S \subseteq Ids(Push(S, snap))
<1>1. PICK rows \in Seq({Row(snap, m) : m \in S}) :
        /\ Push(S, snap) = thread \o rows
        /\ \A m \in S : \E k \in 1..Len(rows) : rows[k] = Row(snap, m)
        /\ ~toSelf => \A k, l \in 1..Len(rows) : rows[k].id = rows[l].id => k = l
  <2>1. snap.revoked \subseteq Sent
    OBVIOUS
  <2> QED
    BY <2>1, PushedAre
<1>2. /\ thread \in Seq(Entry) /\ Len(thread) \in Nat /\ Len(rows) \in Nat
      /\ DOMAIN thread = 1..Len(thread) /\ DOMAIN rows = 1..Len(rows)
  BY DEF Told
<1>3. \A k \in 1..Len(rows) : \E m \in S : rows[k] = Row(snap, m)
  BY <1>2
<1>4. \A k \in 1..Len(rows) : rows[k] \in Entry /\ (rows[k].revoked => rows[k].id \in R)
  BY <1>3, RowIs
<1>5. rows \in Seq(Entry)
  BY <1>2, <1>4
<1> DEFINE t == thread \o rows
<1>6. /\ t \in Seq(Entry) /\ DOMAIN t = 1..(Len(thread) + Len(rows))
      /\ \A i \in 1..Len(thread) : t[i] = thread[i]
      /\ \A k \in 1..Len(rows) : t[Len(thread) + k] = rows[k]
  BY <1>2, <1>5
<1> HIDE DEF t
<1>7. ASSUME NEW i \in DOMAIN t, t[i].revoked PROVE t[i].id \in R
  <2>1. CASE i \in 1..Len(thread)
    BY <2>1, <1>2, <1>6, <1>7 DEF Told
  <2>2. CASE i \notin 1..Len(thread)
    <3>1. i - Len(thread) \in 1..Len(rows) /\ i = Len(thread) + (i - Len(thread))
      BY <2>2, <1>2, <1>6
    <3>2. t[i] = rows[i - Len(thread)]
      BY <3>1, <1>6
    <3> QED
      BY <3>1, <3>2, <1>4, <1>7
  <2> QED
    BY <2>1, <2>2
<1>8. ASSUME NEW m \in Ids(thread) PROVE m \in Ids(t)
  <2>1. PICK i \in 1..Len(thread) : thread[i].id = m
    BY <1>2 DEF Ids
  <2>2. i \in DOMAIN t /\ t[i].id = m
    BY <2>1, <1>2, <1>6
  <2> QED
    BY <2>2 DEF Ids
<1>9. ASSUME NEW m \in S PROVE m \in Ids(t)
  <2>1. PICK k \in 1..Len(rows) : rows[k] = Row(snap, m)
    BY <1>1
  <2>2. rows[k].id = m
    BY <2>1 DEF Row
  <2>3. Len(thread) + k \in DOMAIN t /\ t[Len(thread) + k] = rows[k]
    BY <2>1, <1>2, <1>6
  <2> QED
    BY <2>2, <2>3 DEF Ids
<1>10. Told(t, R)
  BY <1>6, <1>7 DEF Told
<1> QED
  BY <1>1, <1>8, <1>9, <1>10 DEF t

(* The first place of a message that is shown is a place of it.              *)
LEMMA PlaceIs ==
  ASSUME thread \in Seq(Entry), NEW m \in Shown
  PROVE  Place(m) \in 1..Len(thread) /\ thread[Place(m)].id = m
<1>1. Places(m) \in SUBSET (1..Len(thread)) /\ Places(m) # {}
  BY DEF Places, Shown
<1>2. IsFiniteSet(1..Len(thread)) /\ 1..Len(thread) \in SUBSET Nat
  BY FS_Interval
<1>3. IsFiniteSet(Places(m)) /\ Places(m) \in SUBSET Nat
  BY <1>1, <1>2, FS_Subset
<1>4. Place(m) \in Places(m)
  BY <1>1, <1>3, LeastIs DEF Place
<1> QED
  BY <1>1, <1>4 DEF Places

(* Cutting out the first places of some messages keeps all the others.        *)
LEMMA WithoutIs ==
  ASSUME NEW R, Told(thread, R), NEW N
  PROVE  LET cut == Without({Place(m) : m \in N \cap Shown})
         IN  Told(cut, R) /\ Shown \ N \subseteq Ids(cut)
<1> DEFINE I    == {Place(m) : m \in N \cap Shown}
           rest == DOMAIN thread \ I
           kept == Ascending(rest)
           n    == Cardinality(rest)
           cut  == Without(I)
<1>1. thread \in Seq(Entry) /\ DOMAIN thread = 1..Len(thread)
  BY DEF Told
<1>2. rest \in SUBSET Nat /\ IsFiniteSet(rest)
  <2>1. IsFiniteSet(1..Len(thread)) /\ 1..Len(thread) \in SUBSET Nat
    BY <1>1, FS_Interval
  <2>2. rest \in SUBSET (1..Len(thread))
    BY <1>1
  <2> HIDE DEF rest
  <2> QED
    BY <2>1, <2>2, FS_Subset
<1>3. /\ n \in Nat /\ DOMAIN kept = 1..n
      /\ \A k \in 1..n : kept[k] \in rest
      /\ \A i \in rest : \E k \in 1..n : kept[k] = i
  <2> HIDE DEF rest
  <2> QED
    BY <1>2, AscendingIs DEF Ascending
<1>4. cut = [k \in 1..n |-> thread[kept[k]]]
  BY <1>3 DEF Without
<1> HIDE DEF kept, n, cut
<1>5. \A k \in 1..n : cut[k] \in Entry /\ (cut[k].revoked => cut[k].id \in R)
  BY <1>1, <1>3, <1>4 DEF Told
<1>6. cut \in Seq(Entry) /\ DOMAIN cut = 1..n
  BY <1>3, <1>4, <1>5
<1>7. ASSUME NEW m \in Shown \ N PROVE m \in Ids(cut)
  <2>1. PICK i \in DOMAIN thread : thread[i].id = m
    BY DEF Shown
  <2>2. i \in rest
    BY <1>1, <2>1, PlaceIs
  <2>3. PICK k \in 1..n : kept[k] = i
    BY <1>3, <2>2
  <2>4. cut[k].id = m
    BY <1>4, <2>1, <2>3
  <2> QED
    BY <1>6, <2>4 DEF Ids
<1>8. Told(cut, R)
  BY <1>5, <1>6 DEF Told
<1> QED
  BY <1>7, <1>8 DEF cut

(* A call that goes on as c leaves the others as they are.                    *)
LEMMA GotoIs ==
  ASSUME NEW P, NEW R, CallsOK(P, R), NEW p \in Polls, NEW c, CallOK(c, R)
  PROVE  CallsOK([P EXCEPT ![p] = c], R)
BY DEF CallsOK, CallOK

(* Detaching changes nothing else of a call.                                  *)
LEMMA DetachIs ==
  ASSUME NEW t, NEW P, NEW R, CallsOK(P, R)
  PROVE  CallsOK(Detach(t, P), R)
<1>1. ASSUME NEW p \in Polls, NEW d \in BOOLEAN
      PROVE  CallOK([P[p] EXCEPT !.detached = d], R)
  BY DEF CallsOK, CallOK, Poll
<1>2. ASSUME NEW p \in Polls
      PROVE  CallOK([P[p] EXCEPT !.detached = @ \/ P[p].pc = "awaiting"], R)
  <2>1. P[p] \in Poll /\ P[p].detached \in BOOLEAN
    BY DEF CallsOK, Poll
  <2>2. (P[p].detached \/ P[p].pc = "awaiting") \in BOOLEAN
    OBVIOUS
  <2> QED
    BY <1>1, <2>2
<1> QED
  BY <1>2 DEF Detach, CallsOK, CallOK

(* The next of the changed messages is one of them.                           *)
LEMMA NextChangedIs ==
  ASSUME NEW p \in Polls, poll[p] \in Poll, poll[p].changed # {}
  PROVE  NextChanged(p) \in ChangedIds(poll[p]) /\ NextChanged(p) \in Msgs
<1>1. ChangedIds(poll[p]) \in SUBSET Msgs /\ ChangedIds(poll[p]) # {}
  BY DEF Poll, ChangedIds
<1>2. ChangedIds(poll[p]) \in SUBSET Nat /\ IsFiniteSet(ChangedIds(poll[p]))
  BY <1>1, MessagesAssumption, FS_Subset
<1> QED
  BY <1>1, <1>2, LeastIs DEF NextChanged, ChangedIds

-----------------------------------------------------------------------------
(* Steps of the tab                                                          *)

(* The tab keeps IInv when what it shows and its calls are as told, and what  *)
(* it knows is shown.                                                         *)
LEMMA TabMoves ==
  ASSUME IInv, UNCHANGED server,
         act' \in [Msgs \X Kinds -> {"none", "asked", "done"}], ActsOK',
         Told(thread', revoked), CallsOK(poll', revoked),
         known' \in SUBSET Msgs, busy' \in Polls \cup {Nobody}, tab' \in Tabs,
         tab' \in {"loading", "ready"} => known' \subseteq Ids(thread') \cup deleted
  PROVE  IInv'
<1>1. TypeOK'
  BY DEF IInv, TypeOK, server, Told, CallsOK
<1>2. RevokedIsTrue' /\ KnownIsShown'
  BY DEF RevokedIsTrue, KnownIsShown, Told, Ids, Shown, server
<1>3. CallsOK(poll, revoked)'
  BY DEF server, CallsOK, CallOK, Sent
<1> QED
  BY <1>1, <1>2, <1>3 DEF IInv

(* What IInv says of the array and of what is known.                          *)
LEMMA ViewIs ==
  ASSUME IInv
  PROVE  /\ Told(thread, revoked) /\ known \in SUBSET Msgs /\ Ids(thread) = Shown
         /\ tab \in Tabs
         /\ tab \in {"loading", "ready"} => known \subseteq Ids(thread) \cup deleted
BY DEF IInv, TypeOK, RevokedIsTrue, KnownIsShown, Told, Ids, Shown

(* A step of a call that leaves what is shown alone.                          *)
LEMMA Quiet ==
  ASSUME IInv, NEW p \in Polls, NEW c, CallOK(c, revoked), Goto(p, c),
         UNCHANGED <<server, tab, view, act>>, busy' \in Polls \cup {Nobody}
  PROVE  IInv'
<1>1. CallsOK(poll', revoked)
  BY GotoIs DEF IInv, Goto
<1>2. act' \in [Msgs \X Kinds -> {"none", "asked", "done"}] /\ ActsOK'
  BY DEF IInv, TypeOK, ActsOK, server
<1>3. Told(thread', revoked)
  BY ViewIs DEF view
<1> QED
  BY <1>1, <1>2, <1>3, TabMoves, ViewIs DEF view

(* The server's answer is of its messages.                                    *)
LEMMA ListedIs ==
  ASSUME TypeOK
  PROVE  /\ Listed \in Snapshot /\ Listed.revoked \subseteq revoked \cap Sent
         /\ Listing \in SUBSET Msgs
BY DEF TypeOK, Listed, Listing, Snapshot

(* A call that waits, or goes on to the next changed message.                 *)
LEMMA QuietCalls ==
  ASSUME IInv, NEW p \in Polls,
         \/ StartPoll(p) \/ AnswerPoll(p) \/ PollFails(p) \/ Decrypted(p)
         \/ SkipMissing(p) \/ AwaitPatch(p)
  PROVE  IInv'
<1>1. poll[p] \in Poll /\ CallOK(poll[p], revoked)
  BY DEF IInv, CallsOK, CallOK
<1>2. TypeOK /\ busy \in Polls \cup {Nobody} /\ thread \in Seq(Entry)
  BY DEF IInv, TypeOK
<1>3. CASE StartPoll(p)
  <2>1. CallOK([poll[p] EXCEPT !.pc = "asked"], revoked)
    BY <1>1 DEF CallOK, Poll
  <2> QED
    BY <1>2, <1>3, <2>1, Quiet DEF StartPoll
<1>4. CASE AnswerPoll(p)
  <2>1. CallOK([poll[p] EXCEPT !.pc = "answered", !.snap = Listed], revoked)
    BY <1>1, <1>2, ListedIs DEF CallOK, Poll
  <2> QED
    BY <1>2, <1>4, <2>1, Quiet DEF AnswerPoll
<1>5. CASE PollFails(p)
  <2>1. CallOK(IdlePoll, revoked)
    BY DEF CallOK, Poll, IdlePoll, Snapshot, NoSnapshot
  <2> QED
    BY <1>2, <1>5, <2>1, Quiet DEF PollFails
<1>6. CASE Decrypted(p)
  <2>1. CallOK([poll[p] EXCEPT !.pc = "patching"], revoked)
    BY <1>1 DEF CallOK, Poll
  <2> QED
    BY <1>6, <2>1, Quiet DEF Decrypted
<1>7. CASE SkipMissing(p)
  <2>1. PICK way \in Ways : Patching(p, way) /\ Goto(p, Skip(p, way))
    BY <1>7 DEF SkipMissing
  <2>2. CallOK(Skip(p, way), revoked)
    BY <1>1 DEF CallOK, Poll, Skip
  <2> QED
    BY <1>2, <1>7, <2>1, <2>2, Quiet DEF SkipMissing
<1>8. CASE AwaitPatch(p)
  <2> DEFINE m == NextChanged(p)
  <2>1. m \in Shown /\ poll[p].changed # {}
    BY <1>8 DEF AwaitPatch, Patching
  <2>2. Place(m) \in Nat /\ Place(m) # 0
    BY <1>2, <2>1, PlaceIs
  <2>3. CallOK([poll[p] EXCEPT !.pc = "awaiting", !.at = Place(m), !.detached = FALSE], revoked)
    BY <1>1, <2>1, <2>2 DEF CallOK, Poll
  <2> QED
    BY <1>8, <2>3, Quiet DEF AwaitPatch
<1> QED
  BY <1>3, <1>4, <1>5, <1>6, <1>7, <1>8

(* The requests of the tab are left alone.                                    *)
LEMMA ActsKept ==
  ASSUME IInv, UNCHANGED <<server, act>>
  PROVE  act' \in [Msgs \X Kinds -> {"none", "asked", "done"}] /\ ActsOK'
BY DEF IInv, TypeOK, ActsOK, server

(* The answer is taken in: what is forgotten was not in it.                   *)
LEMMA Receiving ==
  ASSUME IInv, NEW p \in Polls, ReceivePoll(p)
  PROVE  IInv'
<1> DEFINE snap == poll[p].snap
           cut  == Without({Place(m) : m \in DeletedIds(snap) \cap Shown})
           call == [poll[p] EXCEPT !.pc = AfterAnswer(snap), !.fresh = NewMsgs(snap),
                                   !.changed = ChangedRows(snap)]
<1>1. poll[p] \in Poll /\ CallOK(poll[p], revoked) /\ CallsOK(poll, revoked)
  BY DEF IInv, CallsOK, CallOK
<1>2. known' = known \ DeletedIds(snap) /\ thread' = cut /\ UNCHANGED <<server, tab, act>>
  BY DEF ReceivePoll, Forget
<1>3. Told(cut, revoked) /\ Shown \ DeletedIds(snap) \subseteq Ids(cut)
  BY ViewIs, WithoutIs
<1>4. NewMsgs(snap) \in SUBSET Msgs /\ ChangedRows(snap) \in SUBSET (Msgs \X Ways)
  BY <1>1 DEF NewMsgs, ChangedMsgs, ChangedRows, RowWays, SentWays, ReceivedWays, Poll, Snapshot
<1>5. CallOK(call, revoked)
  BY <1>1, <1>4 DEF CallOK, Poll, AfterAnswer
<1>6. CallOK(IdlePoll, revoked)
  BY DEF CallOK, Poll, IdlePoll, Snapshot, NoSnapshot
<1>7. CallsOK([poll EXCEPT ![p] = call], revoked) /\ CallsOK([poll EXCEPT ![p] = IdlePoll], revoked)
  BY <1>1, <1>5, <1>6, GotoIs
<1>8. CallsOK(Detach(cut, [poll EXCEPT ![p] = call]), revoked)
  BY <1>7, DetachIs
<1>9. CallsOK(poll', revoked) /\ busy' \in Polls \cup {Nobody}
  BY <1>7, <1>8 DEF ReceivePoll, Goto, IInv, TypeOK
<1>10. /\ known' \in SUBSET Msgs
       /\ tab' \in {"loading", "ready"} => known' \subseteq Ids(thread') \cup deleted
  BY <1>2, <1>3, ViewIs
<1> QED
  BY <1>2, <1>3, <1>9, <1>10, ActsKept, TabMoves, ViewIs

(* An entry that is replaced by a row of its message keeps its place.          *)
LEMMA ReplacedIs ==
  ASSUME NEW R, Told(thread, R), NEW snap \in Snapshot, snap.revoked \subseteq R,
         NEW m \in Msgs, NEW i \in 1..Len(thread)
  PROVE  LET t == [thread EXCEPT ![i] = Row(snap, m)]
         IN  Told(t, R) /\ (thread[i].id = m => Ids(t) = Ids(thread))
<1>1. thread \in Seq(Entry) /\ DOMAIN thread = 1..Len(thread)
  BY DEF Told
<1>2. Row(snap, m) \in Entry /\ Row(snap, m).id = m /\ (Row(snap, m).revoked => m \in R)
  BY RowIs
<1> DEFINE t == [thread EXCEPT ![i] = Row(snap, m)]
<1>3. t \in Seq(Entry) /\ DOMAIN t = DOMAIN thread
      /\ \A k \in DOMAIN t : t[k] = IF k = i THEN Row(snap, m) ELSE thread[k]
  BY <1>1, <1>2
<1> HIDE DEF t
<1>4. Told(t, R)
  BY <1>2, <1>3 DEF Told
<1>5. ASSUME thread[i].id = m PROVE Ids(t) = Ids(thread)
  <2>1. \A k \in DOMAIN t : t[k].id = thread[k].id
    BY <1>2, <1>3, <1>5
  <2> QED
    BY <2>1, <1>3 DEF Ids
<1> QED
  BY <1>4, <1>5 DEF t

(* A sent message is patched where it is.                                     *)
LEMMA PatchingSent ==
  ASSUME IInv, NEW p \in Polls, PatchSent(p)
  PROVE  IInv'
<1> DEFINE m == NextChanged(p)
<1>1. poll[p] \in Poll /\ CallOK(poll[p], revoked) /\ CallsOK(poll, revoked)
      /\ poll[p].snap \in Snapshot /\ poll[p].snap.revoked \subseteq revoked
  BY DEF IInv, CallsOK, CallOK, Poll
<1>2. Told(thread, revoked) /\ thread \in Seq(Entry)
  BY ViewIs DEF Told
<1>3. m \in Shown /\ m \in Msgs
  BY <1>1, NextChangedIs DEF PatchSent, Patching
<1>4. Place(m) \in 1..Len(thread) /\ thread[Place(m)].id = m
  BY <1>2, <1>3, PlaceIs
<1>5. Told(thread', revoked) /\ Ids(thread') = Ids(thread)
  BY <1>1, <1>2, <1>3, <1>4, ReplacedIs DEF PatchSent
<1>6. CallOK(Skip(p, "sent"), revoked)
  BY <1>1 DEF CallOK, Poll, Skip
<1>7. CallsOK(poll', revoked)
  BY <1>1, <1>6, GotoIs DEF PatchSent, Goto
<1>8. UNCHANGED <<server, tab, known, act>> /\ busy' \in Polls \cup {Nobody}
  BY DEF PatchSent, IInv, TypeOK
<1> QED
  BY <1>5, <1>7, <1>8, ActsKept, TabMoves, ViewIs

(* A write after the await: at the place of its message it replaces the entry; *)
(* anywhere else the tab counts as muddled, and at the end it appends.         *)
LEMMA Writing ==
  ASSUME IInv, NEW p \in Polls, WritePatch(p)
  PROVE  IInv'
<1> DEFINE m   == NextChanged(p)
           row == Row(poll[p].snap, m)
           at  == poll[p].at
           t   == [i \in 1..Len(thread) \cup {at} |-> IF i = at THEN row ELSE thread[i]]
<1>1. poll[p] \in Poll /\ CallOK(poll[p], revoked) /\ CallsOK(poll, revoked)
      /\ poll[p].snap \in Snapshot /\ poll[p].snap.revoked \subseteq revoked
      /\ at \in Nat
  BY DEF IInv, CallsOK, CallOK, Poll
<1>2. Told(thread, revoked) /\ thread \in Seq(Entry) /\ DOMAIN thread = 1..Len(thread)
      /\ Len(thread) \in Nat
  BY ViewIs DEF Told
<1>3. at # 0 /\ poll[p].changed # {} /\ UNCHANGED <<server, known, act>>
  BY <1>1 DEF WritePatch, CallOK
<1>4. m \in Msgs
  BY <1>1, <1>3, NextChangedIs
<1>5. row \in Entry /\ row.id = m /\ (row.revoked => m \in revoked)
  BY <1>1, <1>4, RowIs
<1>6. CallOK(Skip(p, "received"), revoked) /\ CallOK([poll[p] EXCEPT !.pc = "patching"], revoked)
  BY <1>1 DEF CallOK, Poll, Skip
<1>7. CASE ~poll[p].detached /\ at <= Len(thread) + 1
  <2>a. ~(at > Len(thread) + 1)
    BY <1>1, <1>2, <1>7
  <2> HIDE DEF at
  <2>1. /\ thread' = t /\ Goto(p, Skip(p, "received")) /\ busy' = p
        /\ tab' = IF at \in Places(row.id) THEN tab ELSE "muddled"
    BY <1>7, <2>a DEF WritePatch, at
  <2> HIDE DEF row, m
  <2>2. CallsOK(poll', revoked)
    BY <1>1, <1>6, <2>1, GotoIs DEF Goto
  <2>3. CASE at \in 1..Len(thread)
    <3>1. t = [thread EXCEPT ![at] = row]
      BY <1>2, <2>3
    <3>2. Told(t, revoked) /\ (thread[at].id = m => Ids(t) = Ids(thread))
      BY <1>1, <1>2, <1>4, <2>3, <3>1, ReplacedIs DEF row
    <3>3. at \in Places(row.id) => thread[at].id = m
      BY <1>5 DEF Places
    <3>4. tab' \in {"loading", "ready"} => known \subseteq Ids(t) \cup deleted
      BY <2>1, <3>2, <3>3, ViewIs
    <3> QED
      BY <1>3, <2>1, <2>2, <3>2, <3>4, ActsKept, TabMoves, ViewIs DEF Tabs
  <2>4. CASE at \notin 1..Len(thread)
    <3>1. at = Len(thread) + 1
      BY <1>1, <1>2, <1>3, <1>7, <2>4
    <3>2. DOMAIN t = 1..(Len(thread) + 1)
      BY <1>2, <3>1
    <3>3. \A i \in DOMAIN t : t[i] \in Entry /\ (t[i].revoked => t[i].id \in revoked)
      BY <1>2, <1>5, <3>1, <3>2 DEF Told
    <3>4. t \in Seq(Entry)
      <4> HIDE DEF t
      <4>1. t = [i \in 1..(Len(thread) + 1) |-> t[i]]
        BY <3>2 DEF t
      <4> QED
        BY <1>2, <3>2, <3>3, <4>1
    <3>5. Told(t, revoked)
      BY <3>3, <3>4 DEF Told
    <3>6. tab' = "muddled"
      BY <1>2, <2>1, <2>4 DEF Places
    <3> QED
      BY <1>3, <2>1, <2>2, <3>5, <3>6, ActsKept, TabMoves, ViewIs DEF Tabs
  <2> QED
    BY <2>3, <2>4
<1>8. CASE ~poll[p].detached /\ at > Len(thread) + 1
  <2>1. tab' = "broken" /\ UNCHANGED <<thread, poll, busy>>
    BY <1>2, <1>1, <1>8 DEF WritePatch
  <2> QED
    BY <1>1, <1>2, <1>3, <2>1, ActsKept, TabMoves, ViewIs DEF IInv, TypeOK, Tabs
<1>9. CASE poll[p].detached
  <2>1. Goto(p, [poll[p] EXCEPT !.pc = "patching"]) /\ busy' = p /\ UNCHANGED <<tab, thread>>
    BY <1>9 DEF WritePatch
  <2> QED
    BY <1>3, <1>6, <2>1, Quiet DEF view
<1> QED
  BY <1>1, <1>2, <1>7, <1>8, <1>9

(* What is new gets entries, and is known from then on.                       *)
LEMMA Merging ==
  ASSUME IInv, NEW p \in Polls, Merge(p)
  PROVE  IInv'
<1> DEFINE snap == poll[p].snap
           S    == poll[p].fresh
<1>1. CallsOK(poll, revoked) /\ snap \in Snapshot /\ snap.revoked \subseteq revoked \cap Sent
      /\ S \in SUBSET Msgs
  BY DEF IInv, CallsOK, CallOK, Poll
<1>2. /\ thread' = Push(S, snap) /\ known' = known \cup S /\ Goto(p, IdlePoll)
      /\ busy' = Nobody /\ UNCHANGED <<server, tab, act>>
  BY DEF Merge
<1>3. Told(Push(S, snap), revoked) /\ Ids(thread) \cup S \subseteq Ids(Push(S, snap))
  BY <1>1, ViewIs, PushIs
<1>4. CallOK(IdlePoll, revoked)
  BY DEF CallOK, Poll, IdlePoll, Snapshot, NoSnapshot
<1>5. CallsOK(poll', revoked)
  BY <1>1, <1>2, <1>4, GotoIs DEF Goto
<1>6. /\ known' \in SUBSET Msgs
      /\ tab' \in {"loading", "ready"} => known' \subseteq Ids(thread') \cup deleted
  BY <1>1, <1>2, <1>3, ViewIs
<1> QED
  BY <1>2, <1>3, <1>5, <1>6, ActsKept, TabMoves, ViewIs

(* The initial load takes in what the server lists.                           *)
LEMMA Loading ==
  ASSUME IInv, Load
  PROVE  IInv'
<1>1. /\ Listed \in Snapshot /\ Listed.revoked \subseteq revoked \cap Sent
      /\ Listing \in SUBSET Msgs
  BY ListedIs DEF IInv
<1>2. Told(thread', revoked) /\ Listing \subseteq Ids(thread')
  BY <1>1, ViewIs, PushIs DEF Load
<1>3. CallsOK(poll', revoked) /\ busy' \in Polls \cup {Nobody}
  BY DEF Load, IInv, TypeOK
<1> QED
  BY <1>1, <1>2, <1>3, ActsKept, TabMoves DEF Load, Tabs

\* Every step of a poll keeps the invariant.
LEMMA Polling ==
  ASSUME IInv, NEW p \in Polls, PollStep(p)
  PROVE  IInv'
BY QuietCalls, Receiving, PatchingSent, Writing, Merging DEF PollStep

-----------------------------------------------------------------------------
(* Requests of the tab                                                        *)

(* A request is sent, or is over.                                             *)
LEMMA Asking ==
  ASSUME IInv, NEW a \in Msgs \X Kinds, NEW r \in {"none", "asked"},
         act' = [act EXCEPT ![a] = r], UNCHANGED <<deleted, revoked>>
  PROVE  act' \in [Msgs \X Kinds -> {"none", "asked", "done"}] /\ ActsOK'
<1>1. act \in [Msgs \X Kinds -> {"none", "asked", "done"}]
  BY DEF IInv, TypeOK
<1>2. \A b \in Msgs \X Kinds : act'[b] = "done" => act[b] = "done"
  BY <1>1
<1>3. \A m \in Msgs : <<m, "delete">> \in Msgs \X Kinds /\ <<m, "revoke">> \in Msgs \X Kinds
  BY DEF Kinds
<1> QED
  BY <1>1, <1>2, <1>3 DEF IInv, ActsOK

(* A request under way or lost.                                               *)
LEMMA Requesting ==
  ASSUME IInv, NEW m \in Msgs,
         AskSend(m) \/ AskDelete(m) \/ AskRevoke(m) \/ \E kind \in Kinds : RequestFails(m, kind)
  PROVE  IInv'
<1>1. UNCHANGED <<server, tab, view, poll, busy>>
  BY DEF AskSend, AskDelete, AskRevoke, Ask, RequestFails
<1>2. \E a \in Msgs \X Kinds : \E r \in {"none", "asked"} : act' = [act EXCEPT ![a] = r]
  <2>1. \A k \in Kinds : <<m, k>> \in Msgs \X Kinds
    OBVIOUS
  <2>2. "send" \in Kinds /\ "delete" \in Kinds /\ "revoke" \in Kinds
    BY DEF Kinds
  <2> QED
    BY <2>1, <2>2 DEF AskSend, AskDelete, AskRevoke, RequestFails, Ask
<1>3. act' \in [Msgs \X Kinds -> {"none", "asked", "done"}] /\ ActsOK'
  BY <1>1, <1>2, Asking DEF server
<1>4. Told(thread', revoked) /\ CallsOK(poll', revoked) /\ busy' \in Polls \cup {Nobody}
  BY <1>1, ViewIs DEF view, IInv, TypeOK
<1> QED
  BY <1>1, <1>3, <1>4, ViewIs, TabMoves DEF view

(* The server has stored, deleted or revoked: what it said before still holds. *)
LEMMA ServerMoves ==
  ASSUME IInv, UNCHANGED <<toSelf, tab, view, poll, busy>>, live' \in BOOLEAN,
         act' \in [Msgs \X Kinds -> {"none", "asked", "done"}], ActsOK',
         stored' \in SUBSET Msgs, deleted' \in SUBSET Msgs, revoked' \in SUBSET Msgs,
         anchored' \in SUBSET Msgs, deleted \subseteq deleted', revoked \subseteq revoked'
  PROVE  IInv'
<1>1. TypeOK'
  BY DEF IInv, TypeOK, view
<1>2. RevokedIsTrue' /\ KnownIsShown'
  BY DEF IInv, RevokedIsTrue, KnownIsShown, Shown, view
<1>3. CallsOK(poll, revoked)'
  BY DEF IInv, CallsOK, CallOK, Sent
<1> QED
  BY <1>1, <1>2, <1>3 DEF IInv

(* The handler has done what the request asks.                                *)
LEMMA Performing ==
  ASSUME IInv, NEW m \in Msgs, PerformSend(m) \/ PerformDelete(m) \/ PerformRevoke(m)
  PROVE  IInv'
<1>1. PICK k \in Kinds :
        /\ act' = [act EXCEPT ![<<m, k>>] = "done"]
        /\ k = "delete" => m \in deleted'
        /\ k = "revoke" => m \in revoked'
  BY DEF PerformSend, PerformDelete, PerformRevoke, Perform, Kinds
<1>2. /\ UNCHANGED <<toSelf, live, anchored, tab, view, poll, busy>>
      /\ stored' \in SUBSET Msgs /\ deleted' \in SUBSET Msgs /\ revoked' \in SUBSET Msgs
      /\ deleted \subseteq deleted' /\ revoked \subseteq revoked'
  BY DEF PerformSend, PerformDelete, PerformRevoke, Perform, IInv, TypeOK
<1>3. /\ act \in [Msgs \X Kinds -> {"none", "asked", "done"}] /\ anchored \in SUBSET Msgs
      /\ live \in BOOLEAN /\ <<m, k>> \in Msgs \X Kinds
  BY DEF IInv, TypeOK
<1>4. act' \in [Msgs \X Kinds -> {"none", "asked", "done"}]
  BY <1>1, <1>3
<1>5. ASSUME NEW n \in Msgs, NEW k2 \in {"delete", "revoke"}, act'[<<n, k2>>] = "done"
      PROVE  /\ k2 = "delete" => n \in deleted'
             /\ k2 = "revoke" => n \in revoked'
  <2>1. CASE n = m /\ k2 = k
    BY <1>1, <2>1
  <2>2. CASE ~(n = m /\ k2 = k)
    <3>1. <<n, k2>> # <<m, k>> /\ <<n, k2>> \in Msgs \X Kinds
      BY <2>2 DEF Kinds
    <3>2. act[<<n, k2>>] = "done"
      BY <1>1, <1>3, <1>5, <3>1
    <3> QED
      BY <1>2, <3>2 DEF IInv, ActsOK
  <2> QED
    BY <2>1, <2>2
<1>6. ActsOK'
  BY <1>5 DEF ActsOK
<1> QED
  BY <1>2, <1>3, <1>4, <1>6, ServerMoves

(* The answer is handled: the entry is added, cut out, or marked.              *)
LEMMA Finishing ==
  ASSUME IInv, NEW m \in Msgs, FinishSend(m) \/ FinishDelete(m) \/ FinishRevoke(m)
  PROVE  IInv'
<1>1. /\ UNCHANGED <<server, tab, busy>>
      /\ \E a \in Msgs \X Kinds : act' = [act EXCEPT ![a] = "none"]
  BY DEF FinishSend, FinishDelete, FinishRevoke, Finish, Kinds
<1>2. act' \in [Msgs \X Kinds -> {"none", "asked", "done"}] /\ ActsOK'
  BY <1>1, Asking DEF server
<1>3. Told(thread, revoked) /\ thread \in Seq(Entry) /\ DOMAIN thread = 1..Len(thread)
      /\ Len(thread) \in Nat /\ CallsOK(poll, revoked) /\ busy' \in Polls \cup {Nobody}
  BY <1>1, ViewIs DEF Told, IInv, TypeOK
<1>4. CASE FinishSend(m)
  <2>1. thread' = Append(thread, SentEntry(m)) /\ known' = known \cup {m} /\ UNCHANGED poll
    BY <1>4 DEF FinishSend
  <2>2. SentEntry(m) \in Entry /\ SentEntry(m).id = m /\ ~SentEntry(m).revoked
    BY DEF SentEntry, Entry
  <2>3. /\ thread' \in Seq(Entry) /\ DOMAIN thread' = 1..(Len(thread) + 1)
        /\ \A i \in 1..Len(thread) : thread'[i] = thread[i]
        /\ thread'[Len(thread) + 1] = SentEntry(m)
    BY <1>3, <2>1, <2>2
  <2>4. ASSUME NEW i \in DOMAIN thread', thread'[i].revoked PROVE thread'[i].id \in revoked
    <3>1. i \in 1..Len(thread)
      BY <1>3, <2>2, <2>3, <2>4
    <3> QED
      BY <1>3, <2>3, <2>4, <3>1 DEF Told
  <2>5. ASSUME NEW n \in Ids(thread) PROVE n \in Ids(thread')
    <3>1. PICK i \in 1..Len(thread) : thread[i].id = n
      BY <1>3 DEF Ids
    <3>2. i \in DOMAIN thread' /\ thread'[i].id = n
      BY <1>3, <2>3, <3>1
    <3> QED
      BY <3>2 DEF Ids
  <2>6. m \in Ids(thread')
    <3>1. Len(thread) + 1 \in DOMAIN thread' /\ thread'[Len(thread) + 1].id = m
      BY <1>3, <2>2, <2>3
    <3> QED
      BY <3>1 DEF Ids
  <2>7. Told(thread', revoked)
    BY <2>3, <2>4 DEF Told
  <2>8. /\ known' \in SUBSET Msgs
        /\ tab' \in {"loading", "ready"} => known' \subseteq Ids(thread') \cup deleted
    BY <1>1, <2>1, <2>5, <2>6, ViewIs
  <2> QED
    BY <1>1, <1>2, <1>3, <2>1, <2>7, <2>8, ViewIs, TabMoves
<1>5. CASE FinishDelete(m)
  <2> DEFINE cut == Without({Place(n) : n \in {m} \cap Shown})
  <2>1. thread' = cut /\ poll' = Detach(cut, poll) /\ known' = known
    BY <1>5 DEF FinishDelete
  <2>2. m \in deleted
    BY <1>5 DEF FinishDelete, Finish, IInv, ActsOK
  <2>3. Told(cut, revoked) /\ Shown \ {m} \subseteq Ids(cut)
    BY <1>3, WithoutIs
  <2>4. CallsOK(poll', revoked)
    BY <1>3, <2>1, DetachIs
  <2>5. tab' \in {"loading", "ready"} => known' \subseteq Ids(thread') \cup deleted
    BY <1>1, <2>1, <2>2, <2>3, ViewIs
  <2> QED
    BY <1>1, <1>2, <1>3, <2>1, <2>3, <2>4, <2>5, ViewIs, TabMoves
<1>6. CASE FinishRevoke(m)
  <2>1. UNCHANGED <<known, poll>> /\ m \in revoked
    BY <1>6 DEF FinishRevoke, Finish, IInv, ActsOK
  <2>2. /\ DOMAIN thread' = 1..Len(thread)
        /\ \A i \in 1..Len(thread) :
             thread'[i] = IF m \in Shown /\ i = Place(m)
                            THEN [thread[i] EXCEPT !.revoked = TRUE, !.raw = FALSE]
                            ELSE thread[i]
    BY <1>3, <1>6 DEF FinishRevoke
  <2>3. ASSUME NEW i \in 1..Len(thread)
        PROVE  thread'[i] \in Entry /\ thread'[i].id = thread[i].id
               /\ (thread'[i].revoked => thread'[i].id \in revoked)
    <3>1. thread[i] \in Entry /\ (thread[i].revoked => thread[i].id \in revoked)
      BY <1>3 DEF Told
    <3>2. CASE m \in Shown /\ i = Place(m)
      <4>1. thread[i].id = m
        BY <1>3, <3>2, PlaceIs
      <4>2. thread'[i] = [thread[i] EXCEPT !.revoked = TRUE, !.raw = FALSE]
        BY <2>2, <3>2
      <4>3. thread'[i] \in Entry /\ thread'[i].id = thread[i].id
        BY <3>1, <4>2 DEF Entry
      <4> QED
        BY <2>1, <4>1, <4>3
    <3> QED
      BY <2>2, <3>1, <3>2
  <2>4. thread' \in Seq(Entry)
    <3>1. thread' = [i \in 1..Len(thread) |-> thread'[i]]
      BY <1>3, <1>6 DEF FinishRevoke
    <3> QED
      BY <1>3, <2>3, <3>1
  <2>5. Told(thread', revoked) /\ Ids(thread') = Ids(thread)
    BY <1>3, <2>2, <2>3, <2>4 DEF Told, Ids
  <2> QED
    BY <1>1, <1>2, <1>3, <2>1, <2>5, ViewIs, TabMoves
<1> QED
  BY <1>4, <1>5, <1>6

\* So does every step of a send, a deletion and a revocation in the tab.
LEMMA Acting ==
  ASSUME IInv, NEW m \in Msgs, ActStep(m)
  PROVE  IInv'
BY Requesting, Performing, Finishing DEF ActStep

(* What others do on the server.                                              *)
LEMMA Others ==
  ASSUME IInv, NEW m \in Msgs, Elsewhere(m)
  PROVE  IInv'
<1>1. UNCHANGED <<toSelf, live, tab, view, act, poll, busy>>
  BY DEF Elsewhere
<1>2. /\ stored' \in SUBSET Msgs /\ deleted' \in SUBSET Msgs /\ revoked' \in SUBSET Msgs
      /\ anchored' \in SUBSET Msgs /\ deleted \subseteq deleted' /\ revoked \subseteq revoked'
  BY DEF Elsewhere, Arrive, RevokeElsewhere, DeleteElsewhere, AnchorChanges, IInv, TypeOK
<1>3. act' \in [Msgs \X Kinds -> {"none", "asked", "done"}] /\ ActsOK'
  BY <1>1, <1>2 DEF IInv, TypeOK, ActsOK
<1> QED
  BY <1>1, <1>2, <1>3, ServerMoves DEF IInv, TypeOK

(* The load fails, or the token is refused from now on.                       *)
LEMMA Ending ==
  ASSUME IInv, LoadFails \/ TokenExpires
  PROVE  IInv'
<1>1. UNCHANGED <<toSelf, stored, deleted, revoked, anchored, view, act, poll, busy>>
  BY DEF LoadFails, TokenExpires, server
<1>2. tab' \in {tab, "failed"} /\ live' \in BOOLEAN /\ "failed" \in Tabs
  BY DEF LoadFails, TokenExpires, server, IInv, TypeOK, Tabs
<1>3. TypeOK'
  BY <1>1, <1>2 DEF IInv, TypeOK, view
<1>4. RevokedIsTrue' /\ KnownIsShown'
  BY <1>1, <1>2 DEF IInv, RevokedIsTrue, KnownIsShown, Shown, view
<1>5. CallsOK(poll, revoked)' /\ ActsOK'
  BY <1>1 DEF IInv, CallsOK, CallOK, Sent, ActsOK
<1> QED
  BY <1>3, <1>4, <1>5 DEF IInv

-----------------------------------------------------------------------------
(* The invariant                                                              *)

\* The invariant holds of a tab that has loaded nothing.
LEMMA Initially == Init => IInv
<1> SUFFICES ASSUME Init PROVE IInv
  OBVIOUS
<1>1. CallOK(IdlePoll, revoked)
  BY DEF CallOK, Poll, IdlePoll, Snapshot, NoSnapshot
<1>2. CallsOK(poll, revoked)
  BY <1>1 DEF CallsOK, CallOK, Init
<1>3. TypeOK
  <2>1. thread \in Seq(Entry)
    BY DEF Init
  <2>2. poll \in [Polls -> Poll]
    BY <1>2 DEF CallsOK
  <2>3. toSelf \in BOOLEAN /\ live \in BOOLEAN /\ tab \in Tabs
    BY DEF Init, Tabs
  <2> QED
    BY <2>1, <2>2, <2>3 DEF Init, TypeOK
<1>4. RevokedIsTrue /\ KnownIsShown
  BY DEF Init, RevokedIsTrue, KnownIsShown
<1>5. ActsOK
  <2>1. \A m \in Msgs : <<m, "delete">> \in Msgs \X Kinds /\ <<m, "revoke">> \in Msgs \X Kinds
    BY DEF Kinds
  <2> QED
    BY <2>1 DEF Init, ActsOK
<1> QED
  BY <1>2, <1>3, <1>4, <1>5 DEF IInv

\* Every step keeps the invariant.
LEMMA Inductive == IInv /\ [Next]_vars => IInv'
<1> SUFFICES ASSUME IInv, [Next]_vars PROVE IInv'
  OBVIOUS
<1>1. CASE Next
  BY <1>1, Loading, Ending, Polling, Acting, Others DEF Next
<1>2. CASE UNCHANGED vars
  <2>1. UNCHANGED <<toSelf, live, tab, view, poll, busy>> /\ UNCHANGED <<server, act>>
    BY <1>2 DEF vars, server
  <2>2. act' \in [Msgs \X Kinds -> {"none", "asked", "done"}] /\ ActsOK'
    BY <2>1, ActsKept
  <2> QED
    BY <2>1, <2>2, ServerMoves DEF server, IInv, TypeOK
<1> QED
  BY <1>1, <1>2

\* The invariant holds of every execution.
THEOREM Invariant == Spec => []IInv
BY Initially, Inductive, PTL DEF Spec

(* Every state is well typed.                                                 *)
THEOREM TypesOfInbox == Spec => []TypeOK
<1>1. IInv => TypeOK
  BY DEF IInv
<1> QED
  BY <1>1, Invariant, PTL

(* What the inbox shows as revoked has been revoked (inbox.js:511-530, 855).   *)
THEOREM RevocationsAreTrue == Spec => []RevokedIsTrue
<1>1. IInv => RevokedIsTrue
  BY DEF IInv
<1> QED
  BY <1>1, Invariant, PTL

(* Until a patch hits a wrong place, an id in knownIds has an entry or its     *)
(* message is deleted (inbox.js:467, 482, 506-538).                           *)
THEOREM NothingKnownIsHidden == Spec => []KnownIsShown
<1>1. IInv => KnownIsShown
  BY DEF IInv
<1> QED
  BY <1>1, Invariant, PTL

-----------------------------------------------------------------------------
(* A conversation with a partner, in a tab that only reads and revokes, one   *)
(* poll at a time                                                             *)

Reader == ~toSelf /\ ~CanSend /\ ~CanDelete /\ (\A p, q \in Polls : p = q)

\* No two entries of an array t are of one message.
Distinct(t) == \A i, j \in DOMAIN t : t[i].id = t[j].id => i = j

Busy(c) == c.pc \in {"decrypting", "patching", "awaiting"}

\* What is new to a call is new to the tab until it is merged, and the place found
\* before an await is still that of the message.
ReaderCall(p) ==
  /\ Busy(poll[p]) => poll[p].fresh \cap known = {}
  /\ poll[p].pc = "awaiting" => poll[p].at \in Places(NextChanged(p))

\* Until the inbox is loaded there is nothing, and nobody polls.
Unloaded == tab = "loading" => thread = << >> /\ \A p \in Polls : poll[p].pc = "idle"

OnlyRevokes == \A m \in Msgs : act[<<m, "send">>] = "none" /\ act[<<m, "delete">>] = "none"

(* The partner stays the same.                                                *)
LEMMA SamePartner == [Next]_vars => toSelf' = toSelf
BY DEF Next, vars, server, Load, LoadFails, TokenExpires, PollStep, StartPoll, AnswerPoll,
       PollFails, ReceivePoll, Decrypted, SkipMissing, PatchSent, AwaitPatch, WritePatch, Merge,
       ActStep, AskSend, AskDelete, AskRevoke, Ask, PerformSend, PerformDelete, PerformRevoke,
       Perform, RequestFails, FinishSend, FinishDelete, FinishRevoke, Finish, Elsewhere

RInv ==
  /\ Distinct(thread) /\ Shown \subseteq known
  /\ \A p \in Polls : ReaderCall(p)
  /\ Unloaded /\ OnlyRevokes

(* Rows pushed for ids that are not shown leave each message one entry.       *)
LEMMA PushDistinct ==
  ASSUME thread \in Seq(Entry), Distinct(thread), ~toSelf,
         NEW snap \in Snapshot, snap.revoked \subseteq Sent,
         NEW S \in SUBSET Msgs, S \cap Shown = {}
  PROVE  /\ Distinct(Push(S, snap)) /\ Ids(Push(S, snap)) \subseteq Shown \cup S
         /\ \A i \in DOMAIN Push(S, snap) :
              \/ \E j \in DOMAIN thread : Push(S, snap)[i] = thread[j]
              \/ \E m \in S : Push(S, snap)[i] = Row(snap, m)
<1>1. PICK rows \in Seq({Row(snap, m) : m \in S}) :
        /\ Push(S, snap) = thread \o rows
        /\ \A k, l \in 1..Len(rows) : rows[k].id = rows[l].id => k = l
  BY PushedAre
<1> DEFINE L == Len(thread)
           n == Len(rows)
           t == thread \o rows
<1>2. /\ L \in Nat /\ DOMAIN thread = 1..L /\ n \in Nat /\ DOMAIN rows = 1..n
      /\ \A k \in 1..n : \E m \in S : rows[k] = Row(snap, m)
  OBVIOUS
<1>3. \A k \in 1..n : rows[k].id \in S
  BY <1>2 DEF Row
<1>4. /\ DOMAIN t = 1..(L + n)
      /\ \A i \in 1..L : t[i] = thread[i]
      /\ \A i \in DOMAIN t : i \notin 1..L => i - L \in 1..n /\ t[i] = rows[i - L]
  BY <1>2
<1>5. t = Push(S, snap)
  BY <1>1
<1> HIDE DEF t, L, n
<1>6. ASSUME NEW i \in DOMAIN t
      PROVE  \/ i \in 1..L /\ t[i] = thread[i] /\ t[i].id \in Shown
             \/ i \notin 1..L /\ i - L \in 1..n /\ t[i] = rows[i - L] /\ t[i].id \in S
  BY <1>2, <1>3, <1>4 DEF Shown
<1>7. ASSUME NEW i \in DOMAIN t, NEW j \in DOMAIN t, t[i].id = t[j].id PROVE i = j
  <2>1. CASE i \in 1..L /\ j \in 1..L
    BY <1>2, <1>6, <1>7, <2>1 DEF Distinct
  <2>2. CASE i \notin 1..L /\ j \notin 1..L
    <3>1. i - L = j - L
      BY <1>1, <1>6, <1>7, <2>2 DEF n
    <3>2. i \in Nat /\ j \in Nat /\ L \in Nat
      BY <1>2, <1>4
    <3> QED
      BY <3>1, <3>2
  <2> QED
    BY <1>6, <1>7, <2>1, <2>2
<1>8. Ids(t) \subseteq Shown \cup S
  BY <1>6 DEF Ids
<1>9. ASSUME NEW i \in DOMAIN t
      PROVE  (\E j \in DOMAIN thread : t[i] = thread[j]) \/ (\E m \in S : t[i] = Row(snap, m))
  BY <1>2, <1>6
<1> QED
  BY <1>5, <1>7, <1>8, <1>9 DEF Distinct

\* Every entry of an array t is one of the thread.
OldEntries(t) == \A k \in DOMAIN t : \E i \in DOMAIN thread : t[k] = thread[i]

(* With one entry for each message, cutting first places cuts the messages.   *)
LEMMA WithoutDistinct ==
  ASSUME thread \in Seq(Entry), Distinct(thread), NEW N
  PROVE  LET cut == Without({Place(m) : m \in N \cap Shown})
         IN  Distinct(cut) /\ Ids(cut) \subseteq Shown \ N /\ OldEntries(cut)
<1> DEFINE I    == {Place(m) : m \in N \cap Shown}
           rest == DOMAIN thread \ I
           kept == Ascending(rest)
           n    == Cardinality(rest)
           cut  == Without(I)
<1>1. DOMAIN thread = 1..Len(thread)
  OBVIOUS
<1>2. rest \in SUBSET Nat /\ IsFiniteSet(rest)
  <2>1. IsFiniteSet(1..Len(thread)) /\ 1..Len(thread) \in SUBSET Nat
    BY <1>1, FS_Interval
  <2>2. rest \in SUBSET (1..Len(thread))
    BY <1>1
  <2> HIDE DEF rest
  <2> QED
    BY <2>1, <2>2, FS_Subset
<1>3. /\ DOMAIN kept = 1..n
      /\ \A k \in 1..n : kept[k] \in rest /\ Rank(rest, kept[k]) = k
  <2> HIDE DEF rest
  <2> QED
    BY <1>2, AscendingIs DEF Ascending
<1>4. cut = [k \in 1..n |-> thread[kept[k]]]
  BY <1>3 DEF Without
<1>5. ASSUME NEW m \in Shown, NEW i \in rest, thread[i].id = m PROVE m \notin N
  <2>1. SUFFICES ASSUME m \in N PROVE FALSE
    OBVIOUS
  <2>2. Place(m) \in I
    BY <2>1
  <2>3. Place(m) \in DOMAIN thread /\ thread[Place(m)].id = m
    BY <1>1, PlaceIs
  <2>4. i = Place(m)
    BY <1>5, <2>3 DEF Distinct
  <2> QED
    BY <2>2, <2>4
<1>6. \A i \in rest : thread[i].id \in Shown \ N
  BY <1>5 DEF Shown
<1> HIDE DEF kept, n, cut
<1>7. ASSUME NEW k \in 1..n, NEW l \in 1..n, cut[k].id = cut[l].id PROVE k = l
  <2>1. kept[k] \in DOMAIN thread /\ kept[l] \in DOMAIN thread
    BY <1>3
  <2>2. thread[kept[k]].id = thread[kept[l]].id
    BY <1>4, <1>7
  <2>3. kept[k] = kept[l]
    BY <2>1, <2>2 DEF Distinct
  <2> QED
    BY <1>3, <2>3
<1>8. Ids(cut) \subseteq Shown \ N
  BY <1>3, <1>4, <1>6 DEF Ids
<1>9. Distinct(cut)
  BY <1>4, <1>7 DEF Distinct
<1>10. OldEntries(cut)
  BY <1>3, <1>4 DEF OldEntries
<1> QED
  BY <1>8, <1>9, <1>10 DEF cut

(* A step after which every message has the entries it had.                   *)
LEMMA SameIds ==
  ASSUME DOMAIN thread' = DOMAIN thread,
         \A i \in DOMAIN thread : thread'[i].id = thread[i].id
  PROVE  /\ Distinct(thread)' <=> Distinct(thread)
         /\ Shown' = Shown
         /\ \A m : Places(m)' = Places(m)
BY DEF Distinct, Shown, Places

(* What a step of a call has to leave so.                                     *)
LEMMA ReaderCalls ==
  ASSUME IInv, RInv, Reader, NEW p \in Polls, NEW c \in Poll, Goto(p, c),
         tab' # "loading", UNCHANGED act,
         DOMAIN thread' = DOMAIN thread,
         \A i \in DOMAIN thread : thread'[i].id = thread[i].id,
         known' = known,
         Busy(c) => c.fresh \cap known = {},
         c.pc = "awaiting" => c.at \in Places(Least(ChangedIds(c)))
  PROVE  RInv'
<1>1. \A q \in Polls : q = p
  BY DEF Reader
<1>2. poll'[p] = c
  BY DEF Goto, IInv, TypeOK
<1>3. ReaderCall(p)'
  BY <1>2, SameIds DEF ReaderCall, NextChanged, ChangedIds
<1>4. \A q \in Polls : ReaderCall(q)'
  BY <1>1, <1>3
<1>5. Distinct(thread)' /\ (Shown \subseteq known)'
  BY SameIds DEF RInv
<1>6. Unloaded' /\ OnlyRevokes'
  BY DEF RInv, Unloaded, OnlyRevokes
<1> QED
  BY <1>4, <1>5, <1>6 DEF RInv

(* The calls are left alone.                                                  *)
LEMMA ReaderKeeps ==
  ASSUME RInv, UNCHANGED <<poll, known>>, OnlyRevokes', tab' = tab,
         tab = "loading" => thread' = thread,
         DOMAIN thread' = DOMAIN thread,
         \A i \in DOMAIN thread : thread'[i].id = thread[i].id
  PROVE  RInv'
<1>1. \A p \in Polls : ReaderCall(p)'
  BY SameIds DEF RInv, ReaderCall, NextChanged
<1>2. Distinct(thread)' /\ (Shown \subseteq known)'
  BY SameIds DEF RInv
<1>3. Unloaded'
  BY DEF RInv, Unloaded
<1> QED
  BY <1>1, <1>2, <1>3 DEF RInv

(* A poll waits, or passes over a message.                                    *)
LEMMA ReaderQuiet ==
  ASSUME IInv, RInv, Reader, NEW p \in Polls,
         \/ StartPoll(p) \/ AnswerPoll(p) \/ PollFails(p) \/ Decrypted(p)
         \/ SkipMissing(p) \/ AwaitPatch(p)
  PROVE  RInv'
<1>1. poll[p] \in Poll /\ TypeOK /\ thread \in Seq(Entry)
  BY DEF IInv, TypeOK
<1>2. /\ UNCHANGED <<act, known, thread, tab>>
      /\ DOMAIN thread' = DOMAIN thread
      /\ \A i \in DOMAIN thread : thread'[i].id = thread[i].id
  BY DEF StartPoll, AnswerPoll, PollFails, Decrypted, SkipMissing, AwaitPatch, view
<1>3. tab' # "loading"
  <2>1. poll[p].pc = "idle" => Turn
    BY DEF StartPoll, AnswerPoll, PollFails, Decrypted, SkipMissing, AwaitPatch, Patching
  <2> QED
    BY <1>2, <2>1 DEF Turn, RInv, Unloaded
<1>4. Busy(poll[p]) => poll[p].fresh \cap known = {}
  BY DEF RInv, ReaderCall
<1>5. CASE StartPoll(p)
  <2> DEFINE c == [poll[p] EXCEPT !.pc = "asked"]
  <2>1. c \in Poll /\ c.pc = "asked"
    BY <1>1 DEF Poll
  <2> QED
    BY <1>2, <1>3, <1>5, <2>1, ReaderCalls DEF StartPoll, Busy
<1>6. CASE AnswerPoll(p)
  <2> DEFINE c == [poll[p] EXCEPT !.pc = "answered", !.snap = Listed]
  <2>1. c \in Poll /\ c.pc = "answered"
    BY <1>1, ListedIs DEF Poll
  <2> QED
    BY <1>2, <1>3, <1>6, <2>1, ReaderCalls DEF AnswerPoll, Busy
<1>7. CASE PollFails(p)
  <2>1. IdlePoll \in Poll /\ IdlePoll.pc = "idle"
    BY DEF Poll, IdlePoll, Snapshot, NoSnapshot
  <2> QED
    BY <1>2, <1>3, <1>7, <2>1, ReaderCalls DEF PollFails, Busy
<1>8. CASE Decrypted(p)
  <2> DEFINE c == [poll[p] EXCEPT !.pc = "patching"]
  <2>1. c \in Poll /\ c.pc = "patching" /\ c.fresh = poll[p].fresh /\ Busy(poll[p])
    BY <1>1, <1>8 DEF Poll, Decrypted, Busy
  <2> QED
    BY <1>2, <1>3, <1>4, <1>8, <2>1, ReaderCalls DEF Decrypted
<1>9. CASE SkipMissing(p)
  <2>1. PICK way \in Ways : Patching(p, way) /\ Goto(p, Skip(p, way))
    BY <1>9 DEF SkipMissing
  <2> DEFINE c == Skip(p, way)
  <2>2. c \in Poll /\ c.pc = "patching" /\ c.fresh = poll[p].fresh /\ Busy(poll[p])
    BY <1>1, <2>1 DEF Poll, Skip, Patching, Busy
  <2> HIDE DEF c
  <2> QED
    BY <1>2, <1>3, <1>4, <2>1, <2>2, ReaderCalls DEF c
<1>10. CASE AwaitPatch(p)
  <2> DEFINE m == NextChanged(p)
             c == [poll[p] EXCEPT !.pc = "awaiting", !.at = Place(m), !.detached = FALSE]
  <2>1. m \in Shown /\ Busy(poll[p]) /\ Goto(p, c)
    BY <1>10 DEF AwaitPatch, Patching, Busy
  <2>2. Place(m) \in 1..Len(thread) /\ thread[Place(m)].id = m
    BY <1>1, <2>1, PlaceIs
  <2>3. Place(m) \in Places(m) /\ Place(m) \in Nat
    BY <1>1, <2>2 DEF Places
  <2>4. /\ c \in Poll /\ c.pc = "awaiting" /\ c.fresh = poll[p].fresh
        /\ c.at = Place(m) /\ c.changed = poll[p].changed
    BY <1>1, <2>3 DEF Poll
  <2>5. m = Least(ChangedIds(c))
    BY <2>4 DEF NextChanged, ChangedIds
  <2> HIDE DEF c, m
  <2> QED
    BY <1>2, <1>3, <1>4, <2>1, <2>3, <2>4, <2>5, ReaderCalls
<1> QED
  BY <1>5, <1>6, <1>7, <1>8, <1>9, <1>10

(* The answer of a poll is taken in.                                          *)
LEMMA ReaderReceives ==
  ASSUME IInv, RInv, Reader, NEW p \in Polls, ReceivePoll(p)
  PROVE  RInv'
<1> DEFINE snap == poll[p].snap
           cut  == Without({Place(m) : m \in DeletedIds(snap) \cap Shown})
           call == [poll[p] EXCEPT !.pc = AfterAnswer(snap), !.fresh = NewMsgs(snap),
                                   !.changed = ChangedRows(snap)]
<1>1. thread \in Seq(Entry) /\ Distinct(thread) /\ Shown \subseteq known /\ poll[p] \in Poll
      /\ poll \in [Polls -> Poll]
  BY DEF IInv, RInv, TypeOK
<1>2. known' = known \ DeletedIds(snap) /\ thread' = cut /\ UNCHANGED <<tab, act>>
      /\ tab # "loading"
  BY DEF ReceivePoll, Forget, Turn
<1>3. Distinct(cut) /\ Ids(cut) \subseteq Shown \ DeletedIds(snap)
  BY <1>1, WithoutDistinct
<1>4. NewMsgs(snap) \cap known' = {}
  BY <1>2 DEF NewMsgs
<1>5. poll'[p].pc \in {"idle", "decrypting", "patching"}
      /\ (Busy(poll'[p]) => poll'[p].fresh = NewMsgs(snap))
  <2>1. CASE Goto(p, IdlePoll)
    BY <1>1, <2>1 DEF Goto, IdlePoll, Busy
  <2>2. CASE poll' = Detach(cut, [poll EXCEPT ![p] = call])
    <3>1. call.pc \in {"decrypting", "patching"} /\ call.fresh = NewMsgs(snap)
      BY <1>1 DEF AfterAnswer, Poll
    <3>2. [poll EXCEPT ![p] = call][p] = call
      BY <1>1
    <3>3. poll'[p].pc = call.pc /\ poll'[p].fresh = call.fresh
      <4> DEFINE P == [poll EXCEPT ![p] = call]
      <4>1. poll'[p] = P[p] \/ \E d : poll'[p] = [P[p] EXCEPT !.detached = d]
        BY <2>2 DEF Detach
      <4>2. P[p] = call /\ call = [call EXCEPT !.pc = AfterAnswer(snap)]
        BY <3>2, <1>1 DEF Poll
      <4>3. poll'[p] = call \/ \E d : poll'[p] = [call EXCEPT !.detached = d]
        BY <4>1, <3>2
      <4> QED
        BY <4>3, <1>1 DEF Poll
    <3> QED
      BY <3>1, <3>3
  <2> QED
    BY <2>1, <2>2 DEF ReceivePoll
<1>6. ReaderCall(p)'
  BY <1>4, <1>5 DEF ReaderCall
<1>7. \A q \in Polls : ReaderCall(q)'
  BY <1>6 DEF Reader
<1>8. Distinct(thread)' /\ (Shown \subseteq known)'
  BY <1>1, <1>2, <1>3 DEF Ids, Shown
<1>9. Unloaded' /\ OnlyRevokes'
  BY <1>2 DEF RInv, Unloaded, OnlyRevokes
<1> QED
  BY <1>7, <1>8, <1>9 DEF RInv

(* A patch replaces the entry of its message.                                 *)
LEMMA ReaderPatches ==
  ASSUME IInv, RInv, Reader, NEW p \in Polls, PatchSent(p) \/ WritePatch(p)
  PROVE  RInv'
<1> DEFINE m == NextChanged(p)
<1>1. poll[p] \in Poll /\ thread \in Seq(Entry) /\ CallOK(poll[p], revoked)
  BY DEF IInv, TypeOK, CallsOK
<1>2. DOMAIN thread = 1..Len(thread) /\ Len(thread) \in Nat
  BY <1>1
<1>3. Busy(poll[p]) /\ poll[p].fresh \cap known = {} /\ tab # "loading" /\ UNCHANGED <<known, act>>
  <2>1. Busy(poll[p]) /\ UNCHANGED <<known, act>>
    BY DEF PatchSent, WritePatch, Patching, Busy
  <2> QED
    BY <2>1 DEF RInv, ReaderCall, Unloaded, Busy
<1>4. ASSUME NEW way \in Ways
      PROVE  /\ Skip(p, way) \in Poll /\ Skip(p, way).pc = "patching"
             /\ Skip(p, way).fresh = poll[p].fresh
  BY <1>1 DEF Poll, Skip
<1>5. Row(poll[p].snap, m).id = m
  BY DEF Row
<1>6. CASE PatchSent(p)
  <2>1. m \in Shown /\ thread' = [thread EXCEPT ![Place(m)] = Row(poll[p].snap, m)]
        /\ Goto(p, Skip(p, "sent")) /\ tab' = tab /\ "sent" \in Ways
    BY <1>6 DEF PatchSent, Ways
  <2>2. Place(m) \in DOMAIN thread /\ thread[Place(m)].id = m
    BY <1>1, <1>2, <2>1, PlaceIs
  <2>3. DOMAIN thread' = DOMAIN thread /\ \A i \in DOMAIN thread : thread'[i].id = thread[i].id
    BY <1>5, <2>1, <2>2
  <2> QED
    BY <1>3, <1>4, <2>1, <2>3, ReaderCalls
<1>7. CASE WritePatch(p)
  <2> DEFINE at == poll[p].at
  <2>1. at \in Places(m)
    BY <1>7 DEF WritePatch, RInv, ReaderCall
  <2>2. at \in 1..Len(thread) /\ thread[at].id = m
    BY <1>2, <2>1 DEF Places
  <2>3. CASE poll[p].detached
    <3> DEFINE c == [poll[p] EXCEPT !.pc = "patching"]
    <3>1. Goto(p, c) /\ UNCHANGED <<tab, thread>>
      BY <1>7, <2>3 DEF WritePatch
    <3>2. c \in Poll /\ c.pc = "patching" /\ c.fresh = poll[p].fresh
      BY <1>1 DEF Poll
    <3> QED
      BY <1>3, <3>1, <3>2, ReaderCalls
  <2>4. CASE ~poll[p].detached
    <3>a. ~(at > Len(thread) + 1)
      BY <1>2, <2>2
    <3>1. /\ thread' = [i \in 1..Len(thread) \cup {at} |->
                          IF i = at THEN Row(poll[p].snap, m) ELSE thread[i]]
          /\ Goto(p, Skip(p, "received")) /\ "received" \in Ways
          /\ tab' = IF at \in Places(Row(poll[p].snap, m).id) THEN tab ELSE "muddled"
      BY <1>7, <2>4, <3>a DEF WritePatch, Ways
    <3>2. DOMAIN thread' = DOMAIN thread
          /\ \A i \in DOMAIN thread : thread'[i].id = thread[i].id
      BY <1>2, <1>5, <2>2, <3>1
    <3>3. tab' # "loading"
      BY <1>3, <3>1
    <3> QED
      BY <1>3, <1>4, <3>1, <3>2, <3>3, ReaderCalls
  <2> QED
    BY <2>3, <2>4
<1> QED
  BY <1>6, <1>7

(* What is new gets its one entry, in a merge as in the initial load.         *)
LEMMA ReaderAdds ==
  ASSUME IInv, RInv, Reader, Load \/ \E p \in Polls : Merge(p)
  PROVE  RInv'
<1>1. thread \in Seq(Entry) /\ Distinct(thread) /\ Shown \subseteq known
      /\ poll \in [Polls -> Poll]
  BY DEF IInv, RInv, TypeOK
<1>2. ASSUME NEW S \in SUBSET Msgs, NEW snap \in Snapshot, snap.revoked \subseteq Sent,
             S \cap Shown = {}, thread' = Push(S, snap), Shown \cup S \subseteq known'
      PROVE  Distinct(thread)' /\ (Shown \subseteq known)'
  <2>1. Distinct(thread') /\ Ids(thread') \subseteq Shown \cup S
    BY <1>1, <1>2, PushDistinct DEF Reader
  <2> QED
    BY <1>2, <2>1 DEF Ids, Shown
<1>3. CASE Load
  <2>1. thread = << >> /\ \A p \in Polls : poll[p].pc = "idle"
    BY <1>3 DEF Load, RInv, Unloaded
  <2>2. Shown = {}
    BY <2>1 DEF Shown
  <2>3. Listing \in SUBSET Msgs /\ Listed \in Snapshot /\ Listed.revoked \subseteq Sent
    BY ListedIs DEF IInv
  <2>4. Distinct(thread)' /\ (Shown \subseteq known)'
    BY <1>2, <1>3, <2>2, <2>3 DEF Load
  <2>5. /\ \A p \in Polls : ReaderCall(p)'
        /\ Unloaded' /\ OnlyRevokes'
    BY <1>3, <2>1 DEF Load, ReaderCall, Busy, Unloaded, OnlyRevokes, RInv
  <2> QED
    BY <2>4, <2>5 DEF RInv
<1>4. ASSUME NEW p \in Polls, Merge(p) PROVE RInv'
  <2> DEFINE S == poll[p].fresh
  <2>1. S \in SUBSET Msgs /\ poll[p].snap \in Snapshot /\ poll[p].snap.revoked \subseteq Sent
    BY <1>1 DEF Poll, IInv, CallsOK, CallOK
  <2>2. S \cap known = {} /\ tab # "loading"
    BY <1>4 DEF Merge, RInv, ReaderCall, Busy, Unloaded
  <2>3. Distinct(thread)' /\ (Shown \subseteq known)'
    BY <1>1, <1>2, <1>4, <2>1, <2>2 DEF Merge
  <2>4. poll'[p].pc = "idle" /\ tab' # "loading" /\ UNCHANGED act
    BY <1>1, <1>4, <2>2 DEF Merge, Goto, IdlePoll
  <2>5. \A q \in Polls : ReaderCall(q)'
    BY <2>4 DEF Reader, ReaderCall, Busy
  <2>6. Unloaded' /\ OnlyRevokes'
    BY <2>4 DEF Unloaded, OnlyRevokes, RInv
  <2> QED
    BY <2>3, <2>5, <2>6 DEF RInv
<1> QED
  BY <1>3, <1>4

(* The only request of such a tab is a revocation, which keeps the ids.        *)
LEMMA ReaderActs ==
  ASSUME IInv, RInv, Reader, NEW m \in Msgs, ActStep(m) \/ Elsewhere(m)
  PROVE  RInv'
<1>1. act \in [Msgs \X Kinds -> {"none", "asked", "done"}] /\ thread \in Seq(Entry)
  BY DEF IInv, TypeOK
<1>2. act[<<m, "send">>] = "none" /\ act[<<m, "delete">>] = "none"
  BY DEF RInv, OnlyRevokes
<1>3. ~(AskSend(m) \/ AskDelete(m) \/ PerformSend(m) \/ PerformDelete(m)
        \/ FinishSend(m) \/ FinishDelete(m))
  BY <1>2 DEF Reader, AskSend, AskDelete, PerformSend, PerformDelete, Perform,
              FinishSend, FinishDelete, Finish
<1>4. OnlyRevokes'
  <2>1. \/ act' = act
        \/ \E kind \in Kinds : act' = [act EXCEPT ![<<m, kind>>] = "none"]
        \/ \E d : act' = [act EXCEPT ![<<m, "revoke">>] = d]
    BY <1>3 DEF ActStep, AskRevoke, Ask, PerformRevoke, Perform, RequestFails, FinishRevoke,
                Finish, Elsewhere, Kinds
  <2>2. ASSUME NEW n \in Msgs, NEW k \in {"send", "delete"} PROVE act'[<<n, k>>] = "none"
    <3>1. act[<<n, k>>] = "none" /\ <<n, k>> \in Msgs \X Kinds /\ <<n, k>> # <<m, "revoke">>
      BY DEF RInv, OnlyRevokes, Kinds
    <3> QED
      BY <1>1, <2>1, <3>1
  <2> QED
    BY <2>2 DEF OnlyRevokes
<1>5. CASE FinishRevoke(m)
  <2>1. /\ UNCHANGED <<tab, poll, known>> /\ tab # "loading"
        /\ DOMAIN thread' = DOMAIN thread
        /\ \A i \in DOMAIN thread :
             \/ thread'[i] = thread[i]
             \/ thread'[i] = [thread[i] EXCEPT !.revoked = TRUE, !.raw = FALSE]
    BY <1>5 DEF FinishRevoke, Finish, Turn
  <2>2. ASSUME NEW i \in DOMAIN thread PROVE thread'[i].id = thread[i].id
    <3>1. thread[i] \in Entry
      BY <1>1
    <3>2. CASE thread'[i] = thread[i]
      BY <3>2
    <3>3. CASE thread'[i] = [thread[i] EXCEPT !.revoked = TRUE, !.raw = FALSE]
      BY <3>1, <3>3 DEF Entry
    <3> QED
      BY <2>1, <3>2, <3>3
  <2> QED
    BY <1>4, <2>1, <2>2, ReaderKeeps
<1>6. CASE \/ AskRevoke(m) \/ PerformRevoke(m) \/ Elsewhere(m)
           \/ \E kind \in Kinds : RequestFails(m, kind)
  <2>1. UNCHANGED <<tab, poll, known, thread>>
    BY <1>6 DEF AskRevoke, Ask, PerformRevoke, Perform, RequestFails, Elsewhere, view
  <2> QED
    BY <1>4, <2>1, ReaderKeeps
<1> QED
  BY <1>3, <1>5, <1>6 DEF ActStep

\* The second one holds of every execution of a tab that only reads.
LEMMA ReaderInvariant == Spec => [](Reader => RInv)
<1>1. Init => RInv
  <2> SUFFICES ASSUME Init PROVE RInv
    OBVIOUS
  <2>1. \A p \in Polls : poll[p].pc = "idle"
    BY DEF Init, IdlePoll
  <2> QED
    BY <2>1 DEF Init, RInv, Distinct, Shown, ReaderCall, Busy, Unloaded, OnlyRevokes, Kinds
<1>2. IInv /\ (Reader => RInv) /\ [Next]_vars => (Reader => RInv)'
  <2> SUFFICES ASSUME IInv, Reader, RInv, [Next]_vars PROVE RInv'
    BY SamePartner DEF Reader
  <2>1. CASE UNCHANGED vars
    BY <2>1, ReaderKeeps DEF vars, view, RInv, OnlyRevokes
  <2>2. ASSUME NEW p \in Polls, PollStep(p) PROVE RInv'
    BY <2>2, ReaderQuiet, ReaderReceives, ReaderPatches, ReaderAdds DEF PollStep
  <2>3. CASE LoadFails \/ TokenExpires
    <3>1. UNCHANGED <<view, act, poll>> /\ tab' \in {tab, "failed"}
      BY <2>3 DEF LoadFails, TokenExpires
    <3> QED
      BY <3>1 DEF view, RInv, Distinct, Shown, ReaderCall, Places, NextChanged, Unloaded,
                  OnlyRevokes
  <2> QED
    BY <2>1, <2>2, <2>3, ReaderAdds, ReaderActs DEF Next
<1> QED
  BY <1>1, <1>2, Invariant, PTL DEF Spec

(* A tab that reads and revokes, and whose polls do not overlap, shows no      *)
(* message twice, for any number of messages and any age of the answers.      *)
THEOREM EachIsShownOnce == Spec => []ShownOnce
<1>1. (Reader => RInv) => ShownOnce
  BY DEF Reader, RInv, Distinct, ShownOnce
<1> QED
  BY <1>1, ReaderInvariant, PTL

-----------------------------------------------------------------------------
(* What a poll of such a tab leaves                                          *)

\* A call knows of every id listed; an entry that comes from the server and is not
\* still to be patched is as listed.
AnswerCall(p) ==
  Busy(poll[p]) =>
    /\ known \cup poll[p].fresh = poll[p].snap.ids
    /\ \A i \in DOMAIN thread : thread[i].raw =>
         thread[i].id \in ChangedIds(poll[p]) \/ thread[i] = Row(poll[p].snap, thread[i].id)

AnswerInv == Shown = known /\ \A p \in Polls : AnswerCall(p)

(* A call that goes on with its answer, having passed over nothing shown.     *)
LEMMA AnswerGoesOn ==
  ASSUME IInv, AnswerInv, Reader, NEW p \in Polls, NEW c, Goto(p, c),
         UNCHANGED <<thread, known>>,
         Busy(c) => /\ Busy(poll[p]) /\ c.fresh = poll[p].fresh /\ c.snap = poll[p].snap
                    /\ \A m \in Shown : m \in ChangedIds(poll[p]) => m \in ChangedIds(c)
  PROVE  AnswerInv'
<1>1. poll'[p] = c /\ \A q \in Polls : q = p
  BY DEF Goto, IInv, TypeOK, Reader
<1>2. \A i \in DOMAIN thread : thread[i].id \in Shown
  BY DEF Shown
<1>3. AnswerCall(p)'
  <2> SUFFICES ASSUME Busy(c) PROVE AnswerCall(p)'
    BY <1>1 DEF AnswerCall
  <2>1. /\ known \cup poll[p].fresh = poll[p].snap.ids
        /\ \A i \in DOMAIN thread : thread[i].raw =>
             \/ thread[i].id \in ChangedIds(poll[p])
             \/ thread[i] = Row(poll[p].snap, thread[i].id)
    BY DEF AnswerInv, AnswerCall
  <2> QED
    BY <1>1, <1>2, <2>1 DEF AnswerCall
<1>4. Shown' = known'
  BY DEF AnswerInv, Shown
<1> QED
  BY <1>1, <1>3, <1>4 DEF AnswerInv

(* A poll waits, or passes over a message.                                    *)
LEMMA AnswerQuiet ==
  ASSUME IInv, AnswerInv, Reader, NEW p \in Polls,
         \/ StartPoll(p) \/ AnswerPoll(p) \/ PollFails(p) \/ Decrypted(p)
         \/ SkipMissing(p) \/ AwaitPatch(p)
  PROVE  AnswerInv'
<1>1. poll[p] \in Poll
  BY DEF IInv, TypeOK
<1>2. UNCHANGED <<known, thread>>
  BY DEF StartPoll, AnswerPoll, PollFails, Decrypted, SkipMissing, AwaitPatch, view
<1>3. CASE StartPoll(p)
  <2>1. [poll[p] EXCEPT !.pc = "asked"].pc = "asked"
    BY <1>1 DEF Poll
  <2> QED
    BY <1>2, <1>3, <2>1, AnswerGoesOn DEF StartPoll, Busy
<1>4. CASE AnswerPoll(p)
  <2>1. [poll[p] EXCEPT !.pc = "answered", !.snap = Listed].pc = "answered"
    BY <1>1 DEF Poll
  <2> QED
    BY <1>2, <1>4, <2>1, AnswerGoesOn DEF AnswerPoll, Busy
<1>5. CASE PollFails(p)
  BY <1>2, <1>5, AnswerGoesOn DEF PollFails, IdlePoll, Busy
<1>6. CASE Decrypted(p)
  <2> DEFINE c == [poll[p] EXCEPT !.pc = "patching"]
  <2>1. /\ c.fresh = poll[p].fresh /\ c.snap = poll[p].snap /\ c.changed = poll[p].changed
        /\ Busy(poll[p]) /\ Goto(p, c)
    BY <1>1, <1>6 DEF Poll, Decrypted, Busy
  <2> HIDE DEF c
  <2> QED
    BY <1>2, <2>1, AnswerGoesOn DEF ChangedIds
<1>7. CASE SkipMissing(p)
  <2>1. PICK way \in Ways : Patching(p, way) /\ Goto(p, Skip(p, way))
    BY <1>7 DEF SkipMissing
  <2> DEFINE c == Skip(p, way)
  <2>2. /\ c.fresh = poll[p].fresh /\ c.snap = poll[p].snap
        /\ c.changed = poll[p].changed \ {<<NextChanged(p), way>>}
        /\ Busy(poll[p]) /\ Goto(p, c) /\ NextChanged(p) \notin Shown
    BY <1>1, <1>7, <2>1 DEF Poll, Skip, SkipMissing, Patching, Busy
  <2> HIDE DEF c
  <2>3. \A m \in Shown : m \in ChangedIds(poll[p]) => m \in ChangedIds(c)
    <3> SUFFICES ASSUME NEW row \in poll[p].changed, row[1] \in Shown
                 PROVE  row \in c.changed
      BY DEF ChangedIds
    <3> QED
      BY <2>2
  <2> QED
    BY <1>2, <2>2, <2>3, AnswerGoesOn
<1>8. CASE AwaitPatch(p)
  <2> DEFINE c == [poll[p] EXCEPT !.pc = "awaiting", !.at = Place(NextChanged(p)),
                                  !.detached = FALSE]
  <2>1. /\ c.fresh = poll[p].fresh /\ c.snap = poll[p].snap /\ c.changed = poll[p].changed
        /\ Busy(poll[p]) /\ Goto(p, c)
    BY <1>1, <1>8 DEF Poll, AwaitPatch, Patching, Busy
  <2> HIDE DEF c
  <2> QED
    BY <1>2, <2>1, AnswerGoesOn DEF ChangedIds
<1> QED
  BY <1>3, <1>4, <1>5, <1>6, <1>7, <1>8

(* The answer is compared with every entry, and drops what it does not list.  *)
LEMMA AnswerTaken ==
  ASSUME IInv, RInv, AnswerInv, Reader, NEW p \in Polls, ReceivePoll(p)
  PROVE  AnswerInv'
<1> DEFINE snap == poll[p].snap
           cut  == Without({Place(m) : m \in DeletedIds(snap) \cap Shown})
           call == [poll[p] EXCEPT !.pc = AfterAnswer(snap), !.fresh = NewMsgs(snap),
                                   !.changed = ChangedRows(snap)]
<1>1. /\ thread \in Seq(Entry) /\ Distinct(thread) /\ Shown = known
      /\ poll[p] \in Poll /\ poll \in [Polls -> Poll]
  BY DEF IInv, RInv, TypeOK, AnswerInv
<1>2. known' = known \ DeletedIds(snap) /\ thread' = cut
  BY DEF ReceivePoll, Forget
<1>3. /\ Ids(cut) = Shown \ DeletedIds(snap)
      /\ OldEntries(cut)
  <2>1. Told(thread, revoked)
    BY ViewIs
  <2>2. Shown \ DeletedIds(snap) \subseteq Ids(cut)
    BY <2>1, WithoutIs
  <2>3. Ids(cut) \subseteq Shown \ DeletedIds(snap) /\ OldEntries(cut)
    BY <1>1, WithoutDistinct
  <2> HIDE DEF cut, snap
  <2> QED
    BY <2>2, <2>3
<1>4. Shown' = known'
  BY <1>1, <1>2, <1>3 DEF Ids, Shown
<1>5. known' \cup NewMsgs(snap) = snap.ids
  BY <1>2 DEF DeletedIds, NewMsgs
<1> DEFINE ids == {row[1] : row \in ChangedRows(snap)}
<1>a. ChangedMsgs(snap) \subseteq ids
  <2> SUFFICES ASSUME NEW m \in ChangedMsgs(snap) PROVE m \in ids
    OBVIOUS
  <2>1. m \in Msgs /\ snap \in Snapshot /\ snap.revoked \subseteq Sent
    BY DEF IInv, CallsOK, CallOK, ChangedMsgs, Snapshot, Poll
  <2>2. PICK way : way \in RowWays(snap, m)
    BY <2>1, RowsAre
  <2>3. <<m, way>> \in ChangedRows(snap)
    BY <2>2 DEF ChangedRows
  <2> QED
    BY <2>3
<1>6. ASSUME NEW k \in DOMAIN cut
      PROVE  cut[k].id \in ids \/ cut[k] = Row(snap, cut[k].id)
  <2>1. PICK i \in DOMAIN thread : cut[k] = thread[i]
    BY <1>3 DEF OldEntries
  <2> DEFINE m == thread[i].id
  <2>2. m \in Shown /\ m \in snap.ids /\ m \in known
    <3>1. m \in Ids(cut)
      BY <2>1 DEF Ids
    <3> QED
      BY <1>1, <1>3, <3>1 DEF DeletedIds
  <2>3. Place(m) = i
    <3>1. Place(m) \in DOMAIN thread /\ thread[Place(m)].id = m
      BY <1>1, <2>2, PlaceIs
    <3> QED
      BY <1>1, <3>1 DEF Distinct
  <2> QED
    BY <1>a, <2>1, <2>2, <2>3 DEF ChangedMsgs, Differs
<1>7. \/ poll'[p].pc = "idle"
      \/ /\ poll'[p].snap = snap /\ poll'[p].fresh = NewMsgs(snap)
         /\ poll'[p].changed = ChangedRows(snap)
  <2>1. CASE Goto(p, IdlePoll)
    BY <1>1, <2>1 DEF Goto, IdlePoll
  <2>2. CASE poll' = Detach(cut, [poll EXCEPT ![p] = call])
    <3> DEFINE P == [poll EXCEPT ![p] = call]
    <3>1. P[p] = call
      BY <1>1
    <3>2. poll'[p] = P[p] \/ \E d : poll'[p] = [P[p] EXCEPT !.detached = d]
      BY <2>2 DEF Detach
    <3>3. poll'[p] = call \/ \E d : poll'[p] = [call EXCEPT !.detached = d]
      BY <3>1, <3>2
    <3> HIDE DEF P
    <3>4. call.snap = snap /\ call.fresh = NewMsgs(snap) /\ call.changed = ChangedRows(snap)
      BY <1>1 DEF Poll
    <3>5. \A d : /\ [call EXCEPT !.detached = d].snap = call.snap
                 /\ [call EXCEPT !.detached = d].fresh = call.fresh
                 /\ [call EXCEPT !.detached = d].changed = call.changed
      BY <1>1 DEF Poll
    <3> QED
      BY <3>3, <3>4, <3>5
  <2> QED
    BY <2>1, <2>2 DEF ReceivePoll
<1>8. AnswerCall(p)'
  <2> HIDE DEF snap, cut
  <2> QED
    BY <1>2, <1>5, <1>6, <1>7 DEF AnswerCall, Busy, ChangedIds
<1>9. \A q \in Polls : AnswerCall(q)'
  BY <1>8 DEF Reader
<1> QED
  BY <1>4, <1>9 DEF AnswerInv

(* The entry of a message that changed becomes the row of the answer.         *)
LEMMA AnswerPatched ==
  ASSUME IInv, RInv, AnswerInv, Reader, NEW p \in Polls, NEW at \in Places(NextChanged(p)),
         Busy(poll[p]), NEW way \in Ways, Goto(p, Skip(p, way)), known' = known,
         DOMAIN thread' = DOMAIN thread,
         \A i \in DOMAIN thread :
           thread'[i] = IF i = at THEN Row(poll[p].snap, NextChanged(p)) ELSE thread[i]
  PROVE  AnswerInv'
<1> DEFINE m == NextChanged(p)
           snap == poll[p].snap
<1>1. poll[p] \in Poll /\ Distinct(thread) /\ at \in DOMAIN thread /\ thread[at].id = m
  BY DEF IInv, TypeOK, RInv, Places
<1>2. Row(snap, m).id = m
  BY DEF Row
<1>3. \A i \in DOMAIN thread : thread'[i].id = thread[i].id
  BY <1>1, <1>2
<1>4. Shown' = known'
  BY <1>3, SameIds DEF AnswerInv
<1> DEFINE c == Skip(p, way)
<1>5. /\ poll'[p] = c /\ c.fresh = poll[p].fresh /\ c.snap = snap
      /\ \A n \in ChangedIds(poll[p]) : n # m => n \in ChangedIds(c)
  <2>1. /\ poll'[p] = c /\ c.fresh = poll[p].fresh /\ c.snap = snap
        /\ c.changed = poll[p].changed \ {<<m, way>>}
    BY <1>1 DEF Goto, Skip, Poll, IInv, TypeOK
  <2> HIDE DEF c, m
  <2>2. ASSUME NEW row \in poll[p].changed, row[1] # m PROVE row \in c.changed
    BY <2>1, <2>2
  <2> QED
    BY <2>1, <2>2 DEF ChangedIds
<1> HIDE DEF c
<1>6. /\ known \cup poll[p].fresh = snap.ids
      /\ \A i \in DOMAIN thread : thread[i].raw =>
           thread[i].id \in ChangedIds(poll[p]) \/ thread[i] = Row(snap, thread[i].id)
  BY DEF AnswerInv, AnswerCall
<1> HIDE DEF m, snap
<1>7. ASSUME NEW i \in DOMAIN thread', thread'[i].raw
      PROVE  thread'[i].id \in ChangedIds(c) \/ thread'[i] = Row(snap, thread'[i].id)
  <2>1. CASE i = at
    BY <1>1, <1>2, <2>1 DEF m, snap
  <2>2. CASE i # at
    <3>1. i \in DOMAIN thread /\ thread'[i] = thread[i] /\ thread[i].id # m
      BY <1>1, <2>2 DEF Distinct
    <3> QED
      BY <1>5, <1>6, <1>7, <3>1
  <2> QED
    BY <2>1, <2>2
<1>8. AnswerCall(p)'
  BY <1>5, <1>6, <1>7 DEF AnswerCall
<1> QED
  BY <1>4, <1>8 DEF AnswerInv, Reader

(* A patch, written at once or after an await.                                *)
LEMMA AnswerPatches ==
  ASSUME IInv, RInv, AnswerInv, Reader, NEW p \in Polls, PatchSent(p) \/ WritePatch(p)
  PROVE  AnswerInv'
<1> DEFINE m == NextChanged(p)
<1>1. poll[p] \in Poll /\ thread \in Seq(Entry) /\ DOMAIN thread = 1..Len(thread)
      /\ Len(thread) \in Nat
  BY DEF IInv, TypeOK
<1>2. Busy(poll[p]) /\ known' = known
  BY DEF PatchSent, WritePatch, Patching, Busy
<1>3. CASE PatchSent(p)
  <2>1. /\ m \in Shown /\ Goto(p, Skip(p, "sent")) /\ "sent" \in Ways
        /\ thread' = [thread EXCEPT ![Place(m)] = Row(poll[p].snap, m)]
    BY <1>3 DEF PatchSent, Ways
  <2>2. Place(m) \in Places(m)
    BY <1>1, <2>1, PlaceIs DEF Places
  <2>3. /\ DOMAIN thread' = DOMAIN thread
        /\ \A i \in DOMAIN thread :
             thread'[i] = IF i = Place(m) THEN Row(poll[p].snap, m) ELSE thread[i]
    BY <2>1
  <2> QED
    BY <1>2, <2>1, <2>2, <2>3, AnswerPatched
<1>4. CASE WritePatch(p)
  <2> DEFINE at == poll[p].at
  <2>1. at \in Places(m) /\ at \in 1..Len(thread)
    BY <1>1, <1>4 DEF WritePatch, RInv, ReaderCall, Places
  <2>2. CASE poll[p].detached
    <3> DEFINE c == [poll[p] EXCEPT !.pc = "patching"]
    <3>1. Goto(p, c) /\ UNCHANGED thread
      BY <1>4, <2>2 DEF WritePatch
    <3>2. c.fresh = poll[p].fresh /\ c.snap = poll[p].snap /\ c.changed = poll[p].changed
      BY <1>1 DEF Poll
    <3> HIDE DEF c
    <3> QED
      BY <1>2, <3>1, <3>2, AnswerGoesOn DEF ChangedIds
  <2>3. CASE ~poll[p].detached
    <3>1. ~(at > Len(thread) + 1)
      BY <1>1, <2>1
    <3>2. /\ thread' = [i \in 1..Len(thread) \cup {at} |->
                          IF i = at THEN Row(poll[p].snap, m) ELSE thread[i]]
          /\ Goto(p, Skip(p, "received")) /\ "received" \in Ways
      BY <1>4, <2>3, <3>1 DEF WritePatch, Ways
    <3>3. /\ DOMAIN thread' = DOMAIN thread
          /\ \A i \in DOMAIN thread :
               thread'[i] = IF i = at THEN Row(poll[p].snap, m) ELSE thread[i]
      BY <1>1, <2>1, <3>2
    <3> HIDE DEF at
    <3> QED
      BY <1>2, <2>1, <3>2, <3>3, AnswerPatched
  <2> QED
    BY <2>2, <2>3
<1> QED
  BY <1>3, <1>4

(* Nothing but a merge ends a call that patches, and it leaves the answer.    *)
LEMMA AnswerMerged ==
  ASSUME IInv, RInv, AnswerInv, Reader, NEW p \in Polls, Merge(p)
  PROVE  /\ AnswerInv'
         /\ known' = poll[p].snap.ids /\ Shown' = poll[p].snap.ids
         /\ \A i \in DOMAIN thread' : thread'[i].raw => ~Differs(thread'[i], poll[p].snap)
<1> DEFINE S    == poll[p].fresh
           snap == poll[p].snap
<1>1. /\ thread' = Push(S, snap) /\ known' = known \cup S /\ Goto(p, IdlePoll)
      /\ poll[p].changed = {} /\ Busy(poll[p])
  BY DEF Merge, Busy
<1>2. /\ thread \in Seq(Entry) /\ Distinct(thread) /\ Shown = known /\ S \in SUBSET Msgs
      /\ S \cap Shown = {} /\ snap \in Snapshot /\ snap.revoked \subseteq revoked \cap Sent
      /\ poll \in [Polls -> Poll]
  BY <1>1 DEF IInv, RInv, TypeOK, AnswerInv, ReaderCall, CallsOK, CallOK, Poll
<1>3. /\ known \cup S = snap.ids
      /\ \A i \in DOMAIN thread : thread[i].raw => thread[i] = Row(snap, thread[i].id)
  BY <1>1 DEF AnswerInv, AnswerCall, ChangedIds
<1>4. /\ Ids(thread') = Shown \cup S
      /\ \A i \in DOMAIN thread' :
           \/ \E j \in DOMAIN thread : thread'[i] = thread[j]
           \/ \E m \in S : thread'[i] = Row(snap, m)
  <2>1. Ids(thread) = Shown
    BY DEF Ids, Shown
  <2>2. Ids(thread) \cup S \subseteq Ids(Push(S, snap))
    BY <1>2, ViewIs, PushIs
  <2>3. /\ Ids(Push(S, snap)) \subseteq Shown \cup S
        /\ \A i \in DOMAIN Push(S, snap) :
             \/ \E j \in DOMAIN thread : Push(S, snap)[i] = thread[j]
             \/ \E m \in S : Push(S, snap)[i] = Row(snap, m)
    BY <1>2, PushDistinct DEF Reader
  <2> HIDE DEF S, snap
  <2> QED
    BY <1>1, <2>1, <2>2, <2>3
<1>5. Shown' = snap.ids /\ known' = snap.ids
  BY <1>1, <1>2, <1>3, <1>4 DEF Ids, Shown
<1>6. \A m : Row(snap, m).id = m
  BY DEF Row
<1>7. \A i \in DOMAIN thread' : thread'[i].raw => thread'[i] = Row(snap, thread'[i].id)
  BY <1>3, <1>4, <1>6
<1>8. AnswerInv'
  <2>1. poll'[p].pc = "idle" /\ \A q \in Polls : q = p
    BY <1>1, <1>2 DEF Goto, IdlePoll, Reader
  <2> QED
    BY <1>5, <2>1 DEF AnswerInv, AnswerCall, Busy
<1> QED
  BY <1>5, <1>7, <1>8 DEF Differs

(* The load shows what is listed.                                             *)
LEMMA AnswerLoaded ==
  ASSUME IInv, RInv, Reader, Load
  PROVE  AnswerInv'
<1>1. thread = << >> /\ \A p \in Polls : poll[p].pc = "idle"
  BY DEF Load, RInv, Unloaded
<1>2. Shown = {} /\ Ids(thread) = {}
  BY <1>1 DEF Shown, Ids
<1>3. /\ thread \in Seq(Entry) /\ Distinct(thread) /\ Listing \in SUBSET Msgs
      /\ Listed \in Snapshot /\ Listed.revoked \subseteq revoked \cap Sent
  BY ListedIs DEF IInv, TypeOK, RInv
<1>4. Ids(Push(Listing, Listed)) = Listing
  <2>1. Listing \subseteq Ids(Push(Listing, Listed))
    BY <1>3, ViewIs, PushIs
  <2>2. Ids(Push(Listing, Listed)) \subseteq Shown \cup Listing
    BY <1>2, <1>3, PushDistinct DEF Reader
  <2> QED
    BY <1>2, <2>1, <2>2
<1>5. Shown' = known'
  BY <1>4 DEF Load, Ids, Shown
<1>6. \A p \in Polls : AnswerCall(p)'
  BY <1>1 DEF Load, AnswerCall, Busy
<1> QED
  BY <1>5, <1>6 DEF AnswerInv

(* A revocation marks an entry as changed here; nothing else moves the view.  *)
LEMMA AnswerActs ==
  ASSUME IInv, RInv, AnswerInv, Reader, NEW m \in Msgs, ActStep(m) \/ Elsewhere(m)
  PROVE  AnswerInv'
<1>1. act[<<m, "send">>] = "none" /\ act[<<m, "delete">>] = "none" /\ thread \in Seq(Entry)
  BY DEF RInv, OnlyRevokes, IInv, TypeOK
<1>2. ~(AskSend(m) \/ AskDelete(m) \/ PerformSend(m) \/ PerformDelete(m)
        \/ FinishSend(m) \/ FinishDelete(m))
  BY <1>1 DEF Reader, AskSend, AskDelete, PerformSend, PerformDelete, Perform,
              FinishSend, FinishDelete, Finish
<1>3. /\ UNCHANGED <<poll, known>> /\ DOMAIN thread' = DOMAIN thread
      /\ \A i \in DOMAIN thread :
           \/ thread'[i] = thread[i]
           \/ thread'[i] = [thread[i] EXCEPT !.revoked = TRUE, !.raw = FALSE]
  BY <1>2 DEF ActStep, AskRevoke, Ask, PerformRevoke, Perform, RequestFails, FinishRevoke, Elsewhere,
              view
<1>4. ASSUME NEW i \in DOMAIN thread
      PROVE  thread'[i].id = thread[i].id /\ (thread'[i].raw => thread'[i] = thread[i])
  <2>1. thread[i] \in Entry
    BY <1>1
  <2> QED
    BY <1>3, <2>1 DEF Entry
<1>5. Shown' = known'
  BY <1>3, <1>4, SameIds DEF AnswerInv
<1>6. ASSUME NEW p \in Polls PROVE AnswerCall(p)'
  <2>1. AnswerCall(p) /\ poll'[p] = poll[p] /\ known' = known
    BY <1>3 DEF AnswerInv
  <2>2. \A i \in DOMAIN thread' : thread'[i].raw =>
          i \in DOMAIN thread /\ thread[i].raw /\ thread'[i] = thread[i]
    BY <1>3, <1>4
  <2> QED
    BY <2>1, <2>2 DEF AnswerCall, Busy
<1> QED
  BY <1>5, <1>6 DEF AnswerInv

\* So does what a poll of such a tab has still to do.
LEMMA AnswerInvariant == Spec => [](Reader => AnswerInv)
<1>1. Init => AnswerInv
  BY DEF Init, AnswerInv, AnswerCall, Shown, Busy, IdlePoll
<1>2. IInv /\ (Reader => RInv) /\ (Reader => AnswerInv) /\ [Next]_vars => (Reader => AnswerInv)'
  <2> SUFFICES ASSUME IInv, Reader, RInv, AnswerInv, [Next]_vars PROVE AnswerInv'
    BY SamePartner DEF Reader
  <2>1. CASE UNCHANGED vars
    BY <2>1 DEF vars, view, AnswerInv, AnswerCall, Shown
  <2>2. ASSUME NEW p \in Polls, PollStep(p) PROVE AnswerInv'
    BY <2>2, AnswerQuiet, AnswerTaken, AnswerPatches, AnswerMerged DEF PollStep
  <2>3. CASE LoadFails \/ TokenExpires
    <3>1. UNCHANGED <<view, poll>>
      BY <2>3 DEF LoadFails, TokenExpires
    <3> QED
      BY <3>1 DEF view, AnswerInv, AnswerCall, Shown, Busy
  <2> QED
    BY <2>1, <2>2, <2>3, AnswerLoaded, AnswerActs DEF Next
<1> QED
  BY <1>1, <1>2, Invariant, ReaderInvariant, PTL DEF Spec

(* A poll of such a tab that ends leaves exactly what its answer listed, for   *)
(* any number of messages, whatever changed and was patched in between.       *)
THEOREM PollsShowTheirAnswer == Spec => PollShowsAnswer
<1>1. IInv /\ (Reader => RInv) /\ (Reader => AnswerInv) /\ [Next]_vars
        => [Reader => \A p \in Polls : poll[p].pc = "patching" /\ poll'[p].pc = "idle" =>
              /\ known' = poll[p].snap.ids /\ Shown' = poll[p].snap.ids
              /\ \A i \in DOMAIN thread' :
                   thread'[i].raw => ~Differs(thread'[i], poll[p].snap)]_vars
  <2> SUFFICES ASSUME IInv, RInv, AnswerInv, Reader, Next,
                      NEW p \in Polls, poll[p].pc = "patching", poll'[p].pc = "idle"
               PROVE  /\ known' = poll[p].snap.ids /\ Shown' = poll[p].snap.ids
                      /\ \A i \in DOMAIN thread' :
                           thread'[i].raw => ~Differs(thread'[i], poll[p].snap)
    OBVIOUS
  <2>1. poll[p] \in Poll /\ poll \in [Polls -> Poll] /\ \A q \in Polls : q = p
    BY DEF IInv, TypeOK, Reader
  <2>2. poll' # poll
    OBVIOUS
  <2>3. PollStep(p)
    <3>1. ~(Load \/ LoadFails \/ TokenExpires)
      BY <2>2 DEF Load, LoadFails, TokenExpires
    <3>2. ASSUME NEW m \in Msgs, ActStep(m) \/ Elsewhere(m) PROVE FALSE
      <4>1. ~FinishDelete(m)
        BY DEF RInv, OnlyRevokes, FinishDelete, Finish
      <4>2. poll' = poll
        BY <3>2, <4>1
           DEF ActStep, Elsewhere, AskSend, AskDelete, AskRevoke, Ask, PerformSend, PerformDelete,
               PerformRevoke, Perform, RequestFails, FinishSend, FinishRevoke
      <4> QED
        BY <2>2, <4>2
    <3> QED
      BY <2>1, <3>1, <3>2 DEF Next
  <2>4. ASSUME NEW c, Goto(p, c) PROVE c.pc = "idle"
    BY <2>1, <2>4 DEF Goto
  <2>5. ~(SkipMissing(p) \/ PatchSent(p) \/ AwaitPatch(p))
    <3>1. ASSUME NEW way, Goto(p, Skip(p, way)) PROVE FALSE
      <4>1. Skip(p, way).pc = "patching"
        BY <2>1 DEF Skip, Poll
      <4> QED
        BY <3>1, <4>1, <2>4, Zenon
    <3>2. ASSUME AwaitPatch(p) PROVE FALSE
      <4> DEFINE c == [poll[p] EXCEPT !.pc = "awaiting", !.at = Place(NextChanged(p)),
                                      !.detached = FALSE]
      <4>1. c.pc = "awaiting"
        BY <2>1 DEF Poll
      <4>2. Goto(p, c)
        BY <3>2 DEF AwaitPatch
      <4> HIDE DEF c
      <4> QED
        BY <4>1, <4>2, <2>4
    <3> QED
      BY <3>1, <3>2 DEF SkipMissing, PatchSent
  <2>6. Merge(p)
    BY <2>3, <2>5 DEF PollStep, StartPoll, AnswerPoll, PollFails, ReceivePoll, Decrypted, WritePatch
  <2> QED
    BY <2>6, AnswerMerged
<1> QED
  BY <1>1, Invariant, ReaderInvariant, AnswerInvariant, PTL DEF Spec, PollShowsAnswer, Reader
=============================================================================
