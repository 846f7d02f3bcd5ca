------------------------------ MODULE StoreProofs -----------------------------
(* Proofs about Store, for any names and ids and any number of messages.     *)
EXTENDS Store, Flattening

-----------------------------------------------------------------------------
(* peerKey                                                                   *)

\* What stands for one character, and for each of a name.
Code(c) == IF c = 37 THEN Percent ELSE IF c = 124 THEN Bar ELSE <<c>>
Codes(name) == [n \in DOMAIN name |-> Code(name[n])]

\* Everything but the delimiter.
Plain == Nat \ {124}

\* A code is never empty and never holds the delimiter.
LEMMA CodeIs ==
  ASSUME NEW c \in Nat
  PROVE  Code(c) \in Seq(Plain) /\ Len(Code(c)) \in Nat \ {0}
<1>1. CASE c = 37
  BY <1>1 DEF Code, Percent, Plain
<1>2. CASE c = 124
  BY <1>2 DEF Code, Bar, Plain
<1>3. CASE c # 37 /\ c # 124
  BY <1>3 DEF Code, Plain
<1> QED
  BY <1>1, <1>2, <1>3

(* No code is the beginning of another.                                      *)
LEMMA CodesDiffer ==
  ASSUME NEW c \in Nat, NEW d \in Nat, c # d
  PROVE  \E k \in 1..Len(Code(c)) : k \in 1..Len(Code(d)) /\ Code(c)[k] # Code(d)[k]
<1>1. CASE c = 37 /\ d = 124
  <2>1. Len(Percent) = 3 /\ Len(Bar) = 3 /\ Percent[2] = 50 /\ Bar[2] = 55
    BY DEF Percent, Bar
  <2> QED
    BY <1>1, <2>1 DEF Code
<1>2. CASE c = 124 /\ d = 37
  <2>1. Len(Percent) = 3 /\ Len(Bar) = 3 /\ Percent[2] = 50 /\ Bar[2] = 55
    BY DEF Percent, Bar
  <2> QED
    BY <1>2, <2>1 DEF Code
<1>3. CASE ~(c = 37 /\ d = 124) /\ ~(c = 124 /\ d = 37)
  <2>1. 1 \in 1..Len(Code(c)) /\ 1 \in 1..Len(Code(d))
    BY CodeIs
  <2>2. \A e \in Nat : Code(e)[1] = IF e = 124 THEN 37 ELSE e
    BY DEF Code, Percent, Bar
  <2>3. Code(c)[1] # Code(d)[1]
    BY <1>3, <2>2
  <2> QED
    BY <2>1, <2>3
<1> QED
  BY <1>1, <1>2, <1>3

\* A name is escaped code by code.
LEMMA EscapeIs ==
  ASSUME NEW x \in Seq(Nat)
  PROVE  /\ Codes(x) \in Seq(Seq(Plain)) /\ Len(Codes(x)) = Len(x)
         /\ \A n \in 1..Len(x) : Codes(x)[n] = Code(x[n])
         /\ Escape(x) = FlattenSeq(Codes(x)) /\ Escape(x) \in Seq(Plain)
<1>1. Len(x) \in Nat /\ DOMAIN x = 1..Len(x) /\ \A n \in 1..Len(x) : x[n] \in Nat
  BY LenProperties
<1>2. /\ Codes(x) = [n \in 1..Len(x) |-> Code(x[n])]
      /\ \A n \in 1..Len(x) : Code(x[n]) \in Seq(Plain)
  BY <1>1, CodeIs DEF Codes
<1>3. /\ Codes(x) \in Seq(Seq(Plain)) /\ Len(Codes(x)) = Len(x)
      /\ \A n \in 1..Len(x) : Codes(x)[n] = Code(x[n])
  BY <1>1, <1>2
<1>4. Escape(x) = FlattenSeq(Codes(x))
  BY DEF Escape, Codes, Code
<1> QED
  BY <1>3, <1>4, FlattenPieces

(* The code of a character follows those before.                             *)
LEMMA CodePlace ==
  ASSUME NEW x \in Seq(Nat), NEW n \in Nat, n + 1 <= Len(x)
  PROVE  /\ Start(Codes(x), n + 1) = Start(Codes(x), n) + Len(Code(x[n + 1]))
         /\ \A k \in 1..Len(Code(x[n + 1])) :
              Escape(x)[Start(Codes(x), n) + k] = Code(x[n + 1])[k]
<1> DEFINE s == Codes(x)
           m == n + 1
<1>1. s \in Seq(Seq(Plain)) /\ Len(s) = Len(x) /\ Escape(x) = FlattenSeq(s)
  BY EscapeIs
<1>2. m \in 1..Len(x) /\ m - 1 = n
  BY LenProperties
<1>3. s[m] = Code(x[m])
  BY <1>2, EscapeIs
<1>4. /\ Start(s, m) = Start(s, m - 1) + Len(s[m])
      /\ \A k \in 1..Len(s[m]) : FlattenSeq(s)[Start(s, m - 1) + k] = s[m][k]
  <2> HIDE DEF s, m
  <2> QED
    BY <1>1, <1>2, FlattenPieces
<1> HIDE DEF s, m
<1>5. /\ Start(s, m) = Start(s, n) + Len(Code(x[m]))
      /\ \A k \in 1..Len(Code(x[m])) : Escape(x)[Start(s, n) + k] = Code(x[m])[k]
  BY <1>1, <1>2, <1>3, <1>4
<1> QED
  BY <1>5 DEF s, m

(* Two names with one escaped form agree as far as both go, and so do the    *)
(* places where their codes begin.                                           *)
LEMMA EscapeAgrees ==
  ASSUME NEW x \in Seq(Nat), NEW y \in Seq(Nat), Escape(x) = Escape(y)
  PROVE  \A n \in Nat : n <= Len(x) /\ n <= Len(y) =>
           /\ Start(Codes(x), n) = Start(Codes(y), n)
           /\ \A i \in 1..n : x[i] = y[i]
<1> DEFINE S == {n \in Nat : n <= Len(x) /\ n <= Len(y) =>
                   /\ Start(Codes(x), n) = Start(Codes(y), n)
                   /\ \A i \in 1..n : x[i] = y[i]}
<1>1. /\ Len(x) \in Nat /\ Len(y) \in Nat
      /\ \A i \in 1..Len(x) : x[i] \in Nat
      /\ \A i \in 1..Len(y) : y[i] \in Nat
  BY LenProperties
<1>2. 0 \in S
  BY EscapeIs, FlattenPieces
<1>3. ASSUME NEW n \in Nat, n \in S PROVE n + 1 \in S
  <2> SUFFICES ASSUME n + 1 <= Len(x), n + 1 <= Len(y)
               PROVE  /\ Start(Codes(x), n + 1) = Start(Codes(y), n + 1)
                      /\ \A i \in 1..(n + 1) : x[i] = y[i]
    OBVIOUS
  <2>1. n + 1 \in 1..Len(x) /\ n + 1 \in 1..Len(y) /\ (n + 1) - 1 = n
    BY <1>1
  <2>2. Start(Codes(x), n) = Start(Codes(y), n) /\ \A i \in 1..n : x[i] = y[i]
    BY <1>1, <1>3
  <2> DEFINE c == x[n + 1]
             d == y[n + 1]
             w == Escape(x)
             at == Start(Codes(x), n)
  <2>3. c \in Nat /\ d \in Nat
    BY <1>1, <2>1
  <2>4. /\ Start(Codes(x), n + 1) = at + Len(Code(c))
        /\ \A k \in 1..Len(Code(c)) : w[at + k] = Code(c)[k]
    BY CodePlace
  <2>5. /\ Start(Codes(y), n + 1) = at + Len(Code(d))
        /\ \A k \in 1..Len(Code(d)) : w[at + k] = Code(d)[k]
    <3>1. /\ Start(Codes(y), n + 1) = Start(Codes(y), n) + Len(Code(d))
          /\ \A k \in 1..Len(Code(d)) : Escape(y)[Start(Codes(y), n) + k] = Code(d)[k]
      BY CodePlace
    <3> QED
      BY <2>2, <3>1
  <2>6. c = d
    <3> HIDE DEF c, d, w, at
    <3> QED
      BY <2>3, <2>4, <2>5, CodesDiffer
  <2> QED
    BY <2>2, <2>4, <2>5, <2>6
<1>4. \A n \in Nat : n \in S
  <2> HIDE DEF S
  <2> QED
    BY <1>2, <1>3, EveryNatural
<1> QED
  BY <1>4

(* Nor can either go on.                                                     *)
LEMMA EscapeNoLonger ==
  ASSUME NEW x \in Seq(Nat), NEW y \in Seq(Nat), Escape(x) = Escape(y), Len(x) < Len(y)
  PROVE  FALSE
<1> DEFINE n == Len(x)
<1>1. n \in Nat /\ Len(y) \in Nat /\ n + 1 \in 1..Len(y) /\ (n + 1) - 1 = n /\ n <= Len(y)
  BY LenProperties
<1>2. y[n + 1] \in Nat
  BY <1>1, LenProperties
<1>3. Start(Codes(x), n) = Start(Codes(y), n)
  BY <1>1, EscapeAgrees
<1>4. Start(Codes(x), n) = Len(Escape(x))
  BY EscapeIs, FlattenPieces
<1>5. Start(Codes(y), n + 1) = Start(Codes(y), n) + Len(Code(y[n + 1]))
  BY <1>1, CodePlace
<1>6. Start(Codes(y), n + 1) \in 0..Len(Escape(y)) /\ Len(Escape(y)) \in Nat
  BY <1>1, EscapeIs, FlattenPieces
<1>7. Len(Code(y[n + 1])) \in Nat \ {0}
  BY <1>2, CodeIs
<1> QED
  BY <1>3, <1>4, <1>5, <1>6, <1>7

(* Different names have different escaped forms.                             *)
THEOREM EscapeIsInjective ==
  ASSUME NEW x \in Seq(Nat), NEW y \in Seq(Nat), Escape(x) = Escape(y)
  PROVE  x = y
<1>1. Len(x) \in Nat /\ Len(y) \in Nat
  BY LenProperties
<1>2. Len(x) = Len(y)
  BY <1>1, EscapeNoLonger
<1>3. \A i \in 1..Len(x) : x[i] = y[i]
  BY <1>1, <1>2, EscapeAgrees
<1> QED
  BY <1>2, <1>3, SeqEqual

(* operator< puts two strings in one order.                                  *)
LEMMA LessIs ==
  ASSUME NEW a \in Seq(Nat), NEW b \in Seq(Nat)
  PROVE  Less(a, b) <=>
           \/ Len(a) < Len(b) /\ \A k \in 1..Len(a) : a[k] = b[k]
           \/ \E n \in 1..Len(a) :
                n <= Len(b) /\ a[n] < b[n] /\ \A k \in 1..(n - 1) : a[k] = b[k]
<1>1. /\ Len(a) \in Nat /\ Len(b) \in Nat /\ DOMAIN a = 1..Len(a) /\ DOMAIN b = 1..Len(b)
      /\ \A k \in 1..Len(a) : a[k] \in Nat
      /\ \A k \in 1..Len(b) : b[k] \in Nat
  BY LenProperties
<1>2. ASSUME NEW n \in Nat, n <= Len(a), n <= Len(b)
      PROVE  SubSeq(a, 1, n) = SubSeq(b, 1, n) <=> \A k \in 1..n : a[k] = b[k]
  <2> DEFINE p == SubSeq(a, 1, n)
             q == SubSeq(b, 1, n)
  <2>1. /\ p \in Seq(Nat) /\ Len(p) = n /\ \A k \in 1..n : p[k] = a[k]
    <3>1. \A k \in 1..n : a[k] \in Nat
      BY <1>1, <1>2
    <3> QED
      BY <3>1, SubSeqProperties
  <2>2. /\ q \in Seq(Nat) /\ Len(q) = n /\ \A k \in 1..n : q[k] = b[k]
    <3>1. \A k \in 1..n : b[k] \in Nat
      BY <1>1, <1>2
    <3> QED
      BY <3>1, SubSeqProperties
  <2> HIDE DEF p, q
  <2>3. p = q <=> \A k \in 1..n : p[k] = q[k]
    BY <2>1, <2>2, SeqEqual
  <2> QED
    BY <2>1, <2>2, <2>3 DEF p, q
<1>3. IsStrictPrefix(a, b) <=> Len(a) < Len(b) /\ \A k \in 1..Len(a) : a[k] = b[k]
  <2>1. IsStrictPrefix(a, b) <=>
          Len(a) <= Len(b) /\ (\A k \in 1..Len(a) : a[k] = b[k]) /\ a # b
    <3>1. Len(a) <= Len(b) =>
            (SubSeq(a, 1, Len(a)) = SubSeq(b, 1, Len(a)) <=> \A k \in 1..Len(a) : a[k] = b[k])
      BY <1>1, <1>2
    <3> QED
      BY <3>1 DEF IsStrictPrefix, IsPrefix
  <2>2. Len(a) = Len(b) /\ (\A k \in 1..Len(a) : a[k] = b[k]) => a = b
    BY SeqEqual
  <2>3. Len(a) < Len(b) => Len(a) <= Len(b) /\ a # b
    BY <1>1
  <2>4. Len(a) <= Len(b) => Len(a) < Len(b) \/ Len(a) = Len(b)
    <3>1. Len(a) \in Nat /\ Len(b) \in Nat
      BY <1>1
    <3>2. \A i, j \in Nat : i <= j => i < j \/ i = j
      OBVIOUS
    <3> QED
      BY <3>1, <3>2, Zenon
  <2> QED
    BY <2>1, <2>2, <2>3, <2>4
<1>4. ASSUME NEW n \in 1..Len(a), n <= Len(b)
      PROVE  SubSeq(a, 1, n - 1) = SubSeq(b, 1, n - 1) <=> \A k \in 1..(n - 1) : a[k] = b[k]
  BY <1>1, <1>2, <1>4
<1>5. ASSUME NEW n
      PROVE  n \in DOMAIN a \cap DOMAIN b <=> n \in 1..Len(a) /\ n <= Len(b)
  BY <1>1
<1>6. (\E n \in DOMAIN a \cap DOMAIN b :
         a[n] < b[n] /\ SubSeq(a, 1, n - 1) = SubSeq(b, 1, n - 1))
      <=> \E n \in 1..Len(a) :
            n <= Len(b) /\ a[n] < b[n] /\ \A k \in 1..(n - 1) : a[k] = b[k]
  BY <1>4, <1>5
<1> QED
  BY <1>3, <1>6 DEF Less

\* No two names are each less than the other.
LEMMA LessIsAsymmetric ==
  ASSUME NEW a \in Seq(Nat), NEW b \in Seq(Nat), Less(a, b), Less(b, a)
  PROVE  FALSE
<1>1. /\ Len(a) \in Nat /\ Len(b) \in Nat
      /\ \A k \in 1..Len(a) : a[k] \in Nat
      /\ \A k \in 1..Len(b) : b[k] \in Nat
  BY LenProperties
<1>2. CASE Len(a) < Len(b) /\ \A k \in 1..Len(a) : a[k] = b[k]
  BY <1>1, <1>2, LessIs
<1>3. CASE \E n \in 1..Len(a) :
             n <= Len(b) /\ a[n] < b[n] /\ \A k \in 1..(n - 1) : a[k] = b[k]
  <2>1. PICK n \in 1..Len(a) : n <= Len(b) /\ a[n] < b[n] /\ \A k \in 1..(n - 1) : a[k] = b[k]
    BY <1>3
  <2>2. CASE Len(b) < Len(a) /\ \A k \in 1..Len(b) : b[k] = a[k]
    BY <1>1, <2>1, <2>2
  <2>3. CASE \E m \in 1..Len(b) :
               m <= Len(a) /\ b[m] < a[m] /\ \A k \in 1..(m - 1) : b[k] = a[k]
    <3>1. PICK m \in 1..Len(b) : m <= Len(a) /\ b[m] < a[m] /\ \A k \in 1..(m - 1) : b[k] = a[k]
      BY <2>3
    <3>2. m \in 1..(n - 1) \/ n \in 1..(m - 1) \/ m = n
      BY <1>1, <2>1, <3>1
    <3>3. a[m] \in Nat /\ b[m] \in Nat /\ a[n] \in Nat /\ b[n] \in Nat
      BY <1>1, <2>1, <3>1
    <3> QED
      BY <2>1, <3>1, <3>2, <3>3
  <2> QED
    BY <2>2, <2>3, LessIs
<1> QED
  BY <1>2, <1>3, LessIs

\* Of two different names one is less.
LEMMA LessIsTotal ==
  ASSUME NEW a \in Seq(Nat), NEW b \in Seq(Nat), a # b
  PROVE  Less(a, b) \/ Less(b, a)
<1>1. /\ Len(a) \in Nat /\ Len(b) \in Nat
      /\ \A k \in 1..Len(a) : a[k] \in Nat
      /\ \A k \in 1..Len(b) : b[k] \in Nat
  BY LenProperties
<1> DEFINE D == {k \in Nat : k \in 1..Len(a) /\ k <= Len(b) /\ a[k] # b[k]}
<1>2. D \in SUBSET Nat /\ \A k \in Nat : k \in D <=> k \in 1..Len(a) /\ k <= Len(b) /\ a[k] # b[k]
  OBVIOUS
<1> HIDE DEF D
<1>3. CASE D = {}
  <2>1. ASSUME NEW k \in 1..Len(a), k <= Len(b) PROVE a[k] = b[k]
    <3>1. k \in Nat
      BY <1>1
    <3> QED
      BY <1>3, <1>2, <2>1, <3>1
  <2>2. Len(a) # Len(b)
    BY <1>1, <2>1, SeqEqual
  <2>3. CASE Len(a) < Len(b)
    BY <1>1, <2>1, <2>3, LessIs
  <2>4. CASE Len(b) < Len(a)
    <3>1. \A k \in 1..Len(b) : b[k] = a[k]
      BY <1>1, <2>1, <2>4
    <3> QED
      BY <2>4, <3>1, LessIs
  <2> QED
    BY <1>1, <2>2, <2>3, <2>4
<1>4. CASE D # {}
  <2>1. PICK n \in D : \A k \in D : n <= k
    BY <1>4, <1>2, LeastNatural
  <2>2. /\ n \in 1..Len(a) /\ n \in 1..Len(b) /\ n <= Len(a) /\ n <= Len(b)
        /\ a[n] \in Nat /\ b[n] \in Nat /\ a[n] # b[n]
    <3>1. n \in Nat /\ n \in 1..Len(a) /\ n <= Len(b) /\ a[n] # b[n]
      BY <1>2
    <3> QED
      BY <1>1, <3>1
  <2>3. ASSUME NEW k \in 1..(n - 1) PROVE a[k] = b[k] /\ b[k] = a[k]
    <3>1. k \in Nat /\ k < n /\ k \in 1..Len(a) /\ k <= Len(b)
      BY <1>1, <2>2
    <3>2. k \notin D
      BY <1>2, <2>1, <2>2, <3>1
    <3> QED
      BY <1>2, <3>1, <3>2
  <2>4. a[n] < b[n] \/ b[n] < a[n]
    BY <2>2
  <2> QED
    BY <2>2, <2>3, <2>4, LessIs
<1> QED
  BY <1>3, <1>4

\* Two names with the delimiter between them.
Joined(a, b) == a \o <<124>> \o b

(* What stands before the first delimiter and after it can be told.          *)
LEMMA JoinsAgree ==
  ASSUME NEW a \in Seq(Plain), NEW b \in Seq(Plain), NEW c \in Seq(Plain), NEW d \in Seq(Plain),
         Joined(a, b) = Joined(c, d), Len(a) <= Len(c)
  PROVE  a = c /\ b = d
<1> DEFINE l == Joined(a, b)
           r == Joined(c, d)
<1>1. /\ a \in Seq(Nat) /\ b \in Seq(Nat) /\ c \in Seq(Nat) /\ d \in Seq(Nat)
      /\ <<124>> \in Seq(Nat) /\ Len(a) \in Nat /\ Len(c) \in Nat /\ Len(b) \in Nat /\ Len(d) \in Nat
  BY SeqMonotonic, LenProperties DEF Plain
<1>2. /\ Len(l) = Len(a) + 1 + Len(b) /\ \A k \in 1..Len(a) : l[k] = a[k]
      /\ l[Len(a) + 1] = 124 /\ \A k \in 1..Len(b) : l[Len(a) + 1 + k] = b[k]
  BY <1>1 DEF Joined
<1>3. /\ Len(r) = Len(c) + 1 + Len(d) /\ \A k \in 1..Len(c) : r[k] = c[k]
      /\ r[Len(c) + 1] = 124 /\ \A k \in 1..Len(d) : r[Len(c) + 1 + k] = d[k]
  BY <1>1 DEF Joined
<1>4. Len(a) = Len(c)
  <2> SUFFICES ASSUME Len(a) < Len(c) PROVE FALSE
    BY <1>1
  <2>1. Len(a) + 1 \in 1..Len(c)
    BY <1>1
  <2>2. c[Len(a) + 1] \in Plain
    BY <2>1, ElementOfSeq
  <2> QED
    BY <1>2, <1>3, <2>1, <2>2 DEF Plain
<1>5. l = r
  OBVIOUS
<1> HIDE DEF l, r
<1>6. a = c
  BY <1>1, <1>2, <1>3, <1>4, <1>5, SeqEqual
<1>7. b = d
  <2>1. Len(b) = Len(d)
    BY <1>1, <1>2, <1>3, <1>4, <1>5
  <2> QED
    BY <1>1, <1>2, <1>3, <1>4, <1>5, <2>1, SeqEqual
<1> QED
  BY <1>6, <1>7

(* "IDs containing '|' or '%' cannot collide with the delimiter", and "both  *)
(* directions of the same conversation land in the same bucket"              *)
(* (MessageStore.hpp:49, :16): a key stands for one pair of names.           *)
THEOREM KeyIsThePair ==
  ASSUME NEW u \in Seq(Nat), NEW v \in Seq(Nat), NEW x \in Seq(Nat), NEW y \in Seq(Nat)
  PROVE  PeerKey(u, v) = PeerKey(x, y) <=> (u = x /\ v = y) \/ (u = y /\ v = x)
<1> DEFINE Join(s, t) == Joined(Escape(s), Escape(t))
<1>1. ASSUME NEW s \in Seq(Nat)
      PROVE  Escape(s) \in Seq(Plain) /\ Escape(s) \in Seq(Nat) /\ Len(Escape(s)) \in Nat
  BY EscapeIs, SeqMonotonic, LenProperties DEF Plain
<1>2. ASSUME NEW s \in Seq(Nat), NEW t \in Seq(Nat)
      PROVE  /\ PeerKey(s, t) = PeerKey(t, s)
             /\ PeerKey(s, t) = Join(s, t) \/ PeerKey(s, t) = Join(t, s)
  <2>1. CASE Escape(s) = Escape(t)
    BY <2>1 DEF PeerKey, Joined
  <2>2. CASE Escape(s) # Escape(t)
    <3>1. Less(Escape(s), Escape(t)) <=> ~Less(Escape(t), Escape(s))
      BY <1>1, <2>2, LessIsTotal, LessIsAsymmetric
    <3> QED
      BY <3>1 DEF PeerKey, Joined
  <2> QED
    BY <2>1, <2>2
<1>3. ASSUME NEW s \in Seq(Nat), NEW t \in Seq(Nat), NEW p \in Seq(Nat), NEW q \in Seq(Nat),
             Join(s, t) = Join(p, q)
      PROVE  s = p /\ t = q
  <2>1. Len(Escape(s)) <= Len(Escape(p)) \/ Len(Escape(p)) <= Len(Escape(s))
    BY <1>1
  <2>2. Escape(s) = Escape(p) /\ Escape(t) = Escape(q)
    BY <1>1, <1>3, <2>1, JoinsAgree
  <2> QED
    BY <2>2, EscapeIsInjective
<1> HIDE DEF Join
<1>4. ASSUME PeerKey(u, v) = PeerKey(x, y) PROVE (u = x /\ v = y) \/ (u = y /\ v = x)
  <2>1. \/ Join(u, v) = Join(x, y) \/ Join(u, v) = Join(y, x)
        \/ Join(v, u) = Join(x, y) \/ Join(v, u) = Join(y, x)
    BY <1>2, <1>4
  <2> QED
    BY <1>3, <2>1
<1>5. ASSUME (u = x /\ v = y) \/ (u = y /\ v = x) PROVE PeerKey(u, v) = PeerKey(x, y)
  BY <1>2, <1>5
<1> QED
  BY <1>4, <1>5

-----------------------------------------------------------------------------
(* The invariant                                                             *)

IInv == TypeOK /\ SeenAgrees /\ IsFiniteSet(seen) /\ IndexAgrees

(* The store takes a message in its own bucket and leaves the others alone;  *)
(* an addition that fails leaves an empty bucket at most.                    *)
LEMMA StoreTypes ==
  ASSUME TypeOK, NEW m \in Message, AddToStore(m) \/ StoreFails(m)
  PROVE  /\ messages' \in Seq(Message) /\ added' \in Seq(Message)
         /\ \A k \in DOMAIN byPeer' : byPeer'[k] \in Seq(Message)
<1> DEFINE key == PeerKey(m.from, m.to)
           w   == WithBucket(key)
<1>1. messages' \in Seq(Message) /\ added' \in Seq(Message)
  <2>1. messages' \in {messages, Append(messages, m)} /\ added' \in {added, Append(added, m)}
    BY DEF AddToStore, StoreFails
  <2>2. messages \in Seq(Message) /\ added \in Seq(Message)
    BY DEF TypeOK
  <2>3. Append(messages, m) \in Seq(Message) /\ Append(added, m) \in Seq(Message)
    BY <2>2
  <2>4. messages' \in Seq(Message)
    BY <2>1, <2>2, <2>3, Zenon
  <2>5. added' \in Seq(Message)
    BY <2>1, <2>2, <2>3, Zenon
  <2> QED
    BY <2>4, <2>5
<1>2. DOMAIN w = DOMAIN byPeer \cup {key} /\ \A k \in DOMAIN w : w[k] \in Seq(Message)
  BY DEF WithBucket, TypeOK, GetMessagesFor
<1>3. byPeer' \in {byPeer, w, [w EXCEPT ![key] = Append(@, m)]}
  BY DEF AddToStore, StoreFails
<1> HIDE DEF key, w
<1>4. Append(w[key], m) \in Seq(Message)
  BY <1>2
<1>5. ASSUME NEW k \in DOMAIN byPeer' PROVE byPeer'[k] \in Seq(Message)
  BY <1>2, <1>3, <1>4, <1>5 DEF TypeOK
<1> QED
  BY <1>1, <1>5

(* No message is between any two.                                            *)
LEMMA BetweenNone ==
  ASSUME NEW u, NEW v
  PROVE  Between(<< >>, u, v) = << >>
<1>1. [n \in DOMAIN << >> |->
         IF {<< >>[n].from, << >>[n].to} = {u, v} THEN <<<< >>[n]>> ELSE << >>] = << >>
  OBVIOUS
<1> QED
  BY <1>1, FlattenEmpty DEF Between

(* A message that comes last is last between its users.                      *)
LEMMA BetweenAppend ==
  ASSUME NEW l \in Seq(Message), NEW m \in Message, NEW u, NEW v
  PROVE  /\ Between(l, u, v) \in Seq(Message)
         /\ Between(Append(l, m), u, v) =
              IF (u = m.from /\ v = m.to) \/ (u = m.to /\ v = m.from)
                THEN Append(Between(l, u, v), m) ELSE Between(l, u, v)
<1> DEFINE piece(x) == IF {x.from, x.to} = {u, v} THEN <<x>> ELSE << >>
           p == [n \in DOMAIN l |-> piece(l[n])]
           t == Append(l, m)
           q == [n \in DOMAIN t |-> piece(t[n])]
<1>1. /\ DOMAIN l = 1..Len(l) /\ Len(l) \in Nat /\ \A n \in 1..Len(l) : l[n] \in Message
      /\ DOMAIN t = 1..(Len(l) + 1) /\ t[Len(l) + 1] = m
      /\ \A n \in 1..Len(l) : t[n] = l[n]
  OBVIOUS
<1>2. \A x \in Message : piece(x) \in Seq(Message)
  OBVIOUS
<1>3. Between(l, u, v) = FlattenSeq(p) /\ Between(t, u, v) = FlattenSeq(q)
  BY DEF Between
<1> HIDE DEF piece, t
<1>4. /\ p \in Seq(Seq(Message)) /\ Len(p) = Len(l)
      /\ \A n \in 1..Len(l) : p[n] = piece(l[n])
  BY <1>1, <1>2
<1>5. /\ DOMAIN q = 1..(Len(l) + 1) /\ q[Len(l) + 1] = piece(m)
      /\ \A n \in 1..Len(l) : q[n] = piece(l[n])
      /\ q = [n \in 1..(Len(l) + 1) |-> q[n]]
  BY <1>1
<1> HIDE DEF p, q
<1>6. q = Append(p, piece(m))
  <2> DEFINE a == Append(p, piece(m))
  <2>1. /\ a \in Seq(Seq(Message)) /\ Len(a) = Len(l) + 1 /\ a[Len(l) + 1] = piece(m)
        /\ \A n \in 1..Len(l) : a[n] = piece(l[n])
    BY <1>2, <1>4, AppendProperties
  <2>2. a = [n \in 1..(Len(l) + 1) |-> a[n]]
    BY <2>1, LenProperties
  <2> HIDE DEF a
  <2>3. ASSUME NEW n \in 1..(Len(l) + 1) PROVE q[n] = a[n]
    <3>1. n \in 1..Len(l) \/ n = Len(l) + 1
      BY <1>1
    <3> QED
      BY <1>5, <2>1, <3>1
  <2>4. q = a
    BY <1>5, <2>2, <2>3
  <2> QED
    BY <2>4 DEF a
<1>7. /\ FlattenSeq(p) \in Seq(Message)
      /\ FlattenSeq(q) = FlattenSeq(p) \o piece(m)
  BY <1>2, <1>4, <1>6, FlattenAppend
<1>8. CASE {m.from, m.to} = {u, v}
  <2>1. piece(m) = <<m>>
    BY <1>8 DEF piece
  <2>2. FlattenSeq(p) \o <<m>> = Append(FlattenSeq(p), m)
    BY <1>7, AppendIsConcat
  <2> QED
    BY <1>3, <1>7, <1>8, <2>1, <2>2 DEF t
<1>9. CASE {m.from, m.to} # {u, v}
  <2>1. piece(m) = << >>
    BY <1>9 DEF piece
  <2>2. FlattenSeq(p) \o << >> = FlattenSeq(p)
    BY <1>7
  <2> QED
    BY <1>3, <1>7, <1>9, <2>1, <2>2 DEF t
<1> QED
  BY <1>8, <1>9

(* The bucket that takes the message is the one of its pair of users.         *)
LEMMA StoreIndexes ==
  ASSUME TypeOK, IndexAgrees, NEW m \in Message, AddToStore(m)
  PROVE  IndexAgrees'
<1> DEFINE key == PeerKey(m.from, m.to)
           w   == WithBucket(key)
<1>1. /\ added \in Seq(Message) /\ added' = Append(added, m)
      /\ m.from \in Names /\ m.to \in Names
  BY DEF TypeOK, AddToStore, Message
<1>2. byPeer' = [w EXCEPT ![key] = Append(@, m)]
  BY DEF AddToStore
<1> SUFFICES ASSUME NEW u \in Names, NEW v \in Names
             PROVE  GetMessagesFor(PeerKey(u, v))' = Between(added', u, v)
  BY DEF IndexAgrees
<1>3. GetMessagesFor(PeerKey(u, v)) = Between(added, u, v)
  BY DEF IndexAgrees
<1>4. Between(added', u, v) =
        IF (u = m.from /\ v = m.to) \/ (u = m.to /\ v = m.from)
          THEN Append(Between(added, u, v), m) ELSE Between(added, u, v)
  BY <1>1, BetweenAppend
<1>5. PeerKey(u, v) = key <=> (u = m.from /\ v = m.to) \/ (u = m.to /\ v = m.from)
  <2>1. u \in Seq(Nat) /\ v \in Seq(Nat) /\ m.from \in Seq(Nat) /\ m.to \in Seq(Nat)
    BY <1>1, NamesAssumption
  <2> QED
    BY <2>1, KeyIsThePair
<1> HIDE DEF key
<1>a. w = [k \in DOMAIN byPeer \cup {key} |-> GetMessagesFor(k)]
  BY DEF WithBucket
<1> HIDE DEF w
<1>6. GetMessagesFor(PeerKey(u, v))' =
        IF PeerKey(u, v) = key THEN Append(GetMessagesFor(PeerKey(u, v)), m)
        ELSE GetMessagesFor(PeerKey(u, v))
  BY <1>2, <1>a DEF GetMessagesFor
<1> QED
  BY <1>3, <1>4, <1>5, <1>6

(* An addition that fails leaves every bucket with the messages it had.      *)
LEMMA StoreKeepsIndex ==
  ASSUME IndexAgrees, NEW m \in Message, StoreFails(m)
  PROVE  IndexAgrees'
<1> DEFINE key == PeerKey(m.from, m.to)
<1>1. byPeer' \in {byPeer, [k \in DOMAIN byPeer \cup {key} |-> GetMessagesFor(k)]}
      /\ added' = added
  BY DEF StoreFails, WithBucket
<1> HIDE DEF key
<1>2. ASSUME NEW k PROVE GetMessagesFor(k)' = GetMessagesFor(k)
  BY <1>1 DEF GetMessagesFor
<1> QED
  BY <1>1, <1>2 DEF IndexAgrees

(* A message that is added is seen under an id no other message has.         *)
LEMMA ConvKeeps ==
  ASSUME IInv, NEW m \in Message, AddToConv(m)
  PROVE  /\ conv' \in Seq(Message) /\ seen' \subseteq Ids
         /\ SeenAgrees' /\ IsFiniteSet(seen')
<1>1. conv \in Seq(Message) /\ seen \subseteq Ids /\ SeenAgrees /\ IsFiniteSet(seen)
      /\ m.id \in Ids
  BY DEF IInv, TypeOK, Message
<1>2. CASE UNCHANGED <<conv, seen>>
  BY <1>1, <1>2 DEF SeenAgrees
<1>3. CASE m.id \notin seen /\ seen' = seen \cup {m.id} /\ conv' = Append(conv, m)
  <2>1. /\ conv' \in Seq(Message) /\ Len(conv') = Len(conv) + 1 /\ Len(conv) \in Nat
        /\ DOMAIN conv' = DOMAIN conv \cup {Len(conv) + 1}
        /\ \A n \in DOMAIN conv : conv'[n] = conv[n]
        /\ conv'[Len(conv) + 1] = m
    BY <1>1, <1>3
  <2>2. {conv'[n].id : n \in DOMAIN conv'} = {conv[n].id : n \in DOMAIN conv} \cup {m.id}
    BY <2>1
  <2>3. IsFiniteSet(seen') /\ Cardinality(seen') = Cardinality(seen) + 1
    BY <1>1, <1>3, FS_AddElement
  <2> QED
    BY <1>1, <1>3, <2>1, <2>2, <2>3 DEF SeenAgrees
<1> QED
  BY <1>2, <1>3 DEF AddToConv, TakeBack

\* The invariant holds of empty stores.
LEMMA StoreInit == Init => IInv
<1> SUFFICES ASSUME Init PROVE IInv
  OBVIOUS
<1>1. TypeOK
  BY DEF Init, TypeOK, NoBuckets
<1>2. SeenAgrees /\ IsFiniteSet(seen)
  BY FS_EmptySet DEF Init, SeenAgrees
<1>3. IndexAgrees
  BY BetweenNone DEF Init, NoBuckets, IndexAgrees, GetMessagesFor
<1> QED
  BY <1>1, <1>2, <1>3 DEF IInv

\* Every step keeps the invariant.
LEMMA StoreStep == IInv /\ [Next]_vars => IInv'
<1> SUFFICES ASSUME IInv, [Next]_vars PROVE IInv'
  OBVIOUS
<1>1. ASSUME NEW m \in Message, Received(m) PROVE IInv'
  <2>1. CASE AddToStore(m) /\ AddToConv(m)
    BY <2>1, StoreTypes, StoreIndexes, ConvKeeps DEF IInv, TypeOK
  <2>2. CASE StoreFails(m) /\ UNCHANGED <<conv, seen>>
    <3>1. SeenAgrees' /\ IsFiniteSet(seen')
      BY <2>2 DEF IInv, SeenAgrees
    <3> QED
      BY <2>2, <3>1, StoreTypes, StoreKeepsIndex DEF IInv, TypeOK
  <2> QED
    BY <1>1, <2>1, <2>2 DEF Received
<1>2. ASSUME NEW m \in Message, Sent(m) PROVE IInv'
  BY <1>2, ConvKeeps DEF Sent, store, IInv, TypeOK, IndexAgrees, GetMessagesFor
<1>3. CASE Clear
  <2>1. TypeOK'
    BY <1>3 DEF Clear, TypeOK, NoBuckets
  <2>2. SeenAgrees' /\ IsFiniteSet(seen')
    BY <1>3, FS_EmptySet DEF Clear, SeenAgrees
  <2>3. IndexAgrees'
    BY <1>3, BetweenNone DEF Clear, NoBuckets, IndexAgrees, GetMessagesFor
  <2> QED
    BY <2>1, <2>2, <2>3 DEF IInv
<1>4. CASE UNCHANGED vars
  BY <1>4 DEF vars, store, IInv, TypeOK, SeenAgrees, IndexAgrees, GetMessagesFor
<1> QED
  BY <1>1, <1>2, <1>3, <1>4 DEF Next

\* The invariant holds of every execution.
LEMMA StoreInvariant == Spec => []IInv
BY StoreInit, StoreStep, PTL DEF Spec

(* Every variable stays within its type, allocations that fail included.     *)
THEOREM TypesOfStore == Spec => []TypeOK
<1>1. IInv => TypeOK
  BY DEF IInv
<1> QED
  BY StoreInvariant, <1>1, PTL

(* The ids seen are those of the conversation, each of one message, also     *)
(* after a message could not be stored (Conversation.cpp:10).       *)
THEOREM SeenIsShown == Spec => []SeenAgrees
<1>1. IInv => SeenAgrees
  BY DEF IInv
<1> QED
  BY StoreInvariant, <1>1, PTL

(* Whatever characters the names have and wherever an allocation fails       *)
(* (MessageStore.cpp:7-10), a bucket of the index holds exactly the messages  *)
(* between two users whose addition returned, in the order they came.        *)
THEOREM BucketsAreConversations == Spec => []IndexAgrees
<1>1. IInv => IndexAgrees
  BY DEF IInv
<1> QED
  BY StoreInvariant, <1>1, PTL
=============================================================================
