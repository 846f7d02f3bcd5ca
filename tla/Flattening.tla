------------------------------- MODULE Flattening ------------------------------
(***************************************************************************)
(* Facts about natural numbers and about FlattenSeq that several proofs    *)
(* need.  Induction takes the form of a set that holds 0 and the successor *)
(* of each of its numbers, so that it can be cited like any other fact.    *)
(***************************************************************************)
EXTENDS Integers, Sequences, SequencesExt, FiniteSetTheorems, SequenceTheorems, TLAPS

(* A set of naturals has a least element.                                    *)
THEOREM LeastNatural ==
  ASSUME NEW S \in SUBSET Nat, S # {}
  PROVE  \E x \in S : \A k \in S : x <= k
<1>1. PICK n : n \in S
  OBVIOUS
<1> DEFINE U == {0..k : k \in S \cap (0..n)}
           R == StrictSubsetOrdering(0..n)
<1>2. n \in Nat /\ n \in S \cap (0..n)
  BY <1>1
<1>3. FiniteSubsetsOf(0..n) = SUBSET (0..n)
  <2>1. 0 \in Int /\ n \in Int
    BY <1>2
  <2>2. IsFiniteSet(0..n)
    BY <2>1, FS_Interval
  <2> QED
    BY <2>2, FS_FiniteSubsetsOfFinite
<1>4. IsWellFoundedOn(R, SUBSET (0..n))
  BY <1>3, FS_StrictSubsetOrderingWellFounded
<1>5. U \subseteq SUBSET (0..n) /\ U # {}
  BY <1>2
<1>6. PICK X \in U : \A Y \in U : ~(<<Y, X>> \in R)
  <2> HIDE DEF U, R
  <2> QED
    BY <1>4, <1>5, WFMin
<1>7. PICK x \in S \cap (0..n) : X = 0..x
  BY <1>6
<1>8. ASSUME NEW k \in S, k < x PROVE FALSE
  <2>1. k \in S \cap (0..n) /\ k \in Nat /\ x \in Nat /\ n \in Nat
    BY <1>2, <1>7, <1>8
  <2>2. 0..k \in U /\ 0..k \subseteq 0..x /\ x \in 0..x /\ x \notin 0..k
    BY <1>8, <2>1
  <2>3. 0..k # 0..x /\ 0..k \in SUBSET (0..n) /\ 0..x \in SUBSET (0..n)
    BY <2>1, <2>2
  <2>4. <<0..k, 0..x>> \in R
    BY <2>2, <2>3 DEF StrictSubsetOrdering
  <2> QED
    BY <1>6, <1>7, <2>2, <2>4
<1> QED
  <2>1. ASSUME NEW k \in S PROVE x <= k
    <3>1. k \in Nat /\ x \in Nat /\ ~(k < x)
      BY <1>7, <1>8
    <3> QED
      BY <3>1
  <2> QED
    BY <1>7, <2>1

(* What holds at 0, and at n + 1 where it holds at n, holds everywhere.       *)
THEOREM EveryNatural ==
  ASSUME NEW S, 0 \in S, \A n \in Nat : n \in S => n + 1 \in S
  PROVE  \A n \in Nat : n \in S
<1> SUFFICES ASSUME NEW n \in Nat, n \notin S PROVE FALSE
  OBVIOUS
<1>1. Nat \ S \in SUBSET Nat /\ Nat \ S # {}
  OBVIOUS
<1>2. PICK x \in Nat \ S : \A k \in Nat \ S : x <= k
  BY <1>1, LeastNatural
<1>3. x \in Nat /\ x # 0 /\ x - 1 \in Nat /\ x = (x - 1) + 1
  BY <1>2
<1>4. x - 1 \in S
  BY <1>2, <1>3
<1> QED
  BY <1>2, <1>3, <1>4

-----------------------------------------------------------------------------
(* FlattenSeq                                                                *)

\* The recursion that FlattenSeq evaluates.
Flattens(f, s) ==
  f = [i \in 1..Len(s) |-> IF i = 1 THEN s[i] ELSE f[i - 1] \o s[i]]

(* The recursion has a solution.                                             *)
LEMMA FlatteningExists ==
  ASSUME NEW T, NEW s \in Seq(Seq(T))
  PROVE  \E f : Flattens(f, s)
<1> DEFINE Upto(f, n) == f = [i \in 1..n |-> IF i = 1 THEN s[i] ELSE f[i - 1] \o s[i]]
           S == {n \in Nat : \E f : Upto(f, n)}
<1>1. 0 \in S
  <2>1. Upto(<< >>, 0)
    OBVIOUS
  <2> QED
    BY <2>1
<1>2. ASSUME NEW n \in Nat, n \in S PROVE n + 1 \in S
  <2>1. PICK f : Upto(f, n)
    BY <1>2
  <2> DEFINE g == [i \in 1..(n + 1) |->
                     IF i = n + 1 THEN IF i = 1 THEN s[i] ELSE f[i - 1] \o s[i] ELSE f[i]]
  <2>2. ASSUME NEW i \in 1..(n + 1)
        PROVE  g[i] = IF i = 1 THEN s[i] ELSE g[i - 1] \o s[i]
    <3>1. CASE i = n + 1 /\ i # 1
      <4>1. i - 1 \in 1..(n + 1) /\ i - 1 # n + 1
        BY <3>1
      <4>2. g[i - 1] = f[i - 1]
        BY <4>1
      <4> QED
        BY <3>1, <4>2
    <3>2. CASE i = n + 1 /\ i = 1
      BY <3>2
    <3>3. CASE i # n + 1 /\ i # 1
      <4>1. i - 1 \in 1..n /\ i \in 1..n /\ i - 1 \in 1..(n + 1) /\ i - 1 # n + 1
        BY <3>3
      <4>2. g[i] = f[i] /\ g[i - 1] = f[i - 1]
        BY <3>3, <4>1
      <4>3. f[i] = f[i - 1] \o s[i]
        BY <2>1, <3>3, <4>1
      <4> QED
        BY <3>3, <4>2, <4>3
    <3>4. CASE i # n + 1 /\ i = 1
      BY <2>1, <3>4
    <3> QED
      BY <3>1, <3>2, <3>3, <3>4
  <2>3. g = [i \in 1..(n + 1) |-> g[i]]
    OBVIOUS
  <2> HIDE DEF g
  <2>4. Upto(g, n + 1)
    BY <2>2, <2>3
  <2>5. \E h : Upto(h, n + 1)
    BY <2>4
  <2> HIDE DEF Upto
  <2> QED
    BY <2>5
<1>3. Len(s) \in S
  <2> HIDE DEF S
  <2> QED
    BY <1>1, <1>2, EveryNatural
<1> QED
  BY <1>3 DEF Flattens

(* Its solutions agree at every place, also with those of a longer sequence.  *)
LEMMA FlatteningsAgree ==
  ASSUME NEW T, NEW s \in Seq(Seq(T)), NEW t \in Seq(Seq(T)), NEW f, NEW g,
         Flattens(f, s), Flattens(g, t), Len(s) <= Len(t),
         \A i \in 1..Len(s) : s[i] = t[i]
  PROVE  \A i \in 1..Len(s) : f[i] = g[i] /\ f[i] \in Seq(T)
<1> DEFINE S == {n \in Nat : n \in 1..Len(s) => f[n] = g[n] /\ f[n] \in Seq(T)}
<1>1. Len(s) \in Nat /\ Len(t) \in Nat /\ \A i \in 1..Len(s) : s[i] \in Seq(T)
  OBVIOUS
<1>2. 0 \in S
  OBVIOUS
<1>3. ASSUME NEW n \in Nat, n \in S PROVE n + 1 \in S
  <2> SUFFICES ASSUME n + 1 \in 1..Len(s)
               PROVE  f[n + 1] = g[n + 1] /\ f[n + 1] \in Seq(T)
    OBVIOUS
  <2>1. n + 1 \in 1..Len(t) /\ s[n + 1] = t[n + 1] /\ s[n + 1] \in Seq(T)
    BY <1>1
  <2>2. /\ f[n + 1] = IF n + 1 = 1 THEN s[n + 1] ELSE f[(n + 1) - 1] \o s[n + 1]
        /\ g[n + 1] = IF n + 1 = 1 THEN t[n + 1] ELSE g[(n + 1) - 1] \o t[n + 1]
    BY <2>1 DEF Flattens
  <2>3. CASE n = 0
    BY <2>1, <2>2, <2>3
  <2>4. CASE n # 0
    <3>1. n \in 1..Len(s) /\ (n + 1) - 1 = n /\ n + 1 # 1
      BY <1>1, <2>4
    <3>2. f[n] = g[n] /\ f[n] \in Seq(T)
      BY <1>3, <3>1
    <3>3. f[n] \o s[n + 1] \in Seq(T)
      BY <2>1, <3>2
    <3> QED
      BY <2>1, <2>2, <3>1, <3>2, <3>3
  <2> QED
    BY <2>3, <2>4
<1>4. \A n \in Nat : n \in S
  <2> HIDE DEF S
  <2> QED
    BY <1>2, <1>3, EveryNatural
<1> QED
  BY <1>1, <1>4

(* FlattenSeq evaluates a solution.                                          *)
LEMMA FlatteningIs ==
  ASSUME NEW T, NEW s \in Seq(Seq(T)), s # << >>, NEW f, Flattens(f, s)
  PROVE  FlattenSeq(s) = f[Len(s)]
<1> DEFINE F == CHOOSE g : Flattens(g, s)
<1>1. Flattens(F, s)
  OBVIOUS
<1>2. Len(s) \in Nat /\ Len(s) # 0
  OBVIOUS
<1>3. FlattenSeq(s) = F[Len(s)]
  BY <1>2 DEF FlattenSeq, Flattens
<1> HIDE DEF F
<1>4. F[Len(s)] = f[Len(s)]
  BY <1>1, <1>2, FlatteningsAgree
<1> QED
  BY <1>3, <1>4

(* Nothing flattened is nothing.                                             *)
THEOREM FlattenEmpty == FlattenSeq(<< >>) = << >>
  BY DEF FlattenSeq

(* The pieces of a longer sequence come after those before.                  *)
THEOREM FlattenAppend ==
  ASSUME NEW T, NEW s \in Seq(Seq(T)), NEW x \in Seq(T)
  PROVE  FlattenSeq(s) \in Seq(T) /\ FlattenSeq(Append(s, x)) = FlattenSeq(s) \o x
<1> DEFINE t == Append(s, x)
<1>1. /\ t \in Seq(Seq(T)) /\ t # << >> /\ Len(t) = Len(s) + 1 /\ Len(s) \in Nat
      /\ \A i \in 1..Len(s) : s[i] = t[i]
      /\ t[Len(s) + 1] = x
  BY AppendProperties
<1> HIDE DEF t
<1>2. PICK g : Flattens(g, t)
  BY <1>1, FlatteningExists
<1>3. FlattenSeq(t) = g[Len(t)]
  BY <1>1, <1>2, FlatteningIs
<1>4. CASE s = << >>
  <2>1. g[1] = t[1] /\ Len(t) = 1
    BY <1>1, <1>2, <1>4 DEF Flattens
  <2>2. FlattenSeq(s) = << >> /\ << >> \o x = x
    BY <1>4, FlattenEmpty
  <2> QED
    BY <1>1, <1>3, <1>4, <2>1, <2>2, EmptySeq DEF t
<1>5. CASE s # << >>
  <2>1. Len(s) # 0 /\ Len(s) \in 1..Len(s) /\ Len(t) \in 1..Len(t) /\ Len(t) - 1 = Len(s)
    BY <1>1, <1>5
  <2>2. PICK f : Flattens(f, s)
    BY FlatteningExists
  <2>3. FlattenSeq(s) = f[Len(s)]
    BY <1>5, <2>2, FlatteningIs
  <2>4. f[Len(s)] = g[Len(s)] /\ f[Len(s)] \in Seq(T)
    <3>1. Len(s) <= Len(t)
      BY <1>1
    <3> QED
      BY <1>1, <1>2, <2>1, <2>2, <3>1, FlatteningsAgree
  <2>5. g[Len(t)] = g[Len(s)] \o x
    <3>1. g[Len(t)] = IF Len(t) = 1 THEN t[Len(t)] ELSE g[Len(t) - 1] \o t[Len(t)]
      BY <1>2, <2>1 DEF Flattens
    <3>2. Len(t) # 1 /\ t[Len(t)] = x
      BY <1>1, <2>1
    <3> QED
      BY <2>1, <3>1, <3>2, Zenon
  <2> QED
    BY <1>3, <2>3, <2>4, <2>5 DEF t
<1> QED
  BY <1>4, <1>5

\* How much of FlattenSeq(s) comes from the first i pieces.
Start(s, i) == Len(FlattenSeq(SubSeq(s, 1, i)))

(* One more piece is appended to those before.                               *)
LEMMA FlattenNext ==
  ASSUME NEW T, NEW s \in Seq(Seq(T)), NEW i \in 0..(Len(s) - 1)
  PROVE  /\ FlattenSeq(SubSeq(s, 1, i)) \in Seq(T)
         /\ FlattenSeq(SubSeq(s, 1, i + 1)) = FlattenSeq(SubSeq(s, 1, i)) \o s[i + 1]
         /\ s[i + 1] \in Seq(T)
<1>1. /\ Len(s) \in Nat /\ i \in Nat /\ i + 1 \in 1..Len(s) /\ (i + 1) - 1 = i
      /\ s[i + 1] \in Seq(T) /\ \A k \in 1..i : s[k] \in Seq(T)
  BY LenProperties
<1>2. SubSeq(s, 1, i) \in Seq(Seq(T))
  BY <1>1, SubSeqProperties
<1>3. SubSeq(s, 1, i + 1) = Append(SubSeq(s, 1, i), s[i + 1])
  <2>1. 1 \in 1..Len(s) /\ i + 1 \in 1..Len(s)
    BY <1>1
  <2>2. SubSeq(s, 1, i + 1) = SubSeq(s, 1, (i + 1) - 1) \o <<s[i + 1]>>
    BY <2>1, SubSeqRecursiveSecond
  <2>3. Append(SubSeq(s, 1, i), s[i + 1]) = SubSeq(s, 1, i) \o <<s[i + 1]>>
    BY <1>1, <1>2, AppendIsConcat
  <2> QED
    BY <1>1, <2>2, <2>3
<1> QED
  BY <1>1, <1>2, <1>3, FlattenAppend

(* A place within a piece that lies inside the whole is a place of the whole. *)
LEMMA OffsetInside ==
  \A start, len, whole \in Nat : start + len <= whole =>
    \A k \in 1..len : start + k \in 1..whole
OBVIOUS

(* Every piece is found in the whole, one after the other.                   *)
THEOREM FlattenPieces ==
  ASSUME NEW T, NEW s \in Seq(Seq(T))
  PROVE  /\ Start(s, 0) = 0 /\ Start(s, Len(s)) = Len(FlattenSeq(s))
         /\ FlattenSeq(s) \in Seq(T)
         /\ \A i \in 0..Len(s) : Start(s, i) \in 0..Len(FlattenSeq(s))
         /\ \A i \in 1..Len(s) :
              /\ Start(s, i) = Start(s, i - 1) + Len(s[i])
              /\ \A k \in 1..Len(s[i]) : FlattenSeq(s)[Start(s, i - 1) + k] = s[i][k]
<1> DEFINE flat(n) == FlattenSeq(SubSeq(s, 1, n))
           Holds(n) ==
             /\ flat(n) \in Seq(T)
             /\ \A i \in 0..n : Start(s, i) \in 0..Len(flat(n))
             /\ \A i \in 1..n :
                  /\ Start(s, i) = Start(s, i - 1) + Len(s[i])
                  /\ \A k \in 1..Len(s[i]) : flat(n)[Start(s, i - 1) + k] = s[i][k]
           S == {n \in Nat : n \in 0..Len(s) => Holds(n)}
<1>1. Len(s) \in Nat
  BY LenProperties
<1>2. flat(0) = << >>
  <2>1. SubSeq(s, 1, 0) = << >>
    BY SubSeqEmpty
  <2> QED
    BY <2>1, FlattenEmpty
<1>3. 0 \in S
  <2>1. flat(0) \in Seq(T) /\ Start(s, 0) = 0
    BY <1>2, EmptySeq DEF Start
  <2> QED
    BY <1>2, <2>1, EmptySeq
<1>4. ASSUME NEW n \in Nat, n \in S PROVE n + 1 \in S
  <2> SUFFICES ASSUME n + 1 \in 0..Len(s) PROVE Holds(n + 1)
    <3> HIDE DEF Holds
    <3> QED
      OBVIOUS
  <2>1. n \in 0..(Len(s) - 1) /\ n \in 0..Len(s)
    BY <1>1
  <2>2. Holds(n)
    BY <1>4, <2>1
  <2> DEFINE f == flat(n)
             g == flat(n + 1)
             p == s[n + 1]
  <2>3. f \in Seq(T) /\ p \in Seq(T) /\ g = f \o p
    BY <2>1, FlattenNext
  <2>4. Start(s, n) = Len(f) /\ Start(s, n + 1) = Len(g)
    BY DEF Start
  <2>5. /\ \A i \in 0..n : Start(s, i) \in 0..Len(f)
        /\ \A i \in 1..n :
             /\ Start(s, i) = Start(s, i - 1) + Len(s[i])
             /\ \A k \in 1..Len(s[i]) : f[Start(s, i - 1) + k] = s[i][k]
    BY <2>2
  <2> HIDE DEF f, g, p
  <2>6. /\ g \in Seq(T) /\ Len(g) = Len(f) + Len(p) /\ Len(f) \in Nat /\ Len(p) \in Nat
        /\ \A k \in 1..Len(f) : g[k] = f[k]
        /\ \A k \in 1..Len(p) : g[Len(f) + k] = p[k]
    BY <2>3
  <2>7. \A i \in 0..(n + 1) : Start(s, i) \in 0..Len(g)
    BY <2>4, <2>5, <2>6
  <2>8. ASSUME NEW i \in 1..(n + 1)
        PROVE  /\ Start(s, i) = Start(s, i - 1) + Len(s[i])
               /\ \A k \in 1..Len(s[i]) : g[Start(s, i - 1) + k] = s[i][k]
    <3>1. CASE i = n + 1
      <4>1. i - 1 = n /\ s[i] = p
        BY <3>1 DEF p
      <4>2. Start(s, i) = Len(g) /\ Start(s, i - 1) = Len(f)
        BY <2>4, <3>1, <4>1
      <4> QED
        BY <2>6, <4>1, <4>2
    <3>2. CASE i # n + 1
      <4>1. i \in 1..n /\ i \in 0..n /\ i - 1 \in 0..n
        BY <3>2
      <4>2. /\ Start(s, i) = Start(s, i - 1) + Len(s[i])
            /\ Start(s, i) \in 0..Len(f) /\ Start(s, i - 1) \in 0..Len(f)
            /\ \A k \in 1..Len(s[i]) : f[Start(s, i - 1) + k] = s[i][k]
        BY <2>5, <4>1
      <4>3. Len(s[i]) \in Nat
        BY <1>1, <4>1, LenProperties
      <4>4. ASSUME NEW k \in 1..Len(s[i])
            PROVE  g[Start(s, i - 1) + k] = s[i][k]
        <5>1. /\ Start(s, i - 1) \in Nat
              /\ Start(s, i - 1) + Len(s[i]) <= Len(f)
          BY <2>6, <4>2
        <5>2. Start(s, i - 1) + k \in 1..Len(f)
          BY <2>6, <4>3, <5>1, OffsetInside
        <5> QED
          BY <2>6, <4>2, <5>2
      <4> QED
        BY <4>2, <4>4
    <3> QED
      BY <3>1, <3>2
  <2> QED
    BY <2>6, <2>7, <2>8 DEF g
<1>5. Holds(Len(s))
  <2>1. Len(s) \in S
    <3> HIDE DEF S
    <3> QED
      BY <1>1, <1>3, <1>4, EveryNatural
  <2> QED
    BY <1>1, <2>1
<1>6. flat(Len(s)) = FlattenSeq(s)
  BY SubSeqFull
<1>7. Start(s, 0) = 0
  BY <1>2, EmptySeq DEF Start
<1> QED
  BY <1>5, <1>6, <1>7 DEF Start
=============================================================================
