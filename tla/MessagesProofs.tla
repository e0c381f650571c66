-------------------------- MODULE MessagesProofs --------------------------
(***************************************************************************)
(* What is proved of Messages, for every sequence of setters and every     *)
(* number of objects: the octets are counted right and can be decoded, the *)
(* messages are well typed, what was set is read again, and an answer      *)
(* repeats its request.                                                    *)
(*                                                                         *)
(* The proofs go from the bottom up: AVPs in sequences and nodes, the      *)
(* sizes that are counted and the octets that are written, the tables of   *)
(* the setters, one operation after the other (each changes one object and *)
(* its node, and keeps the message Sound), the readers, and the answer.    *)
(***************************************************************************)
EXTENDS Messages, FiniteSetTheorems, SequenceTheorems, WellFoundedInduction, TLAPS

----------------------------------------------------------------------------
(* Induction over numbers.                                                 *)

(* A set of numbers that is not empty has a least element. *)
LEMMA LeastNumber ==
  ASSUME NEW T \in SUBSET Nat, T # {}
  PROVE  \E n \in T : \A q \in T : n <= q
<1> DEFINE R == {ss \in Nat \X Nat : ss[1] < ss[2]}
<1>1. IsWellFoundedOn(R, Nat)
  BY NatLessThanWellFounded DEF OpToRel
<1>2. ASSUME NEW q \in Nat, NEW n \in Nat, q < n
      PROVE  <<q, n>> \in R
  <2>1. <<q, n>> \in Nat \X Nat /\ <<q, n>>[1] = q /\ <<q, n>>[2] = n
    OBVIOUS
  <2> QED  BY <1>2, <2>1, Zenon
<1> HIDE DEF R
<1>3. PICK n \in T : \A q \in T : ~ (<<q, n>> \in R)
  BY <1>1, WFMin
<1>4. ASSUME NEW q \in T
      PROVE  n <= q
  <2>1. q \in Nat /\ n \in Nat
    OBVIOUS
  <2>2. ~ (q < n)
    BY <1>2, <1>3, <2>1, Zenon
  <2> QED  BY <2>1, <2>2
<1> QED  BY <1>4

(* A set that holds 0 and the successor of each of its elements below n    *)
(* holds all numbers up to n. *)
LEMMA UpTo ==
  ASSUME NEW n \in Nat, NEW S, 0 \in S, \A k \in 0 .. n - 1 : k \in S => k + 1 \in S
  PROVE  0..n \subseteq S
<1> SUFFICES ASSUME (0..n) \ S # {} PROVE FALSE
  OBVIOUS
<1>1. PICK k \in (0..n) \ S : \A q \in (0..n) \ S : k <= q
  <2> DEFINE T == (0..n) \ S
  <2>1. T \in SUBSET Nat /\ T # {}
    OBVIOUS
  <2> HIDE DEF T
  <2>2. \E k \in T : \A q \in T : k <= q
    BY <2>1, LeastNumber
  <2> QED  BY <2>2 DEF T
<1>2. k - 1 \in 0 .. n - 1 /\ k - 1 \in S
  BY <1>1
<1> QED  BY <1>1, <1>2

----------------------------------------------------------------------------
(* Sequences of sequences.                                                 *)

IsFlat(ss, f) ==
  f = [i \in 1..Len(ss) |-> IF i = 1 THEN ss[i] ELSE f[i - 1] \o ss[i]]

(* The recursive definition within FlattenSeq has a solution. *)
LEMMA FlatExists ==
  ASSUME NEW ss, Len(ss) \in Nat
  PROVE  \E f : IsFlat(ss, f)
<1> DEFINE Body(f, i) == IF i = 1 THEN ss[i] ELSE f[i - 1] \o ss[i]
           S == {n \in Nat : \E f : f = [i \in 1..n |-> Body(f, i)]}
<1>1. 0 \in S
  <2>1. [i \in 1..0 |-> << >>] = [i \in 1..0 |-> Body([k \in 1..0 |-> << >>], i)]
    OBVIOUS
  <2> QED  BY <2>1
<1>2. ASSUME NEW n \in 0 .. Len(ss) - 1, n \in S
      PROVE  n + 1 \in S
  <2>1. PICK f : f = [i \in 1..n |-> Body(f, i)]
    BY <1>2
  <2>0. \A i \in 1..n : f[i] = Body(f, i)
    BY <2>1, Zenon
  <2> DEFINE g == [i \in 1 .. n + 1 |-> IF i = n + 1 THEN Body(f, n + 1) ELSE f[i]]
  <2>2. ASSUME NEW i \in 1 .. n + 1
        PROVE  g[i] = Body(g, i)
    <3>1. CASE i = n + 1
      <4>1. CASE i = 1
        BY <3>1, <4>1
      <4>2. CASE i # 1
        <5>1. n \in 1 .. n + 1 /\ n # n + 1 /\ i - 1 = n
          BY <3>1, <4>2
        <5>2. g[n] = f[n]
          BY <5>1
        <5> QED  BY <3>1, <4>2, <5>1, <5>2
      <4> QED  BY <4>1, <4>2
    <3>2. CASE i # n + 1
      <4>0. i \in 1..n
        BY <3>2
      <4>1. i \in 1..n /\ f[i] = Body(f, i)
        BY <2>0, <4>0, Zenon
      <4>2. CASE i = 1
        BY <3>2, <4>1, <4>2
      <4>3. CASE i # 1
        <5>1. i - 1 \in 1 .. n + 1 /\ i - 1 # n + 1
          BY <4>1, <4>3
        <5>2. g[i - 1] = f[i - 1]
          BY <5>1
        <5> QED  BY <3>2, <4>1, <4>3, <5>2
      <4> QED  BY <4>2, <4>3
    <3> QED  BY <3>1, <3>2
  <2>3. g = [i \in 1 .. n + 1 |-> Body(g, i)]
    <3> HIDE DEF Body
    <3>1. g = [i \in 1 .. n + 1 |-> g[i]]
      OBVIOUS
    <3> HIDE DEF g
    <3> QED  BY <2>2, <3>1
  <2> HIDE DEF g, Body
  <2>4. \E h : h = [i \in 1 .. n + 1 |-> Body(h, i)]
    BY <2>3, Zenon
  <2> QED  BY <2>4
<1>0. Len(ss) \in 0 .. Len(ss)
  OBVIOUS
<1> HIDE DEF S
<1>3. Len(ss) \in S
  BY <1>0, <1>1, <1>2, UpTo
<1> QED  BY <1>3 DEF S, IsFlat

(* What is flattened grows by one sequence after the other. *)
LEMMA FlatSteps ==
  ASSUME NEW X, NEW ss \in Seq(Seq(X))
  PROVE  \E F \in [0..Len(ss) -> Seq(X)] :
           /\ F[0] = << >>
           /\ \A i \in 1..Len(ss) : F[i] = F[i - 1] \o ss[i]
           /\ FlattenSeq(ss) = F[Len(ss)]
<1>0. Len(ss) \in Nat
  OBVIOUS
<1>1. CASE Len(ss) = 0
  <2>1. ss = << >> /\ FlattenSeq(ss) = ss
    BY <1>1 DEF FlattenSeq
  <2> DEFINE F == [i \in 0..Len(ss) |-> << >>]
  <2>2. F \in [0..Len(ss) -> Seq(X)] /\ F[0] = << >> /\ F[Len(ss)] = << >>
    BY <1>0, <1>1
  <2> HIDE DEF F
  <2> QED  BY <1>1, <2>1, <2>2
<1>2. CASE Len(ss) # 0
  <2> DEFINE f == CHOOSE f : IsFlat(ss, f)
  <2>1. FlattenSeq(ss) = f[Len(ss)]
    BY <1>2 DEF FlattenSeq, IsFlat
  <2>2. IsFlat(ss, f)
    BY <1>0, FlatExists
  <2> HIDE DEF f
  <2>3. \A i \in 1..Len(ss) : f[i] = IF i = 1 THEN ss[i] ELSE f[i - 1] \o ss[i]
    BY <2>2, Zenon DEF IsFlat
  <2> DEFINE F == [i \in 0..Len(ss) |-> IF i = 0 THEN << >> ELSE f[i]]
             S == {i \in Nat : F[i] \in Seq(X)}
  <2>4. F[0] = << >> /\ F[Len(ss)] = f[Len(ss)]
    BY <1>0, <1>2
  <2>5. ASSUME NEW i \in 1..Len(ss)
        PROVE  F[i] = F[i - 1] \o ss[i]
    <3>1. ss[i] \in Seq(X) /\ F[i] = f[i]
      OBVIOUS
    <3>2. CASE i = 1
      <4>1. i - 1 = 0 /\ F[i - 1] = << >> /\ f[i] = ss[i]
        BY <2>3, <2>4, <3>2
      <4>2. << >> \o ss[i] = ss[i]
        BY <3>1
      <4> QED  BY <3>1, <4>1, <4>2
    <3>3. CASE i # 1
      <4>1. i - 1 \in 0..Len(ss) /\ i - 1 # 0
        BY <3>3
      <4>2. F[i - 1] = f[i - 1]
        BY <4>1
      <4>3. f[i] = f[i - 1] \o ss[i]
        BY <2>3, <3>3
      <4> QED  BY <3>1, <4>2, <4>3
    <3> QED  BY <3>2, <3>3
  <2> HIDE DEF F
  <2>6. 0 \in S
    <3>1. << >> \in Seq(X)
      OBVIOUS
    <3> QED  BY <2>4, <3>1
  <2>7. ASSUME NEW k \in 0 .. Len(ss) - 1, k \in S
        PROVE  k + 1 \in S
    <3>1. PICK i \in 1..Len(ss) : i = k + 1 /\ i - 1 = k
      OBVIOUS
    <3>2. F[k] \in Seq(X) /\ ss[i] \in Seq(X)
      BY <2>7
    <3>3. F[i] = F[k] \o ss[i]
      BY <2>5, <3>1, Zenon
    <3>4. F[k] \o ss[i] \in Seq(X)
      BY <3>2
    <3>5. F[k + 1] \in Seq(X)
      BY <3>1, <3>3, <3>4
    <3> QED  BY <3>5
  <2> HIDE DEF S
  <2>8. 0..Len(ss) \subseteq S
    BY <1>0, <2>6, <2>7, UpTo
  <2>9. F \in [0..Len(ss) -> Seq(X)]
    BY <2>8 DEF S, F
  <2> QED  BY <2>1, <2>4, <2>5, <2>9
<1> QED  BY <1>1, <1>2

----------------------------------------------------------------------------
(* What GetAVPData finds when it is called again and again.                *)

(* F[i] is what has been found when i AVPs have been looked at. *)
Collects(X, s, c, F) ==
  /\ F \in [0..Len(s) -> Seq(X)]
  /\ F[0] = << >>
  /\ \A i \in 1..Len(s) : F[i] = IF s[i].code = c THEN Append(F[i - 1], s[i]) ELSE F[i - 1]
  /\ AllAVPData(s, c) = F[Len(s)]

(* The AVPs found so far grow by each AVP that has the code. *)
LEMMA FoundSteps ==
  ASSUME NEW X, NEW s \in Seq(X), NEW c
  PROVE  \E F : Collects(X, s, c, F)
<1> DEFINE ss == [i \in DOMAIN s |-> IF s[i].code = c THEN <<s[i]>> ELSE << >>]
<1>1. ss \in Seq(Seq(X)) /\ Len(ss) = Len(s) /\ Len(s) \in Nat
  <2>1. \A i \in 1..Len(s) : <<s[i]>> \in Seq(X) /\ << >> \in Seq(X)
    OBVIOUS
  <2>2. ss \in [1..Len(s) -> Seq(X)]
    BY <2>1
  <2> QED  BY <2>2
<1>2. \A i \in 1..Len(s) : ss[i] = IF s[i].code = c THEN <<s[i]>> ELSE << >>
  OBVIOUS
<1>3. AllAVPData(s, c) = FlattenSeq(ss)
  BY DEF AllAVPData
<1> HIDE DEF ss
<1>4. PICK F \in [0..Len(ss) -> Seq(X)] :
        /\ F[0] = << >>
        /\ \A i \in 1..Len(ss) : F[i] = F[i - 1] \o ss[i]
        /\ FlattenSeq(ss) = F[Len(ss)]
  BY <1>1, FlatSteps
<1>5. ASSUME NEW i \in 1..Len(s)
      PROVE  F[i] = IF s[i].code = c THEN Append(F[i - 1], s[i]) ELSE F[i - 1]
  <2>1. F[i] = F[i - 1] \o ss[i]
    BY <1>1, <1>4
  <2>2. i - 1 \in 0..Len(s) /\ s[i] \in X
    BY <1>1
  <2>3. F[i - 1] \in Seq(X)
    BY <1>1, <1>4, <2>2
  <2>4. F[i - 1] \o << >> = F[i - 1] /\ F[i - 1] \o <<s[i]>> = Append(F[i - 1], s[i])
    BY <2>2, <2>3
  <2> QED  BY <1>2, <2>1, <2>4
<1>6. Collects(X, s, c, F)
  BY <1>1, <1>3, <1>4, <1>5 DEF Collects
<1> QED  BY <1>6

(* What is found of a code is made of the same AVPs. *)
LEMMA FoundType ==
  ASSUME NEW X, NEW s \in Seq(X), NEW c
  PROVE  AllAVPData(s, c) \in Seq(X)
<1>1. PICK F : Collects(X, s, c, F)
  BY FoundSteps, Zenon
<1>2. Len(s) \in 0..Len(s)
  OBVIOUS
<1> QED  BY <1>1, <1>2 DEF Collects

(* What is found in two sequences is what is found in one and in the other. *)
LEMMA FoundJoin ==
  ASSUME NEW X, NEW s \in Seq(X), NEW t \in Seq(X), NEW c
  PROVE  AllAVPData(s \o t, c) = AllAVPData(s, c) \o AllAVPData(t, c)
<1> DEFINE st == s \o t
<1>1. /\ st \in Seq(X) /\ Len(st) = Len(s) + Len(t) /\ Len(s) \in Nat /\ Len(t) \in Nat
      /\ \A i \in 1..Len(s) : st[i] = s[i]
      /\ \A i \in 1..Len(t) : st[Len(s) + i] = t[i]
  OBVIOUS
<1>2. PICK F : Collects(X, s, c, F)
  BY FoundSteps, Zenon
<1>3. PICK G : Collects(X, t, c, G)
  BY FoundSteps, Zenon
<1> HIDE DEF st
<1>4. PICK H : Collects(X, st, c, H)
  BY <1>1, FoundSteps, Zenon
<1> DEFINE A == {i \in Nat : i <= Len(s) => H[i] = F[i]}
<1>5. 0 \in A
  BY <1>2, <1>4 DEF Collects
<1>6. ASSUME NEW k \in 0 .. Len(s) - 1, k \in A
      PROVE  k + 1 \in A
  <2>1. PICK i \in 1..Len(s) : i = k + 1 /\ i - 1 = k
    OBVIOUS
  <2>2. H[k] = F[k] /\ st[i] = s[i] /\ i \in 1..Len(st)
    BY <1>1, <1>6, <2>1
  <2>3. H[i] = F[i]
    BY <1>2, <1>4, <2>1, <2>2 DEF Collects
  <2> QED  BY <2>1, <2>3
<1> HIDE DEF A
<1>7. 0..Len(s) \subseteq A
  BY <1>1, <1>5, <1>6, UpTo
<1>8. H[Len(s)] = F[Len(s)]
  <2>1. PICK n \in Nat : n = Len(s)
    BY <1>1
  <2>2. n \in A
    BY <1>7, <2>1
  <2>3. n <= Len(s) => H[n] = F[n]
    BY <2>2 DEF A
  <2> QED  BY <2>1, <2>3
<1> DEFINE Joint(i) == H[Len(s) + i] = F[Len(s)] \o G[i]
           B == {i \in 0..Len(t) : Joint(i)}
<1>9. F[Len(s)] \in Seq(X)
  <2>1. Len(s) \in 0..Len(s)
    BY <1>1
  <2> QED  BY <1>2, <2>1 DEF Collects
<1>10. 0 \in B
  <2>1. F[Len(s)] \o << >> = F[Len(s)] /\ Len(s) + 0 = Len(s)
    BY <1>1, <1>9
  <2>2. Joint(0)
    BY <1>3, <1>8, <2>1 DEF Collects
  <2> HIDE DEF Joint
  <2> QED  BY <1>1, <2>2
<1>11. ASSUME NEW k \in 0 .. Len(t) - 1, k \in B
       PROVE  k + 1 \in B
  <2>1. PICK i \in 1..Len(t) : i = k + 1 /\ i - 1 = k
    BY <1>1
  <2>2. PICK j \in 1..Len(st) : j = Len(s) + i /\ j - 1 = Len(s) + k
    BY <1>1, <2>1
  <2>3. H[j - 1] = F[Len(s)] \o G[k] /\ st[j] = t[i]
    <3>0. Joint(k)
      <4> HIDE DEF Joint
      <4> QED  BY <1>11
    <3>1. H[Len(s) + k] = F[Len(s)] \o G[k]
      BY <3>0, Zenon
    <3>2. st[Len(s) + i] = t[i]
      BY <1>1
    <3> QED  BY <2>2, <3>1, <3>2, Zenon
  <2>4. G[k] \in Seq(X) /\ t[i] \in X
    <3>1. k \in 0..Len(t)
      BY <1>1
    <3>2. G \in [0..Len(t) -> Seq(X)]
      BY <1>3 DEF Collects
    <3>3. G[k] \in Seq(X)
      BY <3>1, <3>2
    <3>4. t[i] \in X
      OBVIOUS
    <3> QED  BY <3>3, <3>4
  <2>5. Append(F[Len(s)] \o G[k], t[i]) = F[Len(s)] \o Append(G[k], t[i])
    <3>1. PICK u \in Seq(X), v \in Seq(X), x \in X : u = F[Len(s)] /\ v = G[k] /\ x = t[i]
      BY <1>9, <2>4, Zenon
    <3>2. Append(u \o v, x) = u \o Append(v, x)
      <4>1. u \o v \in Seq(X) /\ Len(u \o v) = Len(u) + Len(v) /\ Append(v, x) \in Seq(X)
        OBVIOUS
      <4>2. Append(u \o v, x) \in Seq(X) /\ u \o Append(v, x) \in Seq(X)
        BY <4>1
      <4>3. Len(Append(u \o v, x)) = Len(u) + Len(v) + 1
        BY <4>1
      <4>4. Len(u \o Append(v, x)) = Len(u) + Len(v) + 1
        BY <4>1
      <4>5. \A e \in 1 .. Len(u) + Len(v) + 1 : Append(u \o v, x)[e] = (u \o Append(v, x))[e]
        BY <4>1
      <4> QED  BY <4>2, <4>3, <4>4, <4>5, SeqEqual, Zenon
    <3> QED  BY <3>1, <3>2, Zenon
  <2>6. H[j] = F[Len(s)] \o G[i]
    <3>1. CASE t[i].code = c
      BY <1>3, <1>4, <2>1, <2>3, <2>5, <3>1 DEF Collects
    <3>2. CASE t[i].code # c
      BY <1>3, <1>4, <2>1, <2>3, <3>2 DEF Collects
    <3> QED  BY <3>1, <3>2
  <2>7. Joint(k + 1)
    BY <2>1, <2>2, <2>6, Zenon
  <2>8. k + 1 \in 0..Len(t)
    BY <1>1
  <2> HIDE DEF Joint
  <2> QED  BY <2>7, <2>8
<1> HIDE DEF B
<1>12. 0..Len(t) \subseteq B
  BY <1>1, <1>10, <1>11, UpTo
<1>13. H[Len(st)] = F[Len(s)] \o G[Len(t)]
  <2>1. Len(t) \in 0..Len(t)
    BY <1>1
  <2>2. Len(t) \in B
    BY <1>12, <2>1
  <2>3. Joint(Len(t))
    <3> HIDE DEF Joint
    <3> QED  BY <2>2 DEF B
  <2> QED  BY <1>1, <2>3, Zenon
<1> QED  BY <1>2, <1>3, <1>4, <1>13 DEF st, Collects

(* AVPs that all have the code are all found; where none has it, none is. *)
LEMMA FoundAll ==
  ASSUME NEW X, NEW s \in Seq(X), NEW c, \A i \in 1..Len(s) : s[i].code = c
  PROVE  AllAVPData(s, c) = s
<1>1. PICK F : Collects(X, s, c, F)
  BY FoundSteps, Zenon
<1>2. Len(s) \in Nat /\ s \in [1..Len(s) -> X]
  OBVIOUS
<1> DEFINE A == {k \in Nat : k <= Len(s) =>
                   Len(F[k]) = k /\ \A i \in 1..k : F[k][i] = s[i]}
<1>3. 0 \in A
  BY <1>1 DEF Collects
<1>4. ASSUME NEW k \in 0 .. Len(s) - 1, k \in A
      PROVE  k + 1 \in A
  <2>1. PICK i \in 1..Len(s) : i = k + 1 /\ i - 1 = k
    OBVIOUS
  <2>2. F[k] \in Seq(X) /\ s[i] \in X /\ F[i] = Append(F[k], s[i])
    <3>1. k \in 0..Len(s)
      BY <1>2
    <3> QED  BY <1>1, <1>2, <2>1, <3>1 DEF Collects
  <2>3. Len(F[k]) = k /\ \A j \in 1..k : F[k][j] = s[j]
    BY <1>4
  <2>4. Len(F[i]) = i /\ \A j \in 1..i : F[i][j] = s[j]
    BY <2>1, <2>2, <2>3
  <2> QED  BY <2>1, <2>4
<1> HIDE DEF A
<1>5. 0..Len(s) \subseteq A
  BY <1>2, <1>3, <1>4, UpTo
<1>6. Len(F[Len(s)]) = Len(s) /\ \A i \in 1..Len(s) : F[Len(s)][i] = s[i]
  BY <1>2, <1>5 DEF A
<1>7. F[Len(s)] \in Seq(X)
  <2>1. Len(s) \in 0..Len(s)
    BY <1>2
  <2> QED  BY <1>1, <2>1 DEF Collects
<1>8. F[Len(s)] = s
  BY <1>6, <1>7
<1> QED  BY <1>1, <1>8 DEF Collects

(* Nothing is found of a code that none of the AVPs has. *)
LEMMA FoundNone ==
  ASSUME NEW X, NEW s \in Seq(X), NEW c, \A i \in 1..Len(s) : s[i].code # c
  PROVE  AllAVPData(s, c) = << >>
<1>1. PICK F : Collects(X, s, c, F)
  BY FoundSteps, Zenon
<1>2. Len(s) \in Nat
  OBVIOUS
<1> DEFINE A == {k \in Nat : k <= Len(s) => F[k] = << >>}
<1>3. 0 \in A
  BY <1>1 DEF Collects
<1>4. ASSUME NEW k \in 0 .. Len(s) - 1, k \in A
      PROVE  k + 1 \in A
  <2>1. PICK i \in 1..Len(s) : i = k + 1 /\ i - 1 = k
    OBVIOUS
  <2>2. F[i] = F[k]
    BY <1>1, <2>1 DEF Collects
  <2> QED  BY <1>4, <2>1, <2>2
<1> HIDE DEF A
<1>5. 0..Len(s) \subseteq A
  BY <1>2, <1>3, <1>4, UpTo
<1> QED  BY <1>1, <1>2, <1>5 DEF A, Collects

Joins(s, t, st) == st = s \o t

(* One stretch of AVPs is behind another: it is found when it has the code *)
(* and nothing was found before, and adds nothing when it has another.     *)
LEMMA FoundBehind ==
  ASSUME NEW X, NEW s \in Seq(X), NEW t \in Seq(X), NEW st, NEW c, Joins(s, t, st)
  PROVE  /\ (\A i \in 1..Len(t) : t[i].code # c) => AllAVPData(st, c) = AllAVPData(s, c)
         /\ (\A i \in 1..Len(t) : t[i].code = c) /\ AllAVPData(s, c) = << >> => AllAVPData(st, c) = t
<1>1. AllAVPData(st, c) = AllAVPData(s, c) \o AllAVPData(t, c)
  BY FoundJoin DEF Joins
<1>2. AllAVPData(s, c) \in Seq(X)
  BY FoundType
<1>3. ASSUME \A i \in 1..Len(t) : t[i].code # c
      PROVE  AllAVPData(st, c) = AllAVPData(s, c)
  <2>1. AllAVPData(t, c) = << >>
    BY <1>3, FoundNone
  <2> QED  BY <1>1, <1>2, <2>1
<1>4. ASSUME \A i \in 1..Len(t) : t[i].code = c, AllAVPData(s, c) = << >>
      PROVE  AllAVPData(st, c) = t
  <2>1. AllAVPData(t, c) = t
    BY <1>4, FoundAll
  <2> QED  BY <1>1, <1>4, <2>1
<1> QED  BY <1>3, <1>4

InBlocks(ss, code) ==
  /\ \A i \in 1..Len(ss) : \A j \in 1..Len(ss[i]) : ss[i][j].code = code[i]
  /\ \A i, j \in 1..Len(ss) : code[i] = code[j] => i = j

IsBlockOf(ss, code, c, found) ==
  /\ \A k \in 1..Len(ss) : code[k] = c => found = ss[k]
  /\ (\A k \in 1..Len(ss) : code[k] # c) => found = << >>

(* Blocks of AVPs, each of a code of its own: what is found is the block   *)
(* of the code.                                                            *)
LEMMA FoundInBlocks ==
  ASSUME NEW X, NEW ss \in Seq(Seq(X)), NEW code, NEW c, InBlocks(ss, code)
  PROVE  FlattenSeq(ss) \in Seq(X) /\ IsBlockOf(ss, code, c, AllAVPData(FlattenSeq(ss), c))
<1>1. PICK F \in [0..Len(ss) -> Seq(X)] :
        /\ F[0] = << >>
        /\ \A i \in 1..Len(ss) : F[i] = F[i - 1] \o ss[i]
        /\ FlattenSeq(ss) = F[Len(ss)]
  BY FlatSteps
<1>2. Len(ss) \in Nat /\ \A i \in 1..Len(ss) : ss[i] \in Seq(X) /\ F[i - 1] \in Seq(X)
  <2>1. \A i \in 1..Len(ss) : i - 1 \in 0..Len(ss)
    OBVIOUS
  <2>2. \A i \in 1..Len(ss) : F[i - 1] \in Seq(X)
    BY <1>1, <2>1
  <2>3. Len(ss) \in Nat /\ \A i \in 1..Len(ss) : ss[i] \in Seq(X)
    OBVIOUS
  <2> QED  BY <2>2, <2>3
<1>3. \A i \in 1..Len(ss) : Joins(F[i - 1], ss[i], F[i])
  BY <1>1 DEF Joins
<1>4. F[0] = << >> /\ FlattenSeq(ss) = F[Len(ss)] /\ F[Len(ss)] \in Seq(X)
  <2>1. Len(ss) \in 0..Len(ss)
    BY <1>2
  <2> QED  BY <1>1, <2>1
<1> DEFINE Block(k) == /\ \A j \in 1..k : code[j] = c => AllAVPData(F[k], c) = ss[j]
                       /\ (\A j \in 1..k : code[j] # c) => AllAVPData(F[k], c) = << >>
           A == {k \in 0..Len(ss) : Block(k)}
<1>5. 0 \in A
  <2>1. AllAVPData(<< >>, c) = << >>
    <3>1. << >> \in Seq(X) /\ Len(<< >>) = 0
      OBVIOUS
    <3>2. \A i \in 1..Len(<< >>) : << >>[i].code # c
      BY <3>1
    <3> QED  BY <3>1, <3>2, FoundNone
  <2>2. Block(0)
    BY <1>4, <2>1
  <2> HIDE DEF Block
  <2> QED  BY <1>2, <2>2
<1>6. ASSUME NEW k \in 0 .. Len(ss) - 1, k \in A
      PROVE  k + 1 \in A
  <2>1. PICK i \in 1..Len(ss) : i = k + 1 /\ i - 1 = k
    BY <1>2
  <2>2. F[k] \in Seq(X) /\ ss[i] \in Seq(X) /\ Joins(F[k], ss[i], F[i])
    BY <1>2, <1>3, <2>1
  <2>3. Block(k)
    <3> HIDE DEF Block
    <3> QED  BY <1>6
  <2>4. \A j \in 1..Len(ss[i]) : ss[i][j].code = code[i]
    BY DEF InBlocks
  <2>5. \A j \in 1..k : j \in 1..Len(ss) /\ j # i
    BY <2>1
  <2>6. CASE code[i] = c
    <3>1. \A j \in 1..k : code[j] # c
      BY <2>5, <2>6 DEF InBlocks
    <3>2. AllAVPData(F[k], c) = << >>
      BY <2>3, <3>1
    <3>3. AllAVPData(F[i], c) = ss[i]
      BY <2>2, <2>4, <2>6, <3>2, FoundBehind
    <3>4. \A j \in 1..i : code[j] = c => j = i
      BY <2>1, <3>1
    <3>5. i \in 1..i
      OBVIOUS
    <3>6. Block(i)
      BY <2>6, <3>3, <3>4, <3>5
    <3> QED  BY <2>1, <3>6
  <2>7. CASE code[i] # c
    <3>0. \A j \in 1..Len(ss[i]) : ss[i][j].code # c
      BY <2>4, <2>7
    <3>1. AllAVPData(F[i], c) = AllAVPData(F[k], c)
      BY <2>2, <3>0, FoundBehind
    <3>2. \A j \in 1..i : j = i \/ j \in 1..k
      BY <2>1
    <3>3. \A j \in 1..k : j \in 1..i
      BY <2>1
    <3>4. Block(i)
      BY <2>3, <2>7, <3>1, <3>2, <3>3
    <3> QED  BY <2>1, <3>4
  <2> QED  BY <2>6, <2>7
<1> HIDE DEF A
<1>7. 0..Len(ss) \subseteq A
  BY <1>2, <1>5, <1>6, UpTo
<1>8. Block(Len(ss))
  <2>1. Len(ss) \in A
    BY <1>2, <1>7
  <2> HIDE DEF Block
  <2> QED  BY <2>1 DEF A
<1> QED  BY <1>4, <1>8 DEF IsBlockOf

(* What an AVP is read as: its octets, and where those of a group are. *)
Alike(avp, octets) ==
  octets.code = avp.code /\ octets.data = avp.data /\ octets.sub = avp.node

AllAlike(avps, octets) ==
  Len(avps) = Len(octets) /\ \A i \in 1..Len(avps) : Alike(avps[i], octets[i])

(* The octets have the AVPs that were written. *)
LEMMA FoundAlike ==
  ASSUME NEW X, NEW s \in Seq(X), NEW Y, NEW t \in Seq(Y), NEW c, AllAlike(s, t)
  PROVE  AllAlike(AllAVPData(s, c), AllAVPData(t, c))
<1>1. PICK F : Collects(X, s, c, F)
  BY FoundSteps, Zenon
<1>2. PICK G : Collects(Y, t, c, G)
  BY FoundSteps, Zenon
<1>3. Len(s) \in Nat /\ Len(t) = Len(s)
  BY DEF AllAlike
<1> DEFINE A == {k \in 0..Len(s) : AllAlike(F[k], G[k])}
<1>4. 0 \in A
  BY <1>1, <1>2, <1>3 DEF Collects, AllAlike
<1>5. ASSUME NEW k \in 0 .. Len(s) - 1, k \in A
      PROVE  k + 1 \in A
  <2>1. PICK i \in 1..Len(s) : i = k + 1 /\ i - 1 = k
    BY <1>3
  <2>2. /\ F[k] \in Seq(X) /\ F[i] = IF s[i].code = c THEN Append(F[k], s[i]) ELSE F[k]
        /\ G[k] \in Seq(Y) /\ G[i] = IF t[i].code = c THEN Append(G[k], t[i]) ELSE G[k]
    <3>1. k \in 0..Len(s)
      BY <1>3
    <3> QED  BY <1>1, <1>2, <1>3, <2>1, <3>1 DEF Collects
  <2>3. s[i] \in X /\ t[i] \in Y /\ Alike(s[i], t[i])
    BY <1>3 DEF AllAlike
  <2>4. AllAlike(F[k], G[k])
    BY <1>5
  <2>5. CASE s[i].code # c
    <3>1. t[i].code # c
      BY <2>3, <2>5 DEF Alike
    <3> QED  BY <2>1, <2>2, <2>4, <2>5, <3>1
  <2>6. CASE s[i].code = c
    <3>1. t[i].code = c
      BY <2>3, <2>6 DEF Alike
    <3>2. F[i] = Append(F[k], s[i]) /\ G[i] = Append(G[k], t[i])
      BY <2>2, <2>6, <3>1
    <3>3. /\ Len(F[i]) = Len(F[k]) + 1 /\ Len(F[k]) \in Nat /\ F[i][Len(F[k]) + 1] = s[i]
          /\ \A j \in 1..Len(F[k]) : F[i][j] = F[k][j]
      BY <2>2, <2>3, <3>2, SMTT(30), ZenonT(30)
    <3>4. /\ Len(G[i]) = Len(G[k]) + 1 /\ Len(G[k]) \in Nat /\ G[i][Len(G[k]) + 1] = t[i]
          /\ \A j \in 1..Len(G[k]) : G[i][j] = G[k][j]
      BY <2>2, <2>3, <3>2, SMTT(30), ZenonT(30)
    <3>5. Len(F[i]) = Len(G[i])
      BY <2>4, <3>3, <3>4 DEF AllAlike
    <3>6. ASSUME NEW j \in 1..Len(F[i])
          PROVE  Alike(F[i][j], G[i][j])
      <4>1. CASE j = Len(F[k]) + 1
        BY <2>3, <2>4, <3>3, <3>4, <4>1 DEF AllAlike
      <4>2. CASE j # Len(F[k]) + 1
        <5>1. j \in 1..Len(F[k]) /\ j \in 1..Len(G[k])
          BY <2>4, <3>3, <4>2 DEF AllAlike
        <5> QED  BY <2>4, <3>3, <3>4, <5>1 DEF AllAlike
      <4> QED  BY <4>1, <4>2
    <3>7. AllAlike(F[i], G[i])
      BY <3>5, <3>6 DEF AllAlike
    <3> QED  BY <2>1, <3>7
  <2> QED  BY <2>5, <2>6
<1> HIDE DEF A
<1>6. 0..Len(s) \subseteq A
  BY <1>3, <1>4, <1>5, UpTo
<1>7. AllAlike(F[Len(s)], G[Len(s)])
  BY <1>3, <1>6 DEF A
<1> QED  BY <1>1, <1>2, <1>3, <1>7 DEF Collects

----------------------------------------------------------------------------
(* The order in which AVPs are written.                                    *)

(* Ascending enumerates a finite set of numbers. *)
LEMMA AscendingEnumerates ==
  ASSUME NEW S \in SUBSET Int, IsFiniteSet(S)
  PROVE  /\ Ascending(S) \in Seq(S)
         /\ \A i, j \in 1..Len(Ascending(S)) : Ascending(S)[i] = Ascending(S)[j] => i = j
         /\ \A c \in S : \E i \in 1..Len(Ascending(S)) : Ascending(S)[i] = c
         /\ Len(Ascending(S)) = Cardinality(S)
<1> DEFINE n == Cardinality(S)
           Under(c) == {d \in S : d < c}
           rank == [c \in S |-> Cardinality(Under(c)) + 1]
<1>1. n \in Nat
  BY FS_CardinalityType
<1>2. ASSUME NEW c \in S
      PROVE  IsFiniteSet(Under(c)) /\ Cardinality(Under(c)) \in 0 .. n - 1
  <2>1. Under(c) \in SUBSET S /\ c \notin Under(c)
    OBVIOUS
  <2>2. IsFiniteSet(Under(c)) /\ Cardinality(Under(c)) <= n /\ (n = Cardinality(Under(c)) => S = Under(c))
    BY <2>1, FS_Subset
  <2>3. Cardinality(Under(c)) \in Nat /\ Under(c) # S
    BY <2>1, <2>2, FS_CardinalityType
  <2> QED  BY <1>1, <2>2, <2>3
<1>3. ASSUME NEW c \in S, NEW e \in S, c < e
      PROVE  Cardinality(Under(c)) < Cardinality(Under(e))
  <2>0. \A d \in S : d \in Int
    OBVIOUS
  <2>1. Under(c) \in SUBSET Under(e) /\ c \in Under(e) /\ c \notin Under(c)
    <3>1. c \in Under(e) /\ c \notin Under(c)
      BY <1>3, <2>0
    <3>2. \A d \in S : d < c => d < e
      BY <1>3, <2>0
    <3> QED  BY <3>1, <3>2
  <2>2. IsFiniteSet(Under(c)) /\ IsFiniteSet(Under(e)) /\ Under(c) # Under(e)
        /\ Cardinality(Under(c)) \in Nat /\ Cardinality(Under(e)) \in Nat
    BY <1>1, <1>2, <2>1
  <2> HIDE DEF Under
  <2>3. Cardinality(Under(c)) <= Cardinality(Under(e)) /\ Cardinality(Under(c)) # Cardinality(Under(e))
    BY <2>1, <2>2, FS_Subset
  <2> QED  BY <2>2, <2>3
<1>4. \A c, e \in S : Cardinality(Under(c)) = Cardinality(Under(e)) => c = e
  <2> SUFFICES ASSUME NEW c \in S, NEW e \in S, Cardinality(Under(c)) = Cardinality(Under(e)), c # e
               PROVE  FALSE
    OBVIOUS
  <2>1. c < e \/ e < c
    OBVIOUS
  <2>2. Cardinality(Under(c)) \in Int /\ Cardinality(Under(e)) \in Int
    BY <1>1, <1>2
  <2> HIDE DEF Under
  <2> QED  BY <1>3, <2>1, <2>2
<1> HIDE DEF Under
<1>5. rank \in Injection(S, 1..n)
  <2>1. rank \in [S -> 1..n]
    BY <1>1, <1>2
  <2>2. \A c, e \in S : rank[c] = rank[e] => c = e
    BY <1>1, <1>2, <1>4
  <2> QED  BY <2>1, <2>2 DEF Injection, IsInjective
<1>6. rank \in Surjection(S, 1..n)
  <2>1. IsFiniteSet(1..n) /\ Cardinality(1..n) = n
    BY <1>1, FS_Interval
  <2> HIDE DEF rank
  <2> QED  BY <1>5, <2>1, FS_Injection
<1>7. ASSUME NEW i \in 1..n
      PROVE  /\ Ascending(S)[i] \in S
             /\ Cardinality(Under(Ascending(S)[i])) = i - 1
  <2>1. PICK c \in S : rank[c] = i
    BY <1>6 DEF Surjection
  <2>2. Cardinality(Under(c)) = i - 1
    BY <1>1, <1>2, <2>1
  <2>3. Ascending(S)[i] = CHOOSE d \in S : Cardinality(Under(d)) = i - 1
    BY DEF Ascending, Under
  <2> QED  BY <2>2, <2>3
<1>8. Ascending(S) \in Seq(S) /\ Len(Ascending(S)) = n
  <2>1. Ascending(S) = [i \in 1..n |-> Ascending(S)[i]]
    BY SMTT(30), ZenonT(30) DEF Ascending
  <2>2. Ascending(S) \in [1..n -> S]
    BY <1>7, <2>1
  <2> QED  BY <1>1, <2>2
<1>9. \A i, j \in 1..n : Ascending(S)[i] = Ascending(S)[j] => i = j
  BY <1>7
<1>10. ASSUME NEW c \in S
       PROVE  \E i \in 1..n : Ascending(S)[i] = c
  <2>1. PICK i \in 1..n : i = Cardinality(Under(c)) + 1
    BY <1>1, <1>2
  <2>2. Cardinality(Under(Ascending(S)[i])) = Cardinality(Under(c)) /\ Ascending(S)[i] \in S
    BY <1>1, <1>2, <1>7, <2>1
  <2> QED  BY <1>4, <2>2
<1> QED  BY <1>8, <1>9, <1>10

Forms == {"int", "long", "octet", "zone", "octets", "chargingId", "address", "text", "location"}

Data == [form : Forms \cup {"none"}, size : Int, value : Int]

(* An AVP that is written, and one that may be filed under a code. *)
Leaf == [type : {"BASIC", "GROUPED"}, code : Int, vendor : {0, 1}, data : Data, node : Nat, items : {<< >>}]
SetOfLeaves ==
  [type : {"GROUPEDSET"}, code : Int, vendor : {0}, data : {NoData}, node : {0}, items : Seq(Leaf)]
AVP == Leaf \cup SetOfLeaves

(* The node of an object: AVPs, each filed under its code. *)
IsNode(node) ==
  /\ IsFiniteSet(DOMAIN node) /\ DOMAIN node \subseteq Int
  /\ node \in [DOMAIN node -> AVP]
  /\ \A c \in DOMAIN node : /\ node[c].code = c
                            /\ \A i \in 1..Len(node[c].items) : node[c].items[i].code = c

Enumerates(avps, node) ==
  /\ avps \in Seq(AVP)
  /\ \A i \in 1..Len(avps) : avps[i].code \in DOMAIN node /\ avps[i] = node[avps[i].code]
  /\ \A i, j \in 1..Len(avps) : avps[i].code = avps[j].code => i = j
  /\ \A c \in DOMAIN node : \E i \in 1..Len(avps) : avps[i].code = c

(* Every AVP of a node is written once, and nothing else. *)
LEMMA InOrderEnumerates ==
  ASSUME NEW node, IsNode(node), NEW isMessage \in BOOLEAN, isMessage \/ 263 \notin DOMAIN node
  PROVE  Enumerates(InOrder(node, isMessage), node)
<1> DEFINE S == DOMAIN node \ {263}
           codes == Ascending(S)
           rest == [i \in DOMAIN codes |-> node[codes[i]]]
           first == IF isMessage /\ 263 \in DOMAIN node THEN <<node[263]>> ELSE << >>
           avps == InOrder(node, isMessage)
<1>1. S \in SUBSET Int /\ IsFiniteSet(S)
  BY FS_RemoveElement DEF IsNode
<1>2. /\ codes \in Seq(S)
      /\ \A i, j \in 1..Len(codes) : codes[i] = codes[j] => i = j
      /\ \A c \in S : \E i \in 1..Len(codes) : codes[i] = c
  <2> HIDE DEF S
  <2> QED  BY <1>1, AscendingEnumerates
<1>3. avps = first \o rest
  BY DEF InOrder
<1>4. \A c \in DOMAIN node : node[c] \in AVP /\ node[c].code = c
  BY DEF IsNode
<1>5. \A c \in S : c \in DOMAIN node /\ c # 263
  OBVIOUS
<1>6. \A c \in DOMAIN node : c \in S \/ (c = 263 /\ isMessage)
  OBVIOUS
<1> HIDE DEF S, codes, avps
<1>7. Len(codes) \in Nat /\ \A i \in 1..Len(codes) : codes[i] \in S
  BY <1>2
<1>8. rest \in Seq(AVP) /\ Len(rest) = Len(codes) /\ \A i \in 1..Len(codes) : rest[i] = node[codes[i]]
  <2>1. Len(codes) \in Nat /\ DOMAIN codes = 1..Len(codes)
    BY <1>2
  <2>2. rest \in [1..Len(codes) -> AVP]
    BY <1>4, <1>5, <1>7, <2>1
  <2> QED  BY <2>1, <2>2
<1>9. CASE isMessage /\ 263 \in DOMAIN node
  <2>1. first = <<node[263]>> /\ node[263] \in AVP /\ node[263].code = 263
    BY <1>4, <1>9
  <2>2. avps = <<node[263]>> \o rest
    BY <1>3, <2>1, Zenon
  <2> HIDE DEF first, rest
  <2>3. /\ avps \in Seq(AVP) /\ Len(avps) = 1 + Len(codes) /\ avps[1] = node[263]
        /\ \A i \in 1..Len(codes) : avps[i + 1] = node[codes[i]]
    <3>1. PICK x \in AVP : x = node[263]
      BY <2>1
    <3>2. avps = <<x>> \o rest /\ rest \in Seq(AVP)
      BY <1>8, <2>2, <3>1, Zenon
    <3>3. avps \in Seq(AVP) /\ Len(avps) = 1 + Len(rest)
      BY <3>2
    <3>4. avps[1] = x
      BY <3>2
    <3>5. \A i \in 1..Len(rest) : avps[i + 1] = rest[i]
      BY <3>2
    <3> QED  BY <1>8, <3>1, <3>3, <3>4, <3>5
  <2>4. \A i \in 1..Len(avps) : i = 1 \/ (i - 1 \in 1..Len(codes) /\ avps[i] = node[codes[i - 1]])
    <3> SUFFICES ASSUME NEW i \in 1..Len(avps), i # 1
                 PROVE  i - 1 \in 1..Len(codes) /\ avps[i] = node[codes[i - 1]]
      OBVIOUS
    <3>1. PICK k \in 1..Len(codes) : k = i - 1 /\ k + 1 = i
      BY <1>7, <2>3
    <3>2. avps[k + 1] = node[codes[k]]
      BY <2>3
    <3> QED  BY <3>1, <3>2
  <2>5. /\ avps[1].code = 263
        /\ \A i \in 1..Len(avps) : i # 1 => avps[i].code = codes[i - 1] /\ avps[i].code # 263
    BY <1>4, <1>5, <1>7, <2>1, <2>3, <2>4
  <2>6. \A i \in 1..Len(avps) : avps[i].code \in DOMAIN node /\ avps[i] = node[avps[i].code]
    <3> TAKE i \in 1..Len(avps)
    <3>1. CASE i = 1
      BY <1>9, <2>3, <2>5, <3>1
    <3>2. CASE i # 1
      <4>1. PICK j \in 1..Len(codes) : j = i - 1
        BY <2>4, <3>2
      <4>2. codes[j] \in DOMAIN node
        BY <1>5, <1>7
      <4>3. avps[i] = node[codes[j]] /\ avps[i].code = codes[j]
        BY <2>4, <2>5, <3>2, <4>1
      <4> QED  BY <4>2, <4>3, Zenon
    <3> QED  BY <3>1, <3>2
  <2>7. \A i, j \in 1..Len(avps) : avps[i].code = avps[j].code => i = j
    <3> SUFFICES ASSUME NEW i \in 1..Len(avps), NEW j \in 1..Len(avps), avps[i].code = avps[j].code
                 PROVE  i = j
      OBVIOUS
    <3>1. CASE i = 1 \/ j = 1
      BY <2>5, <3>1
    <3>2. CASE i # 1 /\ j # 1
      <4>1. i - 1 \in 1..Len(codes) /\ j - 1 \in 1..Len(codes)
        BY <2>4, <3>2
      <4>2. codes[i - 1] = codes[j - 1]
        BY <2>5, <3>2
      <4>3. i - 1 = j - 1
        BY <1>2, <4>1, <4>2
      <4> QED  BY <4>3
    <3> QED  BY <3>1, <3>2
  <2>8. ASSUME NEW c \in DOMAIN node
        PROVE  \E i \in 1..Len(avps) : avps[i].code = c
    <3>1. 1 \in 1..Len(avps)
      BY <1>7, <2>3
    <3>2. CASE c = 263
      BY <2>5, <3>1, <3>2
    <3>3. CASE c # 263
      <4>1. PICK k \in 1..Len(codes) : codes[k] = c
        BY <1>2, <1>6, <3>3
      <4>2. k + 1 \in 1..Len(avps) /\ avps[k + 1] = node[c]
        BY <1>7, <2>3, <4>1
      <4> QED  BY <1>4, <4>2
    <3> QED  BY <3>2, <3>3
  <2> QED  BY <2>3, <2>6, <2>7, <2>8 DEF Enumerates, avps
<1>10. CASE ~(isMessage /\ 263 \in DOMAIN node)
  <2>0. first = << >>
    BY <1>10, Zenon
  <2> HIDE DEF first, rest
  <2>1. avps = rest
    <3>1. << >> \o rest = rest
      BY <1>8
    <3> QED  BY <1>3, <2>0, <3>1
  <2>2. \A i \in 1..Len(avps) : avps[i] = node[codes[i]] /\ codes[i] \in DOMAIN node /\ avps[i].code = codes[i]
    BY <1>4, <1>5, <1>7, <1>8, <2>1
  <2>3. \A i, j \in 1..Len(avps) : avps[i].code = avps[j].code => i = j
    <3> SUFFICES ASSUME NEW i \in 1..Len(avps), NEW j \in 1..Len(avps), avps[i].code = avps[j].code
                 PROVE  i = j
      OBVIOUS
    <3>1. codes[i] = codes[j] /\ i \in 1..Len(codes) /\ j \in 1..Len(codes)
      BY <1>8, <2>1, <2>2
    <3> QED  BY <1>2, <3>1
  <2>4. \A c \in DOMAIN node : c \in S
    BY <1>6, <1>10
  <2>5. \A c \in DOMAIN node : \E i \in 1..Len(avps) : avps[i].code = c
    <3> SUFFICES ASSUME NEW c \in DOMAIN node
                 PROVE  \E i \in 1..Len(avps) : avps[i].code = c
      OBVIOUS
    <3>1. PICK k \in 1..Len(codes) : codes[k] = c
      BY <1>2, <2>4
    <3>2. k \in 1..Len(avps)
      BY <1>8, <2>1
    <3> QED  BY <2>2, <3>1, <3>2
  <2> QED  BY <1>8, <2>1, <2>2, <2>3, <2>5 DEF Enumerates, avps
<1> QED  BY <1>9, <1>10

Filed(node, c) == IF c \in DOMAIN node THEN Members(node[c]) ELSE << >>

(* What is found of a code among the AVPs written for a node is what is    *)
(* filed under it; and what all AVPs of the node are, those written are.   *)
LEMMA WrittenFound ==
  ASSUME NEW heap, NEW n, IsNode(heap[n]), n = 1 \/ 263 \notin DOMAIN heap[n],
         NEW X, \A c \in DOMAIN heap[n] : Members(heap[n][c]) \in Seq(X)
  PROVE  /\ Written(heap, n) \in Seq(X)
         /\ \A c : AllAVPData(Written(heap, n), c) = Filed(heap[n], c)
<1> DEFINE node == heap[n]
           avps == InOrder(node, n = 1)
           ss == [i \in DOMAIN avps |-> Members(avps[i])]
           code == [i \in DOMAIN avps |-> avps[i].code]
<1>1. /\ avps \in Seq(AVP)
      /\ \A i \in 1..Len(avps) : avps[i].code \in DOMAIN node /\ avps[i] = node[avps[i].code]
      /\ \A i, j \in 1..Len(avps) : avps[i].code = avps[j].code => i = j
      /\ \A c \in DOMAIN node : \E i \in 1..Len(avps) : avps[i].code = c
  <2>1. (n = 1) \in BOOLEAN /\ ((n = 1) \/ 263 \notin DOMAIN node)
    OBVIOUS
  <2>2. Enumerates(avps, node)
    <3>1. IsNode(node)
      OBVIOUS
    <3> HIDE DEF node
    <3> QED  BY <2>1, <3>1, InOrderEnumerates, Zenon
  <2> HIDE DEF node, avps
  <2> QED  BY <2>2 DEF Enumerates
<1>2. Written(heap, n) = FlattenSeq(ss)
  BY DEF Written
<1>3. \A c \in DOMAIN node : /\ Members(node[c]) \in Seq(X)
                             /\ \A j \in 1..Len(Members(node[c])) : Members(node[c])[j].code = c
  BY DEF IsNode, Members
<1> HIDE DEF node, avps
<1>4. Len(avps) \in Nat /\ DOMAIN avps = 1..Len(avps)
  BY <1>1
<1>5. \A i \in 1..Len(avps) : /\ Members(avps[i]) \in Seq(X)
                              /\ \A j \in 1..Len(Members(avps[i])) : Members(avps[i])[j].code = avps[i].code
  BY <1>1, <1>3
<1>6. ss \in Seq(Seq(X)) /\ Len(ss) = Len(avps)
      /\ \A i \in 1..Len(ss) : ss[i] = Members(avps[i]) /\ code[i] = avps[i].code
  <2>1. ss \in [1..Len(avps) -> Seq(X)]
    BY <1>4, <1>5
  <2> QED  BY <1>4, <2>1
<1> HIDE DEF ss, code
<1>7. InBlocks(ss, code)
  <2>1. \A i \in 1..Len(ss) : i \in 1..Len(avps)
    BY <1>6
  <2>2. \A i \in 1..Len(ss) : \A j \in 1..Len(ss[i]) : ss[i][j].code = code[i]
    BY <1>5, <1>6, <2>1, SMTT(30), ZenonT(30)
  <2>3. \A i, j \in 1..Len(ss) : code[i] = code[j] => i = j
    BY <1>1, <1>6, <2>1
  <2> QED  BY <2>2, <2>3 DEF InBlocks
<1>8. ASSUME NEW c
      PROVE  /\ AllAVPData(Written(heap, n), c) = Filed(heap[n], c)
             /\ FlattenSeq(ss) \in Seq(X)
  <2>1. /\ \A k \in 1..Len(ss) : code[k] = c => AllAVPData(FlattenSeq(ss), c) = ss[k]
        /\ (\A k \in 1..Len(ss) : code[k] # c) => AllAVPData(FlattenSeq(ss), c) = << >>
        /\ FlattenSeq(ss) \in Seq(X)
    <3>1. ss \in Seq(Seq(X))
      BY <1>6
    <3>2. FlattenSeq(ss) \in Seq(X) /\ IsBlockOf(ss, code, c, AllAVPData(FlattenSeq(ss), c))
      BY <1>7, <3>1, FoundInBlocks, Zenon
    <3> QED  BY <3>2 DEF IsBlockOf
  <2>2. CASE c \in DOMAIN node
    <3>1. PICK k \in 1..Len(avps) : avps[k].code = c
      BY <1>1, <2>2
    <3>2. ss[k] = Members(node[c]) /\ code[k] = c /\ k \in 1..Len(ss)
      BY <1>1, <1>6, <3>1
    <3> QED  BY <1>2, <2>1, <2>2, <3>2 DEF Filed, node
  <2>3. CASE c \notin DOMAIN node
    <3>1. \A k \in 1..Len(ss) : code[k] # c
      <4> SUFFICES ASSUME NEW k \in 1..Len(ss) PROVE code[k] # c
        OBVIOUS
      <4>1. k \in 1..Len(avps) /\ code[k] = avps[k].code
        BY <1>6
      <4> QED  BY <1>1, <2>3, <4>1
    <3> QED  BY <1>2, <2>1, <2>3, <3>1 DEF Filed, node
  <2> QED  BY <2>2, <2>3
<1> QED  BY <1>2, <1>8

----------------------------------------------------------------------------
(* From a node to its octets and back.                                     *)

LEMMA MembersAreLeaves ==
  ASSUME NEW node, IsNode(node), NEW c \in DOMAIN node
  PROVE  /\ Members(node[c]) \in Seq(Leaf)
         /\ \A i \in 1..Len(Members(node[c])) : Members(node[c])[i].code = c
<1>1. node[c] \in AVP /\ node[c].code = c /\ \A i \in 1..Len(node[c].items) : node[c].items[i].code = c
  BY DEF IsNode
<1>2. CASE node[c].type = "GROUPEDSET"
  <2>1. node[c].items \in Seq(Leaf)
    BY <1>1, <1>2 DEF AVP, Leaf, SetOfLeaves
  <2> QED  BY <1>1, <1>2, <2>1 DEF Members
<1>3. CASE node[c].type # "GROUPEDSET"
  <2>1. node[c] \in Leaf
    BY <1>1, <1>3 DEF AVP, SetOfLeaves
  <2> QED  BY <1>1, <1>3, <2>1 DEF Members
<1> QED  BY <1>2, <1>3

(* What GetAVPData finds of a code in the octets of a node is what has     *)
(* been filed there under that code.                                       *)
LEMMA EncodedFound ==
  ASSUME NEW heap, NEW n \in DOMAIN heap, IsNode(heap[n]), n = 1 \/ 263 \notin DOMAIN heap[n], NEW c
  PROVE  /\ AllAlike(Filed(heap[n], c), AllAVPData(EncodeAVPs(heap)[n], c))
         /\ \E Y : AllAVPData(EncodeAVPs(heap)[n], c) \in Seq(Y)
<1> DEFINE s == Written(heap, n)
           t == EncodeAVPs(heap)[n]
           Y == {t[i] : i \in 1..Len(t)}
<1>1. \A d \in DOMAIN heap[n] : Members(heap[n][d]) \in Seq(Leaf)
  BY MembersAreLeaves
<1>2. s \in Seq(Leaf) /\ AllAVPData(s, c) = Filed(heap[n], c)
  BY <1>1, WrittenFound
<1>3. t = [i \in DOMAIN s |-> [code |-> s[i].code, data |-> s[i].data, sub |-> s[i].node,
                               length |-> LengthOf(s[i], OctetsOf(heap))]]
  BY DEF EncodeAVPs
<1> HIDE DEF s, t
<1>4. DOMAIN s = 1..Len(s) /\ Len(s) \in Nat
  BY <1>2
<1>5. Len(t) = Len(s) /\ \A i \in 1..Len(s) : Alike(s[i], t[i])
  BY <1>3, <1>4 DEF Alike
<1>6. t \in Seq(Y)
  <2>1. t = [i \in 1..Len(t) |-> t[i]]
    BY <1>3, <1>4, <1>5
  <2>2. t \in [1..Len(t) -> Y]
    BY <2>1
  <2> QED  BY <1>4, <1>5, <2>2
<1> HIDE DEF Y
<1>7. AllAlike(s, t)
  BY <1>5 DEF AllAlike
<1>8. AllAlike(AllAVPData(s, c), AllAVPData(t, c))
  BY <1>2, <1>6, <1>7, FoundAlike
<1>9. AllAVPData(t, c) \in Seq(Y)
  BY <1>6, FoundType
<1> QED  BY <1>2, <1>8, <1>9 DEF t

----------------------------------------------------------------------------
(* Recursive functions.                                                    *)

Recurs(f, n, T, a, next) ==
  f \in [0..n -> T] /\ f[0] = a /\ \A i \in 1..n : f[i] = next[<<i, f[i - 1]>>]

(* A recursion over 0..n that stays in T has a solution. *)
LEMMA Recursion ==
  ASSUME NEW T, NEW n \in Nat, NEW a \in T, NEW next \in [(1..n) \X T -> T]
  PROVE  \E f : Recurs(f, n, T, a, next)
<1> DEFINE Solves(f, k) == f \in [0..k -> T] /\ f[0] = a /\ \A i \in 1..k : f[i] = next[<<i, f[i - 1]>>]
           A == {k \in 0..n : \E f : Solves(f, k)}
<1>1. 0 \in A
  <2>1. Solves([i \in 0..0 |-> a], 0)
    OBVIOUS
  <2> HIDE DEF Solves
  <2> QED  BY <2>1
<1>2. ASSUME NEW k \in 0 .. n - 1, k \in A
      PROVE  k + 1 \in A
  <2>1. PICK f : Solves(f, k)
    <3> HIDE DEF Solves
    <3> QED  BY <1>2
  <2>2. f \in [0..k -> T] /\ f[0] = a /\ \A i \in 1..k : f[i] = next[<<i, f[i - 1]>>]
    BY <2>1
  <2> DEFINE g == [i \in 0 .. k + 1 |-> IF i = k + 1 THEN next[<<k + 1, f[k]>>] ELSE f[i]]
  <2>3. f[k] \in T /\ k + 1 \in 1..n
    BY <2>2
  <2>4. next[<<k + 1, f[k]>>] \in T
    <3>1. <<k + 1, f[k]>> \in (1..n) \X T
      BY <2>3
    <3> QED  BY <3>1
  <2>5. g \in [0 .. k + 1 -> T] /\ g[0] = a
    BY <2>2, <2>4
  <2>6. ASSUME NEW i \in 1 .. k + 1
        PROVE  g[i] = next[<<i, g[i - 1]>>]
    <3>1. CASE i = k + 1
      <4>1. i - 1 = k /\ k \in 0 .. k + 1 /\ k # k + 1
        BY <3>1
      <4>2. g[i - 1] = f[k]
        BY <4>1
      <4>3. g[i] = next[<<k + 1, f[k]>>]
        BY <3>1
      <4> QED  BY <3>1, <4>2, <4>3, Zenon
    <3>2. CASE i # k + 1
      <4>1. i \in 1..k /\ i - 1 \in 0 .. k + 1 /\ i - 1 # k + 1
        BY <3>2
      <4>2. g[i] = f[i] /\ g[i - 1] = f[i - 1]
        BY <3>2, <4>1
      <4> QED  BY <2>2, <4>1, <4>2
    <3> QED  BY <3>1, <3>2
  <2> HIDE DEF g
  <2>7. Solves(g, k + 1)
    BY <2>5, <2>6
  <2> HIDE DEF Solves
  <2>8. k + 1 \in 0..n
    BY <2>3
  <2> QED  BY <2>7, <2>8
<1> HIDE DEF A
<1>3. n \in A
  <2>1. 0..n \subseteq A
    BY <1>1, <1>2, UpTo
  <2> QED  BY <2>1
<1>4. PICK f : Solves(f, n)
  <2> HIDE DEF Solves
  <2> QED  BY <1>3 DEF A
<1>5. Recurs(f, n, T, a, next)
  BY <1>4 DEF Recurs
<1> QED  BY <1>5

(* A table whose entries are made of later entries has a solution. *)
LEMMA Backwards ==
  ASSUME NEW n \in Nat, NEW make \in [1..n -> [[1..n -> Int] -> Int]],
         \A i \in 1..n : \A f, g \in [1..n -> Int] :
           (\A j \in i + 1 .. n : f[j] = g[j]) => make[i][f] = make[i][g]
  PROVE  \E f \in [1..n -> Int] : \A i \in 1..n : f[i] = make[i][f]
<1> DEFINE Solves(f, k) == f \in [1..n -> Int] /\ \A i \in n - k + 1 .. n : f[i] = make[i][f]
           A == {k \in 0..n : \E f : Solves(f, k)}
<1>1. 0 \in A
  <2>1. Solves([i \in 1..n |-> 0], 0)
    OBVIOUS
  <2> HIDE DEF Solves
  <2> QED  BY <2>1
<1>2. ASSUME NEW k \in 0 .. n - 1, k \in A
      PROVE  k + 1 \in A
  <2>1. PICK f : Solves(f, k)
    <3> HIDE DEF Solves
    <3> QED  BY <1>2
  <2>2. f \in [1..n -> Int] /\ \A i \in n - k + 1 .. n : f[i] = make[i][f]
    BY <2>1
  <2>3. PICK p \in 1..n : p = n - k
    OBVIOUS
  <2>4. make[p][f] \in Int
    BY <2>2
  <2> DEFINE g == [f EXCEPT ![p] = make[p][f]]
  <2>5. g \in [1..n -> Int] /\ g[p] = make[p][f] /\ \A i \in 1..n : i # p => g[i] = f[i]
    BY <2>2, <2>4
  <2> HIDE DEF g
  <2>6. ASSUME NEW i \in p..n
        PROVE  g[i] = make[i][g]
    <3>0. i \in 1..n
      OBVIOUS
    <3>1. \A j \in i + 1 .. n : j \in 1..n /\ j # p
      OBVIOUS
    <3>2. make[i][g] = make[i][f]
      BY <2>2, <2>5, <3>0, <3>1
    <3>3. CASE i = p
      BY <2>5, <3>2, <3>3
    <3>4. CASE i # p
      <4>1. i \in n - k + 1 .. n
        BY <2>3, <3>4
      <4> QED  BY <2>2, <2>5, <3>0, <3>2, <3>4, <4>1
    <3> QED  BY <3>3, <3>4
  <2>7. n - (k + 1) + 1 = p /\ k + 1 \in 0..n
    BY <2>3
  <2>8. Solves(g, k + 1)
    BY <2>5, <2>6, <2>7
  <2> HIDE DEF Solves
  <2> QED  BY <2>7, <2>8
<1> HIDE DEF A
<1>3. n \in A
  <2>1. 0..n \subseteq A
    BY <1>1, <1>2, UpTo
  <2> QED  BY <2>1
<1>4. PICK f : Solves(f, n)
  <2> HIDE DEF Solves
  <2> QED  BY <1>3 DEF A
<1>5. n - n + 1 = 1
  OBVIOUS
<1> QED  BY <1>4, <1>5

----------------------------------------------------------------------------
(* The two books of the coder.                                             *)

(* Total adds one number after the other. *)
LEMMA TotalSteps ==
  ASSUME NEW s \in Seq(Int)
  PROVE  \E f \in [0..Len(s) -> Int] :
           f[0] = 0 /\ (\A i \in 1..Len(s) : f[i] = f[i - 1] + s[i]) /\ Total(s) = f[Len(s)]
<1> DEFINE IsSum(f) == f = [i \in 0..Len(s) |-> IF i = 0 THEN 0 ELSE f[i - 1] + s[i]]
           next == [q \in (1..Len(s)) \X Int |-> q[2] + s[q[1]]]
<1>1. Len(s) \in Nat /\ \A i \in 1..Len(s) : s[i] \in Int
  OBVIOUS
<1>2. next \in [(1..Len(s)) \X Int -> Int]
  BY <1>1
<1>3. PICK f : Recurs(f, Len(s), Int, 0, next)
  <2> HIDE DEF next
  <2>1. 0 \in Int /\ Len(s) \in Nat
    BY <1>1
  <2> QED  BY <1>2, <2>1, Recursion, Zenon
<1>12. f \in [0..Len(s) -> Int] /\ f[0] = 0
  BY <1>3 DEF Recurs
<1>4. \A i \in 1..Len(s) : f[i] = f[i - 1] + s[i]
  <2> SUFFICES ASSUME NEW i \in 1..Len(s) PROVE f[i] = f[i - 1] + s[i]
    OBVIOUS
  <2>1. f[i - 1] \in Int
    BY <1>1, <1>12, SMTT(30), ZenonT(30)
  <2>2. next[<<i, f[i - 1]>>] = f[i - 1] + s[i]
    BY <2>1
  <2> HIDE DEF next
  <2> QED  BY <1>3, <2>2 DEF Recurs
<1>5. IsSum(f)
  <2>1. f = [i \in 0..Len(s) |-> f[i]]
    BY <1>12
  <2>2. \A i \in 0..Len(s) : f[i] = IF i = 0 THEN 0 ELSE f[i - 1] + s[i]
    BY <1>1, <1>12, <1>4
  <2> QED  BY <2>1, <2>2
<1> DEFINE g == CHOOSE g : IsSum(g)
<1>6. Total(s) = g[Len(s)]
  BY DEF Total
<1>7. IsSum(g)
  <2> HIDE DEF IsSum
  <2> QED  BY <1>5
<1> HIDE DEF g
<1>8. \A i \in 0..Len(s) : g[i] = IF i = 0 THEN 0 ELSE g[i - 1] + s[i]
  BY <1>7, Zenon
<1> DEFINE A == {i \in 0..Len(s) : g[i] = f[i]}
<1>9. 0 \in A
  BY <1>1, <1>12, <1>8
<1>10. ASSUME NEW k \in 0 .. Len(s) - 1, k \in A
       PROVE  k + 1 \in A
  <2>1. PICK i \in 1..Len(s) : i = k + 1 /\ i - 1 = k
    BY <1>1
  <2>2. g[i] = g[i - 1] + s[i]
    BY <1>8, <2>1
  <2> QED  BY <1>4, <1>10, <2>1, <2>2
<1> HIDE DEF A
<1>11. Len(s) \in A
  <2>1. 0..Len(s) \subseteq A
    BY <1>1, <1>9, <1>10, UpTo
  <2> QED  BY <1>1, <2>1
<1> QED  BY <1>12, <1>4, <1>6, <1>11 DEF A

(* A sum of multiples of four is one. *)
LEMMA TotalTyped ==
  ASSUME NEW s \in Seq(Int)
  PROVE  Total(s) \in Int /\ ((\A i \in 1..Len(s) : s[i] % 4 = 0) => Total(s) % 4 = 0)
<1>1. PICK f \in [0..Len(s) -> Int] :
        f[0] = 0 /\ (\A i \in 1..Len(s) : f[i] = f[i - 1] + s[i]) /\ Total(s) = f[Len(s)]
  BY TotalSteps
<1>2. Len(s) \in Nat /\ \A i \in 1..Len(s) : s[i] \in Int
  OBVIOUS
<1>3. Total(s) \in Int
  BY <1>1, <1>2
<1>4. ASSUME \A i \in 1..Len(s) : s[i] % 4 = 0
      PROVE  Total(s) % 4 = 0
  <2> DEFINE A == {i \in 0..Len(s) : f[i] % 4 = 0}
  <2>1. 0 \in A
    BY <1>1, <1>2
  <2>2. ASSUME NEW k \in 0 .. Len(s) - 1, k \in A
        PROVE  k + 1 \in A
    <3>1. PICK i \in 1..Len(s) : i = k + 1 /\ i - 1 = k
      BY <1>2
    <3>2. PICK x \in Int, y \in Int : x = f[k] /\ y = s[i] /\ x % 4 = 0 /\ y % 4 = 0
      BY <1>2, <1>4, <2>2
    <3>3. (x + y) % 4 = 0
      <4>1. \A u, v \in Int : u % 4 = 0 /\ v % 4 = 0 => (u + v) % 4 = 0
        BY SMTT(30), ZenonT(30)
      <4> QED  BY <3>2, <4>1, Zenon
    <3>4. f[i] = x + y
      BY <1>1, <3>1, <3>2
    <3> QED  BY <1>2, <3>1, <3>3, <3>4
  <2> HIDE DEF A
  <2>3. Len(s) \in A
    <3>1. 0..Len(s) \subseteq A
      BY <1>2, <2>1, <2>2, UpTo
    <3> QED  BY <1>2, <3>1
  <2> QED  BY <1>1, <2>3 DEF A
<1> QED  BY <1>3, <1>4

(* What a written AVP of node n may be: a group is pointed to, has no data *)
(* of its own and comes later; what is no group for GetAVPType is a leaf.  *)
Shaped(n, last, avp) ==
  /\ avp.type = "GROUPED" => avp.node \in n + 1 .. last /\ avp.data = NoData
  /\ avp.type = "BASIC" => GetAVPType(avp.code) = "BASIC"

ShapedNode(node, n, last) ==
  /\ IsNode(node)
  /\ n = 1 \/ 263 \notin DOMAIN node
  /\ \A c \in DOMAIN node : \A i \in 1..Len(Members(node[c])) : Shaped(n, last, Members(node[c])[i])

IsHeap(heap) ==
  /\ Len(heap) \in Nat /\ DOMAIN heap = 1..Len(heap)
  /\ \A n \in 1..Len(heap) : ShapedNode(heap[n], n, Len(heap))

(* The AVPs of a node that are written keep their shape. *)
LEMMA WrittenShaped ==
  ASSUME NEW heap, IsHeap(heap), NEW n \in 1..Len(heap)
  PROVE  Written(heap, n) \in Seq({avp \in Leaf : Shaped(n, Len(heap), avp)})
<1> DEFINE X == {avp \in Leaf : Shaped(n, Len(heap), avp)}
<1>1. ShapedNode(heap[n], n, Len(heap))
  BY DEF IsHeap
<1>2. IsNode(heap[n]) /\ (n = 1 \/ 263 \notin DOMAIN heap[n])
  BY <1>1 DEF ShapedNode
<1>3. ASSUME NEW c \in DOMAIN heap[n]
      PROVE  Members(heap[n][c]) \in Seq(X)
  <2>1. Members(heap[n][c]) \in Seq(Leaf)
    BY <1>2, MembersAreLeaves
  <2>2. \A i \in 1..Len(Members(heap[n][c])) : Shaped(n, Len(heap), Members(heap[n][c])[i])
    BY <1>1 DEF ShapedNode
  <2>3. PICK s \in Seq(Leaf) : s = Members(heap[n][c])
    BY <2>1
  <2>4. \A i \in 1..Len(s) : s[i] \in X
    BY <2>2, <2>3
  <2> HIDE DEF X
  <2>5. s \in Seq(X)
    BY <2>4
  <2> QED  BY <2>3, <2>5
<1> HIDE DEF X
<1>4. Written(heap, n) \in Seq(X)
  BY <1>2, <1>3, WrittenFound
<1> QED  BY <1>4 DEF X

(* The decoder takes for groups what is a group. *)
LEMMA GroupsDecode ==
  ASSUME NEW heap, IsHeap(heap)
  PROVE  DecodesAVPs(EncodeAVPs(heap))
<1> SUFFICES ASSUME NEW n \in 1..Len(heap), NEW i \in DOMAIN EncodeAVPs(heap)[n],
                    GetAVPType(EncodeAVPs(heap)[n][i].code) # "BASIC"
             PROVE  EncodeAVPs(heap)[n][i].data.form = "none"
  BY DEF DecodesAVPs, EncodeAVPs, IsHeap
<1> DEFINE s == Written(heap, n)
<1>1. s \in Seq({avp \in Leaf : Shaped(n, Len(heap), avp)})
  BY WrittenShaped
<1>2. n \in DOMAIN heap
  BY DEF IsHeap
<1>3. i \in DOMAIN s /\ EncodeAVPs(heap)[n][i].code = s[i].code /\ EncodeAVPs(heap)[n][i].data = s[i].data
  BY <1>2 DEF EncodeAVPs
<1> HIDE DEF s
<1>4. s[i] \in Leaf /\ Shaped(n, Len(heap), s[i])
  BY <1>1, <1>3
<1>5. s[i].type = "GROUPED"
  BY <1>3, <1>4 DEF Leaf, Shaped
<1> QED  BY <1>3, <1>4, <1>5 DEF Shaped, NoData

(* The octets of one AVP with its filler are a multiple of four, and what  *)
(* is counted for it, when this is so of what it points to.                *)
LEMMA OneAVP ==
  ASSUME NEW last \in Nat, NEW n \in 1..last, NEW avp \in Leaf, Shaped(n, last, avp),
         NEW f \in [1..last -> Int]
  PROVE  /\ Padded(LengthOf(avp, f)) \in Int /\ Padded(LengthOf(avp, f)) % 4 = 0
         /\ (\A k \in n + 1 .. last : f[k] % 4 = 0) =>
              CountOf(avp, f, Padded(avp.data.size)) = Padded(LengthOf(avp, f))
<1>1. \A x \in Int : Padded(x) \in Int /\ Padded(x) % 4 = 0 /\ (x % 4 = 0 => Padded(x) = x)
  BY DEF Padded
<1>2. \A x \in Int, v \in {0, 1} : Padded(HeaderSize(v) + x) = HeaderSize(v) + Padded(x) /\ HeaderSize(v) \in Int
  BY DEF Padded, HeaderSize
<1>3. avp.vendor \in {0, 1} /\ avp.data.size \in Int
  BY DEF Leaf, Data
<1>4. CASE avp.type = "GROUPED"
  <2>1. avp.node \in n + 1 .. last /\ avp.node \in 1..last
    BY <1>4 DEF Shaped
  <2>2. f[avp.node] \in Int
    BY <2>1
  <2>3. /\ LengthOf(avp, f) = HeaderSize(avp.vendor) + f[avp.node]
        /\ CountOf(avp, f, Padded(avp.data.size)) = HeaderSize(avp.vendor) + f[avp.node]
    BY <1>4 DEF LengthOf, CountOf
  <2>4. PICK v \in {0, 1}, x \in Int : v = avp.vendor /\ x = f[avp.node]
    BY <1>3, <2>2
  <2>5. HeaderSize(v) + x \in Int
    BY DEF HeaderSize
  <2>6. Padded(HeaderSize(v) + x) = HeaderSize(v) + Padded(x)
    BY <1>2
  <2> QED  BY <1>1, <2>1, <2>3, <2>4, <2>5, <2>6
<1>5. CASE avp.type # "GROUPED"
  <2>1. /\ LengthOf(avp, f) = HeaderSize(avp.vendor) + avp.data.size
        /\ CountOf(avp, f, Padded(avp.data.size)) = HeaderSize(avp.vendor) + Padded(avp.data.size)
    BY <1>5 DEF LengthOf, CountOf
  <2>4. PICK v \in {0, 1}, x \in Int : v = avp.vendor /\ x = avp.data.size
    BY <1>3
  <2>5. HeaderSize(v) + x \in Int
    BY DEF HeaderSize
  <2>6. Padded(HeaderSize(v) + x) = HeaderSize(v) + Padded(x)
    BY <1>2
  <2> QED  BY <1>1, <2>1, <2>4, <2>5, <2>6
<1> QED  BY <1>4, <1>5

(* What an AVP counts for depends on the nodes behind its own only. *)
LEMMA OneAVPLooksAhead ==
  ASSUME NEW last \in Nat, NEW n \in 1..last, NEW avp \in Leaf, Shaped(n, last, avp),
         NEW f, NEW g, \A k \in n + 1 .. last : f[k] = g[k], NEW leaf
  PROVE  LengthOf(avp, f) = LengthOf(avp, g) /\ CountOf(avp, f, leaf) = CountOf(avp, g, leaf)
BY DEF LengthOf, CountOf, Shaped

OctetsIn(heap, n, f) ==
  LET avps == Written(heap, n)
  IN  Total([i \in DOMAIN avps |-> Padded(LengthOf(avps[i], f))])

CountIn(heap, n, f) ==
  LET avps == Written(heap, n)
  IN  Total([i \in DOMAIN avps |-> CountOf(avps[i], f, Padded(avps[i].data.size))])

(* The octets of one node, from those of the nodes it points to. *)
LEMMA OneNode ==
  ASSUME NEW heap, IsHeap(heap), NEW n \in 1..Len(heap), NEW f \in [1..Len(heap) -> Int]
  PROVE  /\ OctetsIn(heap, n, f) \in Int /\ OctetsIn(heap, n, f) % 4 = 0
         /\ (\A k \in n + 1 .. Len(heap) : f[k] % 4 = 0) => CountIn(heap, n, f) = OctetsIn(heap, n, f)
<1> DEFINE s == Written(heap, n)
           o == [i \in DOMAIN s |-> Padded(LengthOf(s[i], f))]
           c == [i \in DOMAIN s |-> CountOf(s[i], f, Padded(s[i].data.size))]
<1>1. s \in Seq({avp \in Leaf : Shaped(n, Len(heap), avp)}) /\ Len(heap) \in Nat
  BY WrittenShaped DEF IsHeap
<1>2. OctetsIn(heap, n, f) = Total(o) /\ CountIn(heap, n, f) = Total(c)
  BY DEF OctetsIn, CountIn
<1> HIDE DEF s
<1>3. Len(s) \in Nat /\ DOMAIN s = 1..Len(s) /\ \A i \in 1..Len(s) : s[i] \in Leaf /\ Shaped(n, Len(heap), s[i])
  BY <1>1
<1>4. \A i \in 1..Len(s) :
        /\ Padded(LengthOf(s[i], f)) \in Int /\ Padded(LengthOf(s[i], f)) % 4 = 0
        /\ (\A k \in n + 1 .. Len(heap) : f[k] % 4 = 0) =>
             CountOf(s[i], f, Padded(s[i].data.size)) = Padded(LengthOf(s[i], f))
  BY <1>1, <1>3, OneAVP
<1>5. o \in Seq(Int) /\ \A i \in 1..Len(o) : o[i] % 4 = 0
  <2>1. o \in [1..Len(s) -> Int]
    BY <1>3, <1>4
  <2>2. o \in Seq(Int) /\ Len(o) = Len(s)
    BY <1>3, <2>1
  <2>3. \A i \in 1..Len(s) : o[i] = Padded(LengthOf(s[i], f))
    BY <1>3
  <2> HIDE DEF o
  <2> QED  BY <1>4, <2>2, <2>3
<1>6. ASSUME \A k \in n + 1 .. Len(heap) : f[k] % 4 = 0
      PROVE  c = o
  BY <1>3, <1>4, <1>6
<1> HIDE DEF o, c
<1>7. Total(o) \in Int /\ Total(o) % 4 = 0
  BY <1>5, TotalTyped
<1> QED  BY <1>2, <1>6, <1>7

(* What a node counts for depends on the nodes behind it only. *)
LEMMA OneNodeLooksAhead ==
  ASSUME NEW heap, IsHeap(heap), NEW n \in 1..Len(heap),
         NEW f, NEW g, \A k \in n + 1 .. Len(heap) : f[k] = g[k]
  PROVE  OctetsIn(heap, n, f) = OctetsIn(heap, n, g) /\ CountIn(heap, n, f) = CountIn(heap, n, g)
<1> DEFINE s == Written(heap, n)
<1>1. s \in Seq({avp \in Leaf : Shaped(n, Len(heap), avp)}) /\ Len(heap) \in Nat
  BY WrittenShaped DEF IsHeap
<1>2. \A i \in DOMAIN s : s[i] \in Leaf /\ Shaped(n, Len(heap), s[i])
  <2> HIDE DEF s
  <2> QED  BY <1>1
<1>3. \A i \in DOMAIN s :
        /\ LengthOf(s[i], f) = LengthOf(s[i], g)
        /\ CountOf(s[i], f, Padded(s[i].data.size)) = CountOf(s[i], g, Padded(s[i].data.size))
  <2> HIDE DEF s
  <2> TAKE i \in DOMAIN s
  <2>1. s[i] \in Leaf /\ Shaped(n, Len(heap), s[i])
    BY <1>2
  <2>2. \A leaf : LengthOf(s[i], f) = LengthOf(s[i], g) /\ CountOf(s[i], f, leaf) = CountOf(s[i], g, leaf)
    BY <1>1, <2>1, OneAVPLooksAhead
  <2> QED  BY <2>2
<1>4. [i \in DOMAIN s |-> Padded(LengthOf(s[i], f))] = [i \in DOMAIN s |-> Padded(LengthOf(s[i], g))]
  <2> HIDE DEF s
  <2> QED  BY <1>3
<1>5. [i \in DOMAIN s |-> CountOf(s[i], f, Padded(s[i].data.size))]
        = [i \in DOMAIN s |-> CountOf(s[i], g, Padded(s[i].data.size))]
  <2> HIDE DEF s
  <2> QED  BY <1>3
<1> QED  BY <1>4, <1>5 DEF OctetsIn, CountIn

(* The two books agree, in every node of a message. *)
LEMMA BooksAgree ==
  ASSUME NEW heap, IsHeap(heap)
  PROVE  \A n \in 1..Len(heap) : /\ OctetsOf(heap)[n] = CountedSize(heap)[n]
                                 /\ OctetsOf(heap)[n] = OctetsIn(heap, n, OctetsOf(heap))
<1> DEFINE last == Len(heap)
           make == [n \in 1..last |-> [f \in [1..last -> Int] |-> OctetsIn(heap, n, f)]]
           IsOctets(f) == f = [n \in DOMAIN heap |-> OctetsIn(heap, n, f)]
           IsCount(f) == f = [n \in DOMAIN heap |-> CountIn(heap, n, f)]
<1>1. last \in Nat /\ DOMAIN heap = 1..last
  BY DEF IsHeap
<1>2. \A n \in 1..last : \A f \in [1..last -> Int] : make[n][f] = OctetsIn(heap, n, f)
  OBVIOUS
<1>3. \E f \in [1..last -> Int] : \A n \in 1..last : f[n] = make[n][f]
  <2>1. make \in [1..last -> [[1..last -> Int] -> Int]]
    BY OneNode
  <2>2. \A i \in 1..last : \A f, g \in [1..last -> Int] :
          (\A j \in i + 1 .. last : f[j] = g[j]) => make[i][f] = make[i][g]
    <3> HIDE DEF make
    <3> QED  BY <1>2, OneNodeLooksAhead
  <2> HIDE DEF make
  <2> QED  BY <1>1, <2>1, <2>2, Backwards
<1> HIDE DEF make
<1>4. PICK f \in [1..last -> Int] : \A n \in 1..last : f[n] = OctetsIn(heap, n, f)
  BY <1>2, <1>3
<1>5. \A n \in 1..last : f[n] % 4 = 0
  BY <1>4, OneNode
<1>6. \A n \in 1..last : f[n] = CountIn(heap, n, f)
  <2> SUFFICES ASSUME NEW n \in 1..last PROVE f[n] = CountIn(heap, n, f)
    OBVIOUS
  <2>1. \A k \in n + 1 .. last : f[k] % 4 = 0
    BY <1>1, <1>5
  <2> QED  BY <1>4, <2>1, OneNode
<1>7. IsOctets(f) /\ IsCount(f)
  BY <1>1, <1>4, <1>6
<1> DEFINE octets == CHOOSE g : IsOctets(g)
           counted == CHOOSE g : IsCount(g)
<1>8. OctetsOf(heap) = octets /\ CountedSize(heap) = counted
  BY DEF OctetsOf, CountedSize, OctetsIn, CountIn
<1>9. IsOctets(octets) /\ IsCount(counted)
  <2> HIDE DEF IsOctets, IsCount
  <2> QED  BY <1>7
<1> HIDE DEF octets, counted
<1>10. \A n \in 1..last : octets[n] = OctetsIn(heap, n, octets) /\ counted[n] = CountIn(heap, n, counted)
  <2>1. \A n \in DOMAIN heap : octets[n] = OctetsIn(heap, n, octets)
    BY <1>9, Zenon
  <2>2. \A n \in DOMAIN heap : counted[n] = CountIn(heap, n, counted)
    BY <1>9, Zenon
  <2> QED  BY <1>1, <2>1, <2>2
<1> DEFINE A == {k \in 0..last : \A n \in last - k + 1 .. last : octets[n] = f[n] /\ counted[n] = f[n]}
<1>11. 0 \in A
  <2>1. \A l \in Nat : l - 0 + 1 .. l = {} /\ 0 \in 0..l
    OBVIOUS
  <2>2. last - 0 + 1 .. last = {} /\ 0 \in 0..last
    BY <1>1, <2>1, Zenon
  <2> QED  BY <2>2, Zenon
<1>12. ASSUME NEW k \in 0 .. last - 1, k \in A
       PROVE  k + 1 \in A
  <2>0. \A l \in Nat : \A j \in 0 .. l - 1 :
          /\ l - j \in 1..l /\ j + 1 \in 0..l
          /\ \A n \in l - (j + 1) + 1 .. l : n = l - j \/ n \in (l - j) + 1 .. l
    OBVIOUS
  <2>1. PICK p \in 1..last : p = last - k
    BY <1>1, <2>0, Zenon
  <2>2. \A n \in p + 1 .. last : octets[n] = f[n] /\ counted[n] = f[n]
    <3>1. last - k + 1 = p + 1
      <4>1. \A l \in Nat, j \in Int : l - j + 1 = (l - j) + 1
        OBVIOUS
      <4> QED  BY <1>1, <2>1, <4>1, Zenon
    <3>2. \A n \in last - k + 1 .. last : octets[n] = f[n] /\ counted[n] = f[n]
      BY <1>12, Zenon
    <3> QED  BY <3>1, <3>2, Zenon
  <2>3. OctetsIn(heap, p, octets) = OctetsIn(heap, p, f) /\ CountIn(heap, p, counted) = CountIn(heap, p, f)
    BY <2>2, OneNodeLooksAhead
  <2>4. octets[p] = f[p] /\ counted[p] = f[p]
    BY <1>4, <1>6, <1>10, <2>3
  <2>5. k + 1 \in 0..last /\ \A n \in last - (k + 1) + 1 .. last : n = p \/ n \in p + 1 .. last
    BY <1>1, <2>0, <2>1, Zenon
  <2> QED  BY <2>2, <2>4, <2>5, Zenon
<1> HIDE DEF A
<1>13. \A n \in 1..last : octets[n] = f[n] /\ counted[n] = f[n]
  <2>1. last \in A
    <3>1. 0..last \subseteq A
      BY <1>1, <1>11, <1>12, UpTo
    <3> QED  BY <1>1, <3>1
  <2>2. last - last + 1 = 1
    BY <1>1
  <2> QED  BY <2>1, <2>2 DEF A
<1> QED  BY <1>8, <1>10, <1>13

(* The decoder accepts what the coder made. *)
LEMMA EncodedDecodes ==
  ASSUME NEW heap, IsHeap(heap), Len(heap) > 0
  PROVE  Decodes(Encode(heap))
<1> DEFINE octets == OctetsOf(heap)
           avps == Written(heap, 1)
<1>1. 1 \in 1..Len(heap) /\ 1 \in DOMAIN heap
  BY DEF IsHeap
<1>2. octets[1] = CountedSize(heap)[1] /\ octets[1] = OctetsIn(heap, 1, octets)
  BY <1>1, BooksAgree
<1>3. EncodeAVPs(heap)[1] = [i \in DOMAIN avps |-> [code |-> avps[i].code, data |-> avps[i].data,
                               sub |-> avps[i].node, length |-> LengthOf(avps[i], octets)]]
  BY <1>1 DEF EncodeAVPs
<1> HIDE DEF avps
<1>4. Octets(EncodeAVPs(heap)[1]) = Total([i \in DOMAIN avps |-> Padded(LengthOf(avps[i], octets))])
  <2>1. [i \in DOMAIN EncodeAVPs(heap)[1] |-> Padded(EncodeAVPs(heap)[1][i].length)]
          = [i \in DOMAIN avps |-> Padded(LengthOf(avps[i], octets))]
    BY <1>3
  <2> QED  BY <2>1 DEF Octets
<1>5. Octets(EncodeAVPs(heap)[1]) = CountedSize(heap)[1]
  BY <1>2, <1>4 DEF OctetsIn, avps
<1>6. DecodesAVPs(EncodeAVPs(heap))
  BY GroupsDecode
<1> QED  BY <1>5, <1>6 DEF Decodes, Encode

----------------------------------------------------------------------------
(* The tables: each lemma goes through the classes.                        *)

(* The codes of the rows are sorted as GetAVPType sorts them, and keep     *)
(* clear of those the operations outside of the table use.                 *)
SoundRow(k, r) ==
  /\ r.code \in Int /\ r.code \in 1..3000 /\ r.vendor \in {0, 1}
  /\ r.code = 263 => k \in {"CCR", "CCA"}
  /\ k = "MSCC" => r.code # 439
  /\ r.code \notin {441, 442, 870, 1067, 1264}
  /\ r.name \notin {"ServiceParameterInfoType", "ServiceParameterInfoValue"}
  /\ IsValue(r) => r.form \in Forms \cup {"none"} /\ GetAVPType(r.code) = "BASIC"
  /\ ~IsValue(r) => /\ r.class \in DOMAIN Writes \ {"CCR", "CCA", "Trigger"}
                    /\ r.rule \in {"once", "replace", "keep", "set"}

SoundRows(k) == \A r \in Writes[k] : SoundRow(k, r)

(* Every row of a writer is sound.                                         *)
LEMMA RowsAreSound ==
  \A k \in DOMAIN Writes : SoundRows(k)
<1> SUFFICES ASSUME NEW k \in DOMAIN Writes PROVE SoundRows(k)
  OBVIOUS
<1>1. CASE k = "CCR"
  BY <1>1, SMTT(20) DEF SoundRows, SoundRow, Forms, GetAVPType, Value, Child, Vendor, Plain,
       IsValue, Writes, CCRWrites
<1>2. CASE k = "CCA"
  BY <1>2, SMTT(20) DEF SoundRows, SoundRow, Forms, GetAVPType, Value, Child, Vendor, Plain,
       IsValue, Writes, CCAWrites
<1>3. CASE k = "MSCC"
  BY <1>3, SMTT(20) DEF SoundRows, SoundRow, Forms, GetAVPType, Value, Child, Vendor, Plain,
       IsValue, Writes, MSCCWrites
<1>4. CASE k = "Units"
  BY <1>4, SMTT(20) DEF SoundRows, SoundRow, Forms, GetAVPType, Value, Child, Vendor, Plain,
       IsValue, Writes, UnitsWrites
<1>5. CASE k = "PSInformation"
  BY <1>5, SMTT(20) DEF SoundRows, SoundRow, Forms, GetAVPType, Value, Child, Vendor, Plain,
       IsValue, Writes, PSInformationWrites
<1>6. CASE k = "IMSInformation"
  BY <1>6, SMTT(20) DEF SoundRows, SoundRow, Forms, GetAVPType, Value, Child, Vendor, Plain,
       IsValue, Writes, IMSInformationWrites
<1>7. CASE k \in {"Money", "SubscriptionId", "OtherPartyId", "SPI", "Trigger", "UserEquipmentInfo", "ServiceInformation"}
  BY <1>7, SMTT(20) DEF SoundRows, SoundRow, Forms, GetAVPType, Value, Child, Vendor, Plain,
       IsValue, Writes, MoneyWrites, SubscriptionIdWrites, OtherPartyIdWrites,
       UserEquipmentInfoWrites, ServiceInformationWrites
<1>8. CASE k \in {"EventType", "TimeStamps", "ApplicationServerInformation", "ServiceSpecificInfo", "SMSInformation", "RecipientInfo", "RecipientAddress"}
  BY <1>8, SMTT(20) DEF SoundRows, SoundRow, Forms, GetAVPType, Value, Child, Vendor, Plain,
       IsValue, Writes, EventTypeWrites, TimeStampsWrites, ApplicationServerInformationWrites,
       ServiceSpecificInfoWrites, SMSInformationWrites, RecipientInfoWrites,
       RecipientAddressWrites
<1>9. CASE k \in {"OriginatorReceivedAddress", "MMSInformation", "OriginatorAddress", "MessageClass", "FinalUnitIndication", "RedirectServer", "PSFurnishChargingInformation"}
  BY <1>9, SMTT(20) DEF SoundRows, SoundRow, Forms, GetAVPType, Value, Child, Vendor, Plain,
       IsValue, Writes, OriginatorReceivedAddressWrites, MMSInformationWrites,
       OriginatorAddressWrites, MessageClassWrites, FinalUnitIndicationWrites,
       RedirectServerWrites, PSFurnishChargingInformationWrites
<1> QED  BY <1>1, <1>2, <1>3, <1>4, <1>5, <1>6, <1>7, <1>8, <1>9 DEF Writes

(* Two rows of a class that share a code: what one writes the other        *)
(* overwrites.                                                             *)
Collide(k, r, s) ==
  \/ k = "CCA" /\ r.name \in {"ResultCode", "ResultCodeExt"} /\ s.name \in {"ResultCode", "ResultCodeExt"}
  \/ k = "Units" /\ r.name \in {"Time", "Money"} /\ s.name \in {"Time", "Money"}

RowsDiffer(k) ==
  \A r, s \in Writes[k] : (r.name = s.name => r = s) /\ (r.code = s.code => r = s \/ Collide(k, r, s))

(* A name stands for one row, and so does a code but for two.              *)
LEMMA RowsAreDifferent ==
  \A k \in DOMAIN Writes : RowsDiffer(k)
<1> SUFFICES ASSUME NEW k \in DOMAIN Writes PROVE RowsDiffer(k)
  OBVIOUS
<1>1. CASE k = "CCR"
  BY <1>1, SMTT(20) DEF RowsDiffer, Collide, Value, Child, Vendor, Plain, IsValue, Writes,
       CCRWrites
<1>2. CASE k = "CCA"
  BY <1>2, SMTT(20) DEF RowsDiffer, Collide, Value, Child, Vendor, Plain, IsValue, Writes,
       CCAWrites
<1>3. CASE k = "MSCC"
  BY <1>3, SMTT(20) DEF RowsDiffer, Collide, Value, Child, Vendor, Plain, IsValue, Writes,
       MSCCWrites
<1>4. CASE k = "Units"
  BY <1>4, SMTT(20) DEF RowsDiffer, Collide, Value, Child, Vendor, Plain, IsValue, Writes,
       UnitsWrites
<1>5. CASE k = "PSInformation"
  BY <1>5, SMTT(20) DEF RowsDiffer, Collide, Value, Child, Vendor, Plain, IsValue, Writes,
       PSInformationWrites
<1>6. CASE k = "IMSInformation"
  BY <1>6, SMTT(20) DEF RowsDiffer, Collide, Value, Child, Vendor, Plain, IsValue, Writes,
       IMSInformationWrites
<1>7. CASE k \in {"Money", "SubscriptionId", "OtherPartyId", "SPI", "Trigger", "UserEquipmentInfo", "ServiceInformation"}
  BY <1>7, SMTT(20) DEF RowsDiffer, Collide, Value, Child, Vendor, Plain, IsValue, Writes,
       MoneyWrites, SubscriptionIdWrites, OtherPartyIdWrites, UserEquipmentInfoWrites,
       ServiceInformationWrites
<1>8. CASE k \in {"EventType", "TimeStamps", "ApplicationServerInformation", "ServiceSpecificInfo", "SMSInformation", "RecipientInfo", "RecipientAddress"}
  BY <1>8, SMTT(20) DEF RowsDiffer, Collide, Value, Child, Vendor, Plain, IsValue, Writes,
       EventTypeWrites, TimeStampsWrites, ApplicationServerInformationWrites,
       ServiceSpecificInfoWrites, SMSInformationWrites, RecipientInfoWrites,
       RecipientAddressWrites
<1>9. CASE k \in {"OriginatorReceivedAddress", "MMSInformation", "OriginatorAddress", "MessageClass", "FinalUnitIndication", "RedirectServer", "PSFurnishChargingInformation"}
  BY <1>9, SMTT(20) DEF RowsDiffer, Collide, Value, Child, Vendor, Plain, IsValue, Writes,
       OriginatorReceivedAddressWrites, MMSInformationWrites, OriginatorAddressWrites,
       MessageClassWrites, FinalUnitIndicationWrites, RedirectServerWrites,
       PSFurnishChargingInformationWrites
<1> QED  BY <1>1, <1>2, <1>3, <1>4, <1>5, <1>6, <1>7, <1>8, <1>9 DEF Writes

(* What is lost whatever its value is (module Messages).                   *)
Lost == {"Timezone", "SIPMethod", "Money", "UnitValue", "PSFurnishChargingInformation", "ResultCodeExt",
         "NodeFunctionality"}

ListsOf(k) ==
  /\ ListNames(k) = IF k = "MSCC" THEN {"ServiceIdentifier", "TriggerTypes"} ELSE {}
  /\ \A w \in Writes[k] : w.name \notin ListNames(k)

(* The lists are those of an MSCC.                                         *)
LEMMA ListsAreOf ==
  \A k \in DOMAIN Writes : ListsOf(k)
<1> SUFFICES ASSUME NEW k \in DOMAIN Writes PROVE ListsOf(k)
  OBVIOUS
<1>1. CASE k = "CCR"
  BY <1>1, SMTT(20) DEF ListsOf, ListNames, Value, Child, Vendor, Plain, IsValue, Read, First,
       All, Writes, Reads, CCRWrites, CCRReads
<1>2. CASE k = "CCA"
  BY <1>2, SMTT(20) DEF ListsOf, ListNames, Value, Child, Vendor, Plain, IsValue, Read, First,
       All, Writes, Reads, CCAWrites, CCAReads
<1>3. CASE k = "MSCC"
  <2>1. Reads[k] = MSCCReads /\ Writes[k] = MSCCWrites
    BY <1>3 DEF Reads, Writes
  <2>2. \A r \in MSCCReads :
          r.form \in {"ints", "triggers"} => r.name \in {"ServiceIdentifier", "TriggerTypes"}
    BY DEF MSCCReads, Read, First, All
  <2>3. /\ Read("ServiceIdentifier", 439, "ints") \in MSCCReads
        /\ Read("TriggerTypes", 1264, "triggers") \in MSCCReads
    BY DEF MSCCReads
  <2>4. ListNames(k) = {"ServiceIdentifier", "TriggerTypes"}
    BY <2>1, <2>2, <2>3 DEF ListNames, Read
  <2>5. \A w \in MSCCWrites : w.name \notin {"ServiceIdentifier", "TriggerTypes"}
    BY DEF MSCCWrites, Value, Child
  <2> QED  BY <1>3, <2>1, <2>4, <2>5 DEF ListsOf
<1>4. CASE k = "Units"
  BY <1>4, SMTT(20) DEF ListsOf, ListNames, Value, Child, Vendor, Plain, IsValue, Read, First,
       All, Writes, Reads, UnitsWrites, UnitsReads
<1>5. CASE k = "PSInformation"
  BY <1>5, SMTT(20) DEF ListsOf, ListNames, Value, Child, Vendor, Plain, IsValue, Read, First,
       All, Writes, Reads, PSInformationWrites, PSInformationReads
<1>6. CASE k = "IMSInformation"
  BY <1>6, SMTT(20) DEF ListsOf, ListNames, Value, Child, Vendor, Plain, IsValue, Read, First,
       All, Writes, Reads, IMSInformationWrites, IMSInformationReads
<1>7. CASE k \in {"Money", "SubscriptionId", "OtherPartyId", "SPI", "Trigger", "UserEquipmentInfo", "ServiceInformation"}
  BY <1>7, SMTT(20) DEF ListsOf, ListNames, Value, Child, Vendor, Plain, IsValue, Read, First,
       All, Writes, Reads, MoneyWrites, MoneyReads, SubscriptionIdWrites, SubscriptionIdReads,
       OtherPartyIdWrites, OtherPartyIdReads, SPIReads, UserEquipmentInfoWrites,
       UserEquipmentInfoReads, ServiceInformationWrites, ServiceInformationReads
<1>8. CASE k \in {"EventType", "TimeStamps", "ApplicationServerInformation", "ServiceSpecificInfo", "SMSInformation", "RecipientInfo", "RecipientAddress"}
  BY <1>8, SMTT(20) DEF ListsOf, ListNames, Value, Child, Vendor, Plain, IsValue, Read, First,
       All, Writes, Reads, EventTypeWrites, EventTypeReads, TimeStampsWrites, TimeStampsReads,
       ApplicationServerInformationWrites, ApplicationServerInformationReads,
       ServiceSpecificInfoWrites, ServiceSpecificInfoReads, SMSInformationWrites,
       SMSInformationReads, RecipientInfoWrites, RecipientInfoReads, RecipientAddressWrites,
       RecipientAddressReads
<1>9. CASE k \in {"OriginatorReceivedAddress", "MMSInformation", "OriginatorAddress", "MessageClass", "FinalUnitIndication", "RedirectServer", "PSFurnishChargingInformation"}
  BY <1>9, SMTT(20) DEF ListsOf, ListNames, Value, Child, Vendor, Plain, IsValue, Read, First,
       All, Writes, Reads, OriginatorReceivedAddressWrites, OriginatorReceivedAddressReads,
       MMSInformationWrites, MMSInformationReads, OriginatorAddressWrites,
       OriginatorAddressReads, MessageClassWrites, MessageClassReads,
       FinalUnitIndicationWrites, FinalUnitIndicationReads, RedirectServerWrites,
       RedirectServerReads, PSFurnishChargingInformationWrites,
       PSFurnishChargingInformationReads
<1> QED  BY <1>1, <1>2, <1>3, <1>4, <1>5, <1>6, <1>7, <1>8, <1>9 DEF Writes

ReadsDiffer(k) == \A r, s \in Reads[k] : r.name = s.name => r = s

(* A name stands for one row of a reader.                                  *)
LEMMA ReadsAreDifferent ==
  \A k \in DOMAIN Writes : ReadsDiffer(k)
<1> SUFFICES ASSUME NEW k \in DOMAIN Writes PROVE ReadsDiffer(k)
  OBVIOUS
<1>1. CASE k = "CCR"
  BY <1>1, SMTT(20) DEF ReadsDiffer, IsValue, Read, First, All, Reads, CCRReads
<1>2. CASE k = "CCA"
  BY <1>2, SMTT(20) DEF ReadsDiffer, IsValue, Read, First, All, Reads, CCAReads
<1>3. CASE k = "MSCC"
  BY <1>3, SMTT(20) DEF ReadsDiffer, IsValue, Read, First, All, Reads, MSCCReads
<1>4. CASE k = "Units"
  BY <1>4, SMTT(20) DEF ReadsDiffer, IsValue, Read, First, All, Reads, UnitsReads
<1>5. CASE k = "PSInformation"
  BY <1>5, SMTT(20) DEF ReadsDiffer, IsValue, Read, First, All, Reads, PSInformationReads
<1>6. CASE k = "IMSInformation"
  BY <1>6, SMTT(20) DEF ReadsDiffer, IsValue, Read, First, All, Reads, IMSInformationReads
<1>7. CASE k \in {"Money", "SubscriptionId", "OtherPartyId", "SPI", "Trigger", "UserEquipmentInfo", "ServiceInformation"}
  BY <1>7, SMTT(20) DEF ReadsDiffer, IsValue, Read, First, All, Reads, MoneyReads,
       SubscriptionIdReads, OtherPartyIdReads, SPIReads, UserEquipmentInfoReads,
       ServiceInformationReads
<1>8. CASE k \in {"EventType", "TimeStamps", "ApplicationServerInformation", "ServiceSpecificInfo", "SMSInformation", "RecipientInfo", "RecipientAddress"}
  BY <1>8, SMTT(20) DEF ReadsDiffer, IsValue, Read, First, All, Reads, EventTypeReads,
       TimeStampsReads, ApplicationServerInformationReads, ServiceSpecificInfoReads,
       SMSInformationReads, RecipientInfoReads, RecipientAddressReads
<1>9. CASE k \in {"OriginatorReceivedAddress", "MMSInformation", "OriginatorAddress", "MessageClass", "FinalUnitIndication", "RedirectServer", "PSFurnishChargingInformation"}
  BY <1>9, SMTT(20) DEF ReadsDiffer, IsValue, Read, First, All, Reads,
       OriginatorReceivedAddressReads, MMSInformationReads, OriginatorAddressReads,
       MessageClassReads, FinalUnitIndicationReads, RedirectServerReads,
       PSFurnishChargingInformationReads
<1> QED  BY <1>1, <1>2, <1>3, <1>4, <1>5, <1>6, <1>7, <1>8, <1>9 DEF Writes

ValuesAgree(k) ==
  /\ \A w \in Writes[k] : IsValue(w) /\ w.name \notin Lost =>
       w.form \in Forms \ {"zone"} /\ Read(w.name, w.code, w.form) \in Reads[k]
  /\ \A r \in Reads[k] : IsValue(r) /\ r.form \notin {"ints", "triggers"} /\ r.name \notin Lost /\ k # "SPI" =>
       Value(r.name, r.code, Plain, r.form) \in Writes[k] \/ Value(r.name, r.code, Vendor, r.form) \in Writes[k]

ChildrenAgree(k) ==
  \A w \in Writes[k] : ~IsValue(w) /\ w.name \notin Lost =>
    IF w.rule = "set" THEN All(w.name, w.code, w.class) \in Reads[k]
    ELSE First(w.name, w.code, w.class) \in Reads[k]

(* Both sides name the same values.                                        *)
LEMMA ValuesAreAgreed ==
  \A k \in DOMAIN Writes : ValuesAgree(k)
<1> SUFFICES ASSUME NEW k \in DOMAIN Writes PROVE ValuesAgree(k)
  OBVIOUS
<1>1. CASE k = "CCR"
  BY <1>1, SMTT(20) DEF ValuesAgree, Forms, Lost, Value, Child, Vendor, Plain, IsValue, Read,
       First, All, Writes, Reads, CCRWrites, CCRReads
<1>2. CASE k = "CCA"
  BY <1>2, SMTT(20) DEF ValuesAgree, Forms, Lost, Value, Child, Vendor, Plain, IsValue, Read,
       First, All, Writes, Reads, CCAWrites, CCAReads
<1>3. CASE k = "MSCC"
  BY <1>3, SMTT(20) DEF ValuesAgree, Forms, Lost, Value, Child, Vendor, Plain, IsValue, Read,
       First, All, Writes, Reads, MSCCWrites, MSCCReads
<1>4. CASE k = "Units"
  BY <1>4, SMTT(20) DEF ValuesAgree, Forms, Lost, Value, Child, Vendor, Plain, IsValue, Read,
       First, All, Writes, Reads, UnitsWrites, UnitsReads
<1>5. CASE k = "PSInformation"
  BY <1>5, SMTT(20) DEF ValuesAgree, Forms, Lost, Value, Child, Vendor, Plain, IsValue, Read,
       First, All, Writes, Reads, PSInformationWrites, PSInformationReads
<1>6. CASE k = "IMSInformation"
  BY <1>6, SMTT(20) DEF ValuesAgree, Forms, Lost, Value, Child, Vendor, Plain, IsValue, Read,
       First, All, Writes, Reads, IMSInformationWrites, IMSInformationReads
<1>7. CASE k \in {"Money", "SubscriptionId", "OtherPartyId", "SPI", "Trigger", "UserEquipmentInfo", "ServiceInformation"}
  BY <1>7, SMTT(20) DEF ValuesAgree, Forms, Lost, Value, Child, Vendor, Plain, IsValue, Read,
       First, All, Writes, Reads, MoneyWrites, MoneyReads, SubscriptionIdWrites,
       SubscriptionIdReads, OtherPartyIdWrites, OtherPartyIdReads, SPIReads,
       UserEquipmentInfoWrites, UserEquipmentInfoReads, ServiceInformationWrites,
       ServiceInformationReads
<1>8. CASE k \in {"EventType", "TimeStamps", "ApplicationServerInformation", "ServiceSpecificInfo", "SMSInformation", "RecipientInfo", "RecipientAddress"}
  BY <1>8, SMTT(20) DEF ValuesAgree, Forms, Lost, Value, Child, Vendor, Plain, IsValue, Read,
       First, All, Writes, Reads, EventTypeWrites, EventTypeReads, TimeStampsWrites,
       TimeStampsReads, ApplicationServerInformationWrites, ApplicationServerInformationReads,
       ServiceSpecificInfoWrites, ServiceSpecificInfoReads, SMSInformationWrites,
       SMSInformationReads, RecipientInfoWrites, RecipientInfoReads, RecipientAddressWrites,
       RecipientAddressReads
<1>9. CASE k \in {"OriginatorReceivedAddress", "MMSInformation", "OriginatorAddress", "MessageClass", "FinalUnitIndication", "RedirectServer", "PSFurnishChargingInformation"}
  BY <1>9, SMTT(20) DEF ValuesAgree, Forms, Lost, Value, Child, Vendor, Plain, IsValue, Read,
       First, All, Writes, Reads, OriginatorReceivedAddressWrites,
       OriginatorReceivedAddressReads, MMSInformationWrites, MMSInformationReads,
       OriginatorAddressWrites, OriginatorAddressReads, MessageClassWrites, MessageClassReads,
       FinalUnitIndicationWrites, FinalUnitIndicationReads, RedirectServerWrites,
       RedirectServerReads, PSFurnishChargingInformationWrites,
       PSFurnishChargingInformationReads
<1> QED  BY <1>1, <1>2, <1>3, <1>4, <1>5, <1>6, <1>7, <1>8, <1>9 DEF Writes

(* Both sides name the same children.                                      *)
LEMMA ChildrenAreAgreed ==
  \A k \in DOMAIN Writes : ChildrenAgree(k)
<1> SUFFICES ASSUME NEW k \in DOMAIN Writes PROVE ChildrenAgree(k)
  OBVIOUS
<1>1. CASE k = "CCR"
  BY <1>1, SMTT(20) DEF ChildrenAgree, Lost, Value, Child, Vendor, Plain, IsValue, Read, First,
       All, Writes, Reads, CCRWrites, CCRReads
<1>2. CASE k = "CCA"
  BY <1>2, SMTT(20) DEF ChildrenAgree, Lost, Value, Child, Vendor, Plain, IsValue, Read, First,
       All, Writes, Reads, CCAWrites, CCAReads
<1>3. CASE k = "MSCC"
  BY <1>3, SMTT(20) DEF ChildrenAgree, Lost, Value, Child, Vendor, Plain, IsValue, Read, First,
       All, Writes, Reads, MSCCWrites, MSCCReads
<1>4. CASE k = "Units"
  BY <1>4, SMTT(20) DEF ChildrenAgree, Lost, Value, Child, Vendor, Plain, IsValue, Read, First,
       All, Writes, Reads, UnitsWrites, UnitsReads
<1>5. CASE k = "PSInformation"
  BY <1>5, SMTT(20) DEF ChildrenAgree, Lost, Value, Child, Vendor, Plain, IsValue, Read, First,
       All, Writes, Reads, PSInformationWrites, PSInformationReads
<1>6. CASE k = "IMSInformation"
  BY <1>6, SMTT(20) DEF ChildrenAgree, Lost, Value, Child, Vendor, Plain, IsValue, Read, First,
       All, Writes, Reads, IMSInformationWrites, IMSInformationReads
<1>7. CASE k \in {"Money", "SubscriptionId", "OtherPartyId", "SPI", "Trigger", "UserEquipmentInfo", "ServiceInformation"}
  BY <1>7, SMTT(20) DEF ChildrenAgree, Lost, Value, Child, Vendor, Plain, IsValue, Read, First,
       All, Writes, Reads, MoneyWrites, MoneyReads, SubscriptionIdWrites, SubscriptionIdReads,
       OtherPartyIdWrites, OtherPartyIdReads, SPIReads, UserEquipmentInfoWrites,
       UserEquipmentInfoReads, ServiceInformationWrites, ServiceInformationReads
<1>8. CASE k \in {"EventType", "TimeStamps", "ApplicationServerInformation", "ServiceSpecificInfo", "SMSInformation", "RecipientInfo", "RecipientAddress"}
  BY <1>8, SMTT(20) DEF ChildrenAgree, Lost, Value, Child, Vendor, Plain, IsValue, Read, First,
       All, Writes, Reads, EventTypeWrites, EventTypeReads, TimeStampsWrites, TimeStampsReads,
       ApplicationServerInformationWrites, ApplicationServerInformationReads,
       ServiceSpecificInfoWrites, ServiceSpecificInfoReads, SMSInformationWrites,
       SMSInformationReads, RecipientInfoWrites, RecipientInfoReads, RecipientAddressWrites,
       RecipientAddressReads
<1>9. CASE k \in {"OriginatorReceivedAddress", "MMSInformation", "OriginatorAddress", "MessageClass", "FinalUnitIndication", "RedirectServer", "PSFurnishChargingInformation"}
  BY <1>9, SMTT(20) DEF ChildrenAgree, Lost, Value, Child, Vendor, Plain, IsValue, Read, First,
       All, Writes, Reads, OriginatorReceivedAddressWrites, OriginatorReceivedAddressReads,
       MMSInformationWrites, MMSInformationReads, OriginatorAddressWrites,
       OriginatorAddressReads, MessageClassWrites, MessageClassReads,
       FinalUnitIndicationWrites, FinalUnitIndicationReads, RedirectServerWrites,
       RedirectServerReads, PSFurnishChargingInformationWrites,
       PSFurnishChargingInformationReads
<1> QED  BY <1>1, <1>2, <1>3, <1>4, <1>5, <1>6, <1>7, <1>8, <1>9 DEF Writes

----------------------------------------------------------------------------
(* Nodes.                                                                  *)

(* What may be filed in node n. *)
Fits(avp, n, last) ==
  /\ avp \in AVP
  /\ n = 1 \/ avp.code # 263
  /\ \A i \in 1..Len(avp.items) : avp.items[i].code = avp.code
  /\ \A i \in 1..Len(Members(avp)) : Shaped(n, last, Members(avp)[i])

(* A value can be filed under the code of a value. *)
LEMMA BasicFits ==
  ASSUME NEW n \in Nat, NEW last \in Nat, NEW code \in Int, NEW vendor \in {0, 1}, NEW data \in Data,
         n = 1 \/ code # 263, GetAVPType(code) = "BASIC"
  PROVE  Fits(Basic(code, vendor, data), n, last)
<1> DEFINE avp == Basic(code, vendor, data)
<1>1. avp \in Leaf /\ avp.type = "BASIC" /\ avp.code = code /\ avp.items = << >>
  BY DEF Basic, Leaf
<1>2. Members(avp) = <<avp>>
  BY <1>1 DEF Members
<1>4. \A i \in 1..Len(Members(avp)) : Members(avp)[i] = avp
  <2> HIDE DEF avp
  <2> QED  BY <1>2
<1>5. \A i \in 1..Len(avp.items) : FALSE
  <2>1. Len(<< >>) = 0
    OBVIOUS
  <2> QED  BY <1>1, <2>1
<1>6. Shaped(n, last, avp)
  BY <1>1 DEF Shaped
<1>7. avp \in AVP
  BY <1>1 DEF AVP
<1> HIDE DEF avp
<1>8. Fits(avp, n, last)
  BY <1>1, <1>4, <1>5, <1>6, <1>7 DEF Fits
<1> QED  BY <1>1, <1>8 DEF avp

(* A group can be filed when it points to a later node. *)
LEMMA GroupedFits ==
  ASSUME NEW last \in Nat, NEW n \in 1..last, NEW code \in Int, NEW vendor \in {0, 1},
         NEW node \in n + 1 .. last, n = 1 \/ code # 263
  PROVE  Fits(Grouped(code, vendor, node), n, last) /\ Grouped(code, vendor, node) \in Leaf
<1> DEFINE avp == Grouped(code, vendor, node)
<1>1. avp \in Leaf /\ avp.type = "GROUPED" /\ avp.code = code /\ avp.items = << >>
      /\ avp.node = node /\ avp.data = NoData
  <2>1. NoData \in Data /\ node \in Nat
    BY DEF NoData, Data
  <2> QED  BY <2>1 DEF Grouped, Leaf
<1>2. Members(avp) = <<avp>>
  BY <1>1 DEF Members
<1>3. Shaped(n, last, avp)
  BY <1>1 DEF Shaped
<1>4. \A i \in 1..Len(Members(avp)) : Members(avp)[i] = avp
  <2> HIDE DEF avp
  <2> QED  BY <1>2
<1>5. \A i \in 1..Len(avp.items) : FALSE
  <2>1. Len(<< >>) = 0
    OBVIOUS
  <2> QED  BY <1>1, <2>1
<1>7. avp \in AVP
  BY <1>1 DEF AVP
<1> HIDE DEF avp
<1>8. Fits(avp, n, last)
  BY <1>1, <1>3, <1>4, <1>5, <1>7 DEF Fits
<1> QED  BY <1>1, <1>8 DEF avp

(* A set can be filed when all of its items have its code. *)
LEMMA SetFits ==
  ASSUME NEW n \in Nat, NEW last \in Nat, NEW code \in Int, n = 1 \/ code # 263, NEW items \in Seq(Leaf),
         \A i \in 1..Len(items) : items[i].code = code /\ Shaped(n, last, items[i])
  PROVE  Fits(GroupedSet(code, items), n, last)
<1> DEFINE avp == GroupedSet(code, items)
<1>1. avp \in SetOfLeaves /\ avp.type = "GROUPEDSET" /\ avp.code = code /\ avp.items = items
  BY DEF GroupedSet, SetOfLeaves
<1>2. Members(avp) = items
  BY <1>1 DEF Members
<1>7. avp \in AVP
  BY <1>1 DEF AVP
<1> HIDE DEF avp
<1>8. Fits(avp, n, last)
  BY <1>1, <1>2, <1>7 DEF Fits
<1> QED  BY <1>1, <1>8 DEF avp

(* SetAVP files one AVP and leaves the others. *)
LEMMA SetAVPFiles ==
  ASSUME NEW n \in Nat, NEW last \in Nat, NEW node, ShapedNode(node, n, last),
         NEW avp, Fits(avp, n, last), avp.code \in Int
  PROVE  /\ ShapedNode(SetAVP(node, avp), n, last)
         /\ DOMAIN SetAVP(node, avp) = DOMAIN node \cup {avp.code}
         /\ SetAVP(node, avp)[avp.code] = avp
         /\ \A c \in DOMAIN node : c # avp.code => SetAVP(node, avp)[c] = node[c]
<1> DEFINE new == SetAVP(node, avp)
           S == DOMAIN node \cup {avp.code}
<1>1. /\ DOMAIN new = S /\ new[avp.code] = avp /\ new = [c \in S |-> new[c]]
      /\ \A c \in DOMAIN node : c # avp.code => new[c] = node[c]
  BY DEF SetAVP
<1>2. IsNode(node) /\ (n = 1 \/ 263 \notin DOMAIN node)
      /\ \A c \in DOMAIN node : \A i \in 1..Len(Members(node[c])) : Shaped(n, last, Members(node[c])[i])
  BY DEF ShapedNode
<1>3. \A c \in S : c = avp.code \/ (c \in DOMAIN node /\ c # avp.code)
  OBVIOUS
<1> HIDE DEF new
<1>4. IsNode(new)
  <2>1. IsFiniteSet(S) /\ S \subseteq Int
    <3>1. IsFiniteSet(DOMAIN node) /\ DOMAIN node \subseteq Int
      BY <1>2 DEF IsNode
    <3> QED  BY <3>1, FS_AddElement
  <2>2. \A c \in S : new[c] \in AVP
    BY <1>1, <1>2, <1>3 DEF IsNode, Fits
  <2>3. new \in [S -> AVP]
    BY <1>1, <2>2
  <2>4. \A c \in S : new[c].code = c /\ \A i \in 1..Len(new[c].items) : new[c].items[i].code = c
    BY <1>1, <1>2, <1>3 DEF IsNode, Fits
  <2> QED  BY <1>1, <2>1, <2>3, <2>4 DEF IsNode
<1>5. n = 1 \/ 263 \notin S
  BY <1>2 DEF Fits
<1>6. \A c \in S : \A i \in 1..Len(Members(new[c])) : Shaped(n, last, Members(new[c])[i])
  BY <1>1, <1>2, <1>3 DEF Fits
<1>7. ShapedNode(new, n, last)
  BY <1>1, <1>4, <1>5, <1>6 DEF ShapedNode
<1> QED  BY <1>1, <1>7 DEF new

(* A node keeps its shape when there are more nodes. *)
LEMMA ShapedGrows ==
  ASSUME NEW n \in Nat, NEW last \in Nat, NEW node, ShapedNode(node, n, last)
  PROVE  ShapedNode(node, n, last + 1)
<1>1. \A avp : Shaped(n, last, avp) => Shaped(n, last + 1, avp)
  BY DEF Shaped
<1> QED  BY <1>1 DEF ShapedNode

----------------------------------------------------------------------------
(* Objects and messages.                                                   *)

ObjectsOf(k) ==
  [class : {k}, vals : [ValueNames(k) -> Int], lists : [ListNames(k) -> Seq(Int)],
   kids : [ChildNames(k) -> Seq(Nat)]]

Object == UNION {ObjectsOf(k) : k \in DOMAIN Writes}
Node == UNION {[S -> AVP] : S \in SUBSET Int}
Message == [objects : Seq(Object), heap : Seq(Node)]

(* A message of the types: the objects and their nodes, of which the first *)
(* is a CCR or a CCA and the others are not.                               *)
Typed(msg) ==
  /\ msg \in Message
  /\ Len(msg.objects) = Len(msg.heap) /\ 1 \in DOMAIN msg.objects
  /\ IsHeap(msg.heap)
  /\ \A o \in DOMAIN msg.objects : o = 1 <=> msg.objects[o].class \in {"CCR", "CCA"}

(* An object is one of its class. *)
LEMMA ObjectsHave ==
  ASSUME NEW object \in Object
  PROVE  object.class \in DOMAIN Writes /\ object \in ObjectsOf(object.class)
BY DEF Object, ObjectsOf

(* A node of the shape is a node. *)
LEMMA ShapedIsNode ==
  ASSUME NEW node, NEW n, NEW last, ShapedNode(node, n, last)
  PROVE  node \in Node
<1>1. DOMAIN node \in SUBSET Int /\ node \in [DOMAIN node -> AVP]
  BY DEF ShapedNode, IsNode
<1> QED  BY <1>1 DEF Node

(* The parts of a message, for provers that need them apart. *)
LEMMA TypedParts ==
  ASSUME NEW msg, Typed(msg)
  PROVE  /\ msg = [objects |-> msg.objects, heap |-> msg.heap]
         /\ msg.objects \in Seq(Object) /\ msg.heap \in Seq(Node)
         /\ Len(msg.objects) \in Nat \ {0} /\ Len(msg.heap) = Len(msg.objects)
         /\ DOMAIN msg.objects = 1..Len(msg.objects) /\ DOMAIN msg.heap = 1..Len(msg.objects)
         /\ \A o \in 1..Len(msg.objects) :
              /\ msg.objects[o].class \in DOMAIN Writes /\ msg.objects[o] \in ObjectsOf(msg.objects[o].class)
              /\ (o = 1 <=> msg.objects[o].class \in {"CCR", "CCA"})
              /\ ShapedNode(msg.heap[o], o, Len(msg.objects))
<1>1. msg \in Message
  BY DEF Typed
<1>2. msg = [objects |-> msg.objects, heap |-> msg.heap] /\ msg.objects \in Seq(Object) /\ msg.heap \in Seq(Node)
  BY <1>1 DEF Message
<1>3. Len(msg.heap) = Len(msg.objects) /\ 1 \in DOMAIN msg.objects /\ IsHeap(msg.heap)
      /\ \A o \in DOMAIN msg.objects : o = 1 <=> msg.objects[o].class \in {"CCR", "CCA"}
  BY DEF Typed
<1>4. /\ Len(msg.objects) \in Nat \ {0}
      /\ DOMAIN msg.objects = 1..Len(msg.objects) /\ DOMAIN msg.heap = 1..Len(msg.objects)
  BY <1>2, <1>3
<1>5. ASSUME NEW o \in 1..Len(msg.objects)
      PROVE  /\ msg.objects[o].class \in DOMAIN Writes /\ msg.objects[o] \in ObjectsOf(msg.objects[o].class)
             /\ ShapedNode(msg.heap[o], o, Len(msg.objects))
  <2>1. msg.objects[o] \in Object
    BY <1>2
  <2>2. ShapedNode(msg.heap[o], o, Len(msg.objects))
    BY <1>3 DEF IsHeap
  <2> QED  BY <2>1, <2>2, ObjectsHave
<1> QED  BY <1>2, <1>3, <1>4, <1>5

(* A message is what its objects and its nodes are. *)
LEMMA PartsTyped ==
  ASSUME NEW objects, NEW heap, NEW last \in Nat \ {0},
         objects = [o \in 1..last |-> objects[o]], heap = [o \in 1..last |-> heap[o]],
         \A o \in 1..last : /\ objects[o].class \in DOMAIN Writes /\ objects[o] \in ObjectsOf(objects[o].class)
                            /\ (o = 1 <=> objects[o].class \in {"CCR", "CCA"})
                            /\ ShapedNode(heap[o], o, last)
  PROVE  Typed([objects |-> objects, heap |-> heap])
<1>1. \A o \in 1..last : objects[o] \in Object /\ heap[o] \in Node
  BY ShapedIsNode DEF Object
<1>2. objects \in Seq(Object) /\ heap \in Seq(Node) /\ Len(objects) = last /\ Len(heap) = last
      /\ DOMAIN objects = 1..last /\ DOMAIN heap = 1..last
  <2>1. objects \in [1..last -> Object]
    BY <1>1
  <2>2. heap \in [1..last -> Node]
    BY <1>1
  <2> QED  BY <2>1, <2>2
<1> DEFINE msg == [objects |-> objects, heap |-> heap]
<1>3. msg.objects = objects /\ msg.heap = heap /\ msg \in Message
  BY <1>2 DEF Message
<1>4. IsHeap(heap)
  BY <1>2 DEF IsHeap
<1>5. 1 \in DOMAIN objects
  BY <1>2
<1> HIDE DEF msg
<1>6. Typed(msg)
  BY <1>2, <1>3, <1>4, <1>5 DEF Typed
<1> QED  BY <1>6 DEF msg

----------------------------------------------------------------------------
(* Changes of a message.                                                   *)

(* One object and its node are changed. *)
Changed(msg, o, object, node) ==
  [objects |-> [msg.objects EXCEPT ![o] = object], heap |-> [msg.heap EXCEPT ![o] = node]]

(* The parts of a changed message. *)
ChangedOnly(msg, o, object, node, new) ==
  /\ Len(new.objects) = Len(msg.objects)
  /\ new.objects[o] = object /\ new.heap[o] = node
  /\ \A p \in 1..Len(msg.objects) : p # o => new.objects[p] = msg.objects[p] /\ new.heap[p] = msg.heap[p]

(* An object and its node are exchanged for others of their class. *)
LEMMA ChangedTyped ==
  ASSUME NEW msg, Typed(msg), NEW o \in 1..Len(msg.objects),
         NEW object \in ObjectsOf(msg.objects[o].class),
         NEW node, ShapedNode(node, o, Len(msg.objects))
  PROVE  /\ Typed(Changed(msg, o, object, node))
         /\ ChangedOnly(msg, o, object, node, Changed(msg, o, object, node))
<1> DEFINE objects == [msg.objects EXCEPT ![o] = object]
           heap == [msg.heap EXCEPT ![o] = node]
           last == Len(msg.objects)
<1>1. /\ last \in Nat \ {0} /\ DOMAIN msg.objects = 1..last /\ DOMAIN msg.heap = 1..last
      /\ \A p \in 1..last : /\ msg.objects[p].class \in DOMAIN Writes
                            /\ msg.objects[p] \in ObjectsOf(msg.objects[p].class)
                            /\ (p = 1 <=> msg.objects[p].class \in {"CCR", "CCA"})
                            /\ ShapedNode(msg.heap[p], p, last)
  BY TypedParts
<1>2. object.class = msg.objects[o].class
  BY DEF ObjectsOf
<1>3. /\ objects = [p \in 1..last |-> objects[p]] /\ heap = [p \in 1..last |-> heap[p]]
      /\ objects[o] = object /\ heap[o] = node
      /\ \A p \in 1..last : p # o => objects[p] = msg.objects[p] /\ heap[p] = msg.heap[p]
  BY <1>1
<1> HIDE DEF objects, heap
<1>4. \A p \in 1..last : /\ objects[p].class \in DOMAIN Writes /\ objects[p] \in ObjectsOf(objects[p].class)
                         /\ (p = 1 <=> objects[p].class \in {"CCR", "CCA"})
                         /\ ShapedNode(heap[p], p, last)
  <2> TAKE p \in 1..last
  <2>1. CASE p = o
    BY <1>1, <1>2, <1>3, <2>1
  <2>2. CASE p # o
    BY <1>1, <1>3, <2>2
  <2> QED  BY <2>1, <2>2
<1>5. Typed([objects |-> objects, heap |-> heap])
  BY <1>1, <1>3, <1>4, PartsTyped
<1>6. Changed(msg, o, object, node) = [objects |-> objects, heap |-> heap]
  BY DEF Changed, objects, heap
<1>7. Len(objects) = last
  BY <1>1, <1>3
<1>8. ChangedOnly(msg, o, object, node, [objects |-> objects, heap |-> heap])
  BY <1>3, <1>7 DEF ChangedOnly
<1> QED  BY <1>5, <1>6, <1>8

(* A new object and its node come after the others. *)
Grown(msg, object, node) ==
  [objects |-> Append(msg.objects, object), heap |-> Append(msg.heap, node)]

GrownOnly(msg, object, node, new) ==
  /\ Len(new.objects) = Len(msg.objects) + 1
  /\ new.objects[Len(msg.objects) + 1] = object /\ new.heap[Len(msg.objects) + 1] = node
  /\ \A p \in 1..Len(msg.objects) : new.objects[p] = msg.objects[p] /\ new.heap[p] = msg.heap[p]

(* An object and its node are put behind the others. *)
LEMMA GrownTyped ==
  ASSUME NEW msg, Typed(msg), NEW k \in DOMAIN Writes \ {"CCR", "CCA"}, NEW object \in ObjectsOf(k),
         NEW node, ShapedNode(node, Len(msg.objects) + 1, Len(msg.objects) + 1)
  PROVE  Typed(Grown(msg, object, node)) /\ GrownOnly(msg, object, node, Grown(msg, object, node))
<1> DEFINE objects == Append(msg.objects, object)
           heap == Append(msg.heap, node)
<1>1. PICK last \in Nat \ {0} : last = Len(msg.objects)
  BY TypedParts
<1>2. /\ msg.objects \in Seq(Object) /\ msg.heap \in Seq(Node) /\ Len(msg.heap) = last
      /\ \A p \in 1..last : /\ msg.objects[p].class \in DOMAIN Writes
                            /\ msg.objects[p] \in ObjectsOf(msg.objects[p].class)
                            /\ (p = 1 <=> msg.objects[p].class \in {"CCR", "CCA"})
                            /\ ShapedNode(msg.heap[p], p, last)
  BY <1>1, TypedParts
<1>3. /\ objects = [p \in 1..last + 1 |-> objects[p]] /\ heap = [p \in 1..last + 1 |-> heap[p]]
      /\ objects[last + 1] = object /\ heap[last + 1] = node /\ Len(objects) = last + 1
      /\ \A p \in 1..last : objects[p] = msg.objects[p] /\ heap[p] = msg.heap[p]
  <2>1. object \in Object /\ node \in Node
    BY ShapedIsNode DEF Object
  <2>2. objects \in Seq(Object) /\ heap \in Seq(Node) /\ Len(objects) = last + 1 /\ Len(heap) = last + 1
    BY <1>1, <1>2, <2>1
  <2>3. objects[last + 1] = object /\ \A p \in 1..last : objects[p] = msg.objects[p]
    BY <1>1, <1>2
  <2>4. heap[last + 1] = node /\ \A p \in 1..last : heap[p] = msg.heap[p]
    BY <1>1, <1>2
  <2> HIDE DEF objects, heap
  <2> QED  BY <2>2, <2>3, <2>4
<1> HIDE DEF objects, heap
<1>4. object.class = k
  BY DEF ObjectsOf
<1>5. \A p \in 1..last + 1 : /\ objects[p].class \in DOMAIN Writes /\ objects[p] \in ObjectsOf(objects[p].class)
                             /\ (p = 1 <=> objects[p].class \in {"CCR", "CCA"})
                             /\ ShapedNode(heap[p], p, last + 1)
  <2> TAKE p \in 1..last + 1
  <2>1. CASE p = last + 1
    BY <1>1, <1>3, <1>4, <2>1
  <2>2. CASE p # last + 1
    <3>1. p \in 1..last
      BY <2>2
    <3>2. ShapedNode(msg.heap[p], p, last + 1)
      <4>1. p \in Nat /\ last \in Nat /\ ShapedNode(msg.heap[p], p, last)
        BY <1>2, <3>1
      <4> QED  BY <4>1, ShapedGrows, Zenon
    <3> QED  BY <1>2, <1>3, <3>1, <3>2
  <2> QED  BY <2>1, <2>2
<1>6. Typed([objects |-> objects, heap |-> heap])
  <2>1. PICK new \in Nat \ {0} : new = last + 1
    OBVIOUS
  <2> QED  BY <1>3, <1>5, <2>1, PartsTyped
<1>7. Grown(msg, object, node) = [objects |-> objects, heap |-> heap]
  BY DEF Grown, objects, heap
<1>8. GrownOnly(msg, object, node, [objects |-> objects, heap |-> heap])
  BY <1>1, <1>3 DEF GrownOnly
<1> QED  BY <1>6, <1>7, <1>8

(* What a member holds at first is a number as well. *)
LEMMA InitialTyped ==
  ASSUME NEW without, NEW k, NEW n
  PROVE  Initial(without, k, n) \in Int
BY DEF Initial, Unset, Undefined

(* A constructor makes an object of its class. *)
LEMMA NewObjectTyped ==
  ASSUME NEW k \in DOMAIN Writes
  PROVE  NewObject(k) \in ObjectsOf(k)
<1>1. [n \in ValueNames(k) |-> Initial(MadeWithout, k, n)] \in [ValueNames(k) -> Int]
  BY InitialTyped
<1>2. [n \in ListNames(k) |-> << >>] \in [ListNames(k) -> Seq(Int)]
  OBVIOUS
<1>3. [n \in ChildNames(k) |-> << >>] \in [ChildNames(k) -> Seq(Nat)]
  OBVIOUS
<1> QED  BY <1>1, <1>2, <1>3 DEF NewObject, ObjectsOf

(* A constructor makes a node of the shape. *)
LEMMA NewNodeShaped ==
  ASSUME NEW k \in DOMAIN Writes, NEW last \in Nat, NEW n \in 1..last, n = 1 \/ k \notin {"CCR", "CCA"}
  PROVE  ShapedNode(NewNode(k), n, last)
<1> DEFINE S == {row.code : row \in {r \in ChildRows(k) : r.rule = "set"}}
<1>1. \A c \in S : c \in 1..3000 /\ (n = 1 \/ c # 263)
  BY RowsAreSound DEF SoundRows, SoundRow, ChildRows
<1>2. NewNode(k) = [c \in S |-> GroupedSet(c, << >>)]
  BY DEF NewNode
<1> HIDE DEF S
<1>3. \A c \in S : Fits(GroupedSet(c, << >>), n, last) /\ GroupedSet(c, << >>).code = c
  <2> TAKE c \in S
  <2>1. << >> \in Seq(Leaf) /\ \A i \in 1..Len(<< >>) : FALSE
    OBVIOUS
  <2>2. Fits(GroupedSet(c, << >>), n, last)
    <3>1. c \in Int /\ (n = 1 \/ c # 263) /\ n \in Nat
      <4>1. c \in 1..3000 /\ (n = 1 \/ c # 263)
        BY <1>1
      <4>2. c \in Int /\ n \in Nat
        BY <4>1
      <4> QED  BY <4>1, <4>2
    <3>2. PICK items \in Seq(Leaf) : items = << >> /\ \A i \in 1..Len(items) : FALSE
      BY <2>1
    <3>3. Fits(GroupedSet(c, items), n, last)
      BY <3>1, <3>2, SetFits
    <3> QED  BY <3>2, <3>3
  <2> QED  BY <2>2 DEF GroupedSet
<1>4. IsFiniteSet(S) /\ S \subseteq Int
  <2>1. PICK top \in Int : top = 3000
    OBVIOUS
  <2>2. IsFiniteSet(1..top)
    BY FS_Interval
  <2>3. S \in SUBSET (1..top)
    BY <1>1, <2>1
  <2>4. IsFiniteSet(S)
    BY <2>2, <2>3, FS_Subset
  <2>5. \A c \in S : c \in Int
    BY <2>1, <2>3
  <2> QED  BY <2>4, <2>5
<1> DEFINE node == NewNode(k)
<1>5. DOMAIN node = S /\ \A c \in S : node[c] = GroupedSet(c, << >>)
  BY <1>2
<1>6. node = [c \in S |-> node[c]]
  BY <1>2
<1> HIDE DEF node
<1>7. \A c \in S : Fits(node[c], n, last) /\ node[c].code = c
  BY <1>3, <1>5
<1>8. IsNode(node)
  BY <1>4, <1>5, <1>6, <1>7 DEF IsNode, Fits
<1>9. ShapedNode(node, n, last)
  BY <1>1, <1>5, <1>7, <1>8 DEF ShapedNode, Fits
<1> QED  BY <1>9 DEF node

----------------------------------------------------------------------------
(* The setters: an object and its node.                                    *)

ValueSet(object, row, v) == [object EXCEPT !.vals[row.name] = Member(row, @, v)]

ValueFiled(node, row, v) ==
  IF row.form = "none" THEN node ELSE SetAVP(node, Basic(row.code, row.vendor, Layout(row.form, v)))

(* One part of a record is changed. *)
WithVal(object, n, x) == [object EXCEPT !.vals[n] = x]
WithList(object, n, x) == [object EXCEPT !.lists[n] = x]
WithKids(object, n, x) == [object EXCEPT !.kids[n] = x]

Made(object, class, vals, lists, kids) ==
  object = [class |-> class, vals |-> vals, lists |-> lists, kids |-> kids]

(* A setter changes one entry of one part of an object. *)
LEMMA ObjectExcept ==
  ASSUME NEW object, NEW class, NEW vals, NEW lists, NEW kids, NEW n, NEW x,
         Made(object, class, vals, lists, kids)
  PROVE  /\ Made(WithVal(object, n, x), class, [vals EXCEPT ![n] = x], lists, kids)
         /\ Made(WithList(object, n, x), class, vals, [lists EXCEPT ![n] = x], kids)
         /\ Made(WithKids(object, n, x), class, vals, lists, [kids EXCEPT ![n] = x])
<1> DEFINE made == [class |-> class, vals |-> vals, lists |-> lists, kids |-> kids]
<1>1. object = made
  BY DEF Made
<1>2. /\ Made(WithVal(made, n, x), class, [vals EXCEPT ![n] = x], lists, kids)
      /\ Made(WithList(made, n, x), class, vals, [lists EXCEPT ![n] = x], kids)
      /\ Made(WithKids(made, n, x), class, vals, lists, [kids EXCEPT ![n] = x])
  BY DEF Made, WithVal, WithList, WithKids
<1> HIDE DEF made
<1> QED  BY <1>1, <1>2

(* An object of a class, by its parts. *)
LEMMA ObjectParts ==
  ASSUME NEW k, NEW object
  PROVE  object \in ObjectsOf(k) <=>
           \E vals \in [ValueNames(k) -> Int], lists \in [ListNames(k) -> Seq(Int)], kids \in [ChildNames(k) -> Seq(Nat)] :
             Made(object, k, vals, lists, kids)
<1>1. ASSUME object \in ObjectsOf(k)
      PROVE  \E vals \in [ValueNames(k) -> Int], lists \in [ListNames(k) -> Seq(Int)],
                kids \in [ChildNames(k) -> Seq(Nat)] : Made(object, k, vals, lists, kids)
  BY <1>1 DEF ObjectsOf, Made
<1>2. ASSUME NEW vals \in [ValueNames(k) -> Int], NEW lists \in [ListNames(k) -> Seq(Int)],
             NEW kids \in [ChildNames(k) -> Seq(Nat)], Made(object, k, vals, lists, kids)
      PROVE  object \in ObjectsOf(k)
  BY <1>2 DEF ObjectsOf, Made
<1> QED  BY <1>1, <1>2

(* The same of a message: one object, or one node. *)
LEMMA MessageExcept ==
  \A objects, heap, o, x :
    LET msg == [objects |-> objects, heap |-> heap]
    IN  /\ [msg EXCEPT !.objects[o] = x] = [objects |-> [objects EXCEPT ![o] = x], heap |-> heap]
        /\ [msg EXCEPT !.heap[o] = x] = [objects |-> objects, heap |-> [heap EXCEPT ![o] = x]]
OBVIOUS

(* SetValue changes one object and its node. *)
LEMMA SetValueChanges ==
  ASSUME NEW msg, Typed(msg), NEW o \in 1..Len(msg.objects),
         NEW row \in Writes[msg.objects[o].class], IsValue(row), NEW v \in Int
  PROVE  SetValue(msg, o, row, v) = Changed(msg, o, ValueSet(msg.objects[o], row, v), ValueFiled(msg.heap[o], row, v))
<1>1. PICK objects, heap : msg = [objects |-> objects, heap |-> heap]
  BY TypedParts
<1> DEFINE object == [objects[o] EXCEPT !.vals[row.name] = Member(row, @, v)]
           node == IF row.form = "none" THEN heap[o]
                   ELSE SetAVP(heap[o], Basic(row.code, row.vendor, Layout(row.form, v)))
           set == [msg EXCEPT !.objects[o].vals[row.name] = Member(row, @, v)]
<1>2. set = [objects |-> [objects EXCEPT ![o] = object], heap |-> heap]
  <2>1. set = [msg EXCEPT !.objects[o] = object]
    BY <1>1
  <2> HIDE DEF set, object
  <2> QED  BY <1>1, <2>1, MessageExcept, Zenon
<1>3. SetValue(msg, o, row, v) = [set EXCEPT !.heap[o] = node]
  BY <1>1 DEF SetValue
<1>4. ValueSet(msg.objects[o], row, v) = object /\ ValueFiled(msg.heap[o], row, v) = node
  BY <1>1 DEF ValueSet, ValueFiled
<1> HIDE DEF set, object, node
<1>5. [set EXCEPT !.heap[o] = node] = [objects |-> [objects EXCEPT ![o] = object], heap |-> [heap EXCEPT ![o] = node]]
  BY <1>2
<1> QED  BY <1>1, <1>3, <1>4, <1>5 DEF Changed

(* A value in any layout is data of an AVP. *)
LEMMA LayoutTyped ==
  ASSUME NEW form \in Forms, NEW v \in Int
  PROVE  Layout(form, v) \in Data
<1>1. Size(form, v) \in Int
  BY DEF Size, Forms, Unset
<1> QED  BY <1>1 DEF Layout, Data

(* What a setter of a value does to the object. *)
OnlyValue(object, name, v, new) ==
  /\ new.class = object.class /\ new.kids = object.kids /\ new.lists = object.lists
  /\ new.vals[name] = v
  /\ \A n \in ValueNames(object.class) : n # name => new.vals[n] = object.vals[n]

(* A row names a value or a child of its class. *)
LEMMA RowNames ==
  ASSUME NEW k \in DOMAIN Writes, NEW row \in Writes[k]
  PROVE  IF IsValue(row) THEN row.name \in ValueNames(k) ELSE row.name \in ChildNames(k)
BY ListsAreOf DEF ListsOf, ValueNames, ChildNames, ChildRows, IsValue

(* A value that is set changes no other member. *)
LEMMA ValueSetTyped ==
  ASSUME NEW k \in DOMAIN Writes, NEW object \in ObjectsOf(k), NEW row \in Writes[k], IsValue(row), NEW v \in Int
  PROVE  /\ ValueSet(object, row, v) \in ObjectsOf(k)
         /\ OnlyValue(object, row.name, Member(row, object.vals[row.name], v), ValueSet(object, row, v))
<1>1. PICK vals \in [ValueNames(k) -> Int], lists \in [ListNames(k) -> Seq(Int)], kids \in [ChildNames(k) -> Seq(Nat)] :
        Made(object, k, vals, lists, kids)
  BY ObjectParts, Zenon
<1>2. row.name \in ValueNames(k)
  BY RowNames
<1>3. PICK w \in Int : w = Member(row, vals[row.name], v)
  <2>1. Member(row, vals[row.name], v) \in Int
    BY <1>1, <1>2 DEF Member, Joined
  <2> QED  BY <2>1
<1>4. [vals EXCEPT ![row.name] = w] \in [ValueNames(k) -> Int]
  BY <1>1
<1> DEFINE new == ValueSet(object, row, v)
<1>5. Made(new, k, [vals EXCEPT ![row.name] = w], lists, kids)
  <2>1. new = WithVal(object, row.name, w)
    BY <1>1, <1>3 DEF Made, ValueSet, WithVal
  <2> HIDE DEF new
  <2> QED  BY <1>1, <2>1, ObjectExcept, Zenon
<1> HIDE DEF new
<1>6. new \in ObjectsOf(k)
  BY <1>4, <1>5, ObjectParts, Zenon
<1>7. OnlyValue(object, row.name, w, new)
  BY <1>1, <1>2, <1>5 DEF OnlyValue, Made
<1>8. object.vals = vals
  BY <1>1 DEF Made
<1> QED  BY <1>3, <1>6, <1>7, <1>8 DEF new

(* A value that is filed keeps the shape of its node. *)
LEMMA ValueFiledShaped ==
  ASSUME NEW last \in Nat, NEW n \in 1..last, NEW node, ShapedNode(node, n, last),
         NEW k \in DOMAIN Writes, n = 1 \/ k \notin {"CCR", "CCA"},
         NEW row \in Writes[k], IsValue(row), NEW v \in Int
  PROVE  ShapedNode(ValueFiled(node, row, v), n, last)
<1>1. /\ row.code \in Int /\ row.vendor \in {0, 1} /\ row.form \in Forms \cup {"none"}
      /\ GetAVPType(row.code) = "BASIC" /\ (n = 1 \/ row.code # 263)
  <2>1. SoundRow(k, row)
    BY RowsAreSound DEF SoundRows
  <2>2. row.code \in Int /\ row.vendor \in {0, 1} /\ (row.code = 263 => k \in {"CCR", "CCA"})
    BY <2>1 DEF SoundRow
  <2>3. row.form \in Forms \cup {"none"} /\ GetAVPType(row.code) = "BASIC"
    BY <2>1 DEF SoundRow
  <2>4. n = 1 \/ row.code # 263
    <3>1. row.code = 263 => k \in {"CCR", "CCA"}
      BY <2>2
    <3> QED  BY <3>1
  <2>5. row.code \in Int
    BY <2>2
  <2> QED  BY <2>2, <2>3, <2>4, <2>5
<1>2. CASE row.form = "none"
  BY <1>2 DEF ValueFiled
<1>3. CASE row.form # "none"
  <2> DEFINE avp == Basic(row.code, row.vendor, Layout(row.form, v))
  <2>1. Layout(row.form, v) \in Data
    BY <1>1, <1>3, LayoutTyped
  <2>2. Fits(avp, n, last)
    BY <1>1, <2>1, BasicFits
  <2>3. avp.code \in Int
    BY <1>1 DEF Basic
  <2> HIDE DEF avp
  <2>4. ShapedNode(SetAVP(node, avp), n, last)
    <3>1. n \in Nat
      OBVIOUS
    <3> QED  BY <2>2, <2>3, <3>1, SetAVPFiles, Zenon
  <2> QED  BY <1>3, <2>4 DEF ValueFiled, avp
<1> QED  BY <1>2, <1>3

----------------------------------------------------------------------------
(* The members of an object and the AVPs of its node say the same.         *)

ValueHeld(object, row, node) ==
  \/ Spoils(object, row.name)
  \/ IF row.code \in DOMAIN node
     THEN node[row.code] = Basic(row.code, row.vendor, Layout(row.form, object.vals[row.name]))
     ELSE object.vals[row.name] = Initial(MadeWithout, object.class, row.name)

ChildHeld(object, row, node) ==
  \/ Spoils(object, row.name)
  \/ IF row.code \in DOMAIN node
     THEN \E id \in Nat : object.kids[row.name] = <<id>> /\ node[row.code] = Grouped(row.code, row.vendor, id)
     ELSE object.kids[row.name] = << >>

ChildAVPs(row, kids) == [i \in DOMAIN kids |-> Grouped(row.code, row.vendor, kids[i])]

SetHeld(object, row, node) ==
  /\ row.code \in DOMAIN node
  /\ node[row.code] = GroupedSet(row.code, ChildAVPs(row, object.kids[row.name]))

(* Once an MSCC has been deleted, its AVP is there all the same. *)
SetThere(row, node) == row.code \in DOMAIN node /\ node[row.code].type = "GROUPEDSET"

RowHeld(object, row, node, loose) ==
  IF IsValue(row) THEN ValueHeld(object, row, node)
  ELSE IF row.rule = "set"
  THEN IF row.name \in loose THEN SetThere(row, node) ELSE SetHeld(object, row, node)
  ELSE ChildHeld(object, row, node)

RowsHeld(object, node, loose) == \A row \in Writes[object.class] : RowHeld(object, row, node, loose)

ServiceAVPs(list) == [i \in DOMAIN list |-> IntAVP(439, Plain, list[i])]

ServicesHeld(object, node) ==
  IF 439 \in DOMAIN node THEN node[439] = GroupedSet(439, ServiceAVPs(object.lists["ServiceIdentifier"]))
  ELSE object.lists["ServiceIdentifier"] = << >>

ParameterHeld(object, node) ==
  LET type == object.vals["ServiceParameterInfoType"]
      v == object.vals["ServiceParameterInfoValue"]
  IN  IF 442 \in DOMAIN node
      THEN /\ 441 \in DOMAIN node /\ node[441] = IntAVP(441, Plain, type)
           /\ node[442] = Basic(442, Plain, Layout(ParameterForm(type), v))
      ELSE 441 \notin DOMAIN node /\ type = Undefined /\ v = Unset

Holds(object, node, loose) ==
  /\ RowsHeld(object, node, loose)
  /\ object.class = "MSCC" => ServicesHeld(object, node)
  /\ object.class = "SPI" => ParameterHeld(object, node)

(* A new object and its node say the same. *)
LEMMA NewHolds ==
  ASSUME NEW k \in DOMAIN Writes, NEW loose
  PROVE  Holds(NewObject(k), NewNode(k), loose)
<1> DEFINE object == NewObject(k)
           node == NewNode(k)
           S == {row.code : row \in {r \in ChildRows(k) : r.rule = "set"}}
<1>1. /\ object.class = k
      /\ \A n \in ValueNames(k) : object.vals[n] = Initial(MadeWithout, k, n)
      /\ \A n \in ListNames(k) : object.lists[n] = << >>
      /\ \A n \in ChildNames(k) : object.kids[n] = << >>
  BY DEF NewObject
<1>2. DOMAIN node = S /\ \A c \in S : node[c] = GroupedSet(c, << >>)
  BY DEF NewNode
<1>3. ASSUME NEW row \in Writes[k]
      PROVE  RowHeld(object, row, node, loose)
  <2>1. row.code \in S => ~IsValue(row) /\ row.rule = "set"
    <3> SUFFICES ASSUME row.code \in S PROVE ~IsValue(row) /\ row.rule = "set"
      OBVIOUS
    <3>1. PICK s \in Writes[k] : ~IsValue(s) /\ s.rule = "set" /\ s.code = row.code
      BY DEF ChildRows
    <3>2. s = row \/ Collide(k, s, row)
      BY <3>1, RowsAreDifferent DEF RowsDiffer
    <3>3. ~Collide(k, s, row)
      <4>1. k = "CCA" => s.name \notin {"ResultCode", "ResultCodeExt"}
        BY <3>1, SMTT(20) DEF Writes, CCAWrites, Value, Child, IsValue
      <4>2. k = "Units" => s.name \notin {"Time", "Money"}
        BY <3>1, SMTT(20) DEF Writes, UnitsWrites, Value, Child, IsValue
      <4> QED  BY <4>1, <4>2 DEF Collide
    <3> QED  BY <3>1, <3>2, <3>3
  <2>2. CASE IsValue(row)
    <3>1. row.name \in ValueNames(k)
      BY <2>2, RowNames
    <3> HIDE DEF object, node, S
    <3> QED  BY <1>1, <1>2, <2>1, <2>2, <3>1 DEF RowHeld, ValueHeld
  <2>3. CASE ~IsValue(row) /\ row.rule # "set"
    <3>1. row.name \in ChildNames(k)
      BY <2>3, RowNames
    <3> HIDE DEF object, node, S
    <3> QED  BY <1>1, <1>2, <2>1, <2>3, <3>1 DEF RowHeld, ChildHeld
  <2>4. CASE ~IsValue(row) /\ row.rule = "set"
    <3>1. row.name \in ChildNames(k)
      BY <2>4, RowNames
    <3>2. row.code \in S
      BY <2>4 DEF ChildRows
    <3>3. ChildAVPs(row, << >>) = << >>
      BY DEF ChildAVPs
    <3> HIDE DEF object, node, S
    <3> QED  BY <1>1, <1>2, <2>4, <3>1, <3>2, <3>3 DEF RowHeld, SetHeld, SetThere, GroupedSet
  <2> QED  BY <2>2, <2>3, <2>4
<1>4. \A c \in S : c \notin {441, 442} /\ (k = "MSCC" => c # 439)
  <2> SUFFICES ASSUME NEW row \in Writes[k] PROVE row.code \notin {441, 442} /\ (k = "MSCC" => row.code # 439)
    BY DEF ChildRows
  <2>1. SoundRow(k, row)
    BY RowsAreSound DEF SoundRows
  <2> QED  BY <2>1 DEF SoundRow
<1>5. k = "MSCC" => ServicesHeld(object, node)
  <2>1. k = "MSCC" => "ServiceIdentifier" \in ListNames(k)
    BY ListsAreOf DEF ListsOf
  <2> HIDE DEF object, node, S
  <2> QED  BY <1>1, <1>2, <1>4, <2>1 DEF ServicesHeld
<1>6. k = "SPI" => ParameterHeld(object, node)
  <2>1. k = "SPI" => {"ServiceParameterInfoType", "ServiceParameterInfoValue"} \subseteq ValueNames(k)
    <3> SUFFICES ASSUME k = "SPI" PROVE {"ServiceParameterInfoType", "ServiceParameterInfoValue"} \subseteq ValueNames(k)
      OBVIOUS
    <3>1. ListNames(k) = {}
      BY ListsAreOf DEF ListsOf
    <3>2. /\ Read("ServiceParameterInfoType", 441, "int") \in Reads[k]
          /\ Read("ServiceParameterInfoValue", 442, "parameter") \in Reads[k]
      BY DEF Reads, SPIReads
    <3> QED  BY <3>1, <3>2 DEF ValueNames, IsValue, Read
  <2>2. /\ Initial(MadeWithout, "SPI", "ServiceParameterInfoType") = Undefined
        /\ Initial(MadeWithout, "SPI", "ServiceParameterInfoValue") = Unset
    BY DEF Initial, MadeWithout
  <2> HIDE DEF object, node, S
  <2> QED  BY <1>1, <1>2, <1>4, <2>1, <2>2 DEF ParameterHeld
<1>7. RowsHeld(object, node, loose)
  <2> HIDE DEF object, node
  <2> QED  BY <1>1, <1>3 DEF RowsHeld
<1> HIDE DEF object, node
<1>8. Holds(object, node, loose)
  BY <1>1, <1>5, <1>6, <1>7 DEF Holds
<1> QED  BY <1>8 DEF object, node

(* What loses the value of another field stays. *)
Grows(object, new) ==
  /\ new.class = object.class
  /\ object.class = "CCA" /\ object.vals["ResultCodeExt"] # Unset => new.vals["ResultCodeExt"] # Unset
  /\ object.class = "Units" /\ object.kids["Money"] # << >> => new.kids["Money"] # << >>

(* What is lost to the wire is not found again. *)
LEMMA LostStays ==
  ASSUME NEW k \in DOMAIN Writes, NEW row \in Writes[k], NEW object, object.class = k, NEW new, Grows(object, new),
         Spoils(object, row.name), new.vals[row.name] = object.vals[row.name] \/ ~IsValue(row)
  PROVE  Spoils(new, row.name)
<1>1. row.name # "ServiceParameterInfoValue"
  <2>1. SoundRow(k, row)
    BY RowsAreSound DEF SoundRows
  <2> QED  BY <2>1 DEF SoundRow
<1>2. CASE row.name \in {"BearerService", "OriginatorSCCPAddress"} /\ object.vals[row.name] = Joined
  <2>1. IsValue(row)
    BY <1>2, SMTT(30) DEF Writes, CCRWrites, CCAWrites, MSCCWrites, UnitsWrites, MoneyWrites,
       SubscriptionIdWrites, OtherPartyIdWrites, UserEquipmentInfoWrites, ServiceInformationWrites,
       PSInformationWrites, IMSInformationWrites, EventTypeWrites, TimeStampsWrites,
       ApplicationServerInformationWrites, ServiceSpecificInfoWrites, SMSInformationWrites,
       RecipientInfoWrites, RecipientAddressWrites, OriginatorReceivedAddressWrites,
       MMSInformationWrites, OriginatorAddressWrites, MessageClassWrites, FinalUnitIndicationWrites,
       RedirectServerWrites, PSFurnishChargingInformationWrites, Value, Child, Vendor, Plain, IsValue
  <2> QED  BY <1>2, <2>1 DEF Spoils
<1>3. CASE ~(row.name \in {"BearerService", "OriginatorSCCPAddress"} /\ object.vals[row.name] = Joined)
  BY <1>1, <1>3 DEF Spoils, Grows
<1> QED  BY <1>2, <1>3

(* Another row of the class is not touched. *)
LEMMA OtherRowHeld ==
  ASSUME NEW k \in DOMAIN Writes, NEW row \in Writes[k], NEW object, object.class = k, NEW node, NEW loose,
         RowHeld(object, row, node, loose), NEW new, Grows(object, new), NEW after,
         IsValue(row) => new.vals[row.name] = object.vals[row.name],
         ~IsValue(row) => new.kids[row.name] = object.kids[row.name],
         row.code \in DOMAIN after <=> row.code \in DOMAIN node,
         row.code \in DOMAIN node => after[row.code] = node[row.code]
  PROVE  RowHeld(new, row, after, loose)
<1>1. Spoils(object, row.name) => Spoils(new, row.name)
  <2> SUFFICES ASSUME Spoils(object, row.name) PROVE Spoils(new, row.name)
    OBVIOUS
  <2>1. new.vals[row.name] = object.vals[row.name] \/ ~IsValue(row)
    OBVIOUS
  <2> QED  BY <2>1, LostStays, Zenon
<1>2. CASE IsValue(row)
  <2>1. new.class = object.class
    BY DEF Grows
  <2> QED  BY <1>1, <1>2, <2>1 DEF RowHeld, ValueHeld
<1>3. CASE ~IsValue(row) /\ row.rule = "set"
  BY <1>3 DEF RowHeld, SetHeld, SetThere, GroupedSet
<1>4. CASE ~IsValue(row) /\ row.rule # "set"
  BY <1>1, <1>4 DEF RowHeld, ChildHeld
<1> QED  BY <1>2, <1>3, <1>4

(* A setter of a value keeps members and AVPs alike. *)
LEMMA ValueSetHolds ==
  ASSUME NEW k \in DOMAIN Writes, NEW object \in ObjectsOf(k), NEW node, NEW loose, Holds(object, node, loose),
         NEW row \in Writes[k], IsValue(row), NEW v \in Int, row.name = "ResultCodeExt" => v # Unset
  PROVE  Holds(ValueSet(object, row, v), ValueFiled(node, row, v), loose)
<1> DEFINE new == ValueSet(object, row, v)
           after == ValueFiled(node, row, v)
<1>1. new \in ObjectsOf(k) /\ OnlyValue(object, row.name, Member(row, object.vals[row.name], v), new)
  BY ValueSetTyped
<1>2. object.class = k /\ new.class = k /\ new.kids = object.kids /\ new.lists = object.lists
      /\ new.vals[row.name] = Member(row, object.vals[row.name], v)
      /\ \A n \in ValueNames(k) : n # row.name => new.vals[n] = object.vals[n]
  BY <1>1 DEF OnlyValue, ObjectsOf
<1>3. SoundRow(k, row)
  BY RowsAreSound DEF SoundRows
<1>4. /\ \A c : c \in DOMAIN after <=> c \in DOMAIN node \/ (c = row.code /\ row.form # "none")
      /\ \A c \in DOMAIN node : c # row.code => after[c] = node[c]
      /\ row.form # "none" => after[row.code] = Basic(row.code, row.vendor, Layout(row.form, v))
  BY DEF ValueFiled, SetAVP, Basic
<1> HIDE DEF new, after
<1>5. Grows(object, new)
  <2>1. k = "CCA" /\ object.vals["ResultCodeExt"] # Unset => new.vals["ResultCodeExt"] # Unset
    <3>1. CASE row.name = "ResultCodeExt"
      <4>1. k = "CCA" => row.form = "int"
        BY <3>1, SMTT(20) DEF Writes, CCAWrites, Value, Child
      <4>2. k = "CCA" => Member(row, object.vals[row.name], v) = v
        BY <3>1, <4>1 DEF Member
      <4> QED  BY <1>2, <3>1, <4>2
    <3>2. CASE row.name # "ResultCodeExt"
      <4>1. k = "CCA" => "ResultCodeExt" \in ValueNames(k)
        <5> SUFFICES ASSUME k = "CCA" PROVE "ResultCodeExt" \in ValueNames(k)
          OBVIOUS
        <5>1. Value("ResultCodeExt", 268, Plain, "int") \in Writes[k]
          BY DEF Writes, CCAWrites
        <5>2. IsValue(Value("ResultCodeExt", 268, Plain, "int"))
          BY DEF Value, IsValue
        <5> QED  BY <5>1, <5>2, RowNames DEF Value
      <4> QED  BY <1>2, <3>2, <4>1
    <3> QED  BY <3>1, <3>2
  <2> QED  BY <1>2, <2>1 DEF Grows
<1>6. ASSUME NEW other \in Writes[k], other # row
      PROVE  RowHeld(new, other, after, loose)
  <2>1. other.name # row.name /\ (other.code = row.code => Collide(k, row, other))
    BY <1>6, RowsAreDifferent DEF RowsDiffer
  <2>2. RowHeld(object, other, node, loose)
    BY <1>2 DEF Holds, RowsHeld
  <2>3. /\ IsValue(other) => new.vals[other.name] = object.vals[other.name]
        /\ ~IsValue(other) => new.kids[other.name] = object.kids[other.name]
    BY <1>2, <2>1, RowNames
  <2>4. CASE other.code # row.code
    <3>1. /\ other.code \in DOMAIN after <=> other.code \in DOMAIN node
          /\ other.code \in DOMAIN node => after[other.code] = node[other.code]
      BY <1>4, <2>4
    <3> QED  BY <1>2, <1>5, <2>2, <2>3, <3>1, OtherRowHeld, Zenon
  <2>5. CASE other.code = row.code
    <3>1. Collide(k, row, other)
      BY <2>1, <2>5
    <3>2. CASE k = "CCA"
      <4>1. IsValue(other) /\ (row.name = "ResultCodeExt" => row.form = "int")
        BY <2>5, <3>1, <3>2, SMTT(20) DEF Collide, Writes, CCAWrites, Value, Child, IsValue
      <4>2. row.name = "ResultCodeExt" => new.vals["ResultCodeExt"] # Unset
        BY <1>2, <4>1 DEF Member
      <4>3. Spoils(new, other.name)
        BY <1>2, <2>1, <3>1, <3>2, <4>2 DEF Collide, Spoils
      <4> QED  BY <4>1, <4>3 DEF RowHeld, ValueHeld
    <3>3. CASE k = "Units"
      <4>1. other.name = "Money" /\ ~IsValue(other) /\ other.rule # "set"
        BY <2>1, <2>5, <3>1, <3>3, SMTT(20) DEF Collide, Writes, UnitsWrites, Value, Child, IsValue
      <4> QED  BY <4>1 DEF RowHeld, ChildHeld, Spoils
    <3> QED  BY <3>1, <3>2, <3>3 DEF Collide
  <2> QED  BY <2>4, <2>5
<1>7. RowHeld(new, row, after, loose)
  <2>1. ValueHeld(new, row, after)
    <3>1. CASE row.form \in {"none", "zone"}
      <4>1. row.name \in Lost
        BY <3>1, ValuesAreAgreed DEF ValuesAgree, Forms
      <4> QED  BY <4>1 DEF ValueHeld, Spoils, Lost
    <3>2. CASE row.form \notin {"none", "zone"}
      <4>1. new.vals[row.name] = v \/ (new.vals[row.name] = Joined /\ row.name \in {"BearerService", "OriginatorSCCPAddress"})
        BY <1>2, <3>2 DEF Member
      <4>2. row.code \in DOMAIN after /\ after[row.code] = Basic(row.code, row.vendor, Layout(row.form, v))
        BY <1>4, <3>2
      <4> QED  BY <4>1, <4>2 DEF ValueHeld, Spoils
    <3> QED  BY <3>1, <3>2
  <2> QED  BY <2>1 DEF RowHeld
<1>8. RowsHeld(new, after, loose)
  BY <1>2, <1>6, <1>7 DEF RowsHeld
<1>9. k = "MSCC" => ServicesHeld(new, after)
  <2>1. k = "MSCC" => row.code # 439
    BY <1>3 DEF SoundRow
  <2>2. k = "MSCC" => ServicesHeld(object, node)
    BY <1>2 DEF Holds
  <2>3. row.code # 439 /\ ServicesHeld(object, node) => ServicesHeld(new, after)
    BY <1>2, <1>4 DEF ServicesHeld
  <2> QED  BY <2>1, <2>2, <2>3
<1>10. k # "SPI"
  BY DEF Writes
<1>11. Holds(new, after, loose)
  BY <1>2, <1>8, <1>9, <1>10 DEF Holds
<1> QED  BY <1>11 DEF new, after

----------------------------------------------------------------------------
(* A whole message.                                                        *)

KidsKnown(objects, object) ==
  \A row \in Writes[object.class] : ~IsValue(row) =>
    \A i \in DOMAIN object.kids[row.name] :
      /\ object.kids[row.name][i] \in DOMAIN objects
      /\ objects[object.kids[row.name][i]].class = row.class

TriggerAVPs(list) == [i \in DOMAIN list |-> IntAVP(870, Vendor, list[i])]

(* The node that holds the trigger types of a list, and the object it is   *)
(* of; node is that of the object that has the list.                       *)
TriggersIn(holder, list) ==
  /\ holder = [c \in {870} |-> GroupedSet(870, TriggerAVPs(list))]
  /\ \A i, j \in DOMAIN list : list[i] = list[j] => i = j

TriggersAt(t, node, list, objects, heap) ==
  /\ node[1264] = Grouped(1264, Vendor, t) /\ t = node[1264].node
  /\ t \in DOMAIN objects /\ objects[t].class = "Trigger"
  /\ TriggersIn(heap[t], list)

TriggersHeld(node, list, objects, heap) ==
  IF 1264 \in DOMAIN node THEN \E t : TriggersAt(t, node, list, objects, heap) ELSE list = << >>

(* Two objects have no node of trigger types in common. *)
OwnTriggers(objects, heap) ==
  \A o, p \in DOMAIN objects :
    /\ objects[o].class = "MSCC" /\ objects[p].class = "MSCC"
    /\ 1264 \in DOMAIN heap[o] /\ 1264 \in DOMAIN heap[p] /\ heap[o][1264].node = heap[p][1264].node
    => o = p

Coherent(msg, loose) ==
  /\ \A o \in DOMAIN msg.objects :
       /\ Holds(msg.objects[o], msg.heap[o], loose)
       /\ KidsKnown(msg.objects, msg.objects[o])
       /\ msg.objects[o].class = "MSCC" =>
            TriggersHeld(msg.heap[o], msg.objects[o].lists["TriggerTypes"], msg.objects, msg.heap)
  /\ OwnTriggers(msg.objects, msg.heap)

(* The trigger types are not touched. *)
SameTriggers(object, node, new, after) ==
  /\ new.class = object.class /\ object.class # "Trigger"
  /\ object.class = "MSCC" => /\ new.lists["TriggerTypes"] = object.lists["TriggerTypes"]
                              /\ (1264 \in DOMAIN after <=> 1264 \in DOMAIN node)
                              /\ (1264 \in DOMAIN node => after[1264] = node[1264])

(* A message is coherent when a changed object is. *)
LEMMA CoherentChanged ==
  ASSUME NEW msg, Typed(msg), NEW loose, Coherent(msg, loose), NEW o \in 1..Len(msg.objects),
         NEW object, NEW node, SameTriggers(msg.objects[o], msg.heap[o], object, node),
         Holds(object, node, loose), KidsKnown(msg.objects, object),
         NEW new, DOMAIN new.objects = DOMAIN msg.objects, ChangedOnly(msg, o, object, node, new)
  PROVE  Coherent(new, loose)
<1> DEFINE last == Len(msg.objects)
<1>1. DOMAIN msg.objects = 1..last /\ DOMAIN new.objects = 1..last
  BY TypedParts
<1>2. /\ new.objects[o] = object /\ new.heap[o] = node /\ object.class = msg.objects[o].class
      /\ \A p \in 1..last : p # o => new.objects[p] = msg.objects[p] /\ new.heap[p] = msg.heap[p]
  BY DEF ChangedOnly, SameTriggers
<1>3. \A p \in 1..last : new.objects[p].class = msg.objects[p].class
  BY <1>2
<1>4. \A any : KidsKnown(msg.objects, any) => KidsKnown(new.objects, any)
  BY <1>1, <1>3 DEF KidsKnown
<1>5. \A p \in 1..last : Holds(new.objects[p], new.heap[p], loose) /\ KidsKnown(new.objects, new.objects[p])
  <2> TAKE p \in 1..last
  <2>1. CASE p = o
    BY <1>2, <1>4, <2>1
  <2>2. CASE p # o
    <3>1. Holds(msg.objects[p], msg.heap[p], loose) /\ KidsKnown(msg.objects, msg.objects[p])
      BY <1>1 DEF Coherent
    <3> QED  BY <1>2, <1>4, <2>2, <3>1
  <2> QED  BY <2>1, <2>2
<1>6. ASSUME NEW p \in 1..last, msg.objects[p].class = "MSCC"
      PROVE  TriggersHeld(new.heap[p], new.objects[p].lists["TriggerTypes"], new.objects, new.heap)
  <2>1. TriggersHeld(msg.heap[p], msg.objects[p].lists["TriggerTypes"], msg.objects, msg.heap)
    BY <1>1, <1>6 DEF Coherent
  <2>2. /\ new.objects[p].lists["TriggerTypes"] = msg.objects[p].lists["TriggerTypes"]
        /\ (1264 \in DOMAIN new.heap[p] <=> 1264 \in DOMAIN msg.heap[p])
        /\ (1264 \in DOMAIN msg.heap[p] => new.heap[p][1264] = msg.heap[p][1264])
    <3>1. CASE p = o
      BY <1>2, <1>6, <3>1 DEF SameTriggers
    <3>2. CASE p # o
      BY <1>2, <3>2
    <3> QED  BY <3>1, <3>2
  <2>3. \A t \in 1..last : msg.objects[t].class = "Trigger" =>
          new.heap[t] = msg.heap[t] /\ new.objects[t].class = "Trigger"
    BY <1>2, <1>3 DEF SameTriggers
  <2>4. CASE 1264 \in DOMAIN msg.heap[p]
    <3>1. PICK t : TriggersAt(t, msg.heap[p], msg.objects[p].lists["TriggerTypes"], msg.objects, msg.heap)
      BY <2>1, <2>4 DEF TriggersHeld
    <3>2. TriggersAt(t, new.heap[p], new.objects[p].lists["TriggerTypes"], new.objects, new.heap)
      BY <1>1, <2>2, <2>3, <2>4, <3>1 DEF TriggersAt
    <3> QED  BY <2>2, <2>4, <3>2 DEF TriggersHeld
  <2>5. CASE 1264 \notin DOMAIN msg.heap[p]
    BY <2>1, <2>2, <2>5 DEF TriggersHeld
  <2> QED  BY <2>4, <2>5
<1>7. OwnTriggers(new.objects, new.heap)
  <2>1. OwnTriggers(msg.objects, msg.heap)
    BY DEF Coherent
  <2>2. \A p \in 1..last : msg.objects[p].class = "MSCC" =>
          /\ (1264 \in DOMAIN new.heap[p] <=> 1264 \in DOMAIN msg.heap[p])
          /\ (1264 \in DOMAIN msg.heap[p] => new.heap[p][1264] = msg.heap[p][1264])
    <3> TAKE p \in 1..last
    <3>1. CASE p = o
      BY <1>2, <3>1 DEF SameTriggers
    <3>2. CASE p # o
      BY <1>2, <3>2
    <3> QED  BY <3>1, <3>2
  <2> QED  BY <1>1, <1>3, <2>1, <2>2 DEF OwnTriggers
<1> QED  BY <1>1, <1>3, <1>5, <1>6, <1>7 DEF Coherent

(* A message stays coherent when a new object is put behind the others. *)
LEMMA CoherentGrown ==
  ASSUME NEW msg, Typed(msg), NEW loose, Coherent(msg, loose), NEW k \in DOMAIN Writes,
         NEW node, k # "Trigger" => node = NewNode(k),
         NEW new, DOMAIN new.objects = 1 .. Len(msg.objects) + 1, GrownOnly(msg, NewObject(k), node, new)
  PROVE  Coherent(new, loose)
<1>1. PICK last \in Nat : last = Len(msg.objects) /\ DOMAIN msg.objects = 1..last
  BY TypedParts
<1>2. /\ DOMAIN new.objects = 1 .. last + 1
      /\ new.objects[last + 1] = NewObject(k) /\ new.heap[last + 1] = node
      /\ \A p \in 1..last : new.objects[p] = msg.objects[p] /\ new.heap[p] = msg.heap[p]
  BY <1>1 DEF GrownOnly
<1>3. \A any : KidsKnown(msg.objects, any) => KidsKnown(new.objects, any)
  <2>1. \A t \in DOMAIN msg.objects : t \in DOMAIN new.objects /\ new.objects[t] = msg.objects[t]
    BY <1>1, <1>2
  <2> QED  BY <2>1 DEF KidsKnown
<1>4. /\ NewObject(k).class = k
      /\ \A n \in ChildNames(k) : NewObject(k).kids[n] = << >>
      /\ \A n \in ListNames(k) : NewObject(k).lists[n] = << >>
  BY DEF NewObject
<1>5. Holds(NewObject(k), node, loose)
  <2>1. CASE k # "Trigger"
    BY <2>1, NewHolds
  <2>2. CASE k = "Trigger"
    <3>1. Writes[k] = {}
      BY <2>2 DEF Writes
    <3> QED  BY <1>4, <2>2, <3>1 DEF Holds, RowsHeld
  <2> QED  BY <2>1, <2>2
<1>6. KidsKnown(new.objects, NewObject(k))
  <2>1. \A row \in Writes[k] : ~IsValue(row) => NewObject(k).kids[row.name] = << >>
    BY <1>4, RowNames
  <2> QED  BY <1>4, <2>1 DEF KidsKnown
<1>7. k = "MSCC" => 1264 \notin DOMAIN node /\ NewObject(k).lists["TriggerTypes"] = << >>
  <2>1. k = "MSCC" => "TriggerTypes" \in ListNames(k)
    BY ListsAreOf DEF ListsOf
  <2>2. \A row \in Writes[k] : row.code # 1264
    <3> TAKE row \in Writes[k]
    <3>1. SoundRow(k, row)
      BY RowsAreSound DEF SoundRows
    <3> QED  BY <3>1 DEF SoundRow
  <2>3. 1264 \notin DOMAIN NewNode(k)
    BY <2>2 DEF NewNode, ChildRows
  <2> QED  BY <1>4, <2>1, <2>3
<1>8. ASSUME NEW p \in 1 .. last + 1
      PROVE  /\ Holds(new.objects[p], new.heap[p], loose) /\ KidsKnown(new.objects, new.objects[p])
             /\ new.objects[p].class = "MSCC" =>
                  TriggersHeld(new.heap[p], new.objects[p].lists["TriggerTypes"], new.objects, new.heap)
  <2>1. CASE p = last + 1
    BY <1>2, <1>4, <1>5, <1>6, <1>7, <2>1 DEF TriggersHeld
  <2>2. CASE p \in 1..last
    <3>1. /\ Holds(msg.objects[p], msg.heap[p], loose) /\ KidsKnown(msg.objects, msg.objects[p])
          /\ msg.objects[p].class = "MSCC" =>
               TriggersHeld(msg.heap[p], msg.objects[p].lists["TriggerTypes"], msg.objects, msg.heap)
      BY <1>1, <2>2 DEF Coherent
    <3>2. new.objects[p] = msg.objects[p] /\ new.heap[p] = msg.heap[p]
      BY <1>2, <2>2
    <3>3. new.objects[p].class = "MSCC" =>
            TriggersHeld(new.heap[p], new.objects[p].lists["TriggerTypes"], new.objects, new.heap)
      <4> SUFFICES ASSUME msg.objects[p].class = "MSCC"
                   PROVE  TriggersHeld(msg.heap[p], msg.objects[p].lists["TriggerTypes"], new.objects, new.heap)
        BY <3>2
      <4>1. CASE 1264 \in DOMAIN msg.heap[p]
        <5>1. PICK t : TriggersAt(t, msg.heap[p], msg.objects[p].lists["TriggerTypes"], msg.objects, msg.heap)
          BY <3>1, <4>1 DEF TriggersHeld
        <5>2. t \in DOMAIN new.objects /\ new.objects[t] = msg.objects[t] /\ new.heap[t] = msg.heap[t]
          BY <1>1, <1>2, <5>1 DEF TriggersAt
        <5>3. TriggersAt(t, msg.heap[p], msg.objects[p].lists["TriggerTypes"], new.objects, new.heap)
          BY <5>1, <5>2 DEF TriggersAt
        <5> QED  BY <4>1, <5>3 DEF TriggersHeld
      <4>2. CASE 1264 \notin DOMAIN msg.heap[p]
        BY <3>1, <4>2 DEF TriggersHeld
      <4> QED  BY <4>1, <4>2
    <3> QED  BY <1>3, <3>1, <3>2, <3>3
  <2> QED  BY <2>1, <2>2
<1>9. OwnTriggers(new.objects, new.heap)
  <2>1. OwnTriggers(msg.objects, msg.heap)
    BY DEF Coherent
  <2>2. \A p \in 1 .. last + 1 : new.objects[p].class = "MSCC" /\ 1264 \in DOMAIN new.heap[p] => p \in 1..last
    BY <1>2, <1>4, <1>7
  <2>3. \A p \in 1..last : new.objects[p] = msg.objects[p] /\ new.heap[p] = msg.heap[p]
    BY <1>2
  <2>4. \A p \in DOMAIN new.objects : new.objects[p].class = "MSCC" /\ 1264 \in DOMAIN new.heap[p] =>
          /\ p \in DOMAIN msg.objects /\ new.objects[p] = msg.objects[p] /\ new.heap[p] = msg.heap[p]
    BY <1>1, <1>2, <2>2, <2>3
  <2> QED  BY <2>1, <2>4 DEF OwnTriggers
<1> QED  BY <1>2, <1>8, <1>9 DEF Coherent

----------------------------------------------------------------------------
(* The operations keep a message typed and coherent.                       *)

Sound(msg, loose) == Typed(msg) /\ Coherent(msg, loose)

(* A sound message, taken apart at one object. *)
LEMMA SoundAt ==
  ASSUME NEW msg, NEW loose, Sound(msg, loose), NEW o \in 1..Len(msg.objects)
  PROVE  /\ msg.objects[o].class \in DOMAIN Writes /\ msg.objects[o] \in ObjectsOf(msg.objects[o].class)
         /\ o = 1 \/ msg.objects[o].class \notin {"CCR", "CCA"}
         /\ ShapedNode(msg.heap[o], o, Len(msg.objects))
         /\ Holds(msg.objects[o], msg.heap[o], loose)
         /\ KidsKnown(msg.objects, msg.objects[o])
         /\ Len(msg.objects) \in Nat \ {0} /\ DOMAIN msg.objects = 1..Len(msg.objects)
<1>1. Typed(msg) /\ Coherent(msg, loose)
  BY DEF Sound
<1>2. /\ DOMAIN msg.objects = 1..Len(msg.objects) /\ Len(msg.objects) \in Nat \ {0}
      /\ msg.objects[o].class \in DOMAIN Writes /\ msg.objects[o] \in ObjectsOf(msg.objects[o].class)
      /\ (o = 1 <=> msg.objects[o].class \in {"CCR", "CCA"})
      /\ ShapedNode(msg.heap[o], o, Len(msg.objects))
  BY <1>1, TypedParts
<1>3. Holds(msg.objects[o], msg.heap[o], loose) /\ KidsKnown(msg.objects, msg.objects[o])
  BY <1>1, <1>2 DEF Coherent
<1> QED  BY <1>2, <1>3

(* A change of one object that is sound in itself. *)
LEMMA ChangedSound ==
  ASSUME NEW msg, NEW loose, Sound(msg, loose), NEW o \in 1..Len(msg.objects),
         NEW object \in ObjectsOf(msg.objects[o].class),
         NEW node, ShapedNode(node, o, Len(msg.objects)),
         SameTriggers(msg.objects[o], msg.heap[o], object, node),
         Holds(object, node, loose), KidsKnown(msg.objects, object)
  PROVE  /\ Sound(Changed(msg, o, object, node), loose)
         /\ ChangedOnly(msg, o, object, node, Changed(msg, o, object, node))
<1> DEFINE new == Changed(msg, o, object, node)
<1>1. Typed(msg) /\ Coherent(msg, loose)
  BY DEF Sound
<1>2. Typed(new) /\ ChangedOnly(msg, o, object, node, new)
  BY <1>1, ChangedTyped
<1> HIDE DEF new
<1>3. DOMAIN new.objects = DOMAIN msg.objects
  <2>1. DOMAIN new.objects = 1..Len(new.objects) /\ DOMAIN msg.objects = 1..Len(msg.objects)
    BY <1>1, <1>2, TypedParts
  <2> QED  BY <1>2, <2>1 DEF ChangedOnly
<1>4. Coherent(new, loose)
  BY <1>1, <1>2, <1>3, CoherentChanged
<1>5. Sound(new, loose) /\ ChangedOnly(msg, o, object, node, new)
  BY <1>2, <1>4 DEF Sound
<1> QED  BY <1>5 DEF new

(* A message stays sound when a new object is put behind the others. *)
LEMMA GrownSound ==
  ASSUME NEW msg, NEW loose, Sound(msg, loose), NEW k \in DOMAIN Writes \ {"CCR", "CCA"},
         NEW node, ShapedNode(node, Len(msg.objects) + 1, Len(msg.objects) + 1),
         k # "Trigger" => node = NewNode(k)
  PROVE  /\ Sound(Grown(msg, NewObject(k), node), loose)
         /\ GrownOnly(msg, NewObject(k), node, Grown(msg, NewObject(k), node))
<1> DEFINE new == Grown(msg, NewObject(k), node)
<1>1. Typed(msg) /\ Coherent(msg, loose)
  BY DEF Sound
<1>2. Typed(new) /\ GrownOnly(msg, NewObject(k), node, new)
  <2>1. NewObject(k) \in ObjectsOf(k)
    BY NewObjectTyped
  <2> QED  BY <1>1, <2>1, GrownTyped
<1> HIDE DEF new
<1>3. DOMAIN new.objects = 1 .. Len(msg.objects) + 1
  <2>1. DOMAIN new.objects = 1..Len(new.objects)
    BY <1>2, TypedParts
  <2> QED  BY <1>2, <2>1 DEF GrownOnly
<1>4. Coherent(new, loose)
  BY <1>1, <1>2, <1>3, CoherentGrown
<1>5. Sound(new, loose) /\ GrownOnly(msg, NewObject(k), node, new)
  BY <1>2, <1>4 DEF Sound
<1> QED  BY <1>5 DEF new

ValueIsSet(msg, o, row, v, new) ==
  ChangedOnly(msg, o, ValueSet(msg.objects[o], row, v), ValueFiled(msg.heap[o], row, v), new)

(* SetValue keeps a message sound, and sets nothing but the value. *)
LEMMA SetValueSound ==
  ASSUME NEW msg, NEW loose, Sound(msg, loose), NEW o \in 1..Len(msg.objects),
         NEW row \in Writes[msg.objects[o].class], IsValue(row), NEW v \in Int, row.name = "ResultCodeExt" => v # Unset
  PROVE  Sound(SetValue(msg, o, row, v), loose) /\ ValueIsSet(msg, o, row, v, SetValue(msg, o, row, v))
<1> DEFINE object == ValueSet(msg.objects[o], row, v)
           node == ValueFiled(msg.heap[o], row, v)
           k == msg.objects[o].class
<1>1. /\ k \in DOMAIN Writes /\ msg.objects[o] \in ObjectsOf(k) /\ (o = 1 \/ k \notin {"CCR", "CCA"})
      /\ ShapedNode(msg.heap[o], o, Len(msg.objects)) /\ Holds(msg.objects[o], msg.heap[o], loose)
      /\ KidsKnown(msg.objects, msg.objects[o]) /\ Len(msg.objects) \in Nat
  BY SoundAt
<1>2. object \in ObjectsOf(k) /\ OnlyValue(msg.objects[o], row.name, Member(row, msg.objects[o].vals[row.name], v), object)
  BY <1>1, ValueSetTyped
<1>3. ShapedNode(node, o, Len(msg.objects))
  BY <1>1, ValueFiledShaped
<1>4. Holds(object, node, loose)
  BY <1>1, ValueSetHolds
<1>5. SameTriggers(msg.objects[o], msg.heap[o], object, node)
  <2>1. k # "Trigger"
    BY DEF Writes
  <2>2. row.code # 1264
    <3>1. SoundRow(k, row)
      BY <1>1, RowsAreSound DEF SoundRows
    <3> QED  BY <3>1 DEF SoundRow
  <2>3. /\ 1264 \in DOMAIN node <=> 1264 \in DOMAIN msg.heap[o]
        /\ 1264 \in DOMAIN msg.heap[o] => node[1264] = msg.heap[o][1264]
    BY <2>2 DEF ValueFiled, SetAVP, Basic
  <2> HIDE DEF object, node
  <2> QED  BY <1>2, <2>1, <2>3 DEF SameTriggers, OnlyValue
<1>6. KidsKnown(msg.objects, object)
  <2> HIDE DEF object
  <2> QED  BY <1>1, <1>2, SMTT(30), ZenonT(30) DEF KidsKnown, OnlyValue
<1>7. SetValue(msg, o, row, v) = Changed(msg, o, object, node)
  BY SetValueChanges DEF Sound
<1>8. ValueIsSet(msg, o, row, v, SetValue(msg, o, row, v)) <=> ChangedOnly(msg, o, object, node, SetValue(msg, o, row, v))
  BY DEF ValueIsSet
<1> HIDE DEF object, node
<1> QED  BY <1>2, <1>3, <1>4, <1>5, <1>6, <1>7, <1>8, ChangedSound

----------------------------------------------------------------------------
(* Create.                                                                 *)

(* An index inside the set takes the place of what was there. *)
OneOf(items, avp, new) ==
  \A i \in 1..Len(new) : new[i] = avp \/ (i \in 1..Len(items) /\ new[i] = items[i])

(* SetInGroup replaces an item, appends one or does nothing. *)
LEMMA SetInGroupIs ==
  ASSUME NEW S, NEW items \in Seq(S), NEW avp \in S, NEW index \in Nat
  PROVE  SetInGroup(items, avp, index) \in Seq(S) /\ OneOf(items, avp, SetInGroup(items, avp, index))
<1> DEFINE new == SetInGroup(items, avp, index)
<1>1. CASE index = Len(items)
  <2>1. new = Append(items, avp)
    BY <1>1 DEF SetInGroup
  <2> HIDE DEF new
  <2>2. new \in Seq(S) /\ Len(new) = Len(items) + 1
    BY <2>1
  <2>3. \A i \in 1..Len(new) : new[i] = avp \/ (i \in 1..Len(items) /\ new[i] = items[i])
    BY <2>1, <2>2
  <2> QED  BY <2>2, <2>3 DEF new, OneOf
<1>2. CASE index > Len(items)
  <2>1. new = items
    BY <1>2 DEF SetInGroup
  <2> HIDE DEF new
  <2>2. new \in Seq(S) /\ \A i \in 1..Len(new) : new[i] = avp \/ (i \in 1..Len(items) /\ new[i] = items[i])
    BY <2>1
  <2> QED  BY <2>2 DEF new, OneOf
<1>3. CASE index < Len(items)
  <2>1. new = [items EXCEPT ![index + 1] = avp] /\ index + 1 \in 1..Len(items)
    BY <1>3 DEF SetInGroup
  <2> HIDE DEF new
  <2>2. new \in Seq(S) /\ Len(new) = Len(items)
    BY <2>1
  <2>3. \A i \in 1..Len(new) : new[i] = avp \/ (i \in 1..Len(items) /\ new[i] = items[i])
    BY <2>1, <2>2
  <2> QED  BY <2>2, <2>3 DEF new, OneOf
<1> QED  BY <1>1, <1>2, <1>3

(* The items of a set are filed with SetAVP. *)
LEMMA ItemsFiled ==
  ASSUME NEW node, IsNode(node), NEW c \in DOMAIN node, node[c].type = "GROUPEDSET", NEW items
  PROVE  /\ [node EXCEPT ![c].items = items] = SetAVP(node, GroupedSet(c, items))
         /\ node[c].items \in Seq(Leaf)
         /\ node[c] = GroupedSet(c, node[c].items)
<1>1. node[c] \in SetOfLeaves /\ node[c].code = c /\ node = [d \in DOMAIN node |-> node[d]]
  BY DEF IsNode, AVP, Leaf
<1>2. PICK old \in Seq(Leaf) : node[c] = GroupedSet(c, old)
  BY <1>1 DEF SetOfLeaves, GroupedSet
<1>3. node[c].items = old
  BY <1>2 DEF GroupedSet
<1>4. [GroupedSet(c, old) EXCEPT !.items = items] = GroupedSet(c, items)
  BY DEF GroupedSet
<1>5. [node[c] EXCEPT !.items = items] = GroupedSet(c, items)
  BY <1>2, <1>4
<1>6. [node EXCEPT ![c] = GroupedSet(c, items)] = SetAVP(node, GroupedSet(c, items))
  <2>1. GroupedSet(c, items).code = c /\ DOMAIN node \cup {c} = DOMAIN node
    BY DEF GroupedSet
  <2>2. PICK avp : avp = GroupedSet(c, items)
    OBVIOUS
  <2>3. [node EXCEPT ![c] = avp] = [d \in DOMAIN node |-> IF d = c THEN avp ELSE node[d]]
    BY <1>1
  <2> QED  BY <2>1, <2>2, <2>3 DEF SetAVP
<1>7. [node EXCEPT ![c].items = items] = [node EXCEPT ![c] = [node[c] EXCEPT !.items = items]]
  OBVIOUS
<1> QED  BY <1>2, <1>3, <1>5, <1>6, <1>7

(* A set takes items that are shaped as those it has. *)
ItemsSet(node, c, items) == [node EXCEPT ![c].items = items]

(* An item that is set keeps the shape of the node. *)
LEMMA ItemSetShaped ==
  ASSUME NEW last \in Nat, NEW n \in 1..last, NEW node, ShapedNode(node, n, last),
         NEW c \in DOMAIN node, c \in Int, node[c].type = "GROUPEDSET",
         NEW avp \in Leaf, avp.code = c, Shaped(n, last, avp), NEW index \in Nat,
         NEW items, items = SetInGroup(node[c].items, avp, index)
  PROVE  /\ ItemsSet(node, c, items) = SetAVP(node, GroupedSet(c, items))
         /\ ShapedNode(ItemsSet(node, c, items), n, last)
<1> DEFINE old == node[c].items
<1>1. IsNode(node) /\ (n = 1 \/ c # 263) /\ \A i \in 1..Len(Members(node[c])) : Shaped(n, last, Members(node[c])[i])
  BY DEF ShapedNode
<1>2. /\ old \in Seq(Leaf) /\ Members(node[c]) = old
      /\ ItemsSet(node, c, items) = SetAVP(node, GroupedSet(c, items))
  BY <1>1, ItemsFiled, SMTT(30), ZenonT(30) DEF Members, ItemsSet
<1>3. \A i \in 1..Len(old) : old[i].code = c /\ Shaped(n, last, old[i])
  BY <1>1, <1>2 DEF IsNode
<1>4. items = SetInGroup(old, avp, index)
  OBVIOUS
<1> HIDE DEF old
<1>5. PICK L : L = Leaf
  OBVIOUS
<1>6. old \in Seq(L) /\ avp \in L
  BY <1>2, <1>5
<1>7. items \in Seq(Leaf) /\ \A i \in 1..Len(items) : items[i] = avp \/ (i \in 1..Len(old) /\ items[i] = old[i])
  <2>1. OneOf(old, avp, SetInGroup(old, avp, index)) /\ SetInGroup(old, avp, index) \in Seq(L)
    BY <1>6, SetInGroupIs, Zenon
  <2> QED  BY <1>4, <1>5, <2>1 DEF OneOf
<1>8. \A i \in 1..Len(items) : items[i].code = c /\ Shaped(n, last, items[i])
  BY <1>3, <1>7
<1>9. Fits(GroupedSet(c, items), n, last)
  <2>1. n \in Nat
    OBVIOUS
  <2> QED  BY <1>1, <1>7, <1>8, <2>1, SetFits, ZenonT(30)
<1>10. GroupedSet(c, items).code = c
  BY DEF GroupedSet
<1>11. ShapedNode(SetAVP(node, GroupedSet(c, items)), n, last)
  <2>1. n \in Nat
    OBVIOUS
  <2>2. PICK new : new = GroupedSet(c, items)
    OBVIOUS
  <2>3. Fits(new, n, last) /\ new.code \in Int
    BY <1>9, <1>10, <2>2
  <2>4. ShapedNode(SetAVP(node, new), n, last)
    BY <2>1, <2>3, SetAVPFiles, Zenon
  <2> QED  BY <2>2, <2>4
<1> QED  BY <1>2, <1>11

ChildAdded(object, row, id) ==
  [object EXCEPT !.kids[row.name] = IF row.rule = "set" THEN Append(@, id) ELSE <<id>>]

ChildFiled(node, row, id, kids) ==
  IF row.rule = "set"
  THEN [node EXCEPT ![row.code].items = SetInGroup(@, Grouped(row.code, row.vendor, id), Len(kids))]
  ELSE SetAVP(node, Grouped(row.code, row.vendor, id))

(* To change an object and then to append one is to append and then change. *)
Swapped(s, o, e, x) == Append([s EXCEPT ![o] = e], x) = [Append(s, x) EXCEPT ![o] = e]

(* Appending and changing can be done in either order. *)
LEMMA AppendSwaps ==
  ASSUME NEW S, NEW s \in Seq(S), NEW o \in 1..Len(s), NEW e \in S, NEW x \in S
  PROVE  Swapped(s, o, e, x)
<1> DEFINE changed == [s EXCEPT ![o] = e]
           grown == Append(s, x)
<1>1. changed \in Seq(S) /\ Len(changed) = Len(s) /\ \A i \in 1..Len(s) : changed[i] = IF i = o THEN e ELSE s[i]
  OBVIOUS
<1>2. grown \in Seq(S) /\ Len(grown) = Len(s) + 1 /\ grown[Len(s) + 1] = x /\ \A i \in 1..Len(s) : grown[i] = s[i]
  OBVIOUS
<1> HIDE DEF changed, grown
<1> DEFINE one == Append(changed, x)
           two == [grown EXCEPT ![o] = e]
<1>3. one \in Seq(S) /\ Len(one) = Len(s) + 1 /\ one[Len(s) + 1] = x /\ \A i \in 1..Len(s) : one[i] = changed[i]
  BY <1>1
<1>4. two \in Seq(S) /\ Len(two) = Len(s) + 1 /\ \A i \in 1 .. Len(s) + 1 : two[i] = IF i = o THEN e ELSE grown[i]
  BY <1>2
<1> HIDE DEF one, two
<1>5. \A i \in 1 .. Len(s) + 1 : one[i] = two[i]
  <2>1. PICK last \in Nat : last = Len(s)
    OBVIOUS
  <2> SUFFICES ASSUME NEW i \in 1 .. last + 1 PROVE one[i] = two[i]
    BY <2>1
  <2>2. two[i] = IF i = o THEN e ELSE grown[i]
    BY <1>4, <2>1
  <2>3. CASE i = last + 1
    BY <1>2, <1>3, <2>1, <2>2, <2>3
  <2>4. CASE i # last + 1
    <3>1. i \in 1..last
      BY <2>4
    <3> QED  BY <1>1, <1>2, <1>3, <2>1, <2>2, <3>1
  <2> QED  BY <2>3, <2>4
<1>6. one = two
  BY <1>3, <1>4, <1>5
<1> QED  BY <1>6 DEF Swapped, one, two, changed, grown

(* Create puts a new object behind the others and files it in its parent. *)
LEMMA CreateChanges ==
  ASSUME NEW msg, Typed(msg), NEW o \in 1..Len(msg.objects), NEW row,
         NEW id, id = Len(msg.objects) + 1, NEW kids, kids = msg.objects[o].kids[row.name],
         ChildAdded(msg.objects[o], row, id) \in Object, ChildFiled(msg.heap[o], row, id, kids) \in Node,
         NewObject(row.class) \in Object, NewNode(row.class) \in Node
  PROVE  Create(msg, o, row) =
           Changed(Grown(msg, NewObject(row.class), NewNode(row.class)), o,
                   ChildAdded(msg.objects[o], row, id), ChildFiled(msg.heap[o], row, id, kids))
<1>1. PICK objects, heap : msg = [objects |-> objects, heap |-> heap]
  BY TypedParts
<1> DEFINE object == ChildAdded(objects[o], row, id)
           node == ChildFiled(heap[o], row, id, kids)
<1>2. objects \in Seq(Object) /\ heap \in Seq(Node) /\ o \in 1..Len(objects) /\ o \in 1..Len(heap)
  BY <1>1, TypedParts
<1>3. Create(msg, o, row) = [objects |-> Append([objects EXCEPT ![o] = object], NewObject(row.class)),
                             heap |-> Append([heap EXCEPT ![o] = node], NewNode(row.class))]
  BY <1>1 DEF Create, ChildAdded, ChildFiled
<1>4. object \in Object /\ node \in Node
  BY <1>1
<1>5. /\ Changed(Grown(msg, NewObject(row.class), NewNode(row.class)), o, object, node) =
           [objects |-> [Append(objects, NewObject(row.class)) EXCEPT ![o] = object],
            heap |-> [Append(heap, NewNode(row.class)) EXCEPT ![o] = node]]
  BY <1>1 DEF Changed, Grown
<1>6. ChildAdded(msg.objects[o], row, id) = object /\ ChildFiled(msg.heap[o], row, id, kids) = node
  BY <1>1
<1> HIDE DEF object, node
<1>7. Swapped(objects, o, object, NewObject(row.class)) /\ Swapped(heap, o, node, NewNode(row.class))
  BY <1>2, <1>4, AppendSwaps
<1> QED  BY <1>3, <1>5, <1>6, <1>7 DEF Swapped

(* What a Create function does to the object. *)
OnlyChild(object, name, kids, new) ==
  /\ new.class = object.class /\ new.vals = object.vals /\ new.lists = object.lists
  /\ new.kids[name] = kids
  /\ \A n \in ChildNames(object.class) : n # name => new.kids[n] = object.kids[n]

KidsAfter(row, kids, id) == IF row.rule = "set" THEN Append(kids, id) ELSE <<id>>

(* A new child changes no other member of its parent. *)
LEMMA ChildAddedTyped ==
  ASSUME NEW k \in DOMAIN Writes, NEW object \in ObjectsOf(k), NEW row \in Writes[k], ~IsValue(row), NEW id \in Nat
  PROVE  /\ ChildAdded(object, row, id) \in ObjectsOf(k)
         /\ OnlyChild(object, row.name, KidsAfter(row, object.kids[row.name], id), ChildAdded(object, row, id))
<1>1. PICK vals \in [ValueNames(k) -> Int], lists \in [ListNames(k) -> Seq(Int)], kids \in [ChildNames(k) -> Seq(Nat)] :
        Made(object, k, vals, lists, kids)
  BY ObjectParts, Zenon
<1>2. row.name \in ChildNames(k)
  BY RowNames
<1>3. PICK w \in Seq(Nat) : w = KidsAfter(row, kids[row.name], id)
  <2>1. KidsAfter(row, kids[row.name], id) \in Seq(Nat)
    BY <1>1, <1>2 DEF KidsAfter
  <2> QED  BY <2>1
<1>4. [kids EXCEPT ![row.name] = w] \in [ChildNames(k) -> Seq(Nat)]
  BY <1>1
<1> DEFINE new == ChildAdded(object, row, id)
<1>5. Made(new, k, vals, lists, [kids EXCEPT ![row.name] = w])
  <2>1. new = WithKids(object, row.name, w)
    BY <1>1, <1>3 DEF Made, ChildAdded, WithKids, KidsAfter
  <2> HIDE DEF new
  <2> QED  BY <1>1, <2>1, ObjectExcept, Zenon
<1> HIDE DEF new
<1>6. new \in ObjectsOf(k)
  BY <1>4, <1>5, ObjectParts, Zenon
<1>7. OnlyChild(object, row.name, w, new)
  BY <1>1, <1>2, <1>5 DEF OnlyChild, Made
<1>8. object.kids = kids
  BY <1>1 DEF Made
<1> QED  BY <1>3, <1>6, <1>7, <1>8 DEF new

(* What a setter does to the node: one AVP is filed. *)
FiledOnly(node, code, avp, after) ==
  /\ DOMAIN after = DOMAIN node \cup {code}
  /\ after[code] = avp
  /\ \A c \in DOMAIN node : c # code => after[c] = node[c]

ChildAVP(node, row, id, kids) ==
  IF row.rule = "set"
  THEN GroupedSet(row.code, SetInGroup(node[row.code].items, Grouped(row.code, row.vendor, id), Len(kids)))
  ELSE Grouped(row.code, row.vendor, id)

(* A new child is filed as one AVP of its parent. *)
LEMMA ChildFiledShaped ==
  ASSUME NEW last \in Nat, NEW n \in 1..last, NEW node, ShapedNode(node, n, last),
         NEW k \in DOMAIN Writes, n = 1 \/ k \notin {"CCR", "CCA"},
         NEW row \in Writes[k], ~IsValue(row), NEW id \in n + 1 .. last, NEW kids \in Seq(Nat),
         row.rule = "set" => SetThere(row, node)
  PROVE  /\ ShapedNode(ChildFiled(node, row, id, kids), n, last)
         /\ FiledOnly(node, row.code, ChildAVP(node, row, id, kids), ChildFiled(node, row, id, kids))
<1>1. row.code \in Int /\ row.vendor \in {0, 1} /\ (n = 1 \/ row.code # 263)
  <2>1. SoundRow(k, row)
    BY RowsAreSound DEF SoundRows
  <2>2. row.code \in Int /\ row.vendor \in {0, 1} /\ (row.code = 263 => k \in {"CCR", "CCA"})
    BY <2>1 DEF SoundRow
  <2>3. n = 1 \/ row.code # 263
    BY <2>2
  <2> QED  BY <2>2, <2>3
<1> DEFINE avp == Grouped(row.code, row.vendor, id)
<1>2. Fits(avp, n, last) /\ avp \in Leaf
  BY <1>1, GroupedFits
<1>3. avp.code = row.code /\ Members(avp) = <<avp>>
  BY DEF Grouped, Members
<1>4. n \in Nat
  OBVIOUS
<1> HIDE DEF avp
<1>5. Shaped(n, last, avp)
  <2>1. \A i \in 1..Len(<<avp>>) : Shaped(n, last, <<avp>>[i])
    BY <1>2, <1>3 DEF Fits
  <2> QED  BY <2>1
<1>6. CASE row.rule = "set"
  <2>1. row.code \in DOMAIN node /\ node[row.code].type = "GROUPEDSET"
    BY <1>6 DEF SetThere
  <2>2. PICK index \in Nat : index = Len(kids)
    OBVIOUS
  <2>3. PICK items : items = SetInGroup(node[row.code].items, avp, index)
    OBVIOUS
  <2>4. /\ ItemsSet(node, row.code, items) = SetAVP(node, GroupedSet(row.code, items))
        /\ ShapedNode(ItemsSet(node, row.code, items), n, last)
    BY <1>1, <1>2, <1>3, <1>5, <2>1, <2>3, ItemSetShaped
  <2>5. ChildFiled(node, row, id, kids) = ItemsSet(node, row.code, items)
    BY <1>6, <2>2, <2>3 DEF ChildFiled, ItemsSet, avp
  <2>6. ChildAVP(node, row, id, kids) = GroupedSet(row.code, items)
    BY <1>6, <2>2, <2>3 DEF ChildAVP, avp
  <2>7. FiledOnly(node, row.code, GroupedSet(row.code, items), SetAVP(node, GroupedSet(row.code, items)))
    BY DEF FiledOnly, SetAVP, GroupedSet
  <2> QED  BY <2>4, <2>5, <2>6, <2>7
<1>7. CASE row.rule # "set"
  <2>1. ChildFiled(node, row, id, kids) = SetAVP(node, avp) /\ ChildAVP(node, row, id, kids) = avp
    BY <1>7 DEF ChildFiled, ChildAVP, avp
  <2>2. ShapedNode(SetAVP(node, avp), n, last)
    <3>1. avp.code \in Int
      BY <1>1, <1>3
    <3> QED  BY <1>2, <1>4, <3>1, SetAVPFiles, Zenon
  <2>3. FiledOnly(node, row.code, avp, SetAVP(node, avp))
    BY <1>3 DEF FiledOnly, SetAVP
  <2> QED  BY <2>1, <2>2, <2>3
<1> QED  BY <1>6, <1>7

(* The children of a set and their AVPs grow together. *)
LEMMA ChildAVPsGrow ==
  ASSUME NEW row, NEW kids \in Seq(Nat), NEW id \in Nat
  PROVE  SetInGroup(ChildAVPs(row, kids), Grouped(row.code, row.vendor, id), Len(kids)) = ChildAVPs(row, Append(kids, id))
<1> DEFINE Of(child) == Grouped(row.code, row.vendor, child)
<1>1. PICK S : \A child \in Nat : Of(child) \in S
  <2>1. \A child \in Nat : Of(child) \in {Of(c) : c \in Nat}
    OBVIOUS
  <2> QED  BY <2>1
<1> DEFINE avps == ChildAVPs(row, kids)
           more == Append(kids, id)
           both == ChildAVPs(row, more)
<1>2. Of(id) = Grouped(row.code, row.vendor, id)
  OBVIOUS
<1>3. avps = [i \in 1..Len(kids) |-> Of(kids[i])]
  BY DEF ChildAVPs
<1>4. more \in Seq(Nat) /\ Len(more) = Len(kids) + 1 /\ more[Len(kids) + 1] = id /\ \A i \in 1..Len(kids) : more[i] = kids[i]
  OBVIOUS
<1>5. both = [i \in DOMAIN more |-> Of(more[i])]
  BY DEF ChildAVPs
<1> HIDE DEF Of, avps, more, both
<1>6. avps \in Seq(S) /\ Len(avps) = Len(kids) /\ \A i \in 1..Len(kids) : avps[i] = Of(kids[i])
  BY <1>1, <1>3
<1>7. both \in Seq(S) /\ Len(both) = Len(kids) + 1 /\ \A i \in 1 .. Len(kids) + 1 : both[i] = Of(more[i])
  BY <1>1, <1>4, <1>5
<1> DEFINE grown == Append(avps, Of(id))
<1>8. grown \in Seq(S) /\ Len(grown) = Len(kids) + 1 /\ grown[Len(kids) + 1] = Of(id) /\ \A i \in 1..Len(kids) : grown[i] = avps[i]
  BY <1>1, <1>6
<1>9. SetInGroup(avps, Of(id), Len(kids)) = grown
  BY <1>6 DEF SetInGroup
<1> HIDE DEF grown
<1>10. \A i \in 1 .. Len(kids) + 1 : grown[i] = both[i]
  <2>1. PICK k \in Nat : k = Len(kids)
    OBVIOUS
  <2>2. \A i \in 1..k : grown[i] = both[i]
    BY <1>4, <1>6, <1>7, <1>8, <2>1
  <2>3. grown[k + 1] = both[k + 1]
    BY <1>4, <1>7, <1>8, <2>1
  <2>4. \A i \in 1 .. k + 1 : i \in 1..k \/ i = k + 1
    BY <2>1
  <2> QED  BY <2>1, <2>2, <2>3, <2>4
<1>11. grown = both
  BY <1>7, <1>8, <1>10
<1> QED  BY <1>2, <1>9, <1>11 DEF avps, both, more

(* A child that a message has is filed in the node. *)
LEMMA ChildHolds ==
  ASSUME NEW k \in DOMAIN Writes, NEW object \in ObjectsOf(k), NEW node, NEW loose, Holds(object, node, loose),
         NEW row \in Writes[k], ~IsValue(row), NEW id \in Nat,
         NEW new, OnlyChild(object, row.name, KidsAfter(row, object.kids[row.name], id), new),
         NEW after, FiledOnly(node, row.code, ChildAVP(node, row, id, object.kids[row.name]), after)
  PROVE  Holds(new, after, loose)
<1> DEFINE kids == object.kids[row.name]
<1>1. /\ object.class = k /\ new.class = k /\ new.vals = object.vals /\ new.lists = object.lists
      /\ new.kids[row.name] = KidsAfter(row, kids, id)
      /\ \A n \in ChildNames(k) : n # row.name => new.kids[n] = object.kids[n]
  BY DEF OnlyChild, ObjectsOf
<1>2. SoundRow(k, row)
  BY RowsAreSound DEF SoundRows
<1>3. kids \in Seq(Nat)
  BY RowNames DEF ObjectsOf
<1>4. /\ DOMAIN after = DOMAIN node \cup {row.code}
      /\ \A c \in DOMAIN node : c # row.code => after[c] = node[c]
      /\ after[row.code] = ChildAVP(node, row, id, kids)
  BY DEF FiledOnly
<1>5. new.kids[row.name] # << >>
  BY <1>1, <1>3 DEF KidsAfter
<1> HIDE DEF kids
<1>6. Grows(object, new)
  <2>1. k = "Units" /\ object.kids["Money"] # << >> => new.kids["Money"] # << >>
    <3>1. k = "Units" => "Money" \in ChildNames(k)
      <4> SUFFICES ASSUME k = "Units" PROVE "Money" \in ChildNames(k)
        OBVIOUS
      <4>1. \E r \in Writes[k] : r.name = "Money" /\ ~IsValue(r)
        BY SMTT(20) DEF Writes, UnitsWrites, Value, Child, IsValue
      <4> QED  BY <4>1, RowNames
    <3> QED  BY <1>1, <1>5, <3>1
  <2> QED  BY <1>1, <2>1 DEF Grows
<1>7. ASSUME NEW other \in Writes[k], other # row
      PROVE  RowHeld(new, other, after, loose)
  <2>1. other.name # row.name /\ (other.code = row.code => Collide(k, row, other))
    BY <1>7, RowsAreDifferent DEF RowsDiffer
  <2>2. RowHeld(object, other, node, loose)
    BY <1>1 DEF Holds, RowsHeld
  <2>3. /\ IsValue(other) => new.vals[other.name] = object.vals[other.name]
        /\ ~IsValue(other) => new.kids[other.name] = object.kids[other.name]
    BY <1>1, <2>1, RowNames
  <2>4. CASE other.code # row.code
    <3>1. /\ other.code \in DOMAIN after <=> other.code \in DOMAIN node
          /\ other.code \in DOMAIN node => after[other.code] = node[other.code]
      BY <1>4, <2>4
    <3> QED  BY <1>1, <1>6, <2>2, <2>3, <3>1, OtherRowHeld, Zenon
  <2>5. CASE other.code = row.code
    <3>1. Collide(k, row, other)
      BY <2>1, <2>5
    <3>2. CASE k = "CCA"
      <4>1. row.name \notin {"ResultCode", "ResultCodeExt"}
        BY <3>2, SMTT(20) DEF Writes, CCAWrites, Value, Child, IsValue
      <4> QED  BY <3>1, <3>2, <4>1 DEF Collide
    <3>3. CASE k = "Units"
      <4>1. row.name = "Money" /\ other.name = "Time" /\ IsValue(other)
        BY <2>1, <2>5, <3>1, <3>3, SMTT(20) DEF Collide, Writes, UnitsWrites, Value, Child, IsValue
      <4> QED  BY <1>1, <1>5, <3>3, <4>1 DEF RowHeld, ValueHeld, Spoils
    <3> QED  BY <3>1, <3>2, <3>3 DEF Collide
  <2> QED  BY <2>4, <2>5
<1>8. RowHeld(new, row, after, loose)
  <2>1. row.code \in DOMAIN after
    BY <1>4
  <2>2. CASE row.rule = "set" /\ row.name \in loose
    <3>1. after[row.code].type = "GROUPEDSET"
      BY <1>4, <2>2 DEF ChildAVP, GroupedSet
    <3> QED  BY <2>1, <2>2, <3>1 DEF RowHeld, SetThere
  <2>3. CASE row.rule = "set" /\ row.name \notin loose
    <3>1. SetHeld(object, row, node)
      <4>1. RowHeld(object, row, node, loose)
        BY <1>1 DEF Holds, RowsHeld
      <4> QED  BY <2>3, <4>1 DEF RowHeld
    <3>2. node[row.code].items = ChildAVPs(row, kids)
      BY <3>1 DEF SetHeld, GroupedSet, kids
    <3>3. after[row.code] = GroupedSet(row.code, ChildAVPs(row, Append(kids, id)))
      BY <1>3, <1>4, <2>3, <3>2, ChildAVPsGrow DEF ChildAVP
    <3>4. SetHeld(new, row, after)
      BY <1>1, <2>1, <2>3, <3>3 DEF SetHeld, KidsAfter
    <3> QED  BY <2>3, <3>4 DEF RowHeld
  <2>4. CASE row.rule # "set"
    <3>1. new.kids[row.name] = <<id>> /\ after[row.code] = Grouped(row.code, row.vendor, id)
      BY <1>1, <1>4, <2>4 DEF KidsAfter, ChildAVP
    <3>2. ChildHeld(new, row, after)
      BY <2>1, <3>1 DEF ChildHeld
    <3> QED  BY <2>4, <3>2 DEF RowHeld
  <2> QED  BY <2>2, <2>3, <2>4
<1>9. RowsHeld(new, after, loose)
  BY <1>1, <1>7, <1>8 DEF RowsHeld
<1>10. k = "MSCC" => ServicesHeld(new, after)
  <2>1. k = "MSCC" => row.code # 439
    BY <1>2 DEF SoundRow
  <2>2. k = "MSCC" => ServicesHeld(object, node)
    BY <1>1 DEF Holds
  <2>3. row.code # 439 /\ ServicesHeld(object, node) => ServicesHeld(new, after)
    BY <1>1, <1>4 DEF ServicesHeld
  <2> QED  BY <2>1, <2>2, <2>3
<1>11. k # "SPI"
  BY DEF Writes
<1> QED  BY <1>1, <1>9, <1>10, <1>11 DEF Holds

(* What Create does to the objects. *)
Created(msg, o, row, new) ==
  /\ Len(new.objects) = Len(msg.objects) + 1
  /\ new.objects[Len(msg.objects) + 1] = NewObject(row.class)
  /\ OnlyChild(msg.objects[o], row.name,
               KidsAfter(row, msg.objects[o].kids[row.name], Len(msg.objects) + 1), new.objects[o])
  /\ \A p \in 1..Len(msg.objects) : p # o => new.objects[p] = msg.objects[p]

(* A child may be made at any time. *)
LEMMA CreateSound ==
  ASSUME NEW msg, NEW loose, Sound(msg, loose), NEW o \in 1..Len(msg.objects),
         NEW row \in Writes[msg.objects[o].class], ~IsValue(row)
  PROVE  Sound(Create(msg, o, row), loose) /\ Created(msg, o, row, Create(msg, o, row))
<1>1. PICK last \in Nat \ {0} : last = Len(msg.objects)
  BY SoundAt
<1> DEFINE k == msg.objects[o].class
           id == last + 1
           kids == msg.objects[o].kids[row.name]
           grown == Grown(msg, NewObject(row.class), NewNode(row.class))
           object == ChildAdded(msg.objects[o], row, id)
           node == ChildFiled(msg.heap[o], row, id, kids)
<1>2. /\ k \in DOMAIN Writes /\ msg.objects[o] \in ObjectsOf(k) /\ (o = 1 \/ k \notin {"CCR", "CCA"})
      /\ ShapedNode(msg.heap[o], o, last) /\ Holds(msg.objects[o], msg.heap[o], loose)
      /\ KidsKnown(msg.objects, msg.objects[o]) /\ DOMAIN msg.objects = 1..last
  BY <1>1, SoundAt
<1>3. o \in 1..last /\ id \in Nat /\ id \in o + 1 .. last + 1 /\ o \in 1 .. last + 1 /\ last + 1 \in Nat /\ o \in Nat
  BY <1>1
<1>4. row.class \in DOMAIN Writes \ {"CCR", "CCA"} /\ row.class # "Trigger"
  <2>1. SoundRow(k, row)
    BY <1>2, RowsAreSound DEF SoundRows
  <2> QED  BY <2>1 DEF SoundRow
<1>5. k # "Trigger" /\ row.code # 1264
  <2>1. SoundRow(k, row)
    BY <1>2, RowsAreSound DEF SoundRows
  <2>2. row.code # 1264
    BY <2>1 DEF SoundRow
  <2> QED  BY <2>2 DEF Writes
<1>6. ShapedNode(NewNode(row.class), last + 1, last + 1)
  <2>1. PICK next \in Nat : next = last + 1 /\ next \in 1..next
    BY <1>3
  <2>2. ShapedNode(NewNode(row.class), next, next)
    BY <1>4, <2>1, NewNodeShaped
  <2> QED  BY <2>1, <2>2
<1>7. /\ Sound(grown, loose) /\ GrownOnly(msg, NewObject(row.class), NewNode(row.class), grown)
  <2>1. ShapedNode(NewNode(row.class), Len(msg.objects) + 1, Len(msg.objects) + 1)
    BY <1>1, <1>6
  <2> QED  BY <1>4, <2>1, GrownSound
<1> HIDE DEF grown
<1>8. /\ Len(grown.objects) = last + 1 /\ grown.objects[last + 1] = NewObject(row.class)
      /\ \A p \in 1..last : grown.objects[p] = msg.objects[p] /\ grown.heap[p] = msg.heap[p]
  BY <1>1, <1>7 DEF GrownOnly
<1>9. object \in ObjectsOf(k) /\ OnlyChild(msg.objects[o], row.name, KidsAfter(row, kids, id), object)
  BY <1>2, <1>3, ChildAddedTyped
<1>10. kids \in Seq(Nat)
  BY <1>2, RowNames DEF ObjectsOf
<1>11. row.rule = "set" => SetThere(row, msg.heap[o])
  <2>1. RowHeld(msg.objects[o], row, msg.heap[o], loose)
    BY <1>2 DEF Holds, RowsHeld
  <2> QED  BY <2>1 DEF RowHeld, SetHeld, SetThere, GroupedSet
<1> HIDE DEF k, kids, object
<1>12. /\ ShapedNode(node, o, last + 1)
       /\ FiledOnly(msg.heap[o], row.code, ChildAVP(msg.heap[o], row, id, kids), node)
  <2>1. PICK next \in Nat : next = last + 1
    BY <1>3
  <2>2. ShapedNode(msg.heap[o], o, last + 1)
    BY <1>2, <1>3, ShapedGrows
  <2>3. ShapedNode(msg.heap[o], o, next) /\ o \in 1..next /\ id \in o + 1 .. next
    BY <1>3, <2>1, <2>2
  <2>4. ShapedNode(node, o, next)
        /\ FiledOnly(msg.heap[o], row.code, ChildAVP(msg.heap[o], row, id, kids), node)
    BY <1>2, <1>10, <1>11, <2>3, ChildFiledShaped DEF k
  <2> QED  BY <2>1, <2>4
<1> HIDE DEF node
<1>13. Holds(object, node, loose)
  BY <1>2, <1>3, <1>9, <1>12, ChildHolds DEF k, kids
<1>14. KidsKnown(grown.objects, object)
  <2>1. DOMAIN grown.objects = 1 .. last + 1
    <3>1. Typed(grown)
      BY <1>7 DEF Sound
    <3> QED  BY <1>8, <3>1, TypedParts
  <2>2. NewObject(row.class).class = row.class
    BY DEF NewObject
  <2>3. ASSUME NEW other \in Writes[k], ~IsValue(other), NEW i \in DOMAIN object.kids[other.name]
        PROVE  /\ object.kids[other.name][i] \in DOMAIN grown.objects
               /\ grown.objects[object.kids[other.name][i]].class = other.class
    <3>1. \A j \in DOMAIN msg.objects[o].kids[other.name] :
            /\ msg.objects[o].kids[other.name][j] \in 1..last
            /\ msg.objects[msg.objects[o].kids[other.name][j]].class = other.class
      BY <1>2, <2>3 DEF KidsKnown, k
    <3>2. CASE other # row
      <4>1. other.name # row.name /\ other.name \in ChildNames(k)
        BY <1>2, <2>3, <3>2, RowsAreDifferent, RowNames DEF RowsDiffer, k
      <4>2. object.kids[other.name] = msg.objects[o].kids[other.name]
        BY <1>9, <4>1 DEF OnlyChild, k
      <4>3. PICK c : c = object.kids[other.name][i]
        OBVIOUS
      <4>4. c \in 1..last /\ msg.objects[c].class = other.class
        BY <2>3, <3>1, <4>2, <4>3
      <4>5. c \in 1 .. last + 1 /\ grown.objects[c] = msg.objects[c]
        BY <1>8, <4>4
      <4> QED  BY <2>1, <4>3, <4>4, <4>5
    <3>3. CASE other = row
      <4>1. object.kids[other.name] = KidsAfter(row, kids, id) /\ kids = msg.objects[o].kids[other.name]
        BY <1>9, <3>3 DEF OnlyChild, kids
      <4>2. \/ object.kids[other.name][i] = id
            \/ \E j \in DOMAIN kids : object.kids[other.name][i] = kids[j]
        <5>1. CASE row.rule = "set"
          <6>1. object.kids[other.name] = Append(kids, id)
            BY <4>1, <5>1 DEF KidsAfter
          <6>2. i \in 1 .. Len(kids) + 1
            BY <1>3, <1>10, <2>3, <6>1
          <6> QED  BY <1>10, <6>1, <6>2
        <5>2. CASE row.rule # "set"
          BY <2>3, <4>1, <5>2 DEF KidsAfter
        <5> QED  BY <5>1, <5>2
      <4>3. id = last + 1 /\ last + 1 \in 1 .. last + 1
        BY <1>3
      <4>4. CASE object.kids[other.name][i] = id
        <5>1. id \in DOMAIN grown.objects /\ grown.objects[id] = NewObject(row.class)
          BY <1>8, <2>1, <4>3
        <5> QED  BY <2>2, <3>3, <4>4, <5>1
      <4>5. CASE \E j \in DOMAIN kids : object.kids[other.name][i] = kids[j]
        <5>1. PICK j \in DOMAIN kids : object.kids[other.name][i] = kids[j]
          BY <4>5
        <5>2. kids[j] \in 1..last /\ msg.objects[kids[j]].class = other.class
          BY <3>1, <4>1, <5>1
        <5>3. kids[j] \in DOMAIN grown.objects /\ grown.objects[kids[j]] = msg.objects[kids[j]]
          BY <1>8, <2>1, <5>2
        <5> QED  BY <5>1, <5>2, <5>3
      <4> QED  BY <4>2, <4>4, <4>5
    <3> QED  BY <3>2, <3>3
  <2>4. object.class = k
    BY <1>9 DEF OnlyChild, k
  <2> QED  BY <2>3, <2>4 DEF KidsKnown
<1>15. SameTriggers(grown.objects[o], grown.heap[o], object, node)
  <2>1. object.class = k /\ object.lists = msg.objects[o].lists
    BY <1>9 DEF OnlyChild, k
  <2>2. (1264 \in DOMAIN node <=> 1264 \in DOMAIN msg.heap[o]) /\ (1264 \in DOMAIN msg.heap[o] => node[1264] = msg.heap[o][1264])
    BY <1>5, <1>12 DEF FiledOnly
  <2> QED  BY <1>3, <1>5, <1>8, <2>1, <2>2 DEF SameTriggers, k
<1> DEFINE new == Changed(grown, o, object, node)
<1>16. Sound(new, loose) /\ ChangedOnly(grown, o, object, node, new)
  <2>1. grown.objects[o].class = k /\ o \in 1..Len(grown.objects) /\ ShapedNode(node, o, Len(grown.objects))
    BY <1>3, <1>8, <1>12 DEF k
  <2> QED  BY <1>7, <1>9, <1>13, <1>14, <1>15, <2>1, ChangedSound
<1>17. Create(msg, o, row) = new
  <2>1. Typed(msg)
    BY DEF Sound
  <2>2. object \in Object /\ node \in Node /\ NewObject(row.class) \in Object /\ NewNode(row.class) \in Node
    BY <1>2, <1>4, <1>6, <1>9, <1>12, NewObjectTyped, ShapedIsNode DEF Object
  <2> QED  BY <1>1, <2>1, <2>2, CreateChanges DEF new, grown, object, node, kids
<1> HIDE DEF new
<1>18. Created(msg, o, row, new)
  <2>1. new.objects[o] = object /\ Len(new.objects) = last + 1 /\ o # last + 1
        /\ \A p \in 1 .. last + 1 : p # o => new.objects[p] = grown.objects[p]
    BY <1>3, <1>8, <1>16 DEF ChangedOnly
  <2>2. last + 1 \in 1 .. last + 1 /\ \A p \in 1..last : p \in 1 .. last + 1
    BY <1>3
  <2> QED  BY <1>1, <1>8, <1>9, <2>1, <2>2 DEF Created, kids
<1> QED  BY <1>16, <1>17, <1>18

----------------------------------------------------------------------------
(* The lists of an MSCC.                                                   *)

PutIn(list, index, v, new) ==
  /\ Len(new) = (IF index = Len(list) THEN Len(list) + 1 ELSE Len(list))
  /\ \A i \in 1..Len(new) : new[i] = IF i = index + 1 THEN v ELSE list[i]

(* Put replaces an element or appends one. *)
LEMMA PutIs ==
  ASSUME NEW S, NEW list \in Seq(S), NEW v \in S, NEW index \in 0..Len(list)
  PROVE  Put(list, index, v) \in Seq(S) /\ PutIn(list, index, v, Put(list, index, v))
<1> DEFINE new == Put(list, index, v)
<1>1. CASE index = Len(list)
  <2>1. new = Append(list, v)
    BY <1>1 DEF Put
  <2> HIDE DEF new
  <2>2. new \in Seq(S) /\ Len(new) = Len(list) + 1 /\ \A i \in 1..Len(new) : new[i] = IF i = index + 1 THEN v ELSE list[i]
    BY <1>1, <2>1
  <2> QED  BY <1>1, <2>2 DEF new, PutIn
<1>2. CASE index < Len(list)
  <2>1. new = [list EXCEPT ![index + 1] = v] /\ index + 1 \in 1..Len(list)
    BY <1>2 DEF Put
  <2> HIDE DEF new
  <2>2. new \in Seq(S) /\ Len(new) = Len(list) /\ \A i \in 1..Len(new) : new[i] = IF i = index + 1 THEN v ELSE list[i]
    BY <2>1
  <2> QED  BY <1>2, <2>2 DEF new, PutIn
<1> QED  BY <1>1, <1>2

(* The member and the AVPs take a value at the same place. *)
Mapped(f, list) == [i \in DOMAIN list |-> f[list[i]]]

(* An element is put into a list and its image into the image of the list. *)
LEMMA MappedPut ==
  ASSUME NEW f, NEW S, \A v \in Int : f[v] \in S, NEW list \in Seq(Int), NEW v \in Int, NEW index \in 0..Len(list)
  PROVE  /\ Mapped(f, list) \in Seq(S) /\ Len(Mapped(f, list)) = Len(list)
         /\ SetInGroup(Mapped(f, list), f[v], index) = Mapped(f, Put(list, index, v))
<1> DEFINE old == Mapped(f, list)
           put == Put(list, index, v)
           new == Mapped(f, put)
           items == SetInGroup(old, f[v], index)
<1>1. old = [i \in 1..Len(list) |-> f[list[i]]] /\ new = [i \in DOMAIN put |-> f[put[i]]]
  BY DEF Mapped
<1>2. put \in Seq(Int) /\ PutIn(list, index, v, put)
  BY PutIs
<1> HIDE DEF put, old, new
<1>3. old \in Seq(S) /\ Len(old) = Len(list) /\ \A i \in 1..Len(list) : old[i] = f[list[i]]
  BY <1>1
<1>4. new \in Seq(S) /\ Len(new) = Len(put) /\ \A i \in 1..Len(put) : new[i] = f[put[i]]
  <2>1. put \in Seq(Int)
    BY <1>2
  <2>2. DOMAIN put = 1..Len(put) /\ \A i \in 1..Len(put) : f[put[i]] \in S
    BY <2>1
  <2> QED  BY <1>1, <2>1, <2>2
<1>5. PICK w \in S : w = f[v]
  OBVIOUS
<1>6. items = Put(old, index, w)
  BY <1>3, <1>5 DEF SetInGroup, Put
<1>7. items \in Seq(S) /\ PutIn(old, index, w, items)
  <2>1. index \in 0..Len(old)
    BY <1>3
  <2>2. Put(old, index, w) \in Seq(S) /\ PutIn(old, index, w, Put(old, index, w))
    BY <1>3, <2>1, PutIs
  <2> QED  BY <1>6, <2>2
<1> HIDE DEF items
<1>8. Len(items) = Len(new) /\ \A i \in 1..Len(items) : items[i] = new[i]
  <2>1. Len(items) = Len(put) /\ Len(new) = Len(put)
    BY <1>2, <1>3, <1>4, <1>7 DEF PutIn
  <2>2. ASSUME NEW i \in 1..Len(put) PROVE items[i] = new[i]
    <3>1. CASE i = index + 1
      BY <1>2, <1>4, <1>5, <1>7, <2>1, <3>1 DEF PutIn
    <3>2. CASE i # index + 1
      <4>1. i \in 1..Len(list)
        BY <1>2, <3>2 DEF PutIn
      <4>2. items[i] = old[i] /\ put[i] = list[i]
        BY <1>2, <1>7, <2>1, <3>2 DEF PutIn
      <4> QED  BY <1>3, <1>4, <4>1, <4>2
    <3> QED  BY <3>1, <3>2
  <2> QED  BY <2>1, <2>2
<1>9. items = new
  BY <1>4, <1>7, <1>8
<1> QED  BY <1>3, <1>9 DEF items, new, put, old

(* What a setter of a list does to the object. *)
OnlyList(object, name, list, new) ==
  /\ new.class = object.class /\ new.vals = object.vals /\ new.kids = object.kids
  /\ new.lists[name] = list
  /\ \A n \in ListNames(object.class) : n # name => new.lists[n] = object.lists[n]

(* A list that is set changes no other member. *)
LEMMA WithListTyped ==
  ASSUME NEW k \in DOMAIN Writes, NEW object \in ObjectsOf(k), NEW n \in ListNames(k), NEW list \in Seq(Int)
  PROVE  WithList(object, n, list) \in ObjectsOf(k) /\ OnlyList(object, n, list, WithList(object, n, list))
<1>1. PICK vals \in [ValueNames(k) -> Int], lists \in [ListNames(k) -> Seq(Int)], kids \in [ChildNames(k) -> Seq(Nat)] :
        Made(object, k, vals, lists, kids)
  BY ObjectParts, Zenon
<1> DEFINE new == WithList(object, n, list)
<1>2. [lists EXCEPT ![n] = list] \in [ListNames(k) -> Seq(Int)]
  BY <1>1
<1>3. Made(new, k, vals, [lists EXCEPT ![n] = list], kids)
  BY <1>1, ObjectExcept, Zenon
<1> HIDE DEF new
<1>4. new \in ObjectsOf(k)
  BY <1>2, <1>3, ObjectParts, Zenon
<1>5. OnlyList(object, n, list, new)
  BY <1>1, <1>3 DEF OnlyList, Made
<1> QED  BY <1>4, <1>5 DEF new

SameBut(node, code, after) ==
  /\ \A c : c # code => (c \in DOMAIN after <=> c \in DOMAIN node)
  /\ \A c \in DOMAIN node : c # code => after[c] = node[c]

(* Rows are about the values and the children. *)
LEMMA ListRowsHeld ==
  ASSUME NEW object, NEW node, NEW loose, RowsHeld(object, node, loose), object.class \in DOMAIN Writes,
         NEW new, new.class = object.class, new.vals = object.vals, new.kids = object.kids,
         NEW after, NEW code, \A row \in Writes[object.class] : row.code # code,
         SameBut(node, code, after)
  PROVE  RowsHeld(new, after, loose)
<1>1. Grows(object, new)
  BY DEF Grows
<1>2. ASSUME NEW row \in Writes[object.class] PROVE RowHeld(new, row, after, loose)
  <2>1. RowHeld(object, row, node, loose)
    BY DEF RowsHeld
  <2>2. (row.code \in DOMAIN after <=> row.code \in DOMAIN node) /\ (row.code \in DOMAIN node => after[row.code] = node[row.code])
    BY DEF SameBut
  <2>3. PICK k \in DOMAIN Writes : k = object.class
    OBVIOUS
  <2> QED  BY <1>1, <2>1, <2>2, <2>3, OtherRowHeld, Zenon
<1> QED  BY <1>2 DEF RowsHeld

ServiceAVP == [v \in Int |-> IntAVP(439, Plain, v)]

(* The AVPs of service identifiers are those of each, in their order. *)
LEMMA ServicesMapped ==
  ASSUME NEW list \in Seq(Int)
  PROVE  ServiceAVPs(list) = Mapped(ServiceAVP, list)
BY DEF ServiceAVPs, Mapped, ServiceAVP

(* A number can be filed under the codes of the lists. *)
LEMMA IntAVPFits ==
  ASSUME NEW n \in Nat, NEW last \in Nat, NEW code \in {439, 441, 870}, NEW vendor \in {0, 1}, NEW v \in Int
  PROVE  /\ IntAVP(code, vendor, v) \in Leaf /\ IntAVP(code, vendor, v).code = code
         /\ Shaped(n, last, IntAVP(code, vendor, v)) /\ Fits(IntAVP(code, vendor, v), n, last)
<1>1. Layout("int", v) \in Data
  BY LayoutTyped DEF Forms
<1>2. code \in Int /\ GetAVPType(code) = "BASIC" /\ code # 263
  BY DEF GetAVPType
<1>3. Fits(Basic(code, vendor, Layout("int", v)), n, last)
  BY <1>1, <1>2, BasicFits
<1>4. PICK data \in Data : data = Layout("int", v)
  BY <1>1
<1>5. /\ Basic(code, vendor, data) \in Leaf /\ Basic(code, vendor, data).code = code
      /\ Basic(code, vendor, data).type = "BASIC"
  BY <1>2 DEF Basic, Leaf
<1>6. Shaped(n, last, Basic(code, vendor, data))
  BY <1>2, <1>5 DEF Shaped
<1> QED  BY <1>3, <1>4, <1>5, <1>6 DEF IntAVP

(* So can a set of numbers. *)
LEMMA MappedFits ==
  ASSUME NEW n \in Nat, NEW last \in Nat, NEW code \in {439, 870}, NEW vendor \in {0, 1},
         NEW f, f = [v \in Int |-> IntAVP(code, vendor, v)], NEW list \in Seq(Int)
  PROVE  Fits(GroupedSet(code, Mapped(f, list)), n, last)
<1>1. \A v \in Int : f[v] \in Leaf /\ f[v].code = code /\ Shaped(n, last, f[v])
  <2> SUFFICES ASSUME NEW v \in Int PROVE f[v] \in Leaf /\ f[v].code = code /\ Shaped(n, last, f[v])
    OBVIOUS
  <2>1. f[v] = IntAVP(code, vendor, v)
    OBVIOUS
  <2>2. code \in {439, 441, 870}
    OBVIOUS
  <2> QED  BY <2>1, <2>2, IntAVPFits
<1> DEFINE items == Mapped(f, list)
<1>2. items = [i \in 1..Len(list) |-> f[list[i]]]
  BY DEF Mapped
<1> HIDE DEF items
<1>3. items \in Seq(Leaf) /\ Len(items) = Len(list)
  BY <1>1, <1>2
<1>4. \A i \in 1..Len(items) : items[i].code = code /\ Shaped(n, last, items[i])
  <2> TAKE i \in 1..Len(items)
  <2>1. list[i] \in Int /\ items[i] = f[list[i]]
    BY <1>2, <1>3
  <2> QED  BY <1>1, <2>1
<1>5. code \in Int /\ (n = 1 \/ code # 263)
  OBVIOUS
<1>6. items \in Seq(Leaf) /\ \A i \in 1..Len(items) : items[i].code = code /\ Shaped(n, last, items[i])
  BY <1>3, <1>4
<1>7. Fits(GroupedSet(code, items), n, last)
  BY <1>5, <1>6, SetFits
<1> QED  BY <1>7 DEF items

ServicesFiled(node, v, index) ==
  LET items == IF 439 \in DOMAIN node THEN node[439].items ELSE << >>
  IN  SetAVP(node, GroupedSet(439, SetInGroup(items, IntAVP(439, Plain, v), index)))

(* SetServiceIdentifier changes one object and its node. *)
LEMMA SetServiceChanges ==
  ASSUME NEW msg, Typed(msg), NEW o \in 1..Len(msg.objects), NEW v, NEW index
  PROVE  SetServiceIdentifier(msg, o, v, index) =
           Changed(msg, o, WithList(msg.objects[o], "ServiceIdentifier",
                                    Put(msg.objects[o].lists["ServiceIdentifier"], index, v)),
                   ServicesFiled(msg.heap[o], v, index))
<1>1. PICK objects, heap : msg = [objects |-> objects, heap |-> heap]
  BY TypedParts
<1> DEFINE object == [objects[o] EXCEPT !.lists["ServiceIdentifier"] = Put(@, index, v)]
           node == ServicesFiled(heap[o], v, index)
           set == [msg EXCEPT !.objects[o].lists["ServiceIdentifier"] = Put(@, index, v)]
<1>2. set = [objects |-> [objects EXCEPT ![o] = object], heap |-> heap]
  <2>1. set = [msg EXCEPT !.objects[o] = object]
    BY <1>1
  <2> HIDE DEF set, object
  <2> QED  BY <1>1, <2>1, MessageExcept, Zenon
<1>3. SetServiceIdentifier(msg, o, v, index) = [set EXCEPT !.heap[o] = node]
  BY <1>1 DEF SetServiceIdentifier, ServicesFiled
<1>4. /\ WithList(msg.objects[o], "ServiceIdentifier", Put(msg.objects[o].lists["ServiceIdentifier"], index, v)) = object
      /\ ServicesFiled(msg.heap[o], v, index) = node
  BY <1>1 DEF WithList
<1> HIDE DEF set, object, node
<1>5. [set EXCEPT !.heap[o] = node] = [objects |-> [objects EXCEPT ![o] = object], heap |-> [heap EXCEPT ![o] = node]]
  BY <1>2
<1> QED  BY <1>1, <1>3, <1>4, <1>5 DEF Changed

(* One object is another, the others are the same. *)
ListIsSet(msg, o, name, list, new) ==
  /\ Len(new.objects) = Len(msg.objects)
  /\ OnlyList(msg.objects[o], name, list, new.objects[o])
  /\ \A p \in 1..Len(msg.objects) : p # o => new.objects[p] = msg.objects[p]

(* SetServiceIdentifier keeps a message sound. *)
LEMMA SetServiceSound ==
  ASSUME NEW msg, NEW loose, Sound(msg, loose), NEW o \in 1..Len(msg.objects), msg.objects[o].class = "MSCC",
         NEW v \in Int, NEW index \in 0..Len(msg.objects[o].lists["ServiceIdentifier"])
  PROVE  /\ Sound(SetServiceIdentifier(msg, o, v, index), loose)
         /\ ListIsSet(msg, o, "ServiceIdentifier", Put(msg.objects[o].lists["ServiceIdentifier"], index, v),
                      SetServiceIdentifier(msg, o, v, index))
<1>1. PICK last \in Nat \ {0} : last = Len(msg.objects)
  BY SoundAt
<1> DEFINE k == "MSCC"
           list == msg.objects[o].lists["ServiceIdentifier"]
           put == Put(list, index, v)
           object == WithList(msg.objects[o], "ServiceIdentifier", put)
           node == ServicesFiled(msg.heap[o], v, index)
<1>2. /\ k \in DOMAIN Writes /\ msg.objects[o] \in ObjectsOf(k)
      /\ ShapedNode(msg.heap[o], o, last) /\ Holds(msg.objects[o], msg.heap[o], loose)
      /\ KidsKnown(msg.objects, msg.objects[o]) /\ o \in Nat
  BY <1>1, SoundAt
<1>3. ListNames(k) = {"ServiceIdentifier", "TriggerTypes"}
  BY <1>2, ListsAreOf DEF ListsOf
<1>4. list \in Seq(Int)
  BY <1>2, <1>3 DEF ObjectsOf
<1>5. put \in Seq(Int)
  BY <1>4, PutIs
<1> HIDE DEF put
<1>6. object \in ObjectsOf(k) /\ OnlyList(msg.objects[o], "ServiceIdentifier", put, object)
  BY <1>2, <1>3, <1>5, WithListTyped
<1> HIDE DEF object
<1>7. node = SetAVP(msg.heap[o], GroupedSet(439, ServiceAVPs(put)))
  <2>1. (IF 439 \in DOMAIN msg.heap[o] THEN msg.heap[o][439].items ELSE << >>) = ServiceAVPs(list)
    <3>1. ServicesHeld(msg.objects[o], msg.heap[o])
      BY <1>2 DEF Holds, ObjectsOf
    <3>2. ServiceAVPs(<< >>) = << >>
      BY DEF ServiceAVPs
    <3>3. \A items : GroupedSet(439, items).items = items
      BY DEF GroupedSet
    <3> QED  BY <3>1, <3>2, <3>3 DEF ServicesHeld
  <2>2. SetInGroup(ServiceAVPs(list), IntAVP(439, Plain, v), index) = ServiceAVPs(put)
    <3>1. \A w \in Int : ServiceAVP[w] \in {ServiceAVP[x] : x \in Int}
      OBVIOUS
    <3>2. PICK S : \A w \in Int : ServiceAVP[w] \in S
      BY <3>1
    <3>3. SetInGroup(Mapped(ServiceAVP, list), ServiceAVP[v], index) = Mapped(ServiceAVP, Put(list, index, v))
      BY <1>4, <3>2, MappedPut, SMTT(30), ZenonT(30)
    <3>4. ServiceAVP[v] = IntAVP(439, Plain, v)
      BY DEF ServiceAVP
    <3> QED  BY <1>4, <1>5, <3>3, <3>4, ServicesMapped DEF put
  <2> QED  BY <2>1, <2>2 DEF ServicesFiled
<1>8. ShapedNode(node, o, last)
  <2>1. Fits(GroupedSet(439, Mapped(ServiceAVP, put)), o, last)
    BY <1>1, <1>2, <1>5, MappedFits, SMTT(30), ZenonT(30) DEF ServiceAVP, Plain
  <2>2. PICK avp : avp = GroupedSet(439, ServiceAVPs(put))
    OBVIOUS
  <2>3. avp.code = 439
    <3>1. GroupedSet(439, ServiceAVPs(put)).code = 439
      BY DEF GroupedSet
    <3> QED  BY <2>2, <3>1
  <2>4. Fits(avp, o, last)
    BY <1>5, <2>1, <2>2, ServicesMapped
  <2>5. avp.code \in Int /\ last \in Nat
    BY <2>3
  <2>6. ShapedNode(SetAVP(msg.heap[o], avp), o, last)
    BY <1>2, <2>4, <2>5, SetAVPFiles, Zenon
  <2> QED  BY <1>7, <2>2, <2>6
<1>9. FiledOnly(msg.heap[o], 439, GroupedSet(439, ServiceAVPs(put)), node)
  <2>1. GroupedSet(439, ServiceAVPs(put)).code = 439
    BY DEF GroupedSet
  <2>2. PICK avp : avp = GroupedSet(439, ServiceAVPs(put))
    OBVIOUS
  <2>3. FiledOnly(msg.heap[o], avp.code, avp, SetAVP(msg.heap[o], avp))
    BY DEF FiledOnly, SetAVP
  <2> QED  BY <1>7, <2>1, <2>2, <2>3
<1> HIDE DEF node
<1>10. Holds(object, node, loose)
  <2>1. RowsHeld(object, node, loose)
    <3>1. \A row \in Writes[k] : row.code # 439
      <4> TAKE row \in Writes[k]
      <4>1. SoundRow(k, row)
        BY <1>2, RowsAreSound DEF SoundRows
      <4> QED  BY <4>1 DEF SoundRow
    <3>2. PICK code : code = 439
      OBVIOUS
    <3>3. SameBut(msg.heap[o], code, node)
      BY <1>9, <3>2 DEF FiledOnly, SameBut
    <3>4. PICK old : old = msg.objects[o]
      OBVIOUS
    <3>5. /\ RowsHeld(old, msg.heap[o], loose) /\ old.class \in DOMAIN Writes
          /\ \A row \in Writes[old.class] : row.code # code
      BY <1>2, <3>1, <3>2, <3>4 DEF Holds
    <3>6. object.class = old.class /\ object.vals = old.vals /\ object.kids = old.kids
      BY <1>6, <3>4 DEF OnlyList
    <3> QED  BY <3>3, <3>5, <3>6, ListRowsHeld, Zenon
  <2>2. ServicesHeld(object, node)
    BY <1>6, <1>9 DEF OnlyList, FiledOnly, ServicesHeld
  <2>3. object.class = k
    BY <1>6 DEF OnlyList
  <2> QED  BY <2>1, <2>2, <2>3 DEF Holds
<1>11. KidsKnown(msg.objects, object)
  BY <1>2, <1>6 DEF KidsKnown, OnlyList
<1>12. SameTriggers(msg.objects[o], msg.heap[o], object, node)
  BY <1>3, <1>6, <1>9 DEF SameTriggers, OnlyList, FiledOnly
<1>13. Sound(Changed(msg, o, object, node), loose) /\ ChangedOnly(msg, o, object, node, Changed(msg, o, object, node))
  BY <1>1, <1>6, <1>8, <1>10, <1>11, <1>12, ChangedSound
<1>14. SetServiceIdentifier(msg, o, v, index) = Changed(msg, o, object, node)
  <2>1. Typed(msg)
    BY DEF Sound
  <2> QED  BY <2>1, SetServiceChanges DEF object, node, put, list
<1>15. ListIsSet(msg, o, "ServiceIdentifier", put, Changed(msg, o, object, node))
  BY <1>6, <1>13 DEF ListIsSet, ChangedOnly
<1> QED  BY <1>13, <1>14, <1>15 DEF put

----------------------------------------------------------------------------
(* The trigger types of an MSCC.                                           *)

Holder(list) == [c \in {870} |-> GroupedSet(870, TriggerAVPs(list))]

TriggerAVP == [v \in Int |-> IntAVP(870, Vendor, v)]

(* The AVPs of trigger types are those of each, in their order. *)
LEMMA TriggersMapped ==
  ASSUME NEW list \in Seq(Int)
  PROVE  TriggerAVPs(list) = Mapped(TriggerAVP, list)
BY DEF TriggerAVPs, Mapped, TriggerAVP

(* The node of the trigger types has the shape of a node. *)
LEMMA HolderShaped ==
  ASSUME NEW n \in Nat, NEW last \in Nat, NEW list \in Seq(Int)
  PROVE  ShapedNode(Holder(list), n, last)
<1> DEFINE items == TriggerAVPs(list)
           avp == GroupedSet(870, items)
<1>1. Fits(avp, n, last)
  <2>1. Fits(GroupedSet(870, Mapped(TriggerAVP, list)), n, last)
    BY MappedFits DEF TriggerAVP, Vendor
  <2> QED  BY <2>1, TriggersMapped
<1>2. avp.code = 870
  BY DEF GroupedSet
<1>3. PICK c \in Int : c = 870
  OBVIOUS
<1>4. IsFiniteSet({c}) /\ {c} \subseteq Int /\ c # 263
  <2>1. IsFiniteSet({c})
    BY FS_Singleton
  <2> QED  BY <1>3, <2>1
<1>5. Holder(list) = [d \in {c} |-> avp]
  BY <1>3 DEF Holder
<1>6. avp.code = c
  BY <1>2, <1>3
<1> DEFINE node == Holder(list)
<1> HIDE DEF avp, items, node
<1>7. DOMAIN node = {c} /\ node[c] = avp /\ node = [d \in {c} |-> node[d]]
  BY <1>5 DEF node
<1>8. IsNode(node)
  <2>1. node \in [{c} -> AVP]
    BY <1>1, <1>7 DEF Fits
  <2>2. \A i \in 1..Len(avp.items) : avp.items[i].code = c
    BY <1>1, <1>6 DEF Fits
  <2> QED  BY <1>4, <1>6, <1>7, <2>1, <2>2 DEF IsNode
<1>9. ShapedNode(node, n, last)
  BY <1>1, <1>4, <1>7, <1>8 DEF ShapedNode, Fits
<1> QED  BY <1>9 DEF node

(* What an object keeps when another node than those of its rows and lists *)
(* is filed.                                                               *)
LEMMA OtherHolds ==
  ASSUME NEW object, NEW node, NEW loose, Holds(object, node, loose), object.class = "MSCC",
         NEW new, new.class = object.class, new.vals = object.vals, new.kids = object.kids,
         new.lists["ServiceIdentifier"] = object.lists["ServiceIdentifier"],
         NEW after, NEW code, code = 1264, SameBut(node, code, after)
  PROVE  Holds(new, after, loose)
<1>1. RowsHeld(object, node, loose)
  BY DEF Holds
<1>2. object.class \in DOMAIN Writes
  BY DEF Writes
<1>3. \A row \in Writes[object.class] : row.code # code
  <2> TAKE row \in Writes[object.class]
  <2>1. SoundRow(object.class, row)
    BY <1>2, RowsAreSound DEF SoundRows
  <2> QED  BY <2>1 DEF SoundRow
<1>4. RowsHeld(new, after, loose)
  BY <1>1, <1>2, <1>3, ListRowsHeld
<1>5. ServicesHeld(new, after)
  BY DEF Holds, ServicesHeld, SameBut
<1> QED  BY <1>4, <1>5 DEF Holds

(* The list and its AVPs are changed together. *)
TriggersSet(msg, o, list) ==
  [objects |-> [msg.objects EXCEPT ![o] = WithList(msg.objects[o], "TriggerTypes", list)],
   heap |-> [msg.heap EXCEPT ![TriggerNode(msg, o)] = Holder(list)]]

(* A list of trigger types and its AVPs are exchanged together. *)
LEMMA TriggersSetSound ==
  ASSUME NEW msg, NEW loose, Sound(msg, loose), NEW o \in 1..Len(msg.objects), msg.objects[o].class = "MSCC",
         HasTriggers(msg, o), NEW list \in Seq(Int), \A i, j \in DOMAIN list : list[i] = list[j] => i = j
  PROVE  /\ Sound(TriggersSet(msg, o, list), loose)
         /\ ListIsSet(msg, o, "TriggerTypes", list, TriggersSet(msg, o, list))
<1>1. PICK last \in Nat \ {0} : last = Len(msg.objects)
  BY SoundAt
<1> DEFINE k == "MSCC"
           t == TriggerNode(msg, o)
           object == WithList(msg.objects[o], "TriggerTypes", list)
           first == Changed(msg, o, object, msg.heap[o])
           new == TriggersSet(msg, o, list)
<1>2. /\ k \in DOMAIN Writes /\ msg.objects[o] \in ObjectsOf(k)
      /\ ShapedNode(msg.heap[o], o, last) /\ Holds(msg.objects[o], msg.heap[o], loose)
      /\ KidsKnown(msg.objects, msg.objects[o]) /\ DOMAIN msg.objects = 1..last
  BY <1>1, SoundAt
<1>3. Typed(msg) /\ Coherent(msg, loose) /\ 1264 \in DOMAIN msg.heap[o]
  BY DEF Sound, HasTriggers
<1>4. "TriggerTypes" \in ListNames(k) /\ ListNames(k) = {"ServiceIdentifier", "TriggerTypes"}
  BY <1>2, ListsAreOf DEF ListsOf
<1>5. object \in ObjectsOf(k) /\ OnlyList(msg.objects[o], "TriggerTypes", list, object)
  BY <1>2, <1>4, WithListTyped
<1>6. /\ t \in 1..last /\ msg.objects[t].class = "Trigger" /\ t # o
  <2>1. TriggersHeld(msg.heap[o], msg.objects[o].lists["TriggerTypes"], msg.objects, msg.heap)
    BY <1>1, <1>2, <1>3 DEF Coherent
  <2>2. PICK u : TriggersAt(u, msg.heap[o], msg.objects[o].lists["TriggerTypes"], msg.objects, msg.heap)
    BY <1>3, <2>1 DEF TriggersHeld
  <2> QED  BY <1>2, <2>2 DEF TriggersAt, TriggerNode
<1>8. Typed(first) /\ ChangedOnly(msg, o, object, msg.heap[o], first)
  <2>1. object \in ObjectsOf(msg.objects[o].class) /\ ShapedNode(msg.heap[o], o, Len(msg.objects))
    BY <1>1, <1>2, <1>5
  <2> HIDE DEF object
  <2> QED  BY <1>3, <2>1, ChangedTyped
<1> HIDE DEF object, t
<1>9. first.objects[t] = msg.objects[t] /\ Len(first.objects) = last
  BY <1>1, <1>6, <1>8 DEF ChangedOnly
<1>10. Typed(Changed(first, t, first.objects[t], Holder(list)))
       /\ ChangedOnly(first, t, first.objects[t], Holder(list), Changed(first, t, first.objects[t], Holder(list)))
  <2>1. ShapedNode(Holder(list), t, last)
    BY <1>6, HolderShaped
  <2>2. first.objects[t] \in ObjectsOf(first.objects[t].class)
    BY <1>6, <1>8, <1>9, TypedParts
  <2>3. t \in 1..Len(first.objects) /\ ShapedNode(Holder(list), t, Len(first.objects))
    BY <1>6, <1>9, <2>1
  <2> HIDE DEF first
  <2> QED  BY <1>8, <2>2, <2>3, ChangedTyped
<1>11. new = Changed(first, t, first.objects[t], Holder(list))
  <2>1. PICK objects, heap : msg = [objects |-> objects, heap |-> heap] /\ objects \in Seq(Object) /\ heap \in Seq(Node)
        /\ Len(objects) = last /\ Len(heap) = last
    BY <1>1, <1>3, TypedParts
  <2>2. [heap EXCEPT ![o] = heap[o]] = heap
    BY <1>1, <2>1
  <2>3. [[objects EXCEPT ![o] = object] EXCEPT ![t] = [objects EXCEPT ![o] = object][t]] = [objects EXCEPT ![o] = object]
    OBVIOUS
  <2> QED  BY <2>1, <2>2, <2>3 DEF TriggersSet, Changed, t, object
<1> HIDE DEF first, new
<1>12. /\ Typed(new) /\ Len(new.objects) = last /\ new.objects[o] = object
       /\ \A p \in 1..last : /\ p # o => new.objects[p] = msg.objects[p]
                             /\ p # t => new.heap[p] = msg.heap[p]
       /\ new.heap[t] = Holder(list)
  BY <1>1, <1>6, <1>8, <1>9, <1>10, <1>11 DEF ChangedOnly
<1>13. DOMAIN new.objects = 1..last
  BY <1>12, TypedParts
<1>14. \A p \in 1..last : new.objects[p].class = msg.objects[p].class
  BY <1>5, <1>12 DEF OnlyList
<1>15. \A any : KidsKnown(msg.objects, any) => KidsKnown(new.objects, any)
  BY <1>2, <1>13, <1>14 DEF KidsKnown
<1>16. \A p \in 1..last : Holds(new.objects[p], new.heap[p], loose) /\ KidsKnown(new.objects, new.objects[p])
  <2> TAKE p \in 1..last
  <2>1. Holds(msg.objects[p], msg.heap[p], loose) /\ KidsKnown(msg.objects, msg.objects[p])
    BY <1>2, <1>3 DEF Coherent
  <2>2. CASE p = o
    <3>1. Holds(object, msg.heap[o], loose)
      <4>1. /\ object.class = msg.objects[o].class /\ object.vals = msg.objects[o].vals
            /\ object.kids = msg.objects[o].kids
            /\ object.lists["ServiceIdentifier"] = msg.objects[o].lists["ServiceIdentifier"]
        BY <1>4, <1>5 DEF OnlyList
      <4>2. PICK prior, node, code : prior = msg.objects[o] /\ node = msg.heap[o] /\ code = 1264
        OBVIOUS
      <4>3. SameBut(node, code, node)
        BY DEF SameBut
      <4>4. Holds(prior, node, loose) /\ prior.class = "MSCC"
        BY <1>2, <4>2
      <4>5. /\ object.class = prior.class /\ object.vals = prior.vals /\ object.kids = prior.kids
            /\ object.lists["ServiceIdentifier"] = prior.lists["ServiceIdentifier"]
        BY <4>1, <4>2
      <4>6. Holds(object, node, loose)
        BY <4>2, <4>3, <4>4, <4>5, OtherHolds
      <4> QED  BY <4>2, <4>6
    <3>2. KidsKnown(msg.objects, object)
      BY <1>2, <1>5, SMTT(30), ZenonT(30) DEF KidsKnown, OnlyList
    <3> QED  BY <1>6, <1>12, <1>15, <2>2, <3>1, <3>2
  <2>3. CASE p = t
    <3>1. Writes["Trigger"] = {}
      BY DEF Writes
    <3>2. Holds(new.objects[p], new.heap[p], loose)
      BY <1>6, <1>14, <2>3, <3>1 DEF Holds, RowsHeld
    <3> QED  BY <1>6, <1>12, <1>15, <2>1, <2>3, <3>2
  <2>4. CASE p # o /\ p # t
    BY <1>12, <1>15, <2>1, <2>4
  <2> QED  BY <2>2, <2>3, <2>4
<1>17. OwnTriggers(msg.objects, msg.heap)
  BY <1>3 DEF Coherent
<1>18. \A p \in 1..last : msg.objects[p].class = "MSCC" => new.heap[p] = msg.heap[p]
  BY <1>6, <1>12
<1>19. OwnTriggers(new.objects, new.heap)
  <2> SUFFICES ASSUME NEW a \in 1..last, NEW b \in 1..last,
                      new.objects[a].class = "MSCC", new.objects[b].class = "MSCC",
                      1264 \in DOMAIN new.heap[a], 1264 \in DOMAIN new.heap[b],
                      new.heap[a][1264].node = new.heap[b][1264].node
               PROVE  a = b
    BY <1>13 DEF OwnTriggers
  <2>1. msg.objects[a].class = "MSCC" /\ msg.objects[b].class = "MSCC"
    BY <1>14, SMTT(30), ZenonT(30)
  <2>2. new.heap[a] = msg.heap[a] /\ new.heap[b] = msg.heap[b]
    BY <1>18, <2>1
  <2>3. a \in DOMAIN msg.objects /\ b \in DOMAIN msg.objects
    BY <1>2
  <2> QED  BY <1>17, <2>1, <2>2, <2>3 DEF OwnTriggers
<1>20. ASSUME NEW p \in 1..last, msg.objects[p].class = "MSCC"
       PROVE  TriggersHeld(new.heap[p], new.objects[p].lists["TriggerTypes"], new.objects, new.heap)
  <2>1. TriggersHeld(msg.heap[p], msg.objects[p].lists["TriggerTypes"], msg.objects, msg.heap)
    BY <1>2, <1>3, <1>20 DEF Coherent
  <2>2. new.heap[p] = msg.heap[p]
    BY <1>18, <1>20
  <2>3. CASE p = o
    <3>1. PICK u : TriggersAt(u, msg.heap[o], msg.objects[o].lists["TriggerTypes"], msg.objects, msg.heap)
      BY <1>3, <2>1, <2>3 DEF TriggersHeld
    <3>2. u = t
      BY <3>1 DEF TriggersAt, TriggerNode, t
    <3>3. new.objects[o].lists["TriggerTypes"] = list
      BY <1>5, <1>12 DEF OnlyList
    <3>4. TriggersIn(new.heap[t], list)
      BY <1>12 DEF TriggersIn, Holder
    <3>5. TriggersAt(t, new.heap[o], list, new.objects, new.heap)
      <4>1. msg.heap[o][1264] = Grouped(1264, Vendor, t) /\ t = msg.heap[o][1264].node
        <5>1. TriggersAt(t, msg.heap[o], msg.objects[o].lists["TriggerTypes"], msg.objects, msg.heap)
          BY <3>1, <3>2, Zenon
        <5> QED  BY <5>1 DEF TriggersAt
      <4>2. t \in DOMAIN new.objects /\ new.objects[t].class = "Trigger" /\ new.heap[o] = msg.heap[o]
        BY <1>6, <1>13, <1>14, <2>2, <2>3
      <4> QED  BY <3>4, <4>1, <4>2 DEF TriggersAt
    <3> QED  BY <1>3, <2>2, <2>3, <3>3, <3>5 DEF TriggersHeld
  <2>4. CASE p # o
    <3>1. new.objects[p] = msg.objects[p]
      BY <1>12, <2>4
    <3>2. CASE 1264 \in DOMAIN msg.heap[p]
      <4>1. PICK u : TriggersAt(u, msg.heap[p], msg.objects[p].lists["TriggerTypes"], msg.objects, msg.heap)
        BY <2>1, <3>2 DEF TriggersHeld
      <4>2. u = msg.heap[p][1264].node
        BY <4>1 DEF TriggersAt
      <4>3. t = msg.heap[o][1264].node /\ 1264 \in DOMAIN msg.heap[o]
        BY <1>3 DEF TriggerNode, t
      <4>4. p \in DOMAIN msg.objects /\ o \in DOMAIN msg.objects
        BY <1>2, <1>20
      <4>5. u # t
        BY <1>3, <1>17, <1>20, <2>4, <3>2, <4>2, <4>3, <4>4 DEF OwnTriggers
      <4>6. TriggersAt(u, new.heap[p], msg.objects[p].lists["TriggerTypes"], new.objects, new.heap)
        BY <1>2, <1>12, <1>13, <1>14, <2>2, <4>1, <4>5, SMTT(30), ZenonT(30) DEF TriggersAt
      <4> QED  BY <2>2, <3>1, <3>2, <4>6 DEF TriggersHeld
    <3>3. CASE 1264 \notin DOMAIN msg.heap[p]
      BY <2>1, <2>2, <3>1, <3>3 DEF TriggersHeld
    <3> QED  BY <3>2, <3>3
  <2> QED  BY <2>3, <2>4
<1>21. Coherent(new, loose)
  BY <1>13, <1>14, <1>16, <1>19, <1>20 DEF Coherent
<1>22. ListIsSet(msg, o, "TriggerTypes", list, new)
  BY <1>1, <1>5, <1>12 DEF ListIsSet
<1>23. Sound(new, loose)
  BY <1>12, <1>21 DEF Sound
<1> QED  BY <1>22, <1>23 DEF new

-----------------------------------------------------------------------------
(* The trigger types of an MSCC.                                           *)

(* The node of the trigger types is made. *)
TriggersMade(msg, o) ==
  Changed(Grown(msg, NewObject("Trigger"), Holder(<< >>)), o, msg.objects[o],
          SetAVP(msg.heap[o], Grouped(1264, Vendor, Len(msg.objects) + 1)))

(* The node of object o points to the next one. *)
Pointed(heap, o) == [heap EXCEPT ![o] = SetAVP(@, Grouped(1264, Vendor, Len(heap) + 1))]

(* The node of the trigger types is put behind the others. *)
LEMMA WithTriggersIs ==
  ASSUME NEW msg, Typed(msg), NEW o \in 1..Len(msg.objects), ~HasTriggers(msg, o),
         SetAVP(msg.heap[o], Grouped(1264, Vendor, Len(msg.objects) + 1)) \in Node, Holder(<< >>) \in Node,
         NewObject("Trigger") \in Object
  PROVE  WithTriggers(msg, o) = TriggersMade(msg, o)
<1>1. PICK objects, heap : /\ msg = [objects |-> objects, heap |-> heap]
                           /\ objects \in Seq(Object) /\ heap \in Seq(Node) /\ Len(heap) = Len(objects)
  BY TypedParts
<1>2. o \in 1..Len(objects) /\ o \in 1..Len(heap)
  BY <1>1
<1> DEFINE node == SetAVP(heap[o], Grouped(1264, Vendor, Len(objects) + 1))
<1>3. Holder(<< >>) = [c \in {870} |-> GroupedSet(870, << >>)]
  <2>1. TriggerAVPs(<< >>) = << >>
    BY DEF TriggerAVPs
  <2> QED  BY <2>1 DEF Holder
<1>4. node \in Node /\ SetAVP(msg.heap[o], Grouped(1264, Vendor, Len(msg.objects) + 1)) = node
  BY <1>1
<1>5. WithTriggers(msg, o) = [objects |-> Append(objects, NewObject("Trigger")),
                              heap |-> Append([heap EXCEPT ![o] = node], Holder(<< >>))]
  <2>1. msg.objects = objects /\ msg.heap = heap
    BY <1>1
  <2>2. PICK x, holder : x = NewObject("Trigger") /\ holder = [c \in {870} |-> GroupedSet(870, << >>)]
    BY SMTT(30), ZenonT(30)
  <2>3. PICK changed : changed = Pointed(msg.heap, o)
    OBVIOUS
  <2>4. WithTriggers(msg, o) = [objects |-> Append(msg.objects, x), heap |-> Append(changed, holder)]
    BY <2>2, <2>3 DEF WithTriggers, Pointed
  <2>5. changed = [heap EXCEPT ![o] = node]
    BY <1>1, <2>1, <2>3 DEF Pointed
  <2>6. holder = Holder(<< >>)
    BY <1>3, <2>2
  <2>7. WithTriggers(msg, o) = [objects |-> Append(objects, x), heap |-> Append(changed, holder)]
    BY <2>1, <2>4
  <2> HIDE DEF node
  <2> QED  BY <2>2, <2>5, <2>6, <2>7, ZenonT(30)
<1> HIDE DEF node
<1>6. Swapped(heap, o, node, Holder(<< >>))
  BY <1>1, <1>2, <1>4, AppendSwaps
<1>7. TriggersMade(msg, o) = [objects |-> [Append(objects, NewObject("Trigger")) EXCEPT ![o] = objects[o]],
                              heap |-> [Append(heap, Holder(<< >>)) EXCEPT ![o] = node]]
  <2>1. msg.objects = objects /\ msg.heap = heap
    BY <1>1
  <2>2. PICK x, y : x = NewObject("Trigger") /\ y = Holder(<< >>)
    OBVIOUS
  <2>3. TriggersMade(msg, o) = Changed(Grown(msg, x, y), o, objects[o], node)
    BY <1>4, <2>1, <2>2 DEF TriggersMade
  <2>4. Changed(Grown(msg, x, y), o, objects[o], node) =
          [objects |-> [Append(objects, x) EXCEPT ![o] = objects[o]], heap |-> [Append(heap, y) EXCEPT ![o] = node]]
    BY <1>1 DEF Changed, Grown
  <2> QED  BY <2>2, <2>3, <2>4
<1>8. [Append(objects, NewObject("Trigger")) EXCEPT ![o] = objects[o]] = Append(objects, NewObject("Trigger"))
  <2>1. PICK x \in Object : x = NewObject("Trigger")
    OBVIOUS
  <2>2. PICK grown : grown = Append(objects, x) /\ grown[o] = objects[o] /\ grown \in Seq(Object)
    <3>1. Append(objects, x)[o] = objects[o] /\ Append(objects, x) \in Seq(Object)
      BY <1>1, <1>2, <2>1
    <3> QED  BY <3>1, SMTT(30), ZenonT(30)
  <2>3. \A any \in Seq(Object) : [any EXCEPT ![o] = any[o]] = any
    OBVIOUS
  <2>4. [grown EXCEPT ![o] = grown[o]] = grown
    BY <2>2, <2>3, ZenonT(30)
  <2> QED  BY <2>1, <2>2, <2>4
<1> QED  BY <1>5, <1>6, <1>7, <1>8, SMTT(30), ZenonT(30) DEF Swapped

(* Making it keeps the message sound. *)
LEMMA WithTriggersSound ==
  ASSUME NEW msg, NEW loose, Sound(msg, loose), NEW o \in 1..Len(msg.objects), msg.objects[o].class = "MSCC"
  PROVE  /\ Sound(WithTriggers(msg, o), loose) /\ HasTriggers(WithTriggers(msg, o), o)
         /\ Len(msg.objects) <= Len(WithTriggers(msg, o).objects)
         /\ \A p \in 1..Len(msg.objects) : WithTriggers(msg, o).objects[p] = msg.objects[p]
<1>1. PICK last \in Nat \ {0} : last = Len(msg.objects)
  BY SoundAt
<1>2. CASE HasTriggers(msg, o)
  <2>1. WithTriggers(msg, o) = msg
    BY <1>2 DEF WithTriggers
  <2> QED  BY <1>1, <1>2, <2>1
<1>3. CASE ~HasTriggers(msg, o)
  <2> DEFINE k == "MSCC"
             t == last + 1
             holder == Holder(<< >>)
             grown == Grown(msg, NewObject("Trigger"), holder)
             avp == Grouped(1264, Vendor, t)
             node == SetAVP(msg.heap[o], avp)
             new == Changed(grown, o, msg.objects[o], node)
  <2>1. /\ k \in DOMAIN Writes /\ msg.objects[o] \in ObjectsOf(k)
        /\ ShapedNode(msg.heap[o], o, last) /\ Holds(msg.objects[o], msg.heap[o], loose)
        /\ KidsKnown(msg.objects, msg.objects[o]) /\ DOMAIN msg.objects = 1..last
    BY <1>1, SoundAt
  <2>2. Typed(msg) /\ Coherent(msg, loose) /\ 1264 \notin DOMAIN msg.heap[o]
    BY <1>3 DEF Sound, HasTriggers
  <2>3. /\ Sound(grown, loose) /\ GrownOnly(msg, NewObject("Trigger"), holder, grown)
    <3>1. PICK empty \in Seq(Int) : empty = << >>
      <4>1. << >> \in Seq(Int)
        OBVIOUS
      <4> QED  BY <4>1
    <3>2. PICK next \in Nat : next = last + 1
      OBVIOUS
    <3>3. ShapedNode(Holder(empty), next, next)
      BY HolderShaped
    <3>4. ShapedNode(holder, Len(msg.objects) + 1, Len(msg.objects) + 1)
      BY <1>1, <3>1, <3>2, <3>3
    <3>5. "Trigger" \in DOMAIN Writes \ {"CCR", "CCA"}
      BY DEF Writes
    <3> HIDE DEF holder, grown
    <3>6. Sound(Grown(msg, NewObject("Trigger"), holder), loose) /\ GrownOnly(msg, NewObject("Trigger"), holder, Grown(msg, NewObject("Trigger"), holder))
      BY <3>4, <3>5, GrownSound
    <3> QED  BY <3>6 DEF grown
  <2> HIDE DEF grown, holder
  <2>4. /\ Len(grown.objects) = last + 1 /\ grown.objects[last + 1] = NewObject("Trigger")
        /\ grown.heap[last + 1] = holder
        /\ \A p \in 1..last : grown.objects[p] = msg.objects[p] /\ grown.heap[p] = msg.heap[p]
    BY <1>1, <2>3 DEF GrownOnly
  <2>5. avp.code = 1264 /\ avp.node = t
    BY DEF Grouped
  <2>6. ShapedNode(node, o, last + 1)
    <3>1. PICK next \in Nat : next = last + 1
      OBVIOUS
    <3>2. PICK code \in Int : code = 1264 /\ code # 263
      OBVIOUS
    <3>3. next \in o + 1 .. next /\ o \in 1..next /\ o \in Nat
      BY <1>1, <3>1
    <3>4. Fits(Grouped(code, Vendor, next), o, next)
      BY <3>2, <3>3, GroupedFits DEF Vendor
    <3>5. Fits(avp, o, next)
      BY <3>1, <3>2, <3>4
    <3>6. avp.code \in Int
      BY <2>5
    <3> HIDE DEF avp
    <3>7. ShapedNode(msg.heap[o], o, next)
      <4>1. ShapedNode(msg.heap[o], o, last + 1)
        BY <2>1, <3>3, ShapedGrows
      <4> QED  BY <3>1, <4>1
    <3>8. ShapedNode(SetAVP(msg.heap[o], avp), o, next)
      BY <3>3, <3>5, <3>6, <3>7, SetAVPFiles, Zenon
    <3> QED  BY <3>1, <3>8
  <2>7. FiledOnly(msg.heap[o], 1264, avp, node)
    <3> HIDE DEF avp
    <3> QED  BY <2>5 DEF FiledOnly, SetAVP
  <2> HIDE DEF avp, node
  <2>8. Typed(new) /\ ChangedOnly(grown, o, msg.objects[o], node, new)
    <3>1. Typed(grown)
      BY <2>3 DEF Sound
    <3>2. o \in 1..Len(grown.objects) /\ msg.objects[o] \in ObjectsOf(grown.objects[o].class)
          /\ ShapedNode(node, o, Len(grown.objects))
      BY <1>1, <2>1, <2>4, <2>6
    <3> QED  BY <3>1, <3>2, ChangedTyped
  <2> HIDE DEF new
  <2>9. /\ Len(new.objects) = last + 1
        /\ new.heap[o] = node
        /\ \A p \in 1..last : /\ new.objects[p] = msg.objects[p]
                              /\ p # o => new.heap[p] = msg.heap[p]
        /\ new.objects[t] = NewObject("Trigger") /\ new.heap[t] = holder
    <3>1. t \in 1 .. last + 1 /\ t # o /\ o \in 1 .. last + 1 /\ \A p \in 1..last : p \in 1 .. last + 1
      BY <1>1
    <3> QED  BY <1>1, <2>4, <2>8, <3>1 DEF ChangedOnly
  <2>10. DOMAIN new.objects = 1 .. last + 1 /\ DOMAIN grown.objects = 1 .. last + 1
    BY <2>3, <2>4, <2>8, <2>9, TypedParts DEF Sound
  <2>11. NewObject("Trigger").class = "Trigger"
    BY DEF NewObject
  <2>12. new.objects = grown.objects
    <3>1. \A p \in 1 .. last + 1 : new.objects[p] = grown.objects[p]
      BY <2>4, <2>9
    <3>2. PICK one, two : one = new.objects /\ two = grown.objects /\ one \in Seq(Object) /\ two \in Seq(Object)
      BY <2>3, <2>8, TypedParts DEF Sound
    <3>3. Len(one) = last + 1 /\ Len(two) = last + 1 /\ \A p \in 1 .. last + 1 : one[p] = two[p]
      BY <2>4, <2>9, <3>1, <3>2
    <3>4. one = two
      BY <3>2, <3>3
    <3> QED  BY <3>2, <3>4
  <2>13. Holds(msg.objects[o], node, loose)
    <3>1. PICK code : code = 1264
      OBVIOUS
    <3>2. SameBut(msg.heap[o], code, node)
      BY <2>7, <3>1 DEF FiledOnly, SameBut
    <3> QED  BY <2>1, <3>1, <3>2, OtherHolds
  <2>14. \A p \in 1 .. last + 1 : Holds(new.objects[p], new.heap[p], loose) /\ KidsKnown(new.objects, new.objects[p])
    <3> TAKE p \in 1 .. last + 1
    <3>1. Holds(grown.objects[p], grown.heap[p], loose) /\ KidsKnown(grown.objects, grown.objects[p])
      BY <2>3, <2>10 DEF Sound, Coherent
    <3>2. CASE p = o
      BY <1>1, <2>9, <2>12, <2>13, <3>1, <3>2
    <3>3. CASE p # o
      <4>1. new.heap[p] = grown.heap[p]
        BY <2>4, <2>9, <3>3
      <4> QED  BY <2>12, <3>1, <4>1
    <3> QED  BY <3>2, <3>3
  <2>15. \A p \in 1..last : msg.objects[p].class = "MSCC" /\ 1264 \in DOMAIN msg.heap[p] =>
           \E u \in 1..last : TriggersAt(u, msg.heap[p], msg.objects[p].lists["TriggerTypes"], msg.objects, msg.heap)
    <3> SUFFICES ASSUME NEW p \in 1..last, msg.objects[p].class = "MSCC", 1264 \in DOMAIN msg.heap[p]
                 PROVE  \E u \in 1..last : TriggersAt(u, msg.heap[p], msg.objects[p].lists["TriggerTypes"], msg.objects, msg.heap)
      OBVIOUS
    <3>1. TriggersHeld(msg.heap[p], msg.objects[p].lists["TriggerTypes"], msg.objects, msg.heap)
      BY <2>1, <2>2 DEF Coherent
    <3>2. PICK u : TriggersAt(u, msg.heap[p], msg.objects[p].lists["TriggerTypes"], msg.objects, msg.heap)
      BY <3>1 DEF TriggersHeld
    <3>3. u \in 1..last
      BY <2>1, <3>2 DEF TriggersAt
    <3> QED  BY <3>2, <3>3
  <2>16. ASSUME NEW p \in 1 .. last + 1, new.objects[p].class = "MSCC"
         PROVE  TriggersHeld(new.heap[p], new.objects[p].lists["TriggerTypes"], new.objects, new.heap)
    <3>1. p \in 1..last /\ new.objects[p] = msg.objects[p] /\ msg.objects[p].class = "MSCC"
      BY <2>9, <2>11, <2>16
    <3>2. TriggersHeld(msg.heap[p], msg.objects[p].lists["TriggerTypes"], msg.objects, msg.heap)
      BY <2>1, <2>2, <3>1 DEF Coherent
    <3>3. CASE p = o
      <4>1. new.objects[p].lists["TriggerTypes"] = << >>
        BY <2>2, <3>1, <3>2, <3>3 DEF TriggersHeld
      <4>2. TriggersIn(holder, << >>)
        BY DEF TriggersIn, Holder, holder
      <4>3. node[1264] = avp /\ avp = Grouped(1264, Vendor, t) /\ 1264 \in DOMAIN node
        BY <2>7 DEF FiledOnly, avp
      <4>4. t \in DOMAIN new.objects /\ new.objects[t].class = "Trigger" /\ new.heap[t] = holder
        BY <2>9, <2>10, <2>11
      <4>5. TriggersAt(t, node, << >>, new.objects, new.heap)
        BY <2>5, <4>2, <4>3, <4>4 DEF TriggersAt
      <4> QED  BY <2>9, <3>3, <4>1, <4>3, <4>5 DEF TriggersHeld
    <3>4. CASE p # o
      <4>1. new.heap[p] = msg.heap[p]
        BY <2>9, <3>1, <3>4
      <4>2. CASE 1264 \in DOMAIN msg.heap[p]
        <5>1. PICK u \in 1..last : TriggersAt(u, msg.heap[p], msg.objects[p].lists["TriggerTypes"], msg.objects, msg.heap)
          BY <2>15, <3>1, <4>2
        <5>2. u # o
          BY <5>1 DEF TriggersAt
        <5>3. new.objects[u] = msg.objects[u] /\ new.heap[u] = msg.heap[u] /\ u \in DOMAIN new.objects
          BY <2>9, <2>10, <5>1, <5>2
        <5>4. TriggersAt(u, msg.heap[p], msg.objects[p].lists["TriggerTypes"], new.objects, new.heap)
          BY <5>1, <5>3 DEF TriggersAt
        <5> QED  BY <3>1, <4>1, <4>2, <5>4 DEF TriggersHeld
      <4>3. CASE 1264 \notin DOMAIN msg.heap[p]
        BY <3>1, <3>2, <4>1, <4>3 DEF TriggersHeld
      <4> QED  BY <4>2, <4>3
    <3> QED  BY <3>3, <3>4
  <2>17. OwnTriggers(new.objects, new.heap)
    <3>1. OwnTriggers(msg.objects, msg.heap)
      BY <2>2 DEF Coherent
    <3>2. \A p \in 1 .. last + 1 : new.objects[p].class = "MSCC" => p \in 1..last /\ new.objects[p] = msg.objects[p]
      BY <2>9, <2>11
    <3>3. \A p \in 1..last : p # o /\ msg.objects[p].class = "MSCC" /\ 1264 \in DOMAIN new.heap[p] =>
            /\ new.heap[p] = msg.heap[p]
            /\ new.heap[p][1264].node \in 1..last
      BY <2>9, <2>15, SMTT(30), ZenonT(30) DEF TriggersAt
    <3>4. new.heap[o][1264].node = t /\ t \notin 1..last
      BY <2>5, <2>7, <2>9 DEF FiledOnly
    <3>5. ASSUME NEW p \in 1 .. last + 1, NEW q \in 1 .. last + 1,
                 new.objects[p].class = "MSCC", new.objects[q].class = "MSCC",
                 1264 \in DOMAIN new.heap[p], 1264 \in DOMAIN new.heap[q],
                 new.heap[p][1264].node = new.heap[q][1264].node
          PROVE  p = q
      <4>1. p \in 1..last /\ q \in 1..last /\ msg.objects[p].class = "MSCC" /\ msg.objects[q].class = "MSCC"
        BY <3>2, <3>5
      <4>2. CASE p # o /\ q # o
        <5>1. new.heap[p] = msg.heap[p] /\ new.heap[q] = msg.heap[q]
          BY <3>3, <3>5, <4>1, <4>2
        <5> QED  BY <2>1, <3>1, <3>5, <4>1, <5>1 DEF OwnTriggers
      <4>3. CASE p = o \/ q = o
        BY <3>3, <3>4, <3>5, <4>1, <4>3
      <4> QED  BY <4>2, <4>3
    <3> QED  BY <2>10, <3>5 DEF OwnTriggers
  <2>18. Coherent(new, loose)
    BY <2>10, <2>14, <2>16, <2>17 DEF Coherent
  <2>19. Sound(new, loose)
    BY <2>8, <2>18 DEF Sound
  <2>20. WithTriggers(msg, o) = new
    <3>1. /\ node \in Node /\ node = SetAVP(msg.heap[o], Grouped(1264, Vendor, Len(msg.objects) + 1))
      BY <1>1, <2>6, ShapedIsNode DEF node, avp
    <3>2. holder \in Node
      <4>1. Typed(grown)
        BY <2>3 DEF Sound
      <4>2. grown.heap \in Seq(Node) /\ DOMAIN grown.heap = 1 .. last + 1
        BY <2>4, <4>1, TypedParts
      <4>3. last + 1 \in 1 .. last + 1
        OBVIOUS
      <4> QED  BY <2>4, <4>2, <4>3
    <3>3. NewObject("Trigger") \in Object
      <4>1. "Trigger" \in DOMAIN Writes
        BY DEF Writes
      <4> QED  BY <4>1, NewObjectTyped DEF Object
    <3>4. WithTriggers(msg, o) = TriggersMade(msg, o)
      BY <1>3, <2>2, <3>1, <3>2, <3>3, WithTriggersIs DEF holder
    <3>5. TriggersMade(msg, o) = Changed(grown, o, msg.objects[o], node)
      BY <3>1 DEF TriggersMade, grown, holder
    <3> QED  BY <3>4, <3>5 DEF new
  <2>21. HasTriggers(new, o)
    BY <2>7, <2>9 DEF HasTriggers, FiledOnly
  <2> QED  BY <1>1, <2>9, <2>19, <2>20, <2>21
<1> QED  BY <1>2, <1>3

(* Where a list of different types has a type, its AVPs have it. *)
LEMMA GroupIndexIs ==
  ASSUME NEW list \in Seq(Int), \A i, j \in DOMAIN list : list[i] = list[j] => i = j, NEW t \in Int
  PROVE  /\ (\A i \in DOMAIN list : list[i] # t) => GroupIndex(TriggerAVPs(list), t) = -1
         /\ \A i \in DOMAIN list : list[i] = t => GroupIndex(TriggerAVPs(list), t) = i - 1
<1> DEFINE items == TriggerAVPs(list)
           found == {i \in DOMAIN items : items[i].data.value = t}
<1>1. DOMAIN items = DOMAIN list /\ \A i \in DOMAIN list : items[i] = IntAVP(870, Vendor, list[i])
  BY DEF TriggerAVPs
<1>2. \A v : IntAVP(870, Vendor, v).data.value = v
  BY DEF IntAVP, Basic, Layout
<1>3. found = {i \in DOMAIN list : list[i] = t}
  BY <1>1, <1>2
<1>4. GroupIndex(items, t) = IF found = {} THEN -1 ELSE Min(found) - 1
  BY DEF GroupIndex
<1> HIDE DEF found, items
<1>5. ASSUME NEW i \in DOMAIN list, list[i] = t PROVE Min(found) = i /\ found # {}
  <2>1. found = {i}
    BY <1>3, <1>5
  <2>2. i \in Int
    OBVIOUS
  <2>3. Min({i}) = i
    BY <2>2 DEF Min
  <2> QED  BY <2>1, <2>3
<1>6. (\A i \in DOMAIN list : list[i] # t) => found = {}
  BY <1>3
<1> QED  BY <1>4, <1>5, <1>6 DEF items

(* An item of the node of trigger types is set. *)
ItemIsSet(msg, o, list, new) ==
  new = [objects |-> msg.objects, heap |-> [msg.heap EXCEPT ![TriggerNode(msg, o)] = Holder(list)]]

(* A trigger type is put into its node as it is put into the list. *)
LEMMA HolderSet ==
  ASSUME NEW list \in Seq(Int), NEW v \in Int, NEW index \in 0..Len(list)
  PROVE  [Holder(list) EXCEPT ![870].items = SetInGroup(@, IntAVP(870, Vendor, v), index)] = Holder(Put(list, index, v))
<1> DEFINE old == TriggerAVPs(list)
           new == TriggerAVPs(Put(list, index, v))
           avp == IntAVP(870, Vendor, v)
<1>1. SetInGroup(old, avp, index) = new
  <2>1. PICK S : \A w \in Int : TriggerAVP[w] \in S
    <3>1. \A w \in Int : TriggerAVP[w] \in {TriggerAVP[x] : x \in Int}
      OBVIOUS
    <3> QED  BY <3>1
  <2>2. SetInGroup(Mapped(TriggerAVP, list), TriggerAVP[v], index) = Mapped(TriggerAVP, Put(list, index, v))
    BY <2>1, MappedPut
  <2>3. TriggerAVP[v] = avp
    BY DEF TriggerAVP
  <2>4. Put(list, index, v) \in Seq(Int)
    BY PutIs
  <2> QED  BY <2>2, <2>3, <2>4, TriggersMapped
<1>2. Holder(list) = [c \in {870} |-> GroupedSet(870, old)] /\ Holder(Put(list, index, v)) = [c \in {870} |-> GroupedSet(870, new)]
  BY DEF Holder
<1> HIDE DEF old, new, avp
<1>3. PICK code : code = 870
  OBVIOUS
<1>4. [GroupedSet(code, old) EXCEPT !.items = new] = GroupedSet(code, new)
  BY DEF GroupedSet
<1>5. PICK holder : holder = [c \in {code} |-> GroupedSet(code, old)]
  OBVIOUS
<1>6. holder[code] = GroupedSet(code, old) /\ holder[code].items = old /\ DOMAIN holder = {code}
  BY <1>5 DEF GroupedSet
<1>7. [holder EXCEPT ![code] = GroupedSet(code, new)] = [c \in {code} |-> GroupedSet(code, new)]
  BY <1>5, <1>6
<1>8. [holder EXCEPT ![code].items = SetInGroup(@, avp, index)] = [holder EXCEPT ![code] = GroupedSet(code, new)]
  <2>1. [holder EXCEPT ![code].items = SetInGroup(@, avp, index)]
          = [holder EXCEPT ![code] = [holder[code] EXCEPT !.items = SetInGroup(holder[code].items, avp, index)]]
    OBVIOUS
  <2>2. [holder[code] EXCEPT !.items = SetInGroup(holder[code].items, avp, index)] = GroupedSet(code, new)
    BY <1>1, <1>4, <1>6
  <2> QED  BY <2>1, <2>2
<1> QED  BY <1>2, <1>3, <1>5, <1>7, <1>8 DEF avp

ItemIsExcept(msg, objects, heap, t, c, items) ==
  [msg EXCEPT !.heap[t][c].items = items] = [objects |-> objects, heap |-> [heap EXCEPT ![t] = ItemsSet(heap[t], c, items)]]

(* The items of one AVP of a message are exchanged. *)
LEMMA ItemExcept ==
  ASSUME NEW objects, NEW heap, NEW t, NEW c, NEW items, NEW msg, msg = [objects |-> objects, heap |-> heap]
  PROVE  ItemIsExcept(msg, objects, heap, t, c, items)
<1>1. PICK node : node = ItemsSet(heap[t], c, items)
  OBVIOUS
<1>2. [msg EXCEPT !.heap[t][c].items = items] = [msg EXCEPT !.heap[t] = node]
  BY <1>1 DEF ItemsSet
<1>3. [msg EXCEPT !.heap[t] = node] = [objects |-> objects, heap |-> [heap EXCEPT ![t] = node]]
  OBVIOUS
<1> QED  BY <1>1, <1>2, <1>3 DEF ItemIsExcept

(* A trigger type is put into the message as it is put into the list. *)
LEMMA TriggerItemIsSet ==
  ASSUME NEW msg, NEW objects, NEW heap, msg = [objects |-> objects, heap |-> heap], NEW o,
         NEW list \in Seq(Int), heap[TriggerNode(msg, o)] = Holder(list), NEW v \in Int, NEW index \in 0..Len(list)
  PROVE  ItemIsSet(msg, o, Put(list, index, v), SetTriggerItem(msg, o, v, index))
<1>1. PICK t : t = TriggerNode(msg, o)
  OBVIOUS
<1>2. PICK c : c = 870
  OBVIOUS
<1>3. PICK avp : avp = IntAVP(870, Vendor, v)
  OBVIOUS
<1>4. PICK items : items = SetInGroup(heap[t][c].items, avp, index)
  OBVIOUS
<1>5. ItemsSet(heap[t], c, items) = Holder(Put(list, index, v))
  <2>1. [Holder(list) EXCEPT ![870].items = SetInGroup(@, IntAVP(870, Vendor, v), index)] = Holder(Put(list, index, v))
    BY HolderSet
  <2>2. PICK holder : holder = Holder(list)
    OBVIOUS
  <2>3. ItemsSet(holder, c, SetInGroup(holder[c].items, avp, index)) = Holder(Put(list, index, v))
    BY <1>2, <1>3, <2>1, <2>2 DEF ItemsSet
  <2>4. holder = heap[t]
    BY <1>1, <2>2
  <2> QED  BY <1>4, <2>3, <2>4
<1>6. SetTriggerItem(msg, o, v, index) = [msg EXCEPT !.heap[t][c].items = items]
  <2>1. msg.heap = heap
    OBVIOUS
  <2>2. SetTriggerItem(msg, o, v, index) = [msg EXCEPT !.heap[t][c].items = SetInGroup(@, avp, index)]
    BY <1>1, <1>2, <1>3 DEF SetTriggerItem
  <2> QED  BY <1>4, <2>1, <2>2
<1>7. [msg EXCEPT !.heap[t][c].items = items] = [objects |-> objects, heap |-> [heap EXCEPT ![t] = ItemsSet(heap[t], c, items)]]
  <2>1. ItemIsExcept(msg, objects, heap, t, c, items)
    BY ItemExcept, Zenon
  <2> QED  BY <2>1 DEF ItemIsExcept
<1>8. msg.objects = objects /\ msg.heap = heap
  OBVIOUS
<1> QED  BY <1>1, <1>5, <1>6, <1>7, <1>8 DEF ItemIsSet

TriggersAre(msg, o, list) ==
  /\ list \in Seq(Int) /\ \A i, j \in DOMAIN list : list[i] = list[j] => i = j
  /\ msg.heap[TriggerNode(msg, o)] = Holder(list)
  /\ TriggerItems(msg, o) = TriggerAVPs(list)

(* The AVPs of the trigger types are those of the list. *)
LEMMA TriggersFound ==
  ASSUME NEW msg, NEW loose, Sound(msg, loose), NEW o \in 1..Len(msg.objects), msg.objects[o].class = "MSCC",
         HasTriggers(msg, o)
  PROVE  TriggersAre(msg, o, msg.objects[o].lists["TriggerTypes"])
<1> DEFINE list == msg.objects[o].lists["TriggerTypes"]
<1>1. msg.objects[o] \in ObjectsOf("MSCC") /\ DOMAIN msg.objects = 1..Len(msg.objects) /\ "MSCC" \in DOMAIN Writes
  BY SoundAt
<1>2. TriggersHeld(msg.heap[o], list, msg.objects, msg.heap)
  BY <1>1 DEF Sound, Coherent
<1>3. PICK u : TriggersAt(u, msg.heap[o], list, msg.objects, msg.heap)
  BY <1>2 DEF TriggersHeld, HasTriggers
<1>4. msg.heap[TriggerNode(msg, o)] = Holder(list) /\ \A i, j \in DOMAIN list : list[i] = list[j] => i = j
  BY <1>3 DEF TriggersAt, TriggersIn, TriggerNode, Holder
<1>5. list \in Seq(Int)
  <2>1. "TriggerTypes" \in ListNames("MSCC")
    BY <1>1, ListsAreOf DEF ListsOf
  <2> QED  BY <1>1, <2>1 DEF ObjectsOf
<1>6. TriggerItems(msg, o) = TriggerAVPs(list)
  <2>1. Holder(list)[870].items = TriggerAVPs(list)
    BY DEF Holder, GroupedSet
  <2>2. TriggerItems(msg, o) = msg.heap[TriggerNode(msg, o)][870].items
    BY DEF TriggerItems
  <2> QED  BY <1>4, <2>1, <2>2
<1> QED  BY <1>4, <1>5, <1>6 DEF TriggersAre

(* The list with a type that it may have already. *)
WithType(list, t) == IF \E i \in DOMAIN list : list[i] = t THEN list ELSE Append(list, t)

(* No trigger type is in the list twice. *)
LEMMA WithTypeIs ==
  ASSUME NEW list \in Seq(Int), \A i, j \in DOMAIN list : list[i] = list[j] => i = j, NEW t \in Int
  PROVE  WithType(list, t) \in Seq(Int) /\ \A i, j \in DOMAIN WithType(list, t) : WithType(list, t)[i] = WithType(list, t)[j] => i = j
<1>1. CASE \E i \in DOMAIN list : list[i] = t
  BY <1>1 DEF WithType
<1>2. CASE ~\E i \in DOMAIN list : list[i] = t
  <2>1. PICK new \in Seq(Int) : new = Append(list, t)
    <3>1. Append(list, t) \in Seq(Int)
      OBVIOUS
    <3> QED  BY <3>1
  <2>2. WithType(list, t) = new
    BY <1>2, <2>1 DEF WithType
  <2>3. Len(new) = Len(list) + 1 /\ \A i \in 1..Len(new) : new[i] = IF i = Len(list) + 1 THEN t ELSE list[i]
    BY <2>1
  <2>4. \A i, j \in 1..Len(new) : new[i] = new[j] => i = j
    <3> TAKE i, j \in 1..Len(new)
    <3>1. i = Len(list) + 1 \/ i \in DOMAIN list
      BY <2>3
    <3>2. j = Len(list) + 1 \/ j \in DOMAIN list
      BY <2>3
    <3> QED  BY <1>2, <2>3, <3>1, <3>2
  <2> QED  BY <2>2, <2>4
<1> QED  BY <1>1, <1>2

(* AddItem puts a trigger type into the message as it is put into the list. *)
LEMMA AddItemIs ==
  ASSUME NEW msg, NEW loose, Sound(msg, loose), NEW o \in 1..Len(msg.objects), msg.objects[o].class = "MSCC",
         HasTriggers(msg, o), NEW t \in Int
  PROVE  ItemIsSet(msg, o, WithType(msg.objects[o].lists["TriggerTypes"], t), AddItem(msg, o, t))
<1> DEFINE list == msg.objects[o].lists["TriggerTypes"]
<1>1. /\ list \in Seq(Int) /\ \A i, j \in DOMAIN list : list[i] = list[j] => i = j
      /\ msg.heap[TriggerNode(msg, o)] = Holder(list) /\ TriggerItems(msg, o) = TriggerAVPs(list)
  BY TriggersFound DEF TriggersAre
<1>2. PICK objects, heap : msg = [objects |-> objects, heap |-> heap] /\ msg.objects = objects /\ msg.heap = heap
                           /\ heap \in Seq(Node)
  BY TypedParts DEF Sound
<1> HIDE DEF list
<1>3. CASE \E i \in DOMAIN list : list[i] = t
  <2>1. PICK i \in DOMAIN list : list[i] = t
    BY <1>3
  <2>2. GroupIndex(TriggerAVPs(list), t) = i - 1 /\ i \in Nat /\ i >= 1
    BY <1>1, <2>1, GroupIndexIs, SMTT(30), ZenonT(30)
  <2>3. AddItem(msg, o, t) = msg
    BY <1>1, <2>2 DEF AddItem
  <2>4. WithType(list, t) = list
    BY <1>3 DEF WithType
  <2>5. [heap EXCEPT ![TriggerNode(msg, o)] = Holder(list)] = heap
    <3>1. PICK n : n = TriggerNode(msg, o)
      OBVIOUS
    <3>2. PICK holder : holder = Holder(list) /\ holder = heap[n]
      BY <1>1, <1>2, <3>1
    <3>3. [heap EXCEPT ![n] = heap[n]] = heap
      BY <1>2
    <3> QED  BY <3>1, <3>2, <3>3
  <2> QED  BY <1>2, <2>3, <2>4, <2>5 DEF ItemIsSet, list
<1>4. CASE ~\E i \in DOMAIN list : list[i] = t
  <2>1. GroupIndex(TriggerAVPs(list), t) = -1
    BY <1>1, <1>4, GroupIndexIs
  <2>2. Len(TriggerAVPs(list)) = Len(list)
    BY <1>1 DEF TriggerAVPs
  <2>3. AddItem(msg, o, t) = SetTriggerItem(msg, o, t, Len(list))
    BY <1>1, <2>1, <2>2 DEF AddItem
  <2>4. Put(list, Len(list), t) = WithType(list, t)
    BY <1>4 DEF Put, WithType
  <2>5. PICK index \in 0..Len(list) : index = Len(list)
    BY <1>1
  <2>6. ItemIsSet(msg, o, Put(list, index, t), SetTriggerItem(msg, o, t, index))
    BY <1>1, <1>2, TriggerItemIsSet, Zenon
  <2> QED  BY <2>3, <2>4, <2>5, <2>6 DEF list
<1> QED  BY <1>3, <1>4

(* AddTriggerType keeps a message sound. *)
LEMMA AddTriggerSound ==
  ASSUME NEW msg, NEW loose, Sound(msg, loose), NEW o \in 1..Len(msg.objects), msg.objects[o].class = "MSCC", NEW t \in Int
  PROVE  Sound(AddTriggerType(msg, o, t), loose) /\ Len(msg.objects) <= Len(AddTriggerType(msg, o, t).objects)
<1>1. PICK made : made = WithTriggers(msg, o)
  OBVIOUS
<1>2. /\ Sound(made, loose) /\ HasTriggers(made, o) /\ Len(msg.objects) <= Len(made.objects)
      /\ \A p \in 1..Len(msg.objects) : made.objects[p] = msg.objects[p]
  BY <1>1, WithTriggersSound
<1>3. o \in 1..Len(made.objects) /\ made.objects[o].class = "MSCC"
  <2>1. Len(msg.objects) \in Nat
    BY SoundAt
  <2>2. Len(made.objects) \in Nat
    BY <1>2, TypedParts DEF Sound
  <2> QED  BY <1>2, <2>1, <2>2
<1> DEFINE list == made.objects[o].lists["TriggerTypes"]
           with == WithType(list, t)
<1>4. list \in Seq(Int) /\ \A i, j \in DOMAIN list : list[i] = list[j] => i = j
  BY <1>2, <1>3, TriggersFound DEF TriggersAre
<1>5. with \in Seq(Int) /\ \A i, j \in DOMAIN with : with[i] = with[j] => i = j
  BY <1>4, WithTypeIs
<1>6. ItemIsSet(made, o, with, AddItem(made, o, t))
  BY <1>2, <1>3, AddItemIs
<1> HIDE DEF with
<1>7. AddTriggerType(msg, o, t) = TriggersSet(made, o, with)
  <2>1. PICK objects, heap : objects = made.objects /\ heap = [made.heap EXCEPT ![TriggerNode(made, o)] = Holder(with)]
    <3>1. PICK objects : objects = made.objects
      OBVIOUS
    <3>2. PICK heap : heap = [made.heap EXCEPT ![TriggerNode(made, o)] = Holder(with)]
      OBVIOUS
    <3> QED  BY <3>1, <3>2
  <2>2. PICK item : item = AddItem(made, o, t) /\ item = [objects |-> objects, heap |-> heap]
    BY <1>6, <2>1 DEF ItemIsSet
  <2>3. AddTriggerType(msg, o, t) = AddType(item, o, t)
    BY <1>1, <2>2 DEF AddTriggerType
  <2>4. AddType(item, o, t) = [item EXCEPT !.objects[o].lists["TriggerTypes"] = with]
    <3>1. item.objects[o].lists["TriggerTypes"] = list
      BY <2>1, <2>2
    <3>2. with = WithType(item.objects[o].lists["TriggerTypes"], t)
      BY <3>1 DEF with
    <3> QED  BY <3>2 DEF AddType, WithType
  <2>5. [item EXCEPT !.objects[o].lists["TriggerTypes"] = with] = [item EXCEPT !.objects[o] = WithList(item.objects[o], "TriggerTypes", with)]
    BY DEF WithList
  <2>6. item.objects[o] = made.objects[o]
    BY <2>1, <2>2
  <2>7. PICK object : object = WithList(made.objects[o], "TriggerTypes", with)
    OBVIOUS
  <2>8. AddTriggerType(msg, o, t) = [item EXCEPT !.objects[o] = object]
    BY <2>3, <2>4, <2>5, <2>6, <2>7
  <2>9. [item EXCEPT !.objects[o] = object] = [objects |-> [objects EXCEPT ![o] = object], heap |-> heap]
    BY <2>2
  <2> QED  BY <2>1, <2>7, <2>8, <2>9 DEF TriggersSet
<1>8. Sound(TriggersSet(made, o, with), loose) /\ ListIsSet(made, o, "TriggerTypes", with, TriggersSet(made, o, with))
  BY <1>2, <1>3, <1>5, TriggersSetSound
<1> QED  BY <1>2, <1>7, <1>8 DEF ListIsSet

(* SetTriggerType keeps a message sound. *)
LEMMA SetTriggerSound ==
  ASSUME NEW msg, NEW loose, Sound(msg, loose), NEW o \in 1..Len(msg.objects), msg.objects[o].class = "MSCC", NEW t \in Int,
         NEW i \in DOMAIN msg.objects[o].lists["TriggerTypes"],
         \A j \in DOMAIN msg.objects[o].lists["TriggerTypes"] : msg.objects[o].lists["TriggerTypes"][j] # t
  PROVE  Sound(SetTriggerType(msg, o, i - 1, t), loose) /\ Len(SetTriggerType(msg, o, i - 1, t).objects) = Len(msg.objects)
<1> DEFINE list == msg.objects[o].lists["TriggerTypes"]
           new == [list EXCEPT ![i] = t]
<1>1. HasTriggers(msg, o)
  <2>1. TriggersHeld(msg.heap[o], list, msg.objects, msg.heap)
    BY SoundAt DEF Sound, Coherent
  <2> QED  BY <2>1 DEF TriggersHeld, HasTriggers
<1>2. /\ list \in Seq(Int) /\ \A p, q \in DOMAIN list : list[p] = list[q] => p = q
      /\ msg.heap[TriggerNode(msg, o)] = Holder(list) /\ TriggerItems(msg, o) = TriggerAVPs(list)
  BY <1>1, TriggersFound DEF TriggersAre
<1>3. i \in DOMAIN list /\ \A j \in DOMAIN list : list[j] # t
  OBVIOUS
<1>4. PICK objects, heap : msg = [objects |-> objects, heap |-> heap] /\ msg.objects = objects /\ msg.heap = heap
  BY TypedParts DEF Sound
<1> HIDE DEF list
<1>5. new \in Seq(Int) /\ DOMAIN new = DOMAIN list /\ \A p \in DOMAIN list : new[p] = IF p = i THEN t ELSE list[p]
  BY <1>2, <1>3
<1> HIDE DEF new
<1>6. \A p, q \in DOMAIN new : new[p] = new[q] => p = q
  BY <1>2, <1>3, <1>5
<1>7. Put(list, i - 1, t) = new /\ i - 1 \in 0..Len(list) /\ (i - 1) + 1 = i
  <2>1. i \in 1..Len(list)
    BY <1>2, <1>3
  <2>2. PICK index : index = i - 1 /\ index + 1 = i /\ index # Len(list) /\ index \in 0..Len(list)
    BY <1>2, <2>1
  <2>3. Put(list, index, t) = new
    BY <2>2 DEF Put, new
  <2> QED  BY <2>2, <2>3
<1>8. GroupIndex(TriggerItems(msg, o), list[i]) = i - 1
  BY <1>2, <1>3, GroupIndexIs
<1>9. PICK object : object = WithList(msg.objects[o], "TriggerTypes", new)
  OBVIOUS
<1>10. PICK listed : listed = [objects |-> [objects EXCEPT ![o] = object], heap |-> heap]
  OBVIOUS
<1>11. [msg EXCEPT !.objects[o].lists["TriggerTypes"][i] = t] = listed
  <2>1. [msg EXCEPT !.objects[o].lists["TriggerTypes"][i] = t] = [msg EXCEPT !.objects[o] = object]
    <3>1. [msg EXCEPT !.objects[o].lists["TriggerTypes"][i] = t] = [msg EXCEPT !.objects[o].lists["TriggerTypes"] = new]
      BY DEF new, list
    <3>2. [msg EXCEPT !.objects[o].lists["TriggerTypes"] = new] = [msg EXCEPT !.objects[o] = object]
      BY <1>9 DEF WithList
    <3> QED  BY <3>1, <3>2
  <2>2. [msg EXCEPT !.objects[o] = object] = [objects |-> [objects EXCEPT ![o] = object], heap |-> heap]
    BY <1>4, SMTT(30), ZenonT(30)
  <2> QED  BY <1>10, <2>1, <2>2
<1>12. SetTriggerType(msg, o, i - 1, t) = SetTriggerItem(listed, o, t, i - 1)
  <2>1. PICK index : index = i - 1 /\ index + 1 = i /\ index >= 0
    BY <1>2, <1>3, <1>7
  <2>2. msg.objects[o].lists["TriggerTypes"] = list
    BY DEF list
  <2>3. SetTriggerType(msg, o, index, t) = SetTriggerItem(listed, o, t, index)
    BY <1>8, <1>11, <2>1, <2>2 DEF SetTriggerType
  <2> QED  BY <2>1, <2>3
<1>13. TriggerNode(listed, o) = TriggerNode(msg, o) /\ listed.heap = heap /\ listed.objects = [objects EXCEPT ![o] = object]
  BY <1>4, <1>10 DEF TriggerNode
<1>14. ItemIsSet(listed, o, new, SetTriggerItem(listed, o, t, i - 1))
  <2>1. PICK changed : changed = [objects EXCEPT ![o] = object]
    OBVIOUS
  <2>2. PICK index \in 0..Len(list) : index = i - 1
    BY <1>7
  <2>3. listed = [objects |-> changed, heap |-> heap] /\ heap[TriggerNode(listed, o)] = Holder(list)
    BY <1>2, <1>4, <1>10, <1>13, <2>1
  <2>4. ItemIsSet(listed, o, Put(list, index, t), SetTriggerItem(listed, o, t, index))
    BY <1>2, <2>3, TriggerItemIsSet, Zenon
  <2> QED  BY <1>7, <2>2, <2>4
<1>15. SetTriggerType(msg, o, i - 1, t) = TriggersSet(msg, o, new)
  BY <1>4, <1>9, <1>12, <1>13, <1>14 DEF ItemIsSet, TriggersSet
<1>16. Sound(TriggersSet(msg, o, new), loose) /\ ListIsSet(msg, o, "TriggerTypes", new, TriggersSet(msg, o, new))
  BY <1>1, <1>5, <1>6, TriggersSetSound
<1> QED  BY <1>15, <1>16 DEF ListIsSet

----------------------------------------------------------------------------
(* The remaining operations.                                               *)

ParameterSet(object, type, v) ==
  WithVal(WithVal(object, "ServiceParameterInfoType", type), "ServiceParameterInfoValue", v)

ParameterFiled(node, type, v) ==
  SetAVP(SetAVP(node, IntAVP(441, Plain, type)), Basic(442, Plain, Layout(ParameterForm(type), v)))

(* SetParameter changes one object and its node. *)
LEMMA SetParameterChanges ==
  ASSUME NEW msg, Typed(msg), NEW o \in 1..Len(msg.objects), NEW type, NEW v
  PROVE  SetParameter(msg, o, type, v) =
           Changed(msg, o, ParameterSet(msg.objects[o], type, v), ParameterFiled(msg.heap[o], type, v))
<1>1. PICK objects, heap : msg = [objects |-> objects, heap |-> heap] /\ msg.objects = objects /\ msg.heap = heap
                           /\ objects \in Seq(Object)
  BY TypedParts
<1>2. PICK one : one = WithVal(objects[o], "ServiceParameterInfoType", type)
  OBVIOUS
<1>3. PICK two : two = WithVal(one, "ServiceParameterInfoValue", v)
  OBVIOUS
<1>4. PICK node : node = ParameterFiled(heap[o], type, v)
  OBVIOUS
<1> DEFINE first == [msg EXCEPT !.objects[o].vals["ServiceParameterInfoType"] = type]
           second == [first EXCEPT !.objects[o].vals["ServiceParameterInfoValue"] = v]
<1>5. first = [objects |-> [objects EXCEPT ![o] = one], heap |-> heap]
  <2>1. first = [msg EXCEPT !.objects[o] = one]
    BY <1>1, <1>2 DEF WithVal
  <2> HIDE DEF first
  <2> QED  BY <1>1, <2>1, MessageExcept, Zenon
<1>6. SetParameter(msg, o, type, v) = [second EXCEPT !.heap[o] = node]
  BY <1>1, <1>4 DEF SetParameter, ParameterFiled
<1> HIDE DEF first
<1>7. PICK changed : changed = [objects EXCEPT ![o] = one]
  OBVIOUS
<1>8. second = [objects |-> [changed EXCEPT ![o] = two], heap |-> heap]
  <2>1. changed[o] = one
    BY <1>1, <1>7
  <2>2. first = [objects |-> changed, heap |-> heap] /\ first.objects[o] = one
    BY <1>5, <1>7, <2>1
  <2>3. second = [first EXCEPT !.objects[o] = two]
    BY <1>3, <2>2 DEF WithVal
  <2> HIDE DEF second
  <2> QED  BY <2>2, <2>3, MessageExcept, Zenon
<1> HIDE DEF second
<1>9. [changed EXCEPT ![o] = two] = [objects EXCEPT ![o] = two]
  BY <1>7
<1>10. [second EXCEPT !.heap[o] = node] = [objects |-> [objects EXCEPT ![o] = two], heap |-> [heap EXCEPT ![o] = node]]
  <2>1. PICK both : both = [objects EXCEPT ![o] = two]
    OBVIOUS
  <2>2. second = [objects |-> both, heap |-> heap]
    <3>1. PICK again : again = [changed EXCEPT ![o] = two]
      OBVIOUS
    <3>2. again = both
      BY <1>9, <2>1, <3>1
    <3> QED  BY <1>8, <3>1, <3>2
  <2>3. [second EXCEPT !.heap[o] = node] = [objects |-> both, heap |-> [heap EXCEPT ![o] = node]]
    BY <2>2
  <2> QED  BY <2>1, <2>3
<1> QED  BY <1>1, <1>2, <1>3, <1>4, <1>6, <1>10 DEF Changed, ParameterSet

(* The members of a service parameter are values of their own. *)
LEMMA ParameterNames ==
  /\ {"ServiceParameterInfoType", "ServiceParameterInfoValue"} \subseteq ValueNames("SPI")
  /\ Writes["SPI"] = {} /\ "SPI" \in DOMAIN Writes
<1>1. "SPI" \in DOMAIN Writes /\ Writes["SPI"] = {}
  BY DEF Writes
<1>2. ListNames("SPI") = {}
  BY <1>1, ListsAreOf DEF ListsOf
<1>3. /\ Read("ServiceParameterInfoType", 441, "int") \in Reads["SPI"]
      /\ Read("ServiceParameterInfoValue", 442, "parameter") \in Reads["SPI"]
  BY DEF Reads, SPIReads
<1> QED  BY <1>1, <1>2, <1>3 DEF ValueNames, IsValue, Read

ParameterIsSet(msg, o, type, v, new) ==
  /\ Len(new.objects) = Len(msg.objects) /\ new.objects[o].class = "SPI"
  /\ new.objects[o].vals["ServiceParameterInfoType"] = type
  /\ new.objects[o].vals["ServiceParameterInfoValue"] = v
  /\ \A p \in 1..Len(msg.objects) : p # o => new.objects[p] = msg.objects[p]

(* SetParameter keeps a message sound. *)
LEMMA SetParameterSound ==
  ASSUME NEW msg, NEW loose, Sound(msg, loose), NEW o \in 1..Len(msg.objects), msg.objects[o].class = "SPI",
         NEW type \in Int, NEW v \in Int
  PROVE  Sound(SetParameter(msg, o, type, v), loose) /\ ParameterIsSet(msg, o, type, v, SetParameter(msg, o, type, v))
<1>1. PICK last \in Nat \ {0} : last = Len(msg.objects)
  BY SoundAt
<1> DEFINE k == "SPI"
           object == ParameterSet(msg.objects[o], type, v)
           node == ParameterFiled(msg.heap[o], type, v)
<1>2. /\ k \in DOMAIN Writes /\ msg.objects[o] \in ObjectsOf(k)
      /\ ShapedNode(msg.heap[o], o, last) /\ Holds(msg.objects[o], msg.heap[o], loose)
      /\ KidsKnown(msg.objects, msg.objects[o]) /\ o \in Nat /\ last \in Nat
  BY <1>1, SoundAt
<1>3. /\ object \in ObjectsOf(k) /\ object.class = k
      /\ object.vals["ServiceParameterInfoType"] = type /\ object.vals["ServiceParameterInfoValue"] = v
  <2>1. PICK vals \in [ValueNames(k) -> Int], lists \in [ListNames(k) -> Seq(Int)], kids \in [ChildNames(k) -> Seq(Nat)] :
          Made(msg.objects[o], k, vals, lists, kids)
    BY <1>2, ObjectParts, Zenon
  <2>2. PICK one : one = WithVal(msg.objects[o], "ServiceParameterInfoType", type)
    OBVIOUS
  <2>3. PICK first : first = [vals EXCEPT !["ServiceParameterInfoType"] = type]
    OBVIOUS
  <2>4. PICK second : second = [first EXCEPT !["ServiceParameterInfoValue"] = v]
    OBVIOUS
  <2>5. Made(one, k, first, lists, kids)
    BY <2>1, <2>2, <2>3, ObjectExcept, Zenon
  <2>6. Made(object, k, second, lists, kids)
    <3>1. object = WithVal(one, "ServiceParameterInfoValue", v)
      BY <2>2 DEF ParameterSet
    <3> HIDE DEF object
    <3> QED  BY <2>4, <2>5, <3>1, ObjectExcept, Zenon
  <2>7. second \in [ValueNames(k) -> Int]
    BY <2>1, <2>3, <2>4
  <2>8. second["ServiceParameterInfoType"] = type /\ second["ServiceParameterInfoValue"] = v
    BY <2>1, <2>3, <2>4, ParameterNames
  <2> HIDE DEF object
  <2>9. object \in ObjectsOf(k)
    BY <2>6, <2>7, ObjectParts, Zenon
  <2> QED  BY <2>6, <2>8, <2>9 DEF Made
<1> DEFINE typed == SetAVP(msg.heap[o], IntAVP(441, Plain, type))
           avp == Basic(442, Plain, Layout(ParameterForm(type), v))
<1>4. ShapedNode(typed, o, last) /\ FiledOnly(msg.heap[o], 441, IntAVP(441, Plain, type), typed)
  <2>1. PICK int : int = IntAVP(441, Plain, type)
    OBVIOUS
  <2>2. Fits(int, o, last) /\ int.code = 441
    <3>1. 441 \in {439, 441, 870} /\ Plain \in {0, 1}
      BY DEF Plain
    <3> QED  BY <1>2, <2>1, <3>1, IntAVPFits
  <2>3. int.code \in Int /\ Fits(int, o, last)
    BY <2>2
  <2>4. ShapedNode(SetAVP(msg.heap[o], int), o, last)
    BY <1>2, <2>3, SetAVPFiles, Zenon
  <2>5. FiledOnly(msg.heap[o], 441, int, SetAVP(msg.heap[o], int))
    BY <2>2 DEF FiledOnly, SetAVP
  <2> QED  BY <2>1, <2>4, <2>5
<1>5. node = SetAVP(typed, avp)
  BY DEF ParameterFiled
<1> HIDE DEF object, node, typed
<1>6. Fits(avp, o, last) /\ avp.code = 442
  <2>1. ParameterForm(type) \in Forms
    BY DEF ParameterForm, Forms
  <2>2. Layout(ParameterForm(type), v) \in Data
    BY <2>1, LayoutTyped
  <2>3. PICK data \in Data : data = Layout(ParameterForm(type), v)
    BY <2>2
  <2>4. PICK code \in Int : code = 442 /\ code # 263 /\ GetAVPType(code) = "BASIC"
    <3>1. GetAVPType(442) = "BASIC"
      BY DEF GetAVPType
    <3> QED  BY <3>1
  <2>5. Fits(Basic(code, Plain, data), o, last)
    BY <1>2, <2>4, BasicFits DEF Plain
  <2>6. avp.code = 442
    BY DEF Basic
  <2> QED  BY <2>3, <2>4, <2>5, <2>6
<1> HIDE DEF avp
<1>7. ShapedNode(node, o, last)
  <2>1. avp.code \in Int /\ Fits(avp, o, last)
    BY <1>6
  <2>2. ShapedNode(typed, o, last)
    BY <1>4
  <2>3. ShapedNode(SetAVP(typed, avp), o, last)
    BY <1>2, <2>1, <2>2, SetAVPFiles, Zenon
  <2> QED  BY <1>5, <2>3
<1>8. Holds(object, node, loose)
  <2>1. RowsHeld(object, node, loose)
    BY <1>3, ParameterNames DEF RowsHeld
  <2>2. /\ 442 \in DOMAIN node /\ node[442] = avp
        /\ 441 \in DOMAIN node /\ node[441] = IntAVP(441, Plain, type)
    <3>1. FiledOnly(typed, 442, avp, SetAVP(typed, avp))
      BY <1>6 DEF FiledOnly, SetAVP
    <3> QED  BY <1>4, <1>5, <3>1 DEF FiledOnly
  <2>3. ParameterHeld(object, node)
    BY <1>3, <2>2 DEF ParameterHeld, avp
  <2> QED  BY <1>3, <2>1, <2>3 DEF Holds
<1>9. KidsKnown(msg.objects, object)
  BY <1>3, ParameterNames DEF KidsKnown
<1>10. SameTriggers(msg.objects[o], msg.heap[o], object, node)
  BY <1>3 DEF SameTriggers
<1>11. Sound(Changed(msg, o, object, node), loose) /\ ChangedOnly(msg, o, object, node, Changed(msg, o, object, node))
  BY <1>1, <1>3, <1>7, <1>8, <1>9, <1>10, ChangedSound
<1>12. SetParameter(msg, o, type, v) = Changed(msg, o, object, node)
  <2>1. Typed(msg)
    BY DEF Sound
  <2> QED  BY <2>1, SetParameterChanges DEF object, node
<1> QED  BY <1>3, <1>11, <1>12 DEF ChangedOnly, ParameterIsSet

(* DeleteMSCC.  A child that is taken out leaves the others in their order. *)
LEMMA RemoveAtIs ==
  ASSUME NEW S, NEW s \in Seq(S), NEW i \in 1..Len(s)
  PROVE  /\ RemoveAt(s, i) \in Seq(S)
         /\ \A j \in DOMAIN RemoveAt(s, i) : \E n \in DOMAIN s : RemoveAt(s, i)[j] = s[n]
<1> DEFINE front == SubSeq(s, 1, i - 1)
           back == SubSeq(s, i + 1, Len(s))
           new == front \o back
<1>1. RemoveAt(s, i) = new
  BY DEF RemoveAt
<1>2. front \in Seq(S) /\ Len(front) = i - 1 /\ \A j \in 1 .. i - 1 : front[j] = s[j]
  OBVIOUS
<1>3. back \in Seq(S) /\ Len(back) = Len(s) - i /\ \A j \in 1 .. Len(s) - i : back[j] = s[j + i]
  OBVIOUS
<1> HIDE DEF front, back
<1>4. new \in Seq(S) /\ Len(new) = Len(front) + Len(back)
      /\ \A j \in 1 .. Len(front) + Len(back) : new[j] = IF j <= Len(front) THEN front[j] ELSE back[j - Len(front)]
  <2>0. front \in Seq(S) /\ back \in Seq(S)
    BY <1>2, <1>3
  <2>1. new \in Seq(S)
    BY <2>0
  <2>2. Len(new) = Len(front) + Len(back)
    BY <2>0
  <2>3. PICK a \in Nat : a = Len(front)
    BY <2>0
  <2>4. PICK b \in Nat : b = Len(back)
    BY <2>0
  <2>5. \A j \in 1 .. a + b : new[j] = IF j <= a THEN front[j] ELSE back[j - a]
    BY <2>0, <2>3, <2>4
  <2> HIDE DEF new
  <2> QED  BY <2>1, <2>2, <2>3, <2>4, <2>5
<1> HIDE DEF new
<1>5. ASSUME NEW j \in DOMAIN new PROVE \E n \in DOMAIN s : new[j] = s[n]
  <2>1. j \in 1 .. Len(s) - 1
    BY <1>2, <1>3, <1>4
  <2>2. CASE j <= i - 1
    <3>1. new[j] = s[j] /\ j \in DOMAIN s
      BY <1>2, <1>3, <1>4, <2>1, <2>2
    <3> QED  BY <3>1
  <2>3. CASE j > i - 1
    <3>1. j - (i - 1) \in 1 .. Len(s) - i /\ (j - (i - 1)) + i = j + 1 /\ j + 1 \in DOMAIN s
      BY <2>1, <2>3
    <3>2. new[j] = back[j - (i - 1)]
      <4>1. Len(front) = i - 1 /\ Len(front) + Len(back) = Len(s) - 1
        BY <1>2, <1>3
      <4>2. j \in 1 .. Len(front) + Len(back) /\ ~(j <= Len(front))
        BY <2>1, <2>3, <4>1
      <4>3. new[j] = back[j - Len(front)]
        BY <1>4, <4>2
      <4> QED  BY <4>1, <4>3
    <3>3. new[j] = s[j + 1]
      BY <1>3, <3>1, <3>2
    <3> QED  BY <3>1, <3>3
  <2> QED  BY <2>1, <2>2, <2>3
<1> QED  BY <1>1, <1>4, <1>5

-----------------------------------------------------------------------------
(* DeleteMSCC, and every operation.                                        *)

(* What is held of every set of children is held of the others when that   *)
(* of the MSCCs is let go.                                                 *)
LEMMA LooseRows ==
  ASSUME NEW object, NEW node, NEW loose, loose \subseteq {"MSCC"}, RowsHeld(object, node, loose)
  PROVE  RowsHeld(object, node, {"MSCC"})
<1> SUFFICES ASSUME NEW row \in Writes[object.class]
             PROVE  RowHeld(object, row, node, {"MSCC"})
  BY DEF RowsHeld
<1>1. RowHeld(object, row, node, loose)
  BY DEF RowsHeld
<1>2. SetHeld(object, row, node) => SetThere(row, node)
  BY DEF SetHeld, SetThere, GroupedSet
<1> QED  BY <1>1, <1>2 DEF RowHeld

(* A sound message is sound when the MSCCs are let go. *)
LEMMA CoherentLoose ==
  ASSUME NEW msg, NEW loose, loose \subseteq {"MSCC"}, Sound(msg, loose)
  PROVE  Sound(msg, {"MSCC"})
<1>1. \A o \in DOMAIN msg.objects : Holds(msg.objects[o], msg.heap[o], {"MSCC"})
  BY LooseRows, Zenon DEF Sound, Coherent, Holds
<1> QED  BY <1>1, Zenon DEF Sound, Coherent

(* Children that are exchanged change no other member. *)
LEMMA WithKidsTyped ==
  ASSUME NEW k \in DOMAIN Writes, NEW object \in ObjectsOf(k), NEW n \in ChildNames(k), NEW kids \in Seq(Nat)
  PROVE  WithKids(object, n, kids) \in ObjectsOf(k) /\ OnlyChild(object, n, kids, WithKids(object, n, kids))
<1>1. PICK vals \in [ValueNames(k) -> Int], lists \in [ListNames(k) -> Seq(Int)], old \in [ChildNames(k) -> Seq(Nat)] :
        Made(object, k, vals, lists, old)
  BY ObjectParts, Zenon
<1>2. Made(WithKids(object, n, kids), k, vals, lists, [old EXCEPT ![n] = kids])
  BY <1>1, ObjectExcept, Zenon
<1>3. [old EXCEPT ![n] = kids] \in [ChildNames(k) -> Seq(Nat)]
  BY <1>1
<1>4. WithKids(object, n, kids) \in ObjectsOf(k)
  BY <1>1, <1>2, <1>3, ObjectParts, Zenon
<1>5. OnlyChild(object, n, kids, WithKids(object, n, kids))
  BY <1>1, <1>2 DEF OnlyChild, Made
<1> QED  BY <1>4, <1>5

(* A session that loses MSCCs keeps their AVPs. *)
LEMMA FewerKidsHold ==
  ASSUME NEW k \in {"CCR", "CCA"}, NEW object, object.class = k, NEW node, Holds(object, node, {"MSCC"}),
         NEW new, NEW kids, OnlyChild(object, "MSCC", kids, new)
  PROVE  Holds(new, node, {"MSCC"})
<1>1. k \in DOMAIN Writes
  BY DEF Writes
<1>2. ASSUME NEW row \in Writes[k]
      PROVE  RowHeld(new, row, node, {"MSCC"})
  <2>1. RowHeld(object, row, node, {"MSCC"})
    BY DEF Holds, RowsHeld
  <2>2. Grows(object, new)
    BY DEF OnlyChild, Grows
  <2>3. CASE IsValue(row) \/ row.name # "MSCC"
    <3>1. ~IsValue(row) => row.name \in ChildNames(k)
      BY <1>1, RowNames
    <3> QED  BY <1>1, <2>1, <2>2, <2>3, <3>1, OtherRowHeld DEF OnlyChild
  <2>4. CASE ~IsValue(row) /\ row.name = "MSCC"
    <3>1. row.rule = "set"
      BY <2>4 DEF Writes, CCRWrites, CCAWrites, Value, Child, IsValue
    <3> QED  BY <2>1, <2>4, <3>1 DEF RowHeld
  <2> QED  BY <2>3, <2>4
<1> QED  BY <1>2 DEF Holds, RowsHeld, OnlyChild

(* Both messages have MSCCs. *)
LEMMA MSCCsOf ==
  \A k \in {"CCR", "CCA"} :
    /\ k \in DOMAIN Writes /\ "MSCC" \in ChildNames(k)
    /\ \E row \in Writes[k] : row.name = "MSCC" /\ ~IsValue(row)
<1>1. "CCR" \in DOMAIN Writes /\ "CCA" \in DOMAIN Writes
  BY DEF Writes
<1>2. Child("MSCC", 456, Plain, "MSCC", "set") \in Writes["CCR"] /\ Child("MSCC", 456, Plain, "MSCC", "set") \in Writes["CCA"]
  BY DEF Writes, CCRWrites, CCAWrites
<1>3. Child("MSCC", 456, Plain, "MSCC", "set").name = "MSCC" /\ ~IsValue(Child("MSCC", 456, Plain, "MSCC", "set"))
  BY DEF Child, IsValue
<1>4. PICK row : row = Child("MSCC", 456, Plain, "MSCC", "set")
  OBVIOUS
<1>5. ASSUME NEW k \in {"CCR", "CCA"}
      PROVE  /\ k \in DOMAIN Writes /\ row \in Writes[k] /\ row.name = "MSCC" /\ ~IsValue(row)
  BY <1>1, <1>2, <1>3, <1>4
<1>6. ASSUME NEW k \in {"CCR", "CCA"}
      PROVE  "MSCC" \in ChildNames(k)
  BY <1>5, RowNames
<1> QED  BY <1>5, <1>6

FewerKids(kids, index) == IF index = -1 THEN << >> ELSE RemoveAt(kids, index + 1)

(* DeleteMSCC changes the message itself, and no node. *)
LEMMA DeleteChanges ==
  ASSUME NEW msg, Typed(msg), NEW index
  PROVE  DeleteMSCC(msg, index) =
           Changed(msg, 1, WithKids(msg.objects[1], "MSCC", FewerKids(msg.objects[1].kids["MSCC"], index)), msg.heap[1])
<1>1. PICK objects, heap : msg = [objects |-> objects, heap |-> heap] /\ msg.objects = objects /\ msg.heap = heap
                           /\ heap \in Seq(Node)
  BY TypedParts
<1>2. PICK one : one = WithKids(objects[1], "MSCC", FewerKids(objects[1].kids["MSCC"], index))
  OBVIOUS
<1>3. DeleteMSCC(msg, index) = [msg EXCEPT !.objects[1] = one]
  BY <1>1, <1>2 DEF DeleteMSCC, WithKids, FewerKids
<1>4. DeleteMSCC(msg, index) = [objects |-> [objects EXCEPT ![1] = one], heap |-> heap]
  BY <1>1, <1>3, MessageExcept, Zenon
<1>5. [heap EXCEPT ![1] = heap[1]] = heap
  BY <1>1
<1> QED  BY <1>1, <1>2, <1>4, <1>5 DEF Changed

(* DeleteMSCC leaves the AVPs of the MSCCs, and the rest as it was. *)
LEMMA DeleteSound ==
  ASSUME NEW msg, NEW loose, loose \subseteq {"MSCC"}, Sound(msg, loose),
         NEW index \in -1..Len(msg.objects[1].kids["MSCC"]) - 1
  PROVE  Sound(DeleteMSCC(msg, index), {"MSCC"}) /\ Len(DeleteMSCC(msg, index).objects) = Len(msg.objects)
<1>1. Sound(msg, {"MSCC"})
  BY CoherentLoose
<1>2. PICK last \in Nat \ {0} : last = Len(msg.objects)
  BY TypedParts DEF Sound
<1>3. PICK object : object = msg.objects[1]
  OBVIOUS
<1>4. PICK node : node = msg.heap[1]
  OBVIOUS
<1>5. PICK k : k = object.class
  OBVIOUS
<1>6. 1 \in 1..Len(msg.objects)
  BY <1>2
<1>7. /\ k \in {"CCR", "CCA"} /\ object \in ObjectsOf(k) /\ ShapedNode(node, 1, last)
      /\ Holds(object, node, {"MSCC"}) /\ KidsKnown(msg.objects, object)
  <2>1. k \in {"CCR", "CCA"}
    BY <1>1, <1>3, <1>5, <1>6, TypedParts DEF Sound
  <2> QED  BY <2>1, <1>1, <1>2, <1>3, <1>4, <1>5, <1>6, SoundAt
<1>8. k \in DOMAIN Writes /\ "MSCC" \in ChildNames(k) /\ \E row \in Writes[k] : row.name = "MSCC" /\ ~IsValue(row)
  BY <1>7, MSCCsOf
<1>9. PICK kids : kids = object.kids["MSCC"]
  OBVIOUS
<1>10. kids \in Seq(Nat)
  BY <1>7, <1>8, <1>9 DEF ObjectsOf
<1>11. PICK fewer : fewer = FewerKids(kids, index)
  OBVIOUS
<1>12. fewer \in Seq(Nat) /\ \A j \in DOMAIN fewer : \E n \in DOMAIN kids : fewer[j] = kids[n]
  <2>1. CASE index = -1
    <3>1. fewer = << >>
      BY <1>11, <2>1 DEF FewerKids
    <3> QED  BY <3>1
  <2>2. CASE index # -1
    <3>1. index + 1 \in 1..Len(kids)
      BY <2>2, <1>3, <1>9, <1>10
    <3>2. fewer = RemoveAt(kids, index + 1)
      BY <1>11, <2>2 DEF FewerKids
    <3>3. PICK i : i = index + 1
      OBVIOUS
    <3>4. /\ RemoveAt(kids, i) \in Seq(Nat)
          /\ \A j \in DOMAIN RemoveAt(kids, i) : \E n \in DOMAIN kids : RemoveAt(kids, i)[j] = kids[n]
      BY <1>10, <3>1, <3>3, RemoveAtIs
    <3> QED  BY <3>2, <3>3, <3>4
  <2> QED  BY <2>1, <2>2
<1>13. PICK new : new = WithKids(object, "MSCC", fewer)
  OBVIOUS
<1>14. new \in ObjectsOf(k) /\ OnlyChild(object, "MSCC", fewer, new)
  BY <1>7, <1>8, <1>12, <1>13, WithKidsTyped
<1>15. Holds(new, node, {"MSCC"})
  BY <1>5, <1>7, <1>14, FewerKidsHold
<1>16. KidsKnown(msg.objects, new)
  <2> SUFFICES ASSUME NEW row \in Writes[k], ~IsValue(row), NEW i \in DOMAIN new.kids[row.name]
               PROVE  /\ new.kids[row.name][i] \in DOMAIN msg.objects
                      /\ msg.objects[new.kids[row.name][i]].class = row.class
    BY <1>5, <1>14 DEF KidsKnown, OnlyChild
  <2>1. row.name \in ChildNames(k)
    BY <1>8, RowNames
  <2>2. \A n \in DOMAIN object.kids[row.name] :
          /\ object.kids[row.name][n] \in DOMAIN msg.objects
          /\ msg.objects[object.kids[row.name][n]].class = row.class
    BY <1>5, <1>7 DEF KidsKnown
  <2>3. CASE row.name = "MSCC"
    <3>1. new.kids[row.name] = fewer /\ object.kids[row.name] = kids
      BY <1>9, <1>14, <2>3 DEF OnlyChild
    <3> QED  BY <1>12, <2>2, <3>1
  <2>4. CASE row.name # "MSCC"
    <3>1. new.kids[row.name] = object.kids[row.name]
      BY <1>5, <1>14, <2>1, <2>4 DEF OnlyChild
    <3> QED  BY <2>2, <3>1
  <2> QED  BY <2>3, <2>4
<1>17. SameTriggers(object, node, new, node)
  BY <1>5, <1>7, <1>14 DEF SameTriggers, OnlyChild
<1>18. DeleteMSCC(msg, index) = Changed(msg, 1, new, node)
  BY <1>1, <1>3, <1>4, <1>9, <1>11, <1>13, DeleteChanges DEF Sound
<1>19. Sound(Changed(msg, 1, new, node), {"MSCC"}) /\ ChangedOnly(msg, 1, new, node, Changed(msg, 1, new, node))
  BY <1>1, <1>2, <1>3, <1>4, <1>5, <1>6, <1>7, <1>14, <1>15, <1>16, <1>17, ChangedSound
<1> QED  BY <1>18, <1>19 DEF ChangedOnly

(* A new message is sound. *)
LEMMA NewMessageSound ==
  ASSUME NEW k \in {"CCR", "CCA"}
  PROVE  Sound(NewMessage(k), {}) /\ NewMessage(k).objects = <<NewObject(k)>>
<1>1. k \in DOMAIN Writes
  BY MSCCsOf
<1>2. PICK object : object = NewObject(k)
  OBVIOUS
<1>3. PICK node : node = NewNode(k)
  OBVIOUS
<1>4. PICK objects : objects = <<object>>
  OBVIOUS
<1>5. PICK heap : heap = <<node>>
  OBVIOUS
<1>6. NewMessage(k) = [objects |-> objects, heap |-> heap]
  BY <1>2, <1>3, <1>4, <1>5 DEF NewMessage
<1>7. /\ objects[1] = object /\ heap[1] = node /\ DOMAIN objects = {1}
      /\ objects = [o \in 1..1 |-> objects[o]] /\ heap = [o \in 1..1 |-> heap[o]]
  BY <1>4, <1>5
<1>8. object \in ObjectsOf(k) /\ object.class = k /\ Holds(object, node, {})
  BY <1>1, <1>2, <1>3, NewObjectTyped, NewHolds DEF NewObject
<1>9. ShapedNode(node, 1, 1)
  BY <1>1, <1>3, NewNodeShaped
<1>10. Typed([objects |-> objects, heap |-> heap])
  <2>1. \A o \in 1..1 : /\ objects[o].class \in DOMAIN Writes /\ objects[o] \in ObjectsOf(objects[o].class)
                        /\ (o = 1 <=> objects[o].class \in {"CCR", "CCA"})
                        /\ ShapedNode(heap[o], o, 1)
    BY <1>1, <1>7, <1>8, <1>9
  <2>2. 1 \in Nat \ {0}
    OBVIOUS
  <2> QED  BY <1>7, <2>1, <2>2, PartsTyped, Zenon
<1>11. KidsKnown(objects, object)
  <2> SUFFICES ASSUME NEW row \in Writes[k], ~IsValue(row)
               PROVE  DOMAIN object.kids[row.name] = {}
    BY <1>8 DEF KidsKnown
  <2>1. row.name \in ChildNames(k)
    BY <1>1, RowNames
  <2>2. object.kids[row.name] = << >>
    BY <1>2, <2>1 DEF NewObject
  <2> QED  BY <2>2
<1>12. PICK msg : msg = [objects |-> objects, heap |-> heap]
  OBVIOUS
<1>13. msg.objects = objects /\ msg.heap = heap
  BY <1>12
<1>14. Coherent(msg, {})
  <2>1. \A o \in DOMAIN objects : o = 1 /\ objects[o].class # "MSCC" /\ objects[o] = object /\ heap[o] = node
    BY <1>7, <1>8
  <2>2. \A o \in DOMAIN objects : Holds(objects[o], heap[o], {}) /\ KidsKnown(objects, objects[o])
    BY <1>8, <1>11, <2>1, Zenon
  <2>3. OwnTriggers(objects, heap)
    <3>1. \A o \in DOMAIN objects : objects[o].class # "MSCC"
      BY <2>1
    <3> QED  BY <3>1 DEF OwnTriggers
  <2> QED  BY <1>13, <2>1, <2>2, <2>3, Zenon DEF Coherent
<1> QED  BY <1>2, <1>4, <1>6, <1>10, <1>12, <1>13, <1>14 DEF Sound

----------------------------------------------------------------------------
(* A message that is built.                                                *)

Loose == IF deleted THEN {"MSCC"} ELSE {}

(* The message is sound whatever has been called.                          *)
Inv ==
  /\ Sound(m, Loose)
  /\ focus \in DOMAIN m.objects /\ calls \in 0..MaxCalls /\ deleted \in BOOLEAN

(* Messages start sound. *)
LEMMA InvInit == Init => Inv
<1> SUFFICES ASSUME Init PROVE Inv
  OBVIOUS
<1>1. PICK k \in {"CCR", "CCA"} : m = NewMessage(k)
  BY DEF Init
<1>2. Sound(NewMessage(k), {}) /\ NewMessage(k).objects = <<NewObject(k)>>
  BY NewMessageSound
<1>3. Sound(m, {}) /\ 1 \in DOMAIN m.objects
  BY <1>1, <1>2
<1>4. focus = 1 /\ calls = 0 /\ deleted = FALSE
  BY DEF Init
<1>5. Loose = {}
  BY <1>4 DEF Loose
<1>6. calls \in 0..MaxCalls
  BY <1>4, MessagesAssumption
<1> QED  BY <1>3, <1>4, <1>5, <1>6, Zenon DEF Inv

(* A call that keeps the message sound and loses no object keeps the rest. *)
LEMMA CallKeeps ==
  ASSUME Inv, calls < MaxCalls, NEW msg, Call(msg), UNCHANGED deleted,
         Sound(msg, Loose), Len(m.objects) <= Len(msg.objects)
  PROVE  Inv'
<1>1. DOMAIN m.objects = 1..Len(m.objects) /\ Len(m.objects) \in Nat /\ DOMAIN msg.objects = 1..Len(msg.objects) /\ Len(msg.objects) \in Nat
  BY TypedParts DEF Inv, Sound
<1>2. m' = msg /\ focus' = focus /\ calls' = calls + 1 /\ deleted' = deleted
  BY DEF Call
<1>3. focus' \in DOMAIN msg.objects /\ calls' \in 0..MaxCalls /\ deleted' \in BOOLEAN
  BY <1>1, <1>2, MessagesAssumption DEF Inv
<1>4. Loose' = Loose
  BY <1>2 DEF Loose
<1> QED  BY <1>2, <1>3, <1>4, Zenon DEF Inv

(* Every call keeps the message sound. *)
LEMMA InvNext == Inv /\ [Next]_vars => Inv'
<1> SUFFICES ASSUME Inv, [Next]_vars PROVE Inv'
  OBVIOUS
<1>1. /\ Sound(m, Loose) /\ Typed(m)
      /\ DOMAIN m.objects = 1..Len(m.objects) /\ Len(m.objects) \in Nat \ {0}
      /\ focus \in DOMAIN m.objects /\ calls \in 0..MaxCalls /\ deleted \in BOOLEAN
  BY TypedParts DEF Inv, Sound
<1>2. CASE Descend
  <2>1. PICK row \in ChildRows(m.objects[focus].class) :
          m' = Create(m, focus, row) /\ focus' = Len(m'.objects)
    BY <1>2 DEF Descend
  <2>2. row \in Writes[m.objects[focus].class] /\ ~IsValue(row)
    BY <2>1 DEF ChildRows
  <2>3. Sound(m', Loose) /\ Created(m, focus, row, m')
    BY <1>1, <2>1, <2>2, CreateSound
  <2>4. focus' \in DOMAIN m'.objects
    BY <2>1, <2>3, TypedParts DEF Sound
  <2>5. calls' = calls /\ deleted' = deleted /\ Loose' = Loose
    BY <1>2 DEF Descend, Loose
  <2> QED  BY <1>1, <2>3, <2>4, <2>5, Zenon DEF Inv
<1>3. ASSUME calls < MaxCalls, UNCHANGED deleted, NEW o \in Below(m, focus),
             Set(o) \/ MakeChild(o) \/ List(o) \/ AddTrigger(o) \/ ChangeTrigger(o) \/ SetSPI(o)
      PROVE  Inv'
  <2>1. o \in 1..Len(m.objects)
    BY <1>1, <1>3 DEF Below
  <2>2. \A msg : Call(msg) /\ Sound(msg, Loose) /\ Len(m.objects) <= Len(msg.objects) => Inv'
    BY <1>3, CallKeeps
  <2>3. CASE Set(o)
    <3>1. PICK row \in ValueRows(m.objects[o].class), v \in Values : Call(SetValue(m, o, row, v))
      BY <2>3 DEF Set
    <3>2. row \in Writes[m.objects[o].class] /\ IsValue(row) /\ v \in Int /\ v # Unset
      BY MessagesAssumption DEF ValueRows, Unset
    <3>3. Sound(SetValue(m, o, row, v), Loose) /\ ValueIsSet(m, o, row, v, SetValue(m, o, row, v))
      BY <1>1, <2>1, <3>2, SetValueSound
    <3>4. Len(m.objects) <= Len(SetValue(m, o, row, v).objects)
      BY <1>1, <3>3 DEF ValueIsSet, ChangedOnly
    <3> QED  BY <2>2, <3>1, <3>3, <3>4
  <2>4. CASE MakeChild(o)
    <3>1. PICK row \in ChildRows(m.objects[o].class) : Call(Create(m, o, row))
      BY <2>4 DEF MakeChild
    <3>2. row \in Writes[m.objects[o].class] /\ ~IsValue(row)
      BY DEF ChildRows
    <3>3. Sound(Create(m, o, row), Loose) /\ Created(m, o, row, Create(m, o, row))
      BY <1>1, <2>1, <3>2, CreateSound
    <3>4. Len(m.objects) <= Len(Create(m, o, row).objects)
      BY <1>1, <3>3 DEF Created
    <3> QED  BY <2>2, <3>1, <3>3, <3>4
  <2>5. CASE List(o)
    <3>1. /\ m.objects[o].class = "MSCC"
          /\ \E v \in Values : \E index \in 0..Len(m.objects[o].lists["ServiceIdentifier"]) :
               Call(SetServiceIdentifier(m, o, v, index))
      BY <2>5 DEF List
    <3>2. PICK v \in Values, index \in 0..Len(m.objects[o].lists["ServiceIdentifier"]) :
            Call(SetServiceIdentifier(m, o, v, index))
      BY <3>1
    <3>3. v \in Int
      BY MessagesAssumption
    <3>4. Sound(SetServiceIdentifier(m, o, v, index), Loose) /\ Len(SetServiceIdentifier(m, o, v, index).objects) = Len(m.objects)
      BY <1>1, <2>1, <3>1, <3>3, SetServiceSound DEF ListIsSet
    <3> QED  BY <1>1, <2>2, <3>2, <3>4
  <2>6. CASE AddTrigger(o)
    <3>1. PICK t \in Values : m.objects[o].class = "MSCC" /\ Call(AddTriggerType(m, o, t))
      BY <2>6 DEF AddTrigger
    <3>2. t \in Int
      BY MessagesAssumption
    <3>3. Sound(AddTriggerType(m, o, t), Loose) /\ Len(m.objects) <= Len(AddTriggerType(m, o, t).objects)
      BY <1>1, <2>1, <3>1, <3>2, AddTriggerSound
    <3> QED  BY <2>2, <3>1, <3>3
  <2>7. CASE ChangeTrigger(o)
    <3> DEFINE types == m.objects[o].lists["TriggerTypes"]
    <3>1. PICK t \in Values, i \in DOMAIN types :
            m.objects[o].class = "MSCC" /\ (\A j \in DOMAIN types : types[j] # t) /\ Call(SetTriggerType(m, o, i - 1, t))
      BY <2>7 DEF ChangeTrigger
    <3>2. t \in Int
      BY MessagesAssumption
    <3>3. Sound(SetTriggerType(m, o, i - 1, t), Loose) /\ Len(SetTriggerType(m, o, i - 1, t).objects) = Len(m.objects)
      BY <1>1, <2>1, <3>1, <3>2, SetTriggerSound
    <3> QED  BY <1>1, <2>2, <3>1, <3>3
  <2>8. CASE SetSPI(o)
    <3>1. PICK type \in Int, v \in Int : m.objects[o].class = "SPI" /\ Call(SetParameter(m, o, type, v))
      BY <2>8, MessagesAssumption DEF SetSPI
    <3>2. m.objects[o].class = "SPI"
      BY <3>1
    <3>3. Sound(SetParameter(m, o, type, v), Loose) /\ Len(SetParameter(m, o, type, v).objects) = Len(m.objects)
      BY <1>1, <2>1, <3>2, SetParameterSound DEF ParameterIsSet
    <3> QED  BY <1>1, <2>2, <3>1, <3>3
  <2> QED  BY <1>3, <2>3, <2>4, <2>5, <2>6, <2>7, <2>8
<1>4. CASE calls < MaxCalls /\ Delete /\ deleted' = TRUE
  <2>1. PICK index \in -1..Len(m.objects[1].kids["MSCC"]) - 1 : Call(DeleteMSCC(m, index))
    BY <1>4 DEF Delete
  <2>2. Sound(m', {"MSCC"}) /\ Len(m'.objects) = Len(m.objects)
    BY <1>1, <2>1, DeleteSound DEF Call, Loose
  <2>3. focus' \in DOMAIN m'.objects /\ calls' \in 0..MaxCalls
    BY <1>1, <1>4, <2>1, <2>2, TypedParts, MessagesAssumption DEF Call, Sound
  <2>4. Loose' = {"MSCC"} /\ deleted' \in BOOLEAN
    BY <1>4 DEF Loose
  <2> QED  BY <2>2, <2>3, <2>4, Zenon DEF Inv
<1>5. CASE UNCHANGED vars
  <2>1. m' = m /\ focus' = focus /\ calls' = calls /\ deleted' = deleted /\ Loose' = Loose
    BY <1>5 DEF vars, Loose
  <2> QED  BY <1>1, <2>1, Zenon DEF Inv
<1> QED  BY <1>2, <1>3, <1>4, <1>5 DEF Next

(* The decoder accepts every message that can be built, for all values and *)
(* any number of calls.                                                    *)
THEOREM MessagesDecodable == Spec => []Decodable
<1>1. Inv => Decodable
  <2> SUFFICES ASSUME Inv PROVE Decodable
    OBVIOUS
  <2>1. IsHeap(m.heap) /\ Len(m.heap) > 0
    BY TypedParts DEF Inv, Sound, Typed
  <2> QED  BY <2>1, EncodedDecodes DEF Decodable
<1> QED  BY <1>1, InvInit, InvNext, PTL DEF Spec

(* Every object of a message has its node, every pointer a node it points  *)
(* to, and every AVP is filed under its own code.                          *)
THEOREM MessagesTypeCorrect == Spec => []TypeOK
<1>1. Inv => TypeOK
  <2> SUFFICES ASSUME Inv PROVE TypeOK
    OBVIOUS
  <2>1. Typed(m) /\ focus \in DOMAIN m.objects /\ calls \in 0..MaxCalls /\ deleted \in BOOLEAN
    BY DEF Inv, Sound
  <2>2. Len(m.objects) = Len(m.heap) /\ DOMAIN m.heap = 1..Len(m.objects) /\ Len(m.objects) \in Nat
    BY <2>1, TypedParts
  <2>3. ASSUME NEW o \in DOMAIN m.heap, NEW c \in DOMAIN m.heap[o]
        PROVE  /\ m.heap[o][c].code = c
               /\ m.heap[o][c].type = "GROUPED" => m.heap[o][c].node \in DOMAIN m.heap
               /\ \A i \in DOMAIN m.heap[o][c].items : m.heap[o][c].items[i].code = c
    <3>1. PICK last \in Nat : last = Len(m.objects)
      BY <2>2
    <3>2. PICK node : node = m.heap[o]
      OBVIOUS
    <3>3. PICK avp : avp = node[c]
      OBVIOUS
    <3>4. ShapedNode(node, o, last)
      BY <2>1, <2>2, <2>3, <3>1, <3>2, TypedParts
    <3>5. avp \in AVP /\ avp.code = c /\ \A i \in 1..Len(avp.items) : avp.items[i].code = c
      BY <2>3, <3>2, <3>3, <3>4 DEF ShapedNode, IsNode
    <3>6. avp.items = << >> \/ avp.items \in Seq(Leaf)
      BY <3>5 DEF AVP, Leaf, SetOfLeaves
    <3>7. DOMAIN avp.items = 1..Len(avp.items)
      BY <3>6
    <3>8. avp.type = "GROUPED" => avp.node \in o + 1 .. last
      <4> SUFFICES ASSUME avp.type = "GROUPED" PROVE avp.node \in o + 1 .. last
        OBVIOUS
      <4>1. Members(avp) = <<avp>>
        BY DEF Members
      <4>2. 1 \in 1..Len(<<avp>>) /\ <<avp>>[1] = avp
        OBVIOUS
      <4>3. Shaped(o, last, avp)
        BY <2>3, <3>2, <3>3, <3>4, <4>1, <4>2 DEF ShapedNode
      <4> QED  BY <4>3 DEF Shaped
    <3>9. avp.type = "GROUPED" => avp.node \in DOMAIN m.heap
      BY <2>2, <2>3, <3>1, <3>8
    <3> QED  BY <3>2, <3>3, <3>5, <3>7, <3>9
  <2> QED  BY <2>1, <2>2, <2>3 DEF TypeOK
<1> QED  BY <1>1, InvInit, InvNext, PTL DEF Spec

----------------------------------------------------------------------------
(* Reading.                                                                *)

(* The row a reader has for a name is the one of that name. *)
LEMMA ReadRowIs ==
  ASSUME NEW k \in DOMAIN Writes, NEW r \in Reads[k]
  PROVE  ReadRow(k, r.name) = r
<1>1. \A s \in Reads[k] : s.name = r.name => s = r
  BY ReadsAreDifferent DEF ReadsDiffer
<1> QED  BY <1>1 DEF ReadRow

(* The first AVP found of a code is the first one filed. *)
GotFirst(filed, got) ==
  IF filed = << >> THEN got = << >>
  ELSE got # << >> /\ got = <<got[1]>> /\ Alike(filed[1], got[1])

(* The reader finds the first AVP of a code where it was filed. *)
LEMMA GotFirstIs ==
  ASSUME NEW heap, NEW n \in DOMAIN heap, IsNode(heap[n]), n = 1 \/ 263 \notin DOMAIN heap[n], NEW c
  PROVE  GotFirst(Filed(heap[n], c), GetAVPData(EncodeAVPs(heap)[n], c))
<1>1. PICK filed : filed = Filed(heap[n], c)
  OBVIOUS
<1>2. PICK found : found = AllAVPData(EncodeAVPs(heap)[n], c)
  OBVIOUS
<1>3. AllAlike(filed, found) /\ \E Y : found \in Seq(Y)
  BY <1>1, <1>2, EncodedFound
<1>4. PICK Y : found \in Seq(Y)
  BY <1>3
<1>5. filed \in Seq(Leaf)
  BY <1>1, MembersAreLeaves DEF Filed
<1>6. GetAVPData(EncodeAVPs(heap)[n], c) = IF found = << >> THEN << >> ELSE <<found[1]>>
  BY <1>2 DEF GetAVPData
<1>7. Len(filed) = Len(found)
  BY <1>3 DEF AllAlike
<1>8. CASE filed = << >>
  <2>1. found = << >>
    BY <1>4, <1>7, <1>8
  <2> QED  BY <1>1, <1>6, <1>8, <2>1 DEF GotFirst
<1>9. CASE filed # << >>
  <2>1. found # << >> /\ 1 \in 1..Len(filed)
    BY <1>4, <1>5, <1>7, <1>9
  <2>2. Alike(filed[1], found[1])
    BY <1>3, <2>1 DEF AllAlike
  <2>3. PICK avp : avp = found[1]
    OBVIOUS
  <2>4. GetAVPData(EncodeAVPs(heap)[n], c) = <<avp>>
    BY <1>6, <2>1, <2>3
  <2>5. <<avp>> # << >> /\ <<avp>>[1] = avp
    OBVIOUS
  <2> QED  BY <1>1, <1>9, <2>2, <2>3, <2>4, <2>5, Zenon DEF GotFirst
<1> QED  BY <1>8, <1>9

(* A number read in the layout it was written in. *)
LEMMA ReadAsWritten ==
  ASSUME NEW form \in Forms \ {"zone"}, NEW v
  PROVE  ReadAs(form, Layout(form, v)) = v
BY DEF ReadAs, Layout, Forms

(* A value that is held is read. *)
LEMMA ValueRead ==
  ASSUME NEW k \in DOMAIN Writes, NEW object, object.class = k, NEW node,
         NEW w \in Writes[k], IsValue(w), ValueHeld(object, w, node), ~Spoils(object, w.name),
         NEW avps, \A c : GotFirst(Filed(node, c), GetAVPData(avps, c)),
         NEW initial, w.code \notin DOMAIN node => initial = object.vals[w.name]
  PROVE  ReadValue(ReadRow(k, w.name), avps, initial) = object.vals[w.name]
<1>1. w.name \notin Lost
  BY DEF Spoils, Lost
<1>2. w.form \in Forms \ {"zone"} /\ Read(w.name, w.code, w.form) \in Reads[k]
  BY <1>1, ValuesAreAgreed DEF ValuesAgree
<1>3. PICK row : row = Read(w.name, w.code, w.form)
  OBVIOUS
<1>4. row.name = w.name /\ row.code = w.code /\ row.form = w.form
  BY <1>3 DEF Read
<1>5. ReadRow(k, w.name) = row
  BY <1>2, <1>3, <1>4, ReadRowIs
<1>6. PICK avp : avp = GetAVPData(avps, w.code)
  OBVIOUS
<1>7. row.form # "parameter" /\ row.form # "hidden"
  BY <1>2, <1>4 DEF Forms
<1>8. ReadValue(row, avps, initial) = IF avp = << >> THEN initial ELSE ReadAs(row.form, avp[1].data)
  <2>1. CASE avp = << >>
    BY <1>4, <1>6, <1>7, <2>1 DEF ReadValue
  <2>2. CASE avp # << >>
    BY <1>4, <1>6, <1>7, <2>2 DEF ReadValue
  <2> QED  BY <2>1, <2>2
<1>9. GotFirst(Filed(node, w.code), avp)
  BY <1>6
<1>10. CASE w.code \notin DOMAIN node
  <2>1. object.vals[w.name] = initial
    BY <1>10
  <2>2. avp = << >>
    BY <1>9, <1>10 DEF GotFirst, Filed
  <2> QED  BY <1>5, <1>8, <2>1, <2>2
<1>11. CASE w.code \in DOMAIN node
  <2>1. PICK data : data = Layout(w.form, object.vals[w.name])
    OBVIOUS
  <2>2. node[w.code] = Basic(w.code, w.vendor, data)
    BY <1>11, <2>1 DEF ValueHeld
  <2>3. PICK leaf : leaf = Basic(w.code, w.vendor, data)
    OBVIOUS
  <2>4. leaf.type # "GROUPEDSET" /\ leaf.data = data
    BY <2>3 DEF Basic
  <2>5. Filed(node, w.code) = <<leaf>>
    BY <1>11, <2>2, <2>3, <2>4 DEF Filed, Members
  <2>6. <<leaf>> # << >> /\ <<leaf>>[1] = leaf
    OBVIOUS
  <2>7. avp # << >> /\ avp[1].data = data
    BY <1>9, <2>4, <2>5, <2>6 DEF GotFirst, Alike
  <2>8. ReadAs(w.form, data) = object.vals[w.name]
    BY <1>2, <2>1, ReadAsWritten
  <2> QED  BY <1>4, <1>5, <1>8, <2>7, <2>8
<1> QED  BY <1>10, <1>11

(* The rows of a service parameter that a reader uses. *)
LEMMA ParameterRows ==
  /\ "SPI" \in DOMAIN Writes
  /\ ReadRow("SPI", "ServiceParameterInfoType") = Read("ServiceParameterInfoType", 441, "int")
  /\ ReadRow("SPI", "ServiceParameterInfoValue") = Read("ServiceParameterInfoValue", 442, "parameter")
<1>1. "SPI" \in DOMAIN Writes
  BY DEF Writes
<1>2. /\ Read("ServiceParameterInfoType", 441, "int") \in Reads["SPI"]
      /\ Read("ServiceParameterInfoValue", 442, "parameter") \in Reads["SPI"]
  BY DEF Reads, SPIReads
<1>3. /\ Read("ServiceParameterInfoType", 441, "int").name = "ServiceParameterInfoType"
      /\ Read("ServiceParameterInfoValue", 442, "parameter").name = "ServiceParameterInfoValue"
  BY DEF Read
<1> QED  BY <1>1, <1>2, <1>3, ReadRowIs

(* A service parameter is read as its type says. *)
LEMMA ParameterRead ==
  ASSUME NEW object, object.class = "SPI", NEW node, ParameterHeld(object, node),
         object.vals["ServiceParameterInfoType"] \in Int, object.vals["ServiceParameterInfoValue"] \in Int,
         NEW avps, \A c : GotFirst(Filed(node, c), GetAVPData(avps, c))
  PROVE  /\ ReadValue(ReadRow("SPI", "ServiceParameterInfoType"), avps, Undefined) =
              object.vals["ServiceParameterInfoType"]
         /\ \/ Spoils(object, "ServiceParameterInfoValue")
            \/ ReadValue(ReadRow("SPI", "ServiceParameterInfoValue"), avps, Unset) =
                 object.vals["ServiceParameterInfoValue"]
<1>1. PICK type \in Int : type = object.vals["ServiceParameterInfoType"]
  OBVIOUS
<1>2. PICK v \in Int : v = object.vals["ServiceParameterInfoValue"]
  OBVIOUS
<1>3. PICK got : got = GetAVPData(avps, 441)
  OBVIOUS
<1>4. PICK avp : avp = GetAVPData(avps, 442)
  OBVIOUS
<1>5. ReadValue(ReadRow("SPI", "ServiceParameterInfoType"), avps, Undefined) =
        IF got = << >> THEN Undefined ELSE ReadAs("int", got[1].data)
  <2>1. PICK row : row = Read("ServiceParameterInfoType", 441, "int")
    OBVIOUS
  <2>2. row.code = 441 /\ row.form = "int"
    BY <2>1 DEF Read
  <2>3. CASE got = << >>
    BY <1>3, <2>1, <2>2, <2>3, ParameterRows DEF ReadValue
  <2>4. CASE got # << >>
    BY <1>3, <2>1, <2>2, <2>4, ParameterRows DEF ReadValue
  <2> QED  BY <2>3, <2>4
<1>6. ReadValue(ReadRow("SPI", "ServiceParameterInfoValue"), avps, Unset) =
        IF avp = << >> THEN Unset ELSE ReadParameter(got[1].data.value, avp[1].data)
  <2>1. PICK row : row = Read("ServiceParameterInfoValue", 442, "parameter")
    OBVIOUS
  <2>2. row.code = 442 /\ row.form = "parameter"
    BY <2>1 DEF Read
  <2>3. CASE avp = << >>
    BY <1>4, <2>1, <2>2, <2>3, ParameterRows DEF ReadValue
  <2>4. CASE avp # << >>
    BY <1>3, <1>4, <2>1, <2>2, <2>4, ParameterRows DEF ReadValue
  <2> QED  BY <2>3, <2>4
<1>7. GotFirst(Filed(node, 441), got) /\ GotFirst(Filed(node, 442), avp)
  BY <1>3, <1>4
<1>8. CASE 442 \notin DOMAIN node
  <2>1. 441 \notin DOMAIN node /\ type = Undefined /\ v = Unset
    BY <1>1, <1>2, <1>8 DEF ParameterHeld
  <2>2. got = << >> /\ avp = << >>
    BY <1>7, <1>8, <2>1 DEF GotFirst, Filed
  <2> QED  BY <1>1, <1>2, <1>5, <1>6, <2>1, <2>2
<1>9. CASE 442 \in DOMAIN node
  <2>1. PICK form : form = ParameterForm(type)
    OBVIOUS
  <2>2. PICK data : data = Layout(form, v)
    OBVIOUS
  <2>3. PICK number : number = Layout("int", type)
    OBVIOUS
  <2>4. 441 \in DOMAIN node /\ node[441] = Basic(441, Plain, number) /\ node[442] = Basic(442, Plain, data)
    BY <1>1, <1>2, <1>9, <2>1, <2>2, <2>3 DEF ParameterHeld, IntAVP
  <2>5. ASSUME NEW c, NEW what, NEW got1, c \in DOMAIN node, node[c] = Basic(c, Plain, what), GotFirst(Filed(node, c), got1)
        PROVE  got1 # << >> /\ got1[1].data = what
    <3>1. PICK leaf : leaf = Basic(c, Plain, what)
      OBVIOUS
    <3>2. leaf.type # "GROUPEDSET" /\ leaf.data = what
      BY <3>1 DEF Basic
    <3>3. Filed(node, c) = <<leaf>>
      BY <2>5, <3>1, <3>2 DEF Filed, Members
    <3>4. <<leaf>> # << >> /\ <<leaf>>[1] = leaf
      OBVIOUS
    <3> QED  BY <2>5, <3>2, <3>3, <3>4 DEF GotFirst, Alike
  <2>6. got # << >> /\ got[1].data = number
    BY <1>7, <2>4, <2>5
  <2>7. avp # << >> /\ avp[1].data = data
    BY <1>7, <1>9, <2>4, <2>5
  <2>8. number.form = "int" /\ number.value = type
    BY <2>3 DEF Layout
  <2>9. ReadValue(ReadRow("SPI", "ServiceParameterInfoType"), avps, Undefined) = type
    BY <1>5, <2>6, <2>8 DEF ReadAs
  <2>10. ReadValue(ReadRow("SPI", "ServiceParameterInfoValue"), avps, Unset) = ReadParameter(type, data)
    BY <1>6, <2>6, <2>7, <2>8
  <2>11. data.form = form /\ (form # "zone" => data.value = v) /\ data.size = Size(form, v)
    BY <2>2 DEF Layout
  <2>12. CASE type < 200
    <3>1. form = "int"
      BY <2>1, <2>12 DEF ParameterForm
    <3>2. ReadParameter(type, data) = v
      BY <2>11, <2>12, <3>1 DEF ReadParameter, ReadAs
    <3> QED  BY <1>1, <1>2, <2>9, <2>10, <3>2
  <2>13. CASE type >= 200 /\ type < 400 /\ data.size % 4 # 0
    <3>1. form = "text"
      BY <2>1, <2>13 DEF ParameterForm
    <3>2. ReadParameter(type, data) = v
      BY <2>11, <2>13, <3>1 DEF ReadParameter, ReadAs
    <3> QED  BY <1>1, <1>2, <2>9, <2>10, <3>2
  <2>14. CASE type >= 200 /\ type < 400 /\ data.size % 4 = 0
    <3>1. form = "text"
      BY <2>1, <2>14 DEF ParameterForm
    <3>2. Spoils(object, "ServiceParameterInfoValue")
      BY <1>1, <1>2, <2>11, <2>14, <3>1 DEF Spoils
    <3> QED  BY <1>1, <2>9, <3>2
  <2>15. CASE type >= 400
    <3>1. Spoils(object, "ServiceParameterInfoValue")
      BY <1>1, <2>15 DEF Spoils
    <3> QED  BY <1>1, <2>9, <3>1
  <2> QED  BY <2>12, <2>13, <2>14, <2>15
<1> QED  BY <1>8, <1>9

(* Octets that were written for a node. *)
Stands(node, avps) ==
  \A c : /\ GotFirst(Filed(node, c), GetAVPData(avps, c))
         /\ AllAlike(Filed(node, c), AllAVPData(avps, c))
         /\ \E Y : AllAVPData(avps, c) \in Seq(Y)

(* What is filed in a node stands in its octets. *)
LEMMA EncodedStands ==
  ASSUME NEW heap, NEW n \in DOMAIN heap, IsNode(heap[n]), n = 1 \/ 263 \notin DOMAIN heap[n]
  PROVE  Stands(heap[n], EncodeAVPs(heap)[n])
BY GotFirstIs, EncodedFound DEF Stands

(* A name of a value that is not lost is one both sides have. *)
LEMMA ValuesNamed ==
  ASSUME NEW k \in DOMAIN Writes, NEW n \in ValueNames(k), n \notin Lost
  PROVE  /\ \E r \in Reads[k] : r.name = n /\ IsValue(r)
         /\ IF k = "SPI" THEN n \in {"ServiceParameterInfoType", "ServiceParameterInfoValue"}
            ELSE \E w \in Writes[k] : w.name = n /\ IsValue(w)
<1>1. CASE \E w \in Writes[k] : w.name = n /\ IsValue(w)
  <2>1. PICK w \in Writes[k] : w.name = n /\ IsValue(w)
    BY <1>1
  <2>2. Read(w.name, w.code, w.form) \in Reads[k]
    BY <2>1, ValuesAreAgreed DEF ValuesAgree
  <2>3. Read(w.name, w.code, w.form).name = n /\ IsValue(Read(w.name, w.code, w.form))
    BY <2>1 DEF Read, IsValue
  <2>4. k # "SPI"
    BY ParameterNames
  <2> QED  BY <2>1, <2>2, <2>3, <2>4
<1>2. CASE ~\E w \in Writes[k] : w.name = n /\ IsValue(w)
  <2>1. n \notin ListNames(k) /\ \E r \in Writes[k] \cup Reads[k] : IsValue(r) /\ r.name = n
    BY DEF ValueNames
  <2>2. PICK r \in Reads[k] : IsValue(r) /\ r.name = n
    BY <1>2, <2>1
  <2>3. r.form \notin {"ints", "triggers"}
    BY <2>1, <2>2 DEF ListNames
  <2>4. CASE k = "SPI"
    <3>1. n \in {"ServiceParameterInfoType", "ServiceParameterInfoValue"}
      BY <2>2, <2>4 DEF Reads, SPIReads, Read
    <3> QED  BY <2>2, <2>4, <3>1
  <2>5. CASE k # "SPI"
    <3>1. PICK vendor : Value(r.name, r.code, vendor, r.form) \in Writes[k]
      BY <2>2, <2>3, <2>5, ValuesAreAgreed DEF ValuesAgree
    <3>2. Value(r.name, r.code, vendor, r.form).name = n /\ IsValue(Value(r.name, r.code, vendor, r.form))
      BY <2>2 DEF Value, IsValue
    <3> QED  BY <1>2, <3>1, <3>2
  <2> QED  BY <2>4, <2>5
<1> QED  BY <1>1, <1>2

(* Every value that is not lost is read. *)
LEMMA ValuesRead ==
  ASSUME NEW k \in DOMAIN Writes, NEW object \in ObjectsOf(k), NEW node, NEW loose, Holds(object, node, loose),
         NEW avps, Stands(node, avps), NEW n \in ValueNames(k)
  PROVE  Loses(object, n) \/ ReadValue(ReadRow(k, n), avps, Initial(ReadWithout, k, n)) = object.vals[n]
<1> DEFINE initial == Initial(ReadWithout, k, n)
<1> SUFFICES ASSUME ~Loses(object, n) PROVE ReadValue(ReadRow(k, n), avps, initial) = object.vals[n]
  OBVIOUS
<1>0. ~Spoils(object, n) /\ ~Forgotten(object, n)
  BY DEF Loses
<1>1. n \notin Lost
  BY <1>0 DEF Spoils, Lost
<1>2. object.class = k /\ \A c : GotFirst(Filed(node, c), GetAVPData(avps, c))
  BY DEF ObjectsOf, Stands
<1>3. CASE k = "SPI"
  <2>1. n \in {"ServiceParameterInfoType", "ServiceParameterInfoValue"}
    BY <1>1, <1>3, ValuesNamed
  <2>2. object.vals["ServiceParameterInfoType"] \in Int /\ object.vals["ServiceParameterInfoValue"] \in Int
    BY <1>3, ParameterNames DEF ObjectsOf
  <2>3. ParameterHeld(object, node)
    BY <1>2, <1>3 DEF Holds
  <2>4. initial = IF n = "ServiceParameterInfoType" THEN Undefined ELSE Unset
    BY <1>3, <2>1 DEF Initial, ReadWithout
  <2> HIDE DEF initial
  <2> QED  BY <1>0, <1>2, <1>3, <2>1, <2>2, <2>3, <2>4, ParameterRead
<1>4. CASE k # "SPI"
  <2>1. PICK w \in Writes[k] : w.name = n /\ IsValue(w)
    BY <1>1, <1>4, ValuesNamed
  <2>2. ValueHeld(object, w, node)
    BY <1>2, <2>1 DEF Holds, RowsHeld, RowHeld
  <2>3. ASSUME w.code \notin DOMAIN node PROVE initial = object.vals[n]
    <3>1. object.vals[n] = Initial(MadeWithout, k, n)
      <4>1. object.vals[w.name] = Initial(MadeWithout, object.class, w.name)
        BY <1>0, <2>1, <2>2, <2>3, Zenon DEF ValueHeld
      <4> QED  BY <1>2, <2>1, <4>1
    <3>2. n \in DOMAIN object.vals
      BY DEF ObjectsOf
    <3>3. object.vals[n] \in {Unset, Undefined}
      BY <3>1 DEF Initial
    <3>4. <<k, n>> \notin MadeWithout /\ <<k, n>> \notin ReadWithout
      BY <1>0, <1>2, <3>2, <3>3 DEF Forgotten
    <3> QED  BY <3>1, <3>4 DEF Initial
  <2> HIDE DEF initial
  <2> QED  BY <1>0, <1>2, <2>1, <2>2, <2>3, ValueRead
<1> QED  BY <1>3, <1>4

(* A name of a child that is not lost is not one of a value. *)
LEMMA ChildrenNamed ==
  ASSUME NEW k \in DOMAIN Writes, NEW object, NEW w \in Writes[k], ~IsValue(w), ~Spoils(object, w.name)
  PROVE  w.name \notin ValueNames(k)
<1> SUFFICES ASSUME w.name \in ValueNames(k) PROVE FALSE
  OBVIOUS
<1>1. w.name \notin Lost
  BY DEF Spoils, Lost
<1>2. PICK r \in Reads[k] : r.name = w.name /\ IsValue(r)
  BY <1>1, ValuesNamed
<1>3. CASE w.rule = "set"
  <2>1. All(w.name, w.code, w.class) \in Reads[k]
    BY <1>1, <1>3, ChildrenAreAgreed DEF ChildrenAgree
  <2>2. All(w.name, w.code, w.class).name = w.name /\ All(w.name, w.code, w.class).class = w.class
    BY DEF All
  <2> QED  BY <1>2, <2>1, <2>2, ReadsAreDifferent DEF ReadsDiffer, IsValue
<1>4. CASE w.rule # "set"
  <2>1. First(w.name, w.code, w.class) \in Reads[k]
    BY <1>1, <1>4, ChildrenAreAgreed DEF ChildrenAgree
  <2>2. First(w.name, w.code, w.class).name = w.name /\ First(w.name, w.code, w.class).class = w.class
    BY DEF First
  <2> QED  BY <1>2, <2>1, <2>2, ReadsAreDifferent DEF ReadsDiffer, IsValue
<1> QED  BY <1>3, <1>4

(* No child, unless one was made. *)
KidsDefault(object, n, initial) == object.kids[n] = << >> => initial = << >>

(* A child that is not lost is read, and as what it is. *)
LEMMA KidsRead ==
  ASSUME NEW k \in DOMAIN Writes, NEW object \in ObjectsOf(k), NEW node,
         NEW w \in Writes[k], ~IsValue(w), RowHeld(object, w, node, {}), ~Spoils(object, w.name),
         NEW avps, Stands(node, avps), NEW initial, KidsDefault(object, w.name, initial)
  PROVE  /\ \E r \in Reads[k] : r.name = w.name /\ ~IsValue(r)
         /\ ReadRow(k, w.name).class = w.class
         /\ ReadKids(ReadRow(k, w.name), avps, initial) = object.kids[w.name]
<1>1. w.name \notin Lost
  BY DEF Spoils, Lost
<1>2. w.class # "none"
  BY DEF IsValue
<1>3. w.name \in ChildNames(k)
  BY RowNames
<1>4. PICK kids \in Seq(Nat) : kids = object.kids[w.name]
  BY <1>3 DEF ObjectsOf
<1>5. CASE w.rule = "set"
  <2>1. PICK row \in Reads[k] : row = All(w.name, w.code, w.class)
    BY <1>1, <1>5, ChildrenAreAgreed DEF ChildrenAgree
  <2>2. row.name = w.name /\ row.code = w.code /\ row.class = w.class /\ row.rule = "all"
    BY <2>1 DEF All
  <2>3. ReadRow(k, w.name) = row
    BY <2>1, <2>2, ReadRowIs
  <2>4. PICK found : found = AllAVPData(avps, w.code)
    OBVIOUS
  <2>5. ReadKids(row, avps, initial) = IF found = << >> THEN initial ELSE [i \in DOMAIN found |-> found[i].sub]
    BY <2>2, <2>4 DEF ReadKids
  <2>6. w.code \in DOMAIN node /\ node[w.code] = GroupedSet(w.code, ChildAVPs(w, kids))
    BY <1>4, <1>5 DEF RowHeld, SetHeld
  <2>7. Filed(node, w.code) = ChildAVPs(w, kids)
    BY <2>6 DEF Filed, Members, GroupedSet
  <2>8. PICK filed : filed = ChildAVPs(w, kids)
    OBVIOUS
  <2>9. Len(filed) = Len(kids) /\ \A i \in 1..Len(kids) : filed[i].node = kids[i]
    BY <2>8 DEF ChildAVPs, Grouped
  <2>10. AllAlike(filed, found) /\ \E Y : found \in Seq(Y)
    BY <2>4, <2>7, <2>8 DEF Stands
  <2>11. DOMAIN found = 1..Len(kids) /\ \A i \in 1..Len(kids) : found[i].sub = kids[i]
    BY <2>9, <2>10 DEF AllAlike, Alike
  <2>12. [i \in DOMAIN found |-> found[i].sub] = kids
    BY <2>11
  <2>13. ASSUME found = << >> PROVE initial = kids
    <3>1. [i \in DOMAIN found |-> found[i].sub] = << >>
      BY <2>13
    <3>2. object.kids[w.name] = << >>
      BY <1>4, <2>12, <3>1
    <3>3. initial = << >>
      BY <3>2 DEF KidsDefault
    <3> QED  BY <1>4, <3>2, <3>3
  <2>14. ReadKids(row, avps, initial) = kids
    BY <2>5, <2>12, <2>13
  <2> QED  BY <1>2, <1>4, <2>1, <2>2, <2>3, <2>14 DEF IsValue
<1>6. CASE w.rule # "set"
  <2>1. PICK row \in Reads[k] : row = First(w.name, w.code, w.class)
    BY <1>1, <1>6, ChildrenAreAgreed DEF ChildrenAgree
  <2>2. row.name = w.name /\ row.code = w.code /\ row.class = w.class /\ row.rule = "first"
    BY <2>1 DEF First
  <2>3. ReadRow(k, w.name) = row
    BY <2>1, <2>2, ReadRowIs
  <2>4. PICK got : got = GetAVPData(avps, w.code)
    OBVIOUS
  <2>5. ReadKids(row, avps, initial) = IF got = << >> THEN initial ELSE [i \in DOMAIN got |-> got[i].sub]
    BY <2>2, <2>4 DEF ReadKids
  <2>6. GotFirst(Filed(node, w.code), got)
    BY <2>4 DEF Stands
  <2>7. ChildHeld(object, w, node)
    BY <1>6 DEF RowHeld
  <2>8. CASE w.code \notin DOMAIN node
    <3>1. kids = << >>
      BY <1>4, <2>7, <2>8 DEF ChildHeld
    <3>2. got = << >>
      BY <2>6, <2>8 DEF GotFirst, Filed
    <3>3. ReadKids(row, avps, initial) = kids
      BY <1>4, <2>5, <3>1, <3>2 DEF KidsDefault
    <3> QED  BY <1>2, <1>4, <2>1, <2>2, <2>3, <3>3 DEF IsValue
  <2>9. CASE w.code \in DOMAIN node
    <3>1. PICK id \in Nat : kids = <<id>> /\ node[w.code] = Grouped(w.code, w.vendor, id)
      BY <1>4, <2>7, <2>9 DEF ChildHeld
    <3>2. PICK avp : avp = Grouped(w.code, w.vendor, id)
      OBVIOUS
    <3>3. avp.type # "GROUPEDSET" /\ avp.node = id
      BY <3>2 DEF Grouped
    <3>4. Filed(node, w.code) = <<avp>>
      BY <2>9, <3>1, <3>2, <3>3 DEF Filed, Members
    <3>5. <<avp>> # << >> /\ <<avp>>[1] = avp
      OBVIOUS
    <3>6. got = <<got[1]>> /\ got[1].sub = id
      BY <2>6, <3>3, <3>4, <3>5 DEF GotFirst, Alike
    <3>7. [i \in DOMAIN got |-> got[i].sub] = <<id>> /\ got # << >>
      <4>1. [i \in DOMAIN got |-> got[i].sub] = <<id>>
        BY <3>6
      <4>2. PICK x : got = <<x>>
        BY <3>6
      <4>3. <<x>> # << >>
        OBVIOUS
      <4> QED  BY <4>1, <4>2, <4>3
    <3>8. ReadKids(row, avps, initial) = kids
      BY <2>5, <3>1, <3>7
    <3> QED  BY <1>2, <1>4, <2>1, <2>2, <2>3, <3>8 DEF IsValue
  <2> QED  BY <2>8, <2>9
<1> QED  BY <1>5, <1>6

(* The rows of the lists that a reader uses. *)
LEMMA ListRows ==
  /\ "MSCC" \in DOMAIN Writes /\ ListNames("MSCC") = {"ServiceIdentifier", "TriggerTypes"}
  /\ ReadRow("MSCC", "ServiceIdentifier") = Read("ServiceIdentifier", 439, "ints")
  /\ ReadRow("MSCC", "TriggerTypes") = Read("TriggerTypes", 1264, "triggers")
<1>1. "MSCC" \in DOMAIN Writes
  BY DEF Writes
<1>2. /\ Read("ServiceIdentifier", 439, "ints") \in Reads["MSCC"]
      /\ Read("TriggerTypes", 1264, "triggers") \in Reads["MSCC"]
  BY DEF Reads, MSCCReads
<1>3. /\ Read("ServiceIdentifier", 439, "ints").name = "ServiceIdentifier"
      /\ Read("TriggerTypes", 1264, "triggers").name = "TriggerTypes"
  BY DEF Read
<1>4. ListNames("MSCC") = {"ServiceIdentifier", "TriggerTypes"}
  BY <1>1, ListsAreOf DEF ListsOf
<1> QED  BY <1>1, <1>2, <1>3, <1>4, ReadRowIs

(* Numbers that stand in AVPs of their own, read again. *)
IntsRead(list, avps, found) ==
  (\A i \in DOMAIN list : avps[i].data = Layout("int", list[i])) => [i \in DOMAIN found |-> ReadAs("int", found[i].data)] = list

(* A list of numbers is read as it was written. *)
LEMMA IntsAreRead ==
  ASSUME NEW list \in Seq(Int), NEW avps, NEW found, AllAlike(avps, found), Len(avps) = Len(list), \E Y : found \in Seq(Y)
  PROVE  IntsRead(list, avps, found)
<1> SUFFICES ASSUME \A i \in DOMAIN list : avps[i].data = Layout("int", list[i])
             PROVE  [i \in DOMAIN found |-> ReadAs("int", found[i].data)] = list
  BY DEF IntsRead
<1>1. DOMAIN found = 1..Len(list) /\ DOMAIN list = 1..Len(list)
  <2>1. PICK Y : found \in Seq(Y)
    OBVIOUS
  <2>2. Len(found) = Len(list)
    BY DEF AllAlike
  <2> QED  BY <2>1, <2>2
<1>2. \A i \in 1..Len(list) : found[i].data = Layout("int", list[i])
  BY <1>1 DEF AllAlike, Alike
<1>3. "int" \in Forms \ {"zone"}
  BY DEF Forms
<1>4. \A v : ReadAs("int", Layout("int", v)) = v
  BY <1>3, ReadAsWritten
<1>5. \A i \in 1..Len(list) : ReadAs("int", found[i].data) = list[i]
  BY <1>2, <1>4
<1> QED  BY <1>1, <1>5

(* The service identifiers of an MSCC are read. *)
LEMMA ServicesRead ==
  ASSUME NEW object, NEW node, ServicesHeld(object, node), object.lists["ServiceIdentifier"] \in Seq(Int),
         NEW wire, NEW avps, Stands(node, avps)
  PROVE  ReadList(ReadRow("MSCC", "ServiceIdentifier"), wire, avps) = object.lists["ServiceIdentifier"]
<1>1. PICK list \in Seq(Int) : list = object.lists["ServiceIdentifier"]
  OBVIOUS
<1>2. PICK code : code = 439
  OBVIOUS
<1>3. PICK row : row = Read("ServiceIdentifier", code, "ints")
  OBVIOUS
<1>4. row.code = code /\ row.form = "ints"
  BY <1>3 DEF Read
<1>5. PICK found : found = AllAVPData(avps, code)
  OBVIOUS
<1>6. ReadRow("MSCC", "ServiceIdentifier") = row
  BY <1>2, <1>3, ListRows
<1>7. ReadList(row, wire, avps) = [i \in DOMAIN found |-> ReadAs("int", found[i].data)]
  BY <1>4, <1>5 DEF ReadList
<1>8. AllAlike(Filed(node, code), found) /\ \E Y : found \in Seq(Y)
  BY <1>5 DEF Stands
<1>9. CASE code \in DOMAIN node
  <2>1. node[code] = GroupedSet(code, ServiceAVPs(list))
    BY <1>1, <1>2, <1>9 DEF ServicesHeld
  <2>2. PICK filed : filed = ServiceAVPs(list)
    OBVIOUS
  <2>3. Filed(node, code) = filed
    BY <1>9, <2>1, <2>2 DEF Filed, Members, GroupedSet
  <2>4. Len(filed) = Len(list) /\ \A i \in DOMAIN list : filed[i].data = Layout("int", list[i])
    BY <2>2 DEF ServiceAVPs, IntAVP, Basic
  <2>5. IntsRead(list, filed, found)
    BY <1>8, <2>3, <2>4, IntsAreRead
  <2> QED  BY <1>1, <1>6, <1>7, <2>4, <2>5 DEF IntsRead
<1>10. CASE code \notin DOMAIN node
  <2>1. list = << >>
    BY <1>1, <1>2, <1>10 DEF ServicesHeld
  <2>2. Filed(node, code) = << >>
    BY <1>10 DEF Filed
  <2>3. found = << >>
    BY <1>8, <2>2 DEF AllAlike
  <2>4. [i \in DOMAIN found |-> ReadAs("int", found[i].data)] = << >>
    BY <2>3
  <2> QED  BY <1>1, <1>6, <1>7, <2>1, <2>4
<1> QED  BY <1>9, <1>10

(* The trigger types of an MSCC are read, from the node they are in. *)
LEMMA TriggersRead ==
  ASSUME NEW node, NEW list \in Seq(Int), NEW objects, NEW heap, TriggersHeld(node, list, objects, heap),
         NEW wire, NEW avps, Stands(node, avps), \A t \in DOMAIN objects : Stands(heap[t], wire[t])
  PROVE  ReadList(ReadRow("MSCC", "TriggerTypes"), wire, avps) = list
<1>1. PICK code : code = 1264
  OBVIOUS
<1>2. PICK row : row = Read("TriggerTypes", code, "triggers")
  OBVIOUS
<1>3. row.code = code /\ row.form = "triggers"
  BY <1>2 DEF Read
<1>4. ReadRow("MSCC", "TriggerTypes") = row
  BY <1>1, <1>2, ListRows
<1>5. PICK inner : inner = GetAVPData(avps, code)
  OBVIOUS
<1>6. PICK item : item = 870
  OBVIOUS
<1>7. PICK found : found = IF inner = << >> THEN << >> ELSE AllAVPData(wire[inner[1].sub], item)
  OBVIOUS
<1>8. ReadList(row, wire, avps) = [i \in DOMAIN found |-> ReadAs("int", found[i].data)]
  <2>1. row.form # "ints"
    BY <1>3
  <2> QED  BY <1>3, <1>5, <1>6, <1>7, <2>1 DEF ReadList
<1>9. GotFirst(Filed(node, code), inner)
  BY <1>5 DEF Stands
<1>10. CASE code \in DOMAIN node
  <2>1. PICK t : TriggersAt(t, node, list, objects, heap)
    BY <1>1, <1>10 DEF TriggersHeld
  <2>2. PICK avp : avp = Grouped(code, Vendor, t)
    OBVIOUS
  <2>3. avp.type # "GROUPEDSET" /\ avp.node = t
    BY <2>2 DEF Grouped
  <2>4. node[code] = avp /\ t \in DOMAIN objects /\ TriggersIn(heap[t], list)
    BY <1>1, <2>1, <2>2 DEF TriggersAt
  <2>5. Filed(node, code) = <<avp>>
    BY <1>10, <2>3, <2>4 DEF Filed, Members
  <2>6. <<avp>> # << >> /\ <<avp>>[1] = avp
    OBVIOUS
  <2>7. inner # << >> /\ inner[1].sub = t
    BY <1>9, <2>3, <2>5, <2>6 DEF GotFirst, Alike
  <2>8. found = AllAVPData(wire[t], item)
    BY <1>7, <2>7
  <2>9. AllAlike(Filed(heap[t], item), found) /\ \E Y : found \in Seq(Y)
    BY <2>4, <2>8 DEF Stands
  <2>10. PICK filed : filed = TriggerAVPs(list)
    OBVIOUS
  <2>11. PICK holder : holder = heap[t]
    OBVIOUS
  <2>12. item \in DOMAIN holder /\ holder[item] = GroupedSet(item, filed)
    <3>1. holder = [c \in {item} |-> GroupedSet(item, filed)]
      BY <1>6, <2>4, <2>10, <2>11 DEF TriggersIn
    <3> QED  BY <3>1
  <2>13. Filed(heap[t], item) = filed
    BY <2>11, <2>12 DEF Filed, Members, GroupedSet
  <2>14. Len(filed) = Len(list) /\ \A i \in DOMAIN list : filed[i].data = Layout("int", list[i])
    BY <2>10 DEF TriggerAVPs, IntAVP, Basic
  <2>15. IntsRead(list, filed, found)
    BY <2>9, <2>13, <2>14, IntsAreRead
  <2> QED  BY <1>4, <1>8, <2>14, <2>15 DEF IntsRead
<1>11. CASE code \notin DOMAIN node
  <2>1. list = << >>
    BY <1>1, <1>11 DEF TriggersHeld
  <2>2. inner = << >>
    BY <1>9, <1>11 DEF GotFirst, Filed
  <2>3. found = << >>
    BY <1>7, <2>2
  <2>4. [i \in DOMAIN found |-> ReadAs("int", found[i].data)] = << >>
    BY <2>3
  <2> QED  BY <1>4, <1>8, <2>1, <2>4
<1> QED  BY <1>10, <1>11

(* An object and what is read of its octets: the values and the lists, and *)
(* the children with the classes they are of.                              *)
ReadsBackAt(msg, o, object, wire) ==
  /\ Agrees(object, ReadObject(object.class, wire, o))
  /\ \A n \in DOMAIN object.kids : \A i \in DOMAIN object.kids[n] :
       Loses(object, n) \/ msg.objects[object.kids[n][i]].class = ReadRow(object.class, n).class

(* The objects of a sound message are read back. *)
LEMMA ObjectRead ==
  ASSUME NEW msg, Sound(msg, {}), NEW o \in 1..Len(msg.objects)
  PROVE  ReadsBackAt(msg, o, msg.objects[o], EncodeAVPs(msg.heap))
<1>a. PICK object : object = msg.objects[o]
  OBVIOUS
<1>b. PICK wire : wire = EncodeAVPs(msg.heap)
  OBVIOUS
<1>1. PICK k : k = object.class
  OBVIOUS
<1>2. PICK node : node = msg.heap[o]
  OBVIOUS
<1>3. PICK avps : avps = wire[o]
  OBVIOUS
<1>4. /\ k \in DOMAIN Writes /\ object \in ObjectsOf(k) /\ Holds(object, node, {}) /\ KidsKnown(msg.objects, object)
  BY <1>a, <1>1, <1>2, SoundAt
<1>5. \A t \in DOMAIN msg.objects : Stands(msg.heap[t], wire[t])
  <2>1. ASSUME NEW t \in DOMAIN msg.objects
        PROVE  Stands(msg.heap[t], wire[t])
    <3>1. ShapedNode(msg.heap[t], t, Len(msg.objects)) /\ t \in DOMAIN msg.heap
      BY TypedParts DEF Sound
    <3>2. IsNode(msg.heap[t]) /\ (t = 1 \/ 263 \notin DOMAIN msg.heap[t])
      BY <3>1 DEF ShapedNode
    <3> QED  BY <1>b, <3>1, <3>2, EncodedStands
  <2> QED  BY <2>1
<1>6. Stands(node, avps) /\ DOMAIN msg.objects = 1..Len(msg.objects)
  BY <1>2, <1>3, <1>5, TypedParts DEF Sound
<1>7. PICK read : read = ReadObject(k, wire, o)
  OBVIOUS
<1>8. ASSUME NEW n \in DOMAIN object.vals, ~Loses(object, n)
      PROVE  read.vals[n] = object.vals[n]
  <2>1. n \in ValueNames(k)
    BY <1>4 DEF ObjectsOf
  <2>2. n \notin Lost
    BY <1>8 DEF Loses, Spoils, Lost
  <2>3. n \notin ListNames(k)
    BY <2>1 DEF ValueNames
  <2>4. n \in {row.name : row \in {r \in Reads[k] : IsValue(r)}}
    BY <1>4, <2>1, <2>2, ValuesNamed
  <2>5. read.vals[n] = ReadValue(ReadRow(k, n), avps, Initial(ReadWithout, k, n))
    BY <1>3, <1>7, <2>3, <2>4 DEF ReadObject
  <2>6. ReadValue(ReadRow(k, n), avps, Initial(ReadWithout, k, n)) = object.vals[n]
    BY <1>4, <1>6, <1>8, <2>1, ValuesRead
  <2> QED  BY <2>5, <2>6
<1>9. read.lists = object.lists
  <2>1. read.lists = [name \in ListNames(k) |-> ReadList(ReadRow(k, name), wire, avps)]
    BY <1>3, <1>7 DEF ReadObject
  <2>2. object.lists \in [ListNames(k) -> Seq(Int)]
    BY <1>4 DEF ObjectsOf
  <2>3. ASSUME NEW n \in ListNames(k)
        PROVE  ReadList(ReadRow(k, n), wire, avps) = object.lists[n]
    <3>1. k = "MSCC"
      BY <1>4, ListsAreOf DEF ListsOf
    <3>2. object.lists["ServiceIdentifier"] \in Seq(Int) /\ object.lists["TriggerTypes"] \in Seq(Int)
      BY <2>2, <3>1, ListRows
    <3>3. CASE n = "ServiceIdentifier"
      <4>1. ServicesHeld(object, node)
        BY <1>1, <1>4, <3>1 DEF Holds
      <4> QED  BY <1>6, <3>1, <3>2, <3>3, <4>1, ServicesRead
    <3>4. CASE n = "TriggerTypes"
      <4>1. PICK list \in Seq(Int) : list = object.lists["TriggerTypes"]
        BY <3>2
      <4>2. TriggersHeld(node, list, msg.objects, msg.heap)
        BY <1>a, <1>1, <1>2, <1>6, <3>1, <4>1 DEF Sound, Coherent
      <4> QED  BY <1>5, <1>6, <3>1, <3>4, <4>1, <4>2, TriggersRead
    <3> QED  BY <3>1, <3>3, <3>4, ListRows
  <2> QED  BY <2>1, <2>2, <2>3
<1>10. ASSUME NEW n \in DOMAIN object.kids, ~Loses(object, n)
       PROVE  /\ read.kids[n] = object.kids[n]
              /\ \A i \in DOMAIN object.kids[n] : msg.objects[object.kids[n][i]].class = ReadRow(k, n).class
  <2>1. n \in ChildNames(k)
    BY <1>4 DEF ObjectsOf
  <2>2. PICK w \in Writes[k] : w.name = n /\ ~IsValue(w)
    BY <2>1 DEF ChildNames, ChildRows
  <2>3. RowHeld(object, w, node, {})
    BY <1>1, <1>4 DEF Holds, RowsHeld
  <2>4. /\ \E r \in Reads[k] : r.name = n /\ ~IsValue(r)
        /\ ReadRow(k, n).class = w.class
        /\ ReadKids(ReadRow(k, n), avps, InitialKids(k, n)) = object.kids[n]
    <3>1. ~Spoils(object, n) /\ ~Forgotten(object, n)
      BY <1>10 DEF Loses
    <3>2. n \notin ValueNames(k)
      BY <1>4, <2>2, <3>1, ChildrenNamed
    <3>3. ASSUME object.kids[n] = << >> PROVE InitialKids(k, n) = << >>
      <4>1. n \notin DOMAIN object.vals
        BY <1>4, <3>2 DEF ObjectsOf
      <4>2. <<k, n>> \notin ReadWithout
        BY <1>1, <3>1, <3>3, <4>1 DEF Forgotten
      <4> QED  BY <4>2 DEF InitialKids
    <3>4. PICK initial : initial = InitialKids(k, n)
      OBVIOUS
    <3>5. ~Spoils(object, w.name) /\ KidsDefault(object, w.name, initial) /\ RowHeld(object, w, node, {})
      BY <2>2, <2>3, <3>1, <3>3, <3>4 DEF KidsDefault
    <3>6. /\ \E r \in Reads[k] : r.name = w.name /\ ~IsValue(r)
          /\ ReadRow(k, w.name).class = w.class
          /\ ReadKids(ReadRow(k, w.name), avps, initial) = object.kids[w.name]
      BY <1>4, <1>6, <2>2, <3>5, KidsRead
    <3> QED  BY <2>2, <3>4, <3>6
  <2>5. n \in {row.name : row \in {r \in Reads[k] : ~IsValue(r)}}
    BY <2>4
  <2>6. read.kids[n] = ReadKids(ReadRow(k, n), avps, InitialKids(k, n))
    BY <1>3, <1>7, <2>5 DEF ReadObject
  <2>7. \A i \in DOMAIN object.kids[n] : msg.objects[object.kids[n][i]].class = w.class
    BY <1>1, <1>4, <2>2 DEF KidsKnown
  <2> QED  BY <2>4, <2>6, <2>7
<1>11. ReadsBackAt(msg, o, object, wire)
  BY <1>1, <1>7, <1>8, <1>9, <1>10 DEF Agrees, ReadsBackAt
<1> QED  BY <1>a, <1>b, <1>11

(* Whatever calls have built a message, reading it gives back what was     *)
(* set, for all values and any number of calls.                            *)
THEOREM MessagesReadBack == Spec => []ReadsBack
<1>1. Inv => ReadsBack
  <2> SUFFICES ASSUME Inv, ~deleted PROVE ReadsBack
    BY DEF ReadsBack
  <2>1. Sound(m, {}) /\ DOMAIN m.objects = 1..Len(m.objects)
    BY TypedParts DEF Inv, Loose, Sound
  <2>2. Encode(m.heap).avps = EncodeAVPs(m.heap)
    BY DEF Encode
  <2>3. \A o \in DOMAIN m.objects : ReadsBackAt(m, o, m.objects[o], EncodeAVPs(m.heap))
    BY <2>1, ObjectRead
  <2> QED  BY <2>2, <2>3, Zenon DEF ReadsBack, ReadsBackAt
<1> QED  BY <1>1, InvInit, InvNext, PTL DEF Spec

----------------------------------------------------------------------------
(* Operations in a row.                                                    *)

LEMMA RowIs ==
  ASSUME NEW k \in DOMAIN Writes, NEW r \in Writes[k]
  PROVE  Row(k, r.name) = r
<1>1. \A s \in Writes[k] : s.name = r.name => s = r
  BY RowsAreDifferent DEF RowsDiffer
<1> QED  BY <1>1 DEF Row

Walks(f, n, T, a, next) ==
  /\ \A i \in 0..n : f[i] \in T[i]
  /\ f[0] = a /\ f = [i \in 0..n |-> f[i]]
  /\ \A i \in 1..n : f[i] = next[<<i, f[i - 1]>>]

(* A recursion over 0..n that goes from T[i - 1] to T[i] has a solution.   *)
LEMMA WalkExists ==
  ASSUME NEW n \in Nat, NEW T, NEW a \in T[0], NEW next,
         \A i \in 1..n : \A t \in T[i - 1] : next[<<i, t>>] \in T[i]
  PROVE  \E f : Walks(f, n, T, a, next)
<1> DEFINE U == UNION {T[i] : i \in 0..n}
           total == [q \in (1..n) \X U |-> IF q[2] \in T[q[1] - 1] THEN next[q] ELSE a]
<1>1. a \in U
  OBVIOUS
<1>2. \A i \in 1..n : T[i] \subseteq U
  OBVIOUS
<1>3. total \in [(1..n) \X U -> U]
  <2>1. ASSUME NEW i \in 1..n, NEW t \in U
        PROVE  (IF t \in T[i - 1] THEN next[<<i, t>>] ELSE a) \in U
    <3> HIDE DEF U
    <3> QED  BY <1>1, <1>2
  <2> HIDE DEF U
  <2> QED  BY <2>1
<1>4. \A i \in 1..n : \A t \in T[i - 1] : t \in U /\ total[<<i, t>>] = next[<<i, t>>]
  <2>1. \A i \in 1..n : T[i - 1] \subseteq U
    <3>1. \A i \in 1..n : i - 1 \in 0..n
      OBVIOUS
    <3> QED  BY <3>1
  <2> HIDE DEF U
  <2> QED  BY <2>1
<1> HIDE DEF total, U
<1>5. PICK f : Recurs(f, n, U, a, total)
  BY <1>1, <1>3, Recursion, Zenon
<1>6. f[0] = a /\ f = [i \in 0..n |-> f[i]]
  BY <1>5 DEF Recurs
<1>7. \A i \in 1..n : f[i] = total[<<i, f[i - 1]>>]
  BY <1>5 DEF Recurs
<1> DEFINE A == {i \in 0..n : f[i] \in T[i]}
<1>8. 0 \in A
  BY <1>6
<1>9. \A i \in 0 .. n - 1 : i \in A => i + 1 \in A
  <2> SUFFICES ASSUME NEW i \in 0 .. n - 1, f[i] \in T[i] PROVE i + 1 \in 0..n /\ f[i + 1] \in T[i + 1]
    OBVIOUS
  <2>1. PICK j \in 1..n : j = i + 1
    OBVIOUS
  <2>2. j - 1 = i
    BY <2>1
  <2>3. f[j] = next[<<j, f[j - 1]>>]
    BY <1>4, <1>7, <2>2
  <2>4. f[j] \in T[j]
    BY <2>2, <2>3
  <2> QED  BY <2>1, <2>4
<1>10. 0..n \subseteq A
  <2> HIDE DEF A
  <2> QED  BY <1>8, <1>9, UpTo
<1>11. \A i \in 1..n : f[i] = next[<<i, f[i - 1]>>]
  <2> SUFFICES ASSUME NEW i \in 1..n PROVE f[i] = next[<<i, f[i - 1]>>]
    OBVIOUS
  <2>1. i - 1 \in 0..n
    OBVIOUS
  <2>2. f[i - 1] \in T[i - 1]
    BY <1>10, <2>1
  <2> QED  BY <1>4, <1>7, <2>2
<1> QED  BY <1>6, <1>10, <1>11 DEF Walks

(* The other way round: what a recursion says is in T[i] at its i-th step. *)
LEMMA WalkStays ==
  ASSUME NEW n \in Nat, NEW T, NEW g, g[0] \in T[0],
         \A i \in 1..n : g[i - 1] \in T[i - 1] => g[i] \in T[i]
  PROVE  \A i \in 0..n : g[i] \in T[i]
<1> DEFINE A == {i \in 0..n : g[i] \in T[i]}
<1>1. 0 \in A
  OBVIOUS
<1>2. \A i \in 0 .. n - 1 : i \in A => i + 1 \in A
  <2> SUFFICES ASSUME NEW i \in 0 .. n - 1, g[i] \in T[i] PROVE i + 1 \in 0..n /\ g[i + 1] \in T[i + 1]
    OBVIOUS
  <2>1. PICK j \in 1..n : j = i + 1
    OBVIOUS
  <2>2. j - 1 = i
    BY <2>1
  <2>3. g[j] \in T[j]
    BY <2>2
  <2> QED  BY <2>1, <2>3
<1>3. 0..n \subseteq A
  <2> HIDE DEF A
  <2> QED  BY <1>1, <1>2, UpTo
<1> QED  BY <1>3

(* Setters of an object: the members they name and what they give them. *)
Setters(k, with) ==
  /\ Len(with) \in Nat
  /\ \A i \in 1..Len(with) :
       /\ with[i][2] \in Int /\ with[i][1] # "ResultCodeExt"
       /\ \E row \in Writes[k] : IsValue(row) /\ row.name = with[i][1]
  /\ \A i, j \in 1..Len(with) : with[i][1] = with[j][1] => i = j

(* The members that do not take what their setter is given. *)
Fussy == Lost \cup {"BearerService", "OriginatorSCCPAddress"}

(* What the first i of the setters have done. *)
ValuesSet(msg, o, with, i, new) ==
  /\ Sound(new, {}) /\ Len(new.objects) = Len(msg.objects)
  /\ \A p \in 1..Len(msg.objects) : p # o => new.objects[p] = msg.objects[p]
  /\ new.objects[o].class = msg.objects[o].class
  /\ new.objects[o].kids = msg.objects[o].kids /\ new.objects[o].lists = msg.objects[o].lists
  /\ \A n \in ValueNames(msg.objects[o].class) :
       (\A j \in 1..i : with[j][1] # n) => new.objects[o].vals[n] = msg.objects[o].vals[n]
  /\ \A j \in 1..i : with[j][1] \notin Fussy => new.objects[o].vals[with[j][1]] = with[j][2]

(* One setter more. *)
LEMMA NextValueSet ==
  ASSUME NEW msg, Sound(msg, {}), NEW o \in 1..Len(msg.objects),
         NEW k, k = msg.objects[o].class, NEW with, Setters(k, with), NEW i \in 1..Len(with),
         NEW t, ValuesSet(msg, o, with, i - 1, t)
  PROVE  ValuesSet(msg, o, with, i, SetValue(t, o, Row(k, with[i][1]), with[i][2]))
<1>1. k \in DOMAIN Writes
  BY SoundAt
<1>2. PICK row \in Writes[k] : IsValue(row) /\ row.name = with[i][1]
  BY DEF Setters
<1>3. PICK v \in Int : v = with[i][2]
  BY DEF Setters
<1>4. Row(k, with[i][1]) = row
  BY <1>1, <1>2, RowIs
<1>5. PICK new : new = SetValue(t, o, row, v)
  OBVIOUS
<1>6. /\ Sound(t, {}) /\ o \in 1..Len(t.objects) /\ t.objects[o].class = k
      /\ Len(t.objects) = Len(msg.objects)
  BY DEF ValuesSet
<1>7. PICK object : object = t.objects[o]
  OBVIOUS
<1>8. object \in ObjectsOf(k)
  BY <1>6, <1>7, SoundAt
<1>9. row.name # "ResultCodeExt"
  BY <1>2 DEF Setters
<1>10. Sound(new, {}) /\ ValueIsSet(t, o, row, v, new)
  BY <1>2, <1>3, <1>5, <1>6, <1>9, SetValueSound
<1>11. PICK value : value = Member(row, object.vals[row.name], v)
  OBVIOUS
<1>12. OnlyValue(object, row.name, value, ValueSet(object, row, v))
  BY <1>1, <1>2, <1>3, <1>8, <1>11, ValueSetTyped
<1>13. /\ Len(new.objects) = Len(msg.objects) /\ OnlyValue(object, row.name, value, new.objects[o])
       /\ \A p \in 1..Len(msg.objects) : p # o => new.objects[p] = t.objects[p]
  BY <1>6, <1>7, <1>10, <1>12 DEF ValueIsSet, ChangedOnly
<1>14. row.name \notin Fussy => value = v
  <2> SUFFICES ASSUME row.name \notin Fussy PROVE value = v
    OBVIOUS
  <2>1. row.name \notin Lost /\ row.name \notin {"BearerService", "OriginatorSCCPAddress"}
    BY DEF Fussy
  <2>2. row.form # "zone"
    BY <1>1, <1>2, <2>1, ValuesAreAgreed DEF ValuesAgree
  <2> QED  BY <1>11, <2>1, <2>2 DEF Member
<1>15. \A n \in ValueNames(k) : (\A j \in 1..i : with[j][1] # n) => new.objects[o].vals[n] = msg.objects[o].vals[n]
  <2> SUFFICES ASSUME NEW n \in ValueNames(k), \A j \in 1..i : with[j][1] # n
               PROVE  new.objects[o].vals[n] = msg.objects[o].vals[n]
    OBVIOUS
  <2>1. \A j \in 1 .. i - 1 : with[j][1] # n
    OBVIOUS
  <2>2. n # row.name
    BY <1>2
  <2>3. t.objects[o].vals[n] = msg.objects[o].vals[n]
    BY <2>1 DEF ValuesSet
  <2> QED  BY <1>6, <1>7, <1>13, <2>2, <2>3 DEF OnlyValue
<1>16. \A j \in 1..i : with[j][1] \notin Fussy => new.objects[o].vals[with[j][1]] = with[j][2]
  <2> SUFFICES ASSUME NEW j \in 1..i, with[j][1] \notin Fussy
               PROVE  new.objects[o].vals[with[j][1]] = with[j][2]
    OBVIOUS
  <2>1. CASE j = i
    BY <1>2, <1>3, <1>13, <1>14, <2>1 DEF OnlyValue
  <2>2. CASE j # i
    <3>1. j \in 1 .. i - 1 /\ j \in 1..Len(with)
      BY <2>2 DEF Setters
    <3>2. with[j][1] # row.name
      BY <1>2, <2>2, <3>1 DEF Setters
    <3>3. PICK r \in Writes[k] : IsValue(r) /\ r.name = with[j][1]
      BY <3>1 DEF Setters
    <3>4. with[j][1] \in ValueNames(k)
      BY <1>1, <3>3, RowNames
    <3>5. t.objects[o].vals[with[j][1]] = with[j][2]
      BY <3>1 DEF ValuesSet
    <3> QED  BY <1>6, <1>7, <1>13, <3>2, <3>4, <3>5 DEF OnlyValue
  <2> QED  BY <2>1, <2>2
<1>17. ValuesSet(msg, o, with, i, new)
  <2>1. \A p \in 1..Len(msg.objects) : p # o => new.objects[p] = msg.objects[p]
    BY <1>13 DEF ValuesSet
  <2>2. /\ new.objects[o].class = k /\ new.objects[o].kids = msg.objects[o].kids
        /\ new.objects[o].lists = msg.objects[o].lists
    BY <1>6, <1>7, <1>13 DEF OnlyValue, ValuesSet
  <2> QED  BY <1>10, <1>13, <1>15, <1>16, <2>1, <2>2 DEF ValuesSet
<1> QED  BY <1>3, <1>4, <1>5, <1>17

(* All of the setters, one after the other. *)
LEMMA SetValuesIs ==
  ASSUME NEW msg, Sound(msg, {}), NEW o \in 1..Len(msg.objects),
         NEW with, Setters(msg.objects[o].class, with)
  PROVE  ValuesSet(msg, o, with, Len(with), SetValues(msg, o, with))
<1> DEFINE k == msg.objects[o].class
           n == Len(with)
           Step(i, t) == SetValue(t, o, Row(k, with[i][1]), with[i][2])
           T == [i \in 0..n |-> {t \in Message : ValuesSet(msg, o, with, i, t)}]
           next == [q \in (1..n) \X Message |-> Step(q[1], q[2])]
           IsSet(f) == f = [i \in 0..n |-> IF i = 0 THEN msg ELSE Step(i, f[i - 1])]
<1>1. n \in Nat
  BY DEF Setters
<1>2. \A i \in 0..n : \A t : t \in T[i] <=> ValuesSet(msg, o, with, i, t)
  BY DEF ValuesSet, Sound, Typed
<1>3. \A i \in 1..n : \A t : ValuesSet(msg, o, with, i - 1, t) => ValuesSet(msg, o, with, i, Step(i, t))
  BY NextValueSet
<1>4. \A i \in 1..n : \A t \in T[i - 1] : t \in Message /\ next[<<i, t>>] = Step(i, t)
  <2>1. \A i \in 1..n : \A t \in T[i - 1] : t \in Message
    BY <1>1
  <2> HIDE DEF T, Step
  <2> QED  BY <2>1
<1>5. msg \in T[0]
  <2>1. ValuesSet(msg, o, with, 0, msg)
    BY DEF ValuesSet
  <2> QED  BY <1>1, <1>2, <2>1
<1> HIDE DEF T, next, Step, n
<1>6. \A i \in 1..n : \A t \in T[i - 1] : Step(i, t) \in T[i]
  BY <1>1, <1>2, <1>3
<1>7. \A i \in 1..n : \A t \in T[i - 1] : next[<<i, t>>] \in T[i]
  BY <1>4, <1>6
<1>8. PICK f : Walks(f, n, T, msg, next)
  BY <1>1, <1>5, <1>7, WalkExists
<1>9. IsSet(f)
  <2>1. f[0] = msg /\ f = [i \in 0..n |-> f[i]]
    BY <1>8 DEF Walks
  <2>2. \A i \in 1..n : f[i] = Step(i, f[i - 1])
    <3> SUFFICES ASSUME NEW i \in 1..n PROVE f[i] = Step(i, f[i - 1])
      OBVIOUS
    <3>1. i - 1 \in 0..n
      BY <1>1
    <3>2. f[i - 1] \in T[i - 1] /\ f[i] = next[<<i, f[i - 1]>>]
      BY <1>8, <3>1 DEF Walks
    <3> QED  BY <1>4, <3>2
  <2>3. \A i \in 0..n : f[i] = IF i = 0 THEN msg ELSE Step(i, f[i - 1])
    BY <1>1, <2>1, <2>2
  <2> QED  BY <2>1, <2>3
<1> DEFINE g == CHOOSE g : IsSet(g)
<1>10. SetValues(msg, o, with) = g[n]
  BY DEF SetValues, n, Step
<1>11. IsSet(g)
  <2> HIDE DEF IsSet
  <2> QED  BY <1>9
<1> HIDE DEF g
<1>12. g[0] = msg /\ \A i \in 1..n : g[i] = Step(i, g[i - 1])
  <2>1. \A i \in 0..n : g[i] = IF i = 0 THEN msg ELSE Step(i, g[i - 1])
    BY <1>11, Zenon
  <2> HIDE DEF IsSet
  <2> QED  BY <1>1, <2>1
<1>13. \A i \in 0..n : g[i] \in T[i]
  BY <1>1, <1>5, <1>6, <1>12, WalkStays
<1>14. ValuesSet(msg, o, with, n, g[n])
  BY <1>1, <1>2, <1>13
<1> QED  BY <1>10, <1>14 DEF n

----------------------------------------------------------------------------
(* The answer to a request.                                                *)

(* The first i service identifiers have been put. *)
ServicesPut(msg, o, services, i, new) ==
  /\ Sound(new, {}) /\ Len(new.objects) = Len(msg.objects)
  /\ \A p \in 1..Len(msg.objects) : p # o => new.objects[p] = msg.objects[p]
  /\ new.objects[o].class = "MSCC" /\ new.objects[o].vals = msg.objects[o].vals
  /\ new.objects[o].lists["ServiceIdentifier"] \in Seq(Int)
  /\ Len(new.objects[o].lists["ServiceIdentifier"]) = i
  /\ \A j \in 1..i : new.objects[o].lists["ServiceIdentifier"][j] = services[j]

(* One service identifier more. *)
LEMMA NextServicePut ==
  ASSUME NEW msg, NEW o \in 1..Len(msg.objects), NEW services \in Seq(Int), NEW i \in 1..Len(services),
         NEW t, ServicesPut(msg, o, services, i - 1, t)
  PROVE  ServicesPut(msg, o, services, i, SetServiceIdentifier(t, o, services[i], i - 1))
<1>1. PICK v \in Int : v = services[i]
  OBVIOUS
<1>2. PICK index \in Nat : index = i - 1
  OBVIOUS
<1>3. PICK list \in Seq(Int) : list = t.objects[o].lists["ServiceIdentifier"]
  BY DEF ServicesPut
<1>4. Sound(t, {}) /\ o \in 1..Len(t.objects) /\ t.objects[o].class = "MSCC" /\ Len(t.objects) = Len(msg.objects)
  BY DEF ServicesPut
<1>5. index \in 0..Len(list) /\ index = Len(list)
  BY <1>2, <1>3 DEF ServicesPut
<1>6. PICK new : new = SetServiceIdentifier(t, o, v, index)
  OBVIOUS
<1>7. PICK longer : longer = Put(list, index, v)
  OBVIOUS
<1>8. Sound(new, {}) /\ ListIsSet(t, o, "ServiceIdentifier", longer, new)
  BY <1>3, <1>4, <1>5, <1>6, <1>7, SetServiceSound
<1>9. longer \in Seq(Int) /\ PutIn(list, index, v, longer)
  BY <1>5, <1>7, PutIs
<1>10. Len(longer) = i /\ \A j \in 1..i : longer[j] = services[j]
  <2>1. Len(longer) = i
    BY <1>2, <1>5, <1>9 DEF PutIn
  <2>2. \A j \in 1 .. i - 1 : list[j] = services[j]
    BY <1>3 DEF ServicesPut
  <2>3. ASSUME NEW j \in 1..i
        PROVE  longer[j] = services[j]
    <3>1. longer[j] = IF j = index + 1 THEN v ELSE list[j]
      BY <1>9, <2>1 DEF PutIn
    <3>2. CASE j = i
      BY <1>1, <1>2, <3>1, <3>2
    <3>3. CASE j # i
      <4>1. j \in 1 .. i - 1 /\ j # index + 1
        BY <1>2, <3>3
      <4> QED  BY <2>2, <3>1, <4>1
    <3> QED  BY <3>2, <3>3
  <2> QED  BY <2>1, <2>3
<1>11. ServicesPut(msg, o, services, i, new)
  <2>1. /\ Len(new.objects) = Len(msg.objects) /\ new.objects[o].class = "MSCC"
        /\ new.objects[o].vals = t.objects[o].vals /\ new.objects[o].lists["ServiceIdentifier"] = longer
        /\ \A p \in 1..Len(msg.objects) : p # o => new.objects[p] = t.objects[p]
    BY <1>4, <1>8 DEF ListIsSet, OnlyList
  <2>2. /\ t.objects[o].vals = msg.objects[o].vals
        /\ \A p \in 1..Len(msg.objects) : p # o => t.objects[p] = msg.objects[p]
    BY DEF ServicesPut
  <2> QED  BY <1>8, <1>9, <1>10, <2>1, <2>2 DEF ServicesPut
<1> QED  BY <1>1, <1>2, <1>6, <1>11

(* All of them. *)
LEMMA EchoServicesIs ==
  ASSUME NEW msg, Sound(msg, {}), NEW o \in 1..Len(msg.objects), msg.objects[o].class = "MSCC",
         msg.objects[o].lists["ServiceIdentifier"] = << >>, NEW services \in Seq(Int)
  PROVE  ServicesPut(msg, o, services, Len(services), EchoServices(msg, o, services))
<1> DEFINE n == Len(services)
           Step(i, t) == SetServiceIdentifier(t, o, services[i], i - 1)
           T == [i \in 0..n |-> {t \in Message : ServicesPut(msg, o, services, i, t)}]
           next == [q \in (1..n) \X Message |-> Step(q[1], q[2])]
           IsPut(f) == f = [i \in 0..n |-> IF i = 0 THEN msg ELSE Step(i, f[i - 1])]
<1>1. n \in Nat
  OBVIOUS
<1>2. \A i \in 0..n : \A t : t \in T[i] <=> ServicesPut(msg, o, services, i, t)
  BY DEF ServicesPut, Sound, Typed
<1>3. \A i \in 1..n : \A t : ServicesPut(msg, o, services, i - 1, t) => ServicesPut(msg, o, services, i, Step(i, t))
  BY NextServicePut
<1>4. \A i \in 1..n : \A t \in T[i - 1] : t \in Message /\ next[<<i, t>>] = Step(i, t)
  <2>1. \A i \in 1..n : \A t \in T[i - 1] : t \in Message
    BY <1>1
  <2> HIDE DEF T, Step
  <2> QED  BY <2>1
<1>5. msg \in T[0]
  <2>1. ServicesPut(msg, o, services, 0, msg)
    BY DEF ServicesPut
  <2> QED  BY <1>1, <1>2, <2>1
<1> HIDE DEF T, next, Step, n
<1>6. \A i \in 1..n : \A t \in T[i - 1] : Step(i, t) \in T[i]
  BY <1>1, <1>2, <1>3
<1>7. \A i \in 1..n : \A t \in T[i - 1] : next[<<i, t>>] \in T[i]
  BY <1>4, <1>6
<1>8. PICK f : Walks(f, n, T, msg, next)
  BY <1>1, <1>5, <1>7, WalkExists
<1>9. IsPut(f)
  <2>1. f[0] = msg /\ f = [i \in 0..n |-> f[i]]
    BY <1>8 DEF Walks
  <2>2. \A i \in 1..n : f[i] = Step(i, f[i - 1])
    <3> SUFFICES ASSUME NEW i \in 1..n PROVE f[i] = Step(i, f[i - 1])
      OBVIOUS
    <3>1. i - 1 \in 0..n
      BY <1>1
    <3>2. f[i - 1] \in T[i - 1] /\ f[i] = next[<<i, f[i - 1]>>]
      BY <1>8, <3>1 DEF Walks
    <3> QED  BY <1>4, <3>2
  <2>3. \A i \in 0..n : f[i] = IF i = 0 THEN msg ELSE Step(i, f[i - 1])
    <3>1. \A i \in 0..n : i = 0 \/ (i # 0 /\ i \in 1..n)
      BY <1>1
    <3> QED  BY <2>1, <2>2, <3>1, Zenon
  <2> QED  BY <2>1, <2>3
<1> DEFINE g == CHOOSE g : IsPut(g)
<1>10. EchoServices(msg, o, services) = g[n]
  BY DEF EchoServices, n, Step
<1>11. IsPut(g)
  <2> HIDE DEF IsPut
  <2> QED  BY <1>9
<1> HIDE DEF g
<1>12. g[0] = msg /\ \A i \in 1..n : g[i] = Step(i, g[i - 1])
  <2>1. \A i \in 0..n : g[i] = IF i = 0 THEN msg ELSE Step(i, g[i - 1])
    BY <1>11, Zenon
  <2> HIDE DEF IsPut
  <2> QED  BY <1>1, <2>1
<1>13. \A i \in 0..n : g[i] \in T[i]
  BY <1>1, <1>5, <1>6, <1>12, WalkStays
<1>14. ServicesPut(msg, o, services, n, g[n])
  BY <1>1, <1>2, <1>13
<1> QED  BY <1>10, <1>14 DEF n

(* What the answer takes from an MSCC of the request. *)
IsAsked(mscc) == mscc.vals["RatingGroup"] \in Int /\ mscc.lists["ServiceIdentifier"] \in Seq(Int)

Echoed(mscc, object) ==
  /\ object.class = "MSCC" /\ object.vals["RatingGroup"] = mscc.vals["RatingGroup"]
  /\ object.lists["ServiceIdentifier"] = mscc.lists["ServiceIdentifier"]

(* What EchoMSCC does to the answer. *)
Echoes(msg, mscc, new) ==
  /\ Sound(new, {}) /\ Len(new.objects) = Len(msg.objects) + 1
  /\ new.objects[1].class = "CCA" /\ new.objects[1].vals = msg.objects[1].vals
  /\ new.objects[1].kids["MSCC"] = Append(msg.objects[1].kids["MSCC"], Len(msg.objects) + 1)
  /\ \A p \in 2..Len(msg.objects) : new.objects[p] = msg.objects[p]
  /\ Echoed(mscc, new.objects[Len(msg.objects) + 1])

(* The rows that an answer is made with. *)
LEMMA AnswerRows ==
  /\ "CCA" \in DOMAIN Writes /\ "MSCC" \in DOMAIN Writes
  /\ LET row == Row("CCA", "MSCC")
     IN  /\ row \in Writes["CCA"] /\ ~IsValue(row) /\ row.name = "MSCC" /\ row.rule = "set" /\ row.class = "MSCC"
  /\ LET row == Row("MSCC", "RatingGroup")
     IN  /\ row \in Writes["MSCC"] /\ IsValue(row) /\ row.name = "RatingGroup" /\ row.form = "int"
<1>1. "CCA" \in DOMAIN Writes /\ "MSCC" \in DOMAIN Writes
  BY DEF Writes
<1>2. PICK row \in Writes["CCA"] : row = Child("MSCC", 456, Plain, "MSCC", "set")
  BY DEF Writes, CCAWrites
<1>3. /\ ~IsValue(row) /\ row.name = "MSCC" /\ row.rule = "set" /\ row.class = "MSCC"
  BY <1>2 DEF Child, IsValue
<1>4. Row("CCA", "MSCC") = row
  BY <1>1, <1>2, <1>3, RowIs
<1>5. PICK rating \in Writes["MSCC"] : rating = Value("RatingGroup", 432, Plain, "int")
  BY DEF Writes, MSCCWrites
<1>6. IsValue(rating) /\ rating.name = "RatingGroup" /\ rating.form = "int"
  BY <1>5 DEF Value, IsValue
<1>7. Row("MSCC", "RatingGroup") = rating
  BY <1>1, <1>5, <1>6, RowIs
<1> QED  BY <1>1, <1>2, <1>3, <1>4, <1>5, <1>6, <1>7

(* The rating group of an MSCC is that of the one asked for. *)
Rated(msg, o, mscc, new) ==
  /\ Sound(new, {}) /\ Len(new.objects) = Len(msg.objects)
  /\ \A p \in 1..Len(msg.objects) : p # o => new.objects[p] = msg.objects[p]
  /\ new.objects[o].class = "MSCC" /\ new.objects[o].lists = msg.objects[o].lists
  /\ new.objects[o].vals["RatingGroup"] = mscc.vals["RatingGroup"]

(* The rating group is given when the request has one. *)
LEMMA EchoRatingIs ==
  ASSUME NEW msg, Sound(msg, {}), NEW o \in 1..Len(msg.objects), msg.objects[o].class = "MSCC",
         msg.objects[o].vals["RatingGroup"] = Unset, NEW mscc, IsAsked(mscc)
  PROVE  Rated(msg, o, mscc, EchoRating(msg, o, mscc))
<1>0. PICK new : new = EchoRating(msg, o, mscc)
  OBVIOUS
<1> SUFFICES Rated(msg, o, mscc, new)
  BY <1>0
<1>1. CASE mscc.vals["RatingGroup"] = Unset
  BY <1>0, <1>1 DEF EchoRating, Rated
<1>2. CASE mscc.vals["RatingGroup"] # Unset
  <2>1. PICK row : row = Row("MSCC", "RatingGroup")
    OBVIOUS
  <2>2. row \in Writes["MSCC"] /\ IsValue(row) /\ row.name = "RatingGroup" /\ row.form = "int"
    BY <2>1, AnswerRows
  <2>3. PICK v \in Int : v = mscc.vals["RatingGroup"]
    BY DEF IsAsked
  <2>4. new = SetValue(msg, o, row, v)
    BY <1>0, <1>2, <2>1, <2>3 DEF EchoRating
  <2>5. Sound(new, {}) /\ ValueIsSet(msg, o, row, v, new)
    BY <2>2, <2>4, SetValueSound
  <2>6. PICK object : object = msg.objects[o]
    OBVIOUS
  <2>7. "MSCC" \in DOMAIN Writes /\ object \in ObjectsOf("MSCC")
    BY <2>6, AnswerRows, SoundAt
  <2>8. OnlyValue(object, row.name, Member(row, object.vals[row.name], v), ValueSet(object, row, v))
    BY <2>2, <2>7, ValueSetTyped
  <2>9. Member(row, object.vals[row.name], v) = v
    BY <2>2 DEF Member
  <2> QED  BY <2>2, <2>3, <2>5, <2>6, <2>8, <2>9 DEF ValueIsSet, ChangedOnly, OnlyValue, Rated
<1> QED  BY <1>1, <1>2

(* An MSCC of the answer repeats that of the request. *)
LEMMA EchoMSCCIs ==
  ASSUME NEW msg, Sound(msg, {}), msg.objects[1].class = "CCA", NEW mscc, IsAsked(mscc)
  PROVE  Echoes(msg, mscc, EchoMSCC(msg, mscc))
<1>1. PICK last \in Nat \ {0} : last = Len(msg.objects)
  BY TypedParts DEF Sound
<1>2. PICK row : row = Row("CCA", "MSCC")
  OBVIOUS
<1>3. row \in Writes["CCA"] /\ ~IsValue(row) /\ row.name = "MSCC" /\ row.rule = "set" /\ row.class = "MSCC"
  BY <1>2, AnswerRows
<1>4. PICK made : made = Create(msg, 1, row)
  OBVIOUS
<1>5. PICK o : o = last + 1
  OBVIOUS
<1>6. Sound(made, {}) /\ Created(msg, 1, row, made)
  BY <1>1, <1>3, <1>4, CreateSound
<1>7. /\ Len(made.objects) = o /\ o \in 1..Len(made.objects) /\ made.objects[o] = NewObject("MSCC")
      /\ made.objects[1].class = "CCA" /\ made.objects[1].vals = msg.objects[1].vals
      /\ made.objects[1].kids["MSCC"] = Append(msg.objects[1].kids["MSCC"], o)
      /\ \A p \in 2..last : made.objects[p] = msg.objects[p]
  <2>1. /\ Len(made.objects) = last + 1 /\ made.objects[last + 1] = NewObject("MSCC")
        /\ \A p \in 1..last : p # 1 => made.objects[p] = msg.objects[p]
    BY <1>1, <1>3, <1>6 DEF Created
  <2>2. OnlyChild(msg.objects[1], "MSCC", KidsAfter(row, msg.objects[1].kids["MSCC"], last + 1), made.objects[1])
    BY <1>1, <1>3, <1>6 DEF Created
  <2>3. KidsAfter(row, msg.objects[1].kids["MSCC"], last + 1) = Append(msg.objects[1].kids["MSCC"], o)
    BY <1>3, <1>5 DEF KidsAfter
  <2>4. /\ made.objects[1].class = "CCA" /\ made.objects[1].vals = msg.objects[1].vals
        /\ made.objects[1].kids["MSCC"] = Append(msg.objects[1].kids["MSCC"], o)
    BY <2>2, <2>3 DEF OnlyChild
  <2>5. \A p \in 2..last : p \in 1..last /\ p # 1
    OBVIOUS
  <2>6. o \in 1..o
    BY <1>5
  <2>7. Len(made.objects) = o /\ o \in 1..Len(made.objects) /\ made.objects[o] = NewObject("MSCC")
    BY <1>5, <2>1, <2>6, Zenon
  <2>8. \A p \in 2..last : made.objects[p] = msg.objects[p]
    BY <2>1, <2>5
  <2> QED  BY <2>4, <2>7, <2>8
<1>8. /\ NewObject("MSCC").class = "MSCC" /\ NewObject("MSCC").vals["RatingGroup"] = Unset
      /\ NewObject("MSCC").lists["ServiceIdentifier"] = << >>
  <2>1. "RatingGroup" \in ValueNames("MSCC")
    BY AnswerRows, RowNames
  <2> QED  BY <2>1, ListRows DEF NewObject, Initial, MadeWithout
<1>9. PICK rated : rated = EchoRating(made, o, mscc)
  OBVIOUS
<1>10. /\ Sound(rated, {}) /\ Len(rated.objects) = o
       /\ \A p \in 1..o : p # o => rated.objects[p] = made.objects[p]
       /\ rated.objects[o].class = "MSCC" /\ rated.objects[o].lists = made.objects[o].lists
       /\ rated.objects[o].vals["RatingGroup"] = mscc.vals["RatingGroup"]
  <2>1. o \in 1..Len(made.objects) /\ made.objects[o].class = "MSCC" /\ made.objects[o].vals["RatingGroup"] = Unset
    BY <1>7, <1>8
  <2>2. Rated(made, o, mscc, EchoRating(made, o, mscc))
    BY <1>6, <2>1, EchoRatingIs
  <2>3. Rated(made, o, mscc, rated) /\ Len(made.objects) = o
    BY <1>7, <1>9, <2>2
  <2> QED  BY <2>3 DEF Rated
<1>11. PICK services \in Seq(Int) : services = mscc.lists["ServiceIdentifier"]
  BY DEF IsAsked
<1>12. PICK new : new = EchoServices(rated, o, services)
  OBVIOUS
<1>13. ServicesPut(rated, o, services, Len(services), new)
  <2>1. o \in 1..Len(rated.objects) /\ rated.objects[o].lists["ServiceIdentifier"] = << >>
    BY <1>7, <1>8, <1>10
  <2> QED  BY <1>10, <1>12, <2>1, EchoServicesIs
<1>14. new.objects[o].lists["ServiceIdentifier"] = services
  <2>1. PICK list \in Seq(Int) : list = new.objects[o].lists["ServiceIdentifier"]
    BY <1>13 DEF ServicesPut
  <2>2. Len(list) = Len(services) /\ \A j \in 1..Len(services) : list[j] = services[j]
    BY <1>13, <2>1 DEF ServicesPut
  <2>3. list = services
    BY <2>2
  <2> QED  BY <2>1, <2>3
<1>15. EchoMSCC(msg, mscc) = new
  BY <1>1, <1>2, <1>4, <1>5, <1>9, <1>11, <1>12 DEF EchoMSCC
<1>16. /\ Sound(new, {}) /\ Len(new.objects) = o /\ new.objects[o].class = "MSCC"
       /\ new.objects[o].vals = rated.objects[o].vals
       /\ \A p \in 1..o : p # o => new.objects[p] = rated.objects[p]
  BY <1>10, <1>13 DEF ServicesPut
<1>17. \A p \in 1..last : new.objects[p] = made.objects[p]
  BY <1>1, <1>5, <1>10, <1>16
<1>18. Echoed(mscc, new.objects[o])
  BY <1>10, <1>11, <1>14, <1>16 DEF Echoed
<1>19. Len(msg.objects) + 1 = o
  BY <1>1, <1>5
<1>20. /\ new.objects[1].class = "CCA" /\ new.objects[1].vals = msg.objects[1].vals
       /\ new.objects[1].kids["MSCC"] = Append(msg.objects[1].kids["MSCC"], o)
  <2>1. new.objects[1] = made.objects[1]
    BY <1>17
  <2> QED  BY <1>7, <2>1, Zenon
<1>21. \A p \in 2..Len(msg.objects) : new.objects[p] = msg.objects[p]
  BY <1>1, <1>7, <1>17
<1> QED  BY <1>15, <1>16, <1>18, <1>19, <1>20, <1>21, Zenon DEF Echoes

-----------------------------------------------------------------------------
(* SetupFromRequest: the answer to a request.                              *)

(* A request as the answer takes it. *)
Copied == {"SessionId", "DestinationHost", "DestinationRealm", "ServiceContextId", "RequestType",
           "RequestNumber", "AuthApplicationId"}

Asked(request) ==
  /\ \A n \in Copied : request.vals[n] \in Int
  /\ Len(request.kids["MSCC"]) \in Nat /\ DOMAIN request.kids["MSCC"] = 1..Len(request.kids["MSCC"])
  /\ \A i \in 1..Len(request.kids["MSCC"]) : IsAsked(request.kids["MSCC"][i])

(* The AVP 1067, which no member stands for. *)
LEMMA CodedSound ==
  ASSUME NEW msg, Sound(msg, {}), msg.objects[1].class = "CCA",
         NEW new, new = [msg EXCEPT !.heap[1] = SetAVP(@, IntAVP(1067, Plain, Unset))]
  PROVE  Sound(new, {}) /\ new.objects = msg.objects
<1>1. PICK objects, heap : msg = [objects |-> objects, heap |-> heap] /\ msg.objects = objects /\ msg.heap = heap
                           /\ objects \in Seq(Object)
  BY TypedParts DEF Sound
<1>2. PICK last \in Nat \ {0} : last = Len(msg.objects)
  BY TypedParts DEF Sound
<1>3. 1 \in 1..Len(msg.objects)
  BY <1>2
<1>4. PICK object : object = msg.objects[1]
  OBVIOUS
<1>5. PICK node : node = msg.heap[1]
  OBVIOUS
<1>6. /\ "CCA" \in DOMAIN Writes /\ object \in ObjectsOf("CCA") /\ object.class = "CCA"
      /\ ShapedNode(node, 1, last) /\ Holds(object, node, {}) /\ KidsKnown(msg.objects, object)
  BY <1>2, <1>3, <1>4, <1>5, SoundAt
<1>7. PICK avp : avp = IntAVP(1067, Plain, Unset)
  OBVIOUS
<1>8. PICK code : code = 1067
  OBVIOUS
<1>9. Fits(avp, 1, last) /\ avp.code = code /\ code \in Int
  <2>1. GetAVPType(1067) = "BASIC"
    BY DEF GetAVPType
  <2>2. PICK data \in Data : data = Layout("int", Unset)
    <3>1. "int" \in Forms /\ Unset \in Int
      BY DEF Forms, Unset
    <3> QED  BY <3>1, LayoutTyped
  <2>3. avp = Basic(code, Plain, data)
    BY <1>7, <1>8, <2>2 DEF IntAVP
  <2>4. Plain \in {0, 1} /\ code \in Int /\ 1 \in Nat
    BY <1>8 DEF Plain
  <2>5. Fits(Basic(code, Plain, data), 1, last)
    <3>1. GetAVPType(code) = "BASIC" /\ last \in Nat
      BY <1>2, <1>8, <2>1
    <3> QED  BY <2>4, <3>1, BasicFits, Zenon
  <2>6. Basic(code, Plain, data).code = code
    BY DEF Basic
  <2> QED  BY <2>3, <2>4, <2>5, <2>6, Zenon
<1>10. PICK after : after = SetAVP(node, avp)
  OBVIOUS
<1>11. /\ ShapedNode(after, 1, last) /\ DOMAIN after = DOMAIN node \cup {code}
       /\ \A c \in DOMAIN node : c # code => after[c] = node[c]
  BY <1>6, <1>9, <1>10, SetAVPFiles
<1>12. RowsHeld(object, after, {})
  <2>1. \A row \in Writes["CCA"] : row.code # code
    BY <1>6, <1>8, RowsAreSound DEF SoundRows, SoundRow
  <2>2. SameBut(node, code, after)
    BY <1>11 DEF SameBut
  <2> QED  BY <1>6, <2>1, <2>2, ListRowsHeld DEF Holds
<1>13. Holds(object, after, {})
  BY <1>6, <1>12 DEF Holds
<1>14. SameTriggers(object, node, object, after)
  BY <1>6 DEF SameTriggers
<1>15. Sound(Changed(msg, 1, object, after), {})
  BY <1>2, <1>3, <1>4, <1>5, <1>6, <1>11, <1>13, <1>14, ChangedSound
<1>16. new = [objects |-> objects, heap |-> [heap EXCEPT ![1] = after]]
  <2>1. new = [msg EXCEPT !.heap[1] = after]
    BY <1>5, <1>7, <1>10
  <2> QED  BY <1>1, <2>1
<1>17. [objects EXCEPT ![1] = object] = objects
  <2>1. \A any \in Seq(Object) : [any EXCEPT ![1] = any[1]] = any
    OBVIOUS
  <2> QED  BY <1>1, <1>4, <2>1, Zenon
<1>18. new = Changed(msg, 1, object, after)
  BY <1>1, <1>16, <1>17, Zenon DEF Changed
<1> QED  BY <1>1, <1>15, <1>16, <1>18

(* The members of the answer that are not of an MSCC. *)
AnswerValues(request) ==
  LET asked == request.vals
  IN  << <<"SessionId", asked["SessionId"]>>, <<"ResultCode", 2001>>,
         <<"OriginHost", asked["DestinationHost"]>>,
         <<"OriginRealm", asked["DestinationRealm"]>>,
         <<"ServiceContextId", asked["ServiceContextId"]>>,
         <<"RequestType", asked["RequestType"]>>,
         <<"RequestNumber", asked["RequestNumber"]>>,
         <<"AuthApplicationId", asked["AuthApplicationId"]>> >>

(* The setters that an answer is made with are setters of a CCA. *)
LEMMA AnswerSetters ==
  ASSUME NEW request, Asked(request)
  PROVE  Setters("CCA", AnswerValues(request))
<1>1. PICK s1 \in Int, s2 \in Int, s3 \in Int, s4 \in Int, s5 \in Int, s6 \in Int, s7 \in Int :
        /\ s1 = request.vals["SessionId"] /\ s2 = request.vals["DestinationHost"]
        /\ s3 = request.vals["DestinationRealm"] /\ s4 = request.vals["ServiceContextId"]
        /\ s5 = request.vals["RequestType"] /\ s6 = request.vals["RequestNumber"]
        /\ s7 = request.vals["AuthApplicationId"]
  BY DEF Asked, Copied
<1>2. PICK with : with = AnswerValues(request)
  OBVIOUS
<1>3. with = << <<"SessionId", s1>>, <<"ResultCode", 2001>>, <<"OriginHost", s2>>, <<"OriginRealm", s3>>,
                <<"ServiceContextId", s4>>, <<"RequestType", s5>>, <<"RequestNumber", s6>>,
                <<"AuthApplicationId", s7>> >>
  BY <1>1, <1>2 DEF AnswerValues
<1>4. /\ Len(with) = 8
      /\ with[1][1] = "SessionId" /\ with[2][1] = "ResultCode" /\ with[3][1] = "OriginHost"
      /\ with[4][1] = "OriginRealm" /\ with[5][1] = "ServiceContextId" /\ with[6][1] = "RequestType"
      /\ with[7][1] = "RequestNumber" /\ with[8][1] = "AuthApplicationId"
  BY <1>3
<1>5. /\ with[1][2] \in Int /\ with[2][2] \in Int /\ with[3][2] \in Int
      /\ with[4][2] \in Int /\ with[5][2] \in Int /\ with[6][2] \in Int
      /\ with[7][2] \in Int /\ with[8][2] \in Int
  BY <1>3
<1>6. \A i \in 1..8 : i \in {1, 2, 3, 4, 5, 6, 7, 8}
  OBVIOUS
<1>7. \A name \in {"SessionId", "ResultCode", "OriginHost", "OriginRealm", "ServiceContextId", "RequestType",
                   "RequestNumber", "AuthApplicationId"} :
        \E row \in Writes["CCA"] : IsValue(row) /\ row.name = name
  <2>1. \A name, code, vendor, form : Value(name, code, vendor, form).name = name /\ IsValue(Value(name, code, vendor, form))
    BY DEF Value, IsValue
  <2>2. /\ Value("SessionId", 263, Plain, "text") \in Writes["CCA"] /\ Value("ResultCode", 268, Plain, "int") \in Writes["CCA"]
        /\ Value("OriginHost", 264, Plain, "text") \in Writes["CCA"] /\ Value("OriginRealm", 296, Plain, "text") \in Writes["CCA"]
        /\ Value("AuthApplicationId", 258, Plain, "int") \in Writes["CCA"] /\ Value("ServiceContextId", 461, Plain, "text") \in Writes["CCA"]
        /\ Value("RequestNumber", 415, Plain, "int") \in Writes["CCA"] /\ Value("RequestType", 416, Plain, "int") \in Writes["CCA"]
    BY DEF Writes, CCAWrites
  <2> QED  BY <2>1, <2>2
<1>8. Len(with) \in Nat /\ 1..Len(with) = 1..8
  BY <1>4
<1>9. \A i \in 1..8 : /\ with[i][2] \in Int /\ with[i][1] # "ResultCodeExt"
                      /\ \E row \in Writes["CCA"] : IsValue(row) /\ row.name = with[i][1]
  BY <1>4, <1>5, <1>6, <1>7
<1>10. \A i, j \in 1..8 : with[i][1] = with[j][1] => i = j
  BY <1>4, <1>6
<1> QED  BY <1>2, <1>8, <1>9, <1>10 DEF Setters

(* The first i MSCCs of the request have been echoed. *)
EchoedFirst(msccs, vals, i, new) ==
  /\ Sound(new, {}) /\ Len(new.objects) = i + 1
  /\ new.objects[1].class = "CCA" /\ new.objects[1].vals = vals
  /\ new.objects[1].kids["MSCC"] \in Seq(Nat) /\ Len(new.objects[1].kids["MSCC"]) = i
  /\ \A j \in 1..i : new.objects[1].kids["MSCC"][j] = j + 1 /\ Echoed(msccs[j], new.objects[j + 1])

(* One MSCC more. *)
LEMMA NextEchoed ==
  ASSUME NEW msccs, NEW vals, NEW i \in Nat, i > 0, IsAsked(msccs[i]), NEW t, EchoedFirst(msccs, vals, i - 1, t)
  PROVE  EchoedFirst(msccs, vals, i, EchoMSCC(t, msccs[i]))
<1>1. PICK new : new = EchoMSCC(t, msccs[i])
  OBVIOUS
<1>2. Echoes(t, msccs[i], new)
  BY <1>1, EchoMSCCIs DEF EchoedFirst
<1>3. Len(t.objects) = i
  BY DEF EchoedFirst
<1>4. PICK kids \in Seq(Nat) : kids = t.objects[1].kids["MSCC"]
  BY DEF EchoedFirst
<1>5. Len(kids) = i - 1 /\ \A j \in 1 .. i - 1 : kids[j] = j + 1 /\ Echoed(msccs[j], t.objects[j + 1])
  BY <1>4 DEF EchoedFirst
<1>6. PICK o \in Nat : o = i + 1
  OBVIOUS
<1>7. /\ Sound(new, {}) /\ Len(new.objects) = o /\ new.objects[1].class = "CCA" /\ new.objects[1].vals = vals
      /\ new.objects[1].kids["MSCC"] = Append(kids, o) /\ Echoed(msccs[i], new.objects[o])
      /\ \A p \in 2..i : new.objects[p] = t.objects[p]
  BY <1>2, <1>3, <1>4, <1>6 DEF Echoes, EchoedFirst
<1>8. PICK longer : longer = Append(kids, o)
  OBVIOUS
<1>9. longer \in Seq(Nat) /\ Len(longer) = i /\ longer[i] = o /\ \A j \in 1 .. i - 1 : longer[j] = kids[j]
  BY <1>5, <1>8
<1>10. ASSUME NEW j \in 1..i
       PROVE  longer[j] = j + 1 /\ Echoed(msccs[j], new.objects[j + 1])
  <2>1. CASE j = i
    BY <1>6, <1>7, <1>9, <2>1
  <2>2. CASE j # i
    <3>1. PICK p \in 2..i : p = j + 1
      BY <2>2
    <3>2. j \in 1 .. i - 1
      BY <2>2
    <3>3. longer[j] = j + 1
      BY <1>5, <1>9, <3>2
    <3>4. Echoed(msccs[j], t.objects[p])
      BY <1>5, <3>1, <3>2
    <3>5. Echoed(msccs[j], new.objects[p])
      BY <1>7, <3>4
    <3> QED  BY <3>1, <3>3, <3>5
  <2> QED  BY <2>1, <2>2
<1>11. new.objects[1].kids["MSCC"] = longer
  BY <1>7, <1>8
<1> QED  BY <1>1, <1>6, <1>7, <1>9, <1>10, <1>11 DEF EchoedFirst

(* The answer to a request, before it is sent. *)
AnswerMade(request, new) ==
  /\ Sound(new, {}) /\ new.objects[1].class = "CCA"
  /\ \A n \in {"SessionId", "RequestNumber", "RequestType", "ServiceContextId", "AuthApplicationId"} :
       new.objects[1].vals[n] = request.vals[n]
  /\ new.objects[1].vals["OriginHost"] = request.vals["DestinationHost"]
  /\ new.objects[1].vals["ResultCode"] = 2001 /\ new.objects[1].vals["ResultCodeExt"] = Unset
  /\ Len(new.objects) = Len(request.kids["MSCC"]) + 1
  /\ new.objects[1].kids["MSCC"] \in Seq(Nat)
  /\ Len(new.objects[1].kids["MSCC"]) = Len(request.kids["MSCC"])
  /\ \A i \in 1..Len(request.kids["MSCC"]) :
       new.objects[1].kids["MSCC"][i] = i + 1 /\ Echoed(request.kids["MSCC"][i], new.objects[i + 1])

(* The members it has been given. *)
LEMMA AnswerCopies ==
  ASSUME NEW request, Asked(request),
         NEW copied, copied = SetValues(NewMessage("CCA"), 1, AnswerValues(request))
  PROVE  /\ Sound(copied, {}) /\ Len(copied.objects) = 1 /\ copied.objects[1].class = "CCA"
         /\ copied.objects[1].kids["MSCC"] = << >>
         /\ \A n \in {"SessionId", "RequestNumber", "RequestType", "ServiceContextId", "AuthApplicationId"} :
              copied.objects[1].vals[n] = request.vals[n]
         /\ copied.objects[1].vals["OriginHost"] = request.vals["DestinationHost"]
         /\ copied.objects[1].vals["ResultCode"] = 2001 /\ copied.objects[1].vals["ResultCodeExt"] = Unset
<1>1. PICK msg : msg = NewMessage("CCA")
  OBVIOUS
<1>2. PICK object : object = NewObject("CCA")
  OBVIOUS
<1>3. Sound(msg, {}) /\ msg.objects = <<object>>
  BY <1>1, <1>2, NewMessageSound
<1>4. Len(msg.objects) = 1 /\ msg.objects[1] = object /\ 1 \in 1..Len(msg.objects)
  BY <1>3
<1>5. object.class = "CCA" /\ object.kids["MSCC"] = << >> /\ "ResultCodeExt" \in ValueNames("CCA")
      /\ object.vals["ResultCodeExt"] = Unset
  <2>1. Value("ResultCodeExt", 268, Plain, "int") \in Writes["CCA"]
    BY DEF Writes, CCAWrites
  <2>2. Value("ResultCodeExt", 268, Plain, "int").name = "ResultCodeExt" /\ IsValue(Value("ResultCodeExt", 268, Plain, "int"))
    BY DEF Value, IsValue
  <2>3. "ResultCodeExt" \in ValueNames("CCA")
    BY <2>1, <2>2, AnswerRows, RowNames
  <2>4. "MSCC" \in ChildNames("CCA")
    BY MSCCsOf
  <2> QED  BY <1>2, <2>3, <2>4 DEF NewObject, Initial, MadeWithout
<1>6. PICK with : with = AnswerValues(request)
  OBVIOUS
<1>7. /\ Len(with) = 8
      /\ with[1] = <<"SessionId", request.vals["SessionId"]>> /\ with[2] = <<"ResultCode", 2001>>
      /\ with[3] = <<"OriginHost", request.vals["DestinationHost"]>>
      /\ with[4] = <<"OriginRealm", request.vals["DestinationRealm"]>>
      /\ with[5] = <<"ServiceContextId", request.vals["ServiceContextId"]>>
      /\ with[6] = <<"RequestType", request.vals["RequestType"]>>
      /\ with[7] = <<"RequestNumber", request.vals["RequestNumber"]>>
      /\ with[8] = <<"AuthApplicationId", request.vals["AuthApplicationId"]>>
  BY <1>6 DEF AnswerValues
<1>8. ValuesSet(msg, 1, with, Len(with), copied)
  <2>1. Setters(msg.objects[1].class, with)
    BY <1>4, <1>5, <1>6, AnswerSetters
  <2> QED  BY <1>1, <1>3, <1>4, <1>6, <2>1, SetValuesIs
<1>9. \A j \in 1..8 : with[j][1] \notin Fussy => copied.objects[1].vals[with[j][1]] = with[j][2]
  BY <1>7, <1>8, SMTT(30), ZenonT(30) DEF ValuesSet
<1>10. {"SessionId", "RequestNumber", "RequestType", "ServiceContextId", "AuthApplicationId", "OriginHost", "ResultCode"}
         \cap Fussy = {}
  BY DEF Fussy, Lost
<1>11. \A n, v : \A j \in 1..8 : with[j] = <<n, v>> /\ n \notin Fussy => copied.objects[1].vals[n] = v
  BY <1>9
<1>12. \A j \in 1..8 : with[j][1] # "ResultCodeExt"
  <2>1. \A j \in 1..8 : j \in {1, 2, 3, 4, 5, 6, 7, 8}
    OBVIOUS
  <2> QED  BY <1>7, <2>1
<1>13. copied.objects[1].vals["ResultCodeExt"] = Unset
  BY <1>4, <1>5, <1>7, <1>8, <1>12 DEF ValuesSet
<1>14. 1 \in 1..8 /\ 2 \in 1..8 /\ 3 \in 1..8 /\ 5 \in 1..8 /\ 6 \in 1..8 /\ 7 \in 1..8 /\ 8 \in 1..8
  OBVIOUS
<1>15. /\ copied.objects[1].vals["SessionId"] = request.vals["SessionId"]
       /\ copied.objects[1].vals["RequestNumber"] = request.vals["RequestNumber"]
       /\ copied.objects[1].vals["RequestType"] = request.vals["RequestType"]
       /\ copied.objects[1].vals["ServiceContextId"] = request.vals["ServiceContextId"]
       /\ copied.objects[1].vals["AuthApplicationId"] = request.vals["AuthApplicationId"]
  BY <1>7, <1>10, <1>11, <1>14
<1>16. /\ copied.objects[1].vals["OriginHost"] = request.vals["DestinationHost"]
       /\ copied.objects[1].vals["ResultCode"] = 2001
  BY <1>7, <1>10, <1>11, <1>14
<1> QED  BY <1>4, <1>5, <1>8, <1>13, <1>15, <1>16 DEF ValuesSet

(* The constructor gives what the request asks for. *)
LEMMA AnswerIsMade ==
  ASSUME NEW request, Asked(request)
  PROVE  AnswerMade(request, AnswerTo(request))
<1>1. PICK copied : copied = SetValues(NewMessage("CCA"), 1, AnswerValues(request))
  OBVIOUS
<1>2. PICK coded : coded = [copied EXCEPT !.heap[1] = SetAVP(@, IntAVP(1067, Plain, Unset))]
  OBVIOUS
<1>3. /\ Sound(copied, {}) /\ Len(copied.objects) = 1 /\ copied.objects[1].class = "CCA"
      /\ copied.objects[1].kids["MSCC"] = << >>
  BY <1>1, AnswerCopies
<1>4. Sound(coded, {}) /\ coded.objects = copied.objects
  BY <1>2, <1>3, CodedSound
<1>5. PICK msccs : msccs = request.kids["MSCC"]
  OBVIOUS
<1>6. PICK n \in Nat : n = Len(msccs)
  BY <1>5 DEF Asked
<1>7. \A i \in 1..n : IsAsked(msccs[i])
  BY <1>5, <1>6 DEF Asked
<1>8. PICK vals : vals = copied.objects[1].vals
  OBVIOUS
<1> DEFINE Step(i, t) == EchoMSCC(t, msccs[i])
           T == [i \in 0..n |-> {t \in Message : EchoedFirst(msccs, vals, i, t)}]
           next == [q \in (1..n) \X Message |-> Step(q[1], q[2])]
           IsEchoed(f) == f = [i \in 0..n |-> IF i = 0 THEN coded ELSE Step(i, f[i - 1])]
<1>9. \A i \in 0..n : \A t : t \in T[i] <=> EchoedFirst(msccs, vals, i, t)
  BY DEF EchoedFirst, Sound, Typed
<1>10. \A i \in 1..n : \A t : EchoedFirst(msccs, vals, i - 1, t) => EchoedFirst(msccs, vals, i, Step(i, t))
  BY <1>7, NextEchoed
<1>11. \A i \in 1..n : \A t \in T[i - 1] : t \in Message /\ next[<<i, t>>] = Step(i, t)
  <2>1. \A i \in 1..n : \A t \in T[i - 1] : t \in Message
    OBVIOUS
  <2> HIDE DEF T, Step
  <2> QED  BY <2>1
<1>12. coded \in T[0]
  <2>1. EchoedFirst(msccs, vals, 0, coded)
    <3>1. << >> \in Seq(Nat) /\ Len(<< >>) = 0 /\ 0 + 1 = 1 /\ 1..0 = {}
      OBVIOUS
    <3> QED  BY <1>3, <1>4, <1>8, <3>1 DEF EchoedFirst
  <2> QED  BY <1>9, <2>1
<1> HIDE DEF T, next, Step
<1>13. \A i \in 1..n : \A t \in T[i - 1] : Step(i, t) \in T[i]
  BY <1>9, <1>10
<1>14. \A i \in 1..n : \A t \in T[i - 1] : next[<<i, t>>] \in T[i]
  BY <1>11, <1>13
<1>15. PICK f : Walks(f, n, T, coded, next)
  BY <1>12, <1>14, WalkExists
<1>16. IsEchoed(f)
  <2>1. f[0] = coded /\ f = [i \in 0..n |-> f[i]]
    BY <1>15 DEF Walks
  <2>2. \A i \in 1..n : f[i] = Step(i, f[i - 1])
    <3> SUFFICES ASSUME NEW i \in 1..n PROVE f[i] = Step(i, f[i - 1])
      OBVIOUS
    <3>1. i - 1 \in 0..n
      OBVIOUS
    <3>2. f[i - 1] \in T[i - 1] /\ f[i] = next[<<i, f[i - 1]>>]
      BY <1>15, <3>1 DEF Walks
    <3> QED  BY <1>11, <3>2
  <2>3. \A i \in 0..n : f[i] = IF i = 0 THEN coded ELSE Step(i, f[i - 1])
    <3>1. \A i \in 0..n : i = 0 \/ (i # 0 /\ i \in 1..n)
      OBVIOUS
    <3> QED  BY <2>1, <2>2, <3>1, Zenon
  <2> QED  BY <2>1, <2>3
<1> DEFINE g == CHOOSE g : IsEchoed(g)
<1>17. AnswerTo(request) = g[n]
  BY <1>1, <1>2, <1>5, <1>6 DEF AnswerTo, AnswerValues, Step
<1>18. IsEchoed(g)
  <2> HIDE DEF IsEchoed
  <2> QED  BY <1>16
<1> HIDE DEF g
<1>19. g[0] = coded /\ \A i \in 1..n : g[i] = Step(i, g[i - 1])
  <2>1. \A i \in 0..n : g[i] = IF i = 0 THEN coded ELSE Step(i, g[i - 1])
    BY <1>18, Zenon
  <2> HIDE DEF IsEchoed
  <2> QED  BY <2>1
<1>20. \A i \in 0..n : g[i] \in T[i]
  BY <1>12, <1>13, <1>19, WalkStays
<1>21. EchoedFirst(msccs, vals, n, g[n])
  BY <1>9, <1>20
<1>22. PICK new : new = g[n]
  OBVIOUS
<1>23. /\ Sound(new, {}) /\ Len(new.objects) = n + 1 /\ new.objects[1].class = "CCA" /\ new.objects[1].vals = vals
       /\ new.objects[1].kids["MSCC"] \in Seq(Nat) /\ Len(new.objects[1].kids["MSCC"]) = n
       /\ \A j \in 1..n : new.objects[1].kids["MSCC"][j] = j + 1 /\ Echoed(msccs[j], new.objects[j + 1])
  BY <1>21, <1>22 DEF EchoedFirst
<1>24. /\ \A name \in {"SessionId", "RequestNumber", "RequestType", "ServiceContextId", "AuthApplicationId"} :
            vals[name] = request.vals[name]
       /\ vals["OriginHost"] = request.vals["DestinationHost"]
       /\ vals["ResultCode"] = 2001 /\ vals["ResultCodeExt"] = Unset
  BY <1>1, <1>8, AnswerCopies
<1>25. AnswerMade(request, new)
  <2>1. request.kids["MSCC"] = msccs /\ Len(request.kids["MSCC"]) = n
    BY <1>5, <1>6
  <2>2. \A name \in {"SessionId", "RequestNumber", "RequestType", "ServiceContextId", "AuthApplicationId"} :
          new.objects[1].vals[name] = request.vals[name]
    <3>1. new.objects[1].vals = vals
      BY <1>23
    <3> QED  BY <1>24, <3>1
  <2>3. /\ new.objects[1].vals["OriginHost"] = request.vals["DestinationHost"]
        /\ new.objects[1].vals["ResultCode"] = 2001 /\ new.objects[1].vals["ResultCodeExt"] = Unset
    BY <1>23, <1>24
  <2>4. /\ Len(new.objects) = Len(request.kids["MSCC"]) + 1
        /\ Len(new.objects[1].kids["MSCC"]) = Len(request.kids["MSCC"])
        /\ \A i \in 1..Len(request.kids["MSCC"]) :
             new.objects[1].kids["MSCC"][i] = i + 1 /\ Echoed(request.kids["MSCC"][i], new.objects[i + 1])
    BY <1>23, <2>1
  <2> QED  BY <1>23, <2>2, <2>3, <2>4 DEF AnswerMade
<1> QED  BY <1>17, <1>22, <1>25

(* Some octets and what they hold, as far as it has been given. *)
LEMMA NeverLost ==
  ASSUME NEW object
  PROVE  /\ object.class = "CCA" /\ object.vals["ResultCodeExt"] = Unset =>
              \A n \in {"SessionId", "RequestNumber", "RequestType", "ServiceContextId", "AuthApplicationId",
                        "OriginHost", "ResultCode"} : ~Loses(object, n)
         /\ ~Loses(object, "MSCC") /\ ~Loses(object, "RatingGroup")
BY DEF Loses, Spoils, Forgotten, MadeWithout, ReadWithout

----------------------------------------------------------------------------
(* What is received.                                                       *)

(* The octets of a sound message are those of its nodes. *)
LEMMA SoundStands ==
  ASSUME NEW msg, NEW loose, Sound(msg, loose)
  PROVE  \A o \in 1..Len(msg.objects) : IsNode(msg.heap[o]) /\ Stands(msg.heap[o], EncodeAVPs(msg.heap)[o])
<1> SUFFICES ASSUME NEW o \in 1..Len(msg.objects)
             PROVE  IsNode(msg.heap[o]) /\ Stands(msg.heap[o], EncodeAVPs(msg.heap)[o])
  OBVIOUS
<1>1. ShapedNode(msg.heap[o], o, Len(msg.objects)) /\ o \in DOMAIN msg.heap
  BY TypedParts DEF Sound
<1>2. IsNode(msg.heap[o]) /\ (o = 1 \/ 263 \notin DOMAIN msg.heap[o])
  BY <1>1 DEF ShapedNode
<1> QED  BY <1>1, <1>2, EncodedStands

(* Whatever a received message holds, its values are numbers. *)
LEMMA DataFound ==
  ASSUME NEW node, IsNode(node), NEW avps, Stands(node, avps), NEW c
  PROVE  /\ \E Y : AllAVPData(avps, c) \in Seq(Y)
         /\ \A i \in 1..Len(AllAVPData(avps, c)) : AllAVPData(avps, c)[i].data \in Data
         /\ GetAVPData(avps, c) # << >> => GetAVPData(avps, c)[1].data \in Data
<1>1. PICK filed \in Seq(Leaf) : filed = Filed(node, c)
  <2>1. c \in DOMAIN node => Members(node[c]) \in Seq(Leaf)
    BY MembersAreLeaves
  <2>2. << >> \in Seq(Leaf)
    OBVIOUS
  <2> QED  BY <2>1, <2>2 DEF Filed
<1>2. PICK found : found = AllAVPData(avps, c)
  OBVIOUS
<1>3. AllAlike(filed, found) /\ (\E Y : found \in Seq(Y)) /\ GotFirst(filed, GetAVPData(avps, c))
  BY <1>1, <1>2 DEF Stands
<1>4. \A i \in 1..Len(filed) : filed[i].data \in Data
  <2>1. \A leaf \in Leaf : leaf.data \in Data
    BY DEF Leaf
  <2>2. \A i \in 1..Len(filed) : filed[i] \in Leaf
    BY <1>1
  <2> QED  BY <2>1, <2>2
<1>5. \A i \in 1..Len(found) : found[i].data \in Data
  BY <1>1, <1>3, <1>4 DEF AllAlike, Alike
<1>6. GetAVPData(avps, c) # << >> => GetAVPData(avps, c)[1].data \in Data
  <2>1. filed # << >> => 1 \in 1..Len(filed)
    BY <1>1
  <2> QED  BY <1>3, <1>4, <2>1 DEF GotFirst, Alike
<1> QED  BY <1>2, <1>3, <1>5, <1>6

(* What is read of data is a number. *)
LEMMA ReadAsTyped ==
  ASSUME NEW data \in Data, NEW form
  PROVE  ReadAs(form, data) \in Int
BY DEF ReadAs, Data, Misread

(* What is read of a value is a number. *)
LEMMA ReadValueTyped ==
  ASSUME NEW node, IsNode(node), NEW avps, Stands(node, avps), NEW row, row.form # "parameter",
         NEW initial \in Int
  PROVE  ReadValue(row, avps, initial) \in Int
<1>1. PICK avp : avp = GetAVPData(avps, row.code)
  OBVIOUS
<1>2. avp # << >> => avp[1].data \in Data
  BY <1>1, DataFound
<1>3. CASE avp = << >> /\ row.form # "hidden"
  <2>1. ReadValue(row, avps, initial) = initial
    BY <1>1, <1>3 DEF ReadValue
  <2> QED  BY <2>1
<1>4. CASE avp # << >> /\ row.form # "hidden"
  <2>1. ReadValue(row, avps, initial) = ReadAs(row.form, avp[1].data)
    BY <1>1, <1>4 DEF ReadValue
  <2> QED  BY <1>2, <1>4, <2>1, ReadAsTyped
<1>5. CASE row.form = "hidden"
  <2>1. ReadValue(row, avps, initial) = Unset
    BY <1>5 DEF ReadValue
  <2> QED  BY <2>1 DEF Unset
<1> QED  BY <1>3, <1>4, <1>5

(* A number, whether a constructor gives it or forgets it. *)
LEMMA InitialIsInt == \A without, k, n : Initial(without, k, n) \in Int
BY DEF Initial, Unset, Undefined

(* What is read of service identifiers are numbers. *)
LEMMA ServicesTyped ==
  ASSUME NEW node, IsNode(node), NEW wire, NEW avps, Stands(node, avps)
  PROVE  ReadList(ReadRow("MSCC", "ServiceIdentifier"), wire, avps) \in Seq(Int)
<1>1. PICK code : code = 439
  OBVIOUS
<1>2. PICK row : row = Read("ServiceIdentifier", code, "ints")
  OBVIOUS
<1>3. row.code = code /\ row.form = "ints" /\ ReadRow("MSCC", "ServiceIdentifier") = row
  BY <1>1, <1>2, ListRows DEF Read
<1>4. PICK found : found = AllAVPData(avps, code)
  OBVIOUS
<1>5. ReadList(row, wire, avps) = [i \in DOMAIN found |-> ReadAs("int", found[i].data)]
  BY <1>3, <1>4 DEF ReadList
<1>6. (\E Y : found \in Seq(Y)) /\ \A i \in 1..Len(found) : found[i].data \in Data
  BY <1>4, DataFound
<1>7. DOMAIN found = 1..Len(found) /\ Len(found) \in Nat
  BY <1>6
<1>8. \A i \in 1..Len(found) : ReadAs("int", found[i].data) \in Int
  BY <1>6, ReadAsTyped
<1> QED  BY <1>3, <1>5, <1>7, <1>8

(* An MSCC that is read is one the answer can take. *)
LEMMA MSCCAsked ==
  ASSUME NEW wire, NEW s, NEW node, IsNode(node), Stands(node, wire[s])
  PROVE  IsAsked(ReadObject("MSCC", wire, s))
<1>1. PICK read : read = ReadObject("MSCC", wire, s)
  OBVIOUS
<1>2. "MSCC" \in DOMAIN Writes /\ ListNames("MSCC") = {"ServiceIdentifier", "TriggerTypes"}
  BY ListRows
<1>3. PICK row \in Reads["MSCC"] : row = Read("RatingGroup", 432, "int")
  BY DEF Reads, MSCCReads
<1>4. row.name = "RatingGroup" /\ row.form # "parameter" /\ IsValue(row)
  BY <1>3 DEF Read, IsValue
<1>5. ReadRow("MSCC", "RatingGroup") = row
  BY <1>2, <1>3, <1>4, ReadRowIs
<1>6. "RatingGroup" \in {r.name : r \in {x \in Reads["MSCC"] : IsValue(x)}} \ ListNames("MSCC")
  BY <1>2, <1>3, <1>4
<1>7. read.vals["RatingGroup"] = ReadValue(row, wire[s], Initial(ReadWithout, "MSCC", "RatingGroup"))
  BY <1>1, <1>5, <1>6 DEF ReadObject
<1>8. read.vals["RatingGroup"] \in Int
  BY <1>4, <1>7, InitialIsInt, ReadValueTyped
<1>9. read.lists["ServiceIdentifier"] = ReadList(ReadRow("MSCC", "ServiceIdentifier"), wire, wire[s])
  BY <1>1, <1>2 DEF ReadObject
<1>10. read.lists["ServiceIdentifier"] \in Seq(Int)
  BY <1>9, ServicesTyped
<1> QED  BY <1>1, <1>8, <1>10 DEF IsAsked

(* The MSCCs of a received request are stretches of its octets. *)
LEMMA MSCCsFound ==
  ASSUME NEW msg, NEW loose, Sound(msg, loose), msg.objects[1].class = "CCR", NEW wire, wire = EncodeAVPs(msg.heap),
         NEW kids, kids = ReadKids(ReadRow("CCR", "MSCC"), wire[1], InitialKids("CCR", "MSCC"))
  PROVE  /\ Len(kids) \in Nat /\ DOMAIN kids = 1..Len(kids)
         /\ \A i \in 1..Len(kids) : kids[i] \in 1..Len(msg.objects)
<1>1. PICK last \in Nat \ {0} : last = Len(msg.objects)
  BY TypedParts DEF Sound
<1>2. PICK node : node = msg.heap[1]
  OBVIOUS
<1>3. PICK avps : avps = wire[1]
  OBVIOUS
<1>4. 1 \in 1..Len(msg.objects)
  BY <1>1
<1>5. ShapedNode(node, 1, last) /\ IsNode(node) /\ Stands(node, avps)
  BY <1>1, <1>2, <1>3, <1>4, SoundAt, SoundStands
<1>6. PICK code : code = 456
  OBVIOUS
<1>7. PICK row \in Reads["CCR"] : row = All("MSCC", code, "MSCC")
  BY <1>6 DEF Reads, CCRReads
<1>8. row.name = "MSCC" /\ row.code = code /\ row.rule = "all"
  BY <1>7 DEF All
<1>9. ReadRow("CCR", "MSCC") = row
  BY <1>7, <1>8, MSCCsOf, ReadRowIs
<1>10. PICK found : found = AllAVPData(avps, code)
  OBVIOUS
<1>11. kids = IF found = << >> THEN << >> ELSE [i \in DOMAIN found |-> found[i].sub]
  <2>1. InitialKids("CCR", "MSCC") = << >>
    BY DEF InitialKids, ReadWithout
  <2> QED  BY <1>3, <1>8, <1>9, <1>10, <2>1 DEF ReadKids
<1>12. AllAlike(Filed(node, code), found) /\ \E Y : found \in Seq(Y)
  BY <1>5, <1>10 DEF Stands
<1>13. Len(found) \in Nat /\ DOMAIN found = 1..Len(found)
  BY <1>12
<1>14. GetAVPType(code) # "BASIC"
  BY <1>6 DEF GetAVPType
<1>15. \A i \in 1..Len(found) : found[i].sub \in 1..last
  <2> SUFFICES ASSUME NEW i \in 1..Len(found) PROVE found[i].sub \in 1..last
    OBVIOUS
  <2>1. Len(Filed(node, code)) = Len(found)
    BY <1>12 DEF AllAlike
  <2>2. code \in DOMAIN node
    BY <1>13, <2>1 DEF Filed
  <2>3. PICK filed : filed = Members(node[code])
    OBVIOUS
  <2>4. Filed(node, code) = filed
    BY <2>2, <2>3 DEF Filed
  <2>5. i \in 1..Len(filed) /\ found[i].sub = filed[i].node
    BY <1>12, <2>1, <2>4 DEF AllAlike, Alike
  <2>6. filed \in Seq(Leaf) /\ filed[i].code = code
    BY <1>5, <2>2, <2>3, <2>5, MembersAreLeaves
  <2>7. Shaped(1, last, filed[i])
    BY <1>5, <2>2, <2>3, <2>5 DEF ShapedNode
  <2>8. filed[i].type = "BASIC" \/ filed[i].type = "GROUPED"
    <3>1. \A leaf \in Leaf : leaf.type \in {"BASIC", "GROUPED"}
      BY DEF Leaf
    <3>2. filed[i] \in Leaf
      BY <2>5, <2>6
    <3> QED  BY <3>1, <3>2
  <2>9. filed[i].node \in 2..last
    BY <1>14, <2>6, <2>7, <2>8 DEF Shaped
  <2> QED  BY <2>5, <2>9
<1>16. Len(kids) = Len(found) /\ DOMAIN kids = 1..Len(found) /\ \A i \in 1..Len(found) : kids[i] = found[i].sub
  BY <1>11, <1>13
<1> QED  BY <1>1, <1>13, <1>15, <1>16

(* A child that has an index is somewhere. *)
LEMMA ChildIsRead == \A k, wire : \A n \in Nat : ReadChild(k, wire, n) = ReadObject(k, wire, n)
BY DEF ReadChild, Undefined

(* A request that is read, whatever it is, can be answered. *)
LEMMA ReceivedAsked ==
  ASSUME NEW msg, NEW loose, Sound(msg, loose), msg.objects[1].class = "CCR"
  PROVE  Asked(Received(msg))
<1>1. PICK wire : wire = EncodeAVPs(msg.heap)
  OBVIOUS
<1>2. PICK root : root = ReadObject("CCR", wire, 1)
  OBVIOUS
<1>3. PICK request : request = Received(msg)
  OBVIOUS
<1>4. /\ request.vals = root.vals
      /\ request.kids = [name \in DOMAIN root.kids |->
                           [i \in DOMAIN root.kids[name] |-> ReadChild(ReadRow("CCR", name).class, wire, root.kids[name][i])]]
  BY <1>1, <1>2, <1>3 DEF Received, ReadMessage, WithChildren
<1>5. "CCR" \in DOMAIN Writes /\ 1 \in 1..Len(msg.objects) /\ ListNames("CCR") = {}
  <2>1. "CCR" \in DOMAIN Writes
    BY MSCCsOf
  <2> QED  BY <2>1, TypedParts, ListsAreOf DEF Sound, ListsOf
<1>6. IsNode(msg.heap[1]) /\ Stands(msg.heap[1], wire[1])
  BY <1>1, <1>5, SoundStands
<1>7. \A n \in Copied : request.vals[n] \in Int
  <2> SUFFICES ASSUME NEW n \in Copied PROVE root.vals[n] \in Int
    BY <1>4
  <2>1. PICK row \in Reads["CCR"] : row.name = n /\ IsValue(row) /\ row.form # "parameter"
    <3>1. \A name, code, form : LET row == Read(name, code, form) IN row.name = name /\ IsValue(row) /\ row.form = form
      BY DEF Read, IsValue
    <3>2. /\ Read("SessionId", 263, "text") \in Reads["CCR"] /\ Read("DestinationHost", 293, "text") \in Reads["CCR"]
          /\ Read("DestinationRealm", 283, "text") \in Reads["CCR"] /\ Read("ServiceContextId", 461, "text") \in Reads["CCR"]
          /\ Read("RequestType", 416, "int") \in Reads["CCR"] /\ Read("RequestNumber", 415, "int") \in Reads["CCR"]
          /\ Read("AuthApplicationId", 258, "int") \in Reads["CCR"]
      BY DEF Reads, CCRReads
    <3> QED  BY <3>1, <3>2 DEF Copied
  <2>2. ReadRow("CCR", n) = row
    BY <1>5, <2>1, ReadRowIs
  <2>3. n \in {r.name : r \in {x \in Reads["CCR"] : IsValue(x)}} \ ListNames("CCR")
    BY <1>5, <2>1
  <2>4. root.vals[n] = ReadValue(row, wire[1], Initial(ReadWithout, "CCR", n))
    BY <1>2, <2>2, <2>3 DEF ReadObject
  <2> QED  BY <1>6, <2>1, <2>4, InitialIsInt, ReadValueTyped
<1>8. PICK row \in Reads["CCR"] : row = All("MSCC", 456, "MSCC")
  BY DEF Reads, CCRReads
<1>9. row.name = "MSCC" /\ ~IsValue(row) /\ row.class = "MSCC"
  BY <1>8 DEF All, IsValue
<1>10. ReadRow("CCR", "MSCC") = row
  BY <1>5, <1>8, <1>9, ReadRowIs
<1>11. PICK kids : kids = ReadKids(ReadRow("CCR", "MSCC"), wire[1], InitialKids("CCR", "MSCC"))
  OBVIOUS
<1>12. "MSCC" \in DOMAIN root.kids /\ root.kids["MSCC"] = kids
  <2>1. "MSCC" \in {r.name : r \in {x \in Reads["CCR"] : ~IsValue(x)}}
    BY <1>9
  <2> QED  BY <1>2, <1>11, <2>1 DEF ReadObject
<1>13. request.kids["MSCC"] = [i \in DOMAIN kids |-> ReadChild("MSCC", wire, kids[i])]
  BY <1>4, <1>9, <1>10, <1>12
<1>14. Len(kids) \in Nat /\ DOMAIN kids = 1..Len(kids) /\ \A i \in 1..Len(kids) : kids[i] \in 1..Len(msg.objects)
  BY <1>1, <1>11, MSCCsFound
<1>18. \A i \in 1..Len(kids) : ReadChild("MSCC", wire, kids[i]) = ReadObject("MSCC", wire, kids[i])
  BY <1>14, ChildIsRead
<1>15. \A i \in 1..Len(kids) : IsAsked(ReadObject("MSCC", wire, kids[i]))
  BY <1>1, <1>14, SoundStands, MSCCAsked
<1>16. PICK msccs : msccs = request.kids["MSCC"]
  OBVIOUS
<1>17. Len(msccs) = Len(kids) /\ DOMAIN msccs = 1..Len(kids) /\ \A i \in 1..Len(kids) : IsAsked(msccs[i])
  <2>1. \A i \in 1..Len(kids) : msccs[i] = ReadObject("MSCC", wire, kids[i])
    BY <1>13, <1>14, <1>16, <1>18
  <2> QED  BY <1>13, <1>14, <1>15, <1>16, <2>1
<1> QED  BY <1>3, <1>7, <1>14, <1>16, <1>17 DEF Asked

(* An answer that is read says what the request asked. *)
LEMMA AnswerRead ==
  ASSUME NEW request, Asked(request), NEW new, AnswerMade(request, new)
  PROVE  Answers(request, Received(new))
<1>1. PICK wire : wire = EncodeAVPs(new.heap)
  OBVIOUS
<1>2. PICK root : root = ReadObject("CCA", wire, 1)
  OBVIOUS
<1>3. PICK answer : answer = Received(new)
  OBVIOUS
<1>4. Sound(new, {}) /\ new.objects[1].class = "CCA" /\ 1 \in 1..Len(new.objects)
  BY TypedParts DEF AnswerMade, Sound
<1>5. /\ answer.vals = root.vals
      /\ answer.kids = [name \in DOMAIN root.kids |->
                          [i \in DOMAIN root.kids[name] |-> ReadChild(ReadRow("CCA", name).class, wire, root.kids[name][i])]]
  BY <1>1, <1>2, <1>3, <1>4 DEF Received, ReadMessage, WithChildren
<1>6. PICK object : object = new.objects[1]
  OBVIOUS
<1>7. "CCA" \in DOMAIN Writes /\ object \in ObjectsOf("CCA") /\ object.class = "CCA"
  BY <1>4, <1>6, AnswerRows, SoundAt
<1>8. Agrees(object, root)
  <2>1. ReadsBackAt(new, 1, new.objects[1], EncodeAVPs(new.heap))
    BY <1>4, ObjectRead
  <2> QED  BY <1>1, <1>2, <1>6, <1>7, <2>1 DEF ReadsBackAt
<1>9. PICK names : names = {"SessionId", "RequestNumber", "RequestType", "ServiceContextId", "AuthApplicationId",
                            "OriginHost", "ResultCode"}
  OBVIOUS
<1>10. \A n \in names : n \in DOMAIN object.vals
  <2>1. \A n \in names : \E row \in Writes["CCA"] : IsValue(row) /\ row.name = n
    <3>1. Setters("CCA", AnswerValues(request))
      BY AnswerSetters
    <3>2. PICK with : with = AnswerValues(request)
      OBVIOUS
    <3>3. /\ Len(with) = 8
          /\ with[1][1] = "SessionId" /\ with[2][1] = "ResultCode" /\ with[3][1] = "OriginHost"
          /\ with[5][1] = "ServiceContextId" /\ with[6][1] = "RequestType"
          /\ with[7][1] = "RequestNumber" /\ with[8][1] = "AuthApplicationId"
      BY <3>2 DEF AnswerValues
    <3>4. \A i \in 1..8 : \E row \in Writes["CCA"] : IsValue(row) /\ row.name = with[i][1]
      BY <3>1, <3>2, <3>3 DEF Setters
    <3>5. 1 \in 1..8 /\ 2 \in 1..8 /\ 3 \in 1..8 /\ 5 \in 1..8 /\ 6 \in 1..8 /\ 7 \in 1..8 /\ 8 \in 1..8
      OBVIOUS
    <3> QED  BY <1>9, <3>3, <3>4, <3>5
  <2>2. \A n \in names : n \in ValueNames("CCA")
    BY <1>7, <2>1, RowNames
  <2> QED  BY <1>7, <2>2 DEF ObjectsOf
<1>11. \A n \in names : root.vals[n] = object.vals[n]
  <2>1. object.vals["ResultCodeExt"] = Unset
    BY <1>6 DEF AnswerMade
  <2>2. \A n \in names : ~Loses(object, n)
    BY <1>7, <1>9, <2>1, NeverLost
  <2> QED  BY <1>8, <1>10, <2>2 DEF Agrees
<1>12. PICK msccs : msccs = request.kids["MSCC"]
  OBVIOUS
<1>13. PICK n \in Nat : n = Len(msccs) /\ DOMAIN msccs = 1..n
  BY <1>12 DEF Asked
<1>14. PICK kids \in Seq(Nat) : kids = object.kids["MSCC"]
  BY <1>6 DEF AnswerMade
<1>15. Len(new.objects) = n + 1 /\ Len(kids) = n /\ \A i \in 1..n : kids[i] = i + 1 /\ Echoed(msccs[i], new.objects[i + 1])
  <2>1. Len(request.kids["MSCC"]) = n /\ request.kids["MSCC"] = msccs
    BY <1>12, <1>13
  <2> QED  BY <1>6, <1>14, <2>1 DEF AnswerMade
<1>16. PICK row \in Reads["CCA"] : row = All("MSCC", 456, "MSCC")
  BY DEF Reads, CCAReads
<1>17. row.name = "MSCC" /\ ~IsValue(row) /\ row.class = "MSCC"
  BY <1>16 DEF All, IsValue
<1>18. ReadRow("CCA", "MSCC").class = "MSCC"
  BY <1>7, <1>16, <1>17, ReadRowIs
<1>19. root.kids["MSCC"] = kids /\ "MSCC" \in DOMAIN root.kids
  <2>1. "MSCC" \in {r.name : r \in {x \in Reads["CCA"] : ~IsValue(x)}}
    BY <1>17
  <2>2. "MSCC" \in DOMAIN root.kids
    BY <1>2, <2>1 DEF ReadObject
  <2>3. "MSCC" \in DOMAIN object.kids
    BY <1>7, MSCCsOf DEF ObjectsOf
  <2> QED  BY <1>8, <1>14, <2>2, <2>3, NeverLost DEF Agrees
<1>20. PICK given : given = answer.kids["MSCC"]
  OBVIOUS
<1>21. given = [i \in DOMAIN kids |-> ReadChild("MSCC", wire, kids[i])]
  BY <1>5, <1>18, <1>19, <1>20
<1>22. Len(given) = n /\ \A i \in 1..n : given[i] = ReadObject("MSCC", wire, i + 1)
  <2>1. Len(given) = n /\ \A i \in 1..n : given[i] = ReadChild("MSCC", wire, i + 1)
    BY <1>15, <1>21
  <2>2. \A i \in 1..n : i + 1 \in Nat
    OBVIOUS
  <2> QED  BY <2>1, <2>2, ChildIsRead
<1>23. ASSUME NEW i \in 1..n
       PROVE  /\ given[i].vals["RatingGroup"] = msccs[i].vals["RatingGroup"]
              /\ given[i].lists["ServiceIdentifier"] = msccs[i].lists["ServiceIdentifier"]
  <2>1. PICK o \in 2 .. n + 1 : o = i + 1
    OBVIOUS
  <2>2. PICK mscc : mscc = new.objects[o]
    OBVIOUS
  <2>3. o \in 1..Len(new.objects)
    BY <1>15
  <2>4. Echoed(msccs[i], mscc)
    BY <1>15, <2>1, <2>2
  <2>5. mscc.class = "MSCC" /\ mscc \in ObjectsOf("MSCC")
    BY <1>4, <2>2, <2>3, <2>4, SoundAt DEF Echoed
  <2>6. Agrees(mscc, given[i])
    <3>1. ReadsBackAt(new, o, new.objects[o], EncodeAVPs(new.heap))
      BY <1>4, <2>3, ObjectRead
    <3>2. given[i] = ReadObject("MSCC", wire, o)
      BY <1>22, <2>1
    <3> QED  BY <1>1, <2>2, <2>5, <3>1, <3>2 DEF ReadsBackAt
  <2>7. "RatingGroup" \in DOMAIN mscc.vals
    <3>1. "RatingGroup" \in ValueNames("MSCC")
      BY AnswerRows, RowNames
    <3> QED  BY <2>5, <3>1 DEF ObjectsOf
  <2> QED  BY <2>4, <2>6, <2>7, NeverLost DEF Agrees, Echoed
<1>24. /\ \A name \in {"SessionId", "RequestNumber", "RequestType", "ServiceContextId", "AuthApplicationId"} :
            answer.vals[name] = request.vals[name]
       /\ answer.vals["OriginHost"] = request.vals["DestinationHost"]
       /\ answer.vals["ResultCode"] = 2001
  <2>1. /\ \A name \in {"SessionId", "RequestNumber", "RequestType", "ServiceContextId", "AuthApplicationId"} :
             object.vals[name] = request.vals[name]
        /\ object.vals["OriginHost"] = request.vals["DestinationHost"]
        /\ object.vals["ResultCode"] = 2001
    BY <1>6 DEF AnswerMade
  <2>2. \A name \in names : answer.vals[name] = object.vals[name]
    BY <1>5, <1>11
  <2> QED  BY <1>9, <2>1, <2>2
<1>25. Len(answer.kids["MSCC"]) = Len(request.kids["MSCC"])
  BY <1>12, <1>13, <1>20, <1>22
<1>26. \A i \in DOMAIN request.kids["MSCC"] :
         /\ answer.kids["MSCC"][i].vals["RatingGroup"] = request.kids["MSCC"][i].vals["RatingGroup"]
         /\ answer.kids["MSCC"][i].lists["ServiceIdentifier"] = request.kids["MSCC"][i].lists["ServiceIdentifier"]
  BY <1>12, <1>13, <1>20, <1>23
<1> QED  BY <1>3, <1>24, <1>25, <1>26 DEF Answers

(* The answer that the server builds of what it received answers what was  *)
(* asked, whatever request it is.                                          *)
THEOREM MessagesAnswered == Spec => []AnswerEchoes
<1>1. Inv => AnswerEchoes
  <2> SUFFICES ASSUME Inv, m.objects[1].class = "CCR" PROVE AnsweredBy(Received(m))
    BY DEF AnswerEchoes
  <2>1. Asked(Received(m))
    BY ReceivedAsked DEF Inv
  <2>2. PICK request : request = Received(m)
    OBVIOUS
  <2>3. AnswerMade(request, AnswerTo(request))
    BY <2>1, <2>2, AnswerIsMade
  <2> QED  BY <2>1, <2>2, <2>3, AnswerRead DEF AnsweredBy
<1> QED  BY <1>1, InvInit, InvNext, PTL DEF Spec
=============================================================================
