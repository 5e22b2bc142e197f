-------------------------- MODULE ConfFile_proofs --------------------------
(***************************************************************************)
(* What the configuration file codec does, for every number of sections    *)
(* and entries, every width of the integers and every length of a string.  *)
(*                                                                         *)
(* TypeInv is inductive as it stands.  LocalInv adds that every string     *)
(* leaves room for its end, and that the parser is in the section of the   *)
(* line it reads: it gives LoadsLocally.  RoundInv adds that the file is   *)
(* what was written, up to where a crash cut it, and that a load has       *)
(* restored what the lines behind it name, and nothing else: it gives      *)
(* SavedIsLoaded and CrashKeepsFirst.                                      *)
(*                                                                         *)
(* What write_section writes is known by where its lines are: FlattenSeq,  *)
(* with which it is defined, is a recursive function, so its value is      *)
(* followed by an induction of its own, over the numbers up to a bound     *)
(* (Upward), which rests on the least member of a set of numbers (Least).  *)
(***************************************************************************)
EXTENDS ConfFile, SequenceTheorems, WellFoundedInduction, TLAPS
-----------------------------------------------------------------------------
(* Numbers: least and greatest members, and induction up to a bound.       *)

\* Every set of numbers that has a member has a least one.
LEMMA Least ==
    ASSUME NEW T \in SUBSET Nat, T # {}
    PROVE  \E x \in T : \A y \in T : x <= y
<1>1. PICK x \in T : \A y \in T : <<y, x>> \notin OpToRel(<, Nat)
  BY WFMin, NatLessThanWellFounded, Zenon
<1>2. ASSUME NEW y \in T PROVE x <= y
  <2>1. <<y, x>> \in Nat \X Nat /\ <<y, x>>[1] = y /\ <<y, x>>[2] = x
    OBVIOUS
  <2>2. ~(y < x)
    BY <1>1, <2>1 DEF OpToRel
  <2>3. QED
    BY <2>2
<1>3. QED
  BY <1>2

\* What holds of 1, and of i + 1 if it holds of i, holds up to n.
LEMMA Upward ==
    ASSUME NEW n \in Nat, NEW T \in SUBSET (1 .. n),
           n >= 1 => 1 \in T, \A i \in T : i + 1 \in 1 .. n => i + 1 \in T
    PROVE  T = 1 .. n
<1> DEFINE R == (1 .. n) \ T
<1>1. SUFFICES ASSUME R # {} PROVE FALSE
  OBVIOUS
<1>2. R \in SUBSET Nat
  OBVIOUS
<1>3. PICK x \in R : \A y \in R : x <= y
  <2> HIDE DEF R
  <2>1. QED
    BY <1>1, <1>2, Least
<1>4. x # 1
  BY <1>3
<1>5. x - 1 \in 1 .. n /\ x - 1 \in T
  BY <1>3, <1>4
<1>6. QED
  BY <1>3, <1>5

\* The greatest member of a set of numbers that has one.
LEMMA MaxIs ==
    ASSUME NEW n \in Nat, NEW T \in SUBSET (1 .. n), T # {}
    PROVE  Max(T) \in T /\ \A y \in T : Max(T) >= y
<1> DEFINE R == {i \in Nat : n - i \in T}
<1>1. R \in SUBSET Nat /\ R # {}
  <2>1. PICK t \in T : TRUE
    OBVIOUS
  <2>2. n - t \in Nat /\ n - (n - t) = t
    BY <2>1
  <2>3. QED
    BY <2>1, <2>2
<1>2. PICK r \in R : \A y \in R : r <= y
  <2> HIDE DEF R
  <2>1. QED
    BY <1>1, Least
<1>3. n - r \in T /\ \A y \in T : n - r >= y
  <2>1. ASSUME NEW y \in T PROVE n - r >= y
    <3>1. n - y \in Nat /\ n - (n - y) = y
      OBVIOUS
    <3>2. r <= n - y
      BY <1>2, <3>1
    <3>3. QED
      BY <1>2, <3>2
  <2>2. QED
    BY <1>2, <2>1
<1>4. QED
  BY <1>3, Zenon DEF Max

\* The greatest member is known by what it is.
LEMMA MaxOf ==
    ASSUME NEW n \in Nat, NEW T \in SUBSET (1 .. n), NEW x \in T, \A y \in T : x >= y
    PROVE  Max(T) = x
<1> DEFINE m == Max(T)
<1>1. m \in T /\ \A y \in T : m >= y
  BY MaxIs
<1> HIDE DEF m
<1>2. m \in Nat /\ x \in Nat /\ m >= x /\ x >= m
  BY <1>1
<1>3. QED
  BY <1>2 DEF m

\* The least of two numbers.
LEMMA MinOf ==
    ASSUME NEW a \in Nat, NEW b \in Nat
    PROVE  Min({a, b}) = IF a <= b THEN a ELSE b
<1> DEFINE r == IF a <= b THEN a ELSE b
<1>1. r \in {a, b} /\ \A y \in {a, b} : r <= y
  OBVIOUS
<1> HIDE DEF r
<1>2. Min({a, b}) \in {a, b} /\ \A y \in {a, b} : Min({a, b}) <= y
  BY <1>1, Zenon DEF Min
<1>3. r \in Nat /\ Min({a, b}) \in Nat
  BY <1>1, <1>2
<1>4. Min({a, b}) <= r /\ r <= Min({a, b})
  BY <1>1, <1>2
<1>5. QED
  BY <1>3, <1>4 DEF r

-----------------------------------------------------------------------------
(* FlattenSeq.                                                             *)

\* The function that FlattenSeq defines by recursion.
Flattens(f, ss) ==
    f = [i \in 1 .. Len(ss) |-> IF i = 1 THEN ss[i] ELSE f[i - 1] \o ss[i]]

LEMMA FlattenIs ==
    ASSUME NEW ss, Len(ss) # 0, \E f : Flattens(f, ss)
    PROVE  \E f : Flattens(f, ss) /\ FlattenSeq(ss) = f[Len(ss)]
<1> DEFINE g == CHOOSE f : Flattens(f, ss)
<1>1. Flattens(g, ss)
  OBVIOUS
<1>2. FlattenSeq(ss) = g[Len(ss)]
  BY DEF FlattenSeq, Flattens
<1>3. QED
  BY <1>1, <1>2

\* There is such a function, built up to any number of sequences.
LEMMA FlattenExists ==
    ASSUME NEW S, NEW ss \in Seq(Seq(S)), Len(ss) >= 1
    PROVE  \E f : Flattens(f, ss)
<1> DEFINE n == Len(ss)
           Good(f, k) == \A i \in 1 .. k :
                            f[i] = IF i = 1 THEN ss[i] ELSE f[i - 1] \o ss[i]
           T == {k \in 1 .. n : \E f \in [1 .. k -> Seq(S)] : Good(f, k)}
<1>1. n \in Nat /\ n >= 1 /\ \A i \in 1 .. n : ss[i] \in Seq(S)
  BY ElementOfSeq
<1> HIDE DEF n
<1>2. /\ T \in SUBSET (1 .. n)
      /\ \A k \in 1 .. n : k \in T <=> \E f \in [1 .. k -> Seq(S)] : Good(f, k)
  <2> HIDE DEF Good
  <2>1. QED
    OBVIOUS
<1> HIDE DEF T
<1>3. 1 \in T
  <2> DEFINE f == [i \in 1 .. 1 |-> ss[i]]
  <2>1. f \in [1 .. 1 -> Seq(S)] /\ Good(f, 1)
    BY <1>1
  <2> HIDE DEF f, Good
  <2>2. 1 \in 1 .. n
    BY <1>1
  <2>3. QED
    BY <1>2, <2>1, <2>2
<1>4. ASSUME NEW k \in T, k + 1 \in 1 .. n PROVE k + 1 \in T
  <2>1. PICK f \in [1 .. k -> Seq(S)] : Good(f, k)
    <3> HIDE DEF Good
    <3>1. QED
      BY <1>2
  <2> DEFINE g == [i \in 1 .. k + 1 |-> IF i = k + 1 THEN f[k] \o ss[i] ELSE f[i]]
  <2>2. k \in Nat /\ k >= 1 /\ f[k] \in Seq(S) /\ ss[k + 1] \in Seq(S)
    BY <1>1, <1>2, <1>4
  <2>3. f[k] \o ss[k + 1] \in Seq(S)
    BY <2>2, ConcatProperties
  <2>4. g \in [1 .. k + 1 -> Seq(S)]
    BY <2>2, <2>3
  <2>5. ASSUME NEW i \in 1 .. k + 1
        PROVE  g[i] = IF i = 1 THEN ss[i] ELSE g[i - 1] \o ss[i]
    <3>1. CASE i = k + 1
      <4>1. k \in 1 .. k + 1 /\ k # k + 1 /\ i - 1 = k /\ i # 1
        BY <2>2, <3>1
      <4>2. QED
        BY <3>1, <4>1
    <3>2. CASE i # k + 1
      <4>1. i \in 1 .. k /\ i - 1 # k + 1 /\ (i # 1 => i - 1 \in 1 .. k + 1)
        BY <2>2, <3>2
      <4>2. QED
        BY <2>1, <3>2, <4>1
    <3>3. QED
      BY <3>1, <3>2
  <2>6. Good(g, k + 1)
    BY <2>5
  <2> HIDE DEF g, Good
  <2>7. QED
    BY <1>2, <1>4, <2>4, <2>6
<1>5. T = 1 .. n
  BY <1>1, <1>2, <1>3, <1>4, Upward
<1>6. PICK f \in [1 .. n -> Seq(S)] : Good(f, n)
  <2> HIDE DEF Good
  <2>1. n \in 1 .. n
    BY <1>1
  <2>2. QED
    BY <1>2, <1>5, <2>1
<1>7. Flattens(f, ss)
  BY <1>6 DEF Flattens, n
<1>8. QED
  BY <1>7

\* The sequences one behind the other: off says where each of them begins.
Places(ss, off, flat) ==
    /\ off \in [1 .. Len(ss) + 1 -> Nat] /\ off[1] = 0
    /\ \A i \in 1 .. Len(ss) : off[i + 1] = off[i] + Len(ss[i])
    /\ Len(flat) = off[Len(ss) + 1]
    /\ \A i \in 1 .. Len(ss) : \A j \in 1 .. Len(ss[i]) : flat[off[i] + j] = ss[i][j]

LEMMA FlattenPlaces ==
    ASSUME NEW S, NEW ss \in Seq(Seq(S)), Len(ss) >= 1
    PROVE  /\ FlattenSeq(ss) \in Seq(S)
           /\ \E off : Places(ss, off, FlattenSeq(ss))
<1> DEFINE n == Len(ss)
<1>1. n \in Nat /\ n >= 1 /\ \A i \in 1 .. n : ss[i] \in Seq(S)
  BY ElementOfSeq
<1>2. PICK f : Flattens(f, ss) /\ FlattenSeq(ss) = f[n]
  BY <1>1, FlattenExists, FlattenIs
<1>3. \A i \in 1 .. n : f[i] = IF i = 1 THEN ss[i] ELSE f[i - 1] \o ss[i]
  BY <1>2 DEF Flattens
<1> HIDE DEF n
<1> DEFINE off == [i \in 1 .. n + 1 |-> IF i = 1 THEN 0 ELSE Len(f[i - 1])]
           Good(i) == /\ f[i] \in Seq(S) /\ off[i + 1] = off[i] + Len(ss[i])
                      /\ off[i] \in Nat
                      /\ \A k \in 1 .. i : \A j \in 1 .. Len(ss[k]) :
                           f[i][off[k] + j] = ss[k][j] /\ off[k] + j \in 1 .. Len(f[i])
           T == {i \in 1 .. n : Good(i)}
<1>4. \A i \in 1 .. n : off[i + 1] = Len(f[i])
  <2>1. \A i \in 1 .. n : i + 1 \in 1 .. n + 1 /\ i + 1 # 1 /\ i + 1 - 1 = i
    BY <1>1
  <2>2. QED
    BY <2>1
<1>5. off[1] = 0
  BY <1>1
<1>T. T \in SUBSET (1 .. n) /\ \A i \in 1 .. n : i \in T <=> Good(i)
  <2> HIDE DEF Good
  <2>1. QED
    OBVIOUS
<1> HIDE DEF T
<1>6. 1 \in T
  <2>1. f[1] = ss[1] /\ f[1] \in Seq(S) /\ Len(f[1]) \in Nat /\ off[2] = Len(f[1])
    BY <1>1, <1>3, <1>4
  <2>2. Good(1)
    BY <1>1, <1>5, <2>1
  <2> HIDE DEF Good
  <2>3. 1 \in 1 .. n
    BY <1>1
  <2>4. QED
    BY <1>T, <2>2, <2>3
<1>7. ASSUME NEW i \in T, i + 1 \in 1 .. n PROVE i + 1 \in T
  <2>1. Good(i) /\ i \in Nat /\ i >= 1
    <3> HIDE DEF Good
    <3>1. QED
      BY <1>1, <1>7, <1>T
  <2>2. f[i + 1] = f[i] \o ss[i + 1] /\ ss[i + 1] \in Seq(S) /\ f[i] \in Seq(S)
    <3>1. i + 1 # 1 /\ i + 1 - 1 = i
      BY <2>1
    <3>2. f[i + 1] = f[i] \o ss[i + 1]
      <4> DEFINE k == i + 1
      <4>a. k \in 1 .. n
        BY <1>7
      <4>b. k # 1
        BY <2>1
      <4>c. k - 1 = i
        BY <2>1
      <4>1. k \in 1 .. n /\ k # 1 /\ k - 1 = i
        BY <4>a, <4>b, <4>c
      <4> HIDE DEF k
      <4>2. f[k] = f[k - 1] \o ss[k]
        BY <1>3, <4>1, Zenon
      <4>3. QED
        BY <4>1, <4>2 DEF k
    <3>3. QED
      BY <1>1, <1>7, <2>1, <3>2
  <2>3. off[i + 1] = Len(f[i]) /\ off[i + 2] = Len(f[i + 1])
    <3>1. i + 2 = (i + 1) + 1
      BY <2>1
    <3>2. i \in 1 .. n
      BY <1>T
    <3>3. QED
      BY <1>4, <1>7, <3>1, <3>2, Zenon
  <2> HIDE DEF off
  <2>4. /\ f[i + 1] \in Seq(S) /\ Len(f[i + 1]) = Len(f[i]) + Len(ss[i + 1])
        /\ \A k \in 1 .. Len(f[i]) : f[i + 1][k] = f[i][k]
        /\ \A k \in 1 .. Len(ss[i + 1]) : f[i + 1][Len(f[i]) + k] = ss[i + 1][k]
        /\ Len(f[i]) \in Nat /\ Len(ss[i + 1]) \in Nat
    <3> DEFINE a == f[i]
               b == ss[i + 1]
    <3>1. a \in Seq(S) /\ b \in Seq(S) /\ Len(a) \in Nat /\ Len(b) \in Nat
      BY <2>2
    <3>2. f[i + 1] = a \o b
      BY <2>2
    <3> HIDE DEF a, b
    <3>3. /\ a \o b \in Seq(S) /\ Len(a \o b) = Len(a) + Len(b)
          /\ \A k \in 1 .. Len(a) : (a \o b)[k] = a[k]
          /\ \A k \in 1 .. Len(b) : (a \o b)[Len(a) + k] = b[k]
      BY <3>1
    <3>4. QED
      BY <3>1, <3>2, <3>3 DEF a, b
  <2>5. ASSUME NEW k \in 1 .. i + 1, NEW j \in 1 .. Len(ss[k])
        PROVE  f[i + 1][off[k] + j] = ss[k][j] /\ off[k] + j \in 1 .. Len(f[i + 1])
    <3>1. CASE k = i + 1
      <4>1. j \in 1 .. Len(ss[i + 1]) /\ off[k] = Len(f[i]) /\ j \in Nat
        BY <2>3, <2>4, <3>1
      <4>2. Len(f[i]) + j \in 1 .. Len(f[i + 1])
        <5> DEFINE a == Len(f[i])
                   b == Len(ss[i + 1])
        <5>1. a \in Nat /\ b \in Nat /\ j \in 1 .. b /\ Len(f[i + 1]) = a + b
          BY <2>4, <4>1
        <5> HIDE DEF a, b
        <5>2. a + j \in 1 .. a + b
          BY <5>1
        <5>3. QED
          BY <5>1, <5>2 DEF a
      <4>3. QED
        BY <2>4, <3>1, <4>1, <4>2
    <3>2. CASE k # i + 1
      <4>1. k \in 1 .. i
        BY <2>1, <3>2
      <4>2. f[i][off[k] + j] = ss[k][j] /\ off[k] + j \in 1 .. Len(f[i])
        BY <2>1, <4>1
      <4>3. off[k] + j \in 1 .. Len(f[i + 1])
        <5> DEFINE a == Len(f[i])
                   b == Len(ss[i + 1])
                   x == off[k] + j
        <5>1. a \in Nat /\ b \in Nat /\ x \in 1 .. a /\ Len(f[i + 1]) = a + b
          BY <2>4, <4>2
        <5> HIDE DEF a, b, x
        <5>2. x \in 1 .. a + b
          BY <5>1
        <5>3. QED
          BY <5>1, <5>2 DEF x
      <4>4. QED
        BY <2>4, <4>2, <4>3
    <3>3. QED
      BY <3>1, <3>2
  <2>6. Good(i + 1)
    <3>1. i + 1 + 1 = i + 2
      BY <2>1
    <3>2. QED
      BY <2>3, <2>4, <2>5, <3>1
  <2> HIDE DEF Good
  <2>7. QED
    BY <1>7, <1>T, <2>6
<1>8. T = 1 .. n
  <2> HIDE DEF Good
  <2>1. QED
    BY <1>1, <1>6, <1>7, <1>T, Upward
<1>9. Good(n) /\ \A i \in 1 .. n : Good(i)
  <2> HIDE DEF Good
  <2>1. n \in 1 .. n
    BY <1>1
  <2>2. QED
    BY <1>8, <1>T, <2>1
<1>10. off \in [1 .. n + 1 -> Nat]
  <2>1. ASSUME NEW i \in 1 .. n + 1 PROVE (IF i = 1 THEN 0 ELSE Len(f[i - 1])) \in Nat
    <3>1. i # 1 => i - 1 \in 1 .. n
      BY <1>1
    <3>2. i # 1 => f[i - 1] \in Seq(S)
      BY <1>9, <3>1
    <3>3. QED
      BY <3>2
  <2>2. QED
    BY <2>1
<1>11. Len(f[n]) = off[n + 1]
  BY <1>1, <1>4
<1>12. Places(ss, off, f[n])
  <2> HIDE DEF off
  <2>1. QED
    BY <1>1, <1>5, <1>9, <1>10, <1>11 DEF Places, n
<1>13. QED
  <2> HIDE DEF off
  <2>1. QED
    BY <1>2, <1>9, <1>12

-----------------------------------------------------------------------------
(* The type table.                                                         *)

Forms == {"signed", "unsigned", "hex", "stub", "pointer", "float", "string",
          "bool", "char", "ipv4"}
Formats == {h \in [fmt : Forms, bits : {8, 16, 32, 64}] : h.fmt = "char" => h.bits = 8}

\* Where a type's name stands among the names.
LEMMA PlaceIs ==
    ASSUME NEW t \in ToSet(TypeNames)
    PROVE  Place[t] \in 1 .. 33 /\ TypeNames[Place[t]] = t
<1> DEFINE I == {i \in 1 .. 33 : TypeNames[i] = t}
<1>1. Len(TypeNames) = 33 /\ DOMAIN TypeNames = 1 .. 33
  BY DEF TypeNames
<1>2. I # {} /\ I \in SUBSET Nat
  BY <1>1 DEF ToSet
<1>3. Place[t] = Min(I)
  <2>1. Place[t] = SelectInSeq(TypeNames, LAMBDA x : x = t)
    BY DEF Place
  <2>2. I = {i \in 1 .. Len(TypeNames) : TypeNames[i] = t}
    BY <1>1
  <2> HIDE DEF I
  <2>3. SelectInSeq(TypeNames, LAMBDA x : x = t) = Min(I)
    BY <1>2, <2>2, Zenon DEF SelectInSeq
  <2>4. QED
    BY <2>1, <2>3
<1>4. Min(I) \in I
  <2> HIDE DEF I
  <2>1. PICK i \in I : \A j \in I : i <= j
    BY <1>2, Least
  <2>2. QED
    BY <2>1, Zenon DEF Min
<1>5. QED
  BY <1>3, <1>4

\* r stands within q, from behind place j on.
Piece(q, j, r) ==
    j \in Nat /\ j + Len(r) <= Len(q) /\ \A i \in 1 .. Len(r) : q[j + i] = r[i]

LEMMA Extend ==
    ASSUME NEW S, NEW q \in Seq(S), NEW s \in Seq(S)
    PROVE  /\ q \o s \in Seq(S) /\ Len(q \o s) = Len(q) + Len(s)
           /\ Piece(q \o s, Len(q), s)
           /\ \A j \in Nat, r \in Seq(S) : Piece(q, j, r) => Piece(q \o s, j, r)
<1>1. /\ q \o s \in Seq(S) /\ Len(q \o s) = Len(q) + Len(s)
      /\ Len(s) \in Nat /\ Len(q) \in Nat
      /\ \A i \in 1 .. Len(q) : (q \o s)[i] = q[i]
      /\ \A i \in 1 .. Len(s) : (q \o s)[Len(q) + i] = s[i]
  BY ConcatProperties
<1>2. ASSUME NEW j \in Nat, NEW r \in Seq(S), Piece(q, j, r) PROVE Piece(q \o s, j, r)
  <2>1. Len(r) \in Nat /\ j + Len(r) <= Len(q)
        /\ \A i \in 1 .. Len(r) : q[j + i] = r[i]
    BY <1>2 DEF Piece
  <2>2. ASSUME NEW i \in 1 .. Len(r) PROVE (q \o s)[j + i] = r[i]
    <3>1. j + i \in 1 .. Len(q)
      BY <1>1, <2>1
    <3>2. QED
      BY <1>1, <2>1, <3>1
  <2>3. j + Len(r) <= Len(q \o s)
    BY <1>1, <2>1
  <2>4. QED
    BY <2>2, <2>3 DEF Piece
<1>3. Piece(q \o s, Len(q), s)
  BY <1>1 DEF Piece
<1>4. QED
  BY <1>1, <1>2, <1>3

\* A table made of six pieces.
LEMMA SixPieces ==
    ASSUME NEW S, NEW a \in Seq(S), NEW b \in Seq(S), NEW c \in Seq(S),
           NEW d \in Seq(S), NEW e \in Seq(S), NEW f \in Seq(S)
    PROVE  LET q == a \o b \o c \o d \o e \o f
           IN /\ q \in Seq(S)
              /\ Len(q) = Len(a) + Len(b) + Len(c) + Len(d) + Len(e) + Len(f)
              /\ Piece(q, 0, a) /\ Piece(q, Len(a), b)
              /\ Piece(q, Len(a) + Len(b), c) /\ Piece(q, Len(a) + Len(b) + Len(c), d)
              /\ Piece(q, Len(a) + Len(b) + Len(c) + Len(d), e)
              /\ Piece(q, Len(a) + Len(b) + Len(c) + Len(d) + Len(e), f)
<1> DEFINE k1 == Len(a)
           k2 == k1 + Len(b)
           k3 == k2 + Len(c)
           k4 == k3 + Len(d)
           k5 == k4 + Len(e)
<1>1. k1 \in Nat /\ k2 \in Nat /\ k3 \in Nat /\ k4 \in Nat /\ k5 \in Nat /\ 0 \in Nat
  OBVIOUS
<1>2. Piece(a, 0, a)
  BY DEF Piece
<1> DEFINE q2 == a \o b
<1>3. q2 \in Seq(S) /\ Len(q2) = k2 /\ Piece(q2, 0, a) /\ Piece(q2, k1, b)
  BY <1>1, <1>2, Extend, ZenonT(30)
<1> HIDE DEF q2
<1> DEFINE q3 == q2 \o c
<1>4. q3 \in Seq(S) /\ Len(q3) = k3 /\ Piece(q3, 0, a) /\ Piece(q3, k1, b) /\ Piece(q3, k2, c)
  <2> HIDE DEF k1, k2
  <2>1. QED
    BY <1>1, <1>3, Extend, ZenonT(30)
<1> HIDE DEF q3
<1> DEFINE q4 == q3 \o d
<1>5. /\ q4 \in Seq(S) /\ Len(q4) = k4 /\ Piece(q4, 0, a) /\ Piece(q4, k1, b)
      /\ Piece(q4, k2, c) /\ Piece(q4, k3, d)
  <2> HIDE DEF k1, k2, k3
  <2>1. QED
    BY <1>1, <1>4, Extend, ZenonT(30)
<1> HIDE DEF q4
<1> DEFINE q5 == q4 \o e
<1>6. /\ q5 \in Seq(S) /\ Len(q5) = k5 /\ Piece(q5, 0, a) /\ Piece(q5, k1, b)
      /\ Piece(q5, k2, c) /\ Piece(q5, k3, d) /\ Piece(q5, k4, e)
  <2> HIDE DEF k1, k2, k3, k4
  <2>1. QED
    BY <1>1, <1>5, Extend, ZenonT(30)
<1> HIDE DEF q5
<1> DEFINE q6 == q5 \o f
<1>7. /\ q6 \in Seq(S) /\ Len(q6) = k5 + Len(f) /\ Piece(q6, 0, a) /\ Piece(q6, k1, b)
      /\ Piece(q6, k2, c) /\ Piece(q6, k3, d) /\ Piece(q6, k4, e) /\ Piece(q6, k5, f)
  <2> HIDE DEF k1, k2, k3, k4, k5
  <2>1. QED
    BY <1>1, <1>6, Extend, ZenonT(30)
<1>8. q6 = a \o b \o c \o d \o e \o f
  BY DEF q2, q3, q4, q5, q6
<1> HIDE DEF q6
<1>9. QED
  BY <1>7, <1>8, Zenon DEF k1, k2, k3, k4, k5

\* The five rows for the integers of one width.
LEMMA FamilyIs ==
    ASSUME NEW n \in {8, 16, 32, 64}
    PROVE  /\ Family(n) \in Seq(Formats) /\ Len(Family(n)) = 5
BY DEF Family, Fmt, Stub, Formats, Forms

LEMMA PiecesAre ==
    /\ Basic \in Seq(Formats) /\ Len(Basic) = 8
    /\ Other \in Seq(Formats) /\ Len(Other) = 5
    /\ SubSeq(Bits32, 3, 5) \in Seq(Formats) /\ Len(SubSeq(Bits32, 3, 5)) = 3
    /\ \A i \in 1 .. 3 : SubSeq(Bits32, 3, 5)[i] = Bits32[i + 2]
<1>1. Basic \in Seq(Formats) /\ Len(Basic) = 8
  BY DEF Basic, Fmt, Formats, Forms
<1>2. Other \in Seq(Formats) /\ Len(Other) = 5
  BY DEF Other, Fmt, Stub, Formats, Forms
<1>3. /\ SubSeq(Bits32, 3, 5) \in Seq(Formats) /\ Len(SubSeq(Bits32, 3, 5)) = 3
      /\ \A i \in 1 .. 3 : SubSeq(Bits32, 3, 5)[i] = Bits32[i + 2]
  <2>1. Bits32 \in Seq(Formats) /\ Len(Bits32) = 5
    BY FamilyIs DEF Bits32
  <2>2. QED
    BY <2>1, SubSeqProperties
<1>4. QED
  BY <1>1, <1>2, <1>3

\* The rows of the two tables, by piece.
LEMMA TabIs ==
    /\ LET q == conf_type_tab["app"]
       IN /\ q \in Seq(Formats) /\ Len(q) = 33
          /\ \A i \in 1 .. 8 : q[i] = Basic[i]
          /\ \A i \in 1 .. 5 : /\ q[8 + i] = Bits8[i] /\ q[13 + i] = Bits16[i]
                               /\ q[18 + i] = Bits32[i]
    /\ LET q == conf_type_tab["lib"]
       IN /\ q \in Seq(Formats) /\ Len(q) = 31
          /\ \A i \in 1 .. 8 : q[i] = Basic[i]
          /\ \A i \in 1 .. 5 : /\ q[8 + i] = Bits8[i] /\ q[13 + i] = Bits16[i]
                               /\ q[21 + i] = Bits64[i] /\ q[26 + i] = Other[i]
          /\ \A i \in 1 .. 3 : q[18 + i] = Bits32[i + 2]
<1>1. /\ Bits8 \in Seq(Formats) /\ Len(Bits8) = 5 /\ Bits16 \in Seq(Formats)
      /\ Len(Bits16) = 5 /\ Bits32 \in Seq(Formats) /\ Len(Bits32) = 5
      /\ Bits64 \in Seq(Formats) /\ Len(Bits64) = 5
  BY FamilyIs DEF Bits8, Bits16, Bits32, Bits64
<1> DEFINE a == conf_type_tab["app"]
           l == conf_type_tab["lib"]
           m == SubSeq(Bits32, 3, 5)
<1>2. /\ a = Basic \o Bits8 \o Bits16 \o Bits32 \o Bits64 \o Other
      /\ l = Basic \o Bits8 \o Bits16 \o m \o Bits64 \o Other
  BY DEF conf_type_tab
<1>3. /\ Basic \in Seq(Formats) /\ Len(Basic) = 8 /\ Other \in Seq(Formats)
      /\ Len(Other) = 5 /\ m \in Seq(Formats) /\ Len(m) = 3
      /\ \A i \in 1 .. 3 : m[i] = Bits32[i + 2]
  BY PiecesAre
<1> HIDE DEF a, l, m
<1>3a. /\ Basic \in Seq(Formats) /\ Bits8 \in Seq(Formats) /\ Bits16 \in Seq(Formats)
       /\ Bits32 \in Seq(Formats) /\ Bits64 \in Seq(Formats) /\ Other \in Seq(Formats)
       /\ m \in Seq(Formats)
  BY <1>1, <1>3
<1>4. /\ a \in Seq(Formats)
      /\ Len(a) = Len(Basic) + Len(Bits8) + Len(Bits16) + Len(Bits32) + Len(Bits64) + Len(Other)
      /\ Piece(a, 0, Basic) /\ Piece(a, Len(Basic), Bits8)
      /\ Piece(a, Len(Basic) + Len(Bits8), Bits16)
      /\ Piece(a, Len(Basic) + Len(Bits8) + Len(Bits16), Bits32)
  BY <1>2, <1>3a, SixPieces, SMTT(90)
<1>5. /\ l \in Seq(Formats)
      /\ Len(l) = Len(Basic) + Len(Bits8) + Len(Bits16) + Len(m) + Len(Bits64) + Len(Other)
      /\ Piece(l, 0, Basic) /\ Piece(l, Len(Basic), Bits8)
      /\ Piece(l, Len(Basic) + Len(Bits8), Bits16)
      /\ Piece(l, Len(Basic) + Len(Bits8) + Len(Bits16), m)
      /\ Piece(l, Len(Basic) + Len(Bits8) + Len(Bits16) + Len(m), Bits64)
      /\ Piece(l, Len(Basic) + Len(Bits8) + Len(Bits16) + Len(m) + Len(Bits64), Other)
  BY <1>2, <1>3a, SixPieces, SMTT(90)
<1>6. /\ Len(a) = 33 /\ Piece(a, 0, Basic) /\ Piece(a, 8, Bits8)
      /\ Piece(a, 13, Bits16) /\ Piece(a, 18, Bits32)
  BY <1>1, <1>3, <1>4
<1>7. /\ Len(l) = 31 /\ Piece(l, 0, Basic) /\ Piece(l, 8, Bits8) /\ Piece(l, 13, Bits16)
      /\ Piece(l, 18, m) /\ Piece(l, 21, Bits64) /\ Piece(l, 26, Other)
  BY <1>1, <1>3, <1>5
<1>8. /\ \A i \in 1 .. 8 : a[i] = Basic[i]
      /\ \A i \in 1 .. 5 : /\ a[8 + i] = Bits8[i] /\ a[13 + i] = Bits16[i]
                           /\ a[18 + i] = Bits32[i]
  BY <1>1, <1>3, <1>6 DEF Piece
<1>9. /\ \A i \in 1 .. 8 : l[i] = Basic[i]
      /\ \A i \in 1 .. 5 : /\ l[8 + i] = Bits8[i] /\ l[13 + i] = Bits16[i]
                           /\ l[21 + i] = Bits64[i] /\ l[26 + i] = Other[i]
      /\ \A i \in 1 .. 3 : l[18 + i] = Bits32[i + 2]
  BY <1>1, <1>3, <1>7 DEF Piece
<1>10. QED
  BY <1>4, <1>5, <1>6, <1>7, <1>8, <1>9 DEF a, l

\* The row of a type, by the place of its name.
RowAt(copy, i) ==
    IF copy = "app" THEN (IF i > 23 THEN i - 2 ELSE i)
                    ELSE (IF i \in {19, 20} THEN i - 16 ELSE IF i > 20 THEN i - 2 ELSE i)
LEMMA RowIs ==
    ASSUME table \in Tables, NEW e \in Known
    PROVE  /\ table.type[e] \in ToSet(TypeNames)
           /\ Of(e) = conf_type_tab[table.copy][RowAt(table.copy, Place[table.type[e]])]
<1> DEFINE t == table.type[e]
           p == Place[t]
<1>1. t \in ToSet(TypeNames) /\ table.copy \in {"app", "lib"}
  BY ConfFileAssumption, ValuesAssumption
<1>2. p \in 1 .. 33 /\ TypeNames[p] = t
  BY <1>1, PlaceIs
<1>3. t \in {"INT32", "UINT32"} <=> p \in {19, 20}
  <2> HIDE DEF p, t
  <2>1. QED
    BY <1>2 DEF TypeNames
<1>4. t \in DOMAIN Place
  BY <1>1 DEF Place
<1>5. Code[table.copy][t] + 1 = RowAt(table.copy, p)
  <2>1. CASE table.copy = "app"
    <3>1. Code["app"][t] = IF p > 23 THEN p - 3 ELSE p - 1
      BY <1>4 DEF Code
    <3> HIDE DEF p
    <3>2. QED
      BY <1>2, <2>1, <3>1 DEF RowAt
  <2>2. CASE table.copy = "lib"
    <3>1. Code["lib"][t] = IF p \in {19, 20} THEN p - 17
                           ELSE IF p > 20 THEN p - 3 ELSE p - 1
      BY <1>3, <1>4 DEF Code
    <3> HIDE DEF p
    <3>2. QED
      BY <1>2, <2>2, <3>1 DEF RowAt
  <2>3. QED
    BY <1>1, <2>1, <2>2
<1>6. QED
  BY <1>1, <1>5 DEF Of, CONF_TYPE

LEMMA OfIs ==
    ASSUME table \in Tables, NEW e \in Known
    PROVE  /\ Of(e) \in Formats /\ Of(e).fmt \in Forms
           /\ Of(e).fmt = "char" => Of(e).bits = 8
           /\ Modulus[Of(e).bits] \in Nat \ {0, 1}
<1> DEFINE p == Place[table.type[e]]
<1>1. p \in 1 .. 33 /\ table.copy \in {"app", "lib"}
      /\ Of(e) = conf_type_tab[table.copy][RowAt(table.copy, p)]
  BY RowIs, PlaceIs, ConfFileAssumption
<1> HIDE DEF p
<1>2. Of(e) \in Formats
  <2>1. CASE table.copy = "app"
    <3>1. RowAt("app", p) \in 1 .. 33
      BY <1>1 DEF RowAt
    <3>2. conf_type_tab["app"] \in Seq(Formats) /\ Len(conf_type_tab["app"]) = 33
      BY TabIs
    <3>3. conf_type_tab["app"][RowAt("app", p)] \in Formats
      BY <3>1, <3>2, ElementOfSeq
    <3>4. QED
      BY <1>1, <2>1, <3>3
  <2>2. CASE table.copy = "lib"
    <3>1. RowAt("lib", p) \in 1 .. 31
      BY <1>1 DEF RowAt
    <3>2. conf_type_tab["lib"] \in Seq(Formats) /\ Len(conf_type_tab["lib"]) = 31
      BY TabIs
    <3>3. conf_type_tab["lib"][RowAt("lib", p)] \in Formats
      BY <3>1, <3>2, ElementOfSeq
    <3>4. QED
      BY <1>1, <2>2, <3>3
  <2>3. QED
    BY <1>1, <2>1, <2>2
<1>3. QED
  BY <1>2, ConfFileAssumption DEF Formats

\* The section that line i of w is in: that of the last header before it.
SectionAt(w, i) ==
    LET headers == {j \in 1 .. i - 1 : w[j].kind = "section"}
    IN IF headers = {} THEN <<>> ELSE w[Max(headers)].name
NamesIn(w, i, e) ==
    w[i].kind = "entry" /\ w[i].name = e[2] /\ e[1] = SectionAt(w, i)

\* What pc is from the beginning of a load until its result is returned.
Loads == pc \in {"loading", "loaded", "failed"}

\* The whole state of the program and of the file is well formed.
IsConfig(m) == m = [e \in Known |-> m[e]] /\ \A e \in Known : m[e] \in Values(Of(e))
IsFile(w) == w \in Seq(ToSet(w)) /\ \A i \in 1 .. Len(w) : IsLine(w[i])
TypeInv ==
    /\ TypeOK
    /\ IsConfig(mem) /\ IsConfig(saved) /\ IsConfig(before) /\ IsFile(file)
    /\ pc \in {"idle", "saving"} => pos = 1

-----------------------------------------------------------------------------
(* Texts and values.                                                       *)

LEMMA UpToIs ==
    ASSUME NEW S, NEW s \in Seq(S), NEW c, Contains(s, c)
    PROVE  \E k \in 1 .. Len(s) : UpTo(s, c) = SubSeq(s, 1, k - 1)
<1> DEFINE I == {i \in 1 .. Len(s) : s[i] = c}
<1>1. I # {} /\ I \in SUBSET Nat /\ I \in SUBSET (1 .. Len(s))
  BY DEF Contains
<1>2. UpTo(s, c) = SubSeq(s, 1, Min(I) - 1)
  BY <1>1, Zenon DEF SelectInSeq, UpTo
<1> HIDE DEF I
<1>3. PICK i \in I : \A j \in I : i <= j
  BY <1>1, Least
<1>4. Min(I) \in I
  BY <1>3, Zenon DEF Min
<1>5. QED
  BY <1>1, <1>2, <1>4

LEMMA UpToType ==
    ASSUME NEW s \in String, NEW c
    PROVE  UpTo(s, c) \in String
<1>1. CASE ~Contains(s, c)
  BY <1>1 DEF UpTo
<1>2. CASE Contains(s, c)
  <2>1. s \in Seq({"text", "quote", "newline"})
    BY DEF String
  <2>2. PICK k \in 1 .. Len(s) : UpTo(s, c) = SubSeq(s, 1, k - 1)
    BY <1>2, <2>1, UpToIs
  <2>3. SubSeq(s, 1, k - 1) \in Seq({"text", "quote", "newline"})
    BY <2>1, SubSeqProperties
  <2>4. QED
    BY <2>2, <2>3 DEF String
<1>3. QED
  BY <1>1, <1>2

LEMMA FittedType ==
    ASSUME NEW s \in String
    PROVE  Fitted(s) \in String /\ Len(Fitted(s)) <= StrLen
<1> DEFINE k == Min({Len(s), StrLen})
<1>1. s \in Seq({"text", "quote", "newline"}) /\ Len(s) \in Nat /\ StrLen \in Nat
  BY ConfFileAssumption DEF String
<1>2. k = IF Len(s) <= StrLen THEN Len(s) ELSE StrLen
  BY <1>1, MinOf
<1> HIDE DEF k
<1>3. k \in 0 .. Len(s) /\ k <= StrLen
  BY <1>1, <1>2
<1>4. SubSeq(s, 1, k) \in Seq({"text", "quote", "newline"}) /\ Len(SubSeq(s, 1, k)) = k
  BY <1>1, <1>3, SubSeqProperties
<1>5. QED
  BY <1>3, <1>4 DEF Fitted, String, k

LEMMA TextIs ==
    ASSUME NEW text \in Texts
    PROVE  /\ text[1] \in {"dec", "hex", "fixed", "dotted", "word", "raw", "quoted",
                           "open", "empty", "null", "white", "other"}
           /\ text[1] = "dec" => text[2] \in Int
           /\ text[1] \in {"hex", "fixed"} => text[2] \in Nat
           /\ text[1] = "word" => text[2] \in {0, 1}
           /\ text[1] = "raw" => text[2] \in 0 .. Modulus[8] - 1
           /\ text[1] \in {"quoted", "open"} => text[2] \in String
           /\ text[1] = "empty" => text = <<"empty">>
BY DEF Texts

LEMMA StumpIs ==
    ASSUME NEW l, IsLine(l), NEW s \in Stumps(l)
    PROVE  IsLine(s)
<1>1. <<"empty">> \in Texts
  BY DEF Texts
<1>2. QED
  BY <1>1 DEF Stumps, IsLine, Junk, Entry

\* What a variable's text may be, and what is scanned from a text.
LEMMA PrintedType ==
    ASSUME table \in Tables, NEW e \in Known, NEW v \in Values(Of(e))
    PROVE  Printed(Of(e), v) \in Texts
<1> DEFINE h == Of(e)
<1>1. h.fmt \in Forms /\ (h.fmt = "char" => h.bits = 8) /\ Modulus[h.bits] \in Nat \ {0, 1}
  BY OfIs
<1>2. v \in Values(h)
  OBVIOUS
<1> SUFFICES Printed(h, v) \in Texts
  OBVIOUS
<1> HIDE DEF h
<1>3. CASE h.fmt \in {"signed", "unsigned", "hex", "ipv4"}
  <2>1. v \in 0 .. Modulus[h.bits] - 1
    BY <1>2, <1>3 DEF Values, AnyOf
  <2>2. v \in Nat /\ v \in Int /\ v - Modulus[h.bits] \in Int
    BY <1>1, <2>1
  <2>3. QED
    BY <1>3, <2>2 DEF Printed, Texts
<1>4. CASE h.fmt = "float"
  <2>1. v \in Nat
    BY <1>2, <1>4 DEF Values
  <2>2. (v + 5) \div 10 \in Nat
    BY <2>1
  <2>3. QED
    BY <1>4, <2>2 DEF Printed, Texts
<1>5. CASE h.fmt = "bool"
  <2>1. v \in {0, 1}
    BY <1>2, <1>5 DEF Values
  <2>2. QED
    BY <1>5, <2>1 DEF Printed, Texts
<1>6. CASE h.fmt = "char"
  <2>1. v \in 0 .. Modulus[8] - 1
    BY <1>1, <1>2, <1>6 DEF Values, AnyOf
  <2>2. QED
    BY <1>6, <2>1 DEF Printed, Texts
<1>7. CASE h.fmt = "string"
  <2>1. v \in String
    BY <1>2, <1>7 DEF Values
  <2>2. QED
    BY <1>7, <2>1 DEF Printed, Texts
<1>8. CASE h.fmt \in {"stub", "pointer"}
  BY <1>8 DEF Printed, Texts
<1>9. QED
  BY <1>1, <1>3, <1>4, <1>5, <1>6, <1>7, <1>8 DEF Forms

LEMMA ScannedType ==
    ASSUME table \in Tables, NEW e \in Known, NEW old \in Values(Of(e)),
           NEW text \in Texts, NEW v \in Scanned(Of(e), old, text)
    PROVE  v \in Values(Of(e))
<1> DEFINE h == Of(e)
           m == Modulus[h.bits]
<1>1. h.fmt \in Forms /\ (h.fmt = "char" => h.bits = 8) /\ m \in Nat \ {0, 1}
  BY OfIs
<1>2. old \in Values(h) /\ v \in Scanned(h, old, text)
  OBVIOUS
<1> SUFFICES v \in Values(h)
  OBVIOUS
<1> HIDE DEF h
<1>3. \A x \in Int : x % m \in 0 .. m - 1
  <2> HIDE DEF m
  <2>1. QED
    BY <1>1
<1>4. CASE h.fmt \in {"signed", "unsigned"}
  <2>1. v \in {0} \/ (text[1] = "dec" /\ v = text[2] % m)
    BY <1>2, <1>4 DEF Scanned
  <2>2. v \in 0 .. m - 1
    <3> HIDE DEF m
    <3>1. QED
      BY <1>1, <1>3, <2>1, TextIs
  <2>3. QED
    BY <1>4, <2>2 DEF Values, AnyOf
<1>5. CASE h.fmt = "hex"
  <2>1. v \in AnyOf(h) \/ v = old \/ (text[1] = "hex" /\ v = text[2] % m)
    BY <1>2, <1>5 DEF Scanned
  <2>2. old \in 0 .. m - 1
    BY <1>2, <1>5 DEF Values, AnyOf
  <2>3. text[1] = "hex" => text[2] \in Int
    BY TextIs
  <2>4. v \in 0 .. m - 1
    BY <1>3, <2>1, <2>2, <2>3 DEF AnyOf
  <2>5. QED
    BY <1>5, <2>4 DEF Values, AnyOf
<1>6. CASE h.fmt = "float"
  <2>1. v = old \/ (text[1] = "fixed" /\ v = 10 * text[2])
    BY <1>2, <1>6 DEF Scanned
  <2>2. old \in Nat
    BY <1>2, <1>6 DEF Values
  <2>3. v \in Nat
    BY <2>1, <2>2, TextIs
  <2>4. QED
    BY <1>6, <2>3 DEF Values
<1>7. CASE h.fmt = "bool"
  <2>1. v \in {old, 0, 1} \/ (text[1] = "word" /\ v = text[2])
    BY <1>2, <1>7 DEF Scanned
  <2>2. old \in {0, 1}
    BY <1>2, <1>7 DEF Values
  <2>3. v \in {0, 1}
    BY <2>1, <2>2, TextIs
  <2>4. QED
    BY <1>7, <2>3 DEF Values
<1>8. CASE h.fmt = "char"
  <2>1. v \in {old, 1} \/ (text[1] = "raw" /\ v = text[2])
    BY <1>2, <1>8 DEF Scanned
  <2>2. old \in 0 .. m - 1 /\ 1 \in 0 .. m - 1 /\ m = Modulus[8]
    <3>1. old \in 0 .. m - 1 /\ m = Modulus[8]
      BY <1>1, <1>2, <1>8 DEF Values, AnyOf
    <3> HIDE DEF m
    <3>2. 1 \in 0 .. m - 1
      BY <1>1
    <3>3. QED
      BY <3>1, <3>2
  <2>3. v \in 0 .. m - 1
    BY <2>1, <2>2, TextIs
  <2>4. QED
    BY <1>8, <2>3 DEF Values, AnyOf
<1>9. CASE h.fmt = "string"
  <2>1. \/ text[1] \in {"quoted", "open"} /\ v = Fitted(UpTo(text[2], "quote"))
        \/ v = <<>> \/ v = Fitted(<<"text">>)
    BY <1>2, <1>9 DEF Scanned
  <2>2. <<>> \in String /\ <<"text">> \in String /\ Len(<<>>) <= StrLen
    BY ConfFileAssumption DEF String
  <2>3. text[1] \in {"quoted", "open"} => UpTo(text[2], "quote") \in String
    BY TextIs, UpToType
  <2>4. v \in String /\ Len(v) <= StrLen
    BY <2>1, <2>2, <2>3, FittedType
  <2>5. QED
    BY <1>9, <2>4 DEF Values
<1>10. CASE h.fmt \in {"stub", "pointer", "ipv4"}
  BY <1>2, <1>10 DEF Scanned
<1>11. QED
  BY <1>1, <1>4, <1>5, <1>6, <1>7, <1>8, <1>9, <1>10 DEF Forms

\* The remainder is the one there is.
LEMMA ModUnique ==
    ASSUME NEW M \in Nat, M > 0, NEW q \in Int, NEW r \in 0 .. M - 1
    PROVE  (M * q + r) % M = r
<1> DEFINE a == M * q + r
           p == a \div M
           s == a % M
<1>1. a \in Int /\ p \in Int /\ s \in 0 .. M - 1 /\ a = M * p + s
  OBVIOUS
<1> HIDE DEF p, s
<1>2. M * (q - p) = s - r
  BY <1>1
<1>3. q - p \in Int /\ (q - p >= 1 => M * (q - p) >= M)
  BY <1>1
<1>4. q - p <= -1 => M * (q - p) <= -M
  BY <1>1
<1>5. q - p = 0
  BY <1>1, <1>2, <1>3, <1>4
<1>6. QED
  BY <1>1, <1>2, <1>5 DEF s

\* Zeroing the first byte leaves a value of the type.
LEMMA FirstByteType ==
    ASSUME table \in Tables, NEW e \in Known, NEW v \in Values(Of(e))
    PROVE  FirstByteZero(e, v) \in Values(Of(e))
<1> DEFINE h == Of(e)
           m == Modulus[h.bits]
           b == Modulus[8]
<1>1. h.fmt \in Forms /\ m \in Nat \ {0, 1} /\ b \in Nat \ {0, 1}
  BY OfIs, ConfFileAssumption
<1>2. v \in Values(h) /\ FirstByteZero(e, v) = IF h.fmt = "string" THEN <<>> ELSE v - (v % b)
  BY DEF FirstByteZero
<1> HIDE DEF h, b
<1>3. CASE h.fmt = "string"
  <2>1. <<>> \in String /\ Len(<<>>) <= StrLen
    BY ConfFileAssumption DEF String
  <2>2. QED
    BY <1>2, <1>3, <2>1 DEF Values, h
<1>4. CASE h.fmt = "float"
  <2>1. v \in Nat
    BY <1>2, <1>4 DEF Values
  <2>2. v - (v % b) \in Nat
    BY <1>1, <2>1
  <2>3. QED
    BY <1>2, <1>4, <2>2 DEF Values, h
<1>5. CASE h.fmt = "bool"
  <2>1. v \in {0, 1}
    BY <1>2, <1>5 DEF Values
  <2>2. v - (v % b) \in {0, 1}
    BY <1>1, <2>1
  <2>3. QED
    BY <1>2, <1>5, <2>2 DEF Values, h
<1>6. CASE h.fmt \notin {"string", "float", "bool"}
  <2>1. v \in 0 .. m - 1
    BY <1>2, <1>6 DEF Values, AnyOf
  <2>2. v - (v % b) \in 0 .. m - 1
    <3> HIDE DEF m
    <3>1. v % b \in Nat /\ v % b <= v
      BY <1>1, <2>1
    <3>2. QED
      BY <1>1, <2>1, <3>1
  <2>3. QED
    BY <1>2, <1>6, <2>2 DEF Values, AnyOf, h
<1>7. QED
  BY <1>3, <1>4, <1>5, <1>6

\* Zeroing it once more changes nothing.
LEMMA FirstByteTwice ==
    ASSUME table \in Tables, NEW e \in Known, NEW v \in Values(Of(e))
    PROVE  FirstByteZero(e, FirstByteZero(e, v)) = FirstByteZero(e, v)
<1> DEFINE b == Modulus[8]
           q == v \div b
           r == v % b
<1>1. Of(e).fmt \in Forms /\ Modulus[Of(e).bits] \in Nat \ {0, 1} /\ b \in Nat \ {0, 1}
  BY OfIs, ConfFileAssumption
<1>2. CASE Of(e).fmt = "string"
  BY <1>2 DEF FirstByteZero
<1>3. CASE Of(e).fmt # "string"
  <2>1. v \in Nat
    BY <1>1, <1>3 DEF Values, AnyOf
  <2>2. FirstByteZero(e, v) = v - r
    BY <1>3 DEF FirstByteZero
  <2>3. FirstByteZero(e, v - r) = v - r - ((v - r) % b)
    BY <1>3 DEF FirstByteZero
  <2>4. q \in Int /\ r \in 0 .. b - 1 /\ v - r = b * q + 0
    BY <1>1, <2>1
  <2> HIDE DEF b, q, r
  <2>5. (b * q + 0) % b = 0
    BY <1>1, <2>4, ModUnique
  <2>6. (v - r) % b = 0 /\ v - r - 0 = v - r
    BY <2>1, <2>4, <2>5
  <2>7. QED
    BY <2>2, <2>3, <2>6 DEF r
<1>4. QED
  BY <1>2, <1>3

-----------------------------------------------------------------------------
(* The lines of a file.                                                    *)

Lines == {Blank, Junk} \cup {Header(s) : s \in ToSet(Sections)}
         \cup {Entry(f, t) : f \in {e[2] : e \in Known}, t \in Texts}

LEMMA LinesAre == \A l \in Lines : IsLine(l)
BY DEF Lines, IsLine, Blank, Junk, Header, Entry

LEMMA FileIs ==
    ASSUME NEW S, NEW w \in Seq(S), \A l \in S : IsLine(l)
    PROVE  IsFile(w)
<1>1. \A i \in 1 .. Len(w) : w[i] \in S /\ w[i] \in ToSet(w)
  BY ElementOfSeq DEF ToSet
<1>2. w \in Seq(ToSet(w))
  BY <1>1, IsASeq
<1>3. QED
  BY <1>1, <1>2 DEF IsFile

LEMMA FlattenNone == FlattenSeq(<<>>) = <<>>
BY DEF FlattenSeq

LEMMA FlattenType ==
    ASSUME NEW S, NEW ss \in Seq(Seq(S))
    PROVE  FlattenSeq(ss) \in Seq(S)
<1>1. CASE Len(ss) = 0
  <2>1. ss = <<>>
    BY <1>1, EmptySeq
  <2>2. QED
    BY <2>1, FlattenNone, EmptySeq
<1>2. CASE Len(ss) # 0
  BY <1>2, FlattenPlaces
<1>3. QED
  BY <1>1, <1>2

LEMMA LineType ==
    ASSUME table \in Tables, NEW e \in Known, NEW v \in Values(Of(e))
    PROVE  Line(e, v) \in Seq(Lines)
<1>1. Printed(Of(e), v) \in Texts
  BY PrintedType
<1>2. CASE Of(e).fmt = "string" /\ Contains(v, "newline")
  <2>1. v \in String
    BY <1>2 DEF Values
  <2>2. <<"open", UpTo(v, "newline")>> \in Texts
    BY <2>1, UpToType DEF Texts
  <2>3. Entry(e[2], <<"open", UpTo(v, "newline")>>) \in Lines /\ Junk \in Lines
    BY <2>2 DEF Lines
  <2>4. QED
    BY <1>2, <2>3 DEF Line
<1>3. CASE ~(Of(e).fmt = "string" /\ Contains(v, "newline"))
  <2>1. Entry(e[2], Printed(Of(e), v)) \in Lines
    BY <1>1 DEF Lines
  <2>2. QED
    BY <1>3, <2>1 DEF Line
<1>4. QED
  BY <1>2, <1>3

\* The entries of a section are variables of the configuration.
LEMMA FieldIs ==
    ASSUME NEW s \in ToSet(Sections)
    PROVE  /\ Fields[s] \in Seq(ToSet(Fields[s])) /\ Len(Fields[s]) \in Nat
           /\ \A j \in 1 .. Len(Fields[s]) : <<s, Fields[s][j]>> \in Known
<1>1. Fields[s] \in Seq(ToSet(Fields[s]))
  BY ConfFileAssumption
<1>2. ASSUME NEW j \in 1 .. Len(Fields[s]) PROVE <<s, Fields[s][j]>> \in Known
  <2>1. Fields[s][j] \in ToSet(Fields[s])
    BY <1>1, ElementOfSeq
  <2>2. QED
    BY <2>1 DEF Known
<1>3. QED
  BY <1>1, <1>2

LEMMA SectionIs ==
    /\ Len(Sections) \in Nat /\ Len(Sections) >= 1
    /\ \A i \in 1 .. Len(Sections) : Sections[i] \in ToSet(Sections)
    /\ \A s \in ToSet(Sections) : \E i \in 1 .. Len(Sections) : s = Sections[i]
    /\ \A i, j \in 1 .. Len(Sections) : Sections[i] = Sections[j] => i = j
    /\ Skip \notin ToSet(Sections) /\ Sections[1] = <<>> /\ <<>> \in ToSet(Sections)
<1>1. Sections \in Seq(ToSet(Sections)) /\ Len(Sections) >= 1 /\ IsInjective(Sections)
      /\ Sections[1] = <<>> /\ Skip \notin ToSet(Sections)
  BY ConfFileAssumption
<1>2. DOMAIN Sections = 1 .. Len(Sections) /\ Len(Sections) \in Nat
  BY <1>1
<1>3. QED
  BY <1>1, <1>2 DEF ToSet, IsInjective

\* What is written is made of the lines of the variables and the headers.
LEMMA BodyIn ==
    ASSUME NEW m, NEW S, \A e \in Known : Line(e, m[e]) \in Seq(S),
           NEW s \in ToSet(Sections)
    PROVE  Body(m, s) \in Seq(S)
<1> DEFINE ss == [j \in 1 .. Len(Fields[s]) |->
                     Line(<<s, Fields[s][j]>>, m[<<s, Fields[s][j]>>])]
<1>1. \A j \in 1 .. Len(Fields[s]) :
         Line(<<s, Fields[s][j]>>, m[<<s, Fields[s][j]>>]) \in Seq(S)
  BY FieldIs
<1>2. ss \in Seq(Seq(S))
  BY <1>1, FieldIs, IsASeq
<1>3. Body(m, s) = FlattenSeq(ss)
  BY DEF Body
<1> HIDE DEF ss
<1>4. QED
  BY <1>2, <1>3, FlattenType

LEMMA WrittenIn ==
    ASSUME NEW m, NEW S, \A e \in Known : Line(e, m[e]) \in Seq(S),
           Blank \in S, \A s \in ToSet(Sections) : Header(s) \in S
    PROVE  write_section(m) \in Seq(S)
<1> DEFINE part(i) == IF i = 1 THEN Body(m, Sections[1])
                      ELSE <<Blank, Header(Sections[i])>> \o Body(m, Sections[i])
           ss == [i \in 1 .. Len(Sections) |-> part(i)]
<1>1. ASSUME NEW i \in 1 .. Len(Sections) PROVE part(i) \in Seq(S)
  <2>1. Sections[i] \in ToSet(Sections) /\ Sections[1] \in ToSet(Sections)
    BY SectionIs
  <2>2. Body(m, Sections[i]) \in Seq(S) /\ Body(m, Sections[1]) \in Seq(S)
    BY <2>1, BodyIn
  <2>3. Blank \in S /\ Header(Sections[i]) \in S
    BY <2>1
  <2>4. <<Blank, Header(Sections[i])>> \in Seq(S)
    BY <2>3
  <2>5. QED
    BY <2>2, <2>4, ConcatProperties
<1>2. ss \in Seq(Seq(S))
  <2> HIDE DEF part
  <2>1. QED
    BY <1>1, SectionIs, IsASeq
<1>3. write_section(m) = FlattenSeq(ss)
  BY DEF write_section
<1> HIDE DEF ss
<1>4. QED
  BY <1>2, <1>3, FlattenType

LEMMA WrittenType ==
    ASSUME table \in Tables, NEW m, \A e \in Known : m[e] \in Values(Of(e))
    PROVE  write_section(m) \in Seq(Lines) /\ IsFile(write_section(m))
<1>1. Blank \in Lines /\ \A s \in ToSet(Sections) : Header(s) \in Lines
  BY DEF Lines
<1>2. \A e \in Known : Line(e, m[e]) \in Seq(Lines)
  BY LineType
<1>3. write_section(m) \in Seq(Lines)
  BY <1>1, <1>2, WrittenIn
<1>4. QED
  BY <1>3, LinesAre, FileIs

-----------------------------------------------------------------------------
(* Every step leaves the state well formed.                                *)

LEMMA SameRows ==
    ASSUME table' = table
    PROVE  /\ \A e : Of(e)' = Of(e)
           /\ \A m : IsConfig(m) => (IsConfig(m))'
BY DEF Of, CONF_TYPE, IsConfig

\* One variable takes another value of its type.
LEMMA ConfigSet ==
    ASSUME NEW m, IsConfig(m), NEW e \in Known, NEW v \in Values(Of(e))
    PROVE  IsConfig([m EXCEPT ![e] = v])
<1>1. DOMAIN m = Known /\ \A x \in Known : m[x] \in Values(Of(x))
  BY DEF IsConfig
<1>2. DOMAIN [m EXCEPT ![e] = v] = Known
  BY <1>1
<1>3. \A x \in Known : [m EXCEPT ![e] = v][x] = IF x = e THEN v ELSE m[x]
  BY <1>1
<1>4. QED
  BY <1>1, <1>2, <1>3 DEF IsConfig

\* An assignment sets one variable, and it may zero the first byte of another.
LEMMA AssignIs ==
    ASSUME IsConfig(mem), NEW e \in Known, NEW text, Assign(e, text)
    PROVE  \E v \in Scanned(Of(e), mem[e], text) :
             /\ mem' = IF Clobbers(e, v)
                         THEN [[mem EXCEPT ![e] = v] EXCEPT
                                 ![Behind[e]] = FirstByteZero(Behind[e], mem[Behind[e]])]
                         ELSE [mem EXCEPT ![e] = v]
             /\ Clobbers(e, v) => Behind[e] \in Known
             /\ mem'[e] = v
             /\ \A x \in Known \ {e} :
                  \/ mem'[x] = mem[x]
                  \/ FillsUpTo(e, v, x) /\ mem'[x] = FirstByteZero(x, mem[x])
<1>1. PICK v \in Scanned(Of(e), mem[e], text) :
        mem' = IF Clobbers(e, v)
                 THEN [mem EXCEPT ![e] = v, ![Behind[e]] = FirstByteZero(Behind[e], @)]
                 ELSE [mem EXCEPT ![e] = v]
  BY DEF Assign
<1>2. DOMAIN mem = Known
  BY DEF IsConfig
<1>3. CASE Clobbers(e, v)
  <2>1. Behind[e] \in Known /\ Behind[e] # e
    BY <1>3, ConfFileAssumption DEF Clobbers
  <2>2. mem' = [[mem EXCEPT ![e] = v] EXCEPT
                  ![Behind[e]] = FirstByteZero(Behind[e], mem[Behind[e]])]
    BY <1>1, <1>2, <1>3, <2>1
  <2>3. \A x \in Known : mem'[x] = IF x = Behind[e] THEN FirstByteZero(x, mem[x])
                                  ELSE IF x = e THEN v ELSE mem[x]
    BY <1>2, <2>1, <2>2
  <2>4. QED
    BY <1>3, <2>1, <2>2, <2>3 DEF FillsUpTo
<1>4. CASE ~Clobbers(e, v)
  <2>1. mem' = [mem EXCEPT ![e] = v]
    BY <1>1, <1>4
  <2>2. \A x \in Known : mem'[x] = IF x = e THEN v ELSE mem[x]
    BY <1>2, <2>1
  <2>3. QED
    BY <1>4, <2>1, <2>2
<1>5. QED
  BY <1>3, <1>4

LEMMA AssignType ==
    ASSUME table \in Tables, IsConfig(mem), table' = table, NEW e \in Known,
           NEW text \in Texts, Assign(e, text)
    PROVE  IsConfig(mem)'
<1>1. PICK v \in Scanned(Of(e), mem[e], text) :
        /\ mem' = IF Clobbers(e, v)
                    THEN [[mem EXCEPT ![e] = v] EXCEPT
                            ![Behind[e]] = FirstByteZero(Behind[e], mem[Behind[e]])]
                    ELSE [mem EXCEPT ![e] = v]
        /\ Clobbers(e, v) => Behind[e] \in Known
  BY AssignIs
<1>2. \A x \in Known : mem[x] \in Values(Of(x))
  BY DEF IsConfig
<1>3. v \in Values(Of(e))
  BY <1>2, ScannedType
<1>4. IsConfig([mem EXCEPT ![e] = v])
  BY <1>3, ConfigSet
<1>5. IsConfig(mem')
  <2>1. CASE Clobbers(e, v)
    <3>1. Behind[e] \in Known
      BY <1>1, <2>1
    <3>2. FirstByteZero(Behind[e], mem[Behind[e]]) \in Values(Of(Behind[e]))
      BY <1>2, <3>1, FirstByteType
    <3>3. IsConfig([[mem EXCEPT ![e] = v] EXCEPT
                      ![Behind[e]] = FirstByteZero(Behind[e], mem[Behind[e]])])
      BY <1>4, <3>1, <3>2, ConfigSet
    <3>4. QED
      BY <1>1, <2>1, <3>3
  <2>2. CASE ~Clobbers(e, v)
    BY <1>1, <1>4, <2>2
  <2>3. QED
    BY <2>1, <2>2
<1>6. QED
  BY <1>5 DEF IsConfig, Of, CONF_TYPE

LEMMA DefaultType == ASSUME table \in Tables PROVE IsConfig(Default)
<1>1. ASSUME NEW e \in Known
      PROVE  (IF Of(e).fmt = "string" THEN <<>> ELSE 0) \in Values(Of(e))
  <2>1. Modulus[Of(e).bits] \in Nat \ {0, 1} /\ StrLen \in Nat
    BY OfIs, ConfFileAssumption
  <2>2. CASE Of(e).fmt = "string"
    BY <2>1, <2>2 DEF Values, String
  <2>3. CASE Of(e).fmt # "string"
    <3>1. 0 \in Nat /\ 0 \in {0, 1} /\ 0 \in 0 .. Modulus[Of(e).bits] - 1
      BY <2>1
    <3>2. QED
      BY <2>3, <3>1 DEF Values, AnyOf
  <2>4. QED
    BY <2>2, <2>3
<1>2. QED
  BY <1>1 DEF IsConfig, Default

\* What TypeInv says of the rest of the state.
RestOK ==
    /\ cut \in BOOLEAN /\ state \in {"old", "part", "whole", "edited"}
    /\ edits \in 0 .. MaxEdits /\ changes \in 0 .. MaxChanges
    /\ pc \in {"idle", "saving", "loading", "loaded", "failed", "overread", "wild"}
    /\ pos \in 1 .. Len(file) + 1 /\ sec \in ToSet(Sections) \cup {Skip}
    /\ pc \in {"idle", "saving"} => pos = 1
LEMMA TypeInvIs ==
    TypeInv <=> /\ table \in Tables /\ RestOK /\ IsFile(file)
                /\ IsConfig(mem) /\ IsConfig(saved) /\ IsConfig(before)
BY DEF TypeInv, TypeOK, RestOK, IsConfig, IsFile

LEMMA FileLen == ASSUME TypeInv PROVE Len(file) \in Nat /\ pos \in Nat /\ pos >= 1
BY DEF TypeInv, TypeOK, IsFile

LEMMA InitType == ASSUME Init PROVE TypeInv
<1>1. IsConfig(Default)
  BY DefaultType DEF Init
<1>2. IsFile(<<>>)
  BY DEF IsFile
<1>3. RestOK
  <2>1. Len(<<>>) = 0 /\ MaxEdits \in Nat /\ MaxChanges \in Nat
    BY ConfFileAssumption
  <2>2. edits \in 0 .. MaxEdits /\ changes \in 0 .. MaxChanges
    BY <2>1 DEF Init
  <2>2a. cut \in BOOLEAN
    BY Zenon DEF Init
  <2>3. pos \in 1 .. Len(file) + 1
    BY <2>1 DEF Init
  <2>4. sec \in ToSet(Sections) \cup {Skip}
    BY SectionIs DEF Init
  <2>5. QED
    BY <2>2, <2>2a, <2>3, <2>4 DEF Init, RestOK
<1>4. QED
  BY <1>1, <1>2, <1>3, TypeInvIs DEF Init

\* The application and the access by name.
LEMMA ChangeType ==
    ASSUME TypeInv, NEW e \in Known, Modify(e) \/ conf_entry_set(e)
    PROVE  TypeInv'
<1>1. Changing
  BY DEF Modify, conf_entry_set
<1>2. RestOK' /\ table' \in Tables /\ IsFile(file)' /\ IsConfig(saved)' /\ IsConfig(before)'
  <2>1. changes' \in 0 .. MaxChanges
    BY <1>1, ConfFileAssumption DEF Changing, TypeInv, TypeOK
  <2>2. /\ table' = table /\ file' = file /\ saved' = saved /\ before' = before
        /\ IsConfig(saved)' /\ IsConfig(before)' /\ IsFile(file)'
    BY <1>1, SameRows, TypeInvIs DEF Changing, IsFile
  <2>3. QED
    BY <1>1, <2>1, <2>2, TypeInvIs DEF Changing, RestOK
<1>3. table' = table /\ table \in Tables /\ IsConfig(mem)
  BY <1>1, TypeInvIs DEF Changing
<1>4. \A v \in Inputs(table.type[e]) : v \in Values(Of(e))
  BY <1>3, ValuesAssumption DEF Of
<1>5. IsConfig(mem)'
  <2>1. CASE Modify(e)
    <3>1. PICK v \in Inputs(table.type[e]) : mem' = [mem EXCEPT ![e] = v]
      BY <2>1 DEF Modify
    <3>2. IsConfig(mem')
      BY <1>3, <1>4, <3>1, ConfigSet
    <3>3. QED
      BY <1>3, <3>2 DEF IsConfig, Of, CONF_TYPE
  <2>2. CASE conf_entry_set(e)
    <3>1. PICK text \in {Printed(Of(e), v) : v \in Inputs(table.type[e])} \cup {<<"null">>} :
            Assign(e, text)
      BY <2>2 DEF conf_entry_set
    <3>2. text \in Texts
      <4>1. <<"null">> \in Texts
        BY DEF Texts
      <4>2. \A v \in Inputs(table.type[e]) : Printed(Of(e), v) \in Texts
        BY <1>3, <1>4, PrintedType
      <4>3. QED
        BY <4>1, <4>2
    <3>3. QED
      BY <1>3, <3>1, <3>2, AssignType
  <2>3. QED
    BY <2>1, <2>2
<1>6. QED
  BY <1>2, <1>5, TypeInvIs DEF TypeInv, TypeOK, RestOK, IsConfig, IsFile

\* Saving, crashing, editing.
LEMMA SameConfigs ==
    ASSUME TypeInv, UNCHANGED <<table, mem, saved, before>>
    PROVE  /\ table' \in Tables
           /\ IsConfig(mem)' /\ IsConfig(saved)' /\ IsConfig(before)'
<1>1. table \in Tables /\ IsConfig(mem) /\ IsConfig(saved) /\ IsConfig(before)
  BY TypeInvIs
<1>2. QED
  BY <1>1, SameRows DEF IsConfig, Of, CONF_TYPE

LEMMA InvPrime ==
    ASSUME table' \in Tables, RestOK', IsFile(file)',
           IsConfig(mem)', IsConfig(saved)', IsConfig(before)'
    PROVE  TypeInv'
BY DEF TypeInv, TypeOK, RestOK, IsConfig, IsFile

LEMMA EmptyFile == IsFile(<<>>) /\ Len(<<>>) = 0
BY DEF IsFile

LEMMA SaveType == ASSUME TypeInv, SaveBegin \/ SaveOverread \/ SaveEnd PROVE TypeInv'
<1>1. table \in Tables /\ RestOK /\ IsFile(file) /\ IsConfig(mem)
      /\ IsConfig(saved) /\ IsConfig(before)
  BY TypeInvIs
<1>2. CASE SaveBegin \/ SaveOverread
  <2>1. table' = table /\ mem' = mem /\ saved' = mem /\ before' = before
        /\ file' = <<>>
    BY <1>2 DEF SaveBegin, SaveOverread, Opened
  <2>2. table' \in Tables /\ IsConfig(mem)' /\ IsConfig(saved)' /\ IsConfig(before)'
    BY <1>1, <2>1, SameRows DEF IsConfig, Of, CONF_TYPE
  <2>3. IsFile(file)'
    BY <2>1, EmptyFile DEF IsFile
  <2>4. pos = 1
    BY <1>1, <1>2 DEF RestOK, SaveBegin, SaveOverread, Opened
  <2>5. RestOK'
    <3>1. pos' \in 1 .. Len(file') + 1
      BY <1>2, <2>1, <2>4, EmptyFile DEF SaveBegin, SaveOverread, Opened
    <3>2. QED
      BY <1>1, <1>2, <2>4, <3>1 DEF RestOK, SaveBegin, SaveOverread, Opened
  <2>6. QED
    BY <2>2, <2>3, <2>5, InvPrime
<1>3. CASE SaveEnd
  <2>1. table' = table /\ mem' = mem /\ saved' = saved /\ before' = before
        /\ file' = write_section(mem)
    BY <1>3 DEF SaveEnd
  <2>2. table' \in Tables /\ IsConfig(mem)' /\ IsConfig(saved)' /\ IsConfig(before)'
    BY <2>1, SameConfigs
  <2>3. IsFile(write_section(mem)) /\ Len(write_section(mem)) \in Nat
    <3>1. write_section(mem) \in Seq(Lines) /\ IsFile(write_section(mem))
      BY <1>1, WrittenType DEF IsConfig
    <3>2. QED
      BY <3>1
  <2>4. IsFile(file)'
    BY <2>1, <2>3 DEF IsFile
  <2>5. pos = 1 /\ pos' = 1
    BY <1>1, <1>3 DEF RestOK, SaveEnd
  <2>6. RestOK'
    <3>1. pos' \in 1 .. Len(file') + 1
      <4> DEFINE n == Len(write_section(mem))
      <4>1. n \in Nat /\ Len(file') = n
        BY <2>1, <2>3
      <4> HIDE DEF n
      <4>2. QED
        BY <2>5, <4>1
    <3>2. QED
      BY <1>1, <1>3, <2>5, <3>1 DEF RestOK, SaveEnd
  <2>7. QED
    BY <2>2, <2>4, <2>6, InvPrime
<1>4. QED
  BY <1>2, <1>3

\* A part of a file, and one whose last line is a stump.
LEMMA PartIs ==
    ASSUME NEW w, IsFile(w), NEW n \in 0 .. Len(w)
    PROVE  LET part == SubSeq(w, 1, n)
           IN /\ IsFile(part) /\ Len(part) = n
              /\ \A i \in 1 .. n : part[i] = w[i]
              /\ \A l : n > 0 /\ l \in Stumps(part[n]) => IsFile([part EXCEPT ![n] = l])
<1> DEFINE part == SubSeq(w, 1, n)
<1>1. w \in Seq(ToSet(w)) /\ Len(w) \in Nat /\ \A i \in 1 .. Len(w) : IsLine(w[i])
  BY DEF IsFile
<1>2. part \in Seq(ToSet(w)) /\ Len(part) = n /\ \A i \in 1 .. n : part[i] = w[i]
  BY <1>1, SubSeqProperties
<1> HIDE DEF part
<1>3. \A i \in 1 .. n : IsLine(part[i])
  BY <1>1, <1>2
<1>4. IsFile(part)
  <2>1. \A i \in 1 .. Len(part) : part[i] \in ToSet(part)
    BY <1>2 DEF ToSet
  <2>2. part \in Seq(ToSet(part))
    BY <1>2, <2>1, IsASeq
  <2>3. QED
    BY <1>2, <1>3, <2>2 DEF IsFile
<1>5. ASSUME NEW l, n > 0, l \in Stumps(part[n]) PROVE IsFile([part EXCEPT ![n] = l])
  <2> DEFINE q == [part EXCEPT ![n] = l]
  <2>1. n \in 1 .. n /\ IsLine(l)
    BY <1>3, <1>5, StumpIs
  <2>2. q \in Seq(ToSet(w) \cup {l}) /\ Len(q) = n
        /\ \A i \in 1 .. n : q[i] = IF i = n THEN l ELSE part[i]
    <3>1. part \in Seq(ToSet(w) \cup {l})
      BY <1>2, SeqMonotonic
    <3>2. QED
      BY <1>2, <2>1, <3>1, ExceptSeq
  <2> HIDE DEF q
  <2>3. \A i \in 1 .. Len(q) : q[i] \in ToSet(q) /\ IsLine(q[i])
    BY <1>3, <2>1, <2>2 DEF ToSet
  <2>4. q \in Seq(ToSet(q))
    BY <2>2, <2>3, IsASeq
  <2>5. QED
    BY <2>3, <2>4 DEF IsFile, q
<1>6. QED
  BY <1>2, <1>4, <1>5 DEF part

LEMMA CrashType == ASSUME TypeInv, CrashSaving \/ CrashLoading PROVE TypeInv'
<1>1. table \in Tables /\ RestOK /\ IsFile(file) /\ IsConfig(mem)
      /\ IsConfig(saved) /\ IsConfig(before) /\ Restart
  BY TypeInvIs DEF CrashSaving, CrashLoading
<1>2. table' \in Tables /\ IsConfig(mem)' /\ IsConfig(saved)' /\ IsConfig(before)'
  BY <1>1, DefaultType, SameRows DEF IsConfig, Of, CONF_TYPE, Restart
<1>3. IsFile(file)' /\ Len(file') \in Nat /\ cut' \in BOOLEAN /\ state' = state
  <2>1. CASE CrashLoading
    BY <1>1, <2>1 DEF CrashLoading, IsFile, RestOK
  <2>2. CASE CrashSaving
    <3> DEFINE w == write_section(mem)
    <3>1. IsFile(w)
      BY <1>1, WrittenType DEF IsConfig
    <3> HIDE DEF w
    <3>2. PICK n \in 0 .. Len(w) :
            LET part == SubSeq(w, 1, n)
            IN \/ file' = part /\ cut' = FALSE
               \/ /\ n > 0 /\ cut' = TRUE
                  /\ \E l \in Stumps(part[n]) : file' = [part EXCEPT ![n] = l]
      BY <2>2 DEF CrashSaving, w
    <3>3. IsFile(file')
      <4> DEFINE part == SubSeq(w, 1, n)
      <4>1. /\ IsFile(part)
            /\ \A l : n > 0 /\ l \in Stumps(part[n]) => IsFile([part EXCEPT ![n] = l])
        BY <3>1, PartIs
      <4>2. \/ file' = part
            \/ n > 0 /\ \E l \in Stumps(part[n]) : file' = [part EXCEPT ![n] = l]
        BY <3>2
      <4> HIDE DEF part
      <4>3. QED
        BY <4>1, <4>2
    <3>4. cut' \in BOOLEAN
      BY <3>2, Zenon
    <3>5. QED
      BY <2>2, <3>3, <3>4 DEF CrashSaving, IsFile
  <2>3. QED
    BY <2>1, <2>2 DEF CrashSaving, CrashLoading
<1>4. RestOK'
  <2>1. pos' \in 1 .. Len(file') + 1 /\ sec' \in ToSet(Sections) \cup {Skip}
    BY <1>1, <1>3, SectionIs DEF Restart
  <2>2. QED
    BY <1>1, <1>3, <2>1 DEF Restart, RestOK
<1>5. QED
  BY <1>2, <1>3, <1>4, InvPrime

\* A line put into a file.
LEMMA InsertIs ==
    ASSUME NEW w, IsFile(w), NEW n \in 1 .. Len(w) + 1, NEW l
    PROVE  InsertAt(w, n, l) \in Seq(ToSet(w) \cup {l})
<1> DEFINE S == ToSet(w) \cup {l}
           a == SubSeq(w, 1, n - 1)
           b == SubSeq(w, n, Len(w))
<1>1. w \in Seq(ToSet(w)) /\ Len(w) \in Nat
  BY DEF IsFile
<1>2. w \in Seq(S) /\ l \in S
  BY <1>1, SeqMonotonic
<1> HIDE DEF S
<1>3. a \in Seq(S) /\ b \in Seq(S) /\ <<l>> \in Seq(S)
  <2>1. \A i \in 1 .. n - 1 : w[i] \in S
    BY <1>1, <1>2, ElementOfSeq
  <2>2. \A i \in n .. Len(w) : w[i] \in S
    BY <1>1, <1>2, ElementOfSeq
  <2>3. QED
    BY <1>1, <1>2, <2>1, <2>2, SubSeqProperties
<1>4. InsertAt(w, n, l) = a \o <<l>> \o b
  BY DEF InsertAt
<1> HIDE DEF a, b
<1>5. QED
  BY <1>3, <1>4, ConcatProperties DEF S

LEMMA EditType == ASSUME TypeInv, Edit PROVE TypeInv'
<1>1. table \in Tables /\ RestOK /\ IsFile(file) /\ IsConfig(mem)
      /\ IsConfig(saved) /\ IsConfig(before)
  BY TypeInvIs
<1>2. table' \in Tables /\ IsConfig(mem)' /\ IsConfig(saved)' /\ IsConfig(before)'
  BY <1>1, DefaultType, SameRows DEF IsConfig, Of, CONF_TYPE, Edit
<1>3. PICK l \in Foreign, n \in 1 .. Len(file) + 1 : file' = InsertAt(file, n, l)
  BY DEF Edit
<1>4. IsFile(file)' /\ Len(file') \in Nat
  <2>1. file' \in Seq(ToSet(file) \cup {l})
    BY <1>1, <1>3, InsertIs
  <2>2. ASSUME NEW x \in ToSet(file) \cup {l} PROVE IsLine(x)
    <3>1. IsLine(l)
      BY ValuesAssumption
    <3>2. x \in ToSet(file) => IsLine(x)
      BY <1>1 DEF IsFile, ToSet
    <3>3. QED
      BY <3>1, <3>2
  <2>3. IsFile(file')
    BY <2>1, <2>2, FileIs
  <2>4. QED
    BY <2>1, <2>3 DEF IsFile
<1>5. RestOK'
  <2>1. pos' = 1 /\ pos' \in 1 .. Len(file') + 1
    BY <1>1, <1>4 DEF Edit, RestOK
  <2>2. edits' \in 0 .. MaxEdits
    BY <1>1, ConfFileAssumption DEF Edit, RestOK
  <2>3. QED
    BY <1>1, <2>1, <2>2 DEF Edit, RestOK
<1>6. QED
  BY <1>2, <1>4, <1>5, InvPrime

\* Loading.
LEMMA LoadType == ASSUME TypeInv, LoadBegin \/ Return PROVE TypeInv'
<1>1. table \in Tables /\ RestOK /\ IsFile(file) /\ IsConfig(mem)
      /\ IsConfig(saved) /\ IsConfig(before) /\ Len(file) \in Nat
  BY TypeInvIs DEF IsFile
<1>2. table' \in Tables /\ IsConfig(mem)' /\ IsConfig(saved)' /\ IsConfig(before)'
  BY <1>1, DefaultType, SameRows DEF IsConfig, Of, CONF_TYPE, LoadBegin, Return
<1>3. IsFile(file)' /\ Len(file') \in Nat /\ file' = file
  BY <1>1 DEF IsFile, LoadBegin, Return
<1>4. RestOK'
  <2>1. pos' = 1 /\ pos' \in 1 .. Len(file') + 1 /\ sec' \in ToSet(Sections) \cup {Skip}
    BY <1>1, <1>3, SectionIs DEF LoadBegin, Return
  <2>2. pc' \in {"idle", "loading", "failed"}
    BY DEF LoadBegin, Return
  <2>3. QED
    BY <1>1, <2>1, <2>2 DEF LoadBegin, Return, RestOK
<1>5. QED
  BY <1>2, <1>3, <1>4, InvPrime

\* The text that is assigned, and the line it ends with.
LEMMA ValueIs ==
    ASSUME IsFile(file), pos \in 1 .. Len(file), file[pos].kind = "entry"
    PROVE  /\ Value \in Texts /\ LastLine \in {pos, pos + 1}
           /\ (Empty <=> file[pos].text = <<"empty">>)
           /\ ~Empty => Value = file[pos].text /\ LastLine = pos
           /\ Empty => Value \in {<<"other">>, <<"white">>}
<1>1. file[pos].text \in Texts
  BY DEF IsFile, IsLine
<1>2. <<"other">> \in Texts /\ <<"white">> \in Texts
  BY DEF Texts
<1>3. Empty <=> file[pos].text = <<"empty">>
  BY <1>1, TextIs DEF Empty
<1>4. Value \in Texts
  <2>1. CASE ~Empty
    BY <2>1, <1>1 DEF Value
  <2>2. CASE Empty /\ pos < Len(file) /\ file[pos + 1].kind # "blank"
    BY <2>2, <1>2 DEF Value
  <2>3. CASE Empty /\ ~(pos < Len(file) /\ file[pos + 1].kind # "blank")
    BY <2>3, <1>2 DEF Value
  <2>4. QED
    BY <2>1, <2>2, <2>3
<1>5. LastLine \in {pos, pos + 1}
  BY DEF LastLine
<1>6. ~Empty => Value = file[pos].text /\ LastLine = pos
  BY DEF Value, LastLine
<1>7. Empty => Value \in {<<"other">>, <<"white">>}
  BY DEF Value
<1>8. QED
  BY <1>3, <1>4, <1>5, <1>6, <1>7

LEMMA ParseType == ASSUME TypeInv, conf_parse PROVE TypeInv'
<1>1. table \in Tables /\ RestOK /\ IsFile(file) /\ IsConfig(mem)
      /\ IsConfig(saved) /\ IsConfig(before) /\ Len(file) \in Nat
  BY TypeInvIs DEF IsFile
<1> DEFINE moved == /\ UNCHANGED <<table, file, cut, state, edits, changes, saved, before>>
                    /\ pc' \in {"loading", "loaded", "failed", "wild"}
                    /\ pos' \in 1 .. Len(file) + 1
                    /\ sec' \in ToSet(Sections) \cup {Skip}
<1>2. SUFFICES moved /\ IsConfig(mem)'
  <2>1. ASSUME moved PROVE table' \in Tables /\ IsConfig(saved)' /\ IsConfig(before)'
                          /\ IsFile(file)' /\ RestOK'
    <3>1. table' \in Tables /\ IsConfig(saved)' /\ IsConfig(before)'
      BY <1>1, <2>1, SameRows DEF IsConfig, Of, CONF_TYPE
    <3>2. IsFile(file)'
      BY <1>1, <2>1 DEF IsFile
    <3>3. RestOK'
      BY <1>1, <2>1 DEF RestOK
    <3>4. QED
      BY <3>1, <3>2, <3>3
  <2> HIDE DEF moved
  <2>2. QED
    BY <2>1, InvPrime
<1>3. pos \in 1 .. Len(file) + 1 /\ sec \in ToSet(Sections) \cup {Skip}
  BY <1>1 DEF RestOK
<1>4. ASSUME UNCHANGED <<table, mem>> PROVE IsConfig(mem)'
  BY <1>1, <1>4 DEF IsConfig, Of, CONF_TYPE
<1>5. CASE SkipLine
  <2>1. pos <= Len(file) /\ Parsed("loading", sec, 1) /\ UNCHANGED mem
    BY <1>5 DEF SkipLine, Reading
  <2>2. QED
    BY <1>1, <1>3, <1>4, <2>1 DEF Parsed
<1>6. CASE TakeHeader
  <2>1. pos <= Len(file) /\ UNCHANGED mem
        /\ \/ Parsed("failed", sec, 0)
           \/ Parsed("loading", section_lookup(file[pos].name), 1)
    BY <1>6 DEF TakeHeader, Reading
  <2>2. section_lookup(file[pos].name) \in ToSet(Sections) \cup {Skip}
    BY DEF section_lookup
  <2>3. QED
    BY <1>1, <1>3, <1>4, <2>1, <2>2 DEF Parsed
<1>7. CASE Malformed
  BY <1>1, <1>3, <1>4, <1>7 DEF Malformed, Parsed
<1>8. CASE UnknownEntry
  BY <1>1, <1>3, <1>4, <1>8 DEF UnknownEntry, Reading, Parsed
<1>9. CASE SectionAsEntry
  BY <1>1, <1>3, <1>4, <1>9 DEF SectionAsEntry, Reading, Parsed
<1>10. CASE TakeEntry
  <2>1. pos <= Len(file) /\ file[pos].kind = "entry" /\ Here \in Known
    BY <1>10 DEF TakeEntry, Reading
  <2>2. Value \in Texts /\ LastLine \in {pos, pos + 1}
    BY <1>1, <1>3, <2>1, ValueIs
  <2>3. CASE Overrun
    BY <1>1, <1>3, <1>4, <1>10, <2>1, <2>3 DEF TakeEntry, Parsed
  <2>4. CASE ~Overrun
    <3>1. Parsed("loading", sec, LastLine + 1 - pos) /\ Assign(Here, Value)
      BY <1>10, <2>4 DEF TakeEntry
    <3>2. LastLine <= Len(file)
      BY <1>1, <1>3, <2>2, <2>4 DEF Overrun
    <3>3. moved
      <4> HIDE DEF moved
      <4>1. pos' = LastLine + 1
        BY <1>3, <2>2, <3>1 DEF Parsed
      <4>2. pos' \in 1 .. Len(file) + 1
        BY <1>1, <1>3, <2>2, <3>2, <4>1
      <4>3. QED
        BY <1>3, <3>1, <4>2 DEF Parsed, moved
    <3>4. IsConfig(mem)'
      BY <1>1, <2>1, <2>2, <3>1, AssignType DEF Parsed
    <3>5. QED
      BY <3>3, <3>4
  <2>5. QED
    BY <2>3, <2>4
<1>11. CASE LoadEnd
  BY <1>1, <1>3, <1>4, <1>11 DEF LoadEnd, Parsed
<1>12. QED
  BY <1>5, <1>6, <1>7, <1>8, <1>9, <1>10, <1>11 DEF conf_parse

LEMMA TypeStep == ASSUME TypeInv, [Next]_vars PROVE TypeInv'
<1>1. CASE UNCHANGED vars
  BY <1>1 DEF vars, TypeInv, TypeOK, IsConfig, IsFile, Of, CONF_TYPE
<1>2. CASE \E e \in Known : Modify(e) \/ conf_entry_set(e)
  BY <1>2, ChangeType
<1>3. QED
  BY <1>1, <1>2, SaveType, CrashType, EditType, LoadType, ParseType DEF Next

(***************************************************************************)
(* Whatever is saved, cut short, edited and loaded, every variable holds a *)
(* value of its type, and the parser is within the file.                   *)
(***************************************************************************)
THEOREM TypeCorrect == Spec => []TypeOK
<1>1. TypeInv => TypeOK
  BY DEF TypeInv
<1>2. QED
  BY InitType, TypeStep, <1>1, PTL DEF Spec

-----------------------------------------------------------------------------
(* The lengths of strings.                                                 *)

LEMMA SizesAre ==
    /\ StrLen \in Nat /\ StrLen >= 1 /\ StrSize \in Nat /\ StrSize >= 1
    /\ StrLen <= StrSize
BY ConfFileAssumption

LEMMA UpToLen ==
    ASSUME NEW s \in String, NEW c
    PROVE  Len(UpTo(s, c)) \in Nat /\ Len(UpTo(s, c)) <= Len(s)
<1>1. s \in Seq({"text", "quote", "newline"}) /\ Len(s) \in Nat
  BY DEF String
<1>2. CASE ~Contains(s, c)
  BY <1>1, <1>2 DEF UpTo
<1>3. CASE Contains(s, c)
  <2>1. PICK k \in 1 .. Len(s) : UpTo(s, c) = SubSeq(s, 1, k - 1)
    BY <1>1, <1>3, UpToIs
  <2>2. Len(SubSeq(s, 1, k - 1)) = k - 1
    BY <1>1, <2>1, SubSeqProperties
  <2>3. QED
    BY <1>1, <2>1, <2>2
<1>4. QED
  BY <1>2, <1>3

LEMMA FittedLen ==
    ASSUME NEW s \in String
    PROVE  Len(Fitted(s)) \in Nat /\ Len(Fitted(s)) <= Len(s)
<1> DEFINE k == Min({Len(s), StrLen})
<1>1. s \in Seq({"text", "quote", "newline"}) /\ Len(s) \in Nat /\ StrLen \in Nat
  BY SizesAre DEF String
<1>2. k = IF Len(s) <= StrLen THEN Len(s) ELSE StrLen
  BY <1>1, MinOf
<1> HIDE DEF k
<1>3. k \in 0 .. Len(s)
  BY <1>1, <1>2
<1>4. Len(SubSeq(s, 1, k)) = k
  BY <1>1, <1>3, SubSeqProperties
<1>5. QED
  BY <1>1, <1>3, <1>4 DEF Fitted, k

LEMMA ParseKeeps ==
    ASSUME conf_parse
    PROVE  UNCHANGED <<table, file, cut, state, edits, changes, saved, before>>
           /\ pc = "loading"
BY DEF conf_parse, SkipLine, TakeHeader, Malformed, UnknownEntry, SectionAsEntry,
       TakeEntry, LoadEnd, Parsed, Reading

-----------------------------------------------------------------------------
(* A load changes what the lines name.                                     *)

SectionInv == Loads /\ NoEmptyValue => sec = section_lookup(SectionAt(file, pos))
LocalInv == TypeInv /\ SectionInv /\ LoadLocal

LEMMA NamesAre == \A i, e : Names(i, e) <=> NamesIn(file, i, e)
BY DEF Names, NamesIn, SectionAt

\* How a load leaves a variable: as it was, or as a line before p says.
Left(m, p, e) ==
    \/ m = before[e]
    \/ \E i \in 1 .. p - 1 : Names(i, e)
    \/ m = FirstByteZero(e, before[e]) /\ \E i \in 1 .. p - 1 : EndsIn(i, e)

LEMMA LoadLocalIs ==
    LoadLocal <=> (Loads /\ NoEmptyValue => \A e \in Known : Left(mem[e], pos, e))
BY DEF LoadLocal, Loads, Left

\* It depends on the types, the file and what was there before.
LEMMA SameLeft ==
    ASSUME UNCHANGED <<table, file, before>>
    PROVE  /\ NoEmptyValue' = NoEmptyValue
           /\ \A i, e : Names(i, e)' = Names(i, e) /\ EndsIn(i, e)' = EndsIn(i, e)
           /\ LoadLocal' <=> (Loads' /\ NoEmptyValue =>
                                 \A e \in Known : Left(mem'[e], pos', e))
<1>1. \A e : Of(e)' = Of(e)
  BY SameRows
<1>2. \A i, e : Names(i, e)' = Names(i, e)
  BY DEF Names
<1>3. \A t, v, e : FillsUpTo(t, v, e)' = FillsUpTo(t, v, e)
  BY <1>1 DEF FillsUpTo, Clobbers
<1>4. \A i, e : EndsIn(i, e)' = EndsIn(i, e)
  BY <1>1, <1>2, <1>3 DEF EndsIn, Scanned, AnyOf
<1>5. \A e, v : FirstByteZero(e, v)' = FirstByteZero(e, v)
  BY <1>1 DEF FirstByteZero
<1>6. NoEmptyValue' = NoEmptyValue
  BY DEF NoEmptyValue
<1>7. QED
  BY <1>2, <1>4, <1>5, <1>6 DEF LoadLocal, Loads, Left

\* What section the next line is in.
LEMMA SectionFirst == \A w : SectionAt(w, 1) = <<>>
BY DEF SectionAt

LEMMA SectionNext ==
    ASSUME NEW w, NEW i \in Nat, i >= 1
    PROVE  SectionAt(w, i + 1) = IF w[i].kind = "section" THEN w[i].name
                                                          ELSE SectionAt(w, i)
<1> DEFINE heads(n) == {j \in 1 .. n - 1 : w[j].kind = "section"}
<1>1. CASE w[i].kind = "section"
  <2> DEFINE h == heads(i + 1)
  <2>1. h \in SUBSET (1 .. i) /\ i \in h /\ \A y \in h : i >= y
    BY <1>1
  <2>2. SectionAt(w, i + 1) = IF h = {} THEN <<>> ELSE w[Max(h)].name
    BY DEF SectionAt
  <2> HIDE DEF h
  <2>3. Max(h) = i
    BY <2>1, MaxOf
  <2>4. QED
    BY <1>1, <2>1, <2>2, <2>3
<1>2. CASE w[i].kind # "section"
  <2>1. heads(i + 1) = heads(i)
    BY <1>2
  <2>2. QED
    BY <1>2, <2>1 DEF SectionAt
<1>3. QED
  BY <1>1, <1>2

\* An entry that the parser takes.
LEMMA TakeIs ==
    ASSUME TypeInv, TakeEntry
    PROVE  \/ pc' = "wild"
           \/ /\ pc' = "loading" /\ sec' = sec /\ Here \in Known
              /\ Assign(Here, Value)
              /\ pos' = LastLine + 1
              /\ file[pos].text # <<"empty">> =>
                    pos' = pos + 1 /\ Value = file[pos].text
<1>1. table \in Tables /\ RestOK /\ IsFile(file) /\ IsConfig(mem) /\ Len(file) \in Nat
  BY TypeInvIs DEF IsFile
<1>2. pos \in 1 .. Len(file) /\ file[pos].kind = "entry" /\ Here \in Known
  BY <1>1 DEF TakeEntry, Reading, RestOK
<1>3. /\ Value \in Texts /\ LastLine \in {pos, pos + 1}
      /\ (Empty <=> file[pos].text = <<"empty">>)
      /\ ~Empty => Value = file[pos].text /\ LastLine = pos
  BY <1>1, <1>2, ValueIs
<1>4. CASE Overrun
  BY <1>4 DEF TakeEntry, Parsed
<1>5. CASE ~Overrun
  <2>1. Parsed("loading", sec, LastLine + 1 - pos) /\ Assign(Here, Value)
    BY <1>5 DEF TakeEntry
  <2>2. pos' = LastLine + 1 /\ pc' = "loading" /\ sec' = sec
    BY <1>2, <1>3, <2>1 DEF Parsed
  <2>3. QED
    BY <1>2, <1>3, <2>1, <2>2
<1>6. QED
  BY <1>4, <1>5

\* All that the parser does to the configuration: it takes entries.
LEMMA ParseTakes ==
    ASSUME TypeInv, conf_parse
    PROVE  \/ TakeEntry
           \/ pc' = "wild"
           \/ UNCHANGED mem /\ sec' = sec /\ pos' = pos /\ pc' # "wild"
           \/ /\ UNCHANGED mem /\ pos \in 1 .. Len(file) /\ pos' = pos + 1
              /\ pc' = "loading"
              /\ sec' = IF file[pos].kind = "section" THEN section_lookup(file[pos].name)
                                                      ELSE sec
<1>1. pos \in 1 .. Len(file) + 1 /\ Len(file) \in Nat
  BY TypeInvIs DEF IsFile, RestOK
<1>2. CASE SkipLine
  BY <1>1, <1>2 DEF SkipLine, Reading, Parsed
<1>3. CASE TakeHeader
  <2>1. file[pos].kind = "section" /\ pos \in 1 .. Len(file)
    BY <1>1, <1>3 DEF TakeHeader, Reading
  <2>2. CASE IsCut
    BY <1>1, <1>3, <2>2 DEF TakeHeader, Parsed
  <2>3. CASE ~IsCut
    BY <1>1, <1>3, <2>1, <2>3 DEF TakeHeader, Parsed
  <2>4. QED
    BY <2>2, <2>3
<1>4. CASE Malformed
  BY <1>1, <1>4 DEF Malformed, Parsed
<1>5. CASE UnknownEntry
  BY <1>1, <1>5 DEF UnknownEntry, Reading, Parsed
<1>6. CASE SectionAsEntry
  BY <1>6 DEF SectionAsEntry, Parsed
<1>7. CASE LoadEnd
  BY <1>1, <1>7 DEF LoadEnd, Parsed
<1>8. QED
  BY <1>2, <1>3, <1>4, <1>5, <1>6, <1>7 DEF conf_parse

LEMMA LocalInit == ASSUME Init PROVE LocalInv
<1>1. TypeInv
  BY InitType
<1>2. pc = "idle"
  BY DEF Init
<1>3. QED
  BY <1>1, <1>2 DEF LocalInv, SectionInv, LoadLocal, Loads

\* The parser is in the section of the lines it reads.
LEMMA SectionStep ==
    ASSUME LocalInv, conf_parse, pc' # "wild"
    PROVE  SectionInv'
<1>1. TypeInv /\ SectionInv /\ UNCHANGED file /\ pc = "loading"
  BY ParseKeeps DEF LocalInv
<1>2. NoEmptyValue' = NoEmptyValue
  BY <1>1 DEF NoEmptyValue
<1>3. SUFFICES ASSUME NoEmptyValue PROVE sec' = section_lookup(SectionAt(file, pos'))
  BY <1>1, <1>2 DEF SectionInv, section_lookup, SectionAt
<1>4. sec = section_lookup(SectionAt(file, pos)) /\ pos \in Nat /\ pos >= 1
  BY <1>1, <1>3, FileLen DEF SectionInv, Loads
<1>5. CASE TakeEntry
  <2>1. file[pos].kind = "entry" /\ pos \in 1 .. Len(file)
    BY <1>1, <1>4, <1>5, FileLen DEF TakeEntry, Reading
  <2>2. file[pos].text # <<"empty">>
    BY <1>3, <2>1 DEF NoEmptyValue
  <2>3. pos' = pos + 1 /\ sec' = sec
    BY <1>1, <1>5, <2>2, TakeIs
  <2>4. QED
    BY <1>4, <2>1, <2>3, SectionNext
<1>6. CASE UNCHANGED mem /\ sec' = sec /\ pos' = pos
  BY <1>4, <1>6
<1>7. CASE /\ UNCHANGED mem /\ pos \in 1 .. Len(file) /\ pos' = pos + 1
           /\ sec' = IF file[pos].kind = "section" THEN section_lookup(file[pos].name)
                                                   ELSE sec
  <2>1. SectionAt(file, pos') = IF file[pos].kind = "section" THEN file[pos].name
                                                              ELSE SectionAt(file, pos)
    BY <1>4, <1>7, SectionNext
  <2>2. QED
    BY <1>4, <1>7, <2>1
<1>8. QED
  BY <1>1, <1>5, <1>6, <1>7, ParseTakes

\* Only a line that holds a string ends in another variable.
LEMMA SameString ==
    ASSUME NEW h, h.fmt = "string", NEW x, NEW y, NEW text
    PROVE  Scanned(h, x, text) = Scanned(h, y, text)
BY DEF Scanned

LEMMA TakeLeaves ==
    ASSUME LocalInv, TakeEntry, pc' # "wild", NoEmptyValue, NEW e \in Known
    PROVE  Left(mem'[e], pos', e)
<1>1. /\ TypeInv /\ SectionInv /\ pc = "loading" /\ pos \in Nat /\ pos >= 1
      /\ table \in Tables /\ IsConfig(mem) /\ IsConfig(before)
  BY FileLen, TypeInvIs DEF LocalInv, TakeEntry, Reading
<1>2. file[pos].kind = "entry" /\ pos \in 1 .. Len(file) /\ Here \in Known /\ sec # Skip
  BY <1>1, FileLen DEF TakeEntry, Reading
<1>3. Left(mem[e], pos, e)
  BY <1>1, LoadLocalIs DEF LocalInv, Loads
<1>4. pos' = pos + 1 /\ Value = file[pos].text /\ Assign(Here, Value)
  <2>1. file[pos].text # <<"empty">>
    BY <1>2 DEF NoEmptyValue
  <2>2. QED
    BY <1>1, <2>1, TakeIs
<1>5. NamesIn(file, pos, Here) /\ Names(pos, Here)
  <2>1. sec = SectionAt(file, pos)
    BY <1>1, <1>2 DEF SectionInv, Loads, section_lookup
  <2>2. NamesIn(file, pos, Here)
    BY <1>2, <2>1 DEF NamesIn, Here
  <2>3. QED
    BY <2>2, NamesAre
<1>6. pos \in 1 .. pos' - 1 /\ \A i \in 1 .. pos - 1 : i \in 1 .. pos' - 1
  BY <1>1, <1>4
<1>7. PICK v \in Scanned(Of(Here), mem[Here], Value) :
        \A x \in Known \ {Here} :
          \/ mem'[x] = mem[x]
          \/ FillsUpTo(Here, v, x) /\ mem'[x] = FirstByteZero(x, mem[x])
  BY <1>1, <1>2, <1>4, AssignIs
<1>8. CASE e = Here
  BY <1>5, <1>6, <1>8 DEF Left
<1>9. CASE e # Here /\ mem'[e] = mem[e]
  BY <1>3, <1>6, <1>9 DEF Left
<1>10. CASE FillsUpTo(Here, v, e) /\ mem'[e] = FirstByteZero(e, mem[e])
  <2>1. EndsIn(pos, e)
    <3>1. Here \in DOMAIN Behind /\ Of(Here).fmt = "string"
      BY <1>10 DEF FillsUpTo, Clobbers
    <3>2. v \in Scanned(Of(Here), before[Here], file[pos].text)
      BY <1>4, <1>7, <3>1, SameString
    <3>3. QED
      BY <1>5, <1>10, <3>1, <3>2 DEF EndsIn
  <2>2. CASE \E i \in 1 .. pos - 1 : Names(i, e)
    BY <1>6, <2>2 DEF Left
  <2>3. CASE mem[e] \in {before[e], FirstByteZero(e, before[e])}
    <3>1. before[e] \in Values(Of(e))
      BY <1>1 DEF IsConfig
    <3>2. FirstByteZero(e, FirstByteZero(e, before[e])) = FirstByteZero(e, before[e])
      BY <1>1, <3>1, FirstByteTwice
    <3>3. mem'[e] = FirstByteZero(e, before[e])
      BY <1>10, <2>3, <3>2
    <3>4. QED
      BY <1>6, <2>1, <3>3 DEF Left
  <2>4. QED
    BY <1>3, <2>2, <2>3 DEF Left
<1>11. QED
  BY <1>7, <1>8, <1>9, <1>10

\* What the parser changes is named by the line it has just read, or ends a
\* string of that line.
LEMMA ParseLocal ==
    ASSUME LocalInv, conf_parse, pc' # "wild"
    PROVE  LoadLocal'
<1>1. TypeInv /\ UNCHANGED <<table, file, before>> /\ pc = "loading"
  BY ParseKeeps DEF LocalInv
<1>2. SUFFICES ASSUME NoEmptyValue, NEW e \in Known PROVE Left(mem'[e], pos', e)
  BY <1>1, SameLeft
<1>3. Left(mem[e], pos, e) /\ pos \in Nat /\ pos >= 1
  BY <1>1, <1>2, FileLen, LoadLocalIs DEF LocalInv, Loads
<1>4. CASE TakeEntry
  BY <1>2, <1>4, TakeLeaves
<1>5. CASE UNCHANGED mem /\ pos' \in {pos, pos + 1}
  <2>1. pos' = pos \/ pos' = pos + 1
    BY <1>5
  <2>2. \A i \in 1 .. pos - 1 : i \in 1 .. pos' - 1
    BY <1>3, <2>1
  <2>3. QED
    BY <1>3, <1>5, <2>2 DEF Left
<1>6. QED
  BY <1>1, <1>4, <1>5, ParseTakes

LEMMA LocalStep == ASSUME LocalInv, [Next]_vars PROVE LocalInv'
<1>1. TypeInv /\ TypeInv'
  BY TypeStep DEF LocalInv
<1>2. SUFFICES SectionInv' /\ LoadLocal'
  BY <1>1 DEF LocalInv
<1>3. CASE UNCHANGED vars
  <2>1. UNCHANGED <<table, file, before, mem, pc, pos, sec>>
    BY <1>3 DEF vars
  <2>2. NoEmptyValue' = NoEmptyValue /\ LoadLocal'
    BY <2>1, SameLeft, LoadLocalIs DEF LocalInv, Loads
  <2>3. SectionInv'
    BY <2>1, <2>2 DEF LocalInv, SectionInv, Loads, SectionAt, section_lookup
  <2>4. QED
    BY <2>2, <2>3
<1>4. CASE pc' \notin {"loading", "loaded", "failed"}
  BY <1>4 DEF SectionInv, LoadLocal, Loads
<1>5. CASE LoadBegin
  <2>1. pos' = 1 /\ sec' = <<>> /\ before' = mem /\ mem' = mem /\ file' = file
    BY <1>5 DEF LoadBegin
  <2>2. section_lookup(SectionAt(file, 1)) = <<>>
    BY SectionFirst, SectionIs DEF section_lookup
  <2>3. SectionInv'
    BY <2>1, <2>2 DEF SectionInv, section_lookup, SectionAt
  <2>4. QED
    BY <2>1, <2>3 DEF LoadLocal
<1>6. CASE conf_parse /\ pc' # "wild"
  BY <1>6, SectionStep, ParseLocal
<1>7. [Next]_vars => \/ UNCHANGED vars \/ pc' \in {"idle", "saving", "overread"}
                     \/ LoadBegin \/ conf_parse
  BY DEF Next, Modify, conf_entry_set, Changing, SaveBegin, SaveOverread, SaveEnd,
         CrashSaving, CrashLoading, Restart, Edit, Return
<1>8. QED
  BY <1>3, <1>4, <1>5, <1>6, <1>7

(***************************************************************************)
(* A load changes a variable only where a line already parsed, in the      *)
(* variable's own section, names it; all that the string right before it   *)
(* can do is to set its first byte to zero (conf_parse, string_set).       *)
(***************************************************************************)
THEOREM LoadsLocally == Spec => []LoadLocal
<1>1. LocalInv => LoadLocal
  BY DEF LocalInv
<1>2. Init => LocalInv
  BY LocalInit
<1>3. LocalInv /\ [Next]_vars => LocalInv'
  BY LocalStep
<1>4. QED
  BY <1>1, <1>2, <1>3, PTL DEF Spec

-----------------------------------------------------------------------------
(* Where the lines of a written file are.                                  *)

\* The sequences that FlattenSeq puts one behind the other do not overlap,
\* and there is nothing between them.
LEMMA PlacesRise ==
    ASSUME NEW S, NEW ss \in Seq(Seq(S)), NEW off, NEW flat, Places(ss, off, flat)
    PROVE  \A i, k \in 1 .. Len(ss) + 1 : i <= k => off[i] <= off[k]
<1> DEFINE n == Len(ss) + 1
           T == {k \in 1 .. n : \A i \in 1 .. n : i <= k => off[i] <= off[k]}
<1>0. Len(ss) \in Nat /\ off \in [1 .. n -> Nat]
  BY DEF Places
<1>1. n \in Nat /\ n >= 1 /\ \A i \in 1 .. n : off[i] \in Nat
  BY <1>0
<1>2. \A i \in 1 .. n : i + 1 \in 1 .. n => off[i] <= off[i + 1]
  <2>1. ASSUME NEW i \in 1 .. n, i + 1 \in 1 .. n PROVE off[i] <= off[i + 1]
    <3>1. i \in 1 .. Len(ss)
      BY <2>1
    <3>2. ss[i] \in Seq(S)
      BY <3>1, ElementOfSeq
    <3>3. Len(ss[i]) \in Nat /\ off[i + 1] = off[i] + Len(ss[i])
      BY <3>1, <3>2 DEF Places
    <3>4. QED
      BY <1>1, <3>3
  <2>2. QED
    BY <2>1
<1> HIDE DEF n
<1>3. T \in SUBSET (1 .. n)
      /\ \A k : k \in T <=> k \in 1 .. n /\ \A i \in 1 .. n : i <= k => off[i] <= off[k]
  OBVIOUS
<1> HIDE DEF T
<1>4. 1 \in T
  <2>1. \A i \in 1 .. n : i <= 1 => i = 1
    BY <1>1
  <2>2. QED
    BY <1>1, <1>3, <2>1
<1>5. ASSUME NEW k \in T, k + 1 \in 1 .. n PROVE k + 1 \in T
  <2>1. k \in 1 .. n /\ off[k] <= off[k + 1]
    BY <1>2, <1>3, <1>5
  <2>2. ASSUME NEW i \in 1 .. n, i <= k + 1 PROVE off[i] <= off[k + 1]
    <3>1. CASE i = k + 1
      BY <1>1, <3>1
    <3>2. CASE i <= k
      <4>1. off[i] <= off[k]
        BY <1>3, <3>2
      <4>2. QED
        BY <1>1, <1>5, <2>1, <4>1
    <3>3. QED
      BY <1>1, <2>1, <2>2, <3>1, <3>2
  <2>3. QED
    BY <1>3, <1>5, <2>2
<1>6. T = 1 .. n
  BY <1>1, <1>3, <1>4, <1>5, Upward
<1>7. QED
  BY <1>3, <1>6 DEF n

LEMMA PlacesCover ==
    ASSUME NEW S, NEW ss \in Seq(Seq(S)), Len(ss) >= 1,
           NEW off, NEW flat, Places(ss, off, flat), NEW k \in 1 .. Len(flat)
    PROVE  \E i \in 1 .. Len(ss) : \E j \in 1 .. Len(ss[i]) : k = off[i] + j
<1> DEFINE n == Len(ss)
           T == {i \in 1 .. n : k <= off[i + 1]}
<1>1. /\ n \in Nat /\ n >= 1 /\ k \in Nat /\ k >= 1 /\ k <= off[n + 1]
      /\ \A i \in 1 .. n + 1 : off[i] \in Nat
      /\ off[1] = 0
      /\ \A i \in 1 .. n : off[i + 1] = off[i] + Len(ss[i]) /\ Len(ss[i]) \in Nat
  <2>1. n \in Nat /\ n >= 1 /\ off \in [1 .. n + 1 -> Nat] /\ off[1] = 0
        /\ \A i \in 1 .. n : off[i + 1] = off[i] + Len(ss[i])
        /\ Len(flat) = off[n + 1]
    BY SMTT(30) DEF Places
  <2>2. \A i \in 1 .. n : ss[i] \in Seq(S)
    BY ElementOfSeq
  <2> HIDE DEF n
  <2>3. \A i \in 1 .. n : Len(ss[i]) \in Nat
    BY <2>2
  <2>4. \A i \in 1 .. n + 1 : off[i] \in Nat
    BY <2>1
  <2>5. n + 1 \in 1 .. n + 1 /\ off[n + 1] \in Nat
    BY <2>1
  <2>6. k \in Nat /\ k >= 1 /\ k <= off[n + 1]
    BY <2>1, <2>5
  <2>7. QED
    BY <2>1, <2>3, <2>4, <2>6
<1> HIDE DEF n
<1>2. T \in SUBSET Nat /\ T # {} /\ \A i : i \in T <=> i \in 1 .. n /\ k <= off[i + 1]
  <2>1. n \in T
    BY <1>1
  <2>2. \A i : i \in T <=> i \in 1 .. n /\ k <= off[i + 1]
    OBVIOUS
  <2> HIDE DEF T
  <2>3. T \in SUBSET Nat
    BY <1>1, <2>2
  <2>4. QED
    BY <2>1, <2>2, <2>3
<1> HIDE DEF T
<1>3. PICK i \in T : \A y \in T : i <= y
  BY <1>2, Least
<1>4. i \in 1 .. n /\ k <= off[i + 1]
  BY <1>2
<1>5. off[i] < k
  <2>1. CASE i = 1
    BY <1>1, <2>1
  <2>2. CASE i # 1
    <3>1. i - 1 \in 1 .. n /\ i - 1 + 1 = i /\ ~(i <= i - 1)
      BY <1>1, <1>4, <2>2
    <3>2. i - 1 \notin T
      BY <1>3, <3>1
    <3>3. ~(k <= off[i])
      BY <1>2, <3>1, <3>2
    <3>4. off[i] \in Nat
      BY <1>1, <1>4
    <3>5. QED
      BY <1>1, <3>3, <3>4
  <2>3. QED
    BY <2>1, <2>2
<1>6. k - off[i] \in 1 .. Len(ss[i]) /\ k = off[i] + (k - off[i])
  <2> DEFINE a == off[i]
             b == Len(ss[i])
  <2>1. a \in Nat /\ b \in Nat /\ k \in Nat /\ k <= a + b /\ a < k
    BY <1>1, <1>4, <1>5
  <2> HIDE DEF a, b
  <2>2. k - a \in 1 .. b /\ k = a + (k - a)
    BY <2>1
  <2>3. QED
    BY <2>2 DEF a, b
<1>7. QED
  BY <1>4, <1>6 DEF n

\* Sequences of one member each.
LEMMA Singles ==
    ASSUME NEW S, NEW ss \in Seq(Seq(S)), \A i \in 1 .. Len(ss) : Len(ss[i]) = 1
    PROVE  /\ FlattenSeq(ss) \in Seq(S) /\ Len(FlattenSeq(ss)) = Len(ss)
           /\ \A i \in 1 .. Len(ss) : FlattenSeq(ss)[i] = ss[i][1]
<1>1. CASE Len(ss) = 0
  <2>1. ss = <<>>
    BY <1>1, EmptySeq
  <2>2. FlattenSeq(ss) = ss
    BY <2>1, FlattenNone
  <2>3. ss \in Seq(S)
    BY <2>1, EmptySeq
  <2>4. ~\E i : i \in 1 .. Len(ss)
    BY <1>1
  <2>5. QED
    BY <2>2, <2>3, <2>4
<1>2. CASE Len(ss) # 0
  <2> DEFINE n == Len(ss)
             flat == FlattenSeq(ss)
  <2>1. n \in Nat /\ n >= 1
    BY <1>2
  <2>2. flat \in Seq(S) /\ \E off : Places(ss, off, flat)
    BY <2>1, FlattenPlaces
  <2> HIDE DEF flat
  <2>3. PICK off : Places(ss, off, flat)
    BY <2>2
  <2>4. /\ off[1] = 0 /\ Len(flat) = off[n + 1]
        /\ \A i \in 1 .. n : off[i + 1] = off[i] + 1 /\ flat[off[i] + 1] = ss[i][1]
    <3>1. off[1] = 0 /\ Len(flat) = off[n + 1]
      BY <2>3 DEF Places
    <3>2. ASSUME NEW i \in 1 .. n
          PROVE  off[i + 1] = off[i] + 1 /\ flat[off[i] + 1] = ss[i][1]
      <4>1. Len(ss[i]) = 1 /\ 1 \in 1 .. 1
        OBVIOUS
      <4>2. off[i + 1] = off[i] + Len(ss[i])
            /\ \A j \in 1 .. Len(ss[i]) : flat[off[i] + j] = ss[i][j]
        BY <2>3 DEF Places
      <4>3. QED
        BY <4>1, <4>2
    <3>3. QED
      BY <3>1, <3>2
  <2> HIDE DEF n
  <2> DEFINE T == {i \in 1 .. n + 1 : off[i] = i - 1}
  <2>5. T \in SUBSET (1 .. n + 1) /\ \A i : i \in T <=> i \in 1 .. n + 1 /\ off[i] = i - 1
    OBVIOUS
  <2> HIDE DEF T
  <2>6. 1 \in T
    <3>1. 1 \in 1 .. n + 1 /\ 1 - 1 = 0
      BY <2>1
    <3>2. QED
      BY <2>4, <2>5, <3>1
  <2>7. ASSUME NEW i \in T, i + 1 \in 1 .. n + 1 PROVE i + 1 \in T
    <3>1. i \in 1 .. n /\ off[i] = i - 1
      BY <2>1, <2>5, <2>7
    <3>2. off[i + 1] = i
      BY <2>4, <3>1
    <3>3. QED
      BY <2>5, <2>7, <3>1, <3>2
  <2>8. T = 1 .. n + 1
    <3>1. n + 1 \in Nat /\ n + 1 >= 1
      BY <2>1
    <3>2. QED
      BY <2>5, <2>6, <2>7, <3>1, Upward
  <2>9. \A i \in 1 .. n + 1 : off[i] = i - 1
    BY <2>5, <2>8
  <2>10. Len(flat) = n
    BY <2>1, <2>4, <2>9
  <2>11. ASSUME NEW i \in 1 .. n PROVE flat[i] = ss[i][1]
    <3>1. off[i] + 1 = i
      BY <2>1, <2>9
    <3>2. QED
      BY <2>4, <3>1
  <2>12. QED
    BY <2>2, <2>10, <2>11 DEF flat, n
<1>3. QED
  BY <1>1, <1>2

\* A configuration whose lines are one for each variable.
Tidy(m) ==
    \A e \in Known : /\ Line(e, m[e]) = <<Entry(e[2], Printed(Of(e), m[e]))>>
                     /\ Printed(Of(e), m[e]) # <<"empty">>

LEMMA BodyIs ==
    ASSUME table \in Tables, NEW m, IsConfig(m), Tidy(m), NEW s \in ToSet(Sections)
    PROVE  /\ Len(Body(m, s)) = Len(Fields[s]) /\ Len(Fields[s]) \in Nat
           /\ \A j \in 1 .. Len(Fields[s]) :
                /\ <<s, Fields[s][j]>> \in Known
                /\ Body(m, s)[j] = Entry(Fields[s][j],
                                         Printed(Of(<<s, Fields[s][j]>>),
                                                 m[<<s, Fields[s][j]>>]))
<1> DEFINE l(j) == Line(<<s, Fields[s][j]>>, m[<<s, Fields[s][j]>>])
           n == Len(Fields[s])
           ss == [j \in 1 .. n |-> l(j)]
<1>1. n \in Nat /\ \A j \in 1 .. n : <<s, Fields[s][j]>> \in Known
  BY FieldIs
<1>2. ASSUME NEW j \in 1 .. n
      PROVE  /\ l(j) \in Seq(Lines)
             /\ l(j) = <<Entry(Fields[s][j], Printed(Of(<<s, Fields[s][j]>>),
                                                     m[<<s, Fields[s][j]>>]))>>
  <2> DEFINE e == <<s, Fields[s][j]>>
  <2>1. e \in Known /\ e[2] = Fields[s][j]
    BY <1>1
  <2> HIDE DEF e
  <2>2. Line(e, m[e]) \in Seq(Lines)
    BY <2>1, LineType DEF IsConfig
  <2>3. Line(e, m[e]) = <<Entry(e[2], Printed(Of(e), m[e]))>>
    BY <2>1 DEF Tidy
  <2>4. QED
    BY <2>1, <2>2, <2>3 DEF e
<1>3. Body(m, s) = FlattenSeq(ss)
  BY DEF Body
<1>4. /\ Len(ss) = n /\ ss \in Seq(Seq(Lines))
      /\ \A j \in 1 .. n : ss[j] = l(j)
  <2>1. \A j \in 1 .. n : l(j) \in Seq(Lines)
    BY <1>2
  <2> HIDE DEF l, n
  <2>2. QED
    BY <1>1, <2>1, IsASeq
<1> HIDE DEF ss
<1>5. ASSUME NEW j \in 1 .. n
      PROVE  Len(ss[j]) = 1 /\ ss[j][1] =
        Entry(Fields[s][j], Printed(Of(<<s, Fields[s][j]>>), m[<<s, Fields[s][j]>>]))
  <2> DEFINE x == Entry(Fields[s][j], Printed(Of(<<s, Fields[s][j]>>),
                                              m[<<s, Fields[s][j]>>]))
  <2>1. ss[j] = <<x>>
    BY <1>2, <1>4
  <2> HIDE DEF x
  <2>2. Len(ss[j]) = 1 /\ ss[j][1] = x
    BY <2>1
  <2>3. QED
    BY <2>2 DEF x
<1>6. Len(FlattenSeq(ss)) = n /\ \A j \in 1 .. n : FlattenSeq(ss)[j] = ss[j][1]
  <2>1. \A j \in 1 .. Len(ss) : Len(ss[j]) = 1
    BY <1>4, <1>5
  <2>2. QED
    BY <1>4, <2>1, Singles
<1>7. QED
  BY <1>1, <1>3, <1>5, <1>6

\* What write_section writes: off says how many lines are before a section's.
First(off, i) == off[i] + (IF i = 1 THEN 0 ELSE 2)
Laid(m, off) ==
    LET n == Len(Sections)
        w == write_section(m)
    IN /\ off \in [1 .. n + 1 -> Nat] /\ off[1] = 0 /\ Len(w) = off[n + 1]
       /\ \A i \in 1 .. n : off[i + 1] = First(off, i) + Len(Fields[Sections[i]])
       /\ \A i, k \in 1 .. n + 1 : i <= k => off[i] <= off[k]
       /\ \A k \in 1 .. Len(w) : \E i \in 1 .. n : k > off[i] /\ k <= off[i + 1]
       /\ \A i \in 1 .. n : i # 1 => /\ w[off[i] + 1] = Blank
                                     /\ w[off[i] + 2] = Header(Sections[i])
       /\ \A i \in 1 .. n : \A j \in 1 .. Len(Fields[Sections[i]]) :
            LET e == <<Sections[i], Fields[Sections[i]][j]>>
            IN w[First(off, i) + j] = Entry(e[2], Printed(Of(e), m[e]))

LEMMA LaidOut ==
    ASSUME table \in Tables, NEW m, IsConfig(m), Tidy(m)
    PROVE  \E off : Laid(m, off)
<1> DEFINE head(i) == <<Blank, Header(Sections[i])>>
           body(i) == Body(m, Sections[i])
           part(i) == IF i = 1 THEN Body(m, Sections[1])
                      ELSE <<Blank, Header(Sections[i])>> \o Body(m, Sections[i])
           n == Len(Sections)
           ss == [i \in 1 .. n |-> part(i)]
           w == write_section(m)
<1>1. n \in Nat /\ n >= 1 /\ \A i \in 1 .. n : Sections[i] \in ToSet(Sections)
  BY SectionIs
<1>2. ASSUME NEW i \in 1 .. n
      PROVE  /\ body(i) \in Seq(Lines) /\ Len(body(i)) = Len(Fields[Sections[i]])
             /\ Len(Fields[Sections[i]]) \in Nat
             /\ \A j \in 1 .. Len(Fields[Sections[i]]) :
                  LET e == <<Sections[i], Fields[Sections[i]][j]>>
                  IN body(i)[j] = Entry(e[2], Printed(Of(e), m[e]))
  <2>1. Sections[i] \in ToSet(Sections)
    BY <1>1
  <2>2. body(i) \in Seq(Lines)
    <3>1. \A e \in Known : Line(e, m[e]) \in Seq(Lines)
      BY LineType DEF IsConfig
    <3>2. QED
      BY <2>1, <3>1, BodyIn
  <2>3. QED
    BY <2>1, <2>2, BodyIs
<1>3. ASSUME NEW i \in 1 .. n
      PROVE  /\ part(i) \in Seq(Lines)
             /\ Len(part(i)) = (IF i = 1 THEN 0 ELSE 2) + Len(body(i))
             /\ \A j \in 1 .. Len(body(i)) :
                  part(i)[(IF i = 1 THEN 0 ELSE 2) + j] = body(i)[j]
             /\ i # 1 => part(i)[1] = Blank /\ part(i)[2] = Header(Sections[i])
  <2>1. body(i) \in Seq(Lines) /\ Len(body(i)) \in Nat
    BY <1>2
  <2>2. CASE i = 1
    <3>1. part(i) = body(i)
      BY <2>2
    <3> HIDE DEF part, body
    <3>2. \A j \in 1 .. Len(body(i)) : 0 + j = j
      BY <2>1
    <3>3. QED
      BY <2>1, <2>2, <3>1, <3>2
  <2>3. CASE i # 1
    <3>1. head(i) \in Seq(Lines) /\ Len(head(i)) = 2 /\ head(i)[1] = Blank
          /\ head(i)[2] = Header(Sections[i])
      <4>1. Blank \in Lines /\ Header(Sections[i]) \in Lines
        BY <1>1 DEF Lines
      <4>2. QED
        BY <4>1
    <3>2. part(i) = head(i) \o body(i)
      BY <2>3
    <3> HIDE DEF part, head, body
    <3>3. /\ part(i) \in Seq(Lines) /\ Len(part(i)) = Len(head(i)) + Len(body(i))
          /\ \A j \in 1 .. Len(head(i)) : part(i)[j] = head(i)[j]
          /\ \A j \in 1 .. Len(body(i)) : part(i)[Len(head(i)) + j] = body(i)[j]
      <4> DEFINE a == head(i)
                 b == body(i)
      <4>1. a \in Seq(Lines) /\ b \in Seq(Lines) /\ part(i) = a \o b
        BY <2>1, <3>1, <3>2
      <4> HIDE DEF a, b
      <4>2. /\ a \o b \in Seq(Lines) /\ Len(a \o b) = Len(a) + Len(b)
            /\ \A j \in 1 .. Len(a) : (a \o b)[j] = a[j]
            /\ \A j \in 1 .. Len(b) : (a \o b)[Len(a) + j] = b[j]
        BY <4>1
      <4>3. QED
        BY <4>1, <4>2 DEF a, b
    <3>4. 1 \in 1 .. Len(head(i)) /\ 2 \in 1 .. Len(head(i))
      BY <3>1
    <3>5. QED
      BY <2>3, <3>1, <3>3, <3>4
  <2>4. QED
    BY <2>2, <2>3
<1>4. w = FlattenSeq(ss)
  BY DEF write_section
<1>5. Len(ss) = n /\ ss \in Seq(Seq(Lines)) /\ \A i \in 1 .. n : ss[i] = part(i)
  <2>1. \A i \in 1 .. n : part(i) \in Seq(Lines)
    BY <1>3
  <2> HIDE DEF part, n
  <2>2. QED
    BY <1>1, <2>1, IsASeq
<1> HIDE DEF ss, w, part, body
<1>6. PICK off : Places(ss, off, w)
  BY <1>1, <1>4, <1>5, FlattenPlaces
<1>7. /\ off \in [1 .. n + 1 -> Nat] /\ off[1] = 0 /\ Len(w) = off[n + 1]
      /\ \A i \in 1 .. n : off[i + 1] = off[i] + Len(part(i))
      /\ \A i \in 1 .. n : \A j \in 1 .. Len(part(i)) : w[off[i] + j] = part(i)[j]
  <2>1. /\ off \in [1 .. Len(ss) + 1 -> Nat] /\ off[1] = 0
        /\ Len(w) = off[Len(ss) + 1]
        /\ \A i \in 1 .. Len(ss) : off[i + 1] = off[i] + Len(ss[i])
    BY <1>6 DEF Places
  <2>2. \A i \in 1 .. Len(ss) : \A j \in 1 .. Len(ss[i]) : w[off[i] + j] = ss[i][j]
    BY <1>6 DEF Places
  <2> HIDE DEF n
  <2>3. QED
    BY <1>5, <2>1, <2>2
<1>8. \A i, k \in 1 .. n + 1 : i <= k => off[i] <= off[k]
  BY <1>5, <1>6, PlacesRise
<1> HIDE DEF n
<1>9. ASSUME NEW i \in 1 .. n
      PROVE  /\ off[i + 1] = First(off, i) + Len(Fields[Sections[i]])
             /\ i # 1 => w[off[i] + 1] = Blank /\ w[off[i] + 2] = Header(Sections[i])
             /\ \A j \in 1 .. Len(Fields[Sections[i]]) :
                  LET e == <<Sections[i], Fields[Sections[i]][j]>>
                  IN w[First(off, i) + j] = Entry(e[2], Printed(Of(e), m[e]))
  <2> DEFINE h == IF i = 1 THEN 0 ELSE 2
             c == Len(Fields[Sections[i]])
  <2>1. c \in Nat /\ h \in Nat /\ off[i] \in Nat /\ First(off, i) = off[i] + h
        /\ Len(part(i)) = h + c
    <3>1. i \in 1 .. n + 1
      BY <1>1
    <3>2. off[i] \in Nat
      BY <1>7, <3>1
    <3>3. c \in Nat /\ c = Len(body(i))
      BY <1>2
    <3>4. Len(part(i)) = h + c
      BY <1>3, <3>3
    <3>5. h \in Nat /\ First(off, i) = off[i] + h
      BY DEF First
    <3> HIDE DEF h, c
    <3>6. QED
      BY <3>2, <3>3, <3>4, <3>5
  <2>2. i # 1 => h = 2
    OBVIOUS
  <2>3. \A j \in 1 .. c : part(i)[h + j] = body(i)[j]
    BY <1>2, <1>3
  <2> HIDE DEF h, c
  <2>4. off[i + 1] = First(off, i) + c
    <3>1. off[i + 1] = off[i] + Len(part(i))
      BY <1>7
    <3>2. QED
      BY <2>1, <3>1
  <2>5. i # 1 => w[off[i] + 1] = Blank /\ w[off[i] + 2] = Header(Sections[i])
    <3>1. SUFFICES ASSUME i # 1
                   PROVE w[off[i] + 1] = Blank /\ w[off[i] + 2] = Header(Sections[i])
      OBVIOUS
    <3>2. 1 \in 1 .. Len(part(i)) /\ 2 \in 1 .. Len(part(i))
      BY <2>1, <2>2, <3>1
    <3>3. QED
      BY <1>3, <1>7, <3>1, <3>2
  <2>6. ASSUME NEW j \in 1 .. c PROVE w[First(off, i) + j] = body(i)[j]
    <3>1. h + j \in 1 .. Len(part(i)) /\ First(off, i) + j = off[i] + (h + j)
      BY <2>1
    <3>2. w[off[i] + (h + j)] = part(i)[h + j]
      BY <1>7, <3>1
    <3>3. QED
      BY <2>3, <3>1, <3>2
  <2>7. QED
    BY <1>2, <2>4, <2>5, <2>6 DEF c
<1>10. ASSUME NEW k \in 1 .. Len(w) PROVE \E i \in 1 .. n : k > off[i] /\ k <= off[i + 1]
  <2>1. Len(ss) >= 1
    BY <1>1, <1>5
  <2>2. PICK i \in 1 .. n : \E j \in 1 .. Len(ss[i]) : k = off[i] + j
    BY <1>5, <1>6, <2>1, PlacesCover, SMTT(30)
  <2>3. off[i] \in Nat /\ Len(ss[i]) \in Nat /\ off[i + 1] = off[i] + Len(ss[i])
    <3>1. ss[i] \in Seq(Lines) /\ i \in 1 .. n + 1
      BY <1>1, <1>3, <1>5
    <3>2. QED
      BY <1>5, <1>7, <3>1
  <2>4. QED
    BY <2>2, <2>3
<1>11. QED
  <2>1. Laid(m, off)
    BY <1>7, <1>8, <1>9, <1>10, ZenonT(30) DEF Laid, n, w
  <2>2. QED
    BY <2>1

\* Where the lines of a written file are, and in what section.
LEMMA LaidIs ==
    ASSUME NEW m, NEW off, Laid(m, off), NEW i \in 1 .. Len(Sections)
    PROVE  /\ off[i] \in Nat /\ off[i + 1] \in Nat
           /\ Len(Fields[Sections[i]]) \in Nat /\ Len(write_section(m)) \in Nat
           /\ off[i + 1] = First(off, i) + Len(Fields[Sections[i]])
           /\ i = 1 => First(off, i) = off[i] /\ off[i] = 0
           /\ i # 1 => First(off, i) = off[i] + 2
           /\ First(off, i) \in Nat /\ off[i + 1] <= Len(write_section(m))
<1> DEFINE n == Len(Sections)
<1>1. n \in Nat /\ n >= 1 /\ Sections[i] \in ToSet(Sections)
  BY SectionIs
<1>2. Len(Fields[Sections[i]]) \in Nat
  BY <1>1, FieldIs
<1>3. /\ off \in [1 .. n + 1 -> Nat] /\ off[1] = 0 /\ Len(write_section(m)) = off[n + 1]
      /\ off[i + 1] = First(off, i) + Len(Fields[Sections[i]])
      /\ \A k, l \in 1 .. n + 1 : k <= l => off[k] <= off[l]
  BY DEF Laid
<1> HIDE DEF n
<1>4. i \in 1 .. n + 1 /\ i + 1 \in 1 .. n + 1 /\ n + 1 \in 1 .. n + 1 /\ i + 1 <= n + 1
  BY <1>1 DEF n
<1>5. off[i + 1] <= off[n + 1]
  BY <1>3, <1>4
<1>6. off[i] \in Nat /\ off[i + 1] \in Nat /\ off[n + 1] \in Nat
  BY <1>3, <1>4
<1>7. QED
  BY <1>2, <1>3, <1>5, <1>6 DEF First

LEMMA EntryIn ==
    ASSUME NEW m, NEW off, Laid(m, off), NEW i \in 1 .. Len(Sections),
           NEW j \in 1 .. Len(Fields[Sections[i]])
    PROVE  First(off, i) + j \in 1 .. Len(write_section(m))
<1> DEFINE c == Len(Fields[Sections[i]])
           d == Len(write_section(m))
<1>1. /\ c \in Nat /\ d \in Nat /\ First(off, i) \in Nat
      /\ off[i + 1] = First(off, i) + c /\ off[i + 1] <= d
  BY LaidIs
<1>2. j \in 1 .. c
  OBVIOUS
<1> HIDE DEF c, d
<1>3. First(off, i) + j \in 1 .. d
  BY <1>1, <1>2
<1>4. QED
  BY <1>3 DEF d

LEMMA EntriesRise ==
    ASSUME NEW m, NEW off, Laid(m, off),
           NEW i \in 1 .. Len(Sections), NEW j \in 1 .. Len(Fields[Sections[i]]),
           NEW k \in 1 .. Len(Sections), NEW l \in 1 .. Len(Fields[Sections[k]]),
           i < k \/ (i = k /\ j < l)
    PROVE  First(off, i) + j < First(off, k) + l
<1>1. CASE i < k
  <2>1. i + 1 \in 1 .. Len(Sections) + 1 /\ k \in 1 .. Len(Sections) + 1 /\ i + 1 <= k
    BY <1>1, SectionIs
  <2>2. off[i + 1] <= off[k]
    BY <2>1 DEF Laid
  <2>3. /\ off[i + 1] \in Nat /\ off[k] \in Nat /\ First(off, i) \in Nat
        /\ First(off, k) \in Nat /\ First(off, k) >= off[k]
        /\ off[i + 1] = First(off, i) + Len(Fields[Sections[i]])
        /\ Len(Fields[Sections[i]]) \in Nat
    <3>1. First(off, k) = off[k] \/ First(off, k) = off[k] + 2
      BY LaidIs
    <3>2. off[k] \in Nat
      BY LaidIs
    <3>3. First(off, k) >= off[k]
      BY <3>1, <3>2
    <3>4. QED
      BY <3>3, LaidIs
  <2>4. j \in Nat /\ l \in Nat /\ l >= 1 /\ j <= Len(Fields[Sections[i]])
    BY <2>3
  <2> DEFINE a == First(off, i)
             b == First(off, k)
             c == Len(Fields[Sections[i]])
  <2>5. a + c <= b /\ j <= c /\ l >= 1 /\ a \in Nat /\ b \in Nat /\ c \in Nat
    BY <2>2, <2>3, <2>4
  <2> HIDE DEF a, b, c
  <2>6. a + j < b + l
    BY <2>4, <2>5
  <2>7. QED
    BY <2>6 DEF a, b
<1>2. CASE i = k /\ j < l
  <2>1. First(off, i) \in Nat
    BY LaidIs
  <2>2. QED
    BY <1>2, <2>1
<1>3. QED
  BY <1>1, <1>2

\* Every line is an entry of a section, its header, or the one before that.
LEMMA LineIs ==
    ASSUME NEW m, NEW off, Laid(m, off), NEW k \in 1 .. Len(write_section(m))
    PROVE  \E i \in 1 .. Len(Sections) :
             \/ /\ i # 1 /\ k = off[i] + 1 /\ write_section(m)[k] = Blank
             \/ /\ i # 1 /\ k = off[i] + 2 /\ write_section(m)[k] = Header(Sections[i])
             \/ \E j \in 1 .. Len(Fields[Sections[i]]) : k = First(off, i) + j
<1>1. PICK i \in 1 .. Len(Sections) : k > off[i] /\ k <= off[i + 1]
  BY DEF Laid
<1> DEFINE c == Len(Fields[Sections[i]])
<1>2. /\ off[i] \in Nat /\ c \in Nat /\ off[i + 1] = First(off, i) + c
      /\ i = 1 => First(off, i) = off[i]
      /\ i # 1 => First(off, i) = off[i] + 2
      /\ k \in Nat
  BY LaidIs
<1> HIDE DEF c
<1>3. CASE k > First(off, i)
  <2>1. First(off, i) \in Nat
    BY <1>2
  <2>2. k - First(off, i) \in 1 .. c /\ k = First(off, i) + (k - First(off, i))
    BY <1>1, <1>2, <1>3, <2>1
  <2>3. QED
    BY <2>2 DEF c
<1>4. CASE ~(k > First(off, i))
  <2>1. i # 1 /\ (k = off[i] + 1 \/ k = off[i] + 2)
    BY <1>1, <1>2, <1>4
  <2>2. write_section(m)[off[i] + 1] = Blank
        /\ write_section(m)[off[i] + 2] = Header(Sections[i])
    BY <2>1 DEF Laid
  <2>3. QED
    BY <2>1, <2>2
<1>5. QED
  BY <1>3, <1>4

LEMMA EntryText ==
    ASSUME NEW m, NEW off, Laid(m, off), NEW i \in 1 .. Len(Sections),
           NEW j \in 1 .. Len(Fields[Sections[i]])
    PROVE  LET e == <<Sections[i], Fields[Sections[i]][j]>>
           IN /\ e \in Known
              /\ write_section(m)[First(off, i) + j] = Entry(e[2], Printed(Of(e), m[e]))
<1>1. LET e == <<Sections[i], Fields[Sections[i]][j]>>
      IN write_section(m)[First(off, i) + j] = Entry(e[2], Printed(Of(e), m[e]))
  BY Zenon DEF Laid
<1>2. <<Sections[i], Fields[Sections[i]][j]>> \in Known
  BY FieldIs, SectionIs
<1>3. QED
  BY <1>1, <1>2

LEMMA EntryIs ==
    ASSUME NEW m, NEW off, Laid(m, off), NEW i \in 1 .. Len(Sections),
           NEW j \in 1 .. Len(Fields[Sections[i]])
    PROVE  /\ write_section(m)[First(off, i) + j].kind = "entry"
           /\ write_section(m)[First(off, i) + j].name = Fields[Sections[i]][j]
<1> DEFINE e == <<Sections[i], Fields[Sections[i]][j]>>
           x == Printed(Of(e), m[e])
<1>1. write_section(m)[First(off, i) + j] = Entry(e[2], x)
  BY EntryText
<1> HIDE DEF x
<1>2. QED
  BY <1>1 DEF Entry

LEMMA EntrySection ==
    ASSUME NEW m, NEW off, Laid(m, off), NEW i \in 1 .. Len(Sections),
           NEW j \in 1 .. Len(Fields[Sections[i]])
    PROVE  SectionAt(write_section(m), First(off, i) + j) = Sections[i]
<1> DEFINE w == write_section(m)
           k == First(off, i) + j
           heads == {y \in 1 .. k - 1 : w[y].kind = "section"}
           c == Len(Fields[Sections[i]])
<1>1. /\ off[i] \in Nat /\ First(off, i) \in Nat /\ j \in Nat /\ j >= 1 /\ j <= c /\ c \in Nat
      /\ i = 1 => First(off, i) = 0
      /\ i # 1 => First(off, i) = off[i] + 2
  BY LaidIs
<1>2. SectionAt(w, k) = IF heads = {} THEN <<>> ELSE w[Max(heads)].name
  BY DEF SectionAt
<1>3. ASSUME NEW y \in heads PROVE y <= First(off, i)
  <2>1. SUFFICES ASSUME y > First(off, i) PROVE FALSE
    BY <1>1
  <2> DEFINE x == y - First(off, i)
  <2>2. x \in 1 .. c /\ y = First(off, i) + x
    BY <1>1, <2>1
  <2> HIDE DEF k, heads, x
  <2>3. w[y].kind = "entry"
    <3>1. write_section(m)[First(off, i) + x].kind = "entry"
      BY <2>2, EntryIs
    <3>2. QED
      BY <2>2, <3>1
  <2>4. w[y].kind = "section"
    BY DEF heads
  <2>5. QED
    BY <2>3, <2>4
<1>4. CASE i = 1
  <2>1. heads = {}
    BY <1>1, <1>3, <1>4
  <2>2. QED
    BY <1>2, <1>4, <2>1, SectionIs
<1>5. CASE i # 1
  <2> DEFINE h == First(off, i)
  <2>1. w[h] = Header(Sections[i])
    BY <1>1, <1>5 DEF Laid
  <2>2. h \in heads /\ k - 1 \in Nat /\ heads \in SUBSET (1 .. k - 1)
    BY <1>1, <1>5, <2>1 DEF Header
  <2> HIDE DEF heads, h, w, k
  <2>3. \A y \in heads : h >= y
    <3>1. \A y \in heads : y <= h /\ y \in 1 .. k - 1
      BY <1>3, <2>2 DEF h
    <3>2. h \in Nat
      BY <1>1 DEF h
    <3>3. QED
      BY <3>1, <3>2
  <2>4. Max(heads) = h
    BY <2>2, <2>3, MaxOf
  <2>5. QED
    BY <1>2, <2>1, <2>2, <2>4 DEF Header, w, k
<1>6. QED
  BY <1>4, <1>5

\* Line k of what is written is an entry of variable e: it has e's value.
LEMMA NamedIs ==
    ASSUME NEW m, NEW off, Laid(m, off), NEW k \in 1 .. Len(write_section(m)),
           write_section(m)[k].kind = "entry"
    PROVE  \E i \in 1 .. Len(Sections) : \E j \in 1 .. Len(Fields[Sections[i]]) :
             /\ k = First(off, i) + j
             /\ SectionAt(write_section(m), k) = Sections[i]
             /\ write_section(m)[k].name = Fields[Sections[i]][j]
<1>1. write_section(m)[k] # Blank
      /\ \A i \in 1 .. Len(Sections) : write_section(m)[k] # Header(Sections[i])
  BY DEF Blank, Header
<1>2. PICK i \in 1 .. Len(Sections) :
        \E j \in 1 .. Len(Fields[Sections[i]]) : k = First(off, i) + j
  BY <1>1, LineIs
<1>3. PICK j \in 1 .. Len(Fields[Sections[i]]) : k = First(off, i) + j
  BY <1>2
<1>4. write_section(m)[k].name = Fields[Sections[i]][j]
  BY <1>3, EntryIs
<1>5. SectionAt(write_section(m), k) = Sections[i]
  BY <1>3, EntrySection
<1>6. QED
  BY <1>3, <1>4, <1>5

LEMMA NamedValue ==
    ASSUME NEW m, NEW off, Laid(m, off), NEW k \in 1 .. Len(write_section(m)),
           write_section(m)[k].kind = "entry"
    PROVE  LET e == <<SectionAt(write_section(m), k), write_section(m)[k].name>>
           IN e \in Known /\ write_section(m)[k].text = Printed(Of(e), m[e])
<1>1. PICK i \in 1 .. Len(Sections) : \E j \in 1 .. Len(Fields[Sections[i]]) :
             /\ k = First(off, i) + j
             /\ SectionAt(write_section(m), k) = Sections[i]
             /\ write_section(m)[k].name = Fields[Sections[i]][j]
  BY NamedIs
<1>2. PICK j \in 1 .. Len(Fields[Sections[i]]) :
             /\ k = First(off, i) + j
             /\ SectionAt(write_section(m), k) = Sections[i]
             /\ write_section(m)[k].name = Fields[Sections[i]][j]
  BY <1>1
<1> DEFINE e == <<Sections[i], Fields[Sections[i]][j]>>
           x == Printed(Of(e), m[e])
<1>3. e \in Known /\ write_section(m)[k] = Entry(e[2], x)
  BY <1>2, EntryText
<1> HIDE DEF x
<1>4. write_section(m)[k].text = x
  BY <1>3 DEF Entry
<1>5. QED
  BY <1>2, <1>3, <1>4 DEF x

LEMMA NamedOnce ==
    ASSUME NEW m, NEW off, Laid(m, off), NEW e,
           NEW k \in 1 .. Len(write_section(m)), NamesIn(write_section(m), k, e),
           NEW l \in 1 .. Len(write_section(m)), NamesIn(write_section(m), l, e)
    PROVE  k = l
<1> DEFINE at(x, i, j) == /\ x = First(off, i) + j
                          /\ SectionAt(write_section(m), x) = Sections[i]
                          /\ write_section(m)[x].name = Fields[Sections[i]][j]
<1>1. ASSUME NEW x \in 1 .. Len(write_section(m)), NamesIn(write_section(m), x, e)
      PROVE  \E i \in 1 .. Len(Sections) : \E j \in 1 .. Len(Fields[Sections[i]]) :
               x = First(off, i) + j /\ Sections[i] = e[1] /\ Fields[Sections[i]][j] = e[2]
  <2>1. \E i \in 1 .. Len(Sections) : \E j \in 1 .. Len(Fields[Sections[i]]) : at(x, i, j)
    BY <1>1, NamedIs DEF NamesIn
  <2>2. QED
    BY <1>1, <2>1 DEF NamesIn
<1>2. PICK i \in 1 .. Len(Sections) : \E j \in 1 .. Len(Fields[Sections[i]]) :
        k = First(off, i) + j /\ Sections[i] = e[1] /\ Fields[Sections[i]][j] = e[2]
  BY <1>1
<1>3. PICK j \in 1 .. Len(Fields[Sections[i]]) :
        k = First(off, i) + j /\ Sections[i] = e[1] /\ Fields[Sections[i]][j] = e[2]
  BY <1>2
<1>4. PICK p \in 1 .. Len(Sections) : \E q \in 1 .. Len(Fields[Sections[p]]) :
        l = First(off, p) + q /\ Sections[p] = e[1] /\ Fields[Sections[p]][q] = e[2]
  BY <1>1
<1>5. PICK q \in 1 .. Len(Fields[Sections[p]]) :
        l = First(off, p) + q /\ Sections[p] = e[1] /\ Fields[Sections[p]][q] = e[2]
  BY <1>4
<1>6. i = p
  BY <1>3, <1>5, SectionIs
<1>7. j = q
  <2>1. Fields[Sections[i]][j] = Fields[Sections[i]][q] /\ q \in 1 .. Len(Fields[Sections[i]])
    BY <1>3, <1>5, <1>6
  <2>2. Sections[i] \in ToSet(Sections)
    BY SectionIs
  <2>3. Fields[Sections[i]] \in Seq(ToSet(Fields[Sections[i]])) /\ IsInjective(Fields[Sections[i]])
    BY <2>2, ConfFileAssumption
  <2>4. DOMAIN Fields[Sections[i]] = 1 .. Len(Fields[Sections[i]])
    BY <2>3
  <2>5. QED
    BY <2>1, <2>3, <2>4 DEF IsInjective
<1>8. QED
  BY <1>3, <1>5, <1>6, <1>7

\* Every variable has a line.
LEMMA NamedSomewhere ==
    ASSUME NEW m, NEW off, Laid(m, off), NEW e \in Known
    PROVE  \E k \in 1 .. Len(write_section(m)) : NamesIn(write_section(m), k, e)
<1>1. PICK s \in ToSet(Sections) : \E f \in ToSet(Fields[s]) : e = <<s, f>>
  BY DEF Known
<1>2. PICK f \in ToSet(Fields[s]) : e = <<s, f>>
  BY <1>1
<1>3. PICK i \in 1 .. Len(Sections) : s = Sections[i]
  BY SectionIs
<1>4. PICK j \in 1 .. Len(Fields[s]) : f = Fields[s][j]
  <2>1. Fields[s] \in Seq(ToSet(Fields[s]))
    BY ConfFileAssumption
  <2>2. QED
    BY <2>1 DEF ToSet
<1> DEFINE k == First(off, i) + j
<1>5. j \in 1 .. Len(Fields[Sections[i]]) /\ e[1] = Sections[i] /\ e[2] = Fields[Sections[i]][j]
  BY <1>2, <1>3, <1>4
<1>6. k \in 1 .. Len(write_section(m))
  BY <1>5, EntryIn
<1>7. SectionAt(write_section(m), k) = Sections[i]
  BY <1>5, EntrySection
<1>8. write_section(m)[k].kind = "entry" /\ write_section(m)[k].name = Fields[Sections[i]][j]
  BY <1>5, EntryIs
<1>9. NamesIn(write_section(m), k, e)
  BY <1>5, <1>7, <1>8 DEF NamesIn
<1>10. QED
  BY <1>6, <1>9

\* The lines stand in the order of the variables.
LEMMA OrderIs ==
    \E off : /\ \A q \in 1 .. Len(Order) : \E i \in 1 .. Len(Sections) :
                  \E j \in 1 .. Len(Fields[Sections[i]]) :
                    q = off[i] + j /\ Order[q] = <<Sections[i], Fields[Sections[i]][j]>>
             /\ \A i, k \in 1 .. Len(Sections) + 1 : i <= k => off[i] <= off[k]
             /\ \A i \in 1 .. Len(Sections) :
                  off[i] \in Nat /\ off[i + 1] = off[i] + Len(Fields[Sections[i]])
             /\ Len(Order) \in Nat
             /\ \A i \in 1 .. Len(Sections) : \A j \in 1 .. Len(Fields[Sections[i]]) :
                  off[i] + j \in 1 .. Len(Order)
                  /\ Order[off[i] + j] = <<Sections[i], Fields[Sections[i]][j]>>
<1> DEFINE n == Len(Sections)
           part(i) == [j \in 1 .. Len(Fields[Sections[i]]) |->
                         <<Sections[i], Fields[Sections[i]][j]>>]
           ss == [i \in 1 .. n |-> part(i)]
<1>1. n \in Nat /\ n >= 1 /\ \A i \in 1 .. n : Sections[i] \in ToSet(Sections)
  BY SectionIs
<1>2. ASSUME NEW i \in 1 .. n
      PROVE  /\ part(i) \in Seq(Known) /\ Len(part(i)) = Len(Fields[Sections[i]])
             /\ Len(Fields[Sections[i]]) \in Nat
  <2>1. Len(Fields[Sections[i]]) \in Nat
        /\ \A j \in 1 .. Len(Fields[Sections[i]]) : <<Sections[i], Fields[Sections[i]][j]>> \in Known
    BY <1>1, FieldIs
  <2>2. QED
    BY <2>1, IsASeq
<1>3. Order = FlattenSeq(ss)
  BY DEF Order
<1>4. /\ Len(ss) = n /\ ss \in Seq(Seq(Known))
      /\ \A i \in 1 .. n : ss[i] = part(i)
  <2>1. \A i \in 1 .. n : part(i) \in Seq(Known)
    BY <1>2
  <2> HIDE DEF part, n
  <2>2. QED
    BY <1>1, <2>1, IsASeq
<1> HIDE DEF ss
<1>5. Order \in Seq(Known) /\ \E off : Places(ss, off, Order)
  BY <1>1, <1>3, <1>4, FlattenPlaces
<1>6. PICK off : Places(ss, off, Order)
  BY <1>5
<1>7. \A i, k \in 1 .. n + 1 : i <= k => off[i] <= off[k]
  BY <1>4, <1>6, PlacesRise
<1>8. ASSUME NEW i \in 1 .. n
      PROVE  off[i] \in Nat /\ off[i + 1] = off[i] + Len(Fields[Sections[i]])
  <2>1. off \in [1 .. Len(ss) + 1 -> Nat] /\ off[i + 1] = off[i] + Len(ss[i])
    <3>1. i \in 1 .. Len(ss)
      BY <1>4
    <3>2. QED
      BY <1>6, <3>1 DEF Places
  <2>2. i \in 1 .. Len(ss) + 1
    BY <1>1, <1>4
  <2>3. Len(ss[i]) = Len(Fields[Sections[i]])
    BY <1>2, <1>4
  <2>4. QED
    BY <2>1, <2>2, <2>3
<1>9. ASSUME NEW q \in 1 .. Len(Order)
      PROVE  \E i \in 1 .. n : \E j \in 1 .. Len(Fields[Sections[i]]) :
               q = off[i] + j /\ Order[q] = <<Sections[i], Fields[Sections[i]][j]>>
  <2>1. Len(ss) >= 1
    BY <1>1, <1>4
  <2>2. PICK i \in 1 .. n : \E j \in 1 .. Len(ss[i]) : q = off[i] + j
    <3> HIDE DEF part, n
    <3>1. QED
      BY <1>4, <1>6, <2>1, PlacesCover
  <2>3. PICK j \in 1 .. Len(ss[i]) : q = off[i] + j
    BY <2>2
  <2>4. Order[off[i] + j] = ss[i][j]
    <3>1. i \in 1 .. Len(ss)
      BY <1>4
    <3>2. QED
      BY <1>6, <3>1 DEF Places
  <2>5. ss[i] = part(i) /\ j \in 1 .. Len(Fields[Sections[i]])
    BY <1>2, <1>4
  <2>6. ss[i][j] = <<Sections[i], Fields[Sections[i]][j]>>
    BY <2>5
  <2>7. QED
    BY <2>3, <2>4, <2>5, <2>6
<1>10. Len(Order) \in Nat
  BY <1>5
<1>11. ASSUME NEW i \in 1 .. n, NEW j \in 1 .. Len(Fields[Sections[i]])
       PROVE  off[i] + j \in 1 .. Len(Order)
              /\ Order[off[i] + j] = <<Sections[i], Fields[Sections[i]][j]>>
  <2>1. i \in 1 .. Len(ss) /\ ss[i] = part(i) /\ j \in 1 .. Len(ss[i])
    BY <1>2, <1>4
  <2>2. Order[off[i] + j] = ss[i][j] /\ Len(Order) = off[n + 1]
    BY <1>4, <1>6, <2>1 DEF Places
  <2>3. off[i + 1] <= off[n + 1]
    <3> HIDE DEF n
    <3>1. i + 1 \in 1 .. n + 1 /\ n + 1 \in 1 .. n + 1 /\ i + 1 <= n + 1
      BY <1>1
    <3>2. QED
      BY <1>7, <3>1
  <2>4. off[i] + j \in 1 .. Len(Order)
    <3>1. Len(Fields[Sections[i]]) \in Nat
      BY <1>2
    <3> HIDE DEF n
    <3>2. QED
      BY <1>8, <1>10, <2>2, <2>3, <3>1
  <2>5. ss[i][j] = <<Sections[i], Fields[Sections[i]][j]>>
    BY <2>1
  <2>6. QED
    BY <2>2, <2>4, <2>5
<1>12. QED
  BY <1>7, <1>8, <1>9, <1>10, <1>11

\* Every variable has its place in the order.
LEMMA InOrder == \A e \in Known : \E q \in 1 .. Len(Order) : Order[q] = e
<1>1. PICK off : \A i \in 1 .. Len(Sections) : \A j \in 1 .. Len(Fields[Sections[i]]) :
        off[i] + j \in 1 .. Len(Order)
        /\ Order[off[i] + j] = <<Sections[i], Fields[Sections[i]][j]>>
  BY OrderIs
<1>2. SUFFICES ASSUME NEW e \in Known PROVE \E q \in 1 .. Len(Order) : Order[q] = e
  OBVIOUS
<1>3. PICK s \in ToSet(Sections) : \E f \in ToSet(Fields[s]) : e = <<s, f>>
  BY DEF Known
<1>4. PICK f \in ToSet(Fields[s]) : e = <<s, f>>
  BY <1>3
<1>5. PICK i \in 1 .. Len(Sections) : s = Sections[i]
  BY SectionIs
<1>6. PICK j \in 1 .. Len(Fields[s]) : f = Fields[s][j]
  <2>1. Fields[s] \in Seq(ToSet(Fields[s]))
    BY ConfFileAssumption
  <2>2. QED
    BY <2>1 DEF ToSet
<1>7. QED
  BY <1>1, <1>4, <1>5, <1>6

LEMMA NamedInOrder ==
    ASSUME NEW m, NEW off, Laid(m, off),
           NEW p \in 1 .. Len(Order), NEW q \in 1 .. Len(Order), p < q,
           NEW k \in 1 .. Len(write_section(m)), NamesIn(write_section(m), k, Order[p]),
           NEW l \in 1 .. Len(write_section(m)), NamesIn(write_section(m), l, Order[q])
    PROVE  k < l
<1>1. PICK at : /\ \A x \in 1 .. Len(Order) : \E i \in 1 .. Len(Sections) :
                     \E j \in 1 .. Len(Fields[Sections[i]]) :
                       x = at[i] + j /\ Order[x] = <<Sections[i], Fields[Sections[i]][j]>>
                /\ \A i, h \in 1 .. Len(Sections) + 1 : i <= h => at[i] <= at[h]
                /\ \A i \in 1 .. Len(Sections) :
                     at[i] \in Nat /\ at[i + 1] = at[i] + Len(Fields[Sections[i]])
  BY OrderIs
<1>2. ASSUME NEW x \in 1 .. Len(Order), NEW y \in 1 .. Len(write_section(m)),
             NamesIn(write_section(m), y, Order[x])
      PROVE  \E i \in 1 .. Len(Sections) : \E j \in 1 .. Len(Fields[Sections[i]]) :
               x = at[i] + j /\ y = First(off, i) + j
  <2>1. PICK i \in 1 .. Len(Sections) : \E j \in 1 .. Len(Fields[Sections[i]]) :
          x = at[i] + j /\ Order[x] = <<Sections[i], Fields[Sections[i]][j]>>
    BY <1>1
  <2>2. PICK j \in 1 .. Len(Fields[Sections[i]]) :
          x = at[i] + j /\ Order[x] = <<Sections[i], Fields[Sections[i]][j]>>
    BY <2>1
  <2> DEFINE z == First(off, i) + j
  <2>3. z \in 1 .. Len(write_section(m))
    BY EntryIn
  <2>4. NamesIn(write_section(m), z, Order[x])
    <3>1. SectionAt(write_section(m), z) = Sections[i]
      BY EntrySection
    <3>2. write_section(m)[z].kind = "entry" /\ write_section(m)[z].name = Fields[Sections[i]][j]
      BY EntryIs
    <3>3. Order[x][1] = Sections[i] /\ Order[x][2] = Fields[Sections[i]][j]
      BY <2>2
    <3>4. QED
      BY <3>1, <3>2, <3>3 DEF NamesIn
  <2> HIDE DEF z
  <2>5. y = z
    BY <1>2, <2>3, <2>4, NamedOnce
  <2>6. QED
    BY <2>2, <2>5 DEF z
<1>3. PICK i \in 1 .. Len(Sections) : \E j \in 1 .. Len(Fields[Sections[i]]) :
        p = at[i] + j /\ k = First(off, i) + j
  BY <1>2
<1>4. PICK j \in 1 .. Len(Fields[Sections[i]]) : p = at[i] + j /\ k = First(off, i) + j
  BY <1>3
<1>5. PICK a \in 1 .. Len(Sections) : \E b \in 1 .. Len(Fields[Sections[a]]) :
        q = at[a] + b /\ l = First(off, a) + b
  BY <1>2
<1>6. PICK b \in 1 .. Len(Fields[Sections[a]]) : q = at[a] + b /\ l = First(off, a) + b
  BY <1>5
<1>7. i < a \/ (i = a /\ j < b)
  <2>1. /\ at[i] \in Nat /\ at[a] \in Nat /\ j \in Nat /\ j >= 1 /\ b \in Nat
        /\ b <= Len(Fields[Sections[a]]) /\ at[a + 1] = at[a] + Len(Fields[Sections[a]])
        /\ Len(Fields[Sections[a]]) \in Nat
    BY <1>1, LaidIs
  <2>2. i \in Nat /\ a \in Nat
    OBVIOUS
  <2>3. CASE i = a
    <3>1. at[i] + j < at[i] + b
      BY <1>4, <1>6, <2>3
    <3>2. QED
      BY <2>1, <2>3, <3>1
  <2>4. CASE a < i
    <3>1. a + 1 \in 1 .. Len(Sections) + 1 /\ i \in 1 .. Len(Sections) + 1 /\ a + 1 <= i
      BY <2>4, SectionIs
    <3>2. at[a + 1] <= at[i]
      BY <1>1, <3>1
    <3> DEFINE c == Len(Fields[Sections[a]])
               x == at[a]
               y == at[i]
    <3>3. /\ x + c <= y /\ b <= c /\ c \in Nat /\ b \in Nat /\ x \in Nat /\ y \in Nat
          /\ j \in Nat /\ j >= 1
      BY <2>1, <3>2
    <3>4. q = x + b /\ p = y + j
      BY <1>4, <1>6
    <3> HIDE DEF c, x, y
    <3>5. q <= y /\ y < p
      BY <3>3, <3>4
    <3>6. QED
      BY <3>3, <3>4, <3>5
  <2>5. QED
    BY <2>2, <2>3, <2>4
<1>8. QED
  BY <1>4, <1>6, <1>7, EntriesRise

-----------------------------------------------------------------------------
(* What is printed is scanned back.                                        *)

\* The types that the table has the numbers right of: include/conf.h numbers
\* those from INT64 on two too low.
NumbersRight ==
    \A t \in Tables : t.copy = "app" => \A e \in Known : Place[t.type[e]] <= 23

\* The form of a type, by the place of its name.
FormsAt(p, f) ==
    /\ p \in {1, 2} => f = "pointer"
    /\ p \in {3, 9, 14, 19, 24} => f = "signed"
    /\ p \in {4, 10, 15, 20, 25} => f = "unsigned"
    /\ p \in {11, 16, 21, 26} => f = "hex"
    /\ p \in {12, 13, 17, 18, 22, 23, 27, 28, 30, 31, 32, 33} => f = "stub"
    /\ p = 5 => f = "float"
    /\ p = 6 => f = "string"
    /\ p = 7 => f = "bool"
    /\ p = 8 => f = "char"
    /\ p = 29 => f = "ipv4"

LEMMA RowForms ==
    /\ \A i \in 1 .. 8 : FormsAt(i, Basic[i].fmt)
    /\ \A i \in 1 .. 5 : /\ FormsAt(8 + i, Bits8[i].fmt) /\ FormsAt(13 + i, Bits16[i].fmt)
                         /\ FormsAt(18 + i, Bits32[i].fmt) /\ FormsAt(23 + i, Bits64[i].fmt)
                         /\ FormsAt(28 + i, Other[i].fmt)
<1>1. \A i \in 1 .. 8 : FormsAt(i, Basic[i].fmt)
  BY DEF FormsAt, Basic, Fmt
<1>2. ASSUME NEW n
      PROVE  /\ Family(n)[1].fmt = "signed" /\ Family(n)[2].fmt = "unsigned"
             /\ Family(n)[3].fmt = "hex" /\ Family(n)[4].fmt = "stub"
             /\ Family(n)[5].fmt = "stub"
  BY DEF Family, Fmt, Stub
<1>3. ASSUME NEW i \in 1 .. 5
      PROVE  /\ FormsAt(8 + i, Bits8[i].fmt) /\ FormsAt(13 + i, Bits16[i].fmt)
             /\ FormsAt(18 + i, Bits32[i].fmt) /\ FormsAt(23 + i, Bits64[i].fmt)
  <2>1. i \in {1, 2, 3, 4, 5}
    OBVIOUS
  <2>2. QED
    BY <1>2, <2>1 DEF FormsAt, Bits8, Bits16, Bits32, Bits64
<1>4. \A i \in 1 .. 5 : FormsAt(28 + i, Other[i].fmt)
  BY DEF FormsAt, Other, Fmt, Stub
<1>5. QED
  BY <1>1, <1>3, <1>4

LEMMA FormIs ==
    ASSUME table \in Tables, NumbersRight, NEW e \in Known
    PROVE  FormsAt(Place[table.type[e]], Of(e).fmt)
<1> DEFINE p == Place[table.type[e]]
           c == table.copy
<1>1. p \in 1 .. 33 /\ c \in {"app", "lib"} /\ (c = "app" => p <= 23)
      /\ Of(e) = conf_type_tab[c][RowAt(c, p)]
  BY RowIs, PlaceIs, ConfFileAssumption DEF NumbersRight
<1> SUFFICES FormsAt(p, Of(e).fmt)
  OBVIOUS
<1> HIDE DEF p, c
<1>2. CASE p \in 1 .. 8
  <2>1. RowAt(c, p) = p
    BY <1>1, <1>2 DEF RowAt
  <2>2. Of(e) = Basic[p]
    BY <1>1, <1>2, <2>1, TabIs, ZenonT(60)
  <2>3. QED
    BY <1>2, <2>2, RowForms
<1>3. CASE p \in 9 .. 13
  <2> DEFINE i == p - 8
  <2>1. RowAt(c, p) = p /\ i \in 1 .. 5 /\ p = 8 + i
    BY <1>1, <1>3 DEF RowAt
  <2> HIDE DEF i
  <2>2. Of(e) = Bits8[i]
    <3>1. Of(e) = conf_type_tab[c][8 + i]
      BY <1>1, <2>1
    <3>2. QED
      BY <1>1, <2>1, <3>1, TabIs, ZenonT(60)
  <2>3. QED
    BY <2>1, <2>2, RowForms
<1>4. CASE p \in 14 .. 18
  <2> DEFINE i == p - 13
  <2>1. RowAt(c, p) = p /\ i \in 1 .. 5 /\ p = 13 + i
    BY <1>1, <1>4 DEF RowAt
  <2> HIDE DEF i
  <2>2. Of(e) = Bits16[i]
    <3>1. Of(e) = conf_type_tab[c][13 + i]
      BY <1>1, <2>1
    <3>2. QED
      BY <1>1, <2>1, <3>1, TabIs, ZenonT(60)
  <2>3. QED
    BY <2>1, <2>2, RowForms
<1>5. CASE p \in 19 .. 23 /\ c = "app"
  <2> DEFINE i == p - 18
  <2>1. RowAt(c, p) = p /\ i \in 1 .. 5 /\ p = 18 + i
    BY <1>1, <1>5 DEF RowAt
  <2> HIDE DEF i
  <2>2. Of(e) = Bits32[i]
    <3>1. Of(e) = conf_type_tab[c][18 + i]
      BY <1>1, <2>1
    <3>2. QED
      BY <1>1, <1>5, <2>1, <3>1, TabIs, ZenonT(60)
  <2>3. QED
    BY <2>1, <2>2, RowForms
<1>6. CASE p \in {19, 20} /\ c = "lib"
  <2>1. RowAt(c, p) = p - 16 /\ p - 16 \in 1 .. 8
    BY <1>1, <1>6 DEF RowAt
  <2>2. Of(e) = Basic[p - 16]
    BY <1>1, <1>6, <2>1, TabIs, ZenonT(60)
  <2>3. FormsAt(p - 16, Of(e).fmt)
    BY <2>1, <2>2, RowForms
  <2>4. QED
    BY <1>6, <2>3 DEF FormsAt
<1>7. CASE p \in 21 .. 23 /\ c = "lib"
  <2>1. RowAt(c, p) = 18 + (p - 20) /\ p - 20 \in 1 .. 3 /\ p - 20 + 2 \in 1 .. 5
        /\ p = 18 + (p - 20 + 2)
    BY <1>1, <1>7 DEF RowAt
  <2>2. Of(e) = Bits32[p - 20 + 2]
    BY <1>1, <1>7, <2>1, TabIs, ZenonT(60)
  <2>3. QED
    BY <2>1, <2>2, RowForms
<1>8. CASE p \in 24 .. 28
  <2>1. c = "lib" /\ RowAt(c, p) = 21 + (p - 23) /\ p - 23 \in 1 .. 5 /\ p = 23 + (p - 23)
    BY <1>1, <1>8 DEF RowAt
  <2>2. Of(e) = Bits64[p - 23]
    BY <1>1, <2>1, TabIs, ZenonT(60)
  <2>3. QED
    BY <2>1, <2>2, RowForms
<1>9. CASE p \in 29 .. 33
  <2>1. c = "lib" /\ RowAt(c, p) = 26 + (p - 28) /\ p - 28 \in 1 .. 5 /\ p = 28 + (p - 28)
    BY <1>1, <1>9 DEF RowAt
  <2>2. Of(e) = Other[p - 28]
    BY <1>1, <2>1, TabIs, ZenonT(60)
  <2>3. QED
    BY <2>1, <2>2, RowForms
<1>10. QED
  <2>1. \/ p \in 1 .. 8 \/ p \in 9 .. 13 \/ p \in 14 .. 18 \/ p \in 19 .. 23
        \/ p \in 24 .. 28 \/ p \in 29 .. 33
    BY <1>1
  <2>2. p \in 19 .. 23 => p \in {19, 20} \/ p \in 21 .. 23
    OBVIOUS
  <2>3. QED
    BY <1>1, <1>2, <1>3, <1>4, <1>5, <1>6, <1>7, <1>8, <1>9, <2>1, <2>2

LEMMA TypeForm ==
    ASSUME table \in Tables, NumbersRight, NEW e \in Known
    PROVE  /\ Of(e).fmt = "string" <=> table.type[e] = "STRING"
           /\ Of(e).fmt = "float" <=> table.type[e] = "FLOAT"
           /\ Of(e).fmt = "char" <=> table.type[e] = "CHAR"
           /\ Storable(e) => Of(e).fmt \in {"signed", "unsigned", "hex", "float",
                                            "string", "bool", "char"}
<1> DEFINE p == Place[table.type[e]]
           t == table.type[e]
           f == Of(e).fmt
<1>1. p \in 1 .. 33 /\ TypeNames[p] = t /\ FormsAt(p, f)
  BY RowIs, PlaceIs, FormIs
<1>2. (t = "STRING" <=> p = 6) /\ (t = "FLOAT" <=> p = 5) /\ (t = "CHAR" <=> p = 8)
  <2> HIDE DEF p, t, f
  <2>1. QED
    BY <1>1 DEF TypeNames
<1>3. Storable(e) => p \notin {1, 2, 12, 13, 17, 18, 22, 23, 27, 28, 29, 30, 31, 32, 33}
  <2>1. Storable(e) => t \notin {"VOID", "SECTION", "BIN8", "OCT8", "BIN16", "OCT16",
                                 "BIN32", "OCT32", "BIN64", "OCT64",
                                 "IPV4ADDR", "RGB", "RGBI", "CYMK", "RATIO"}
    BY DEF Storable
  <2> HIDE DEF p, t, f
  <2>2. QED
    BY <1>1, <2>1 DEF TypeNames
<1>4. /\ f = "string" <=> p = 6
      /\ f = "float" <=> p = 5
      /\ f = "char" <=> p = 8
      /\ p \notin {1, 2, 12, 13, 17, 18, 22, 23, 27, 28, 29, 30, 31, 32, 33} =>
           f \in {"signed", "unsigned", "hex", "float", "string", "bool", "char"}
  <2> HIDE DEF p, t, f
  <2>1. p \in {1, 2, 3, 4, 5, 6, 7, 8, 9, 10, 11, 12, 13, 14, 15, 16, 17, 18, 19, 20, 21,
               22, 23, 24, 25, 26, 27, 28, 29, 30, 31, 32, 33}
    BY <1>1
  <2>2. QED
    BY <1>1, <2>1 DEF FormsAt
<1>5. QED
  BY <1>2, <1>3, <1>4

\* Numbers, of any width.
LEMMA Wraps ==
    ASSUME NEW m \in Nat \ {0}, NEW v \in 0 .. m - 1
    PROVE  v % m = v /\ (v - m) % m = v
OBVIOUS

\* No line is empty, or more than one.
LEMMA OrderlyTidy ==
    ASSUME table \in Tables, IsConfig(saved), NumbersRight, Orderly
    PROVE  Tidy(saved)
<1> SUFFICES ASSUME NEW e \in Known
             PROVE  /\ Line(e, saved[e]) = <<Entry(e[2], Printed(Of(e), saved[e]))>>
                    /\ Printed(Of(e), saved[e]) # <<"empty">>
  BY DEF Tidy
<1>1. Of(e).fmt = "string" => ~Contains(saved[e], "newline")
  BY TypeForm DEF Orderly
<1>2. Line(e, saved[e]) = <<Entry(e[2], Printed(Of(e), saved[e]))>>
  BY <1>1 DEF Line
<1>3. Of(e).fmt = "char" => saved[e] # 0
  BY TypeForm DEF Orderly
<1>4. Printed(Of(e), saved[e])[1] # "empty"
  BY <1>3 DEF Printed
<1>5. QED
  BY <1>2, <1>4

LEMMA KeptBack ==
    ASSUME table \in Tables, IsConfig(saved), NumbersRight, Orderly,
           NEW e \in Kept, NEW old
    PROVE  Scanned(Of(e), old, Printed(Of(e), saved[e])) = {saved[e]}
<1> DEFINE h == Of(e)
           v == saved[e]
           m == Modulus[h.bits]
<1>1. e \in Known /\ Storable(e) /\ Survives(e, v)
  BY DEF Kept
<1>2. v \in Values(h) /\ m \in Nat \ {0, 1} /\ h.fmt \in Forms
  BY <1>1, OfIs DEF IsConfig
<1>3. /\ h.fmt \in {"signed", "unsigned", "hex", "float", "string", "bool", "char"}
      /\ h.fmt = "string" => ~Contains(v, "quote")
      /\ h.fmt = "float" => v % 10 = 0
      /\ h.fmt = "char" => v # 0
  BY <1>1, TypeForm DEF Survives, Orderly
<1> SUFFICES Scanned(h, old, Printed(h, v)) = {v}
  OBVIOUS
<1>4. ASSUME h.fmt \in {"signed", "unsigned", "hex"} PROVE v \in 0 .. m - 1
  BY <1>2, <1>4 DEF Values, AnyOf
<1> HIDE DEF h, v
<1>5. CASE h.fmt = "signed"
  <2>1. Printed(h, v) = <<"dec", v>> \/ Printed(h, v) = <<"dec", v - m>>
    BY <1>5 DEF Printed
  <2>2. v % m = v /\ (v - m) % m = v
    <3> HIDE DEF m
    <3>1. QED
      BY <1>2, <1>4, <1>5, Wraps
  <2>3. QED
    BY <1>5, <2>1, <2>2 DEF Scanned
<1>6. CASE h.fmt = "unsigned"
  <2>1. Printed(h, v) = <<"dec", v>>
    BY <1>6 DEF Printed
  <2>2. v % m = v
    <3> HIDE DEF m
    <3>1. QED
      BY <1>2, <1>4, <1>6, Wraps
  <2>3. QED
    BY <1>6, <2>1, <2>2 DEF Scanned
<1>7. CASE h.fmt = "hex"
  <2>1. Printed(h, v) = <<"hex", v>>
    BY <1>7 DEF Printed
  <2>2. v % m = v
    <3> HIDE DEF m
    <3>1. QED
      BY <1>2, <1>4, <1>7, Wraps
  <2>3. QED
    BY <1>7, <2>1, <2>2 DEF Scanned
<1>8. CASE h.fmt = "float"
  <2>1. v \in Nat
    BY <1>2, <1>8 DEF Values
  <2>2. 10 * ((v + 5) \div 10) = v
    BY <1>3, <1>8, <2>1
  <2>3. Printed(h, v) = <<"fixed", (v + 5) \div 10>>
    BY <1>8 DEF Printed
  <2>4. QED
    BY <1>8, <2>2, <2>3 DEF Scanned
<1>9. CASE h.fmt = "bool"
  <2>1. Printed(h, v) = <<"word", v>>
    BY <1>9 DEF Printed
  <2>2. QED
    BY <1>9, <2>1 DEF Scanned
<1>10. CASE h.fmt = "char"
  <2>1. Printed(h, v) = <<"raw", v>>
    BY <1>3, <1>10 DEF Printed
  <2>2. QED
    BY <1>10, <2>1 DEF Scanned
<1>11. CASE h.fmt = "string"
  <2>1. v \in Seq({"text", "quote", "newline"}) /\ Len(v) <= StrLen
    BY <1>2, <1>11 DEF Values, String
  <2>2. UpTo(v, "quote") = v
    BY <1>3, <1>11 DEF UpTo
  <2>3. Fitted(v) = v
    <3>1. Min({Len(v), StrLen}) = Len(v)
      <4>1. Len(v) \in Nat /\ StrLen \in Nat
        BY <2>1, ConfFileAssumption
      <4>2. Min({Len(v), StrLen}) = IF Len(v) <= StrLen THEN Len(v) ELSE StrLen
        BY <4>1, MinOf
      <4>3. QED
        BY <2>1, <4>2
    <3>2. SubSeq(v, 1, Len(v)) = v
      BY <2>1, SubSeqProperties
    <3>3. QED
      BY <3>1, <3>2 DEF Fitted
  <2>4. Printed(h, v) = <<"quoted", v>>
    BY <1>11 DEF Printed
  <2>5. QED
    BY <1>11, <2>2, <2>3, <2>4 DEF Scanned
<1>12. QED
  BY <1>3, <1>5, <1>6, <1>7, <1>8, <1>9, <1>10, <1>11

-----------------------------------------------------------------------------
(* What a load restores.                                                   *)

\* Where a load has come: before line p the values are those of the file.
Restored(w, p) ==
    \A k \in 1 .. Len(w), e \in Kept :
        NamesIn(w, k, e) /\ k < p => mem[e] = saved[e]

\* Every saved string that fills its array has its end behind it.
Ended ==
    \A t \in DOMAIN Behind :
        Clobbers(t, saved[t]) =>
            saved[Behind[t]] = FirstByteZero(Behind[t], saved[Behind[t]])

FileInv ==
    LET w == write_section(saved)
    IN /\ pc = "saving" => file = <<>> /\ ~cut /\ state = "part" /\ saved = mem
       /\ state \in {"part", "whole"} /\ ~cut =>
            Len(file) <= Len(w) /\ \A i \in 1 .. Len(file) : file[i] = w[i]
       /\ state = "whole" => ~cut /\ Len(file) = Len(w)
       /\ state \in {"part", "whole"} /\ pc # "overread" => Ended
Restores == Loads /\ state \in {"part", "whole"} /\ ~cut /\ Orderly
LoadInv ==
    Restores => /\ Restored(write_section(saved), pos)
                /\ pc = "loaded" => pos = Len(file) + 1
                /\ pc = "failed" => file = <<>>
RoundInv == LocalInv /\ FileInv /\ LoadInv

\* What is written depends on the types and on the values.
LEMMA SameWritten ==
    ASSUME table' = table, NEW m
    PROVE  write_section(m)' = write_section(m)
BY DEF write_section, Body, Line, Of, CONF_TYPE

LEMMA WrittenLen ==
    ASSUME TypeInv
    PROVE  /\ write_section(mem) \in Seq(Lines) /\ Len(write_section(mem)) \in Nat
           /\ write_section(saved) \in Seq(Lines) /\ Len(write_section(saved)) \in Nat
<1>1. table \in Tables /\ IsConfig(mem) /\ IsConfig(saved)
  BY TypeInvIs
<1>2. write_section(mem) \in Seq(Lines) /\ write_section(saved) \in Seq(Lines)
  BY <1>1, WrittenType DEF IsConfig
<1>3. QED
  BY <1>2

\* Two files with the same first lines are in the same section there.
LEMMA SectionSame ==
    ASSUME NEW v, NEW w, NEW i \in Nat, \A j \in 1 .. i - 1 : v[j] = w[j]
    PROVE  SectionAt(v, i) = SectionAt(w, i)
<1> DEFINE h == {j \in 1 .. i - 1 : v[j].kind = "section"}
           g == {j \in 1 .. i - 1 : w[j].kind = "section"}
<1>1. h = g /\ h \in SUBSET (1 .. i - 1)
  OBVIOUS
<1>2. SectionAt(v, i) = (IF h = {} THEN <<>> ELSE v[Max(h)].name)
      /\ SectionAt(w, i) = (IF g = {} THEN <<>> ELSE w[Max(g)].name)
  BY DEF SectionAt
<1> HIDE DEF h, g
<1>3. CASE h = {}
  BY <1>1, <1>2, <1>3
<1>4. CASE h # {}
  <2>1. i - 1 \in Nat
    <3>1. PICK j \in h : j \in 1 .. i - 1
      BY <1>1, <1>4
    <3>2. QED
      BY <3>1
  <2>2. Max(h) \in 1 .. i - 1
    BY <1>1, <1>4, <2>1, MaxIs
  <2>3. QED
    BY <1>1, <1>2, <1>4, <2>2
<1>5. QED
  BY <1>3, <1>4

\* The lines of a written file, as the parser takes them.
LEMMA LineKind ==
    ASSUME NEW m, NEW off, Laid(m, off), NEW k \in 1 .. Len(write_section(m))
    PROVE  /\ write_section(m)[k].kind \in {"blank", "section", "entry"}
           /\ write_section(m)[k].kind = "section" =>
                write_section(m)[k].name \in ToSet(Sections)
<1>1. PICK i \in 1 .. Len(Sections) :
        \/ write_section(m)[k] = Blank
        \/ write_section(m)[k] = Header(Sections[i])
        \/ \E j \in 1 .. Len(Fields[Sections[i]]) : k = First(off, i) + j
  BY LineIs
<1>2. CASE write_section(m)[k] = Blank
  BY <1>2 DEF Blank
<1>3. CASE write_section(m)[k] = Header(Sections[i])
  BY <1>3, SectionIs DEF Header
<1>4. ASSUME NEW j \in 1 .. Len(Fields[Sections[i]]), k = First(off, i) + j
      PROVE  write_section(m)[k].kind = "entry"
  BY <1>4, EntryIs
<1>5. QED
  BY <1>1, <1>2, <1>3, <1>4

LEMMA SectionKnown ==
    ASSUME NEW m, NEW off, Laid(m, off), NEW k \in 1 .. Len(write_section(m))
    PROVE  SectionAt(write_section(m), k) \in ToSet(Sections)
<1> DEFINE w == write_section(m)
           h == {j \in 1 .. k - 1 : w[j].kind = "section"}
<1>1. SectionAt(w, k) = IF h = {} THEN <<>> ELSE w[Max(h)].name
  BY DEF SectionAt
<1>2. k - 1 \in Nat /\ h \in SUBSET (1 .. k - 1) /\ \A j \in h : w[j].kind = "section"
  OBVIOUS
<1>3. \A j \in 1 .. k - 1 : j \in 1 .. Len(w)
  <2>1. Len(w) \in Nat
    <3>1. 1 \in 1 .. Len(Sections)
      BY SectionIs
    <3>2. QED
      BY <3>1, LaidIs
  <2> HIDE DEF w
  <2>2. QED
    BY <2>1 DEF w
<1> HIDE DEF h
<1>4. CASE h = {}
  BY <1>1, <1>4, SectionIs
<1>5. CASE h # {}
  <2>1. Max(h) \in h
    BY <1>2, <1>5, MaxIs
  <2>2. Max(h) \in 1 .. Len(w) /\ w[Max(h)].kind = "section"
    BY <1>2, <1>3, <2>1
  <2>3. w[Max(h)].name \in ToSet(Sections)
    BY <2>2, LineKind
  <2>4. QED
    BY <1>1, <1>5, <2>3
<1>6. QED
  BY <1>4, <1>5

\* The saved configuration is laid out, one line for each variable.
LEMMA SavedLaid ==
    ASSUME TypeInv, NumbersRight, Orderly
    PROVE  Tidy(saved) /\ \E off : Laid(saved, off)
BY TypeInvIs, OrderlyTidy, LaidOut

\* What the lines of the file hold.
LEMMA FileHolds ==
    ASSUME LocalInv, FileInv, NumbersRight, Restores
    PROVE  /\ NoEmptyValue
           /\ \A i \in 1 .. Len(file) : i \in 1 .. Len(write_section(saved))
           /\ \A k \in 1 .. Len(write_section(saved)) :
                write_section(saved)[k].kind = "entry" =>
                  LET e == <<SectionAt(write_section(saved), k), write_section(saved)[k].name>>
                  IN /\ e \in Known
                     /\ write_section(saved)[k].text = Printed(Of(e), saved[e])
                     /\ write_section(saved)[k].text # <<"empty">>
<1> DEFINE w == write_section(saved)
<1>1. TypeInv /\ Orderly
  BY DEF LocalInv, Restores
<1>2. /\ Len(file) <= Len(w) /\ \A i \in 1 .. Len(file) : file[i] = w[i]
      /\ Len(file) \in Nat /\ Len(w) \in Nat
  BY <1>1, FileLen, WrittenLen DEF FileInv, Restores
<1>3. PICK off : Laid(saved, off)
  BY <1>1, SavedLaid
<1>4. Tidy(saved)
  BY <1>1, SavedLaid
<1>5. ASSUME NEW k \in 1 .. Len(w), w[k].kind = "entry"
      PROVE  LET e == <<SectionAt(w, k), w[k].name>>
             IN e \in Known /\ w[k].text = Printed(Of(e), saved[e]) /\ w[k].text # <<"empty">>
  <2> DEFINE e == <<SectionAt(w, k), w[k].name>>
  <2>1. e \in Known /\ w[k].text = Printed(Of(e), saved[e])
    BY <1>3, <1>5, NamedValue
  <2>2. Printed(Of(e), saved[e]) # <<"empty">>
    BY <1>4, <2>1 DEF Tidy
  <2>3. QED
    BY <2>1, <2>2
<1>6. \A i \in 1 .. Len(file) : i \in 1 .. Len(w)
  <2> HIDE DEF w
  <2>1. QED
    BY <1>2
<1>7. NoEmptyValue
  <2>1. ASSUME NEW i \in 1 .. Len(file), file[i].kind = "entry"
        PROVE  file[i].text # <<"empty">>
    <3>1. i \in 1 .. Len(w) /\ file[i] = w[i]
      BY <1>2, <1>6
    <3>2. QED
      BY <1>5, <2>1, <3>1
  <2>2. QED
    BY <2>1 DEF NoEmptyValue
<1>8. QED
  BY <1>5, <1>6, <1>7

\* A string that is read back is no longer than the one that was printed.
LEMMA FillsOnce ==
    ASSUME TypeInv, NEW t \in Known, NEW old, NEW e,
           NEW v \in Scanned(Of(t), old, Printed(Of(t), saved[t])), FillsUpTo(t, v, e)
    PROVE  FillsUpTo(t, saved[t], e)
<1>1. Of(t).fmt = "string" /\ Len(v) >= StrSize /\ t \in DOMAIN Behind /\ Behind[t] = e
  BY DEF FillsUpTo, Clobbers
<1>2. saved[t] \in String
  BY <1>1, TypeInvIs DEF IsConfig, Values
<1> DEFINE u == UpTo(saved[t], "quote")
<1>3. v = Fitted(u)
  BY <1>1 DEF Printed, Scanned
<1>4. u \in String /\ Len(u) \in Nat /\ Len(u) <= Len(saved[t])
  BY <1>2, UpToType, UpToLen
<1> HIDE DEF u
<1>5. Len(v) \in Nat /\ Len(v) <= Len(u) /\ Len(saved[t]) \in Nat
  BY <1>2, <1>3, <1>4, FittedLen DEF String
<1>6. Len(saved[t]) >= StrSize
  BY <1>1, <1>4, <1>5, SizesAre
<1>7. QED
  BY <1>1, <1>6 DEF FillsUpTo, Clobbers

\* The line that the parser is at.
LEMMA AtLine ==
    ASSUME LocalInv, FileInv, NumbersRight, Restores, pos <= Len(file)
    PROVE  /\ pos \in 1 .. Len(write_section(saved))
           /\ file[pos] = write_section(saved)[pos]
           /\ sec = SectionAt(write_section(saved), pos) /\ sec # Skip
           /\ file[pos].kind \in {"blank", "section", "entry"}
           /\ file[pos].kind = "entry" =>
                /\ Here \in Known /\ file[pos].text = Printed(Of(Here), saved[Here])
                /\ file[pos].text # <<"empty">>
<1> DEFINE w == write_section(saved)
<1>1. TypeInv /\ SectionInv /\ Orderly /\ Loads
  BY DEF LocalInv, Restores
<1>2. /\ Len(file) <= Len(w) /\ \A i \in 1 .. Len(file) : file[i] = w[i]
      /\ Len(file) \in Nat /\ Len(w) \in Nat /\ pos \in Nat /\ pos >= 1
  BY <1>1, FileLen, WrittenLen DEF FileInv, Restores
<1>3. PICK off : Laid(saved, off)
  BY <1>1, SavedLaid
<1>4. Tidy(saved)
  BY <1>1, SavedLaid
<1>5. /\ NoEmptyValue
      /\ \A i \in 1 .. Len(file) : i \in 1 .. Len(w)
      /\ \A k \in 1 .. Len(w) : w[k].kind = "entry" =>
           LET e == <<SectionAt(w, k), w[k].name>>
           IN e \in Known /\ w[k].text = Printed(Of(e), saved[e]) /\ w[k].text # <<"empty">>
  BY FileHolds
<1>6. \A i \in 1 .. Len(file) : i \in 1 .. Len(w)
  BY <1>5
<1>7. NoEmptyValue
  BY <1>5
<1>8. pos \in 1 .. Len(file) /\ pos \in 1 .. Len(w) /\ file[pos] = w[pos]
  BY <1>2, <1>6
<1>9. SectionAt(file, pos) = SectionAt(w, pos)
  <2>1. \A j \in 1 .. pos - 1 : file[j] = w[j]
    BY <1>2
  <2> HIDE DEF w
  <2>2. QED
    BY <1>2, <2>1, SectionSame
<1>10. SectionAt(w, pos) \in ToSet(Sections)
  BY <1>3, <1>8, SectionKnown
<1>11. sec = SectionAt(w, pos) /\ sec # Skip
  <2>1. sec = section_lookup(SectionAt(w, pos))
    BY <1>1, <1>7, <1>9 DEF SectionInv
  <2>2. QED
    BY <1>10, <2>1, SectionIs DEF section_lookup
<1>12. w[pos].kind \in {"blank", "section", "entry"}
  BY <1>3, <1>8, LineKind
<1>13. ASSUME w[pos].kind = "entry"
       PROVE  Here \in Known /\ w[pos].text = Printed(Of(Here), saved[Here])
              /\ w[pos].text # <<"empty">>
  <2>1. Here = <<SectionAt(w, pos), w[pos].name>>
    BY <1>8, <1>11 DEF Here
  <2>2. QED
    BY <1>5, <1>8, <1>13, <2>1
<1> HIDE DEF w
<1>14. QED
  BY <1>8, <1>11, <1>12, <1>13 DEF w

LEMMA RoundInit == ASSUME Init PROVE RoundInv
<1>1. LocalInv /\ pc = "idle" /\ state = "old"
  BY LocalInit DEF Init
<1>2. QED
  BY <1>1 DEF RoundInv, FileInv, LoadInv, Restores, Loads

LEMMA SameEnded ==
    ASSUME UNCHANGED <<table, saved>>
    PROVE  Ended' = Ended
<1>1. \A e : Of(e)' = Of(e)
  BY SameRows
<1>2. \A t : Clobbers(t, saved[t])' = Clobbers(t, saved[t])
  BY <1>1 DEF Clobbers
<1>3. \A t : FirstByteZero(Behind[t], saved[Behind[t]])'
              = FirstByteZero(Behind[t], saved[Behind[t]])
  BY <1>1 DEF FirstByteZero
<1>4. QED
  BY <1>2, <1>3 DEF Ended

\* A save begins only when every string has its end.
LEMMA BeginEnded ==
    ASSUME SaveBegin
    PROVE  Ended'
<1>1. saved' = mem /\ table' = table
  BY DEF SaveBegin, Opened
<1>2. \A e : Of(e)' = Of(e)
  BY <1>1, SameRows
<1>3. ASSUME NEW t \in DOMAIN Behind, Clobbers(t, mem[t])
      PROVE  mem[Behind[t]] = FirstByteZero(Behind[t], mem[Behind[t]])
  <2>1. t \in Known
    BY ConfFileAssumption
  <2>2. QED
    BY <1>3, <2>1 DEF SaveBegin, Unended
<1>4. \A t : Clobbers(t, saved[t])' = Clobbers(t, mem[t])
  BY <1>1, <1>2 DEF Clobbers
<1>5. \A t : FirstByteZero(Behind[t], saved[Behind[t]])'
              = FirstByteZero(Behind[t], mem[Behind[t]])
  BY <1>1, <1>2 DEF FirstByteZero
<1>6. QED
  BY <1>1, <1>3, <1>4, <1>5 DEF Ended

LEMMA FileSame ==
    ASSUME FileInv, UNCHANGED <<table, file, cut, state, saved>>,
           pc' = "saving" => pc = "saving" /\ mem' = mem,
           pc' # "overread" => pc # "overread"
    PROVE  FileInv'
<1>1. write_section(saved)' = write_section(saved) /\ Ended' = Ended
  BY SameWritten, SameEnded
<1>2. QED
  BY <1>1 DEF FileInv

\* The file is what was written, up to where a crash cut it.
LEMMA FileStep == ASSUME RoundInv, [Next]_vars PROVE FileInv'
<1>1. TypeInv /\ FileInv /\ Len(write_section(mem)) \in Nat
  BY WrittenLen DEF RoundInv, LocalInv
<1>2. CASE SaveBegin
  <2>1. file' = <<>> /\ cut' = FALSE /\ state' = "part" /\ saved' = mem /\ mem' = mem
        /\ table' = table
    BY <1>2 DEF SaveBegin, Opened
  <2>2. write_section(saved)' = write_section(mem)
    BY <2>1, SameWritten
  <2>3. Len(file') <= Len(write_section(mem)) /\ \A i \in 1 .. Len(file') : FALSE
    <3>1. Len(file') = 0
      BY <2>1, EmptyFile
    <3>2. QED
      BY <1>1, <3>1
  <2>4. Ended'
    BY <1>2, BeginEnded
  <2>5. QED
    BY <2>1, <2>2, <2>3, <2>4 DEF FileInv
<1>3. CASE SaveEnd
  <2>1. saved' = saved /\ saved = mem /\ ~cut' /\ file' = write_section(mem) /\ table' = table
        /\ pc' = "idle" /\ Ended
    BY <1>1, <1>3 DEF SaveEnd, FileInv
  <2>2. write_section(saved)' = write_section(mem)
    BY <2>1, SameWritten
  <2>3. Ended'
    BY <2>1, SameEnded
  <2>4. QED
    BY <1>1, <2>1, <2>2, <2>3 DEF FileInv
<1>4. CASE CrashSaving
  <2>1. saved' = saved /\ saved = mem /\ table' = table /\ state' = "part" /\ pc' = "idle"
        /\ Ended
    BY <1>1, <1>4 DEF CrashSaving, Restart, FileInv
  <2>2. write_section(saved)' = write_section(mem)
    BY <2>1, SameWritten
  <2> DEFINE w == write_section(mem)
  <2>3. w \in Seq(Lines)
    BY <1>1, WrittenLen
  <2>4. PICK n \in 0 .. Len(w) : (file' = SubSeq(w, 1, n) /\ cut' = FALSE) \/ cut' = TRUE
    BY <1>4 DEF CrashSaving
  <2> HIDE DEF w
  <2>8. Ended'
    BY <2>1, SameEnded
  <2>5. CASE cut' = TRUE
    BY <2>1, <2>5, <2>8 DEF FileInv
  <2>6. CASE file' = SubSeq(w, 1, n)
    <3>1. Len(file') = n /\ \A i \in 1 .. n : file'[i] = w[i]
      BY <2>3, <2>6, SubSeqProperties
    <3>2. Len(file') <= Len(w)
      BY <3>1
    <3>3. QED
      BY <2>1, <2>2, <2>8, <3>1, <3>2 DEF FileInv, w
  <2>7. QED
    BY <2>4, <2>5, <2>6
<1>5. CASE Edit
  <2>1. state' = "edited" /\ pc' # "saving"
    BY <1>5 DEF Edit
  <2>2. QED
    BY <2>1 DEF FileInv
<1>6. CASE conf_parse
  <2>1. UNCHANGED <<table, file, cut, state, saved>>
    BY <1>6, ParseKeeps
  <2>2. pc' # "saving" /\ pc # "overread"
    BY <1>6, ParseKeeps DEF conf_parse, SkipLine, TakeHeader, Malformed, UnknownEntry,
                SectionAsEntry, TakeEntry, LoadEnd, Parsed
  <2>3. QED
    BY <1>1, <2>1, <2>2, FileSame
<1>7. CASE \/ \E e \in Known : Modify(e) \/ conf_entry_set(e)
           \/ CrashLoading \/ LoadBegin \/ Return
  <2>1. UNCHANGED <<table, file, cut, state, saved>> /\ pc' # "saving"
        /\ pc # "overread"
    BY <1>7 DEF Modify, conf_entry_set, Changing, CrashLoading, Restart, LoadBegin, Return
  <2>2. QED
    BY <1>1, <2>1, FileSame
<1>8. CASE UNCHANGED vars
  BY <1>1, <1>8, FileSame DEF vars
<1>9. CASE SaveOverread
  <2>1. /\ file' = <<>> /\ cut' = FALSE /\ state' = "part" /\ saved' = mem /\ mem' = mem
        /\ table' = table /\ pc' = "overread"
    BY <1>9 DEF SaveOverread, Opened
  <2>2. write_section(saved)' = write_section(mem)
    BY <2>1, SameWritten
  <2>3. Len(file') = 0
    BY <2>1, EmptyFile
  <2>4. QED
    BY <1>1, <2>1, <2>2, <2>3 DEF FileInv
<1>10. QED
  BY <1>2, <1>3, <1>4, <1>5, <1>6, <1>7, <1>8, <1>9 DEF Next

\* One line further: an entry restores the variable that it names.
LEMMA NextLine ==
    ASSUME NEW w, Restored(w, pos), pos \in Nat, UNCHANGED <<mem, saved>>,
           w[pos].kind # "entry"
    PROVE  \A k \in 1 .. Len(w), e \in Kept :
             NamesIn(w, k, e) /\ k < pos + 1 => mem'[e] = saved[e]
<1> SUFFICES ASSUME NEW k \in 1 .. Len(w), NEW e \in Kept, NamesIn(w, k, e), k < pos + 1
             PROVE  mem'[e] = saved[e]
  OBVIOUS
<1>1. k # pos
  BY DEF NamesIn
<1>2. k < pos
  BY <1>1
<1>3. QED
  BY <1>2 DEF Restored

LEMMA EntryLine ==
    ASSUME LocalInv, FileInv, NumbersRight, Restores,
           Restored(write_section(saved), pos), TakeEntry, pc' # "wild"
    PROVE  /\ pos' = pos + 1 /\ pc' = "loading"
           /\ \A k \in 1 .. Len(write_section(saved)), e \in Kept :
                NamesIn(write_section(saved), k, e) /\ k < pos + 1 =>
                  mem'[e] = saved[e]
<1> DEFINE w == write_section(saved)
<1>1. TypeInv /\ Orderly /\ Ended /\ table \in Tables /\ IsConfig(mem)
  BY TypeInvIs DEF LocalInv, Restores, Loads, FileInv
<1>2. pos <= Len(file) /\ file[pos].kind = "entry" /\ pos \in Nat
  BY <1>1, FileLen DEF TakeEntry, Reading
<1>3. /\ pos \in 1 .. Len(w) /\ file[pos] = w[pos] /\ sec = SectionAt(w, pos)
      /\ Here \in Known /\ file[pos].text = Printed(Of(Here), saved[Here])
      /\ file[pos].text # <<"empty">>
  BY <1>2, AtLine
<1>4. /\ pos' = pos + 1 /\ pc' = "loading" /\ Value = file[pos].text
      /\ Assign(Here, Value)
  BY <1>1, <1>3, TakeIs
<1>5. PICK v \in Scanned(Of(Here), mem[Here], Printed(Of(Here), saved[Here])) :
        /\ mem'[Here] = v
        /\ \A x \in Known \ {Here} :
             \/ mem'[x] = mem[x]
             \/ FillsUpTo(Here, v, x) /\ mem'[x] = FirstByteZero(x, mem[x])
  BY <1>1, <1>3, <1>4, AssignIs
<1>6. PICK off : Laid(saved, off)
  BY <1>1, SavedLaid
<1>7. ASSUME NEW k \in 1 .. Len(w), NEW e \in Kept, NamesIn(w, k, e), k < pos + 1
      PROVE  mem'[e] = saved[e]
  <2>1. e \in Known
    BY DEF Kept
  <2>2. CASE e = Here
    <3>1. Scanned(Of(e), mem[e], Printed(Of(e), saved[e])) = {saved[e]}
      BY <1>1, TypeInvIs, KeptBack
    <3>2. QED
      BY <1>5, <2>2, <3>1
  <2>3. CASE e # Here
    <3>1. k # pos
      <4>1. SUFFICES ASSUME k = pos PROVE e = Here
        BY <2>3
      <4>2. e[1] = SectionAt(w, pos) /\ e[2] = w[pos].name
        BY <1>7, <4>1 DEF NamesIn
      <4>3. e = <<e[1], e[2]>>
        BY <2>1 DEF Known
      <4>4. QED
        BY <1>3, <4>2, <4>3 DEF Here
    <3>2. k < pos
      BY <1>2, <1>7, <3>1
    <3>3. mem[e] = saved[e]
      BY <1>7, <3>2 DEF Restored
    <3>4. CASE FillsUpTo(Here, v, e) /\ mem'[e] = FirstByteZero(e, mem[e])
      <4>1. FillsUpTo(Here, saved[Here], e)
        BY <1>1, <1>3, <1>5, <3>4, FillsOnce
      <4>2. saved[e] = FirstByteZero(e, saved[e])
        BY <1>1, <4>1 DEF Ended, FillsUpTo, Clobbers
      <4>3. QED
        BY <3>3, <3>4, <4>2
    <3>5. QED
      BY <1>5, <2>1, <2>3, <3>3, <3>4
  <2>4. QED
    BY <2>2, <2>3
<1>8. QED
  BY <1>4, <1>7

LEMMA ParseStep ==
    ASSUME LocalInv, FileInv, LoadInv, NumbersRight, Restores,
           conf_parse, pc' # "wild"
    PROVE  /\ \A k \in 1 .. Len(write_section(saved)), e \in Kept :
                NamesIn(write_section(saved), k, e) /\ k < pos' =>
                  mem'[e] = saved[e]
           /\ pc' = "loaded" => pos' = Len(file) + 1
           /\ pc' # "failed"
<1> DEFINE w == write_section(saved)
           done(p) == \A k \in 1 .. Len(w), e \in Kept :
                        NamesIn(w, k, e) /\ k < p => mem'[e] = saved[e]
<1>1. /\ TypeInv /\ Restored(w, pos) /\ UNCHANGED saved
      /\ pos \in Nat /\ pos \in 1 .. Len(file) + 1 /\ Len(file) \in Nat
  BY FileLen, ParseKeeps, TypeInvIs DEF LocalInv, LoadInv, RestOK
<1> SUFFICES done(pos') /\ (pc' = "loaded" => pos' = Len(file) + 1) /\ pc' # "failed"
  OBVIOUS
<1>2. pos <= Len(file) =>
        /\ file[pos] = w[pos] /\ sec # Skip
        /\ file[pos].kind \in {"blank", "section", "entry"}
        /\ file[pos].kind = "entry" => Here \in Known
  BY AtLine
<1> HIDE DEF w
<1>3. ASSUME pos <= Len(file), file[pos].kind # "entry", UNCHANGED mem PROVE done(pos + 1)
  BY <1>1, <1>2, <1>3, NextLine
<1>4. CASE SkipLine
  <2>1. /\ pos <= Len(file) /\ pc' = "loading" /\ pos' = pos + 1 /\ UNCHANGED mem
        /\ file[pos].kind \in {"blank", "comment"} \/ sec = Skip
    BY <1>4 DEF SkipLine, Reading, Parsed
  <2>2. file[pos].kind # "entry"
    BY <1>2, <2>1
  <2> HIDE DEF done
  <2>3. QED
    BY <1>3, <2>1, <2>2
<1>5. CASE TakeHeader
  <2>1. ~IsCut
    BY DEF IsCut, Restores
  <2>2. pos <= Len(file) /\ file[pos].kind = "section" /\ UNCHANGED mem
        /\ pc' = "loading" /\ pos' = pos + 1
    BY <1>5, <2>1 DEF TakeHeader, Reading, Parsed
  <2> HIDE DEF done
  <2>3. QED
    BY <1>3, <2>2
<1>6. CASE Malformed
  BY <1>2, <1>6 DEF Malformed, Reading
<1>7. CASE UnknownEntry \/ SectionAsEntry
  BY <1>2, <1>7 DEF UnknownEntry, SectionAsEntry, Reading
<1>8. CASE TakeEntry
  <2>1. pos' = pos + 1 /\ pc' = "loading" /\ done(pos + 1)
    BY <1>1, <1>8, EntryLine DEF w
  <2> HIDE DEF done
  <2>2. QED
    BY <2>1
<1>9. CASE LoadEnd
  <2>1. pos > Len(file) /\ pc' = "loaded" /\ pos' = pos /\ UNCHANGED mem
    BY <1>1, <1>9 DEF LoadEnd, Parsed
  <2>2. pos' = Len(file) + 1
    BY <1>1, <2>1
  <2>3. done(pos')
    BY <1>1, <2>1 DEF Restored
  <2> HIDE DEF done
  <2>4. QED
    BY <2>1, <2>2, <2>3
<1>10. QED
  BY <1>4, <1>5, <1>6, <1>7, <1>8, <1>9 DEF conf_parse

LEMMA LoadStep ==
    ASSUME NumbersRight, RoundInv, [Next]_vars
    PROVE  LoadInv'
<1>1. TypeInv /\ LocalInv /\ FileInv /\ LoadInv
  BY DEF RoundInv, LocalInv
<1>2. ASSUME UNCHANGED <<table, saved>>
      PROVE  Kept' = Kept /\ Orderly' = Orderly
             /\ write_section(saved)' = write_section(saved)
  BY <1>2, SameWritten DEF Kept, Orderly, Storable, Survives
<1>3. CASE pc' \notin {"loading", "loaded", "failed"}
  BY <1>3 DEF LoadInv, Restores, Loads
<1>4. CASE LoadBegin
  <2>1. /\ UNCHANGED <<table, saved, file, mem>> /\ before' = mem /\ pos' = 1
        /\ pc' = "failed" => file = <<>>
        /\ pc' # "loaded"
    BY <1>4 DEF LoadBegin
  <2>2. ASSUME NEW k \in 1 .. Len(write_section(saved)) PROVE ~(k < 1)
    OBVIOUS
  <2>3. Restored(write_section(saved), pos)'
    BY <1>2, <2>1, <2>2 DEF Restored
  <2>4. QED
    BY <2>1, <2>3 DEF LoadInv
<1>5. CASE conf_parse /\ pc' # "wild"
  <2>1. UNCHANGED <<table, file, cut, state, saved, before>> /\ pc = "loading"
    BY <1>5, ParseKeeps
  <2>2. Restores' => Restores
    BY <1>2, <2>1 DEF Restores, Loads
  <2>3. SUFFICES ASSUME Restores
                 PROVE  /\ Restored(write_section(saved), pos)'
                        /\ (pc = "loaded" => pos = Len(file) + 1)'
                        /\ (pc = "failed" => file = <<>>)'
    BY <2>2 DEF LoadInv
  <2>4. /\ \A k \in 1 .. Len(write_section(saved)), e \in Kept :
                NamesIn(write_section(saved), k, e) /\ k < pos' =>
                  mem'[e] = saved[e]
        /\ pc' = "loaded" => pos' = Len(file) + 1
        /\ pc' # "failed"
    BY <1>1, <1>5, <2>3, ParseStep
  <2>5. Restored(write_section(saved), pos)'
    BY <1>2, <2>1, <2>4 DEF Restored
  <2>6. QED
    BY <2>1, <2>4, <2>5
<1>6. CASE UNCHANGED vars
  <2>1. UNCHANGED <<table, mem, file, cut, state, pc, pos, saved, before>>
    BY <1>6 DEF vars
  <2>2. Restored(write_section(saved), pos)' = Restored(write_section(saved), pos)
    BY <1>2, <2>1 DEF Restored
  <2>3. Restores' = Restores
    BY <1>2, <2>1 DEF Restores, Loads
  <2>4. QED
    BY <1>1, <2>1, <2>2, <2>3 DEF LoadInv
<1>7. [Next]_vars => \/ UNCHANGED vars \/ pc' \in {"idle", "saving", "overread"}
                     \/ LoadBegin \/ conf_parse
  BY DEF Next, Modify, conf_entry_set, Changing, SaveBegin, SaveOverread, SaveEnd,
         CrashSaving, CrashLoading, Restart, Edit, Return
<1>8. QED
  BY <1>3, <1>4, <1>5, <1>6, <1>7

LEMMA RoundStep ==
    ASSUME NumbersRight, RoundInv, [Next]_vars
    PROVE  RoundInv'
BY LocalStep, FileStep, LoadStep DEF RoundInv

LEMMA RoundTrips == ASSUME NumbersRight, RoundInv PROVE RoundTrip
<1> DEFINE w == write_section(saved)
<1>1. SUFFICES ASSUME pc \in {"loaded", "failed"}, state = "whole", Orderly
               PROVE  pc = "loaded" /\ \A e \in Kept : mem[e] = saved[e]
  BY DEF RoundTrip
<1>2. TypeInv /\ FileInv /\ LoadInv
  BY DEF RoundInv, LocalInv
<1>3. ~cut /\ Len(file) = Len(w)
  BY <1>1, <1>2 DEF FileInv
<1>4. Restores
  BY <1>1, <1>3 DEF Restores, Loads
<1>5. /\ Restored(w, pos) /\ (pc = "loaded" => pos = Len(file) + 1)
      /\ (pc = "failed" => file = <<>>)
  BY <1>2, <1>4 DEF LoadInv
<1>6. PICK off : Laid(saved, off)
  BY <1>1, <1>2, SavedLaid
<1>7. \A e \in Known : \E k \in 1 .. Len(w) : NamesIn(w, k, e)
  BY <1>6, NamedSomewhere
<1>8. Len(w) \in Nat
  BY <1>2, WrittenLen
<1> HIDE DEF w
<1>9. pc = "loaded"
  <2>1. SUFFICES ASSUME file = <<>> PROVE FALSE
    BY <1>1, <1>5
  <2>2. Len(w) = 0
    BY <1>3, <2>1, EmptyFile
  <2>3. PICK e \in Known : TRUE
    BY ConfFileAssumption
  <2>4. PICK k \in 1 .. Len(w) : NamesIn(w, k, e)
    BY <1>7, <2>3
  <2>5. QED
    BY <2>2, <2>4
<1>10. ASSUME NEW e \in Kept PROVE mem[e] = saved[e]
  <2>1. PICK k \in 1 .. Len(w) : NamesIn(w, k, e)
    BY <1>7 DEF Kept
  <2>2. k < pos
    BY <1>3, <1>5, <1>8, <1>9
  <2>3. QED
    BY <1>5, <2>1, <2>2 DEF Restored
<1>11. QED
  BY <1>9, <1>10

\* The lines that the parser has taken, as they were written.
LEMMA NamesWritten ==
    ASSUME LocalInv, FileInv, NumbersRight, Restores,
           NEW l \in 1 .. pos - 1, NEW e, Names(l, e)
    PROVE  /\ l \in 1 .. Len(write_section(saved)) /\ l < pos
           /\ NamesIn(write_section(saved), l, e)
           /\ file[l] = write_section(saved)[l]
<1> DEFINE w == write_section(saved)
<1>1. /\ TypeInv /\ pos \in 1 .. Len(file) + 1 /\ Len(file) \in Nat
      /\ \A i \in 1 .. Len(file) : file[i] = w[i]
  BY FileLen, TypeInvIs DEF LocalInv, FileInv, Restores, RestOK
<1>2. l \in 1 .. Len(file) /\ l < pos /\ l \in Nat
  BY <1>1
<1>3. l \in 1 .. Len(w) /\ file[l] = w[l]
  BY <1>1, <1>2, FileHolds
<1>4. \A j \in 1 .. l - 1 : file[j] = w[j]
  BY <1>1, <1>2
<1> HIDE DEF w
<1>5. SectionAt(file, l) = SectionAt(w, l)
  BY <1>2, <1>4, SectionSame
<1>6. NamesIn(w, l, e)
  BY <1>3, <1>5, NamesAre DEF NamesIn
<1>7. QED
  BY <1>2, <1>3, <1>6 DEF w

\* A written string that ends in the first byte of another variable fills its
\* array.
LEMMA EndsWritten ==
    ASSUME LocalInv, FileInv, NumbersRight, Restores,
           NEW l \in 1 .. pos - 1, NEW e, EndsIn(l, e)
    PROVE  \E t \in Known : Names(l, t) /\ FillsUpTo(t, saved[t], e)
<1>1. PICK t \in DOMAIN Behind :
        Names(l, t) /\ \E v \in Scanned(Of(t), before[t], file[l].text) : FillsUpTo(t, v, e)
  BY DEF EndsIn
<1>2. t \in Known /\ TypeInv
  BY ConfFileAssumption DEF LocalInv
<1> DEFINE w == write_section(saved)
<1>3. l \in 1 .. Len(w) /\ NamesIn(w, l, t) /\ file[l] = w[l]
  BY <1>1, NamesWritten
<1>4. t = <<SectionAt(w, l), w[l].name>>
  <2>1. t = <<t[1], t[2]>>
    BY <1>2 DEF Known
  <2>2. QED
    BY <1>3, <2>1 DEF NamesIn
<1>5. w[l].text = Printed(Of(t), saved[t])
  BY <1>3, <1>4, FileHolds DEF NamesIn
<1>6. QED
  BY <1>1, <1>2, <1>3, <1>5, FillsOnce

\* Where a load leaves a variable that no line has named yet.
LEMMA LeftSo ==
    ASSUME LocalInv, FileInv, NumbersRight, Restores, NEW e \in Known,
           ~\E l \in 1 .. pos - 1 : Names(l, e)
    PROVE  \/ mem[e] = before[e]
           \/ /\ mem[e] = FirstByteZero(e, before[e])
              /\ \E l \in 1 .. pos - 1 : EndsIn(l, e)
<1>1. NoEmptyValue /\ Loads
  BY FileHolds DEF Restores
<1>2. QED
  BY <1>1, LoadLocalIs DEF LocalInv, Left

\* What a load that has come to variable x leaves in variable i.
Held(x, i) ==
    \/ mem[Order[i]] = (IF i <= x THEN saved ELSE before)[Order[i]]
    \/ /\ i > x
       /\ mem[Order[i]] = FirstByteZero(Order[i], before[Order[i]])
       /\ \E j \in 1 .. x : FillsUpTo(Order[j], saved[Order[j]], Order[i])

LEMMA CrashKeeps == ASSUME NumbersRight, RoundInv PROVE CrashKeepsPrefix
<1> DEFINE w == write_section(saved)
           n == Len(Order)
           T == {q \in 1 .. n : \E k \in 1 .. Len(w) : NamesIn(w, k, Order[q]) /\ k < pos}
<1>1. SUFFICES ASSUME pc \in {"loading", "loaded", "failed"}, state = "part", ~cut, Orderly
               PROVE  \E x \in 0 .. n : \A i \in 1 .. n :
                        Order[i] \in Kept => Held(x, i)
  BY DEF CrashKeepsPrefix, Held
<1>2. TypeInv /\ LocalInv /\ FileInv /\ LoadInv /\ Restores
  BY <1>1 DEF RoundInv, LocalInv, Restores, Loads
<1>3. Restored(w, pos) /\ pos \in Nat
  BY <1>2, FileLen DEF LoadInv
<1>4. PICK off : Laid(saved, off)
  BY <1>1, <1>2, SavedLaid
<1>5. n \in Nat
  BY OrderIs
<1>6. \A e \in Kept : \E k \in 1 .. Len(w) : NamesIn(w, k, e)
  BY <1>4, NamedSomewhere DEF Kept
<1>7. \A p, q \in 1 .. n : p < q => \A k, l \in 1 .. Len(w) :
        NamesIn(w, k, Order[p]) /\ NamesIn(w, l, Order[q]) => k < l
  BY <1>4, NamedInOrder
<1>8. T \in SUBSET (1 .. n)
      /\ \A q \in 1 .. n : q \in T <=> \E k \in 1 .. Len(w) : NamesIn(w, k, Order[q]) /\ k < pos
  OBVIOUS
<1> HIDE DEF w, n, T
<1>9. ASSUME NEW i \in 1 .. n, Order[i] \in Kept, NEW k \in 1 .. Len(w),
             NamesIn(w, k, Order[i]), k < pos
      PROVE  mem[Order[i]] = saved[Order[i]]
  BY <1>3, <1>9 DEF Restored
<1> DEFINE x == IF T = {} THEN 0 ELSE Max(T)
<1>10. x \in 0 .. n /\ (\A y \in T : y <= x) /\ (x # 0 => x \in T)
  <2>1. CASE T = {}
    BY <1>5, <2>1
  <2>2. CASE T # {}
    <3>1. x \in T /\ \A y \in T : x >= y
      BY <1>5, <1>8, <2>2, MaxIs
    <3> HIDE DEF x
    <3>2. x \in 1 .. n /\ \A y \in T : y \in 1 .. n /\ x >= y
      BY <1>8, <3>1
    <3>3. QED
      BY <1>5, <3>1, <3>2
  <2>3. QED
    BY <2>1, <2>2
<1> HIDE DEF x
<1>11. ASSUME NEW i \in 1 .. n, Order[i] \in Kept
       PROVE  Held(x, i)
  <2>1. PICK k \in 1 .. Len(w) : NamesIn(w, k, Order[i])
    BY <1>6, <1>11
  <2>2. CASE i <= x
    <3>1. x # 0 /\ x \in T /\ x \in 1 .. n
      BY <1>5, <1>8, <1>10, <2>2
    <3>2. PICK l \in 1 .. Len(w) : NamesIn(w, l, Order[x]) /\ l < pos
      BY <1>8, <3>1
    <3>3. CASE i = x
      <4>1. mem[Order[i]] = saved[Order[i]]
        BY <1>9, <1>11, <3>2, <3>3
      <4>2. QED
        BY <2>2, <4>1 DEF Held
    <3>4. CASE i < x
      <4>1. k < l
        BY <1>7, <2>1, <3>1, <3>2, <3>4
      <4>2. k < pos
        BY <1>3, <3>2, <4>1
      <4>3. QED
        BY <1>9, <1>11, <2>1, <2>2, <4>2 DEF Held
    <3>5. QED
      BY <1>10, <2>2, <3>1, <3>3, <3>4
  <2>3. CASE ~(i <= x)
    <3>1. i \notin T
      BY <1>10, <2>3
    <3>2. ~(k < pos)
      BY <1>8, <2>1, <3>1
    <3>3. Order[i] \in Known /\ i > x
      BY <1>10, <1>11, <2>3 DEF Kept
    <3>4. ~\E l \in 1 .. pos - 1 : Names(l, Order[i])
      <4>1. SUFFICES ASSUME NEW l \in 1 .. pos - 1, Names(l, Order[i]) PROVE FALSE
        OBVIOUS
      <4>2. l \in 1 .. Len(w) /\ NamesIn(w, l, Order[i])
        BY <1>2, <4>1, NamesWritten DEF w
      <4>3. l = k
        BY <1>4, <2>1, <4>2, NamedOnce DEF w
      <4>4. QED
        BY <1>3, <3>2, <4>3
    <3>5. CASE mem[Order[i]] = before[Order[i]]
      BY <2>3, <3>5 DEF Held
    <3>6. CASE /\ mem[Order[i]] = FirstByteZero(Order[i], before[Order[i]])
               /\ \E l \in 1 .. pos - 1 : EndsIn(l, Order[i])
      <4>1. PICK l \in 1 .. pos - 1 : EndsIn(l, Order[i])
        BY <3>6
      <4>2. PICK t \in Known : Names(l, t) /\ FillsUpTo(t, saved[t], Order[i])
        BY <1>2, <4>1, EndsWritten
      <4>3. PICK j \in 1 .. n : Order[j] = t
        BY InOrder DEF n
      <4>4. l \in 1 .. Len(w) /\ NamesIn(w, l, t) /\ l < pos
        BY <1>2, <1>3, <4>2, NamesWritten DEF w
      <4>5. j \in T
        BY <1>8, <4>3, <4>4
      <4>6. j \in 1 .. x
        BY <1>10, <4>5
      <4>7. QED
        BY <3>3, <3>6, <4>2, <4>3, <4>6 DEF Held
    <3>7. QED
      BY <1>2, <3>3, <3>4, <3>5, <3>6, LeftSo
  <2>4. QED
    BY <1>5, <1>10, <2>2, <2>3
<1>12. QED
  BY <1>10, <1>11

(***************************************************************************)
(* A configuration that was saved whole and whose values do not break the  *)
(* lines is loaded, with every value that the library supports, for every  *)
(* number of sections and entries and every width of the integers, also    *)
(* strings that fill their arrays: where the program's own copy is used    *)
(* with the types that it has the numbers of.                              *)
(***************************************************************************)
THEOREM SavedIsLoaded ==
    ASSUME NumbersRight PROVE Spec => []RoundTrip
<1>1. Init => RoundInv
  BY RoundInit
<1>2. RoundInv /\ [Next]_vars => RoundInv'
  BY RoundStep
<1>3. RoundInv => RoundTrip
  BY RoundTrips
<1>4. QED
  BY <1>1, <1>2, <1>3, PTL DEF Spec

(***************************************************************************)
(* A load of what a crash left of the file, at whole lines, restores the   *)
(* first variables in the order of the writer and leaves the others, under *)
(* the same conditions.                                                    *)
(***************************************************************************)
THEOREM CrashKeepsFirst ==
    ASSUME NumbersRight PROVE Spec => []CrashKeepsPrefix
<1>1. Init => RoundInv
  BY RoundInit
<1>2. RoundInv /\ [Next]_vars => RoundInv'
  BY RoundStep
<1>3. RoundInv => CrashKeepsPrefix
  BY CrashKeeps
<1>4. QED
  BY <1>1, <1>2, <1>3, PTL DEF Spec
=============================================================================
