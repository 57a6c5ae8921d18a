----------------------------- MODULE CoverProofs ----------------------------
(***************************************************************************)
(* Proofs about the covers a record travels in: the bytes of a record and  *)
(* of the frames around it (RecordCodec, CoverFrames), the MASQUE tunnel   *)
(* (MasqueTunnel), and the Reality cover with its splice (Reality).        *)
(*                                                                         *)
(* The codecs are proved for every width, every number and every string of *)
(* bytes.  Their loops are recursive functions; what a loop computes is    *)
(* shown by taking the least number it would be wrong for (LeastNumber).   *)
(***************************************************************************)
EXTENDS Reality, MasqueTunnel, SequenceTheorems, WellFoundedInduction, TLAPS

-----------------------------------------------------------------------------
(***************************************************************************)
(* Numbers: division with rest, and what recursion defines.                *)
(***************************************************************************)
\* Every set of numbers that is not empty has a least one.
LEMMA LeastNumber ==
  ASSUME NEW T, T \subseteq Nat, T # {}
  PROVE  \E x \in T : \A y \in T : x <= y
<1> DEFINE R == OpToRel(<, Nat)
<1>1. IsWellFoundedOn(R, Nat)
  BY NatLessThanWellFounded
<1>2. \A x, y \in Nat : y < x => <<y, x>> \in R
  BY DEF OpToRel
<1> HIDE DEF R
<1>3. PICK x \in T : \A y \in T : ~(<<y, x>> \in R)
  BY <1>1, WFMin
<1>4. \A y \in T : ~(y < x)
  BY <1>2, <1>3
<1> QED BY <1>3, <1>4

\* Division with rest by a positive number.
LEMMA DivMod ==
  ASSUME NEW g \in Nat, g > 0, NEW v \in Nat
  PROVE  v \div g \in Nat /\ v % g \in Nat /\ v % g < g /\ v = g * (v \div g) + (v % g)
<1>1. v \div g \in Nat
  OBVIOUS
<1>2. v % g \in Nat /\ v % g < g
  OBVIOUS
<1>3. v = g * (v \div g) + (v % g)
  OBVIOUS
<1> QED BY <1>1, <1>2, <1>3

\* A number is taken apart the way it was put together.
LEMMA DivModOfSum ==
  ASSUME NEW g \in Nat, g > 0, NEW a \in Nat, NEW b \in 0 .. g - 1
  PROVE  (g * a + b) \div g = a /\ (g * a + b) % g = b
OBVIOUS

\* Division makes a number smaller, and keeps the order of two.
LEMMA DivOrder ==
  ASSUME NEW g \in Nat, g > 1, NEW v \in Nat, NEW w \in Nat
  PROVE  /\ v >= g => v \div g < v /\ v \div g > 0
         /\ v <= w => v \div g <= w \div g
OBVIOUS

\* A product's bound is a bound of the quotient.
LEMMA DivBound ==
  ASSUME NEW g \in Nat, g > 0, NEW v \in Nat, NEW r \in Nat, v < g * r
  PROVE  v \div g < r
OBVIOUS

\* A set of numbers that has 0 and with each number the next has all of them.
LEMMA Induct ==
  ASSUME NEW S, 0 \in S, \A n \in Nat : n \in S => n + 1 \in S
  PROVE  Nat \subseteq S
<1> SUFFICES ASSUME Nat \ S # {} PROVE FALSE
  OBVIOUS
<1>1. PICK n \in Nat \ S : \A m \in Nat \ S : n <= m
  BY LeastNumber
<1>2. n # 0 /\ n - 1 \in Nat /\ n - 1 \notin Nat \ S
  BY <1>1
<1> QED BY <1>2, <1>1
 
\* A function that is defined by what it is at 0 and how it goes on, up to n.
GoesOn(f, V, a, n, step) ==
  f \in [0 .. n -> V] /\ f[0] = a /\ \A i \in 1 .. n : f[i] = step[i][f[i - 1]]

Steps(V, n, step) == \A i \in 1 .. n : \A t \in V : step[i][t] \in V

\* There is one.
LEMMA RecursionIn ==
  ASSUME NEW V, NEW a \in V, NEW n \in Nat, NEW step, Steps(V, n, step)
  PROVE  \E f : GoesOn(f, V, a, n, step)
<1> DEFINE S == {m \in Nat : m <= n => \E f : GoesOn(f, V, a, m, step)}
<1>1. 0 \in S
  <2>1. GoesOn([i \in 0 .. 0 |-> a], V, a, 0, step)
    BY DEF GoesOn
  <2> QED BY <2>1
<1>2. ASSUME NEW m \in Nat, m \in S
      PROVE  m + 1 \in S
  <2> SUFFICES ASSUME m + 1 <= n PROVE \E f : GoesOn(f, V, a, m + 1, step)
    OBVIOUS
  <2>1. PICK f : GoesOn(f, V, a, m, step)
    BY <1>2
  <2>2. f \in [0 .. m -> V] /\ f[0] = a /\ \A i \in 1 .. m : f[i] = step[i][f[i - 1]]
    BY <2>1 DEF GoesOn
  <2> DEFINE g == [i \in 0 .. m + 1 |-> IF i = m + 1 THEN step[m + 1][f[m]] ELSE f[i]]
  <2>3. step[m + 1][f[m]] \in V
    BY <2>2 DEF Steps
  <2>4. g \in [0 .. m + 1 -> V] /\ g[0] = a
    BY <2>2, <2>3
  <2>5. \A i \in 1 .. m + 1 : g[i] = step[i][g[i - 1]]
    <3> SUFFICES ASSUME NEW i \in 1 .. m + 1 PROVE g[i] = step[i][g[i - 1]]
      OBVIOUS
    <3>1. CASE i = m + 1
      BY <3>1
    <3>2. CASE i \in 1 .. m
      BY <2>2, <3>2
    <3> QED BY <3>1, <3>2
  <2>6. GoesOn(g, V, a, m + 1, step)
    BY <2>4, <2>5 DEF GoesOn
  <2> HIDE DEF g
  <2> QED BY <2>6
<1> HIDE DEF S
<1>3. n \in S
  BY <1>1, <1>2, Induct
<1> QED BY <1>3 DEF S

\* In particular one on numbers.
LEMMA Recursion ==
  ASSUME NEW a \in Nat, NEW n \in Nat, NEW step \in [1 .. n -> [Nat -> Nat]]
  PROVE  \E f \in [0 .. n -> Nat] : f[0] = a /\ \A i \in 1 .. n : f[i] = step[i][f[i - 1]]
<1>1. Steps(Nat, n, step)
  BY DEF Steps
<1>2. \E f : GoesOn(f, Nat, a, n, step)
  BY <1>1, RecursionIn
<1> QED BY <1>2 DEF GoesOn

-----------------------------------------------------------------------------
(***************************************************************************)
(* Varints of the record codec.                                            *)
(***************************************************************************)
\* What the constants of the codec are.
LEMMA CodecNumbers ==
  /\ Group \in Nat /\ Group > 1 /\ Radix \in Nat /\ Radix = 2 * Group
  /\ U64 \in Nat /\ U64 > 0 /\ U32 \in Nat /\ U32 <= U64
  /\ Quarter \in Nat /\ Quarter > 0 /\ Group = 2 * Quarter /\ Radix = 4 * Quarter
<1>1. Group \in Nat /\ Group > 1 /\ Group = 2 * Quarter /\ U64 \in Nat /\ U32 \in 1 .. U64
  BY CodecAssumption DEF Quarter
<1>2. Quarter \in Nat
  BY CodecAssumption, DivMod DEF Quarter
<1> QED BY <1>1, <1>2 DEF Radix

\* A number by its lowest byte and what is above it.
LEMMA RadixParts ==
  ASSUME NEW v \in Nat
  PROVE  v = Radix * (v \div Radix) + (v % Radix)
<1>1. Radix \in Nat /\ Radix > 0
  BY CodecNumbers
<1> QED BY <1>1, DivMod

\* The groups of a number below m + 1, as the loop of write_varint makes them.
MakesGroups(f, m) ==
  /\ f \in [0 .. m -> Seq(Byte)]
  /\ \A v \in 0 .. m : f[v] = IF v < Group THEN <<v>>
                              ELSE <<Group + (v % Group)>> \o f[v \div Group]

\* Such a function exists up to every number, so Groups is one.
LEMMA GroupsExist == \A m \in Nat : \E f : MakesGroups(f, m)
<1> DEFINE S == {m \in Nat : \E f : MakesGroups(f, m)}
<1>1. 0 \in S
  <2> DEFINE f == [v \in 0 .. 0 |-> <<0>>]
  <2>1. <<0>> \in Seq(Byte)
    BY CodecNumbers DEF Byte
  <2>2. MakesGroups(f, 0)
    BY <2>1, CodecNumbers DEF MakesGroups
  <2> QED BY <2>2
<1>2. ASSUME NEW m \in Nat, m \in S
      PROVE  m + 1 \in S
  <2>1. PICK f : MakesGroups(f, m)
    BY <1>2
  <2> DEFINE w == m + 1
             new == IF w < Group THEN <<w>> ELSE <<Group + (w % Group)>> \o f[w \div Group]
             g == [v \in 0 .. w |-> IF v = w THEN new ELSE f[v]]
  <2>2. f \in [0 .. m -> Seq(Byte)]
    BY <2>1 DEF MakesGroups
  <2>3. new \in Seq(Byte)
    <3>1. CASE w < Group
      <4>1. w \in Byte
        BY <3>1, CodecNumbers DEF Byte
      <4> QED BY <3>1, <4>1
    <3>2. CASE ~(w < Group)
      <4>1. w \div Group \in 0 .. m
        BY <3>2, CodecNumbers, DivMod, DivOrder
      <4>2. w % Group \in Nat /\ w % Group < Group
        BY CodecNumbers, DivMod
      <4>3. Group + (w % Group) \in Byte
        BY <4>2, CodecNumbers DEF Byte
      <4>4. <<Group + (w % Group)>> \in Seq(Byte) /\ f[w \div Group] \in Seq(Byte)
        BY <2>2, <4>1, <4>3
      <4>5. <<Group + (w % Group)>> \o f[w \div Group] \in Seq(Byte)
        BY <4>4, ConcatProperties
      <4> QED BY <3>2, <4>5
    <3> QED BY <3>1, <3>2
  <2>4. g \in [0 .. w -> Seq(Byte)]
    <3> HIDE DEF new
    <3> QED BY <2>2, <2>3
  <2>5. ASSUME NEW v \in 0 .. w
        PROVE  g[v] = IF v < Group THEN <<v>> ELSE <<Group + (v % Group)>> \o g[v \div Group]
    <3>1. ~(v < Group) => v \div Group \in 0 .. m
      BY CodecNumbers, DivMod, DivOrder
    <3>2. ~(v < Group) => g[v \div Group] = f[v \div Group]
      BY <3>1
    <3>3. CASE v = w
      BY <3>2, <3>3
    <3>4. CASE v \in 0 .. m
      <4>1. g[v] = f[v]
        BY <3>4
      <4>2. f[v] = IF v < Group THEN <<v>> ELSE <<Group + (v % Group)>> \o f[v \div Group]
        BY <2>1, <3>4 DEF MakesGroups
      <4> HIDE DEF g
      <4> QED BY <3>2, <4>1, <4>2
    <3> QED BY <3>3, <3>4
  <2>6. MakesGroups(g, w)
    BY <2>4, <2>5 DEF MakesGroups
  <2> QED BY <2>6
<1>3. Nat \subseteq S
  <2> HIDE DEF S
  <2> QED BY <1>1, <1>2, Induct
<1> QED BY <1>3

\* write_varint does what its loop says.
LEMMA GroupsLoop == MakesGroups(Groups, U64 - 1)
<1> DEFINE Body(f) == [v \in 0 .. U64 - 1 |->
                         IF v < Group THEN <<v>> ELSE <<Group + (v % Group)>> \o f[v \div Group]]
<1>1. U64 - 1 \in Nat
  BY CodecNumbers
<1>2. PICK f : MakesGroups(f, U64 - 1)
  BY <1>1, GroupsExist
<1>3. f = Body(f)
  BY <1>2 DEF MakesGroups
<1>4. Groups = CHOOSE h : h = Body(h)
  BY DEF Groups
<1>5. Groups = Body(Groups)
  <2> HIDE DEF Body
  <2> QED BY <1>3, <1>4
<1>6. \A v \in 0 .. U64 - 1 : Groups[v] = IF v < Group THEN <<v>>
                                           ELSE <<Group + (v % Group)>> \o Groups[v \div Group]
  BY <1>5
<1>7. Groups = f
  <2> DEFINE D == {v \in 0 .. U64 - 1 : Groups[v] # f[v]}
  <2>1. D = {}
    <3> SUFFICES ASSUME D # {} PROVE FALSE
      OBVIOUS
    <3>1. PICK w \in D : \A y \in D : w <= y
      <4>1. D \subseteq Nat
        BY CodecNumbers
      <4> HIDE DEF D
      <4> QED BY <4>1, LeastNumber
    <3>2. w \in 0 .. U64 - 1 /\ w \in Nat /\ Groups[w] # f[w]
      OBVIOUS
    <3>3. ~(w < Group) => w \div Group \in 0 .. U64 - 1 /\ w \div Group < w
      BY <3>2, CodecNumbers, DivMod, DivOrder
    <3>4. ~(w < Group) => Groups[w \div Group] = f[w \div Group]
      <4>1. ~(w < Group) => w \div Group \notin D
        <5> HIDE DEF D
        <5> QED BY <3>1, <3>2, <3>3, CodecNumbers
      <4> QED BY <3>3, <4>1
    <3> QED BY <1>2, <1>6, <3>2, <3>4 DEF MakesGroups
  <2>2. \A v \in 0 .. U64 - 1 : Groups[v] = f[v]
    BY <2>1
  <2>3. Groups = [v \in 0 .. U64 - 1 |-> Groups[v]] /\ f = [v \in 0 .. U64 - 1 |-> f[v]]
    BY <1>2, <1>5 DEF MakesGroups
  <2> QED BY <2>2, <2>3
<1> QED BY <1>2, <1>7

\* What a sequence of a first element and others is.
LEMMA FirstAndRest ==
  ASSUME NEW V, NEW x \in V, NEW s \in Seq(V)
  PROVE  /\ <<x>> \o s \in Seq(V) /\ Len(<<x>> \o s) = Len(s) + 1
         /\ (<<x>> \o s)[1] = x
         /\ \A i \in 1 .. Len(s) : (<<x>> \o s)[i + 1] = s[i]
<1>1. <<x>> \in Seq(V) /\ Len(<<x>>) = 1 /\ <<x>>[1] = x
  OBVIOUS
<1>2. /\ <<x>> \o s \in Seq(V) /\ Len(<<x>> \o s) = 1 + Len(s)
      /\ \A i \in 1 .. 1 + Len(s) : (<<x>> \o s)[i] = IF i <= 1 THEN <<x>>[i] ELSE s[i - 1]
  BY <1>1, ConcatProperties, ZenonT(20)
<1>3. Len(s) \in Nat
  OBVIOUS
<1>4. (<<x>> \o s)[1] = x
  BY <1>1, <1>2, <1>3
<1>5. ASSUME NEW i \in 1 .. Len(s)
      PROVE  (<<x>> \o s)[i + 1] = s[i]
  <2>1. i + 1 \in 1 .. 1 + Len(s) /\ ~(i + 1 <= 1) /\ (i + 1) - 1 = i
    BY <1>3
  <2> QED BY <1>2, <2>1
<1> QED BY <1>2, <1>3, <1>4, <1>5

\* The form of a number that one group holds, and of one that takes more.
LEMMA GroupsOne ==
  ASSUME NEW v \in 0 .. U64 - 1, v < Group
  PROVE  Groups[v] = <<v>> /\ Groups[v] \in Seq(Byte) /\ Len(Groups[v]) = 1 /\ Groups[v][1] = v
<1>1. Groups[v] = <<v>> /\ Groups[v] \in Seq(Byte)
  BY GroupsLoop DEF MakesGroups
<1> QED BY <1>1

LEMMA GroupsMore ==
  ASSUME NEW v \in 0 .. U64 - 1, v >= Group
  PROVE  LET u == v \div Group
             s == Groups[u] IN
         /\ u \in 0 .. U64 - 1 /\ u < v /\ u > 0
         /\ v % Group \in 0 .. Group - 1 /\ v = Group * u + (v % Group)
         /\ s \in Seq(Byte) /\ Groups[v] \in Seq(Byte)
         /\ Len(Groups[v]) = Len(s) + 1
         /\ Groups[v][1] = Group + (v % Group)
         /\ \A i \in 1 .. Len(s) : Groups[v][i + 1] = s[i]
<1> DEFINE u == v \div Group
<1>1. v \in Nat /\ Group \in Nat /\ Group > 1 /\ Group > 0 /\ U64 \in Nat
  BY CodecNumbers
<1>2. u < v /\ u > 0
  BY <1>1, DivOrder
<1>3. v % Group \in Nat /\ v % Group < Group /\ u \in Nat /\ v = Group * u + (v % Group)
  BY <1>1, DivMod
<1>4. u \in 0 .. U64 - 1 /\ v % Group \in 0 .. Group - 1
  <2> HIDE DEF u
  <2> QED BY <1>1, <1>2, <1>3
<1>5. Group + (v % Group) \in Byte
  BY <1>1, <1>4, CodecNumbers DEF Byte
<1>6. Groups[v] = <<Group + (v % Group)>> \o Groups[u]
  <2>1. ~(v < Group)
    BY <1>1
  <2> QED BY <2>1, GroupsLoop DEF MakesGroups
<1>7. Groups[u] \in Seq(Byte)
  <2> HIDE DEF u
  <2> QED BY <1>4, GroupsLoop DEF MakesGroups
<1> DEFINE s == Groups[u]
           b == Group + (v % Group)
<1>8. /\ Groups[v] \in Seq(Byte) /\ Len(Groups[v]) = Len(s) + 1 /\ Groups[v][1] = b
      /\ \A i \in 1 .. Len(s) : Groups[v][i + 1] = s[i]
  <2>1. Groups[v] = <<b>> \o s /\ s \in Seq(Byte) /\ b \in Byte
    BY <1>5, <1>6, <1>7
  <2> HIDE DEF s, b
  <2>2. /\ <<b>> \o s \in Seq(Byte) /\ Len(<<b>> \o s) = Len(s) + 1 /\ (<<b>> \o s)[1] = b
        /\ \A i \in 1 .. Len(s) : (<<b>> \o s)[i + 1] = s[i]
    BY <2>1, FirstAndRest
  <2> QED BY <2>1, <2>2
<1> HIDE DEF u
<1>9. /\ u \in 0 .. U64 - 1 /\ u < v /\ u > 0
      /\ v % Group \in 0 .. Group - 1 /\ v = Group * u + (v % Group)
      /\ s \in Seq(Byte)
  BY <1>2, <1>3, <1>4, <1>7
<1> QED BY <1>8, <1>9 DEF u

\* The form of a number: marked groups, then one that is not marked and is zero only for 0.
LEMMA GroupsForm ==
  ASSUME NEW v \in 0 .. U64 - 1
  PROVE  /\ Groups[v] \in Seq(Byte) /\ Len(Groups[v]) \in Nat \ {0}
         /\ \A i \in 1 .. Len(Groups[v]) - 1 : Groups[v][i] >= Group
         /\ Groups[v][Len(Groups[v])] < Group
         /\ v # 0 => Groups[v][Len(Groups[v])] # 0
         /\ Len(Groups[v]) > 1 => v # 0
<1> DEFINE Good(x) ==
             /\ Groups[x] \in Seq(Byte) /\ Len(Groups[x]) \in Nat \ {0}
             /\ \A i \in 1 .. Len(Groups[x]) - 1 : Groups[x][i] >= Group
             /\ Groups[x][Len(Groups[x])] < Group
             /\ x # 0 => Groups[x][Len(Groups[x])] # 0
             /\ Len(Groups[x]) > 1 => x # 0
           D == {x \in 0 .. U64 - 1 : ~Good(x)}
<1>1. ASSUME NEW w \in D, \A y \in D : w <= y
      PROVE  FALSE
  <2>1. w \in 0 .. U64 - 1 /\ w \in Nat /\ ~Good(w)
    OBVIOUS
  <2>2. CASE w < Group
    <3> DEFINE g == Groups[w]
    <3>1. g \in Seq(Byte) /\ Len(g) = 1 /\ g[1] = w
      BY <2>1, <2>2, GroupsOne
    <3>2. ~(/\ g \in Seq(Byte) /\ Len(g) \in Nat \ {0}
            /\ \A i \in 1 .. Len(g) - 1 : g[i] >= Group
            /\ g[Len(g)] < Group
            /\ w # 0 => g[Len(g)] # 0
            /\ Len(g) > 1 => w # 0)
      BY <2>1
    <3> HIDE DEF g
    <3> QED BY <2>1, <2>2, <3>1, <3>2
  <2>3. CASE w >= Group
    <3> DEFINE u == w \div Group
               s == Groups[u]
    <3>1. /\ u \in 0 .. U64 - 1 /\ u < w /\ u > 0 /\ w % Group \in 0 .. Group - 1
          /\ s \in Seq(Byte) /\ Groups[w] \in Seq(Byte)
          /\ Len(Groups[w]) = Len(s) + 1
          /\ Groups[w][1] = Group + (w % Group)
          /\ \A i \in 1 .. Len(s) : Groups[w][i + 1] = s[i]
      BY <2>1, <2>3, GroupsMore
    <3>3. Good(u)
      <4>1. u \notin D
        <5> HIDE DEF D
        <5> QED BY <1>1, <2>1, <3>1, CodecNumbers
      <4> HIDE DEF u
      <4> QED BY <3>1, <4>1
    <3> HIDE DEF u
    <3>5. Group + (w % Group) >= Group
      BY <3>1, CodecNumbers
    <3>6. Len(s) \in Nat \ {0}
      BY <3>3
    <3>7. /\ Len(Groups[w]) = Len(s) + 1 /\ Groups[w][1] = Group + (w % Group)
          /\ \A i \in 1 .. Len(s) : Groups[w][i + 1] = s[i]
      BY <3>1
    <3>8. ASSUME NEW i \in 1 .. Len(Groups[w]) - 1
          PROVE  Groups[w][i] >= Group
      <4>1. CASE i = 1
        BY <3>5, <3>7, <4>1
      <4>2. CASE i # 1
        <5>1. i - 1 \in 1 .. Len(s) - 1 /\ (i - 1) + 1 = i
          BY <3>6, <3>7, <4>2
        <5>2. Groups[w][i] = s[i - 1]
          BY <3>6, <3>7, <5>1
        <5> QED BY <3>3, <5>1, <5>2
      <4> QED BY <4>1, <4>2
    <3>9. Groups[w][Len(Groups[w])] = s[Len(s)]
      BY <3>6, <3>7
    <3>10. s[Len(s)] < Group /\ s[Len(s)] # 0
      BY <3>1, <3>3
    <3>11. w # 0
      BY <2>3, CodecNumbers
    <3> QED BY <2>1, <3>1, <3>6, <3>7, <3>8, <3>9, <3>10, <3>11
  <2> QED BY <2>1, <2>2, <2>3, CodecNumbers
<1>2. D = {}
  <2> SUFFICES ASSUME D # {} PROVE FALSE
    OBVIOUS
  <2>1. D \subseteq Nat
    BY CodecNumbers
  <2> HIDE DEF D
  <2> QED BY <1>1, <2>1, LeastNumber
<1>3. v \notin D
  <2> HIDE DEF D
  <2> QED BY <1>2
<1> QED BY <1>3

\* The more a number, the longer its form.
LEMMA GroupsOrder ==
  ASSUME NEW v \in 0 .. U64 - 1, NEW w \in 0 .. U64 - 1, v <= w
  PROVE  Len(Groups[v]) <= Len(Groups[w])
<1> DEFINE Good(x) == \A y \in 0 .. x : Len(Groups[y]) <= Len(Groups[x])
           D == {x \in 0 .. U64 - 1 : ~Good(x)}
<1>1. ASSUME NEW x \in D, \A y \in D : x <= y
      PROVE  FALSE
  <2>1. x \in 0 .. U64 - 1 /\ x \in Nat
    OBVIOUS
  <2>2. PICK y \in 0 .. x : ~(Len(Groups[y]) <= Len(Groups[x]))
    OBVIOUS
  <2>3. y \in 0 .. U64 - 1 /\ y \in Nat
    BY <2>1, CodecNumbers
  <2>4. Len(Groups[x]) \in Nat \ {0} /\ Len(Groups[y]) \in Nat \ {0}
    BY <2>1, <2>3, GroupsForm
  <2>5. y >= Group
    <3> SUFFICES ASSUME y < Group PROVE FALSE
      BY <2>3, CodecNumbers
    <3>1. Len(Groups[y]) = 1
      BY <2>3, GroupsOne
    <3> QED BY <2>2, <2>4, <3>1
  <2>6. x >= Group
    BY <2>1, <2>3, <2>5, CodecNumbers
  <2> DEFINE p == x \div Group
             q == y \div Group
  <2>7. /\ p \in 0 .. U64 - 1 /\ p < x /\ q \in 0 .. U64 - 1
        /\ Len(Groups[x]) = Len(Groups[p]) + 1 /\ Len(Groups[y]) = Len(Groups[q]) + 1
    BY <2>1, <2>3, <2>5, <2>6, GroupsMore
  <2>8. q <= p
    BY <2>1, <2>2, <2>3, CodecNumbers, DivOrder
  <2>10. Len(Groups[q]) <= Len(Groups[p])
    <3>1. p \notin D
      <4> HIDE DEF D
      <4> QED BY <1>1, <2>1, <2>7, CodecNumbers
    <3> HIDE DEF p, q
    <3>2. q \in 0 .. p
      BY <2>7, <2>8, CodecNumbers
    <3> QED BY <2>7, <3>1, <3>2
  <2>11. Len(Groups[p]) \in Nat /\ Len(Groups[q]) \in Nat
    <3> HIDE DEF p, q
    <3> QED BY <2>7, GroupsForm
  <2> QED BY <2>2, <2>7, <2>10, <2>11
<1>2. D = {}
  <2> SUFFICES ASSUME D # {} PROVE FALSE
    OBVIOUS
  <2>1. D \subseteq Nat
    BY CodecNumbers
  <2> HIDE DEF D
  <2> QED BY <1>1, <2>1, LeastNumber
<1>3. w \notin D
  <2> HIDE DEF D
  <2> QED BY <1>2
<1> QED BY <1>3, CodecNumbers

\* The loop of read_varint over the groups up to last, the highest first.
ReadsTop(f, bytes, last) ==
  /\ f \in [0 .. last - 1 -> Nat]
  /\ f[0] = bytes[last] % Group
  /\ \A n \in 1 .. last - 1 : f[n] = (bytes[last - n] % Group) + Group * f[n - 1]

\* The number of a byte without its mark.
LEMMA GroupOf ==
  ASSUME NEW bytes \in Seq(Byte), NEW i \in 1 .. Len(bytes)
  PROVE  bytes[i] \in Byte /\ bytes[i] \in Nat /\ bytes[i] % Group \in 0 .. Group - 1
<1>1. bytes[i] \in Byte
  OBVIOUS
<1> DEFINE b == bytes[i]
<1>2. b \in Nat
  BY <1>1, CodecNumbers DEF Byte
<1>3. b % Group \in Nat /\ b % Group < Group
  <2> HIDE DEF b
  <2> QED BY <1>2, CodecNumbers, DivMod
<1> QED BY <1>1, <1>2, <1>3, CodecNumbers

\* read_varint does what its loop says.
LEMMA TopLoop ==
  ASSUME NEW bytes \in Seq(Byte), NEW last \in 1 .. Len(bytes)
  PROVE  ReadsTop(GroupsTop(bytes, last), bytes, last)
<1> DEFINE low == [n \in 0 .. last - 1 |-> bytes[last - n] % Group]
           step == [n \in 1 .. last - 1 |-> [t \in Nat |-> low[n] + Group * t]]
           Body(f) == [n \in 0 .. last - 1 |->
                         (bytes[last - n] % Group) + (IF n = 0 THEN 0 ELSE Group * f[n - 1])]
<1>1. last \in Nat /\ last - 1 \in Nat /\ Len(bytes) \in Nat
  OBVIOUS
<1>2. low \in [0 .. last - 1 -> Nat]
  <2> SUFFICES ASSUME NEW n \in 0 .. last - 1 PROVE bytes[last - n] % Group \in Nat
    OBVIOUS
  <2>1. last - n \in 1 .. Len(bytes)
    BY <1>1
  <2> QED BY <2>1, GroupOf
<1>3. step \in [1 .. last - 1 -> [Nat -> Nat]]
  <2> SUFFICES ASSUME NEW n \in 1 .. last - 1, NEW t \in Nat PROVE low[n] + Group * t \in Nat
    OBVIOUS
  <2>1. low[n] \in Nat /\ Group * t \in Nat
    <3> HIDE DEF low
    <3> QED BY <1>2, CodecNumbers
  <2> HIDE DEF low
  <2> QED BY <2>1
<1>4. low[0] \in Nat
  BY <1>1, <1>2
<1>5. PICK f \in [0 .. last - 1 -> Nat] :
        f[0] = low[0] /\ \A i \in 1 .. last - 1 : f[i] = step[i][f[i - 1]]
  <2> DEFINE m == last - 1
             a == low[0]
  <2>1. m \in Nat /\ a \in Nat /\ step \in [1 .. m -> [Nat -> Nat]]
    <3> HIDE DEF low, step
    <3> QED BY <1>1, <1>3, <1>4
  <2>2. \E f \in [0 .. m -> Nat] : f[0] = a /\ \A i \in 1 .. m : f[i] = step[i][f[i - 1]]
    <3> HIDE DEF m, a, step
    <3> QED BY <2>1, Recursion
  <2> HIDE DEF low, step
  <2> QED BY <2>2
<1>6. ReadsTop(f, bytes, last)
  <2>1. f[0] = bytes[last] % Group
    BY <1>1, <1>5
  <2>2. ASSUME NEW n \in 1 .. last - 1
        PROVE  f[n] = (bytes[last - n] % Group) + Group * f[n - 1]
    <3>1. f[n - 1] \in Nat
      BY <1>5
    <3>2. f[n] = step[n][f[n - 1]]
      BY <1>5
    <3>3. low[n] = bytes[last - n] % Group
      OBVIOUS
    <3> HIDE DEF low
    <3> QED BY <3>1, <3>2, <3>3
  <2> QED BY <1>5, <2>1, <2>2 DEF ReadsTop
<1>7. f = Body(f)
  <2>1. ASSUME NEW n \in 0 .. last - 1
        PROVE  f[n] = (bytes[last - n] % Group) + (IF n = 0 THEN 0 ELSE Group * f[n - 1])
    <3>1. CASE n = 0
      <4>1. bytes[last] % Group \in Nat
        BY GroupOf
      <4> QED BY <1>6, <3>1, <4>1 DEF ReadsTop
    <3>2. CASE n # 0
      BY <1>6, <3>2 DEF ReadsTop
    <3> QED BY <3>1, <3>2
  <2> QED BY <1>5, <2>1
<1> DEFINE T == GroupsTop(bytes, last)
<1>8. T = Body(T)
  <2>1. T = CHOOSE h : h = Body(h)
    BY DEF GroupsTop
  <2> HIDE DEF Body, T
  <2> QED BY <1>7, <2>1
<1>9. \A n \in 0 .. last - 1 : T[n] = f[n]
  <2> DEFINE S == {n \in Nat : n <= last - 1 => T[n] = f[n]}
  <2>0. \A n \in 0 .. last - 1 :
          T[n] = (bytes[last - n] % Group) + (IF n = 0 THEN 0 ELSE Group * T[n - 1])
    <3> HIDE DEF T
    <3> QED BY <1>8
  <2> HIDE DEF T
  <2>1. 0 \in S
    <3>1. bytes[last] % Group \in Nat
      BY GroupOf
    <3> QED BY <1>1, <1>6, <2>0, <3>1 DEF ReadsTop
  <2>2. ASSUME NEW n \in Nat, n \in S
        PROVE  n + 1 \in S
    <3> SUFFICES ASSUME n + 1 <= last - 1 PROVE T[n + 1] = f[n + 1]
      OBVIOUS
    <3>1. T[n] = f[n] /\ n + 1 \in 1 .. last - 1 /\ (n + 1) - 1 = n
      BY <1>1, <2>2
    <3>2. T[n + 1] = (bytes[last - (n + 1)] % Group) + Group * T[n]
      <4> DEFINE m == n + 1
      <4>1. m \in 0 .. last - 1 /\ m # 0 /\ m - 1 = n
        BY <1>1, <3>1
      <4> HIDE DEF m, S
      <4>2. T[m] = (bytes[last - m] % Group) + Group * T[n]
        BY <2>0, <4>1
      <4> QED BY <4>2 DEF m
    <3>3. f[n + 1] = (bytes[last - (n + 1)] % Group) + Group * f[n]
      BY <1>1, <1>6, <3>1 DEF ReadsTop
    <3>4. T[n] = f[n]
      BY <3>1
    <3> HIDE DEF T
    <3> QED BY <3>2, <3>3, <3>4
  <2> HIDE DEF S
  <2>3. \A n \in Nat : n \in S
    BY <2>1, <2>2, Induct
  <2> QED BY <2>3 DEF S
<1>10. T = f
  <2>1. T = [n \in 0 .. last - 1 |-> T[n]] /\ f = [n \in 0 .. last - 1 |-> f[n]]
    <3> HIDE DEF T
    <3> QED BY <1>5, <1>8
  <2> HIDE DEF T
  <2> QED BY <1>9, <2>1
<1> QED BY <1>6, <1>10

\* bytes has the sequence s at pos.
Holds(bytes, pos, s) ==
  /\ pos \in Nat \ {0} /\ pos + Len(s) - 1 <= Len(bytes)
  /\ \A i \in 1 .. Len(s) : bytes[pos + i - 1] = s[i]

\* The groups of a number stand for it.
LEMMA GroupsBack ==
  ASSUME NEW bytes \in Seq(Byte), NEW v \in 0 .. U64 - 1, NEW pos, Holds(bytes, pos, Groups[v])
  PROVE  GroupsTop(bytes, pos + Len(Groups[v]) - 1)[Len(Groups[v]) - 1] = v
<1> DEFINE Good(x) ==
             \A p : Holds(bytes, p, Groups[x]) =>
                      GroupsTop(bytes, p + Len(Groups[x]) - 1)[Len(Groups[x]) - 1] = x
           D == {x \in 0 .. U64 - 1 : ~Good(x)}
<1>1. ASSUME NEW x \in D, \A y \in D : x <= y
      PROVE  FALSE
  <2>1. x \in 0 .. U64 - 1 /\ x \in Nat
    BY CodecNumbers
  <2>2. PICK p : /\ Holds(bytes, p, Groups[x])
                 /\ GroupsTop(bytes, p + Len(Groups[x]) - 1)[Len(Groups[x]) - 1] # x
    BY <1>1
  <2> DEFINE len == Len(Groups[x])
             last == p + len - 1
             top == GroupsTop(bytes, last)
  <2>3. len \in Nat \ {0} /\ p \in Nat \ {0} /\ last \in 1 .. Len(bytes) /\ last \in Nat
        /\ \A i \in 1 .. len : bytes[p + i - 1] = Groups[x][i]
    <3>1. len \in Nat \ {0}
      BY <2>1, GroupsForm
    <3>2. p \in Nat \ {0} /\ p + len - 1 <= Len(bytes) /\ Len(bytes) \in Nat
          /\ \A i \in 1 .. len : bytes[p + i - 1] = Groups[x][i]
      BY <2>2 DEF Holds
    <3> HIDE DEF len
    <3> QED BY <3>1, <3>2
  <2>4. ReadsTop(top, bytes, last)
    <3> HIDE DEF last
    <3> QED BY <2>3, TopLoop
  <2>5. CASE x < Group
    <3>1. len = 1 /\ Groups[x][1] = x
      BY <2>1, <2>5, GroupsOne
    <3>2. bytes[last] = x /\ len - 1 = 0
      BY <2>3, <3>1
    <3>3. top[0] = x % Group
      <4> HIDE DEF top, last
      <4> QED BY <2>4, <3>2 DEF ReadsTop
    <3>4. x % Group = x
      BY <2>1, <2>5, CodecNumbers
    <3> QED BY <2>2, <3>2, <3>3, <3>4
  <2>6. CASE x >= Group
    <3> DEFINE u == x \div Group
               s == Groups[u]
    <3>1. /\ u \in 0 .. U64 - 1 /\ u < x
          /\ x % Group \in 0 .. Group - 1 /\ x = Group * u + (x % Group)
          /\ s \in Seq(Byte) /\ Groups[x] \in Seq(Byte)
          /\ len = Len(s) + 1
          /\ Groups[x][1] = Group + (x % Group)
          /\ \A i \in 1 .. Len(s) : Groups[x][i + 1] = s[i]
      BY <2>1, <2>6, GroupsMore
    <3>2. Good(u)
      <4>1. u \notin D
        <5> HIDE DEF D
        <5> QED BY <1>1, <2>1, <3>1, CodecNumbers
      <4> HIDE DEF u
      <4> QED BY <3>1, <4>1
    <3>3. Len(s) \in Nat \ {0}
      <4> HIDE DEF u
      <4> QED BY <3>1, GroupsForm
    <3> HIDE DEF s
    <3>4. Holds(bytes, p + 1, s)
      <4>1. p + 1 \in Nat \ {0} /\ (p + 1) + Len(s) - 1 <= Len(bytes)
        <5> HIDE DEF len
        <5> QED BY <2>3, <3>1, <3>3
      <4>2. ASSUME NEW i \in 1 .. Len(s)
            PROVE  bytes[(p + 1) + i - 1] = s[i]
        <5>1. i + 1 \in 1 .. len /\ (p + 1) + i - 1 = p + (i + 1) - 1
          <6> HIDE DEF len
          <6> QED BY <2>3, <3>1, <3>3
        <5> HIDE DEF len
        <5> QED BY <2>3, <3>1, <5>1
      <4> QED BY <4>1, <4>2 DEF Holds
    <3>5. (p + 1) + Len(s) - 1 = last /\ Len(s) - 1 = len - 2 /\ len >= 2 /\ last - (len - 1) = p
          /\ len - 1 \in 1 .. last - 1 /\ (len - 1) - 1 = len - 2
      <4> HIDE DEF len
      <4> QED BY <2>3, <3>1, <3>3
    <3>6. top[len - 2] = u
      BY <3>2, <3>4, <3>5 DEF s
    <3>7. bytes[p] = Group + (x % Group)
      <4>1. 1 \in 1 .. len /\ p + 1 - 1 = p
        <5> HIDE DEF len
        <5> QED BY <2>3
      <4> HIDE DEF len
      <4> QED BY <2>3, <3>1, <4>1
    <3>8. top[len - 1] = ((Group + (x % Group)) % Group) + Group * u
      <4> HIDE DEF top, last, len, u
      <4> QED BY <2>4, <3>5, <3>6, <3>7 DEF ReadsTop
    <3>9. (Group + (x % Group)) % Group = x % Group
      <4> DEFINE r == x % Group
      <4>1. r \in 0 .. Group - 1 /\ Group \in Nat /\ Group > 0
        BY <3>1, CodecNumbers
      <4>2. Group + r = Group * 1 + r
        BY <4>1
      <4> HIDE DEF r
      <4>3. (Group * 1 + r) % Group = r
        BY <4>1, DivModOfSum
      <4> QED BY <4>2, <4>3 DEF r
    <3>10. (x % Group) + Group * u = x
      <4>1. Group * u \in Nat /\ x % Group \in Nat
        <5> HIDE DEF u
        <5> QED BY <3>1, CodecNumbers
      <4> QED BY <3>1, <4>1
    <3> QED BY <2>2, <3>8, <3>9, <3>10
  <2> QED BY <2>1, <2>5, <2>6, CodecNumbers
<1>2. D = {}
  <2> SUFFICES ASSUME D # {} PROVE FALSE
    OBVIOUS
  <2>1. D \subseteq Nat
    BY CodecNumbers
  <2> HIDE DEF D
  <2> QED BY <1>1, <2>1, LeastNumber
<1>3. v \notin D
  <2> HIDE DEF D
  <2> QED BY <1>2
<1> QED BY <1>3

\* The least number of a set.
LEMMA MinIs ==
  ASSUME NEW S, S \subseteq Nat, NEW x \in S, \A y \in S : x <= y
  PROVE  Min(S) = x
<1>1. Min(S) \in S /\ \A y \in S : Min(S) <= y
  BY DEF Min
<1>2. Min(S) \in Nat /\ x \in Nat /\ Min(S) <= x /\ x <= Min(S)
  BY <1>1
<1> HIDE DEF Min
<1> QED BY <1>2

\* The first group from pos on that is not marked.
EndsAt(bytes, pos, last) ==
  last \in pos .. Len(bytes) /\ bytes[last] < Group /\ \A i \in pos .. last - 1 : bytes[i] >= Group

\* read_varint looks at the groups up to there.
LEMMA ReadAt ==
  ASSUME NEW bytes \in Seq(Byte), NEW pos \in Nat \ {0}, NEW last, EndsAt(bytes, pos, last)
  PROVE  ReadVarint(bytes, pos) =
           IF last - pos >= MaxGroups \/ Overlong(bytes, pos, last) THEN Bad
           ELSE [val |-> GroupsValue(bytes, pos, last), next |-> last + 1]
<1> DEFINE ends == {i \in pos .. Len(bytes) : bytes[i] < Group}
<1>1. last \in ends /\ ends \subseteq Nat
  BY DEF EndsAt
<1>2. ASSUME NEW y \in ends
      PROVE  last <= y
  <2>1. y \in pos .. Len(bytes) /\ bytes[y] < Group /\ y \in Nat /\ last \in Nat
    BY DEF EndsAt
  <2>2. bytes[y] \in Nat /\ Group \in Nat
    BY <2>1, GroupOf, CodecNumbers
  <2>3. y \notin pos .. last - 1
    BY <2>1, <2>2 DEF EndsAt
  <2> QED BY <2>1, <2>3
<1>3. Min(ends) = last
  <2> HIDE DEF ends
  <2> QED BY <1>1, <1>2, MinIs
<1>4. ReadVarint(bytes, pos) =
        IF ends = {} \/ Min(ends) - pos >= MaxGroups \/ Overlong(bytes, pos, Min(ends)) THEN Bad
        ELSE [val |-> GroupsValue(bytes, pos, Min(ends)), next |-> Min(ends) + 1]
  BY DEF ReadVarint
<1>5. ends # {}
  BY <1>1
<1> HIDE DEF ends
<1> QED BY <1>3, <1>4, <1>5

\* What a number that is read is, and where it ends.
LEMMA ReadGood ==
  ASSUME NEW bytes \in Seq(Byte), NEW pos \in Nat \ {0}, ReadVarint(bytes, pos) # Bad
  PROVE  \E last : /\ EndsAt(bytes, pos, last)
                   /\ ~(last - pos >= MaxGroups) /\ ~Overlong(bytes, pos, last)
<1> DEFINE ends == {i \in pos .. Len(bytes) : bytes[i] < Group}
<1>1. ends # {} /\ ends \subseteq Nat
  BY DEF ReadVarint
<1>2. PICK last \in ends : \A y \in ends : last <= y
  <2> HIDE DEF ends
  <2> QED BY <1>1, LeastNumber
<1>3. last \in pos .. Len(bytes) /\ bytes[last] < Group
  OBVIOUS
<1>4. ASSUME NEW i \in pos .. last - 1
      PROVE  bytes[i] >= Group
  <2>1. i \in 1 .. Len(bytes) /\ i < last
    BY <1>3
  <2>2. i \notin ends
    <3> HIDE DEF ends
    <3> QED BY <1>2, <1>3, <2>1
  <2>3. bytes[i] \in Nat /\ Group \in Nat
    BY <2>1, GroupOf, CodecNumbers
  <2> QED BY <2>1, <2>2, <2>3
<1>5. EndsAt(bytes, pos, last)
  BY <1>3, <1>4 DEF EndsAt
<1> QED BY <1>5, ReadAt

\* The value is one of its width.
LEMMA ValueInWidth ==
  ASSUME NEW bytes \in Seq(Byte), NEW pos \in Nat \ {0}, NEW last \in pos .. Len(bytes)
  PROVE  GroupsValue(bytes, pos, last) \in 0 .. U64 - 1
<1> DEFINE x == GroupsTop(bytes, last)[last - pos]
<1>1. x \in Nat
  <2>1. last \in 1 .. Len(bytes) /\ last - pos \in 0 .. last - 1
    OBVIOUS
  <2>2. ReadsTop(GroupsTop(bytes, last), bytes, last)
    BY <2>1, TopLoop
  <2> QED BY <2>1, <2>2 DEF ReadsTop
<1>2. x % U64 \in Nat /\ x % U64 < U64
  <2> HIDE DEF x
  <2> QED BY <1>1, CodecNumbers, DivMod
<1> QED BY <1>2, CodecNumbers DEF GroupsValue

LEMMA ReadRange ==
  ASSUME NEW bytes \in Seq(Byte), NEW pos \in Nat \ {0}, ReadVarint(bytes, pos) # Bad
  PROVE  /\ ReadVarint(bytes, pos).val \in 0 .. U64 - 1
         /\ ReadVarint(bytes, pos).next \in pos + 1 .. Len(bytes) + 1
<1>1. PICK last : /\ EndsAt(bytes, pos, last)
                  /\ ~(last - pos >= MaxGroups) /\ ~Overlong(bytes, pos, last)
  BY ReadGood
<1>2. ReadVarint(bytes, pos) = [val |-> GroupsValue(bytes, pos, last), next |-> last + 1]
  BY <1>1, ReadAt
<1>3. last \in pos .. Len(bytes)
  BY <1>1 DEF EndsAt
<1>4. GroupsValue(bytes, pos, last) \in 0 .. U64 - 1
  BY <1>3, ValueInWidth
<1>5. last + 1 \in pos + 1 .. Len(bytes) + 1
  BY <1>3
<1> QED BY <1>2, <1>4, <1>5

\* Both ways of the loop agree when the bytes do.
LEMMA TopUnique ==
  ASSUME NEW bytes, NEW more, NEW last \in Nat \ {0}, \A i \in 1 .. last : bytes[i] = more[i],
         NEW f, NEW g, ReadsTop(f, bytes, last), ReadsTop(g, more, last)
  PROVE  \A n \in 0 .. last - 1 : f[n] = g[n]
<1> DEFINE S == {n \in Nat : n <= last - 1 => f[n] = g[n]}
<1>1. 0 \in S
  BY DEF ReadsTop
<1>2. ASSUME NEW n \in Nat, n \in S
      PROVE  n + 1 \in S
  <2> SUFFICES ASSUME n + 1 <= last - 1 PROVE f[n + 1] = g[n + 1]
    OBVIOUS
  <2>1. f[n] = g[n] /\ n + 1 \in 1 .. last - 1 /\ (n + 1) - 1 = n /\ last - (n + 1) \in 1 .. last
    BY <1>2
  <2>2. f[n + 1] = (bytes[last - (n + 1)] % Group) + Group * f[n]
    BY <2>1 DEF ReadsTop
  <2>3. g[n + 1] = (more[last - (n + 1)] % Group) + Group * g[n]
    BY <2>1 DEF ReadsTop
  <2>4. bytes[last - (n + 1)] = more[last - (n + 1)]
    BY <2>1
  <2> QED BY <2>1, <2>2, <2>3, <2>4
<1> HIDE DEF S
<1>3. \A n \in Nat : n \in S
  BY <1>1, <1>2, Induct
<1> QED BY <1>3 DEF S

\* A number that is read stays what it is when bytes follow.
LEMMA ReadSame ==
  ASSUME NEW bytes \in Seq(Byte), NEW more \in Seq(Byte), Len(bytes) <= Len(more),
         \A i \in 1 .. Len(bytes) : bytes[i] = more[i],
         NEW pos \in Nat \ {0}, ReadVarint(bytes, pos) # Bad
  PROVE  ReadVarint(more, pos) = ReadVarint(bytes, pos)
<1>1. PICK last : /\ EndsAt(bytes, pos, last)
                  /\ ~(last - pos >= MaxGroups) /\ ~Overlong(bytes, pos, last)
  BY ReadGood
<1>2. ReadVarint(bytes, pos) = [val |-> GroupsValue(bytes, pos, last), next |-> last + 1]
  BY <1>1, ReadAt
<1>3. last \in pos .. Len(bytes) /\ last \in 1 .. Len(bytes) /\ last \in 1 .. Len(more) /\ last \in Nat
  BY <1>1 DEF EndsAt
<1>4. EndsAt(more, pos, last)
  <2>1. last \in pos .. Len(more) /\ more[last] < Group
    BY <1>1, <1>3 DEF EndsAt
  <2>2. ASSUME NEW i \in pos .. last - 1
        PROVE  more[i] >= Group
    <3>1. i \in 1 .. Len(bytes)
      BY <1>3
    <3> QED BY <1>1, <3>1 DEF EndsAt
  <2> QED BY <2>1, <2>2 DEF EndsAt
<1>5. ~Overlong(more, pos, last)
  BY <1>1, <1>3 DEF Overlong
<1>6. GroupsValue(more, pos, last) = GroupsValue(bytes, pos, last)
  <2>1. ReadsTop(GroupsTop(bytes, last), bytes, last) /\ ReadsTop(GroupsTop(more, last), more, last)
    BY <1>3, TopLoop
  <2>2. \A i \in 1 .. last : bytes[i] = more[i]
    BY <1>3
  <2>3. last - pos \in 0 .. last - 1 /\ last \in Nat \ {0}
    BY <1>3
  <2>4. \A n \in 0 .. last - 1 : GroupsTop(bytes, last)[n] = GroupsTop(more, last)[n]
    BY <2>1, <2>2, <2>3, TopUnique
  <2> QED BY <2>3, <2>4 DEF GroupsValue
<1>7. ReadVarint(more, pos) = [val |-> GroupsValue(more, pos, last), next |-> last + 1]
  BY <1>1, <1>4, <1>5, ReadAt
<1> QED BY <1>2, <1>6, <1>7

\* read_varint gives back what write_varint wrote.
LEMMA ReadBack ==
  ASSUME NEW bytes \in Seq(Byte), NEW v \in 0 .. U64 - 1, NEW pos, Holds(bytes, pos, WriteVarint(v))
  PROVE  ReadVarint(bytes, pos) = [val |-> v, next |-> pos + VarintLen(v)]
<1> DEFINE len == Len(Groups[v])
           last == pos + len - 1
<1>1. len \in Nat \ {0} /\ len <= MaxGroups /\ MaxGroups \in Nat
  <2>1. U64 - 1 \in 0 .. U64 - 1 /\ v <= U64 - 1
    BY CodecNumbers
  <2> QED BY <2>1, GroupsForm, GroupsOrder DEF MaxGroups, VarintLen, WriteVarint
<1>2. /\ pos \in Nat \ {0} /\ last <= Len(bytes)
      /\ \A i \in 1 .. len : bytes[pos + i - 1] = Groups[v][i]
  BY DEF Holds, WriteVarint
<1>3. /\ \A i \in 1 .. len - 1 : Groups[v][i] >= Group
      /\ Groups[v][len] < Group
      /\ v # 0 => Groups[v][len] # 0
      /\ len > 1 => v # 0
  BY GroupsForm
<1>4. GroupsTop(bytes, last)[len - 1] = v
  BY GroupsBack DEF WriteVarint
<1> HIDE DEF len
<1>5. last \in pos .. Len(bytes) /\ last - pos = len - 1 /\ last + 1 = pos + len
  BY <1>1, <1>2
<1>6. bytes[last] = Groups[v][len]
  <2>1. len \in 1 .. len
    BY <1>1
  <2> QED BY <1>2, <2>1
<1>7. EndsAt(bytes, pos, last)
  <2>1. ASSUME NEW i \in pos .. last - 1
        PROVE  bytes[i] >= Group
    <3>1. i - pos + 1 \in 1 .. len - 1 /\ i - pos + 1 \in 1 .. len /\ pos + (i - pos + 1) - 1 = i
      BY <1>1, <1>2
    <3>2. bytes[i] = Groups[v][i - pos + 1]
      BY <1>2, <3>1
    <3> QED BY <1>3, <3>1, <3>2
  <2> HIDE DEF last
  <2> QED BY <1>3, <1>5, <1>6, <2>1 DEF EndsAt
<1>8. ~(last - pos >= MaxGroups)
  BY <1>1, <1>5
<1>9. ~Overlong(bytes, pos, last)
  <2> SUFFICES ASSUME last > pos, bytes[last] = 0 PROVE FALSE
    BY DEF Overlong
  <2>1. len > 1
    BY <1>1, <1>2, <1>5
  <2> HIDE DEF last
  <2> QED BY <1>3, <1>6, <2>1
<1>10. GroupsValue(bytes, pos, last) = v
  <2>1. v % U64 = v
    BY CodecNumbers
  <2>2. GroupsTop(bytes, last)[last - pos] = v
    <3> HIDE DEF last
    <3> QED BY <1>4, <1>5
  <2> HIDE DEF last
  <2> QED BY <2>1, <2>2 DEF GroupsValue
<1>11. ReadVarint(bytes, pos) = [val |-> GroupsValue(bytes, pos, last), next |-> last + 1]
  <2> HIDE DEF last
  <2> QED BY <1>2, <1>7, <1>8, <1>9, ReadAt
<1> HIDE DEF last
<1> QED BY <1>5, <1>10, <1>11 DEF VarintLen, WriteVarint, len

-----------------------------------------------------------------------------
(***************************************************************************)
(* Records.                                                                *)
(***************************************************************************)
\* Where the parts of a concatenation are.
LEMMA Joined ==
  ASSUME NEW a \in Seq(Byte), NEW b \in Seq(Byte)
  PROVE  /\ a \o b \in Seq(Byte) /\ Len(a \o b) = Len(a) + Len(b)
         /\ \A i \in 1 .. Len(a) : (a \o b)[i] = a[i]
         /\ Holds(a \o b, Len(a) + 1, b)
         /\ \A pos, s : s \in Seq(Byte) /\ Holds(a, pos, s) => Holds(a \o b, pos, s)
<1>1. /\ a \o b \in Seq(Byte) /\ Len(a \o b) = Len(a) + Len(b)
      /\ \A i \in 1 .. Len(a) + Len(b) : (a \o b)[i] = IF i <= Len(a) THEN a[i] ELSE b[i - Len(a)]
  BY ConcatProperties
<1>2. Len(a) \in Nat /\ Len(b) \in Nat
  OBVIOUS
<1> DEFINE c == a \o b
<1> HIDE DEF c
<1>3. \A i \in 1 .. Len(a) : c[i] = a[i]
  BY <1>1, <1>2 DEF c
<1>4. \A i \in 1 .. Len(b) : c[(Len(a) + 1) + i - 1] = b[i]
  <2> SUFFICES ASSUME NEW i \in 1 .. Len(b) PROVE c[(Len(a) + 1) + i - 1] = b[i]
    OBVIOUS
  <2>1. (Len(a) + 1) + i - 1 \in 1 .. Len(a) + Len(b) /\ ~((Len(a) + 1) + i - 1 <= Len(a))
        /\ ((Len(a) + 1) + i - 1) - Len(a) = i
    BY <1>2
  <2> QED BY <1>1, <2>1 DEF c
<1>5. Holds(c, Len(a) + 1, b)
  BY <1>1, <1>2, <1>4 DEF Holds, c
<1>6. ASSUME NEW pos, NEW s \in Seq(Byte), Holds(a, pos, s)
      PROVE  Holds(c, pos, s)
  <2>1. pos \in Nat \ {0} /\ pos + Len(s) - 1 <= Len(a) /\ Len(s) \in Nat
    BY <1>6 DEF Holds
  <2>2. ASSUME NEW i \in 1 .. Len(s)
        PROVE  c[pos + i - 1] = s[i]
    <3>1. pos + i - 1 \in 1 .. Len(a)
      BY <1>2, <2>1
    <3>2. a[pos + i - 1] = s[i]
      BY <1>6 DEF Holds
    <3> QED BY <1>3, <3>1, <3>2
  <2>3. Len(c) = Len(a) + Len(b)
    BY <1>1 DEF c
  <2> QED BY <1>2, <2>1, <2>2, <2>3 DEF Holds
<1> QED BY <1>1, <1>3, <1>5, <1>6 DEF c

\* The end of a sequence from the position of its last part.
LEMMA LastPart ==
  ASSUME NEW a \in Seq(Byte), NEW s \in Seq(Byte), NEW pos, Holds(a, pos, s),
         pos + Len(s) - 1 = Len(a)
  PROVE  SubSeq(a, pos, Len(a)) = s
<1> DEFINE t == SubSeq(a, pos, Len(a))
<1>1. pos \in Nat \ {0} /\ Len(a) \in Nat /\ Len(s) \in Nat
      /\ \A i \in 1 .. Len(s) : a[pos + i - 1] = s[i]
  BY DEF Holds
<1>2. \A i \in pos .. Len(a) : a[i] \in Byte
  BY <1>1
<1>3. /\ t \in Seq(Byte) /\ Len(t) = IF pos <= Len(a) THEN Len(a) - pos + 1 ELSE 0
      /\ \A i \in 1 .. Len(a) - pos + 1 : t[i] = a[pos + i - 1]
  BY <1>1, <1>2, SubSeqProperties
<1> HIDE DEF t
<1>4. Len(t) = Len(s)
  BY <1>1, <1>3
<1>5. \A i \in 1 .. Len(t) : t[i] = s[i]
  BY <1>1, <1>3, <1>4
<1> QED BY <1>3, <1>4, <1>5, SeqEqual DEF t

\* The first n bytes of a sequence.
LEMMA FirstPart ==
  ASSUME NEW a \in Seq(Byte), NEW n \in 0 .. Len(a)
  PROVE  /\ SubSeq(a, 1, n) \in Seq(Byte) /\ Len(SubSeq(a, 1, n)) = n
         /\ \A i \in 1 .. n : SubSeq(a, 1, n)[i] = a[i]
<1>1. \A i \in 1 .. n : a[i] \in Byte
  OBVIOUS
<1>2. /\ SubSeq(a, 1, n) \in Seq(Byte) /\ Len(SubSeq(a, 1, n)) = IF 1 <= n THEN n - 1 + 1 ELSE 0
      /\ \A i \in 1 .. n - 1 + 1 : SubSeq(a, 1, n)[i] = a[1 + i - 1]
  BY <1>1, SubSeqProperties
<1>3. n \in Nat
  OBVIOUS
<1> QED BY <1>2, <1>3

\* The fields of the header, read one after the other.
Seq1(bytes) == ReadVarint(bytes, 2)
Stream1(bytes) == ReadVarint(bytes, Seq1(bytes).next)
Len1(bytes) == ReadVarint(bytes, Stream1(bytes).next + 1)

\* What of the header Record::decode asks for.
HeaderReads(bytes) ==
  /\ bytes # <<>> /\ bytes[1] \in 1 .. Types
  /\ Seq1(bytes) # Bad /\ Stream1(bytes) # Bad /\ Stream1(bytes).val < U32 /\ Len1(bytes) # Bad

RecordRead(bytes) ==
  [kind |-> bytes[1], seq |-> Seq1(bytes).val, stream_id |-> Stream1(bytes).val,
   flags |-> bytes[Stream1(bytes).next],
   ciphertext |-> SubSeq(bytes, Len1(bytes).next, Len(bytes))]

LEMMA DecodeIs ==
  ASSUME NEW bytes
  PROVE  Decode(bytes) = IF HeaderReads(bytes) /\ EndsThere(bytes, Len1(bytes))
                         THEN RecordRead(bytes) ELSE Bad
BY DEF Decode, HeaderReads, RecordRead, Seq1, Stream1, Len1

LEMMA FieldsRange ==
  ASSUME NEW bytes \in Seq(Byte), HeaderReads(bytes)
  PROVE  /\ Seq1(bytes).val \in 0 .. U64 - 1 /\ Seq1(bytes).next \in Nat \ {0}
         /\ Stream1(bytes).val \in 0 .. U32 - 1 /\ Stream1(bytes).next \in 1 .. Len(bytes)
         /\ Stream1(bytes).next + 1 \in Nat \ {0}
         /\ Len1(bytes).val \in 0 .. U64 - 1 /\ Len1(bytes).next \in 1 .. Len(bytes) + 1
<1>1. 2 \in Nat \ {0} /\ Len(bytes) \in Nat
  OBVIOUS
<1>2. Seq1(bytes).val \in 0 .. U64 - 1 /\ Seq1(bytes).next \in 3 .. Len(bytes) + 1
  BY <1>1, ReadRange DEF HeaderReads, Seq1
<1>3. Seq1(bytes).next \in Nat \ {0}
  BY <1>2
<1>4. Stream1(bytes).val \in 0 .. U64 - 1 /\ Stream1(bytes).next \in Seq1(bytes).next + 1 .. Len(bytes) + 1
  BY <1>3, ReadRange DEF HeaderReads, Stream1
<1>5. Stream1(bytes).next + 1 \in Nat \ {0} /\ Stream1(bytes).next \in Nat \ {0}
  BY <1>3, <1>4
<1>6. Len1(bytes).val \in 0 .. U64 - 1 /\ Len1(bytes).next \in (Stream1(bytes).next + 1) + 1 .. Len(bytes) + 1
  BY <1>5, ReadRange DEF HeaderReads, Len1
<1>7. Stream1(bytes).val \in 0 .. U32 - 1
  BY <1>4, CodecNumbers DEF HeaderReads
<1> QED BY <1>1, <1>2, <1>3, <1>4, <1>5, <1>6, <1>7

\* Record::decode answers with a record or not at all.
LEMMA DecodeRange ==
  ASSUME NEW bytes \in Seq(Byte)
  PROVE  /\ Decode(bytes) # Bad <=> HeaderReads(bytes) /\ EndsThere(bytes, Len1(bytes))
         /\ Decode(bytes) # Bad => Decode(bytes) \in WireRecords
<1>1. ASSUME HeaderReads(bytes)
      PROVE  RecordRead(bytes) \in WireRecords
  <2>1. bytes[Stream1(bytes).next] \in Byte
    BY <1>1, FieldsRange
  <2>2. SubSeq(bytes, Len1(bytes).next, Len(bytes)) \in Seq(Byte)
    <3> DEFINE m == Len1(bytes).next
    <3>1. m \in Int /\ m >= 1 /\ Len(bytes) \in Int
      BY <1>1, FieldsRange
    <3> HIDE DEF m
    <3>2. \A i \in m .. Len(bytes) : bytes[i] \in Byte
      BY <3>1
    <3>3. SubSeq(bytes, m, Len(bytes)) \in Seq(Byte)
      BY <3>1, <3>2, SubSeqProperties
    <3> QED BY <3>3 DEF m
  <2>3. bytes[1] \in 1 .. Types /\ Seq1(bytes).val \in 0 .. U64 - 1 /\ Stream1(bytes).val \in 0 .. U32 - 1
    BY <1>1, FieldsRange DEF HeaderReads
  <2> QED BY <2>1, <2>2, <2>3 DEF RecordRead, WireRecords
<1>2. RecordRead(bytes) \in WireRecords => RecordRead(bytes) # Bad
  BY BadAssumption
<1> QED BY <1>1, <1>2, DecodeIs

\* The header is read alike whatever bytes follow, and it says where the record ends: of two
\* prefixes of the same bytes only one is a record.
THEOREM RecordsEndOnce ==
  ASSUME NEW a \in Seq(Byte), NEW b \in Seq(Byte), Len(a) <= Len(b),
         \A i \in 1 .. Len(a) : a[i] = b[i],
         Decode(a) # Bad, Decode(b) # Bad
  PROVE  Len(a) = Len(b)
<1>1. HeaderReads(a) /\ EndsThere(a, Len1(a)) /\ EndsThere(b, Len1(b))
  BY DecodeRange
<1>2. Seq1(b) = Seq1(a)
  <2>1. 2 \in Nat \ {0}
    OBVIOUS
  <2> QED BY <1>1, <2>1, ReadSame DEF HeaderReads, Seq1
<1>3. Stream1(b) = Stream1(a)
  BY <1>1, <1>2, FieldsRange, ReadSame DEF HeaderReads, Stream1
<1>4. Len1(b) = Len1(a)
  BY <1>1, <1>3, FieldsRange, ReadSame DEF HeaderReads, Len1
<1> QED BY <1>1, <1>4 DEF EndsThere

\* So a plaintext with padding has at most one cut.
LEMMA OneCut ==
  ASSUME NEW plain \in Seq(Byte), NEW m \in Cuts(plain), NEW n \in Cuts(plain)
  PROVE  m = n
<1>1. \A k \in Cuts(plain) : /\ k \in 0 .. Len(plain) /\ k \in Nat
                             /\ SubSeq(plain, 1, k) \in Seq(Byte) /\ Len(SubSeq(plain, 1, k)) = k
                             /\ \A i \in 1 .. k : SubSeq(plain, 1, k)[i] = plain[i]
                             /\ Decode(SubSeq(plain, 1, k)) # Bad
  BY FirstPart DEF Cuts
<1>2. ASSUME NEW k \in Cuts(plain), NEW l \in Cuts(plain), k <= l
      PROVE  k = l
  <2> DEFINE a == SubSeq(plain, 1, k)
             b == SubSeq(plain, 1, l)
  <2>1. /\ a \in Seq(Byte) /\ b \in Seq(Byte) /\ Len(a) = k /\ Len(b) = l /\ k \in Nat /\ l \in Nat
        /\ Decode(a) # Bad /\ Decode(b) # Bad
        /\ \A i \in 1 .. k : a[i] = plain[i]
        /\ \A i \in 1 .. l : b[i] = plain[i]
    BY <1>1
  <2> HIDE DEF a, b
  <2>2. \A i \in 1 .. Len(a) : a[i] = b[i]
    BY <1>2, <2>1
  <2> QED BY <1>2, <2>1, <2>2, RecordsEndOnce
<1>3. m \in Nat /\ n \in Nat
  BY <1>1
<1> QED BY <1>2, <1>3

\* Record::decode gives back what Record::encode wrote.
THEOREM RecordsComeBack ==
  ASSUME NEW rec \in WireRecords, Len(rec.ciphertext) < U64
  PROVE  Encode(rec) \in Seq(Byte) /\ Encode(rec) # <<>> /\ Decode(Encode(rec)) = rec
<1> DEFINE ct == rec.ciphertext
           k == <<rec.kind>>
           w1 == WriteVarint(rec.seq)
           w2 == WriteVarint(rec.stream_id)
           f == <<rec.flags>>
           w3 == WriteVarint(Len(ct))
           h1 == k \o w1
           h2 == h1 \o w2
           h3 == h2 \o f
           h4 == h3 \o w3
           e == h4 \o ct
           l1 == Len(w1)
           l2 == Len(w2)
           l3 == Len(w3)
<1>1. /\ rec.kind \in 1 .. Types /\ rec.seq \in 0 .. U64 - 1 /\ rec.stream_id \in 0 .. U32 - 1
      /\ rec.flags \in Byte /\ ct \in Seq(Byte)
  BY DEF WireRecords
<1>2. rec.stream_id \in 0 .. U64 - 1 /\ Len(ct) \in 0 .. U64 - 1 /\ rec.kind \in Byte
  BY <1>1, CodecNumbers, CodecAssumption DEF Byte
<1>3. /\ w1 \in Seq(Byte) /\ w2 \in Seq(Byte) /\ w3 \in Seq(Byte)
      /\ l1 \in Nat \ {0} /\ l2 \in Nat \ {0} /\ l3 \in Nat \ {0}
  BY <1>1, <1>2, GroupsForm DEF WriteVarint
<1>4. k \in Seq(Byte) /\ Len(k) = 1 /\ k[1] = rec.kind /\ f \in Seq(Byte) /\ Len(f) = 1 /\ f[1] = rec.flags
  BY <1>1, <1>2
<1>5. e = Encode(rec)
  BY DEF Encode, HeaderBytes
<1> HIDE DEF ct, k, w1, w2, f, w3
<1>6. h1 \in Seq(Byte) /\ Len(h1) = 1 + l1 /\ h1[1] = rec.kind /\ Holds(h1, 2, w1)
  <2>1. Len(h1) = Len(k) + l1 /\ h1 \in Seq(Byte) /\ Holds(h1, Len(k) + 1, w1)
        /\ \A i \in 1 .. Len(k) : h1[i] = k[i]
    BY <1>3, <1>4, Joined
  <2> HIDE DEF h1
  <2> QED BY <1>4, <2>1
<1> HIDE DEF h1
<1>7. /\ h2 \in Seq(Byte) /\ Len(h2) = 1 + l1 + l2 /\ h2[1] = rec.kind
      /\ Holds(h2, 2, w1) /\ Holds(h2, l1 + 2, w2)
  <2>1. /\ Len(h2) = Len(h1) + l2 /\ h2 \in Seq(Byte) /\ Holds(h2, Len(h1) + 1, w2)
        /\ \A i \in 1 .. Len(h1) : h2[i] = h1[i]
        /\ \A pos, s : s \in Seq(Byte) /\ Holds(h1, pos, s) => Holds(h2, pos, s)
    BY <1>3, <1>6, Joined
  <2>2. Len(h1) + 1 = l1 + 2 /\ 1 \in 1 .. Len(h1)
    BY <1>3, <1>6
  <2> HIDE DEF h2
  <2> QED BY <1>3, <1>6, <2>1, <2>2
<1> HIDE DEF h2
<1>8. /\ h3 \in Seq(Byte) /\ Len(h3) = 2 + l1 + l2 /\ h3[1] = rec.kind
      /\ Holds(h3, 2, w1) /\ Holds(h3, l1 + 2, w2) /\ Holds(h3, l1 + l2 + 2, f)
  <2>1. /\ Len(h3) = Len(h2) + Len(f) /\ h3 \in Seq(Byte) /\ Holds(h3, Len(h2) + 1, f)
        /\ \A i \in 1 .. Len(h2) : h3[i] = h2[i]
        /\ \A pos, s : s \in Seq(Byte) /\ Holds(h2, pos, s) => Holds(h3, pos, s)
    BY <1>4, <1>7, Joined
  <2>2. Len(h2) + 1 = l1 + l2 + 2 /\ 1 \in 1 .. Len(h2)
    BY <1>3, <1>7
  <2> HIDE DEF h3
  <2> QED BY <1>3, <1>4, <1>7, <2>1, <2>2
<1> HIDE DEF h3
<1>9. /\ h4 \in Seq(Byte) /\ Len(h4) = 2 + l1 + l2 + l3 /\ h4[1] = rec.kind
      /\ Holds(h4, 2, w1) /\ Holds(h4, l1 + 2, w2) /\ Holds(h4, l1 + l2 + 2, f)
      /\ Holds(h4, l1 + l2 + 3, w3)
  <2>1. /\ Len(h4) = Len(h3) + l3 /\ h4 \in Seq(Byte) /\ Holds(h4, Len(h3) + 1, w3)
        /\ \A i \in 1 .. Len(h3) : h4[i] = h3[i]
        /\ \A pos, s : s \in Seq(Byte) /\ Holds(h3, pos, s) => Holds(h4, pos, s)
    BY <1>3, <1>8, Joined
  <2>2. Len(h3) + 1 = l1 + l2 + 3 /\ 1 \in 1 .. Len(h3)
    BY <1>3, <1>8
  <2> HIDE DEF h4
  <2> QED BY <1>3, <1>4, <1>8, <2>1, <2>2
<1> HIDE DEF h4
<1>10. /\ e \in Seq(Byte) /\ Len(e) = 2 + l1 + l2 + l3 + Len(ct) /\ e[1] = rec.kind
       /\ Holds(e, 2, w1) /\ Holds(e, l1 + 2, w2) /\ Holds(e, l1 + l2 + 2, f)
       /\ Holds(e, l1 + l2 + 3, w3) /\ Holds(e, l1 + l2 + l3 + 3, ct)
  <2>1. /\ Len(e) = Len(h4) + Len(ct) /\ e \in Seq(Byte) /\ Holds(e, Len(h4) + 1, ct)
        /\ \A i \in 1 .. Len(h4) : e[i] = h4[i]
        /\ \A pos, s : s \in Seq(Byte) /\ Holds(h4, pos, s) => Holds(e, pos, s)
    BY <1>1, <1>9, Joined
  <2>2. Len(h4) + 1 = l1 + l2 + l3 + 3 /\ 1 \in 1 .. Len(h4) /\ Len(ct) \in Nat
    BY <1>1, <1>3, <1>9
  <2> HIDE DEF e
  <2> QED BY <1>3, <1>4, <1>9, <2>1, <2>2
<1> HIDE DEF e
<1>11. Seq1(e) = [val |-> rec.seq, next |-> 2 + l1]
  BY <1>1, <1>10, ReadBack DEF Seq1, w1, VarintLen
<1>12. Stream1(e) = [val |-> rec.stream_id, next |-> l1 + 2 + l2]
  <2>1. Seq1(e).next = l1 + 2
    BY <1>3, <1>11
  <2> QED BY <1>2, <1>10, <2>1, ReadBack DEF Stream1, w2, VarintLen
<1>13. Len1(e) = [val |-> Len(ct), next |-> l1 + l2 + 3 + l3]
  <2>1. Stream1(e).next + 1 = l1 + l2 + 3
    BY <1>3, <1>12
  <2> QED BY <1>2, <1>10, <2>1, ReadBack DEF Len1, w3, VarintLen
<1>14. HeaderReads(e)
  <2>1. /\ Seq1(e) \in [val : Nat, next : Nat] /\ Stream1(e) \in [val : Nat, next : Nat]
        /\ Len1(e) \in [val : Nat, next : Nat]
    BY <1>1, <1>2, <1>3, <1>11, <1>12, <1>13, CodecNumbers
  <2>2. Seq1(e) # Bad /\ Stream1(e) # Bad /\ Len1(e) # Bad
    BY <2>1, BadAssumption
  <2>3. Stream1(e).val < U32 /\ e # <<>>
    BY <1>1, <1>3, <1>10, <1>12, CodecNumbers
  <2> QED BY <1>1, <1>10, <2>2, <2>3 DEF HeaderReads
<1>15. EndsThere(e, Len1(e))
  BY <1>1, <1>3, <1>10, <1>13 DEF EndsThere
<1>16. SubSeq(e, Len1(e).next, Len(e)) = ct
  <2>1. Len1(e).next = l1 + l2 + l3 + 3 /\ (l1 + l2 + l3 + 3) + Len(ct) - 1 = Len(e)
    BY <1>1, <1>3, <1>10, <1>13
  <2> QED BY <1>1, <1>10, <2>1, LastPart
<1>17. e[Stream1(e).next] = rec.flags
  <2>1. Stream1(e).next = (l1 + l2 + 2) + 1 - 1 /\ 1 \in 1 .. Len(f)
    BY <1>3, <1>4, <1>12
  <2> QED BY <1>4, <1>10, <2>1 DEF Holds
<1>18. Decode(e) = rec
  <2>1. Decode(e) = RecordRead(e)
    BY <1>14, <1>15, DecodeIs
  <2>2. RecordRead(e) = [kind |-> rec.kind, seq |-> rec.seq, stream_id |-> rec.stream_id,
                         flags |-> rec.flags, ciphertext |-> ct]
    <3>1. Seq1(e).val = rec.seq /\ Stream1(e).val = rec.stream_id /\ e[1] = rec.kind
      BY <1>10, <1>11, <1>12
    <3> QED BY <1>16, <1>17, <3>1, Zenon DEF RecordRead
  <2>3. rec = [kind |-> rec.kind, seq |-> rec.seq, stream_id |-> rec.stream_id,
               flags |-> rec.flags, ciphertext |-> ct]
    BY DEF WireRecords, ct
  <2> QED BY <2>1, <2>2, <2>3
<1>19. e # <<>>
  BY <1>14 DEF HeaderReads
<1> QED BY <1>5, <1>10, <1>18, <1>19

-----------------------------------------------------------------------------
(***************************************************************************)
(* The frames that hold a record.                                          *)
(***************************************************************************)
\* A frame opens under the key it was sealed with, and under no other.
LEMMA Opens ==
  ASSUME NEW key, NEW plain \in Seq(Byte)
  PROVE  /\ OpenFrame(key, SealFrame(key, plain)) = plain
         /\ \A other : other # key => OpenFrame(other, SealFrame(key, plain)) = Bad
BY DEF OpenFrame, SealFrame

\* The length-prefixed frame and the Reality frame, under the right and under another key.
LEMMA FramesBack ==
  ASSUME NEW rec \in WireRecords, Len(rec.ciphertext) < U64, NEW key, NEW other, other # key
  PROVE  /\ DecodeFrame(EncodeFrame(rec)) = rec
         /\ DecodeRealityFrame(key, EncodeRealityFrame(key, rec)) = rec
         /\ DecodeRealityFrame(other, EncodeRealityFrame(key, rec)) = Bad
<1>1. Encode(rec) \in Seq(Byte) /\ Decode(Encode(rec)) = rec
  BY RecordsComeBack
<1>2. Encode(rec) # Bad
  BY <1>1, BadAssumption
<1>3. DecodeFrame(EncodeFrame(rec)) = rec
  BY <1>1 DEF DecodeFrame, EncodeFrame
<1>4. OpenFrame(key, SealFrame(key, Encode(rec))) = Encode(rec)
  BY <1>1, Opens
<1>5. OpenFrame(other, SealFrame(key, Encode(rec))) = Bad
  BY <1>1, Opens
<1> QED BY <1>1, <1>2, <1>3, <1>4, <1>5 DEF DecodeRealityFrame, EncodeRealityFrame

\* The greatest number of a set of one.
LEMMA MaxOfOne ==
  ASSUME NEW S, NEW x \in S, x \in Nat, \A y \in S : y = x
  PROVE  Max(S) = x
<1>1. x >= x
  OBVIOUS
<1> QED BY <1>1 DEF Max

\* Whatever padding a record was given, it comes out of the padded frame as it went in.
LEMMA PaddedBack ==
  ASSUME NEW rec \in WireRecords, Len(rec.ciphertext) < U64, NEW pad \in Seq(Byte),
         NEW key, NEW other, other # key
  PROVE  /\ DecodeCoverFrame(key, EncodeCoverFrame(key, rec, pad)) = rec
         /\ DecodeCoverFrame(other, EncodeCoverFrame(key, rec, pad)) = Bad
<1> DEFINE e == Encode(rec)
           plain == e \o pad
           n == Len(e)
<1>1. e \in Seq(Byte) /\ Decode(e) = rec /\ rec # Bad
  BY RecordsComeBack, BadAssumption
<1>2. plain \in Seq(Byte) /\ Len(plain) = n + Len(pad) /\ \A i \in 1 .. n : plain[i] = e[i]
  <2> HIDE DEF e
  <2> QED BY <1>1, Joined
<1>3. n \in 0 .. Len(plain) /\ n \in Nat
  BY <1>1, <1>2
<1>4. SubSeq(plain, 1, n) = e
  <2> HIDE DEF plain, e
  <2>1. /\ SubSeq(plain, 1, n) \in Seq(Byte) /\ Len(SubSeq(plain, 1, n)) = n
        /\ \A i \in 1 .. n : SubSeq(plain, 1, n)[i] = plain[i]
    BY <1>2, <1>3, FirstPart
  <2> QED BY <1>1, <1>2, <2>1, SeqEqual
<1> HIDE DEF e, plain, n
<1>5. n \in Cuts(plain)
  BY <1>1, <1>3, <1>4 DEF Cuts
<1>6. Max(Cuts(plain)) = n
  BY <1>2, <1>3, <1>5, OneCut, MaxOfOne
<1>7. plain # Bad
  BY <1>2, BadAssumption
<1>8. OpenFrame(key, SealFrame(key, plain)) = plain /\ OpenFrame(other, SealFrame(key, plain)) = Bad
  BY <1>2, Opens
<1>9. EncodeCoverFrame(key, rec, pad) = SealFrame(key, plain)
  BY DEF EncodeCoverFrame, plain, e
<1>10. Cuts(plain) # {}
  BY <1>5
<1> QED BY <1>1, <1>4, <1>6, <1>7, <1>8, <1>9, <1>10 DEF DecodeCoverFrame

-----------------------------------------------------------------------------
(***************************************************************************)
(* QUIC varints.                                                           *)
(***************************************************************************)
\* What n bytes hold: the next byte makes it Radix times as much.
LEMMA RangeLoop ==
  /\ Range62[1] = Quarter /\ \A n \in 2 .. 8 : Range62[n] = Radix * Range62[n - 1]
  /\ \A n \in 1 .. 8 : Range62[n] \in Nat \ {0}
<1> DEFINE step == [i \in 1 .. 7 |-> [t \in Nat |-> Radix * t]]
           Body(f) == [n \in 1 .. 8 |-> IF n = 1 THEN Quarter ELSE Radix * f[n - 1]]
<1>1. step \in [1 .. 7 -> [Nat -> Nat]]
  BY CodecNumbers
<1>2. PICK g \in [0 .. 7 -> Nat] : g[0] = Quarter /\ \A i \in 1 .. 7 : g[i] = step[i][g[i - 1]]
  <2> DEFINE m == 7
  <2>1. m \in Nat /\ Quarter \in Nat /\ step \in [1 .. m -> [Nat -> Nat]]
    <3> HIDE DEF step
    <3> QED BY <1>1, CodecNumbers
  <2>2. \E f \in [0 .. m -> Nat] : f[0] = Quarter /\ \A i \in 1 .. m : f[i] = step[i][f[i - 1]]
    <3> HIDE DEF m, step
    <3> QED BY <2>1, Recursion
  <2> HIDE DEF step
  <2> QED BY <2>2
<1> DEFINE f == [n \in 1 .. 8 |-> g[n - 1]]
<1>3. f = Body(f)
  <2>1. ASSUME NEW n \in 1 .. 8
        PROVE  f[n] = IF n = 1 THEN Quarter ELSE Radix * f[n - 1]
    <3>1. CASE n = 1
      BY <1>2, <3>1
    <3>2. CASE n # 1
      <4>1. n - 1 \in 1 .. 7 /\ n - 1 \in 1 .. 8 /\ g[(n - 1) - 1] \in Nat
        BY <1>2, <3>2
      <4>2. g[n - 1] = step[n - 1][g[(n - 1) - 1]]
        BY <1>2, <4>1
      <4> QED BY <3>2, <4>1, <4>2
    <3> QED BY <3>1, <3>2
  <2> HIDE DEF f
  <2>2. f = [n \in 1 .. 8 |-> f[n]]
    BY DEF f
  <2> QED BY <2>1, <2>2
<1>4. Range62 = CHOOSE h : h = Body(h)
  BY DEF Range62
<1>5. Range62 = Body(Range62)
  <2> HIDE DEF f, Body
  <2> QED BY <1>3, <1>4
<1>6. \A n \in 1 .. 8 : Range62[n] = IF n = 1 THEN Quarter ELSE Radix * Range62[n - 1]
  BY <1>5
<1>7. Range62[1] = Quarter /\ \A n \in 2 .. 8 : Range62[n] = Radix * Range62[n - 1]
  BY <1>6
<1>8. \A n \in 1 .. 8 : Range62[n] \in Nat \ {0}
  <2> DEFINE S == {n \in Nat : n <= 7 => Range62[n + 1] \in Nat \ {0}}
  <2>1. 0 \in S
    BY <1>7, CodecNumbers
  <2>2. ASSUME NEW n \in Nat, n \in S
        PROVE  n + 1 \in S
    <3> SUFFICES ASSUME n + 1 <= 7 PROVE Range62[(n + 1) + 1] \in Nat \ {0}
      OBVIOUS
    <3>1. Range62[n + 1] \in Nat \ {0} /\ (n + 1) + 1 \in 2 .. 8 /\ ((n + 1) + 1) - 1 = n + 1
      BY <2>2
    <3>2. Range62[(n + 1) + 1] = Radix * Range62[n + 1]
      BY <1>7, <3>1
    <3>3. Radix \in Nat \ {0}
      BY CodecNumbers
    <3> QED BY <3>1, <3>2, <3>3
  <2> HIDE DEF S
  <2>3. \A n \in Nat : n \in S
    BY <2>1, <2>2, Induct
  <2>4. ASSUME NEW n \in 1 .. 8
        PROVE  Range62[n] \in Nat \ {0}
    <3>1. n - 1 \in Nat /\ n - 1 <= 7 /\ (n - 1) + 1 = n
      OBVIOUS
    <3>2. Range62[(n - 1) + 1] \in Nat \ {0}
      BY <2>3, <3>1 DEF S
    <3> QED BY <3>1, <3>2
  <2> QED BY <2>4
<1> QED BY <1>7, <1>8

\* A number without its lowest bytes.
LEMMA DropLoop ==
  ASSUME NEW v \in Nat
  PROVE  /\ Drop(v, 0) = v /\ \A i \in 1 .. 7 : Drop(v, i) = Drop(v, i - 1) \div Radix
         /\ \A i \in 0 .. 7 : Drop(v, i) \in Nat
<1> DEFINE step == [i \in 1 .. 7 |-> [t \in Nat |-> t \div Radix]]
           Body(f) == [i \in 0 .. 7 |-> IF i = 0 THEN v ELSE f[i - 1] \div Radix]
           T == CHOOSE h : h = Body(h)
<1>1. step \in [1 .. 7 -> [Nat -> Nat]]
  BY CodecNumbers, DivMod
<1>2. PICK f \in [0 .. 7 -> Nat] : f[0] = v /\ \A i \in 1 .. 7 : f[i] = step[i][f[i - 1]]
  <2> DEFINE m == 7
  <2>1. m \in Nat /\ step \in [1 .. m -> [Nat -> Nat]]
    <3> HIDE DEF step
    <3> QED BY <1>1
  <2>2. \E f \in [0 .. m -> Nat] : f[0] = v /\ \A i \in 1 .. m : f[i] = step[i][f[i - 1]]
    <3> HIDE DEF m, step
    <3> QED BY <2>1, Recursion
  <2> HIDE DEF step
  <2> QED BY <2>2
<1>3. f = Body(f)
  <2>1. ASSUME NEW n \in 0 .. 7
        PROVE  f[n] = IF n = 0 THEN v ELSE f[n - 1] \div Radix
    <3>1. CASE n = 0
      BY <1>2, <3>1
    <3>2. CASE n # 0
      <4>1. n \in 1 .. 7 /\ f[n - 1] \in Nat
        BY <1>2, <3>2
      <4>2. f[n] = step[n][f[n - 1]]
        BY <1>2, <4>1
      <4> QED BY <3>2, <4>1, <4>2
    <3> QED BY <3>1, <3>2
  <2>2. f = [n \in 0 .. 7 |-> f[n]]
    BY <1>2
  <2> QED BY <2>1, <2>2
<1>4. T = Body(T)
  <2> HIDE DEF Body
  <2> QED BY <1>3
<1>5. \A i : Drop(v, i) = T[i]
  BY DEF Drop
<1> HIDE DEF T
<1>6. \A i \in 0 .. 7 : T[i] = IF i = 0 THEN v ELSE T[i - 1] \div Radix
  BY <1>4
<1>7. T[0] = v /\ \A i \in 1 .. 7 : T[i] = T[i - 1] \div Radix
  BY <1>6
<1>8. \A i \in 0 .. 7 : T[i] \in Nat
  <2> DEFINE S == {n \in Nat : n <= 7 => T[n] \in Nat}
  <2>1. 0 \in S
    BY <1>7
  <2>2. ASSUME NEW n \in Nat, n \in S
        PROVE  n + 1 \in S
    <3> SUFFICES ASSUME n + 1 <= 7 PROVE T[n + 1] \in Nat
      OBVIOUS
    <3>1. T[n] \in Nat /\ n + 1 \in 1 .. 7 /\ (n + 1) - 1 = n
      BY <2>2
    <3>2. T[n + 1] = T[n] \div Radix
      BY <1>7, <3>1
    <3> QED BY <3>1, <3>2, CodecNumbers, DivMod
  <2> HIDE DEF S
  <2>3. \A n \in Nat : n \in S
    BY <2>1, <2>2, Induct
  <2> QED BY <2>3 DEF S
<1> QED BY <1>5, <1>7, <1>8

\* The number in the first n bytes.
LEMMA ValueLoop ==
  ASSUME NEW bytes \in Seq(Byte), NEW n \in 1 .. Len(bytes)
  PROVE  /\ Values(bytes, n)[0] = bytes[1] % Quarter
         /\ \A i \in 1 .. n - 1 : Values(bytes, n)[i] = Radix * Values(bytes, n)[i - 1] + bytes[i + 1]
         /\ \A i \in 0 .. n - 1 : Values(bytes, n)[i] \in Nat
<1> DEFINE next == [i \in 1 .. n - 1 |-> bytes[i + 1]]
           step == [i \in 1 .. n - 1 |-> [t \in Nat |-> Radix * t + next[i]]]
           Body(f) == [i \in 0 .. n - 1 |->
                         IF i = 0 THEN bytes[1] % Quarter ELSE Radix * f[i - 1] + bytes[i + 1]]
           T == Values(bytes, n)
           low == bytes[1] % Quarter
<1>0. n \in Nat /\ n - 1 \in Nat /\ \A i \in 1 .. n : bytes[i] \in Nat
  BY GroupOf
<1>1. low \in Nat
  BY <1>0, CodecNumbers, DivMod
<1>2. next \in [1 .. n - 1 -> Nat]
  BY <1>0
<1>3. step \in [1 .. n - 1 -> [Nat -> Nat]]
  <2> SUFFICES ASSUME NEW i \in 1 .. n - 1, NEW t \in Nat PROVE Radix * t + next[i] \in Nat
    OBVIOUS
  <2>1. next[i] \in Nat /\ Radix * t \in Nat
    <3> HIDE DEF next
    <3> QED BY <1>2, CodecNumbers
  <2> HIDE DEF next
  <2> QED BY <2>1
<1>4. PICK f \in [0 .. n - 1 -> Nat] : f[0] = low /\ \A i \in 1 .. n - 1 : f[i] = step[i][f[i - 1]]
  <2> DEFINE m == n - 1
  <2>1. m \in Nat /\ low \in Nat /\ step \in [1 .. m -> [Nat -> Nat]]
    <3> HIDE DEF low, step
    <3> QED BY <1>0, <1>1, <1>3
  <2>2. \E f \in [0 .. m -> Nat] : f[0] = low /\ \A i \in 1 .. m : f[i] = step[i][f[i - 1]]
    <3> HIDE DEF m, low, step
    <3> QED BY <2>1, Recursion
  <2> HIDE DEF low, step
  <2> QED BY <2>2
<1>5. f = Body(f)
  <2>1. ASSUME NEW i \in 0 .. n - 1
        PROVE  f[i] = IF i = 0 THEN bytes[1] % Quarter ELSE Radix * f[i - 1] + bytes[i + 1]
    <3>1. CASE i = 0
      BY <1>4, <3>1
    <3>2. CASE i # 0
      <4>1. i \in 1 .. n - 1 /\ f[i - 1] \in Nat
        BY <1>4, <3>2
      <4>2. f[i] = step[i][f[i - 1]] /\ next[i] = bytes[i + 1]
        BY <1>4, <4>1
      <4> HIDE DEF next
      <4> QED BY <3>2, <4>1, <4>2
    <3> QED BY <3>1, <3>2
  <2>2. f = [i \in 0 .. n - 1 |-> f[i]]
    BY <1>4
  <2> QED BY <2>1, <2>2
<1>6. T = Body(T)
  <2>1. T = CHOOSE h : h = Body(h)
    BY DEF Values
  <2> HIDE DEF Body, T
  <2> QED BY <1>5, <2>1
<1> HIDE DEF T
<1>7. \A i \in 0 .. n - 1 :
        T[i] = IF i = 0 THEN bytes[1] % Quarter ELSE Radix * T[i - 1] + bytes[i + 1]
  BY <1>6
<1>8. T[0] = bytes[1] % Quarter /\ \A i \in 1 .. n - 1 : T[i] = Radix * T[i - 1] + bytes[i + 1]
  BY <1>0, <1>7
<1>9. \A i \in 0 .. n - 1 : T[i] \in Nat
  <2> DEFINE S == {i \in Nat : i <= n - 1 => T[i] \in Nat}
  <2>1. 0 \in S
    BY <1>1, <1>8
  <2>2. ASSUME NEW i \in Nat, i \in S
        PROVE  i + 1 \in S
    <3> SUFFICES ASSUME i + 1 <= n - 1 PROVE T[i + 1] \in Nat
      OBVIOUS
    <3>1. T[i] \in Nat /\ i + 1 \in 1 .. n - 1 /\ (i + 1) - 1 = i /\ (i + 1) + 1 \in 1 .. n
      BY <1>0, <2>2
    <3>2. T[i + 1] = Radix * T[i] + bytes[(i + 1) + 1]
      BY <1>8, <3>1
    <3>3. bytes[(i + 1) + 1] \in Nat
      BY <1>0, <3>1
    <3>4. Radix * T[i] \in Nat
      <4>1. \A a, b \in Nat : a * b \in Nat
        OBVIOUS
      <4>2. Radix \in Nat /\ T[i] \in Nat
        BY <3>1, CodecNumbers
      <4> QED BY <4>1, <4>2
    <3> QED BY <3>2, <3>3, <3>4
  <2> HIDE DEF S
  <2>3. \A i \in Nat : i \in S
    BY <2>1, <2>2, Induct
  <2> QED BY <2>3 DEF S
<1> QED BY <1>8, <1>9 DEF T

LEMMA Forms ==
  /\ Form[1] = 1 /\ Form[2] = 2 /\ Form[3] = 4 /\ Form[4] = 8
  /\ \A k \in 1 .. 4 : Form[k] \in 1 .. 8
BY DEF Form

\* The length of the form of a number: the first that holds it.
IsForm(k, v) == k \in 1 .. 4 /\ v < Range62[Form[k]] /\ \A j \in 1 .. k - 1 : v >= Range62[Form[j]]

LEMMA FormExists ==
  ASSUME NEW v \in Nat, v < Range62[8]
  PROVE  \E k : IsForm(k, v)
<1> DEFINE S == {k \in 1 .. 4 : v < Range62[Form[k]]}
<1>1. S \subseteq Nat /\ S # {}
  BY Forms
<1>2. PICK k \in S : \A j \in S : k <= j
  <2> HIDE DEF S
  <2> QED BY <1>1, LeastNumber
<1>3. ASSUME NEW j \in 1 .. k - 1
      PROVE  v >= Range62[Form[j]]
  <2>1. j \in 1 .. 4 /\ ~(k <= j)
    OBVIOUS
  <2>2. j \notin S
    <3> HIDE DEF S
    <3> QED BY <1>2, <2>1
  <2>3. Range62[Form[j]] \in Nat
    BY <2>1, Forms, RangeLoop
  <2> QED BY <2>1, <2>2, <2>3
<1> QED BY <1>3 DEF IsForm

LEMMA FormUnique ==
  ASSUME NEW v \in Nat, NEW i, NEW j, IsForm(i, v), IsForm(j, v)
  PROVE  i = j
<1>1. i \in 1 .. 4 /\ j \in 1 .. 4 /\ Range62[Form[i]] \in Nat /\ Range62[Form[j]] \in Nat
  BY Forms, RangeLoop DEF IsForm
<1>2. ~(i < j)
  <2> SUFFICES ASSUME i < j PROVE FALSE
    OBVIOUS
  <2>1. i \in 1 .. j - 1
    BY <1>1
  <2> QED BY <1>1, <2>1 DEF IsForm
<1>3. ~(j < i)
  <2> SUFFICES ASSUME j < i PROVE FALSE
    OBVIOUS
  <2>1. j \in 1 .. i - 1
    BY <1>1
  <2> QED BY <1>1, <2>1 DEF IsForm
<1> QED BY <1>1, <1>2, <1>3

LEMMA EncodeIs ==
  ASSUME NEW v \in Nat, NEW k, IsForm(k, v)
  PROVE  EncodeQuicVarint(v) =
           [i \in 1 .. Form[k] |-> IF i = 1 THEN (k - 1) * Quarter + Drop(v, Form[k] - 1)
                                   ELSE Drop(v, Form[k] - i) % Radix]
<1> DEFINE l == CHOOSE i \in 1 .. 4 : v < Range62[Form[i]] /\ \A j \in 1 .. i - 1 : v >= Range62[Form[j]]
<1>1. IsForm(l, v)
  BY DEF IsForm
<1>2. EncodeQuicVarint(v) =
        [i \in 1 .. Form[l] |-> IF i = 1 THEN (l - 1) * Quarter + Drop(v, Form[l] - 1)
                                ELSE Drop(v, Form[l] - i) % Radix]
  BY DEF EncodeQuicVarint
<1> HIDE DEF l
<1>3. l = k
  BY <1>1, FormUnique
<1> QED BY <1>2, <1>3

\* Without its lowest bytes a number is below what the others hold.
LEMMA DropBound ==
  ASSUME NEW v \in Nat, NEW n \in 1 .. 8, v < Range62[n]
  PROVE  Drop(v, n - 1) \in 0 .. Quarter - 1
<1> DEFINE S == {i \in Nat : i <= n - 1 => Drop(v, i) < Range62[n - i]}
<1>1. 0 \in S
  BY DropLoop
<1>2. ASSUME NEW i \in Nat, i \in S
      PROVE  i + 1 \in S
  <2> SUFFICES ASSUME i + 1 <= n - 1 PROVE Drop(v, i + 1) < Range62[n - (i + 1)]
    OBVIOUS
  <2>1. /\ Drop(v, i) < Range62[n - i] /\ i \in 0 .. 7 /\ i + 1 \in 1 .. 7 /\ (i + 1) - 1 = i
        /\ n - i \in 2 .. 8 /\ (n - i) - 1 = n - (i + 1) /\ n - (i + 1) \in 1 .. 8
    BY <1>2
  <2>2. Drop(v, i + 1) = Drop(v, i) \div Radix /\ Drop(v, i) \in Nat
    BY <2>1, DropLoop
  <2>3. Range62[n - i] = Radix * Range62[n - (i + 1)] /\ Range62[n - (i + 1)] \in Nat
    BY <2>1, RangeLoop
  <2> QED BY <2>1, <2>2, <2>3, CodecNumbers, DivBound
<1> HIDE DEF S
<1>3. \A i \in Nat : i \in S
  BY <1>1, <1>2, Induct
<1>4. Drop(v, n - 1) < Range62[n - (n - 1)]
  <2>1. n - 1 \in Nat /\ n - 1 <= n - 1
    OBVIOUS
  <2> QED BY <1>3, <2>1 DEF S
<1>5. n - (n - 1) = 1 /\ n - 1 \in 0 .. 7
  OBVIOUS
<1>6. Drop(v, n - 1) \in Nat
  BY <1>5, DropLoop
<1>7. Range62[n - (n - 1)] = Quarter
  BY <1>5, RangeLoop
<1> QED BY <1>4, <1>6, <1>7, CodecNumbers

\* The bytes of the form of a number.
LEMMA EncodedBytes ==
  ASSUME NEW v \in Nat, NEW k, IsForm(k, v)
  PROVE  LET e == EncodeQuicVarint(v)
             n == Form[k] IN
         /\ e \in Seq(Byte) /\ Len(e) = n
         /\ e[1] = (k - 1) * Quarter + Drop(v, n - 1) /\ Drop(v, n - 1) \in 0 .. Quarter - 1
         /\ e[1] \div Quarter = k - 1 /\ e[1] % Quarter = Drop(v, n - 1)
         /\ \A i \in 2 .. n : e[i] = Drop(v, n - i) % Radix
<1> DEFINE e == EncodeQuicVarint(v)
           n == Form[k]
           d == Drop(v, n - 1)
<1>1. k \in 1 .. 4 /\ n \in 1 .. 8 /\ v < Range62[n]
  BY Forms DEF IsForm
<1>2. d \in 0 .. Quarter - 1
  <2> HIDE DEF n
  <2> QED BY <1>1, DropBound
<1>3. e = [i \in 1 .. n |-> IF i = 1 THEN (k - 1) * Quarter + d ELSE Drop(v, n - i) % Radix]
  BY EncodeIs
<1> HIDE DEF e, n, d
<1>4. (k - 1) * Quarter + d \in Byte
  <2>1. k = 1 \/ k = 2 \/ k = 3 \/ k = 4
    BY <1>1
  <2> QED BY <1>2, <2>1, CodecNumbers DEF Byte
<1>5. \A i \in 2 .. n : Drop(v, n - i) % Radix \in Byte
  <2> SUFFICES ASSUME NEW i \in 2 .. n PROVE Drop(v, n - i) % Radix \in Byte
    OBVIOUS
  <2>1. n - i \in 0 .. 7
    BY <1>1
  <2>2. Drop(v, n - i) \in Nat
    BY <2>1, DropLoop
  <2>3. Drop(v, n - i) % Radix \in Nat /\ Drop(v, n - i) % Radix < Radix
    BY <2>2, CodecNumbers, DivMod
  <2> QED BY <2>3, CodecNumbers DEF Byte
<1>6. e \in [1 .. n -> Byte]
  <2>1. \A i \in 1 .. n : (IF i = 1 THEN (k - 1) * Quarter + d ELSE Drop(v, n - i) % Radix) \in Byte
    <3> SUFFICES ASSUME NEW i \in 1 .. n
                 PROVE  (IF i = 1 THEN (k - 1) * Quarter + d ELSE Drop(v, n - i) % Radix) \in Byte
      OBVIOUS
    <3>1. i = 1 \/ i \in 2 .. n
      BY <1>1
    <3> QED BY <1>4, <1>5, <3>1
  <2> QED BY <1>3, <2>1
<1>7. e \in Seq(Byte) /\ Len(e) = n
  <2>1. n \in Nat
    BY <1>1
  <2> QED BY <1>6, <2>1
<1>8. e[1] = (k - 1) * Quarter + d /\ \A i \in 2 .. n : e[i] = Drop(v, n - i) % Radix
  BY <1>1, <1>3
<1>9. e[1] \div Quarter = k - 1 /\ e[1] % Quarter = d
  <2> DEFINE q == k - 1
             b == e[1]
  <2>1. q \in Nat
    BY <1>1
  <2>2. b = q * Quarter + d
    BY <1>8
  <2> HIDE DEF q, b
  <2>3. b = Quarter * q + d
    BY <1>2, <2>1, <2>2, CodecNumbers
  <2>4. b \div Quarter = q /\ b % Quarter = d
    BY <1>2, <2>1, <2>3, CodecNumbers, DivModOfSum
  <2> QED BY <2>4 DEF q, b
<1> QED BY <1>2, <1>7, <1>8, <1>9 DEF e, n, d

\* decode_varint reads back what encode_varint wrote, whatever follows.
LEMMA QuicBack ==
  ASSUME NEW v \in Nat, v < Range62[8], NEW bytes \in Seq(Byte), Holds(bytes, 1, EncodeQuicVarint(v))
  PROVE  /\ EncodeQuicVarint(v) \in Seq(Byte) /\ Len(EncodeQuicVarint(v)) \in 1 .. 8
         /\ DecodeQuicVarint(bytes) = [val |-> v, used |-> Len(EncodeQuicVarint(v))]
<1>1. PICK k : IsForm(k, v)
  BY FormExists
<1> DEFINE e == EncodeQuicVarint(v)
           n == Form[k]
           T == Values(bytes, n)
<1>2. /\ e \in Seq(Byte) /\ Len(e) = n
      /\ e[1] \div Quarter = k - 1 /\ e[1] % Quarter = Drop(v, n - 1)
      /\ \A i \in 2 .. n : e[i] = Drop(v, n - i) % Radix
  BY <1>1, EncodedBytes
<1>3. k \in 1 .. 4 /\ n \in 1 .. 8
  BY <1>1, Forms DEF IsForm
<1> HIDE DEF e, n
<1>4. n \in 1 .. Len(bytes) /\ \A i \in 1 .. n : bytes[i] = e[i]
  <2>1. 1 + n - 1 <= Len(bytes) /\ \A i \in 1 .. n : bytes[1 + i - 1] = e[i]
    BY <1>2 DEF Holds, e
  <2>2. Len(bytes) \in Nat /\ \A i \in 1 .. n : 1 + i - 1 = i
    BY <1>3
  <2> QED BY <1>3, <2>1, <2>2
<1>5. /\ T[0] = bytes[1] % Quarter
      /\ \A i \in 1 .. n - 1 : T[i] = Radix * T[i - 1] + bytes[i + 1]
  BY <1>4, ValueLoop
<1> HIDE DEF T
<1>6. \A i \in 0 .. n - 1 : T[i] = Drop(v, n - 1 - i)
  <2> DEFINE S == {i \in Nat : i <= n - 1 => T[i] = Drop(v, n - 1 - i)}
  <2>1. 0 \in S
    <3>1. bytes[1] = e[1] /\ n - 1 - 0 = n - 1
      BY <1>3, <1>4
    <3> QED BY <1>2, <1>5, <3>1
  <2>2. ASSUME NEW i \in Nat, i \in S
        PROVE  i + 1 \in S
    <3> SUFFICES ASSUME i + 1 <= n - 1 PROVE T[i + 1] = Drop(v, n - 1 - (i + 1))
      OBVIOUS
    <3> DEFINE j == n - 1 - (i + 1)
    <3>1. /\ T[i] = Drop(v, n - 1 - i) /\ i + 1 \in 1 .. n - 1 /\ (i + 1) - 1 = i
          /\ n - 1 - i \in 1 .. 7 /\ (n - 1 - i) - 1 = j /\ j \in 0 .. 7
          /\ (i + 1) + 1 \in 2 .. n /\ (i + 1) + 1 \in 1 .. n /\ n - ((i + 1) + 1) = j
      BY <1>3, <2>2
    <3> HIDE DEF j
    <3>2. T[i + 1] = Radix * T[i] + bytes[(i + 1) + 1]
      BY <1>5, <3>1
    <3>3. bytes[(i + 1) + 1] = Drop(v, j) % Radix
      BY <1>2, <1>4, <3>1
    <3>4. Drop(v, n - 1 - i) = Drop(v, j) \div Radix /\ Drop(v, j) \in Nat
      <4> DEFINE l == n - 1 - i
      <4>1. l \in 1 .. 7 /\ l - 1 = j /\ j \in 0 .. 7
        BY <3>1
      <4> HIDE DEF l
      <4>2. Drop(v, l) = Drop(v, j) \div Radix /\ Drop(v, j) \in Nat
        BY <4>1, DropLoop
      <4> QED BY <4>2 DEF l
    <3>5. Drop(v, j) = Radix * (Drop(v, j) \div Radix) + (Drop(v, j) % Radix)
      <4> DEFINE x == Drop(v, j)
      <4> HIDE DEF x
      <4>1. x \in Nat
        BY <3>4 DEF x
      <4>2. x = Radix * (x \div Radix) + (x % Radix)
        BY <4>1, RadixParts
      <4> QED BY <4>2 DEF x
    <3>6. T[i] = Drop(v, n - 1 - i)
      BY <3>1
    <3>7. T[i + 1] = Drop(v, j)
      BY <3>2, <3>3, <3>4, <3>5, <3>6
    <3> QED BY <3>7 DEF j
  <2> HIDE DEF S
  <2>3. \A i \in Nat : i \in S
    BY <2>1, <2>2, Induct
  <2> QED BY <2>3 DEF S
<1>7. Value(bytes, n) = v
  <2>1. n - 1 \in 0 .. n - 1 /\ n - 1 - (n - 1) = 0
    BY <1>3
  <2>2. T[n - 1] = Drop(v, 0)
    BY <1>6, <2>1
  <2> QED BY <2>2, DropLoop DEF Value, T
<1>8. Shortest(k, v)
  <2>1. k # 1 => k - 1 \in 1 .. k - 1
    BY <1>3
  <2> QED BY <1>1, <2>1 DEF Shortest, IsForm
<1>9. bytes[1] \div Quarter + 1 = k
  <2>1. 1 \in 1 .. n
    BY <1>3
  <2> QED BY <1>2, <1>3, <1>4, <2>1
<1>10. bytes # <<>> /\ ~(Len(bytes) < n)
  BY <1>3, <1>4
<1>11. DecodeQuicVarint(bytes) = [val |-> v, used |-> n]
  <2>1. Form[(bytes[1] \div Quarter) + 1] = n
    BY <1>9 DEF n
  <2> QED BY <1>7, <1>8, <1>9, <1>10, <2>1 DEF DecodeQuicVarint
<1> QED BY <1>2, <1>3, <1>11 DEF e

\* A number that decode_varint takes is written with the bytes that were read.
LEMMA QuicCanon ==
  ASSUME NEW bytes \in Seq(Byte), DecodeQuicVarint(bytes) # Bad
  PROVE  LET d == DecodeQuicVarint(bytes) IN
         /\ d.val \in Nat /\ d.val < Range62[8] /\ d.used \in 1 .. Len(bytes)
         /\ EncodeQuicVarint(d.val) = SubSeq(bytes, 1, d.used)
<1> DEFINE k == (bytes[1] \div Quarter) + 1
           n == Form[k]
           v == Value(bytes, n)
           T == Values(bytes, n)
<1>0. \A i \in 1 .. 8 : Range62[i] \in Nat
  BY RangeLoop
<1>1. bytes # <<>> /\ ~(Len(bytes) < n) /\ Shortest(k, v) /\ DecodeQuicVarint(bytes) = [val |-> v, used |-> n]
  BY DEF DecodeQuicVarint
<1>2. Len(bytes) \in Nat \ {0} /\ bytes[1] \in 0 .. Radix - 1 /\ \A i \in 1 .. Len(bytes) : bytes[i] \in 0 .. Radix - 1
  <2>1. Len(bytes) \in Nat /\ Len(bytes) # 0
    BY <1>1
  <2>2. \A i \in 1 .. Len(bytes) : bytes[i] \in 0 .. Radix - 1
    <3>1. \A i \in 1 .. Len(bytes) : bytes[i] \in Byte
      OBVIOUS
    <3> QED BY <3>1 DEF Byte
  <2> QED BY <2>1, <2>2
<1>3. k \in 1 .. 4 /\ bytes[1] = Quarter * (k - 1) + (bytes[1] % Quarter) /\ bytes[1] % Quarter \in 0 .. Quarter - 1
  <2> DEFINE b == bytes[1]
             q == b \div Quarter
  <2>1. b \in Nat /\ b < Quarter * 4
    BY <1>2, CodecNumbers
  <2> HIDE DEF b
  <2>2. q < 4
    BY <2>1, CodecNumbers, DivBound
  <2>3. q \in Nat /\ b % Quarter \in Nat /\ b % Quarter < Quarter /\ b = Quarter * q + (b % Quarter)
    BY <2>1, CodecNumbers, DivMod
  <2>4. k = q + 1
    BY DEF b
  <2> HIDE DEF k, q
  <2>5. k \in 1 .. 4 /\ k - 1 = q
    BY <2>2, <2>3, <2>4
  <2> QED BY <2>3, <2>5, CodecNumbers DEF b
<1> HIDE DEF k
<1>4. n \in 1 .. 8
  BY <1>3, Forms
<1> HIDE DEF n
<1>5. n \in 1 .. Len(bytes)
  BY <1>1, <1>2, <1>4
<1>6. /\ T[0] = bytes[1] % Quarter
      /\ \A i \in 1 .. n - 1 : T[i] = Radix * T[i - 1] + bytes[i + 1]
      /\ \A i \in 0 .. n - 1 : T[i] \in Nat
  BY <1>5, ValueLoop
<1>7. v = T[n - 1] /\ v \in Nat
  <2>1. n - 1 \in 0 .. n - 1
    BY <1>4
  <2> HIDE DEF T
  <2>2. T[n - 1] \in Nat
    BY <1>6, <2>1
  <2> QED BY <2>2 DEF Value, T
<1> HIDE DEF T, v
<1>8. v < Range62[n]
  <2> DEFINE S == {i \in Nat : i <= n - 1 => T[i] < Range62[i + 1]}
  <2>1. 0 \in S
    <3>1. T[0] < Quarter
      BY <1>3, <1>6, CodecNumbers
    <3> QED BY <3>1, RangeLoop
  <2>2. ASSUME NEW i \in Nat, i \in S
        PROVE  i + 1 \in S
    <3> SUFFICES ASSUME i + 1 <= n - 1 PROVE T[i + 1] < Range62[(i + 1) + 1]
      OBVIOUS
    <3>1. /\ T[i] < Range62[i + 1] /\ i + 1 \in 1 .. n - 1 /\ (i + 1) - 1 = i /\ i \in 0 .. n - 1
          /\ (i + 1) + 1 \in 2 .. 8 /\ i + 1 \in 1 .. 8 /\ (i + 1) + 1 \in 1 .. n
          /\ ((i + 1) + 1) - 1 = i + 1
      BY <1>4, <2>2
    <3>2. T[i + 1] = Radix * T[i] + bytes[(i + 1) + 1] /\ T[i] \in Nat
      BY <1>6, <3>1
    <3>3. bytes[(i + 1) + 1] \in 0 .. Radix - 1
      BY <1>2, <1>5, <3>1
    <3>4. Range62[(i + 1) + 1] = Radix * Range62[i + 1] /\ Range62[i + 1] \in Nat
      BY <3>1, RangeLoop
    <3>5. \A g \in Nat : \A a, b, c \in Nat : a < b /\ c < g => g * a + c < g * b
      <4> SUFFICES ASSUME NEW g \in Nat, NEW a \in Nat, NEW b \in Nat, NEW c \in Nat, a < b, c < g
                   PROVE  g * a + c < g * b
        OBVIOUS
      <4>1. g * (a + 1) <= g * b
        OBVIOUS
      <4>2. g * (a + 1) = g * a + g
        OBVIOUS
      <4> QED BY <4>1, <4>2
    <3>6. bytes[(i + 1) + 1] \in Nat /\ bytes[(i + 1) + 1] < Radix /\ Radix \in Nat
      BY <3>3, CodecNumbers
    <3> QED BY <3>1, <3>2, <3>4, <3>5, <3>6
  <2> HIDE DEF S
  <2>3. \A i \in Nat : i \in S
    BY <2>1, <2>2, Induct
  <2>4. n - 1 \in Nat /\ n - 1 <= n - 1 /\ (n - 1) + 1 = n
    BY <1>4
  <2> QED BY <1>7, <2>3, <2>4 DEF S
<1>9. \A i \in 1 .. 7 : Range62[i] <= Range62[i + 1]
  <2> SUFFICES ASSUME NEW i \in 1 .. 7 PROVE Range62[i] <= Range62[i + 1]
    OBVIOUS
  <2>1. i + 1 \in 2 .. 8 /\ (i + 1) - 1 = i /\ i \in 1 .. 8
    OBVIOUS
  <2>2. Range62[i + 1] = Radix * Range62[i] /\ Range62[i] \in Nat
    BY <2>1, RangeLoop
  <2>3. \A g, a \in Nat : g > 0 => a <= g * a
    OBVIOUS
  <2> QED BY <2>2, <2>3, CodecNumbers
<1>10. Range62[1] <= Range62[2] /\ Range62[2] <= Range62[4] /\ Range62[4] <= Range62[8] /\ Range62[n] <= Range62[8]
  <2>1. /\ Range62[1] <= Range62[2] /\ Range62[2] <= Range62[3] /\ Range62[3] <= Range62[4]
        /\ Range62[4] <= Range62[5] /\ Range62[5] <= Range62[6] /\ Range62[6] <= Range62[7]
        /\ Range62[7] <= Range62[8]
    BY <1>9
  <2>2. /\ Range62[1] \in Nat /\ Range62[2] \in Nat /\ Range62[3] \in Nat /\ Range62[4] \in Nat
        /\ Range62[5] \in Nat /\ Range62[6] \in Nat /\ Range62[7] \in Nat /\ Range62[8] \in Nat
    BY <1>0
  <2>3. \A m \in 1 .. 8 : Range62[m] <= Range62[8]
    <3> DEFINE S == {j \in Nat : j <= 7 => Range62[8 - j] <= Range62[8]}
    <3>1. 0 \in S
      BY <2>2
    <3>2. ASSUME NEW j \in Nat, j \in S
          PROVE  j + 1 \in S
      <4> SUFFICES ASSUME j + 1 <= 7 PROVE Range62[8 - (j + 1)] <= Range62[8]
        OBVIOUS
      <4> DEFINE m == 8 - (j + 1)
      <4>0. m \in 1 .. 7 /\ m + 1 \in 1 .. 8
        BY <3>2
      <4>1. Range62[8 - j] <= Range62[8] /\ m + 1 = 8 - j
        BY <3>2
      <4> HIDE DEF m, S
      <4>2. Range62[m] <= Range62[m + 1]
        BY <1>9, <4>0
      <4>3. Range62[m] \in Nat /\ Range62[m + 1] \in Nat /\ Range62[8] \in Nat
        BY <1>0, <4>0
      <4>4. Range62[m] <= Range62[8]
        BY <4>1, <4>2, <4>3
      <4> QED BY <4>4 DEF m
    <3> HIDE DEF S
    <3>3. \A j \in Nat : j \in S
      BY <3>1, <3>2, Induct
    <3> SUFFICES ASSUME NEW m \in 1 .. 8 PROVE Range62[m] <= Range62[8]
      OBVIOUS
    <3>4. 8 - m \in Nat /\ 8 - m <= 7 /\ 8 - (8 - m) = m
      OBVIOUS
    <3>5. Range62[8 - (8 - m)] <= Range62[8]
      BY <3>3, <3>4 DEF S
    <3> QED BY <3>4, <3>5
  <2>4. Range62[n] <= Range62[8]
    BY <1>4, <2>3
  <2>5. Range62[2] <= Range62[4]
    BY <2>1, <2>2
  <2>6. Range62[4] <= Range62[8]
    BY <2>3
  <2> QED BY <2>1, <2>4, <2>5, <2>6
<1>11. v < Range62[8]
  <2>0. Range62[n] \in Nat
    BY <1>0, <1>4
  <2>1. Range62[n] \in Nat /\ Range62[8] \in Nat
    BY <1>0, <2>0
  <2> HIDE DEF n, v, T
  <2>2. v < Range62[n]
    BY <1>7, <1>8
  <2>3. Range62[n] <= Range62[8]
    BY <1>10
  <2>4. v \in Nat
    BY <1>7
  <2> QED BY <2>1, <2>2, <2>3, <2>4
<1>12. IsForm(k, v)
  <2>1. ASSUME NEW j \in 1 .. k - 1
        PROVE  v >= Range62[Form[j]]
    <3>1. k # 1 /\ v >= Range62[Form[k - 1]]
      BY <1>1, <1>3 DEF Shortest
    <3>2. Range62[Form[j]] <= Range62[Form[k - 1]]
      <4>1. \/ k = 2 /\ j = 1
            \/ k = 3 /\ (j = 1 \/ j = 2)
            \/ k = 4 /\ (j = 1 \/ j = 2 \/ j = 3)
        BY <1>3
      <4>2. Range62[1] \in Nat /\ Range62[2] \in Nat /\ Range62[4] \in Nat
        BY <1>0
      <4> QED BY <1>10, <4>1, <4>2, Forms
    <3>3. Form[j] \in 1 .. 8 /\ Form[k - 1] \in 1 .. 8
      BY <1>3, <3>1, Forms
    <3>4. Range62[Form[j]] \in Nat /\ Range62[Form[k - 1]] \in Nat
      BY <1>0, <3>3
    <3> QED BY <1>7, <3>1, <3>2, <3>4
  <2> QED BY <1>3, <1>8, <2>1 DEF IsForm, n
<1> DEFINE e == EncodeQuicVarint(v)
<1>13. /\ e \in Seq(Byte) /\ Len(e) = n
       /\ e[1] = (k - 1) * Quarter + Drop(v, n - 1)
       /\ \A i \in 2 .. n : e[i] = Drop(v, n - i) % Radix
  BY <1>7, <1>12, EncodedBytes DEF n
<1> HIDE DEF e
<1>14. \A j \in 0 .. n - 1 : Drop(v, j) = T[n - 1 - j]
  <2> DEFINE S == {j \in Nat : j <= n - 1 => Drop(v, j) = T[n - 1 - j]}
  <2>1. 0 \in S
    <3>1. n - 1 - 0 = n - 1
      BY <1>4
    <3> QED BY <1>7, <3>1, DropLoop
  <2>2. ASSUME NEW j \in Nat, j \in S
        PROVE  j + 1 \in S
    <3> SUFFICES ASSUME j + 1 <= n - 1 PROVE Drop(v, j + 1) = T[n - 1 - (j + 1)]
      OBVIOUS
    <3> DEFINE i == n - 1 - j
    <3>1. /\ Drop(v, j) = T[i] /\ i \in 1 .. n - 1 /\ i - 1 \in 0 .. n - 1 /\ j + 1 \in 1 .. 7
          /\ (j + 1) - 1 = j /\ n - 1 - (j + 1) = i - 1 /\ i + 1 \in 1 .. n
      BY <1>4, <2>2
    <3> HIDE DEF i
    <3>2. T[i] = Radix * T[i - 1] + bytes[i + 1] /\ T[i - 1] \in Nat
      BY <1>6, <3>1
    <3>3. bytes[i + 1] \in 0 .. Radix - 1
      BY <1>2, <1>5, <3>1
    <3>4. Drop(v, j + 1) = Drop(v, j) \div Radix
      BY <1>7, <3>1, DropLoop
    <3>5. (Radix * T[i - 1] + bytes[i + 1]) \div Radix = T[i - 1]
      <4> DEFINE a == T[i - 1]
                 b == bytes[i + 1]
      <4>1. a \in Nat /\ b \in 0 .. Radix - 1
        BY <3>2, <3>3
      <4> HIDE DEF a, b
      <4>2. (Radix * a + b) \div Radix = a
        BY <4>1, CodecNumbers, DivModOfSum
      <4> QED BY <4>2 DEF a, b
    <3> QED BY <3>1, <3>2, <3>4, <3>5
  <2> HIDE DEF S
  <2>3. \A j \in Nat : j \in S
    BY <2>1, <2>2, Induct
  <2> QED BY <2>3 DEF S
<1>15. \A i \in 1 .. n : e[i] = bytes[i]
  <2> SUFFICES ASSUME NEW i \in 1 .. n PROVE e[i] = bytes[i]
    OBVIOUS
  <2>1. CASE i = 1
    <3>1. Drop(v, n - 1) = bytes[1] % Quarter
      <4>1. n - 1 \in 0 .. n - 1 /\ n - 1 - (n - 1) = 0
        BY <1>4
      <4> QED BY <1>6, <1>14, <4>1
    <3>2. (k - 1) * Quarter = Quarter * (k - 1)
      BY <1>3, CodecNumbers
    <3> QED BY <1>3, <1>13, <2>1, <3>1, <3>2
  <2>2. CASE i \in 2 .. n
    <3> DEFINE j == i - 1
    <3>1. n - i \in 0 .. n - 1 /\ n - 1 - (n - i) = j /\ j \in 1 .. n - 1 /\ j + 1 = i /\ j - 1 \in 0 .. n - 1
      BY <1>4, <2>2
    <3> HIDE DEF j
    <3>2. e[i] = T[j] % Radix
      BY <1>13, <1>14, <2>2, <3>1
    <3>3. T[j] = Radix * T[j - 1] + bytes[i] /\ T[j - 1] \in Nat
      BY <1>6, <3>1
    <3>4. bytes[i] \in 0 .. Radix - 1
      BY <1>2, <1>5
    <3>5. (Radix * T[j - 1] + bytes[i]) % Radix = bytes[i]
      <4> DEFINE a == T[j - 1]
                 b == bytes[i]
      <4>1. a \in Nat /\ b \in 0 .. Radix - 1
        BY <3>3, <3>4
      <4> HIDE DEF a, b
      <4>2. (Radix * a + b) % Radix = b
        BY <4>1, CodecNumbers, DivModOfSum
      <4> QED BY <4>2 DEF a, b
    <3> QED BY <3>2, <3>3, <3>5
  <2> QED BY <1>4, <2>1, <2>2
<1>16. e = SubSeq(bytes, 1, n)
  <2>1. n \in 0 .. Len(bytes) /\ n \in Nat
    BY <1>5
  <2>2. /\ SubSeq(bytes, 1, n) \in Seq(Byte) /\ Len(SubSeq(bytes, 1, n)) = n
        /\ \A i \in 1 .. n : SubSeq(bytes, 1, n)[i] = bytes[i]
    BY <2>1, FirstPart
  <2> QED BY <1>13, <1>15, <2>1, <2>2, SeqEqual
<1>17. DecodeQuicVarint(bytes).val = v /\ DecodeQuicVarint(bytes).used = n
  BY <1>1
<1> QED BY <1>5, <1>7, <1>11, <1>16, <1>17 DEF e

-----------------------------------------------------------------------------
(***************************************************************************)
(* Capsules.                                                               *)
(***************************************************************************)
\* The rest of a sequence behind its first n bytes.
LEMMA Rest ==
  ASSUME NEW a \in Seq(Byte), NEW n \in 0 .. Len(a)
  PROVE  /\ From(a, n) \in Seq(Byte) /\ Len(From(a, n)) = Len(a) - n
         /\ \A i \in 1 .. Len(a) - n : From(a, n)[i] = a[n + i]
         /\ SubSeq(a, 1, n) \o From(a, n) = a
<1>1. n \in Nat /\ Len(a) \in Nat /\ n + 1 \in Int /\ Len(a) \in Int
  OBVIOUS
<1>2. \A i \in n + 1 .. Len(a) : a[i] \in Byte
  BY <1>1
<1> DEFINE f == SubSeq(a, n + 1, Len(a))
<1>3. /\ f \in Seq(Byte) /\ Len(f) = IF n + 1 <= Len(a) THEN Len(a) - (n + 1) + 1 ELSE 0
      /\ \A i \in 1 .. Len(a) - (n + 1) + 1 : f[i] = a[n + 1 + i - 1]
  BY <1>1, <1>2, SubSeqProperties
<1>4. f = From(a, n)
  BY DEF From
<1> HIDE DEF f
<1>5. Len(f) = Len(a) - n
  BY <1>1, <1>3
<1>6. \A i \in 1 .. Len(a) - n : f[i] = a[n + i]
  <2> SUFFICES ASSUME NEW i \in 1 .. Len(a) - n PROVE f[i] = a[n + i]
    OBVIOUS
  <2>1. i \in 1 .. Len(a) - (n + 1) + 1 /\ n + 1 + i - 1 = n + i
    BY <1>1
  <2> QED BY <1>3, <2>1
<1> DEFINE p == SubSeq(a, 1, n)
<1>7. p \in Seq(Byte) /\ Len(p) = n /\ \A i \in 1 .. n : p[i] = a[i]
  BY FirstPart
<1> HIDE DEF p
<1>8. /\ p \o f \in Seq(Byte) /\ Len(p \o f) = Len(p) + Len(f)
      /\ \A i \in 1 .. Len(p) + Len(f) : (p \o f)[i] = IF i <= Len(p) THEN p[i] ELSE f[i - Len(p)]
  BY <1>3, <1>7, ConcatProperties
<1> DEFINE c == p \o f
<1> HIDE DEF c
<1>9. c \in Seq(Byte) /\ Len(c) = Len(a)
  BY <1>1, <1>5, <1>7, <1>8 DEF c
<1>10. ASSUME NEW i \in 1 .. Len(c)
       PROVE  c[i] = a[i]
  <2>1. i \in 1 .. Len(p) + Len(f)
    BY <1>8 DEF c
  <2>2. c[i] = IF i <= n THEN p[i] ELSE f[i - n]
    BY <1>7, <1>8, <2>1 DEF c
  <2>3. CASE i <= n
    BY <1>1, <1>7, <2>2, <2>3
  <2>4. CASE ~(i <= n)
    <3>1. i - n \in 1 .. Len(a) - n /\ n + (i - n) = i
      BY <1>1, <1>9, <2>4
    <3> QED BY <1>6, <2>2, <2>4, <3>1
  <2> QED BY <2>3, <2>4
<1>11. c = a
  BY <1>9, <1>10, SeqEqual
<1> QED BY <1>3, <1>4, <1>5, <1>6, <1>11 DEF c, p

\* Behind its first part a concatenation is its second.
LEMMA RestOfJoined ==
  ASSUME NEW a \in Seq(Byte), NEW b \in Seq(Byte)
  PROVE  From(a \o b, Len(a)) = b
<1> DEFINE c == a \o b
<1>1. c \in Seq(Byte) /\ Len(c) = Len(a) + Len(b) /\ Holds(c, Len(a) + 1, b)
  BY Joined
<1> HIDE DEF c
<1>2. (Len(a) + 1) + Len(b) - 1 = Len(c)
  BY <1>1
<1>3. SubSeq(c, Len(a) + 1, Len(c)) = b
  BY <1>1, <1>2, LastPart
<1> QED BY <1>3 DEF From, c

\* A sequence is where it begins.
LEMMA HoldsItself ==
  ASSUME NEW a \in Seq(Byte)
  PROVE  Holds(a, 1, a)
BY DEF Holds

\* Zero takes one byte.
LEMMA QuicZero ==
  /\ EncodeQuicVarint(0) \in Seq(Byte) /\ Len(EncodeQuicVarint(0)) = 1
  /\ \A bytes \in Seq(Byte) : Holds(bytes, 1, EncodeQuicVarint(0)) =>
       DecodeQuicVarint(bytes) = [val |-> 0, used |-> 1]
<1>1. IsForm(1, 0)
  BY RangeLoop, CodecNumbers, Forms DEF IsForm
<1>2. EncodeQuicVarint(0) \in Seq(Byte) /\ Len(EncodeQuicVarint(0)) = 1
  BY <1>1, EncodedBytes, Forms
<1>3. 0 < Range62[8]
  BY RangeLoop
<1> QED BY <1>2, <1>3, QuicBack

\* decode_datagram gives back what encode_datagram wrote.
LEMMA UdpBack ==
  ASSUME NEW udp \in Seq(Byte), Len(udp) <= MaxUdp
  PROVE  /\ EncodeUdp(udp) \in Seq(Byte) /\ Len(EncodeUdp(udp)) = Len(udp) + 1
         /\ DecodeUdp(EncodeUdp(udp)) = udp
<1> DEFINE z == EncodeQuicVarint(0)
           u == EncodeUdp(udp)
<1>1. z \in Seq(Byte) /\ Len(z) = 1
  BY QuicZero
<1>2. u = z \o udp
  BY DEF EncodeUdp
<1> HIDE DEF z, u
<1>3. u \in Seq(Byte) /\ Len(u) = Len(udp) + 1
  <2>1. u \in Seq(Byte) /\ Len(u) = Len(z) + Len(udp)
    BY <1>1, <1>2, Joined
  <2> QED BY <1>1, <2>1
<1>4. Holds(u, 1, z)
  BY <1>1, <1>2, HoldsItself, Joined
<1>5. DecodeQuicVarint(u) = [val |-> 0, used |-> 1]
  BY <1>3, <1>4, QuicZero DEF z
<1>6. From(u, 1) = udp
  BY <1>1, <1>2, RestOfJoined
<1>7. DecodeQuicVarint(u) # Bad
  BY <1>5, BadAssumption
<1>8. ~(Len(u) - 1 > MaxUdp)
  BY <1>3, FrameAssumption
<1>9. DecodeUdp(u) = udp
  BY <1>5, <1>6, <1>7, <1>8 DEF DecodeUdp
<1> QED BY <1>3, <1>9 DEF u

\* decode_capsule gives back what encode_capsule wrote.
LEMMA CapsuleBack ==
  ASSUME NEW udp \in Seq(Byte), Len(udp) <= MaxUdp
  PROVE  EncodeCapsule(udp) \in Seq(Byte) /\ DecodeCapsule(EncodeCapsule(udp)) = udp
<1> DEFINE z == EncodeQuicVarint(0)
           u == EncodeUdp(udp)
           q == EncodeQuicVarint(Len(u))
           c == EncodeCapsule(udp)
<1>1. z \in Seq(Byte) /\ Len(z) = 1
  BY QuicZero
<1>2. u \in Seq(Byte) /\ Len(u) = Len(udp) + 1 /\ DecodeUdp(u) = udp
  BY UdpBack
<1>3. Len(u) \in Nat /\ Len(u) < Range62[8]
  <2>1. Range62[8] \in Nat
    BY RangeLoop
  <2> HIDE DEF u
  <2> QED BY <1>2, <2>1, FrameAssumption
<1>4. \A bytes \in Seq(Byte) : Holds(bytes, 1, q) =>
        /\ q \in Seq(Byte) /\ Len(q) \in 1 .. 8
        /\ DecodeQuicVarint(bytes) = [val |-> Len(u), used |-> Len(q)]
  <2> HIDE DEF u
  <2> QED BY <1>3, QuicBack
<1>5. q \in Seq(Byte) /\ Len(q) \in 1 .. 8
  <2>1. PICK k : IsForm(k, Len(u))
    <3> HIDE DEF u
    <3> QED BY <1>3, FormExists
  <2>2. Form[k] \in 1 .. 8
    BY <2>1, Forms DEF IsForm
  <2> HIDE DEF u
  <2>3. q \in Seq(Byte) /\ Len(q) = Form[k]
    BY <1>3, <2>1, EncodedBytes
  <2> HIDE DEF q
  <2> QED BY <2>2, <2>3
<1>6. c = (z \o q) \o u
  BY DEF EncodeCapsule
<1> HIDE DEF z, q, u, c
<1>7. c = z \o (q \o u)
  <2>1. z \in Seq(Byte) /\ q \in Seq(Byte) /\ u \in Seq(Byte)
    BY <1>1, <1>2, <1>5
  <2>2. (z \o q) \o u = z \o (q \o u)
    BY <2>1, ConcatAssociative
  <2> QED BY <1>6, <2>2
<1>8. q \o u \in Seq(Byte) /\ Holds(q \o u, 1, q)
  BY <1>2, <1>5, HoldsItself, Joined
<1>9. c \in Seq(Byte) /\ Holds(c, 1, z) /\ From(c, 1) = q \o u
  <2>1. Holds(z, 1, z)
    BY <1>1, HoldsItself
  <2> QED BY <1>1, <1>7, <1>8, <2>1, Joined, RestOfJoined
<1>10. From(c, 1 + Len(q)) = u
  <2>1. z \o q \in Seq(Byte) /\ Len(z \o q) = 1 + Len(q)
    BY <1>1, <1>5, Joined
  <2>2. From((z \o q) \o u, Len(z \o q)) = u
    BY <1>2, <2>1, RestOfJoined
  <2> QED BY <1>6, <2>1, <2>2
<1>11. DecodeQuicVarint(c) = [val |-> 0, used |-> 1]
  BY <1>9, QuicZero DEF z
<1>12. DecodeQuicVarint(From(c, 1)) = [val |-> Len(u), used |-> Len(q)]
  BY <1>4, <1>8, <1>9
<1>13. DecodeQuicVarint(c) # Bad /\ DecodeQuicVarint(From(c, 1)) # Bad
  BY <1>3, <1>5, <1>11, <1>12, BadAssumption
<1>14. DecodeCapsule(c) = DecodeUdp(u)
  <2> DEFINE type == DecodeQuicVarint(c)
             len == DecodeQuicVarint(From(c, type.used))
             value == From(c, type.used + len.used)
  <2>1. DecodeCapsule(c) = IF type = Bad \/ type.val # 0 \/ len = Bad \/ len.val # Len(value) THEN Bad
                           ELSE DecodeUdp(value)
    BY DEF DecodeCapsule
  <2>2. type # Bad /\ type.val = 0 /\ type.used = 1
    BY <1>11, <1>13
  <2>3. len # Bad /\ len.val = Len(u) /\ len.used = Len(q)
    BY <1>12, <1>13, <2>2
  <2>4. value = u
    BY <1>10, <2>2, <2>3
  <2> HIDE DEF type, len, value
  <2> QED BY <2>1, <2>2, <2>3, <2>4
<1> QED BY <1>2, <1>9, <1>14 DEF c

\* A record goes through the capsule.
LEMMA MasqueBack ==
  ASSUME NEW rec \in WireRecords, Len(rec.ciphertext) < U64, Len(Encode(rec)) <= MaxUdp
  PROVE  DecodeMasqueFrame(EncodeCapsule(Encode(rec))) = rec
<1>1. Encode(rec) \in Seq(Byte) /\ Decode(Encode(rec)) = rec
  BY RecordsComeBack
<1>2. Encode(rec) # Bad
  BY <1>1, BadAssumption
<1>3. DecodeCapsule(EncodeCapsule(Encode(rec))) = Encode(rec)
  BY <1>1, CapsuleBack
<1> QED BY <1>1, <1>2, <1>3 DEF DecodeMasqueFrame

\* Bytes that decode as zero are the one byte of zero.
LEMMA QuicZeroRead ==
  ASSUME NEW bytes \in Seq(Byte), DecodeQuicVarint(bytes) # Bad, DecodeQuicVarint(bytes).val = 0
  PROVE  DecodeQuicVarint(bytes).used = 1 /\ SubSeq(bytes, 1, 1) = EncodeQuicVarint(0)
         /\ 1 \in 0 .. Len(bytes)
<1> DEFINE n == DecodeQuicVarint(bytes).used
<1>1. n \in 1 .. Len(bytes) /\ EncodeQuicVarint(0) = SubSeq(bytes, 1, n)
  BY QuicCanon
<1> HIDE DEF n
<1>2. n \in 0 .. Len(bytes) /\ n \in Nat /\ Len(bytes) \in Nat
  BY <1>1
<1>3. Len(SubSeq(bytes, 1, n)) = n
  BY <1>2, FirstPart
<1>4. n = 1
  BY <1>1, <1>3, QuicZero
<1> QED BY <1>1, <1>2, <1>4 DEF n

\* Bytes that decode as a datagram are those its encoder writes.
LEMMA UdpCanon ==
  ASSUME NEW payload \in Seq(Byte), DecodeUdp(payload) # Bad
  PROVE  DecodeUdp(payload) \in Seq(Byte) /\ EncodeUdp(DecodeUdp(payload)) = payload
<1> DEFINE d == DecodeQuicVarint(payload)
<1>1. d # Bad /\ d.val = 0 /\ DecodeUdp(payload) = From(payload, d.used)
  BY DEF DecodeUdp
<1>2. d.used = 1 /\ SubSeq(payload, 1, 1) = EncodeQuicVarint(0) /\ 1 \in 0 .. Len(payload)
  BY <1>1, QuicZeroRead
<1>3. From(payload, 1) \in Seq(Byte) /\ SubSeq(payload, 1, 1) \o From(payload, 1) = payload
  BY <1>2, Rest
<1> QED BY <1>1, <1>2, <1>3 DEF EncodeUdp

\* Bytes that decode as a capsule are those its encoder writes.
THEOREM CapsulesAreCanonical ==
  ASSUME NEW bytes \in Seq(Byte), DecodeCapsule(bytes) # Bad
  PROVE  EncodeCapsule(DecodeCapsule(bytes)) = bytes
<1> DEFINE type == DecodeQuicVarint(bytes)
           tail == From(bytes, type.used)
           len == DecodeQuicVarint(tail)
           value == From(bytes, type.used + len.used)
           z == EncodeQuicVarint(0)
<1>1. DecodeCapsule(bytes) = IF type = Bad \/ type.val # 0 \/ len = Bad \/ len.val # Len(value) THEN Bad
                             ELSE DecodeUdp(value)
  BY DEF DecodeCapsule
<1>2. /\ type # Bad /\ type.val = 0 /\ len # Bad /\ len.val = Len(value)
      /\ DecodeCapsule(bytes) = DecodeUdp(value) /\ DecodeUdp(value) # Bad
  BY <1>1
<1>3. type.used = 1 /\ SubSeq(bytes, 1, 1) = z /\ 1 \in 0 .. Len(bytes)
  BY <1>2, QuicZeroRead
<1> HIDE DEF type, z
<1>4. tail = From(bytes, 1) /\ value = From(bytes, 1 + len.used)
  BY <1>3
<1>5. /\ tail \in Seq(Byte) /\ Len(tail) = Len(bytes) - 1
      /\ \A i \in 1 .. Len(bytes) - 1 : tail[i] = bytes[1 + i]
      /\ z \o tail = bytes
  <2> HIDE DEF tail
  <2> QED BY <1>3, <1>4, Rest
<1> DEFINE n == len.used
           q == EncodeQuicVarint(len.val)
<1>6. n \in 1 .. Len(tail) /\ q = SubSeq(tail, 1, n)
  <2> HIDE DEF tail
  <2> QED BY <1>2, <1>5, QuicCanon
<1> HIDE DEF tail, len
<1>7. /\ From(tail, n) \in Seq(Byte) /\ Len(From(tail, n)) = Len(tail) - n
      /\ \A i \in 1 .. Len(tail) - n : From(tail, n)[i] = tail[n + i]
      /\ q \o From(tail, n) = tail /\ q \in Seq(Byte)
  <2>1. n \in 0 .. Len(tail)
    BY <1>6
  <2> HIDE DEF n, q
  <2> QED BY <1>5, <1>6, <2>1, FirstPart, Rest
<1> HIDE DEF value, n
<1>8. value \in Seq(Byte) /\ Len(value) = Len(bytes) - (1 + n)
      /\ \A i \in 1 .. Len(bytes) - (1 + n) : value[i] = bytes[(1 + n) + i]
  <2>1. 1 + n \in 0 .. Len(bytes)
    BY <1>3, <1>5, <1>6
  <2>2. value = From(bytes, 1 + n)
    BY <1>4 DEF n
  <2> QED BY <2>1, <2>2, Rest
<1>9. value = From(tail, n)
  <2> DEFINE f == From(tail, n)
  <2>1. f \in Seq(Byte) /\ Len(f) = Len(tail) - n /\ \A i \in 1 .. Len(tail) - n : f[i] = tail[n + i]
    BY <1>7
  <2> HIDE DEF f
  <2>2. Len(bytes) \in Nat /\ n \in Nat /\ n <= Len(bytes) - 1
    BY <1>3, <1>5, <1>6
  <2>3. Len(f) = Len(value)
    BY <1>5, <1>8, <2>1, <2>2
  <2>4. ASSUME NEW i \in 1 .. Len(value)
        PROVE  value[i] = f[i]
    <3>1. /\ i \in 1 .. Len(bytes) - (1 + n) /\ i \in 1 .. Len(tail) - n /\ n + i \in 1 .. Len(bytes) - 1
          /\ 1 + (n + i) = (1 + n) + i
      BY <1>5, <1>8, <2>2
    <3>2. value[i] = bytes[(1 + n) + i] /\ f[i] = tail[n + i] /\ tail[n + i] = bytes[1 + (n + i)]
      BY <1>5, <1>8, <2>1, <3>1
    <3> QED BY <3>1, <3>2
  <2>5. value = f
    BY <1>8, <2>1, <2>3, <2>4, SeqEqual
  <2> QED BY <2>5 DEF f
<1> DEFINE udp == DecodeUdp(value)
<1>10. EncodeUdp(udp) = value
  BY <1>2, <1>8, UdpCanon
<1>11. EncodeCapsule(udp) = (z \o q) \o value
  <2>1. EncodeCapsule(udp) = (EncodeQuicVarint(0) \o EncodeQuicVarint(Len(EncodeUdp(udp)))) \o EncodeUdp(udp)
    BY DEF EncodeCapsule
  <2> HIDE DEF udp
  <2> QED BY <1>2, <1>10, <2>1 DEF z
<1>12. z \in Seq(Byte)
  BY QuicZero DEF z
<1>13. (z \o q) \o value = z \o (q \o value)
  <2> HIDE DEF q
  <2>1. q \in Seq(Byte) /\ value \in Seq(Byte)
    BY <1>7, <1>8
  <2> QED BY <1>12, <2>1, ConcatAssociative
<1>14. z \o (q \o value) = bytes
  <2> HIDE DEF q
  <2> QED BY <1>5, <1>7, <1>9
<1> QED BY <1>2, <1>11, <1>13, <1>14

-----------------------------------------------------------------------------
(***************************************************************************)
(* The MASQUE tunnel.                                                      *)
(*                                                                         *)
(* Everything on its way, in the queue or at the target is a capsule of a  *)
(* record that was sent, or what is left of one when its Context ID is     *)
(* taken off.  That an echo gives the record back then rests on the codec: *)
(* what the receiver's decoder takes it writes again byte for byte.        *)
(***************************************************************************)
Capsules == {EncodeCapsule(Encode(rec)) : rec \in sent}

TunnelInvariant ==
  /\ tunnel \in {"Idle", "Asked", "Open", "Failed", "Closed"}
  /\ request = Bad \/ request.path \in Targets
  /\ server \in {"Accepting", "Proxy", "Ended"} /\ loops \subseteq {"Uplink", "Downlink"}
  /\ sent \subseteq Records /\ \A rec \in sent : Len(Encode(rec)) <= MaxUdp
  /\ box \in Seq(Capsules)
  /\ up \subseteq Capsules
  /\ \A t \in target : t # Bad /\ \E c \in Capsules : t = DecodeUdp(c)
  /\ echoed \subseteq {EncodeUdp(t) : t \in target}
  /\ answer \in Seq(Byte) /\ down \subseteq Seq(Byte)

\* What the records of the model are.
LEMMA SentRecords ==
  ASSUME NEW rec \in Records
  PROVE  rec \in WireRecords /\ Len(rec.ciphertext) < U64 /\ Encode(rec) \in Seq(Byte)
BY TunnelAssumption, RecordsComeBack

\* A capsule of a record that was sent is bytes, and decodes as that record.
LEMMA CapsuleOfRecord ==
  ASSUME TunnelInvariant, NEW c \in Capsules
  PROVE  c \in Seq(Byte) /\ DecodeMasqueFrame(c) \in sent
<1>1. PICK rec \in sent : c = EncodeCapsule(Encode(rec))
  BY DEF Capsules
<1>2. rec \in Records /\ Len(Encode(rec)) <= MaxUdp
  BY DEF TunnelInvariant
<1>3. rec \in WireRecords /\ Len(rec.ciphertext) < U64 /\ Encode(rec) \in Seq(Byte)
  BY <1>2, SentRecords
<1>4. c \in Seq(Byte)
  BY <1>1, <1>2, <1>3, CapsuleBack
<1>5. DecodeMasqueFrame(c) = rec
  BY <1>1, <1>2, <1>3, MasqueBack
<1> QED BY <1>4, <1>5

\* What the target got is bytes, and one Context ID before a capsule.
LEMMA TargetOfCapsule ==
  ASSUME TunnelInvariant, NEW t \in target
  PROVE  t \in Seq(Byte) /\ EncodeUdp(t) \in Capsules
<1>1. PICK c \in Capsules : t # Bad /\ t = DecodeUdp(c)
  BY DEF TunnelInvariant
<1>2. c \in Seq(Byte)
  BY CapsuleOfRecord
<1> QED BY <1>1, <1>2, UdpCanon

LEMMA UdpBytes ==
  ASSUME NEW udp \in Seq(Byte)
  PROVE  EncodeUdp(udp) \in Seq(Byte)
BY QuicZero, Joined DEF EncodeUdp

LEMMA TunnelInitial == TunnelInit => TunnelInvariant
<1> SUFFICES ASSUME TunnelInit PROVE TunnelInvariant
  OBVIOUS
<1>1. <<>> \in Seq(Capsules) /\ <<>> \in Seq(Byte)
  OBVIOUS
<1> QED BY <1>1 DEF TunnelInit, TunnelInvariant

\* A step keeps the invariant.
LEMMA TunnelStep ==
  ASSUME TunnelInvariant, [TunnelNext]_tunnelVars
  PROVE  TunnelInvariant'
<1> USE DEF TunnelInvariant
<1>1. ASSUME UNCHANGED tunnelVars
      PROVE  TunnelInvariant'
  BY <1>1 DEF tunnelVars, Capsules
<1>2. ASSUME NEW t \in Targets, NEW protocol \in {"connect-udp", "websocket"}, Ask(t, protocol)
      PROVE  TunnelInvariant'
  BY <1>2 DEF Ask, BuildConnectRequest, Capsules
<1>3. ASSUME Serve
      PROVE  TunnelInvariant'
  BY <1>3 DEF Serve, Capsules
<1>4. ASSUME Response
      PROVE  TunnelInvariant'
  BY <1>4 DEF Response, Capsules
<1>5. ASSUME NEW rec \in Records, Send(rec)
      PROVE  TunnelInvariant'
  <2> DEFINE c == EncodeCapsule(Encode(rec))
  <2>1. /\ sent' = sent \union {rec} /\ Len(Encode(rec)) <= MaxUdp /\ box' = Append(box, c)
        /\ UNCHANGED <<tunnel, request, server, loops, up, down, target, echoed, answer>>
    BY <1>5 DEF Send
  <2>2. Capsules \subseteq Capsules' /\ c \in Capsules'
    BY <2>1 DEF Capsules
  <2> HIDE DEF c
  <2>3. box' \in Seq(Capsules')
    <3> DEFINE S == Capsules'
    <3>1. box \in Seq(S)
      <4>1. Capsules \subseteq S
        BY <2>2
      <4> HIDE DEF S
      <4> QED BY <4>1, SeqMonotonic
    <3>2. c \in S
      BY <2>2
    <3> HIDE DEF S
    <3>3. Append(box, c) \in Seq(S)
      BY <3>1, <3>2
    <3> QED BY <2>1, <3>3 DEF S
  <2>4. sent' \subseteq Records /\ \A r \in sent' : Len(Encode(r)) <= MaxUdp
    BY <2>1
  <2>5. up' \subseteq Capsules'
    BY <2>1, <2>2
  <2>6. \A t \in target' : t # Bad /\ \E d \in Capsules' : t = DecodeUdp(d)
    BY <2>1, <2>2
  <2> QED BY <2>1, <2>3, <2>4, <2>5, <2>6
<1>6. ASSUME NEW n \in 0 .. Len(box), DrainBinding(n)
      PROVE  TunnelInvariant'
  <2>1. /\ up' = up \union {box[i] : i \in 1 .. n} /\ box' = <<>>
        /\ UNCHANGED <<tunnel, request, server, loops, sent, down, target, echoed, answer>>
    BY <1>6 DEF DrainBinding
  <2>2. Capsules' = Capsules
    BY <2>1 DEF Capsules
  <2>3. \A i \in 1 .. n : box[i] \in Capsules
    <3> SUFFICES ASSUME NEW i \in 1 .. n PROVE box[i] \in Capsules
      OBVIOUS
    <3>1. i \in 1 .. Len(box)
      OBVIOUS
    <3> QED BY <3>1, ElementOfSeq
  <2>4. up' \subseteq Capsules'
    BY <2>1, <2>2, <2>3
  <2>5. box' \in Seq(Capsules')
    BY <2>1
  <2> QED BY <2>1, <2>2, <2>4, <2>5
<1>7. ASSUME NEW p \in up, Uplink(p)
      PROVE  TunnelInvariant'
  <2>1. /\ up' = up \ {p} /\ target' = IF DecodeUdp(p) = Bad THEN target ELSE target \union {DecodeUdp(p)}
        /\ UNCHANGED <<tunnel, request, server, loops, box, sent, down, echoed, answer>>
    BY <1>7 DEF Uplink
  <2>2. Capsules' = Capsules /\ target \subseteq target'
    BY <2>1 DEF Capsules
  <2>3. \A t \in target' : t # Bad /\ \E c \in Capsules' : t = DecodeUdp(c)
    <3> SUFFICES ASSUME NEW t \in target' PROVE t # Bad /\ \E c \in Capsules : t = DecodeUdp(c)
      BY <2>2
    <3>1. CASE t \in target
      BY <3>1
    <3>2. CASE t \notin target
      <4>1. t = DecodeUdp(p) /\ t # Bad /\ p \in Capsules
        BY <2>1, <3>2
      <4> QED BY <4>1
    <3> QED BY <3>1, <3>2
  <2>4. echoed' \subseteq {EncodeUdp(t) : t \in target'}
    BY <2>1, <2>2
  <2>5. up' \subseteq Capsules' /\ box' \in Seq(Capsules')
    BY <2>1, <2>2
  <2> QED BY <2>1, <2>3, <2>4, <2>5
<1>8. ASSUME NEW t \in target, Echo(t)
      PROVE  TunnelInvariant'
  <2>1. /\ down' = down \union {EncodeUdp(t)} /\ echoed' = echoed \union {EncodeUdp(t)}
        /\ UNCHANGED <<tunnel, request, server, loops, box, sent, up, target, answer>>
    BY <1>8 DEF Echo
  <2>2. EncodeUdp(t) \in Seq(Byte)
    BY TargetOfCapsule, CapsuleOfRecord
  <2>3. Capsules' = Capsules
    BY <2>1 DEF Capsules
  <2> QED BY <2>1, <2>2, <2>3
<1>9. ASSUME NEW b \in Alphabet, Compose(b)
      PROVE  TunnelInvariant'
  <2>1. /\ answer' = Append(answer, b)
        /\ UNCHANGED <<tunnel, request, server, loops, box, sent, up, down, target, echoed>>
    BY <1>9 DEF Compose
  <2>2. answer' \in Seq(Byte)
    <3>1. b \in Byte
      BY TunnelAssumption
    <3> QED BY <2>1, <3>1
  <2>3. Capsules' = Capsules
    BY <2>1 DEF Capsules
  <2> QED BY <2>1, <2>2, <2>3
<1>10. ASSUME Answer
       PROVE  TunnelInvariant'
  <2>1. /\ down' = down \union {EncodeUdp(answer)} /\ answer' = <<>>
        /\ UNCHANGED <<tunnel, request, server, loops, box, sent, up, target, echoed>>
    BY <1>10 DEF Answer
  <2>2. EncodeUdp(answer) \in Seq(Byte) /\ answer' \in Seq(Byte)
    BY <2>1, UdpBytes
  <2>3. Capsules' = Capsules
    BY <2>1 DEF Capsules
  <2> QED BY <2>1, <2>2, <2>3
<1>11. ASSUME NEW p \in down, ReadDatagram(p)
       PROVE  TunnelInvariant'
  BY <1>11 DEF ReadDatagram, Capsules
<1>12. ASSUME NEW loop \in {"Uplink", "Downlink"}, SocketFails(loop)
       PROVE  TunnelInvariant'
  BY <1>12 DEF SocketFails, Capsules
<1>13. ASSUME ClientCloses
       PROVE  TunnelInvariant'
  BY <1>13 DEF ClientCloses, Capsules
<1>14. ASSUME UplinkEnds
       PROVE  TunnelInvariant'
  BY <1>14 DEF UplinkEnds, Capsules
<1>15. ASSUME ServerEnds
       PROVE  TunnelInvariant'
  BY <1>15 DEF ServerEnds, Capsules
<1>16. ASSUME ClientNotices
       PROVE  TunnelInvariant'
  BY <1>16 DEF ClientNotices, Capsules
<1> HIDE DEF TunnelInvariant
<1> QED BY <1>1, <1>2, <1>3, <1>4, <1>5, <1>6, <1>7, <1>8, <1>9, <1>10, <1>11, <1>12, <1>13,
           <1>14, <1>15, <1>16 DEF TunnelNext

\* serve_connect_udp and its client: the invariant above holds from the start.
THEOREM TunnelKeepsItsCapsules == TunnelSpec => []TunnelInvariant
BY TunnelInitial, TunnelStep, PTL DEF TunnelSpec

\* The state of the tunnel has its types, for any records, targets and answers.
THEOREM TunnelTypeCorrect == TunnelSpec => []TunnelTypeOK
<1>1. TunnelInvariant => TunnelTypeOK
  <2> SUFFICES ASSUME TunnelInvariant PROVE TunnelTypeOK
    OBVIOUS
  <2>1. \A i \in DOMAIN box : DecodeMasqueFrame(box[i]) \in sent
    <3> SUFFICES ASSUME NEW i \in DOMAIN box PROVE DecodeMasqueFrame(box[i]) \in sent
      OBVIOUS
    <3>1. box[i] \in Capsules
      BY DEF TunnelInvariant
    <3> QED BY <3>1, CapsuleOfRecord
  <2>2. \A p \in Seq(Byte) : \A i \in DOMAIN p : p[i] \in Byte
    OBVIOUS
  <2>3. \A p \in up \union down \union target \union {answer} : p \in Seq(Byte)
    BY CapsuleOfRecord, TargetOfCapsule DEF TunnelInvariant
  <2> QED BY <2>1, <2>2, <2>3 DEF TunnelTypeOK, TunnelInvariant
<1> QED BY <1>1, TunnelKeepsItsCapsules, PTL

\* masque_receiver_lab: through a target that returns what it gets, the client reads back only
\* records it sent, whole, whatever is lost or overtaken, for records of any size and number.
THEOREM EchoGivesBack == TunnelSpec => []EchoReturnsRecords
<1>1. TunnelInvariant => EchoReturnsRecords
  <2> SUFFICES ASSUME TunnelInvariant, NEW p \in echoed PROVE DecodeMasqueFrame(p) \in sent
    BY DEF EchoReturnsRecords
  <2>1. PICK t \in target : p = EncodeUdp(t)
    BY DEF TunnelInvariant
  <2> QED BY <2>1, TargetOfCapsule, CapsuleOfRecord
<1> QED BY <1>1, TunnelKeepsItsCapsules, PTL

\* decode_varint, Record::decode: bytes have one reading, as a capsule and as a padded
\* plaintext, for bytes of any length.
THEOREM OneReadingHolds == TunnelSpec => []OneReading
<1>1. TunnelInvariant => OneReading
  <2> SUFFICES ASSUME TunnelInvariant PROVE OneReading
    OBVIOUS
  <2>1. answer \in Seq(Byte)
    BY DEF TunnelInvariant
  <2> QED BY <2>1, CapsulesAreCanonical, OneCut DEF OneReading, OneCapsule
<1> QED BY <1>1, TunnelKeepsItsCapsules, PTL

\* Every cover gives the record back under its key and nothing under another, whatever the
\* padding, for every record and every width of its numbers.
THEOREM CoversGiveBack == TunnelSpec => []CoversAreTransparent
<1>1. TunnelInvariant => CoversAreTransparent
  <2> SUFFICES ASSUME TunnelInvariant, NEW rec \in sent
               PROVE  /\ DecodeFrame(EncodeFrame(rec)) = rec
                      /\ DecodeMasqueFrame(EncodeCapsule(Encode(rec))) = rec
                      /\ DecodeRealityFrame(Cover, EncodeRealityFrame(Cover, rec)) = rec
                      /\ DecodeRealityFrame(OtherCover, EncodeRealityFrame(Cover, rec)) = Bad
                      /\ \A pad \in Paddings :
                           /\ DecodeCoverFrame(Cover, EncodeCoverFrame(Cover, rec, pad)) = rec
                           /\ DecodeCoverFrame(OtherCover, EncodeCoverFrame(Cover, rec, pad)) = Bad
    BY DEF CoversAreTransparent
  <2>1. rec \in WireRecords /\ Len(rec.ciphertext) < U64 /\ Len(Encode(rec)) <= MaxUdp
    BY SentRecords DEF TunnelInvariant
  <2>2. OtherCover # Cover /\ \A pad \in Paddings : pad \in Seq(Byte)
    BY TunnelAssumption
  <2>3. DecodeMasqueFrame(EncodeCapsule(Encode(rec))) = rec
    BY <2>1, MasqueBack
  <2>4. /\ DecodeFrame(EncodeFrame(rec)) = rec
        /\ DecodeRealityFrame(Cover, EncodeRealityFrame(Cover, rec)) = rec
        /\ DecodeRealityFrame(OtherCover, EncodeRealityFrame(Cover, rec)) = Bad
    BY <2>1, <2>2, FramesBack
  <2>5. \A pad \in Paddings :
          /\ DecodeCoverFrame(Cover, EncodeCoverFrame(Cover, rec, pad)) = rec
          /\ DecodeCoverFrame(OtherCover, EncodeCoverFrame(Cover, rec, pad)) = Bad
    BY <2>1, <2>2, PaddedBack
  <2> QED BY <2>3, <2>4, <2>5
<1> QED BY <1>1, TunnelKeepsItsCapsules, PTL

-----------------------------------------------------------------------------
(***************************************************************************)
(* Reality and the splice inside it, for any number of connections, any    *)
(* mixture of clients and strangers, any clocks, quotas and buffers.       *)
(*                                                                         *)
(* The splice: bytes are counted after they went out, so at any moment     *)
(* what went out is what is counted and what the two threads still hold.   *)
(* The handshakes: as long as nobody else wrote to the shared state during *)
(* a handshake, it holds that handshake's keyshare and random.             *)
(***************************************************************************)
(* The splice *)

\* Bytes a thread wrote and has not counted yet.
Uncounted(d) == IF copier[d].pc = "Count" THEN copier[d].n ELSE 0

Pcs == {"Read", "Write", "Count"} \union Outcomes

SpliceShape ==
  /\ relay \in {"None", "Connecting", "Copying"} \union Outcomes
  /\ copier \in [Directions -> [pc : Pcs, n : 0 .. Buffer]]
  /\ quota \in Nat /\ forwarded \in Nat
  /\ waiting \in [Directions -> Nat]
  /\ shut \in BOOLEAN

\* Before the splice runs, nothing has happened.
SpliceFresh ==
  relay \in {"None", "Connecting"} =>
    /\ quota = 0 /\ forwarded = 0 /\ ~shut
    /\ \A d \in Directions : copier[d].pc = "Read"

\* The quota is reached exactly if a thread saw it, and then both sockets are shut down.
QuotaSeen ==
  relay = "Copying" =>
    /\ quota >= MaxRelay <=> \E d \in Directions : copier[d].pc = "QuotaExhausted"
    /\ (\E d \in Directions : copier[d].pc = "QuotaExhausted") => shut
    /\ forwarded = quota + Uncounted("ToSite") + Uncounted("ToProbe")

SpliceInv == SpliceShape /\ SpliceFresh /\ QuotaSeen /\ QuotaHolds

\* The first state of the tunnels.
LEMMA InitSpliceInv == SpliceInit => SpliceInv
<1> SUFFICES ASSUME SpliceInit PROVE SpliceInv
  OBVIOUS
<1>1. /\ relay = "None" /\ quota = 0 /\ forwarded = 0 /\ shut = FALSE
      /\ copier = [d \in Directions |-> [pc |-> "Read", n |-> 0]]
      /\ waiting = [d \in Directions |-> 0]
  BY DEF SpliceInit
<1>2. MaxRelay \in Nat /\ Buffer \in Nat \ {0}
  BY SpliceAssumption
<1>3. SpliceShape
  <2>1. [pc |-> "Read", n |-> 0] \in [pc : Pcs, n : 0 .. Buffer]
    BY <1>2 DEF Pcs
  <2> QED BY <1>1, <2>1 DEF SpliceShape
<1>4. SpliceFresh /\ QuotaSeen
  BY <1>1 DEF SpliceFresh, QuotaSeen
<1>5. QuotaHolds
  BY <1>1, <1>2 DEF QuotaHolds, Outcomes
<1> QED BY <1>3, <1>4, <1>5 DEF SpliceInv

\* Connecting: the hello is counted at once.
LEMMA ConnectKeeps == SpliceInv /\ ConnectUpstream => SpliceInv'
<1> SUFFICES ASSUME SpliceInv, ConnectUpstream PROVE SpliceInv'
  OBVIOUS
<1>1. SpliceShape /\ SpliceFresh /\ relay = "Connecting" /\ UNCHANGED <<copier, waiting, shut>>
  BY DEF SpliceInv, ConnectUpstream
<1>2. /\ quota = 0 /\ forwarded = 0 /\ ~shut
      /\ \A d \in Directions : copier[d].pc = "Read"
  BY <1>1 DEF SpliceFresh
<1>3. MaxRelay \in Nat /\ Buffer \in Nat \ {0} /\ HelloLen \in Nat
  BY SpliceAssumption
<1>4. CASE relay' = "UpstreamUnreachable" /\ UNCHANGED <<quota, forwarded>>
  <2>1. SpliceShape' /\ SpliceFresh' /\ QuotaSeen'
    BY <1>1, <1>4 DEF SpliceShape, SpliceFresh, QuotaSeen, Outcomes
  <2>2. QuotaHolds'
    BY <1>2, <1>3, <1>4 DEF QuotaHolds, Outcomes
  <2> QED BY <2>1, <2>2 DEF SpliceInv
<1>5. CASE /\ relay' = IF HelloLen >= MaxRelay THEN "QuotaExhausted" ELSE "Copying"
           /\ quota' = HelloLen /\ forwarded' = HelloLen
  <2>1. SpliceShape' /\ SpliceFresh'
    BY <1>1, <1>3, <1>5 DEF SpliceShape, SpliceFresh, Outcomes
  <2>2. QuotaSeen'
    BY <1>1, <1>2, <1>3, <1>5 DEF QuotaSeen, Uncounted, Directions
  <2>3. QuotaHolds'
    BY <1>3, <1>5 DEF QuotaHolds, Outcomes
  <2> QED BY <2>1, <2>2, <2>3 DEF SpliceInv
<1> QED BY <1>4, <1>5 DEF ConnectUpstream

\* A step of one thread, whatever it does, from what it must keep.
LEMMA CopierKeeps ==
  ASSUME SpliceInv, NEW d \in Directions, CopierStep(d)
  PROVE  SpliceInv'
<1>1. SpliceShape /\ SpliceFresh /\ QuotaSeen /\ QuotaHolds
  BY DEF SpliceInv
<1>2. MaxRelay \in Nat /\ Buffer \in Nat \ {0}
  BY SpliceAssumption
<1>3. relay = "Copying" /\ relay' = relay /\ copier[d].pc \notin Outcomes
  BY DEF CopierStep, ReadSome, ReadEnds, Write, WriteFails, Count, Running
<1>4. PICK e \in Directions : e # d /\ Directions = {d, e}
  BY DEF Directions
<1>5. /\ copier \in [Directions -> [pc : Pcs, n : 0 .. Buffer]]
      /\ quota \in Nat /\ forwarded \in Nat /\ waiting \in [Directions -> Nat] /\ shut \in BOOLEAN
      /\ copier[d].n \in 0 .. Buffer /\ copier[e].n \in 0 .. Buffer
  BY <1>1, <1>4 DEF SpliceShape
<1>6. /\ quota >= MaxRelay <=> copier[e].pc = "QuotaExhausted"
      /\ copier[e].pc = "QuotaExhausted" => shut
  BY <1>1, <1>3, <1>4 DEF QuotaSeen, Outcomes
<1>7. forwarded = quota + Uncounted(d) + Uncounted(e)
  <2>1. \/ d = "ToSite" /\ e = "ToProbe"
        \/ d = "ToProbe" /\ e = "ToSite"
    BY <1>4 DEF Directions
  <2>2. Uncounted(d) \in Nat /\ Uncounted(e) \in Nat
    BY <1>5, <1>2 DEF Uncounted
  <2> QED BY <1>1, <1>3, <1>5, <2>1, <2>2 DEF QuotaSeen
<1>8. SUFFICES
        /\ copier' \in [Directions -> [pc : Pcs, n : 0 .. Buffer]]
        /\ quota' \in Nat /\ forwarded' \in Nat /\ waiting' \in [Directions -> Nat]
        /\ shut' \in BOOLEAN
        /\ copier'[e] = copier[e]
        /\ quota' >= MaxRelay <=> \E x \in Directions : copier'[x].pc = "QuotaExhausted"
        /\ (\E x \in Directions : copier'[x].pc = "QuotaExhausted") => shut'
        /\ forwarded' = quota' + Uncounted(d)' + Uncounted(e)'
        /\ forwarded' = forwarded \/ forwarded' < MaxRelay + 2 * Buffer
  <2>1. SpliceShape' /\ SpliceFresh'
    BY <1>1, <1>3, <1>8 DEF SpliceShape, SpliceFresh
  <2>2. \/ d = "ToSite" /\ e = "ToProbe"
        \/ d = "ToProbe" /\ e = "ToSite"
    BY <1>4 DEF Directions
  <2>3. forwarded' = quota' + Uncounted("ToSite")' + Uncounted("ToProbe")'
    <3>1. Uncounted(d)' \in Nat /\ Uncounted(e)' \in Nat
      BY <1>8, <1>2, <1>4 DEF Uncounted
    <3> QED BY <1>8, <2>2, <3>1
  <2>4. QuotaSeen'
    BY <1>8, <2>3 DEF QuotaSeen
  <2>5. QuotaHolds'
    BY <1>1, <1>3, <1>8 DEF QuotaHolds, Outcomes
  <2> QED BY <2>1, <2>4, <2>5 DEF SpliceInv
<1>9. CASE ReadSome(d)
  <2>1. PICK n \in 1 .. Buffer :
          /\ n <= waiting[d]
          /\ copier' = [copier EXCEPT ![d] = [pc |-> "Write", n |-> n]]
          /\ waiting' = [waiting EXCEPT ![d] = @ - n]
    BY <1>9 DEF ReadSome
  <2>2. copier[d].pc = "Read" /\ UNCHANGED <<shut, quota, forwarded>>
    BY <1>9 DEF ReadSome
  <2>3. copier'[d] = [pc |-> "Write", n |-> n] /\ copier'[e] = copier[e]
    BY <2>1, <1>4, <1>5
  <2>4. copier' \in [Directions -> [pc : Pcs, n : 0 .. Buffer]]
    BY <2>1, <1>2, <1>5 DEF Pcs
  <2>5. waiting' \in [Directions -> Nat]
    BY <2>1, <1>2, <1>5
  <2>6. Uncounted(d)' = Uncounted(d) /\ Uncounted(e)' = Uncounted(e)
    BY <2>2, <2>3 DEF Uncounted
  <2> QED BY <1>4, <1>5, <1>6, <1>7, <2>2, <2>3, <2>4, <2>5, <2>6
<1>10. CASE ReadEnds(d) \/ WriteFails(d)
  <2>1. /\ copier[d].pc \in {"Read", "Write"}
        /\ copier' = [copier EXCEPT ![d] = [pc |-> "Completed", n |-> 0]] /\ shut' = TRUE
        /\ UNCHANGED <<waiting, quota, forwarded>>
    BY <1>10 DEF ReadEnds, WriteFails, Terminate
  <2>2. copier'[d] = [pc |-> "Completed", n |-> 0] /\ copier'[e] = copier[e]
    BY <2>1, <1>4, <1>5
  <2>3. copier' \in [Directions -> [pc : Pcs, n : 0 .. Buffer]]
    BY <2>1, <1>2, <1>5 DEF Pcs, Outcomes
  <2>4. Uncounted(d)' = Uncounted(d) /\ Uncounted(e)' = Uncounted(e)
    BY <2>1, <2>2 DEF Uncounted
  <2> QED BY <1>4, <1>5, <1>6, <1>7, <2>1, <2>2, <2>3, <2>4
<1>11. CASE Write(d)
  <2>1. /\ copier[d].pc = "Write" /\ ~shut
        /\ copier' = [copier EXCEPT ![d].pc = "Count"]
        /\ forwarded' = forwarded + copier[d].n
        /\ UNCHANGED <<waiting, shut, quota>>
    BY <1>11 DEF Write
  <2>2. /\ copier'[d].pc = "Count" /\ copier'[d].n = copier[d].n
        /\ copier'[e] = copier[e]
        /\ copier' \in [Directions -> [pc : Pcs, n : 0 .. Buffer]]
    BY <2>1, <1>4, <1>5 DEF Pcs
  <2>3. Uncounted(d) = 0 /\ Uncounted(d)' = copier[d].n /\ Uncounted(e)' = Uncounted(e)
    BY <2>1, <2>2 DEF Uncounted
  <2>4. Uncounted(e) \in 0 .. Buffer
    BY <1>2, <1>5 DEF Uncounted
  <2>5. quota < MaxRelay
    BY <1>2, <1>5, <1>6, <2>1
  <2>6. forwarded' < MaxRelay + 2 * Buffer /\ forwarded' \in Nat
    BY <1>2, <1>5, <1>7, <2>1, <2>3, <2>4, <2>5
  <2>7. forwarded' = quota' + Uncounted(d)' + Uncounted(e)'
    BY <1>5, <1>7, <2>1, <2>3, <2>4
  <2> QED BY <1>4, <1>5, <1>6, <2>1, <2>2, <2>6, <2>7
<1>12. CASE Count(d)
  <2>1. copier[d].pc = "Count" /\ quota' = quota + copier[d].n /\ UNCHANGED <<waiting, forwarded>>
    BY <1>12 DEF Count
  <2>2. Uncounted(d) = copier[d].n
    BY <2>1 DEF Uncounted
  <2>3. quota' \in Nat /\ quota <= quota'
    BY <1>2, <1>5, <2>1
  <2>4. CASE quota' >= MaxRelay
    <3>1. copier' = [copier EXCEPT ![d] = [pc |-> "QuotaExhausted", n |-> 0]] /\ shut' = TRUE
      BY <1>12, <2>1, <2>4 DEF Count, Total, Terminate
    <3>2. copier'[d] = [pc |-> "QuotaExhausted", n |-> 0] /\ copier'[e] = copier[e]
      BY <3>1, <1>4, <1>5
    <3>3. copier' \in [Directions -> [pc : Pcs, n : 0 .. Buffer]]
      BY <3>1, <1>2, <1>5 DEF Pcs, Outcomes
    <3>4. Uncounted(d)' = 0 /\ Uncounted(e)' = Uncounted(e)
      BY <3>2 DEF Uncounted
    <3>5. Uncounted(e) \in Nat
      BY <1>2, <1>5 DEF Uncounted
    <3>6. forwarded' = quota' + Uncounted(d)' + Uncounted(e)'
      BY <1>5, <1>7, <2>1, <2>2, <2>3, <3>4, <3>5
    <3> QED BY <1>4, <1>5, <2>1, <2>3, <2>4, <3>1, <3>2, <3>3, <3>6
  <2>5. CASE ~(quota' >= MaxRelay)
    <3>1. copier' = [copier EXCEPT ![d] = [pc |-> "Read", n |-> 0]] /\ UNCHANGED shut
      BY <1>12, <2>1, <2>5 DEF Count, Total
    <3>2. copier'[d] = [pc |-> "Read", n |-> 0] /\ copier'[e] = copier[e]
      BY <3>1, <1>4, <1>5
    <3>3. copier' \in [Directions -> [pc : Pcs, n : 0 .. Buffer]]
      BY <3>1, <1>2, <1>5 DEF Pcs
    <3>4. Uncounted(d)' = 0 /\ Uncounted(e)' = Uncounted(e)
      BY <3>2 DEF Uncounted
    <3>5. Uncounted(e) \in Nat
      BY <1>2, <1>5 DEF Uncounted
    <3>6. forwarded' = quota' + Uncounted(d)' + Uncounted(e)'
      BY <1>5, <1>7, <2>1, <2>2, <2>3, <3>4, <3>5
    <3>7. copier[e].pc # "QuotaExhausted"
      BY <1>2, <1>5, <1>6, <2>3, <2>5
    <3> QED BY <1>4, <1>5, <2>1, <2>3, <2>5, <3>1, <3>2, <3>3, <3>6, <3>7
  <2> QED BY <2>4, <2>5
<1> QED BY <1>9, <1>10, <1>11, <1>12 DEF CopierStep

\* Every step of the splice, and the start of one, keep the splice's invariant.
LEMMA SpliceKeeps == SpliceInv /\ SpliceNext => SpliceInv'
<1> SUFFICES ASSUME SpliceInv, SpliceNext PROVE SpliceInv'
  OBVIOUS
<1>1. SpliceShape /\ SpliceFresh /\ QuotaSeen /\ QuotaHolds
  BY DEF SpliceInv
<1>2. ASSUME NEW d \in Directions, SideSends(d) PROVE SpliceInv'
  <2>1. /\ relay = "Copying" /\ waiting' = [waiting EXCEPT ![d] = @ + 1]
        /\ UNCHANGED <<relay, copier, shut, quota, forwarded>>
    BY <1>2 DEF SideSends
  <2>2. waiting' \in [Directions -> Nat]
    BY <1>1, <2>1 DEF SpliceShape
  <2> QED BY <1>1, <2>1, <2>2
       DEF SpliceInv, SpliceShape, SpliceFresh, QuotaSeen, QuotaHolds, Uncounted
<1>3. CASE Join
  <2>1. /\ relay = "Copying" /\ \A d \in Directions : copier[d].pc \in Outcomes
        /\ relay' = IF \E d \in Directions : copier[d].pc = "QuotaExhausted"
                    THEN "QuotaExhausted" ELSE "Completed"
        /\ UNCHANGED <<copier, waiting, shut, quota, forwarded>>
    BY <1>3 DEF Join, Running
  <2>2. SpliceShape' /\ SpliceFresh' /\ QuotaSeen'
    BY <1>1, <2>1 DEF SpliceShape, SpliceFresh, QuotaSeen, Outcomes
  <2>3. QuotaHolds'
    BY <1>1, <2>1 DEF QuotaHolds, QuotaSeen, Outcomes
  <2> QED BY <2>2, <2>3 DEF SpliceInv
<1> QED BY <1>2, <1>3, ConnectKeeps, CopierKeeps DEF SpliceNext

\* A step that leaves the tunnels alone.
LEMMA SpliceStuttering == SpliceInv /\ UNCHANGED spliceVars => SpliceInv'
  BY DEF SpliceInv, SpliceShape, SpliceFresh, QuotaSeen, QuotaHolds, Uncounted, spliceVars

-----------------------------------------------------------------------------
(* The gate and the handshakes *)

After == {"Accept", "Cert", "Aether", "Dropped", "Ended"}

\* Where a connection is on both sides, and what is set by then.
Progress ==
  /\ kind \in [Conns -> Kinds]
  /\ clock \in [{"node", "clients"} -> 0 .. MaxSlot]
  /\ DOMAIN client = Conns /\ DOMAIN hello = Conns /\ DOMAIN node = Conns
  /\ DOMAIN cert = Conns /\ DOMAIN gatedAt = Conns
  /\ DOMAIN shared = {"keyshare", "random"}
  /\ \A c \in Conns :
       /\ node[c] \in After \union {"Peeking", "Relay", "Reject"}
       /\ client[c] \notin {"Idle", "Sent"} => c \in T1Clients
       /\ client[c] \in {"Idle", "Keyed"} => hello[c] = None
       /\ client[c] \in {"Completed", "Verified", "Failed", "Speaking"} => cert[c] # None
       /\ node[c] # "Peeking" <=> gatedAt[c] # None
       /\ node[c] # "Peeking" => hello[c] # None
       /\ cert[c] # None => node[c] \in After \ {"Accept"} /\ cert[c] = RealityCert(hello[c])

\* What a hello holds: a client's tag is over the hello that carries it, a stranger's
\* over other bytes or not there, and a copy is what it is a copy of.
HelloOf(c) ==
  LET h == Hello(c) IN
  \/ /\ kind[c] \in Tagged
     /\ \E slot \in 0 .. MaxSlot : hello[c] = [h EXCEPT !.tag = Authenticator(h, slot)]
  \/ /\ kind[c] = "WrongTag"
     /\ \E slot \in 0 .. MaxSlot :
          hello[c] = [h EXCEPT !.tag = Authenticator([h EXCEPT !.random = None], slot)]
  \/ kind[c] = "Replay" /\ \E d \in T1Clients : hello[d] # None /\ hello[c] = hello[d]
  \/ kind[c] \in {"Probe", "Junk"} /\ hello[c] = h

Hellos == \A c \in Conns : hello[c] # None => HelloOf(c)

\* The shared state is that of a handshake nobody disturbed.
Undisturbed ==
  \A c \in T1Clients \ overlapped :
    /\ client[c] \in {"Keyed", "Sent", "Completed"} => shared.keyshare = c
    /\ client[c] \in {"Sent", "Completed"} => shared.random = c

HandshakeInv ==
  /\ Progress /\ Hellos /\ Undisturbed
  /\ GateKnowsItsOwn /\ OnlyTheNodeVerifies /\ FailsOnlyOverlapped

\* The first state of the handshakes.
LEMMA InitHandshakeInv == Init => HandshakeInv
<1> SUFFICES ASSUME Init PROVE HandshakeInv
  OBVIOUS
<1>1. /\ kind \in [Conns -> Kinds]
      /\ clock = [who \in {"node", "clients"} |-> 0]
      /\ shared = [keyshare |-> None, random |-> None]
      /\ client = [c \in Conns |-> "Idle"] /\ hello = [c \in Conns |-> None]
      /\ node = [c \in Conns |-> "Peeking"] /\ cert = [c \in Conns |-> None]
      /\ gatedAt = [c \in Conns |-> None]
  BY RealityAssumption DEF Init
<1>2. clock \in [{"node", "clients"} -> 0 .. MaxSlot]
  BY <1>1, MarkersAssumption
<1>3. Progress
  BY <1>1, <1>2 DEF Progress, After
<1>4. Hellos /\ Undisturbed
  BY <1>1 DEF Hellos, Undisturbed, T1Clients
<1>5. GateKnowsItsOwn /\ OnlyTheNodeVerifies /\ FailsOnlyOverlapped
  BY <1>1 DEF GateKnowsItsOwn, OnlyTheNodeVerifies, FailsOnlyOverlapped
<1> QED BY <1>3, <1>4, <1>5 DEF HandshakeInv

\* An authenticator is that of a slot only.
LEMMA TagsOfSlots ==
  ASSUME NEW h, NEW s \in Nat, NEW t \in Nat, Authenticator(h, s) = Authenticator(h, t)
  PROVE  s = t
<1>1. Authenticator(h, s).window = Window(s) /\ Authenticator(h, t).window = Window(t)
  BY DEF Authenticator, ProbeTag
<1>2. Window(s)[2] = s + 1 /\ Window(t)[2] = t + 1
  BY DEF Window
<1> QED BY <1>1, <1>2

\* The gate on a hello that carries the tag of a slot over itself: the three slots are
\* those at most one off.
LEMMA GateOnOwnTag ==
  ASSUME NEW h, NEW s \in Nat, NEW g \in Nat,
         h.tls, h.tag = Authenticator(h, s)
  PROVE  GateDecision(h, g) = IF Distance(s, g) <= 1 THEN "Accept" ELSE "Relay"
<1>1. h.tag \in {Authenticator(h, x) : x \in GateSlots(g)} <=> s \in GateSlots(g)
  <2>1. GateSlots(g) \subseteq Nat
    BY DEF GateSlots, SatSub
  <2>2. ASSUME NEW x \in GateSlots(g), h.tag = Authenticator(h, x) PROVE s = x
    BY <2>1, <2>2, TagsOfSlots
  <2> QED BY <2>2
<1>2. s \in GateSlots(g) <=> Distance(s, g) <= 1
  BY DEF GateSlots, SatSub, Distance
<1> QED BY <1>1, <1>2 DEF GateDecision

\* A hello is zeroed to the same bytes with and without its tag.
LEMMA TagCoversTheRest ==
  ASSUME NEW h, NEW tag, NEW slot
  PROVE  Authenticator([h EXCEPT !.tag = tag], slot) = Authenticator(h, slot)
<1>1. [[h EXCEPT !.tag = tag] EXCEPT !.tag = None] = [h EXCEPT !.tag = None]
  OBVIOUS
<1> QED BY <1>1 DEF Authenticator, Redacted

\* The gate's verdict on a client's hello.
LEMMA ClientVerdict ==
  ASSUME HandshakeInv, NEW d \in T1Clients, hello[d] # None, NEW g \in Nat
  PROVE  GateDecision(hello[d], g) = IF Distance(TagSlot(d), g) <= 1 THEN "Accept" ELSE "Relay"
<1> DEFINE h == Hello(d)
<1>1. HelloOf(d) /\ kind[d] \in Tagged
  BY DEF HandshakeInv, Hellos, T1Clients
<1>2. h = [tls |-> kind[d] # "Junk", shares |-> {[group |-> "X25519", key |-> d]},
           random |-> d, tag |-> None]
  BY DEF Hello
<1>3. PICK slot \in 0 .. MaxSlot : hello[d] = [h EXCEPT !.tag = Authenticator(h, slot)]
  BY <1>1 DEF HelloOf, Tagged
<1>4. slot \in Nat
  BY MarkersAssumption
<1>5. hello[d].tls /\ hello[d].tag = Authenticator(h, slot)
  <2> HIDE DEF h
  <2>1. DOMAIN h = {"tls", "shares", "random", "tag"} /\ h.tls
    BY <1>1, <1>2 DEF Tagged
  <2> QED BY <1>3, <2>1
<1>6. Authenticator(hello[d], slot) = Authenticator(h, slot)
  BY <1>3, TagCoversTheRest
<1>7. TagSlot(d) = slot
  BY <1>4, <1>5 DEF TagSlot, Authenticator, ProbeTag, Window
<1> QED BY <1>4, <1>5, <1>6, <1>7, GateOnOwnTag

\* Its verdict on every hello that can come.
LEMMA GateVerdict ==
  ASSUME HandshakeInv, NEW c \in Conns, hello[c] # None
  PROVE  LET g == clock["node"] IN
         /\ g \in Nat
         /\ GateDecision(hello[c], g) = "Accept"
              <=> \E d \in T1Clients : hello[c] = hello[d] /\ Distance(TagSlot(d), g) <= 1
         /\ GateDecision(hello[c], g) \in {"Accept", "Relay", "Reject"}
<1> DEFINE g == clock["node"]
           h == Hello(c)
           Known == \E d \in T1Clients : hello[c] = hello[d]
<1>1. g \in Nat /\ HelloOf(c) /\ kind[c] \in Kinds
  BY MarkersAssumption DEF HandshakeInv, Progress, Hellos
<1>2. h = [tls |-> kind[c] # "Junk", shares |-> {[group |-> "X25519", key |-> c]},
           random |-> c, tag |-> None]
  BY DEF Hello
<1>3. CASE Known
  <2>1. PICK d \in T1Clients : hello[c] = hello[d]
    BY <1>3
  <2>2. \A e \in T1Clients : hello[c] = hello[e] => TagSlot(e) = TagSlot(d)
    BY <2>1 DEF TagSlot
  <2>3. GateDecision(hello[c], g) = IF Distance(TagSlot(d), g) <= 1 THEN "Accept" ELSE "Relay"
    BY <1>1, <2>1, ClientVerdict
  <2> QED BY <1>1, <2>1, <2>2, <2>3
<1>4. ~Known => kind[c] \in {"WrongTag", "Probe", "Junk"}
  BY <1>1 DEF HelloOf, T1Clients, Kinds, Tagged
<1>5. CASE ~Known /\ kind[c] = "WrongTag"
  <2>1. PICK slot \in 0 .. MaxSlot :
          hello[c] = [h EXCEPT !.tag = Authenticator([h EXCEPT !.random = None], slot)]
    BY <1>1, <1>5 DEF HelloOf, Tagged
  <2>2. hello[c].tag = Authenticator([h EXCEPT !.random = None], slot)
    BY <1>2, <2>1
  <2>3. hello[c].tag.over = Redacted([h EXCEPT !.random = None])
    BY <2>2 DEF Authenticator, ProbeTag
  <2>4. hello[c].tag.over.random = None
    BY <1>2, <2>3 DEF Redacted
  <2>5. ASSUME NEW x PROVE Authenticator(hello[c], x).over.random = c
    <3>1. hello[c].random = c /\ DOMAIN hello[c] = {"tls", "shares", "random", "tag"}
      BY <1>2, <2>1
    <3> QED BY <3>1 DEF Authenticator, ProbeTag, Redacted
  <2>6. hello[c].tag \notin {Authenticator(hello[c], x) : x \in GateSlots(g)}
    BY <2>4, <2>5, MarkersAssumption
  <2> QED BY <1>1, <1>5, <2>6 DEF GateDecision, Tagged
<1>6. CASE ~Known /\ kind[c] \in {"Probe", "Junk"}
  <2>1. hello[c] = h /\ h.tag = None
    BY <1>1, <1>2, <1>6 DEF HelloOf, Tagged
  <2>2. CASE kind[c] = "Junk"
    <3>1. ~hello[c].tls
      <4>1. h.tls = (kind[c] # "Junk")
        BY <1>2
      <4> QED BY <2>1, <2>2, <4>1
    <3>2. GateDecision(hello[c], g) = "Reject"
      BY <3>1 DEF GateDecision
    <3> QED BY <1>1, <1>6, <2>2, <3>2 DEF Tagged
  <2>3. CASE kind[c] = "Probe"
    <3>1. \A x \in 0 .. MaxSlot + 1 : None # Authenticator(h, x)
      BY <1>2, <2>3, MarkersAssumption
    <3>2. GateSlots(g) \subseteq 0 .. MaxSlot + 1
      <4>1. MaxSlot \in Nat /\ g \in 0 .. MaxSlot
        BY MarkersAssumption DEF HandshakeInv, Progress
      <4> QED BY <4>1 DEF GateSlots, SatSub
    <3>3. hello[c].tag \notin {Authenticator(hello[c], x) : x \in GateSlots(g)}
      BY <2>1, <3>1, <3>2
    <3> QED BY <1>1, <1>6, <2>3, <3>3 DEF GateDecision, Tagged
  <2> QED BY <1>6, <2>2, <2>3
<1> QED BY <1>3, <1>4, <1>5, <1>6

\* A client's hello offers one share and has one random.
LEMMA HelloFields ==
  ASSUME Hellos, NEW c \in Conns, hello[c] # None, kind[c] \in Tagged
  PROVE  KeyShare(hello[c]) = c /\ hello[c].random = c
<1> DEFINE h == Hello(c)
<1>1. h = [tls |-> kind[c] # "Junk", shares |-> {[group |-> "X25519", key |-> c]},
           random |-> c, tag |-> None]
  BY DEF Hello
<1>2. PICK slot \in 0 .. MaxSlot : hello[c] = [h EXCEPT !.tag = Authenticator(h, slot)]
  BY DEF Hellos, HelloOf, Tagged
<1>3. hello[c].random = c /\ hello[c].shares = {[group |-> "X25519", key |-> c]}
  <2> HIDE DEF h
  <2>1. DOMAIN h = {"tls", "shares", "random", "tag"} /\ h.random = c
        /\ h.shares = {[group |-> "X25519", key |-> c]}
    BY <1>1
  <2> QED BY <1>2, <2>1
<1>4. \A x \in hello[c].shares : x = [group |-> "X25519", key |-> c]
  BY <1>3
<1>5. KeyShare(hello[c]) = [group |-> "X25519", key |-> c].key
  BY <1>3, <1>4 DEF KeyShare
<1> QED BY <1>3, <1>5

\* The random of a connection that has not sent its hello is in nobody's.
LEMMA RandomsApart ==
  ASSUME Hellos, NEW c \in Conns, hello[c] = None, NEW e \in Conns, hello[e] # None
  PROVE  hello[e].random # c
<1> DEFINE h == Hello(e)
<1>1. h = [tls |-> kind[e] # "Junk", shares |-> {[group |-> "X25519", key |-> e]},
           random |-> e, tag |-> None]
  BY DEF Hello
<1>2. HelloOf(e) /\ e # c
  BY DEF Hellos
<1>3. CASE \E t : hello[e] = [h EXCEPT !.tag = t]
  <2> HIDE DEF h
  <2>1. DOMAIN h = {"tls", "shares", "random", "tag"} /\ h.random = e
    BY <1>1
  <2> QED BY <1>2, <1>3, <2>1
<1>4. CASE \E d \in T1Clients : hello[d] # None /\ hello[e] = hello[d]
  <2>1. PICK d \in T1Clients : hello[d] # None /\ hello[e] = hello[d]
    BY <1>4
  <2>2. hello[d].random = d
    BY <2>1, HelloFields DEF T1Clients
  <2> QED BY <2>1, <2>2
<1>5. CASE hello[e] = h
  BY <1>1, <1>2, <1>5
<1> QED BY <1>2, <1>3, <1>4, <1>5 DEF HelloOf

\* The client's check of the certificate: it fails on another node's key, and for the
\* node's own key it passes while the shared state is this handshake's.
LEMMA CheckOfCert ==
  ASSUME HandshakeInv, NEW c \in Conns, client[c] = "Completed"
  PROVE  /\ cert[c].sig.key.salt = hello[c].random
         /\ CertMatches(c) => kind[c] # "StaleManifest"
         /\ ~CertMatches(c) => kind[c] = "StaleManifest" \/ c \in overlapped
<1>1. /\ cert[c] # None /\ node[c] \in After /\ cert[c] = RealityCert(hello[c])
      /\ hello[c] # None /\ c \in T1Clients
  BY DEF HandshakeInv, Progress, After
<1>2. /\ cert[c].pub = CertPub
      /\ cert[c].sig = CertSignature(AuthKey(Node, KeyShare(hello[c]), hello[c].random), CertPub)
  BY <1>1 DEF RealityCert
<1>3. cert[c].sig.key.salt = hello[c].random /\ cert[c].sig.key.dh[1] = Node
  BY <1>2 DEF CertSignature, AuthKey
<1>4. ASSUME CertMatches(c), kind[c] = "StaleManifest" PROVE FALSE
  <2>1. cert[c].sig = CertSignature(AuthKey(None, shared.keyshare, shared.random), cert[c].pub)
    BY <1>4 DEF CertMatches, ManifestKey
  <2>2. cert[c].sig.key.dh[1] = None
    BY <2>1 DEF CertSignature, AuthKey
  <2> QED BY <1>3, <2>2, MarkersAssumption
<1>5. ASSUME kind[c] # "StaleManifest", c \notin overlapped PROVE CertMatches(c)
  <2>1. shared.keyshare = c /\ shared.random = c
    BY <1>1, <1>5 DEF HandshakeInv, Undisturbed
  <2>2. KeyShare(hello[c]) = c /\ hello[c].random = c
    BY <1>1, HelloFields DEF HandshakeInv, T1Clients
  <2> QED BY <1>2, <1>5, <2>1, <2>2 DEF CertMatches, ManifestKey
<1> QED BY <1>3, <1>4, <1>5

-----------------------------------------------------------------------------
\* What is known of the hellos does not depend on anything else.
LEMMA HellosUntouched == ASSUME Hellos, UNCHANGED <<kind, hello>> PROVE Hellos'
<1>1. ASSUME NEW c \in Conns, HelloOf(c) PROVE HelloOf(c)'
  BY <1>1 DEF HelloOf, Hello, T1Clients
<1> QED BY <1>1 DEF Hellos

\* Time passes.
LEMMA TickKeeps ==
  ASSUME HandshakeInv, NEW who \in {"node", "clients"}, Tick(who) PROVE HandshakeInv'
<1>1. clock' \in [{"node", "clients"} -> 0 .. MaxSlot]
  <2>1. clock' = [clock EXCEPT ![who] = @ + 1] /\ clock[who] < MaxSlot
    BY DEF Tick
  <2>2. clock \in [{"node", "clients"} -> 0 .. MaxSlot] /\ MaxSlot \in Nat
    BY MarkersAssumption DEF HandshakeInv, Progress
  <2>3. clock[who] + 1 \in 0 .. MaxSlot
    BY <2>1, <2>2
  <2> QED BY <2>1, <2>2, <2>3
<1>2. UNCHANGED <<kind, shared, client, hello, node, cert, gatedAt, overlapped>>
  BY DEF Tick
<1>3. Progress'
  BY <1>1, <1>2 DEF HandshakeInv, Progress, T1Clients, RealityCert, KeyShare
<1>4. Hellos' /\ Undisturbed'
  BY <1>2, HellosUntouched DEF HandshakeInv, Undisturbed, T1Clients
<1>5. GateKnowsItsOwn' /\ OnlyTheNodeVerifies' /\ FailsOnlyOverlapped'
  BY <1>2 DEF HandshakeInv, GateKnowsItsOwn, TagSlot, T1Clients, OnlyTheNodeVerifies, FailsOnlyOverlapped
<1> QED BY <1>3, <1>4, <1>5 DEF HandshakeInv

\* What the splice and the stuttering step leave alone.
LEMMA HandshakesUntouched ==
  ASSUME HandshakeInv,
         UNCHANGED <<kind, clock, shared, client, hello, node, cert, gatedAt, overlapped>>
  PROVE  HandshakeInv'
<1>1. Progress'
  BY DEF HandshakeInv, Progress, T1Clients, RealityCert, KeyShare
<1>2. Hellos' /\ Undisturbed'
  BY HellosUntouched DEF HandshakeInv, Undisturbed, T1Clients
<1>3. GateKnowsItsOwn' /\ OnlyTheNodeVerifies' /\ FailsOnlyOverlapped'
  BY DEF HandshakeInv, GateKnowsItsOwn, TagSlot, T1Clients, OnlyTheNodeVerifies, FailsOnlyOverlapped
<1> QED BY <1>1, <1>2, <1>3 DEF HandshakeInv

\* A handshake begins: every other one under way is disturbed.
LEMMA KxStartKeeps == ASSUME HandshakeInv, NEW c \in Conns, KxStart(c) PROVE HandshakeInv'
<1>1. /\ c \in T1Clients /\ client[c] = "Idle" /\ client' = [client EXCEPT ![c] = "Keyed"]
      /\ shared' = [shared EXCEPT !.keyshare = c]
      /\ overlapped' = overlapped \union Disturbed(c)
      /\ UNCHANGED <<kind, clock, hello, node, cert, gatedAt>>
  BY DEF KxStart
<1>2. Progress /\ Hellos /\ Undisturbed
  BY DEF HandshakeInv
<1>3. client'[c] = "Keyed" /\ \A d \in Conns \ {c} : client'[d] = client[d]
  BY <1>1, <1>2 DEF Progress
<1>4. DOMAIN client' = Conns /\ DOMAIN shared' = {"keyshare", "random"} /\ shared'.keyshare = c
  BY <1>1, <1>2 DEF Progress
<1>5. Progress'
  BY <1>1, <1>2, <1>3, <1>4 DEF Progress, T1Clients, RealityCert, KeyShare
<1>6. Hellos'
  BY <1>1, <1>2, HellosUntouched
<1>7. Undisturbed'
  BY <1>1, <1>2, <1>3, <1>4 DEF Undisturbed, Disturbed, T1Clients
<1>8. GateKnowsItsOwn' /\ OnlyTheNodeVerifies' /\ FailsOnlyOverlapped'
  BY <1>1, <1>3 DEF HandshakeInv, GateKnowsItsOwn, TagSlot, T1Clients, OnlyTheNodeVerifies, FailsOnlyOverlapped
<1> QED BY <1>5, <1>6, <1>7, <1>8 DEF HandshakeInv

\* A hello leaves; nothing was decided about the connection before it.
LEMMA HelloLeaves ==
  ASSUME HandshakeInv, NEW c \in Conns, NEW h,
         hello[c] = None, client[c] \in {"Idle", "Keyed"},
         client' = [client EXCEPT ![c] = "Sent"], hello' = [hello EXCEPT ![c] = h],
         UNCHANGED <<kind, clock, node, cert, gatedAt>>,
         DOMAIN shared' = {"keyshare", "random"},
         overlapped \subseteq overlapped', HelloOf(c)', c \in T1Clients => h.random = c
  PROVE  Progress' /\ Hellos' /\ GateKnowsItsOwn' /\ OnlyTheNodeVerifies' /\ FailsOnlyOverlapped'
<1>1. Progress /\ Hellos
  BY DEF HandshakeInv
<1>2. /\ client'[c] = "Sent" /\ \A d \in Conns \ {c} : client'[d] = client[d]
      /\ \A d \in Conns \ {c} : hello'[d] = hello[d]
      /\ DOMAIN client' = Conns /\ DOMAIN hello' = Conns
  BY <1>1 DEF Progress
<1>3. node[c] = "Peeking" /\ gatedAt[c] = None /\ cert[c] = None
  BY <1>1 DEF Progress, After
<1>4. Progress'
  BY <1>1, <1>2, <1>3 DEF Progress, T1Clients, RealityCert, KeyShare
<1>5. Hellos'
  <2>1. ASSUME NEW d \in Conns \ {c}, hello'[d] # None PROVE HelloOf(d)'
    <3>1. HelloOf(d) /\ hello'[d] = hello[d] /\ kind' = kind
      BY <1>1, <1>2, <2>1 DEF Hellos
    <3>2. Hello(d)' = Hello(d)
      BY <3>1 DEF Hello
    <3>3. T1Clients' = T1Clients
      BY <3>1 DEF T1Clients
    <3>4. \A e \in Conns : hello[e] # None => hello'[e] # None /\ hello'[e] = hello[e]
      BY <1>2
    <3>5. T1Clients \subseteq Conns
      BY DEF T1Clients
    <3> QED BY <3>1, <3>2, <3>3, <3>4, <3>5 DEF HelloOf
  <2> QED BY <2>1 DEF Hellos
<1>6. GateKnowsItsOwn'
  <2> SUFFICES ASSUME NEW e \in Conns, gatedAt[e] # None
               PROVE  (\E d \in T1Clients :
                         hello'[e] = hello'[d] /\ Distance(TagSlot(d)', gatedAt[e]) <= 1)
                      <=> \E d \in T1Clients :
                            hello[e] = hello[d] /\ Distance(TagSlot(d), gatedAt[e]) <= 1
    BY DEF HandshakeInv, GateKnowsItsOwn, T1Clients
  <2>1. e # c /\ hello[e] # None /\ hello'[e] = hello[e]
    BY <1>1, <1>2, <1>3 DEF Progress
  <2>2. hello[e].random # c
    BY <1>1, <2>1, RandomsApart
  <2>3. hello'[c] = h
    BY <1>1 DEF Progress
  <2>4. \A d \in T1Clients : d # c => hello'[d] = hello[d] /\ TagSlot(d)' = TagSlot(d)
    BY <1>2 DEF T1Clients, TagSlot
  <2>5. c \in T1Clients => hello'[e] # hello'[c] /\ hello[e] # hello[c]
    BY <2>1, <2>2, <2>3
  <2> QED BY <2>1, <2>4, <2>5
<1>7. OnlyTheNodeVerifies' /\ FailsOnlyOverlapped'
  BY <1>2, <1>3 DEF HandshakeInv, OnlyTheNodeVerifies, FailsOnlyOverlapped
<1> QED BY <1>4, <1>5, <1>6, <1>7

\* A T1 client sends its hello, and its handshake owns the shared gate state for now.
LEMMA SendHelloKeeps == ASSUME HandshakeInv, NEW c \in Conns, SendHello(c) PROVE HandshakeInv'
<1> DEFINE h == [Hello(c) EXCEPT !.tag = Authenticator(Hello(c), clock["clients"])]
<1>1. /\ client[c] = "Keyed" /\ client' = [client EXCEPT ![c] = "Sent"]
      /\ shared' = [shared EXCEPT !.random = c] /\ hello' = [hello EXCEPT ![c] = h]
      /\ overlapped' = overlapped \union Disturbed(c)
      /\ UNCHANGED <<kind, clock, node, cert, gatedAt>>
  BY DEF SendHello
<1>2. Progress /\ Undisturbed
  BY DEF HandshakeInv
<1>3. c \in T1Clients /\ hello[c] = None /\ clock["clients"] \in 0 .. MaxSlot
  BY <1>1, <1>2 DEF Progress
<1>4. HelloOf(c)'
  <2>1. hello'[c] = h /\ Hello(c)' = Hello(c)
    BY <1>1, <1>2 DEF Progress, Hello
  <2> QED BY <1>1, <1>3, <2>1 DEF HelloOf, T1Clients
<1>5. /\ DOMAIN shared' = {"keyshare", "random"}
      /\ shared'.keyshare = shared.keyshare /\ shared'.random = c
  BY <1>1, <1>2 DEF Progress
<1>6. Progress' /\ Hellos' /\ GateKnowsItsOwn' /\ OnlyTheNodeVerifies' /\ FailsOnlyOverlapped'
  <2>1. h.random = c
    <3>1. Hello(c).random = c /\ DOMAIN Hello(c) = {"tls", "shares", "random", "tag"}
      BY DEF Hello
    <3> QED BY <3>1
  <2> HIDE DEF h
  <2> QED BY <1>1, <1>3, <1>4, <1>5, <2>1, HelloLeaves
<1>7. client'[c] = "Sent" /\ \A d \in Conns \ {c} : client'[d] = client[d]
  BY <1>1, <1>2 DEF Progress
<1>8. Undisturbed'
  BY <1>1, <1>2, <1>5, <1>7 DEF Undisturbed, Disturbed, T1Clients
<1> QED BY <1>6, <1>8 DEF HandshakeInv

\* A plain or a probing hello leaves the gate state of the T1 clients alone.
LEMMA SendOtherKeeps == ASSUME HandshakeInv, NEW c \in Conns, SendOther(c) PROVE HandshakeInv'
<1> DEFINE h == IF kind[c] = "WrongTag"
                THEN [Hello(c) EXCEPT !.tag =
                        Authenticator([Hello(c) EXCEPT !.random = None], clock["clients"])]
                ELSE Hello(c)
<1>1. /\ c \notin T1Clients /\ kind[c] # "Replay"
      /\ client[c] = "Idle" /\ client' = [client EXCEPT ![c] = "Sent"]
      /\ hello' = [hello EXCEPT ![c] = h]
      /\ UNCHANGED <<kind, clock, shared, node, cert, gatedAt, overlapped>>
  BY DEF SendOther
<1>2. Progress /\ Undisturbed
  BY DEF HandshakeInv
<1>3. hello[c] = None /\ clock["clients"] \in 0 .. MaxSlot /\ kind[c] \in Kinds \ Tagged
  BY <1>1, <1>2 DEF Progress, T1Clients
<1>4. HelloOf(c)'
  <2>1. hello'[c] = h /\ Hello(c)' = Hello(c)
    BY <1>1, <1>2 DEF Progress, Hello
  <2> QED BY <1>1, <1>3, <2>1 DEF HelloOf, Kinds, Tagged
<1>5. Progress' /\ Hellos' /\ GateKnowsItsOwn' /\ OnlyTheNodeVerifies' /\ FailsOnlyOverlapped'
  <2>1. DOMAIN shared' = {"keyshare", "random"}
    BY <1>1, <1>2 DEF Progress
  <2> HIDE DEF h
  <2> QED BY <1>1, <1>3, <1>4, <2>1, HelloLeaves
<1>6. \A d \in Conns \ {c} : client'[d] = client[d]
  BY <1>1, <1>2 DEF Progress
<1>7. Undisturbed'
  BY <1>1, <1>2, <1>6 DEF Undisturbed, T1Clients
<1> QED BY <1>5, <1>7 DEF HandshakeInv

\* A copy is a copy of a hello that was sent.
LEMMA SendCopyKeeps == ASSUME HandshakeInv, NEW c \in Conns, SendCopy(c) PROVE HandshakeInv'
<1>1. PICK d \in T1Clients : hello[d] # None /\ hello' = [hello EXCEPT ![c] = hello[d]]
  BY DEF SendCopy
<1>2. /\ kind[c] = "Replay" /\ client[c] = "Idle" /\ client' = [client EXCEPT ![c] = "Sent"]
      /\ UNCHANGED <<kind, clock, shared, node, cert, gatedAt, overlapped>>
  BY DEF SendCopy
<1>3. Progress /\ Undisturbed
  BY DEF HandshakeInv
<1>4. hello[c] = None /\ c \notin T1Clients
  BY <1>2, <1>3 DEF Progress, T1Clients, Tagged
<1>5. HelloOf(c)'
  <2>1. hello'[c] = hello[d] /\ hello'[d] = hello[d] /\ d \in T1Clients'
    BY <1>1, <1>2, <1>3, <1>4 DEF Progress, T1Clients
  <2> QED BY <1>1, <1>2, <2>1 DEF HelloOf
<1>6. Progress' /\ Hellos' /\ GateKnowsItsOwn' /\ OnlyTheNodeVerifies' /\ FailsOnlyOverlapped'
  <2>1. DOMAIN shared' = {"keyshare", "random"}
    BY <1>2, <1>3 DEF Progress
  <2> QED BY <1>1, <1>2, <1>4, <1>5, <2>1, HelloLeaves
<1>7. \A e \in Conns \ {c} : client'[e] = client[e]
  BY <1>2, <1>3 DEF Progress
<1>8. Undisturbed'
  BY <1>2, <1>3, <1>4, <1>7 DEF Undisturbed, T1Clients
<1> QED BY <1>6, <1>8 DEF HandshakeInv

-----------------------------------------------------------------------------
\* The gate decides by the tag.
LEMMA GateKeeps == ASSUME HandshakeInv, NEW c \in Conns, Gate(c) PROVE HandshakeInv'
<1> DEFINE verdict == GateDecision(hello[c], clock["node"])
<1>1. /\ node[c] = "Peeking" /\ hello[c] # None
      /\ node' = [node EXCEPT ![c] = verdict]
      /\ gatedAt' = [gatedAt EXCEPT ![c] = clock["node"]]
      /\ UNCHANGED <<kind, clock, shared, client, hello, cert, overlapped>>
  BY DEF Gate
<1>2. Progress
  BY DEF HandshakeInv
<1>3. /\ verdict = "Accept"
           <=> \E d \in T1Clients : hello[c] = hello[d] /\ Distance(TagSlot(d), clock["node"]) <= 1
      /\ verdict \in {"Accept", "Relay", "Reject"}
  BY <1>1, GateVerdict
<1>4. clock["node"] # None
  <2>1. clock["node"] \in 0 .. MaxSlot
    BY <1>2 DEF Progress
  <2> QED BY <2>1, MarkersAssumption
<1>5. /\ node'[c] = verdict /\ \A d \in Conns \ {c} : node'[d] = node[d]
      /\ gatedAt'[c] = clock["node"] /\ \A d \in Conns \ {c} : gatedAt'[d] = gatedAt[d]
      /\ DOMAIN node' = Conns /\ DOMAIN gatedAt' = Conns
  BY <1>1, <1>2 DEF Progress
<1> HIDE DEF verdict
<1>6. cert[c] = None
  BY <1>1, <1>2 DEF Progress, After
<1>7. Progress'
  BY <1>1, <1>2, <1>3, <1>4, <1>5, <1>6 DEF Progress, After, T1Clients, RealityCert, KeyShare
<1>8. GateKnowsItsOwn'
  <2>1. T1Clients' = T1Clients /\ \A e \in Conns : TagSlot(e)' = TagSlot(e)
    BY <1>1 DEF T1Clients, TagSlot
  <2>2. ASSUME NEW d \in Conns, d # c, gatedAt'[d] # None
        PROVE  node'[d] \notin {"Relay", "Reject"}
                 <=> \E e \in T1Clients :
                       hello[d] = hello[e] /\ Distance(TagSlot(e), gatedAt'[d]) <= 1
    BY <1>5, <2>2 DEF HandshakeInv, GateKnowsItsOwn
  <2>3. node'[c] \notin {"Relay", "Reject"}
          <=> \E e \in T1Clients : hello[c] = hello[e] /\ Distance(TagSlot(e), gatedAt'[c]) <= 1
    BY <1>3, <1>5
  <2>4. T1Clients \subseteq Conns /\ hello' = hello
    BY <1>1 DEF T1Clients
  <2> QED BY <2>1, <2>2, <2>3, <2>4 DEF GateKnowsItsOwn
<1>9. Hellos' /\ Undisturbed' /\ OnlyTheNodeVerifies' /\ FailsOnlyOverlapped'
  <2>1. Hellos'
    BY <1>1, HellosUntouched DEF HandshakeInv
  <2>2. Undisturbed'
    BY <1>1 DEF HandshakeInv, Undisturbed, T1Clients
  <2>3. OnlyTheNodeVerifies' /\ FailsOnlyOverlapped'
    BY <1>1 DEF HandshakeInv, OnlyTheNodeVerifies, FailsOnlyOverlapped
  <2> QED BY <2>1, <2>2, <2>3
<1> QED BY <1>7, <1>8, <1>9 DEF HandshakeInv

\* A step inside the Accept path does not change what the gate said.
LEMMA GateStands ==
  ASSUME HandshakeInv, NEW c \in Conns, node[c] \in After,
         \/ node' = node
         \/ \E n \in After : node' = [node EXCEPT ![c] = n],
         UNCHANGED <<kind, hello, gatedAt>>
  PROVE  /\ GateKnowsItsOwn' /\ DOMAIN node' = Conns
         /\ \A d \in Conns \ {c} : node'[d] = node[d]
         /\ node'[c] \in After
  BY DEF HandshakeInv, Progress, GateKnowsItsOwn, TagSlot, T1Clients, After

\* The node decides on a hello: its own certificate, or the tunnel to the target.
LEMMA SelectCertificateKeeps ==
  ASSUME HandshakeInv, NEW c \in Conns, SelectCertificate(c) PROVE HandshakeInv'
<1>1. /\ node[c] = "Accept" /\ node' = [node EXCEPT ![c] = "Cert"]
      /\ cert' = [cert EXCEPT ![c] = RealityCert(hello[c])]
      /\ UNCHANGED <<kind, clock, shared, client, hello, gatedAt, overlapped>>
  BY DEF SelectCertificate
<1>2. Progress
  BY DEF HandshakeInv
<1>3. /\ GateKnowsItsOwn' /\ DOMAIN node' = Conns
      /\ \A d \in Conns \ {c} : node'[d] = node[d]
  BY <1>1, GateStands DEF After
<1>4. /\ node'[c] = "Cert" /\ cert'[c] = RealityCert(hello[c])
      /\ \A d \in Conns \ {c} : cert'[d] = cert[d]
  BY <1>1, <1>2 DEF Progress
<1>5. DOMAIN cert' = Conns
  BY <1>1, <1>2 DEF Progress
<1>6. client[c] \notin {"Completed", "Verified", "Failed", "Speaking"}
  BY <1>1, <1>2 DEF Progress
<1>7. Progress'
  <2>1. ASSUME NEW d \in Conns PROVE RealityCert(hello[d])' = RealityCert(hello[d])
    BY <1>1 DEF RealityCert
  <2>2. /\ hello[c] # None /\ gatedAt[c] # None
    BY <1>1, <1>2 DEF Progress
  <2> QED BY <1>1, <1>2, <1>3, <1>4, <1>5, <1>6, <2>1, <2>2 DEF Progress, After, T1Clients
<1>8. OnlyTheNodeVerifies'
  BY <1>1, <1>4, <1>6 DEF HandshakeInv, OnlyTheNodeVerifies
<1>9. Hellos' /\ Undisturbed' /\ FailsOnlyOverlapped'
  BY <1>1, HellosUntouched DEF HandshakeInv, Undisturbed, T1Clients, FailsOnlyOverlapped
<1> QED BY <1>3, <1>7, <1>8, <1>9 DEF HandshakeInv

\* The node gives a handshake up that cannot be finished.
LEMMA HandshakeFailsKeeps ==
  ASSUME HandshakeInv, NEW c \in Conns, HandshakeFails(c) PROVE HandshakeInv'
<1>1. /\ node[c] = "Cert" /\ c \notin T1Clients /\ node' = [node EXCEPT ![c] = "Ended"]
      /\ UNCHANGED <<kind, clock, shared, client, hello, cert, gatedAt, overlapped>>
  BY DEF HandshakeFails
<1>2. Progress
  BY DEF HandshakeInv
<1>3. /\ GateKnowsItsOwn' /\ DOMAIN node' = Conns
      /\ \A d \in Conns \ {c} : node'[d] = node[d]
  BY <1>1, GateStands DEF After
<1>4. node'[c] = "Ended"
  BY <1>1, <1>2 DEF Progress
<1>5. Progress'
  BY <1>1, <1>2, <1>3, <1>4 DEF Progress, After, T1Clients, RealityCert, KeyShare
<1>6. Hellos' /\ Undisturbed' /\ OnlyTheNodeVerifies' /\ FailsOnlyOverlapped'
  BY <1>1, HellosUntouched
  DEF HandshakeInv, Undisturbed, T1Clients, OnlyTheNodeVerifies, FailsOnlyOverlapped
<1> QED BY <1>3, <1>5, <1>6 DEF HandshakeInv

\* A client finishes its handshake with the keyshare it kept for it.
LEMMA KxCompleteKeeps == ASSUME HandshakeInv, NEW c \in Conns, KxComplete(c) PROVE HandshakeInv'
<1>1. /\ c \in T1Clients /\ client[c] = "Sent" /\ cert[c] # None
      /\ client' = [client EXCEPT ![c] = "Completed"]
      /\ shared' = [shared EXCEPT !.keyshare = c]
      /\ overlapped' = overlapped \union Disturbed(c)
      /\ UNCHANGED <<kind, clock, hello, node, cert, gatedAt>>
  BY DEF KxComplete
<1>2. Progress /\ Undisturbed
  BY DEF HandshakeInv
<1>3. c \in T1Clients
  BY <1>1
<1>4. /\ client'[c] = "Completed" /\ \A d \in Conns \ {c} : client'[d] = client[d]
      /\ DOMAIN client' = Conns
  BY <1>1, <1>2 DEF Progress
<1>5. /\ DOMAIN shared' = {"keyshare", "random"} /\ shared'.keyshare = c
      /\ shared'.random = shared.random
  BY <1>1, <1>2 DEF Progress
<1>6. Progress'
  BY <1>1, <1>2, <1>3, <1>4, <1>5 DEF Progress, T1Clients, RealityCert, KeyShare
<1>7. Undisturbed'
  BY <1>1, <1>2, <1>4, <1>5 DEF Undisturbed, Disturbed, T1Clients
<1>8. Hellos'
  BY <1>1, HellosUntouched DEF HandshakeInv
<1>9. GateKnowsItsOwn' /\ OnlyTheNodeVerifies' /\ FailsOnlyOverlapped'
  BY <1>1, <1>4 DEF HandshakeInv, GateKnowsItsOwn, TagSlot, T1Clients, OnlyTheNodeVerifies, FailsOnlyOverlapped
<1> QED BY <1>6, <1>7, <1>8, <1>9 DEF HandshakeInv

\* The client checks the certificate against the shared gate state.
LEMMA VerifyKeeps == ASSUME HandshakeInv, NEW c \in Conns, VerifyServerCert(c) PROVE HandshakeInv'
<1>1. /\ client[c] = "Completed"
      /\ client' = [client EXCEPT ![c] = IF CertMatches(c) THEN "Verified" ELSE "Failed"]
      /\ node' = IF CertMatches(c) THEN node ELSE [node EXCEPT ![c] = "Ended"]
      /\ UNCHANGED <<kind, clock, shared, hello, cert, gatedAt, overlapped>>
  BY DEF VerifyServerCert
<1>2. Progress /\ cert[c] # None /\ node[c] \in After \ {"Accept"} /\ c \in T1Clients
  BY <1>1 DEF HandshakeInv, Progress
<1>3. /\ GateKnowsItsOwn' /\ DOMAIN node' = Conns
      /\ \A d \in Conns \ {c} : node'[d] = node[d]
  BY <1>1, <1>2, GateStands DEF After
<1>4. node'[c] \in After \ {"Accept"}
  BY <1>1, <1>2 DEF Progress, After
<1>5. /\ client'[c] = IF CertMatches(c) THEN "Verified" ELSE "Failed"
      /\ \A d \in Conns \ {c} : client'[d] = client[d]
      /\ DOMAIN client' = Conns
  BY <1>1, <1>2 DEF Progress
<1>6. /\ cert[c].sig.key.salt = hello[c].random
      /\ CertMatches(c) => kind[c] # "StaleManifest"
      /\ ~CertMatches(c) => kind[c] = "StaleManifest" \/ c \in overlapped
  BY <1>1, CheckOfCert
<1>7. Progress'
  BY <1>1, <1>2, <1>3, <1>4, <1>5 DEF Progress, After, T1Clients, RealityCert, KeyShare
<1>8. OnlyTheNodeVerifies' /\ FailsOnlyOverlapped'
  BY <1>1, <1>5, <1>6 DEF HandshakeInv, OnlyTheNodeVerifies, FailsOnlyOverlapped
<1>9. Hellos' /\ Undisturbed'
  BY <1>1, <1>5, HellosUntouched DEF HandshakeInv, Undisturbed, T1Clients
<1> QED BY <1>3, <1>7, <1>8, <1>9 DEF HandshakeInv

\* The first record after the handshake.
LEMMA FirstRecordKeeps == ASSUME HandshakeInv, NEW c \in Conns, FirstRecord(c) PROVE HandshakeInv'
<1>1. /\ client[c] = "Verified" /\ client' = [client EXCEPT ![c] = "Speaking"]
      /\ node' = [node EXCEPT ![c] = IF kind[c] = "StaleCover" THEN "Dropped" ELSE "Aether"]
      /\ UNCHANGED <<kind, clock, shared, hello, cert, gatedAt, overlapped>>
  BY DEF FirstRecord
<1>2. Progress /\ cert[c] # None /\ node[c] \in After \ {"Accept"} /\ c \in T1Clients
  BY <1>1 DEF HandshakeInv, Progress
<1>3. /\ GateKnowsItsOwn' /\ DOMAIN node' = Conns
      /\ \A d \in Conns \ {c} : node'[d] = node[d]
  BY <1>1, <1>2, GateStands DEF After
<1>4. node'[c] \in After \ {"Accept"}
  BY <1>1, <1>2 DEF Progress, After
<1>5. /\ client'[c] = "Speaking" /\ \A d \in Conns \ {c} : client'[d] = client[d]
      /\ DOMAIN client' = Conns
  BY <1>1, <1>2 DEF Progress
<1>6. Progress'
  BY <1>1, <1>2, <1>3, <1>4, <1>5 DEF Progress, After, T1Clients, RealityCert, KeyShare
<1>7. OnlyTheNodeVerifies' /\ FailsOnlyOverlapped'
  BY <1>1, <1>5 DEF HandshakeInv, OnlyTheNodeVerifies, FailsOnlyOverlapped
<1>8. Hellos' /\ Undisturbed'
  BY <1>1, <1>5, HellosUntouched DEF HandshakeInv, Undisturbed, T1Clients
<1> QED BY <1>3, <1>6, <1>7, <1>8 DEF HandshakeInv

-----------------------------------------------------------------------------
\* A splice begins: nothing has been copied.
LEMMA RelayKeepsSplice ==
  ASSUME SpliceInv, NEW c \in Conns, RelayToTarget(c) PROVE SpliceInv'
<1>1. /\ relay = "None" /\ relay' = "Connecting"
      /\ UNCHANGED <<copier, waiting, shut, quota, forwarded>>
  BY DEF RelayToTarget
<1> QED BY <1>1 DEF SpliceInv, SpliceShape, SpliceFresh, QuotaSeen, QuotaHolds, Uncounted, Outcomes

RealityInv == SpliceInv /\ HandshakeInv

\* Every step keeps the invariant; a handshake leaves the splice alone and the other way round.
LEMMA StepKeepsReality == RealityInv /\ [Next]_vars => RealityInv'
<1> SUFFICES ASSUME RealityInv, [Next]_vars PROVE RealityInv'
  OBVIOUS
<1>1. SpliceInv /\ HandshakeInv
  BY DEF RealityInv
<1>2. ASSUME NEW who \in {"node", "clients"}, Tick(who) PROVE RealityInv'
  <2>1. UNCHANGED spliceVars
    BY <1>2 DEF Tick
  <2> QED BY <1>1, <1>2, <2>1, TickKeeps, SpliceStuttering DEF RealityInv
<1>3. ASSUME NEW c \in Conns,
             \/ KxStart(c) \/ SendHello(c) \/ SendCopy(c) \/ SendOther(c)
             \/ Gate(c) \/ SelectCertificate(c) \/ HandshakeFails(c)
             \/ KxComplete(c) \/ VerifyServerCert(c) \/ FirstRecord(c)
      PROVE  RealityInv'
  <2>1. UNCHANGED spliceVars
    BY <1>3 DEF KxStart, SendHello, SendCopy, SendOther, Gate, SelectCertificate,
                HandshakeFails, KxComplete, VerifyServerCert, FirstRecord
  <2>2. HandshakeInv'
    BY <1>1, <1>3, KxStartKeeps, SendHelloKeeps, SendCopyKeeps, SendOtherKeeps, GateKeeps,
       SelectCertificateKeeps, HandshakeFailsKeeps, KxCompleteKeeps, VerifyKeeps, FirstRecordKeeps
  <2> QED BY <1>1, <2>1, <2>2, SpliceStuttering DEF RealityInv
<1>4. ASSUME NEW c \in Conns, RelayToTarget(c) PROVE RealityInv'
  <2>1. UNCHANGED <<kind, clock, shared, client, hello, node, cert, gatedAt, overlapped>>
    BY <1>4 DEF RelayToTarget
  <2> QED BY <1>1, <1>4, <2>1, HandshakesUntouched, RelayKeepsSplice DEF RealityInv
<1>5. CASE Splice
  <2>1. SpliceNext /\ UNCHANGED realityVars
    BY <1>5 DEF Splice
  <2> QED BY <1>1, <2>1, HandshakesUntouched, SpliceKeeps DEF RealityInv, realityVars
<1>6. CASE UNCHANGED vars
  BY <1>1, <1>6, HandshakesUntouched, SpliceStuttering DEF RealityInv, realityVars, vars
<1> QED BY <1>2, <1>3, <1>4, <1>5, <1>6 DEF Next

\* The invariant of the cover holds for any number of connections and bytes.
THEOREM RealityInvariant == Spec => []RealityInv
<1>1. Init => RealityInv
  BY InitSpliceInv, InitHandshakeInv DEF Init, RealityInv
<1> QED BY <1>1, StepKeepsReality, PTL DEF Spec

\* gate_decision: what comes through is a hello some client made at most a minute off the
\* node's clock, sent by that client or copied, and every one of those does, for any clocks
\* and any number of connections.
THEOREM GateLetsInItsOwn == Spec => []GateKnowsItsOwn
<1>1. RealityInv => GateKnowsItsOwn
  BY DEF RealityInv, HandshakeInv
<1> QED BY <1>1, RealityInvariant, PTL

\* verify_server_cert: only the node of the manifest is taken, for this very hello.
THEOREM NodeIsAuthentic == Spec => []OnlyTheNodeVerifies
<1>1. RealityInv => OnlyTheNodeVerifies
  BY DEF RealityInv, HandshakeInv
<1> QED BY <1>1, RealityInvariant, PTL

\* T1Shared: the true node is turned away only in a handshake another one fell into.
THEOREM OverlapAloneFails == Spec => []FailsOnlyOverlapped
<1>1. RealityInv => FailsOnlyOverlapped
  BY DEF RealityInv, HandshakeInv
<1> QED BY <1>1, RealityInvariant, PTL

\* relay_to_target: the quota is seen by a thread exactly if it is reached, and overrun by
\* less than two buffers, for every quota and buffer.
THEOREM QuotaIsHeld == Spec => []QuotaHolds
<1>1. RealityInv => QuotaHolds
  BY DEF RealityInv, SpliceInv
<1> QED BY <1>1, RealityInvariant, PTL
=============================================================================
