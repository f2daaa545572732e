----------------------------- MODULE DataLemmas -----------------------------
(***************************************************************************)
(* Induction over the natural numbers, and functions that are defined by   *)
(* recursion on them, stated with sets in place of operators: the provers  *)
(* cannot instantiate a theorem that has an operator as a parameter.  And  *)
(* what follows for the loops over lists: what is kept of a list, and      *)
(* lists that are joined.                                                  *)
(***************************************************************************)
EXTENDS Integers, Filter, SequencesExt, SequenceTheorems, WellFoundedInduction, TLAPS

\* A set of natural numbers has a least one.
LEMMA LeastNat ==
    ASSUME NEW T, T \subseteq Nat, T # {}
    PROVE  \E x \in T : \A y \in T : x <= y
<1> DEFINE R == OpToRel(<, Nat)
<1>1. IsWellFoundedOn(R, Nat) BY NatLessThanWellFounded, Zenon
<1>2. \A x, y \in Nat : y < x => <<y, x>> \in R BY DEF OpToRel
<1> HIDE DEF R
<1>3. PICK x \in T : \A y \in T : <<y, x>> \notin R BY <1>1, WFMin
<1>4. ASSUME NEW y \in T PROVE x <= y
  <2>1. x \in Nat /\ y \in Nat OBVIOUS
  <2>2. ~ (y < x) BY <1>2, <1>3, <2>1, Zenon
  <2> QED BY <2>1, <2>2
<1> QED BY <1>4

\* What holds of 0, and of n + 1 where it holds of n, holds of every number.
LEMMA Induction ==
    ASSUME NEW S, 0 \in S, \A n \in Nat : n \in S => n + 1 \in S
    PROVE  Nat \subseteq S
<1> SUFFICES ASSUME Nat \ S # {} PROVE FALSE OBVIOUS
<1>1. PICK x \in Nat \ S : \A y \in Nat \ S : x <= y BY LeastNat
<1>2. x # 0 /\ x - 1 \in Nat OBVIOUS
<1>3. x - 1 \notin Nat \ S BY <1>1, <1>2
<1>4. (x - 1) + 1 \in S BY <1>2, <1>3
<1> QED BY <1>4

\* The same up to a bound.
LEMMA BoundedInduction ==
    ASSUME NEW n \in Nat, NEW S, 0 \in S, \A i \in 1..n : i - 1 \in S => i \in S
    PROVE  0..n \subseteq S
<1> DEFINE T == {k \in Nat : k <= n => k \in S}
<1>1. 0 \in T OBVIOUS
<1>2. ASSUME NEW k \in Nat, k \in T PROVE k + 1 \in T
  <2>1. CASE k + 1 <= n
    <3>1. k + 1 \in 1..n /\ k \in S BY <2>1, <1>2
    <3>2. (k + 1) - 1 = k OBVIOUS
    <3>3. k + 1 \in S BY <3>1, <3>2
    <3> QED BY <3>3
  <2>2. CASE ~(k + 1 <= n) BY <2>2
  <2> QED BY <2>1, <2>2
<1> HIDE DEF T
<1>3. Nat \subseteq T BY <1>1, <1>2, Induction
<1> QED BY <1>3 DEF T

Follows(f, n, base, step) ==
    f[0] = base /\ \A i \in 1..n : f[i] = step[i][f[i - 1]]

\* A function is defined by its value at 0 and by a step from each value to the next.
LEMMA Recursion ==
    ASSUME NEW n \in Nat, NEW S, NEW base \in S, NEW step \in [1..n -> [S -> S]]
    PROVE  \E f \in [0..n -> S] : Follows(f, n, base, step)
<1> DEFINE Good(k, f) == f[0] = base /\ \A i \in 1..k : f[i] = step[i][f[i - 1]]
           T == {k \in Nat : k <= n => \E f \in [0..n -> S] : Good(k, f)}
<1>1. 0 \in T
  <2>1. Good(0, [i \in 0..n |-> base]) OBVIOUS
  <2>2. [i \in 0..n |-> base] \in [0..n -> S] OBVIOUS
  <2> QED BY <2>1, <2>2
<1>2. ASSUME NEW k \in Nat, k \in T, k + 1 <= n PROVE k + 1 \in T
  <2>1. PICK f \in [0..n -> S] : Good(k, f) BY <1>2
  <2> DEFINE g == [f EXCEPT ![k + 1] = step[k + 1][f[k]]]
  <2>2. k \in 0..n /\ k + 1 \in 0..n /\ k + 1 \in 1..n BY <1>2
  <2>3. step[k + 1][f[k]] \in S BY <2>2
  <2>4. g \in [0..n -> S] BY <2>3
  <2>5. g[0] = base BY <2>1, <2>2
  <2>6. ASSUME NEW i \in 1..(k + 1) PROVE g[i] = step[i][g[i - 1]]
    <3>1. i - 1 \in 0..n /\ i - 1 # k + 1 /\ i \in 0..n BY <1>2
    <3>2. g[i - 1] = f[i - 1] BY <3>1
    <3>3. CASE i = k + 1
      <4>1. i - 1 = k BY <3>3
      <4>2. g[i] = step[k + 1][f[k]] BY <2>2, <3>3
      <4> QED BY <4>1, <4>2, <3>2, <3>3
    <3>4. CASE i # k + 1
      <4>1. i \in 1..k BY <3>4
      <4>2. f[i] = step[i][f[i - 1]] BY <2>1, <4>1
      <4>3. g[i] = f[i] BY <3>1, <3>4
      <4> QED BY <4>2, <4>3, <3>2
    <3> QED BY <3>3, <3>4
  <2>7. Good(k + 1, g) BY <2>5, <2>6
  <2> HIDE DEF g
  <2>8. \E h \in [0..n -> S] : Good(k + 1, h) BY <2>4, <2>7, Zenon
  <2> QED BY <2>8
<1>3. ASSUME NEW k \in Nat, k \in T PROVE k + 1 \in T
  <2>1. CASE k + 1 <= n BY <1>2, <1>3, <2>1
  <2>2. CASE ~(k + 1 <= n) BY <2>2
  <2> QED BY <2>1, <2>2
<1> HIDE DEF T
<1>4. Nat \subseteq T BY <1>1, <1>3, Induction
<1>5. n \in T BY <1>4
<1> QED BY <1>5 DEF T, Follows

\* The values of such a function are in a set that no step leaves.
LEMMA RecursionType ==
    ASSUME NEW n \in Nat, NEW S, NEW f, f = [i \in 0..n |-> f[i]],
           f[0] \in S, \A i \in 1..n : f[i - 1] \in S => f[i] \in S
    PROVE  f \in [0..n -> S]
<1> DEFINE T == {i \in 0..n : f[i] \in S}
<1>1. 0 \in T OBVIOUS
<1>2. ASSUME NEW i \in 1..n, i - 1 \in T PROVE i \in T BY <1>2
<1> HIDE DEF T
<1>3. 0..n \subseteq T BY <1>1, <1>2, BoundedInduction
<1>4. \A i \in 0..n : f[i] \in S BY <1>3 DEF T
<1>5. [i \in 0..n |-> f[i]] \in [0..n -> S] BY <1>4
<1> QED BY <1>5

-----------------------------------------------------------------------------
(* What is kept of a list. *)

\* What is kept of the first elements of s, up to each of them.
KeepsOf(s, S, kept) ==
    /\ Filtered(s, S) = kept[Len(s)]
    /\ kept[0] = <<>>
    /\ \A i \in 1..Len(s) :
          kept[i] = IF s[i] \in S THEN Append(kept[i - 1], s[i]) ELSE kept[i - 1]

\* Filtered is what its recursion says.
LEMMA FilteredLoop ==
    ASSUME NEW X, NEW S, NEW s \in Seq(X)
    PROVE  \E kept \in [0..Len(s) -> Seq(X)] : KeepsOf(s, S, kept)
<1> DEFINE Loop(f) ==
               f = [i \in 0..Len(s) |->
                       IF i = 0 THEN <<>>
                       ELSE IF s[i] \in S THEN Append(f[i - 1], s[i]) ELSE f[i - 1]]
           step == [i \in 1..Len(s) |->
                       [a \in Seq(X) |->
                           IF s[i] \in S THEN Append(a, s[i]) ELSE a]]
           kept == CHOOSE f : Loop(f)
<1>1. Len(s) \in Nat /\ \A i \in 1..Len(s) : s[i] \in X BY LenProperties
<1>2. <<>> \in Seq(X) BY EmptySeq
<1>3. step \in [1..Len(s) -> [Seq(X) -> Seq(X)]] BY <1>1, AppendProperties
<1>4. \A i \in 1..Len(s) : \A a \in Seq(X) :
          step[i][a] = IF s[i] \in S THEN Append(a, s[i]) ELSE a
  OBVIOUS
<1>5. Filtered(s, S) = kept[Len(s)] BY Zenon DEF Filtered
<1> HIDE DEF step, kept
<1>6. PICK f \in [0..Len(s) -> Seq(X)] : Follows(f, Len(s), <<>>, step)
  BY <1>1, <1>2, <1>3, Recursion, Zenon
<1>7. ASSUME NEW i \in 1..Len(s)
      PROVE  f[i] = IF s[i] \in S THEN Append(f[i - 1], s[i]) ELSE f[i - 1]
  <2>1. i - 1 \in 0..Len(s) BY <1>1
  <2>2. f[i - 1] \in Seq(X) BY <1>6, <2>1
  <2> QED BY <1>4, <1>6, <2>2 DEF Follows
<1>8. Loop(f)
  <2>1. DOMAIN f = 0..Len(s) OBVIOUS
  <2>2. \A i \in 0..Len(s) : i = 0 \/ i \in 1..Len(s) BY <1>1
  <2> QED BY <1>6, <1>7, <2>1, <2>2 DEF Follows
<1> HIDE DEF Loop
<1>9. Loop(kept) BY <1>8, Zenon DEF kept
<1>10. kept[0] = <<>> BY <1>1, <1>9 DEF Loop
<1>11. ASSUME NEW i \in 1..Len(s)
       PROVE  kept[i] = IF s[i] \in S THEN Append(kept[i - 1], s[i]) ELSE kept[i - 1]
  <2>1. i \in 0..Len(s) /\ i # 0 BY <1>1
  <2> QED BY <1>9, <2>1, Zenon DEF Loop
<1>12. kept \in [0..Len(s) -> Seq(X)]
  <2>1. kept = [i \in 0..Len(s) |-> kept[i]] BY <1>9, Zenon DEF Loop
  <2>2. kept[0] \in Seq(X) BY <1>2, <1>10
  <2>3. ASSUME NEW i \in 1..Len(s), kept[i - 1] \in Seq(X)
        PROVE  kept[i] \in Seq(X)
    <3>1. s[i] \in X BY <1>1
    <3>2. Append(kept[i - 1], s[i]) \in Seq(X) BY <2>3, <3>1, AppendProperties
    <3> QED BY <1>11, <2>3, <3>2
  <2> QED BY <1>1, <2>1, <2>2, <2>3, RecursionType
<1> QED BY <1>5, <1>10, <1>11, <1>12 DEF KeepsOf

\* t is what of the first i elements of s is in S, in its order.
KeptOf(s, S, i, t) ==
    /\ \A a \in 1..Len(t) : \E j \in 1..i : t[a] = s[j] /\ s[j] \in S
    /\ \A a, b \in 1..Len(t) : a < b => \E j, k \in 1..i : j < k /\ t[a] = s[j] /\ t[b] = s[k]
    /\ \A j \in 1..i : s[j] \in S => \E a \in 1..Len(t) : t[a] = s[j]

LEMMA KeptNext ==
    ASSUME NEW X, NEW S, NEW s \in Seq(X), NEW i \in 1..Len(s), NEW t \in Seq(X),
           KeptOf(s, S, i - 1, t),
           NEW u, u = IF s[i] \in S THEN Append(t, s[i]) ELSE t
    PROVE  KeptOf(s, S, i, u)
<1>1. /\ Len(s) \in Nat /\ i \in Nat /\ i - 1 \in Nat /\ i \in 1..i
      /\ \A j \in 1..i : j \in 1..(i - 1) \/ j = i
      /\ \A j \in 1..(i - 1) : j \in 1..i /\ j < i
  BY LenProperties
<1>2. Len(t) \in Nat BY LenProperties
<1>3. CASE s[i] \notin S
  <2>1. u = t BY <1>3
  <2>2. \A j \in 1..i : s[j] \in S => \E a \in 1..Len(t) : t[a] = s[j] BY <1>1, <1>3 DEF KeptOf
  <2>3. \A a \in 1..Len(t) : \E j \in 1..i : t[a] = s[j] /\ s[j] \in S BY <1>1 DEF KeptOf
  <2>4. \A a, b \in 1..Len(t) : a < b => \E j, k \in 1..i : j < k /\ t[a] = s[j] /\ t[b] = s[k]
    BY <1>1 DEF KeptOf
  <2> QED BY <2>1, <2>2, <2>3, <2>4 DEF KeptOf
<1>4. CASE s[i] \in S
  <2>1. s[i] \in X BY ElementOfSeq
  <2>2. u = Append(t, s[i]) BY <1>4
  <2>3. /\ Len(u) = Len(t) + 1 /\ u[Len(t) + 1] = s[i]
        /\ \A a \in 1..Len(t) : u[a] = t[a]
    BY <2>1, <2>2, AppendProperties
  <2>4. \A a \in 1..Len(u) : a \in 1..Len(t) \/ a = Len(t) + 1 BY <1>2, <2>3
  <2>5. Len(t) + 1 \in 1..Len(u) /\ \A a \in 1..Len(t) : a \in 1..Len(u) BY <1>2, <2>3
  <2>6. ASSUME NEW a \in 1..Len(u) PROVE \E j \in 1..i : u[a] = s[j] /\ s[j] \in S
    <3>1. CASE a \in 1..Len(t)
      <4>1. PICK j \in 1..(i - 1) : t[a] = s[j] /\ s[j] \in S BY <3>1 DEF KeptOf
      <4> QED BY <1>1, <2>3, <3>1, <4>1
    <3>2. CASE a = Len(t) + 1 BY <1>1, <1>4, <2>3, <3>2
    <3> QED BY <2>4, <3>1, <3>2
  <2>7. ASSUME NEW a \in 1..Len(u), NEW b \in 1..Len(u), a < b
        PROVE  \E j, k \in 1..i : j < k /\ u[a] = s[j] /\ u[b] = s[k]
    <3>1. a \in 1..Len(t) BY <1>2, <2>3, <2>7
    <3>2. CASE b \in 1..Len(t)
      <4>1. PICK j \in 1..(i - 1), k \in 1..(i - 1) : j < k /\ t[a] = s[j] /\ t[b] = s[k]
        BY <2>7, <3>1, <3>2 DEF KeptOf
      <4> QED BY <1>1, <2>3, <3>1, <3>2, <4>1
    <3>3. CASE b = Len(t) + 1
      <4>1. PICK j \in 1..(i - 1) : t[a] = s[j] BY <3>1 DEF KeptOf
      <4> QED BY <1>1, <2>3, <3>1, <3>3, <4>1
    <3> QED BY <2>4, <3>2, <3>3
  <2>8. ASSUME NEW j \in 1..i, s[j] \in S PROVE \E a \in 1..Len(u) : u[a] = s[j]
    <3>1. CASE j = i BY <2>3, <2>5, <3>1
    <3>2. CASE j \in 1..(i - 1)
      <4>1. PICK a \in 1..Len(t) : t[a] = s[j] BY <2>8, <3>2 DEF KeptOf
      <4> QED BY <2>3, <2>5, <4>1
    <3> QED BY <1>1, <3>1, <3>2
  <2> QED BY <2>6, <2>7, <2>8 DEF KeptOf
<1> QED BY <1>3, <1>4

LEMMA FilteredKeeps ==
    ASSUME NEW X, NEW S, NEW s \in Seq(X)
    PROVE  Filtered(s, S) \in Seq(X) /\ KeptOf(s, S, Len(s), Filtered(s, S))
<1>1. PICK kept \in [0..Len(s) -> Seq(X)] : KeepsOf(s, S, kept) BY FilteredLoop, Zenon
<1> DEFINE T == {i \in 0..Len(s) : KeptOf(s, S, i, kept[i])}
<1>2. Len(s) \in Nat BY LenProperties
<1>3. 0 \in T
  <2>1. Len(kept[0]) = 0 BY <1>1, EmptySeq DEF KeepsOf
  <2> QED BY <1>2, <2>1 DEF KeptOf
<1>4. ASSUME NEW i \in 1..Len(s), i - 1 \in T PROVE i \in T
  <2>1. i \in 0..Len(s) /\ i - 1 \in 0..Len(s) BY <1>2
  <2>2. kept[i - 1] \in Seq(X) BY <1>1, <2>1
  <2>3. KeptOf(s, S, i - 1, kept[i - 1]) BY <1>4
  <2>4. KeptOf(s, S, i, kept[i]) BY <1>1, <2>2, <2>3, KeptNext DEF KeepsOf
  <2> QED BY <2>1, <2>4
<1> HIDE DEF T
<1>5. 0..Len(s) \subseteq T BY <1>2, <1>3, <1>4, BoundedInduction
<1>6. Len(s) \in 0..Len(s) BY <1>2
<1>7. KeptOf(s, S, Len(s), kept[Len(s)]) BY <1>5, <1>6 DEF T
<1> QED BY <1>1, <1>6, <1>7 DEF KeepsOf


LEMMA FilteredRange ==
    ASSUME NEW X, NEW S, NEW s \in Seq(X)
    PROVE  /\ Filtered(s, S) \in Seq(X)
           /\ Range(Filtered(s, S)) = Range(s) \cap S
<1> DEFINE t == Filtered(s, S)
<1>1. t \in Seq(X) /\ KeptOf(s, S, Len(s), t) BY FilteredKeeps, Zenon
<1> HIDE DEF t
<1>2. Len(s) \in Nat /\ Len(t) \in Nat /\ DOMAIN s = 1..Len(s) /\ DOMAIN t = 1..Len(t)
  BY <1>1, LenProperties
<1>3. ASSUME NEW x \in Range(t) PROVE x \in Range(s) \cap S
  <2>1. PICK a \in 1..Len(t) : t[a] = x BY <1>2 DEF Range
  <2>2. PICK j \in 1..Len(s) : t[a] = s[j] /\ s[j] \in S BY <1>1 DEF KeptOf
  <2> QED BY <1>2, <2>1, <2>2 DEF Range
<1>4. ASSUME NEW x \in Range(s) \cap S PROVE x \in Range(t)
  <2>1. PICK j \in 1..Len(s) : s[j] = x BY <1>2 DEF Range
  <2>2. PICK a \in 1..Len(t) : t[a] = s[j] BY <1>1, <2>1 DEF KeptOf
  <2> QED BY <1>2, <2>1, <2>2 DEF Range
<1>5. Range(t) = Range(s) \cap S BY <1>3, <1>4
<1> QED BY <1>1, <1>5 DEF t

\* Nothing is dropped of a list that is in S as a whole.
LEMMA FilteredAll ==
    ASSUME NEW X, NEW S, NEW s \in Seq(X), \A i \in 1..Len(s) : s[i] \in S
    PROVE  Filtered(s, S) = s
<1>1. PICK kept \in [0..Len(s) -> Seq(X)] : KeepsOf(s, S, kept) BY FilteredLoop, Zenon
<1> DEFINE T == {i \in 0..Len(s) : Len(kept[i]) = i /\ \A j \in 1..i : kept[i][j] = s[j]}
<1>2. Len(s) \in Nat BY LenProperties
<1>3. 0 \in T
  <2>1. Len(kept[0]) = 0 BY <1>1, EmptySeq DEF KeepsOf
  <2> QED BY <1>2, <2>1
<1>4. ASSUME NEW i \in 1..Len(s), i - 1 \in T PROVE i \in T
  <2>1. i \in 0..Len(s) /\ i - 1 \in 0..Len(s) /\ i \in Nat BY <1>2
  <2>2. kept[i - 1] \in Seq(X) /\ s[i] \in X BY <2>1, ElementOfSeq
  <2>3. kept[i] = Append(kept[i - 1], s[i]) BY <1>1 DEF KeepsOf
  <2>4. Len(kept[i - 1]) = i - 1 /\ \A j \in 1..(i - 1) : kept[i - 1][j] = s[j] BY <1>4
  <2>5. /\ Len(kept[i]) = i /\ kept[i][i] = s[i]
        /\ \A j \in 1..(i - 1) : kept[i][j] = kept[i - 1][j]
    <3>1. (i - 1) + 1 = i BY <2>1
    <3> QED BY <2>2, <2>3, <2>4, <3>1, AppendProperties
  <2>6. \A j \in 1..i : j = i \/ j \in 1..(i - 1) BY <2>1
  <2> QED BY <2>1, <2>4, <2>5, <2>6
<1> HIDE DEF T
<1>5. 0..Len(s) \subseteq T BY <1>2, <1>3, <1>4, BoundedInduction
<1>6. Len(s) \in 0..Len(s) BY <1>2
<1> DEFINE t == kept[Len(s)]
<1>7. t \in Seq(X) BY <1>6
<1>8. Len(t) = Len(s) /\ \A j \in 1..Len(s) : t[j] = s[j] BY <1>5, <1>6 DEF T
<1> HIDE DEF t
<1>9. t = s BY <1>7, <1>8, SeqEqual
<1> QED BY <1>1, <1>9 DEF t, KeepsOf

-----------------------------------------------------------------------------
(* Lists that are joined. *)

\* The first lists of ss joined, up to each of them.
JoinsOf(ss, joined) ==
    /\ FlattenSeq(ss) = joined[Len(ss)]
    /\ joined[0] = <<>>
    /\ \A i \in 1..Len(ss) : joined[i] = joined[i - 1] \o ss[i]

\* FlattenSeq is what its recursion says.
LEMMA FlattenLoop ==
    ASSUME NEW X, NEW ss \in Seq(Seq(X))
    PROVE  \E joined \in [0..Len(ss) -> Seq(X)] : JoinsOf(ss, joined)
<1>1. Len(ss) \in Nat /\ \A i \in 1..Len(ss) : ss[i] \in Seq(X) BY LenProperties
<1>2. <<>> \in Seq(X) /\ Len(<<>>) = 0 BY EmptySeq
<1>3. CASE Len(ss) = 0
  <2>1. ss = <<>> BY <1>3, EmptySeq
  <2>2. FlattenSeq(ss) = <<>> BY <1>3, <2>1, Zenon DEF FlattenSeq
  <2>3. [i \in 0..0 |-> <<>>] \in [0..0 -> Seq(X)] BY <1>2
  <2>4. JoinsOf(ss, [i \in 0..0 |-> <<>>]) BY <1>3, <2>2 DEF JoinsOf
  <2> QED BY <1>3, <2>3, <2>4, Zenon
<1>4. CASE Len(ss) # 0
  <2> DEFINE Loop(f) ==
                 f = [i \in 1..Len(ss) |-> IF i = 1 THEN ss[i] ELSE f[i - 1] \o ss[i]]
             step == [i \in 1..Len(ss) |-> [a \in Seq(X) |-> a \o ss[i]]]
             flat == CHOOSE f : Loop(f)
             joined == [i \in 0..Len(ss) |-> IF i = 0 THEN <<>> ELSE flat[i]]
  <2>1. step \in [1..Len(ss) -> [Seq(X) -> Seq(X)]] BY <1>1, ConcatProperties
  <2>2. \A i \in 1..Len(ss) : \A a \in Seq(X) : step[i][a] = a \o ss[i] OBVIOUS
  <2>3. FlattenSeq(ss) = flat[Len(ss)] BY <1>4, Zenon DEF FlattenSeq
  <2> HIDE DEF step, flat
  <2>4. PICK f \in [0..Len(ss) -> Seq(X)] : Follows(f, Len(ss), <<>>, step)
    BY <1>1, <1>2, <2>1, Recursion, Zenon
  <2> DEFINE g == [i \in 1..Len(ss) |-> f[i]]
  <2>5. ASSUME NEW i \in 1..Len(ss) PROVE g[i] = IF i = 1 THEN ss[i] ELSE g[i - 1] \o ss[i]
    <3>1. i - 1 \in 0..Len(ss) BY <1>1
    <3>2. f[i - 1] \in Seq(X) BY <2>4, <3>1
    <3>3. f[i] = f[i - 1] \o ss[i] BY <2>2, <2>4, <3>2 DEF Follows
    <3>4. CASE i = 1
      <4>1. i - 1 = 0 BY <3>4
      <4>2. f[i] = <<>> \o ss[i] BY <2>4, <3>3, <4>1 DEF Follows
      <4> QED BY <1>1, <3>4, <4>2, ConcatEmptySeq
    <3>5. CASE i # 1
      <4>1. i - 1 \in 1..Len(ss) BY <1>1, <3>5
      <4> QED BY <3>3, <3>5, <4>1
    <3> QED BY <3>4, <3>5
  <2>6. Loop(g)
    <3>1. DOMAIN g = 1..Len(ss) OBVIOUS
    <3> HIDE DEF g
    <3> QED BY <2>5, <3>1 DEF g
  <2> HIDE DEF Loop, g
  <2>7. Loop(flat) BY <2>6, Zenon DEF flat
  <2>8. ASSUME NEW i \in 1..Len(ss) PROVE flat[i] = IF i = 1 THEN ss[i] ELSE flat[i - 1] \o ss[i]
    BY <2>7, Zenon DEF Loop
  <2>9. joined[0] = <<>> BY <1>1
  <2>10. ASSUME NEW i \in 1..Len(ss) PROVE joined[i] = joined[i - 1] \o ss[i]
    <3>1. i \in 0..Len(ss) /\ i - 1 \in 0..Len(ss) /\ i # 0 BY <1>1
    <3>2. joined[i] = flat[i] BY <3>1
    <3>3. CASE i = 1
      <4>1. joined[i - 1] = <<>> BY <3>1, <3>3
      <4>2. <<>> \o ss[i] = ss[i] BY <1>1, ConcatEmptySeq
      <4> HIDE DEF joined
      <4> QED BY <2>8, <3>2, <3>3, <4>1, <4>2
    <3>4. CASE i # 1
      <4>1. i - 1 # 0 BY <3>1, <3>4
      <4>2. joined[i - 1] = flat[i - 1] BY <3>1, <4>1
      <4> HIDE DEF joined
      <4> QED BY <2>8, <3>2, <3>4, <4>2
    <3> QED BY <3>3, <3>4
  <2>11. joined = [i \in 0..Len(ss) |-> joined[i]] OBVIOUS
  <2>12. Len(ss) \in 0..Len(ss) BY <1>1
  <2>13. joined[Len(ss)] = flat[Len(ss)] BY <1>4, <2>12
  <2> HIDE DEF joined
  <2>14. ASSUME NEW i \in 1..Len(ss), joined[i - 1] \in Seq(X) PROVE joined[i] \in Seq(X)
    BY <1>1, <2>10, <2>14, ConcatProperties
  <2>15. joined[0] \in Seq(X) BY <1>2, <2>9
  <2>16. joined \in [0..Len(ss) -> Seq(X)] BY <1>1, <2>11, <2>14, <2>15, RecursionType
  <2>17. JoinsOf(ss, joined) BY <2>3, <2>9, <2>10, <2>13 DEF JoinsOf
  <2> QED BY <2>16, <2>17
<1> QED BY <1>3, <1>4

\* s is in t behind the first i elements.
Lies(t, i, s) == i + Len(s) <= Len(t) /\ \A j \in 1..Len(s) : t[i + j] = s[j]

LEMMA LiesInside ==
    ASSUME NEW X, NEW t \in Seq(X), NEW u \in Seq(X), NEW s \in Seq(X),
           NEW i \in Nat, NEW k \in Nat, Lies(t, i, u), Lies(u, k, s)
    PROVE  Lies(t, i + k, s)
<1>1. Len(t) \in Nat /\ Len(u) \in Nat /\ Len(s) \in Nat BY LenProperties
<1>2. (i + k) + Len(s) <= Len(t) BY <1>1 DEF Lies
<1>3. ASSUME NEW j \in 1..Len(s) PROVE t[(i + k) + j] = s[j]
  <2>1. k + j \in 1..Len(u) /\ i + (k + j) = (i + k) + j BY <1>1 DEF Lies
  <2>2. t[i + (k + j)] = u[k + j] BY <2>1 DEF Lies
  <2>3. u[k + j] = s[j] BY DEF Lies
  <2> QED BY <2>1, <2>2, <2>3
<1> QED BY <1>2, <1>3 DEF Lies

\* What is appended lies behind what was there, which stays where it is.
LEMMA ConcatLies ==
    ASSUME NEW X, NEW a \in Seq(X), NEW b \in Seq(X)
    PROVE  /\ Len(a \o b) = Len(a) + Len(b)
           /\ Lies(a \o b, Len(a), b)
           /\ \A s \in Seq(X) : \A i \in Nat : Lies(a, i, s) => Lies(a \o b, i, s)
<1> DEFINE c == a \o b
           l == Len(a)
           n == Len(b)
<1>1. l \in Nat /\ n \in Nat BY LenProperties
<1>2. Len(c) = l + n /\ \A k \in 1..(l + n) : c[k] = IF k <= l THEN a[k] ELSE b[k - l]
  BY ConcatProperties
<1> HIDE DEF c, l, n
<1>3. l + n <= Len(c) BY <1>1, <1>2
<1>4. ASSUME NEW j \in 1..n PROVE c[l + j] = b[j]
  <2>1. l + j \in 1..(l + n) /\ ~(l + j <= l) /\ (l + j) - l = j BY <1>1
  <2> QED BY <1>2, <2>1
<1>5. ASSUME NEW s \in Seq(X), NEW i \in Nat, Lies(a, i, s) PROVE Lies(c, i, s)
  <2>1. Len(s) \in Nat BY LenProperties
  <2> DEFINE m == Len(s)
  <2>2. m \in Nat /\ i + m <= l /\ \A j \in 1..m : a[i + j] = s[j] BY <1>5, <2>1 DEF Lies, l
  <2> HIDE DEF m
  <2>3. i + m <= Len(c) BY <1>1, <1>2, <2>2
  <2>4. ASSUME NEW j \in 1..m PROVE c[i + j] = s[j]
    <3>1. i + j \in 1..(l + n) /\ i + j <= l BY <1>1, <2>2
    <3> QED BY <1>2, <2>2, <3>1
  <2> QED BY <2>3, <2>4 DEF Lies, m
<1>6. Lies(c, l, b) BY <1>3, <1>4 DEF Lies, n
<1> QED BY <1>2, <1>5, <1>6 DEF c, l, n

\* Each of the lists lies in the joined one behind those that are before it.
LEMMA JoinsLie ==
    ASSUME NEW X, NEW ss \in Seq(Seq(X)), NEW joined \in [0..Len(ss) -> Seq(X)],
           JoinsOf(ss, joined), NEW i \in 1..Len(ss)
    PROVE  /\ Len(joined[i]) = Len(joined[i - 1]) + Len(ss[i])
           /\ Lies(FlattenSeq(ss), Len(joined[i - 1]), ss[i])
<1> DEFINE n == Len(ss)
           Good(m) == \A k \in 1..m : Lies(joined[m], Len(joined[k - 1]), ss[k])
           T == {m \in 0..n : Good(m)}
<1>1. n \in Nat /\ \A m \in 1..n : ss[m] \in Seq(X) BY LenProperties
<1>2. \A m \in 0..n : joined[m] \in Seq(X) OBVIOUS
<1>3. \A m \in 0..n : Len(joined[m]) \in Nat BY LenProperties
<1>4. \A m \in 1..n : m - 1 \in 0..n /\ m \in 0..n BY <1>1
<1>5. \A m \in 1..n : joined[m] = joined[m - 1] \o ss[m] BY DEF JoinsOf
<1> HIDE DEF n
<1>6. 0 \in T BY <1>1
<1>7. ASSUME NEW m \in 1..n, m - 1 \in T PROVE m \in T
  <2> DEFINE a == joined[m - 1]
  <2>1. a \in Seq(X) /\ ss[m] \in Seq(X) /\ joined[m] = a \o ss[m] BY <1>1, <1>2, <1>4, <1>5
  <2>2. ASSUME NEW k \in 1..m PROVE Lies(joined[m], Len(joined[k - 1]), ss[k])
    <3>1. k \in 1..n BY <1>1
    <3>2. k = m \/ k \in 1..(m - 1) BY <1>1
    <3>3. CASE k = m BY <2>1, <3>3, ConcatLies
    <3>4. CASE k \in 1..(m - 1)
      <4>1. Lies(a, Len(joined[k - 1]), ss[k]) BY <1>7, <3>4
      <4>2. Len(joined[k - 1]) \in Nat /\ ss[k] \in Seq(X) BY <1>1, <1>3, <1>4, <3>1
      <4> HIDE DEF a
      <4> QED BY <2>1, <4>1, <4>2, ConcatLies
    <3> QED BY <3>2, <3>3, <3>4
  <2> QED BY <1>4, <2>2
<1> HIDE DEF T, Good
<1>8. 0..n \subseteq T BY <1>1, <1>6, <1>7, BoundedInduction
<1>9. Good(n) BY <1>1, <1>8 DEF T
<1>10. FlattenSeq(ss) = joined[n] BY DEF JoinsOf, n
<1>11. Len(joined[i]) = Len(joined[i - 1]) + Len(ss[i])
  <2>1. i \in 1..n BY DEF n
  <2>2. joined[i - 1] \in Seq(X) /\ ss[i] \in Seq(X) /\ joined[i] = joined[i - 1] \o ss[i]
    BY <1>1, <1>2, <1>4, <1>5, <2>1
  <2> QED BY <2>2, ConcatLies
<1> QED BY <1>9, <1>10, <1>11 DEF Good, n
=============================================================================
