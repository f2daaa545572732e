-------------------------- MODULE Pagination_proof --------------------------
(***************************************************************************)
(* Proofs about Pagination for any set of objects, any sort, any label     *)
(* selector, any pages and any width of an integer that can count the      *)
(* objects: its typing, and NoPanic, TotalHonest and WalkComplete.         *)
(*                                                                         *)
(* The store sorts anew for each page, and ties fall out another way each  *)
(* time.  What makes a walk complete all the same is that any two sorted   *)
(* lists of the same objects have the same ranks, position by position     *)
(* (SameRanks), and that the label selector keeps a list sorted            *)
(* (ChosenIsSorted).  The invariant says how far the walk has come: it has *)
(* collected the ranks between the first page asked for and the present    *)
(* one, and knows how many there are after it.                             *)
(***************************************************************************)
EXTENDS Pagination, DataLemmas, FiniteSetTheorems

Lesser(a, b) == IF a < b THEN a ELSE b

\* The ranks of the list, in the order of any sort.
Whole == RanksOf(CHOOSE s \in Orders(Listed) : TRUE)

Ahead == (from - 1) * size

\* A walk over a list that has not changed.
Walking == pc # "idle" /\ ~touched /\ Proper /\ from >= 1 /\ Sortable(matched)

\* The client has the ranks of the list from the first page asked for up to k.
CollectedTo(k) ==
    /\ Len(collected) = k - Ahead
    /\ \A i \in 1..Len(collected) : Rank[collected[i]] = Whole[Ahead + i]

\* The request for another page is out: the list goes on there.
AskInv ==
    (Walking /\ pc = "ask") =>
        /\ CollectedTo((page - 1) * size)
        /\ page = from \/ (page - 1) * size < Cardinality(Listed)

\* An answer has come: a page of the list, or none, as the first page asked for is
\* beyond the end.
GotInv ==
    (Walking /\ pc \in {"got", "end"}) =>
        /\ Orders(Listed) # {}
        /\ answer.code = 200 =>
              /\ Ahead <= Cardinality(Listed)
              /\ CollectedTo(Lesser(page * size, Cardinality(Listed)))
              /\ answer.remain = IF page * size < Cardinality(Listed)
                                THEN Cardinality(Listed) - page * size ELSE 0
        /\ answer.code # 200 =>
              collected = <<>> /\ from # 1 /\ Cardinality(Listed) <= Ahead

ControlInv ==
    /\ pc = "idle" => collected = <<>>
    /\ pc # "idle" => from <= page
    /\ pc = "end" => answer.code # 200 \/ answer.remain <= 0

IInv == TypeOK /\ ControlInv /\ AskInv /\ GotInv

-----------------------------------------------------------------------------
(* Sorted lists. *)

LEMMA ListOfAll ==
    ASSUME NEW S, IsFiniteSet(S), NEW s \in SetToSeqs(S)
    PROVE  /\ Cardinality(S) \in Nat /\ Len(s) = Cardinality(S)
           /\ s \in Seq(S) /\ DOMAIN s = 1..Cardinality(S)
           /\ s \in [1..Cardinality(S) -> S]
           /\ \A i, j \in 1..Cardinality(S) : i # j => s[i] # s[j]
           /\ \A o \in S : \E i \in 1..Cardinality(S) : s[i] = o
<1>1. Cardinality(S) \in Nat BY FS_CardinalityType
<1>2. /\ s \in [1..Cardinality(S) -> S]
      /\ \A i, j \in 1..Cardinality(S) : i # j => s[i] # s[j]
  BY DEF SetToSeqs
<1>3. s \in Seq(S) BY <1>1, <1>2, SeqDef
<1>4. DOMAIN s = 1..Cardinality(S) BY <1>2
<1>5. Len(s) = Cardinality(S) BY <1>1, <1>3, <1>4, LenProperties
<1>6. s \in Injection(1..Cardinality(S), S) BY <1>2 DEF Injection, IsInjective
<1>7. Cardinality(1..Cardinality(S)) = Cardinality(S) BY <1>1, FS_Interval
<1>8. s \in Surjection(1..Cardinality(S), S) BY <1>6, <1>7, FS_Injection
<1>9. \A o \in S : \E i \in 1..Cardinality(S) : s[i] = o BY <1>8 DEF Surjection
<1> QED BY <1>1, <1>2, <1>3, <1>4, <1>5, <1>9

LEMMA FirstOnes ==
    ASSUME NEW S, IsFiniteSet(S), NEW s \in SetToSeqs(S), NEW n \in 0..Cardinality(S)
    PROVE  LET T == {s[j] : j \in 1..n} IN IsFiniteSet(T) /\ Cardinality(T) = n
<1> DEFINE T == {s[j] : j \in 1..n}
           f == [j \in 1..n |-> s[j]]
<1>1. /\ Cardinality(S) \in Nat /\ s \in [1..Cardinality(S) -> S]
      /\ \A i, j \in 1..Cardinality(S) : i # j => s[i] # s[j]
  BY ListOfAll
<1>2. n \in Nat /\ 1..n \subseteq 1..Cardinality(S) BY <1>1
<1>3. f \in Injection(1..n, T) BY <1>1, <1>2 DEF Injection, IsInjective
<1>4. f \in Surjection(1..n, T) BY DEF Surjection
<1>5. ExistsBijection(1..n, T) BY <1>3, <1>4 DEF ExistsBijection, Bijection
<1>6. Cardinality(T) = n BY <1>2, <1>5, FS_CountingElements
<1>7. IsFiniteSet(T) BY <1>2, <1>5, FS_NatBijection
<1> QED BY <1>6, <1>7

LEMMA NoLowerRank ==
    ASSUME NEW S, S \subseteq Objects, \A o \in S : Rank[o] \in Nat,
           NEW s \in SetToSeqs(S), Ordered(s), NEW t \in SetToSeqs(S), Ordered(t),
           NEW i \in 1..Cardinality(S)
    PROVE  Rank[t[i]] <= Rank[s[i]]
<1>1. IsFiniteSet(S) BY ObjectAssumption, FS_Subset
<1>2. /\ Cardinality(S) \in Nat /\ DOMAIN s = 1..Cardinality(S)
      /\ s \in [1..Cardinality(S) -> S]
  BY <1>1, ListOfAll
<1>3. /\ DOMAIN t = 1..Cardinality(S) /\ t \in [1..Cardinality(S) -> S]
      /\ \A o \in S : \E k \in 1..Cardinality(S) : t[k] = o
  BY <1>1, ListOfAll
<1>4. \A k \in 1..Cardinality(S) : Rank[s[k]] \in Nat /\ Rank[t[k]] \in Nat BY <1>2, <1>3
<1> SUFFICES ASSUME ~(Rank[t[i]] <= Rank[s[i]]) PROVE FALSE OBVIOUS
<1> DEFINE A == {s[j] : j \in 1..i}
           B == {t[j] : j \in 1..(i - 1)}
<1>5. IsFiniteSet(A) /\ Cardinality(A) = i BY <1>1, <1>2, FirstOnes
<1>6. i - 1 \in 0..Cardinality(S) BY <1>2
<1>7. IsFiniteSet(B) /\ Cardinality(B) = i - 1 BY <1>1, <1>6, FirstOnes
<1>8. ASSUME NEW j \in 1..i PROVE s[j] \in B
  <2>1. j \in 1..Cardinality(S) BY <1>2
  <2>2. PICK k \in 1..Cardinality(S) : t[k] = s[j] BY <1>2, <1>3, <2>1
  <2>3. Rank[s[j]] <= Rank[s[i]] BY <1>2, <1>4, <2>1 DEF Ordered
  <2>4. Rank[t[k]] < Rank[t[i]] BY <1>4, <2>2, <2>3
  <2>5. ~(i < k) BY <1>3, <1>4, <2>4 DEF Ordered
  <2>6. i # k BY <1>4, <2>4
  <2>7. k \in 1..(i - 1) BY <1>2, <2>5, <2>6
  <2> QED BY <2>2, <2>7
<1>9. A \subseteq B BY <1>8
<1>10. Cardinality(A) <= Cardinality(B) BY <1>7, <1>9, FS_Subset
<1> QED BY <1>5, <1>7, <1>10

\* Two sorts of the same objects may differ, but not in the ranks: so the pages of
\* one sort go on where those of another one ended.
LEMMA SameRanks ==
    ASSUME NEW S, S \subseteq Objects, Sortable(S), NEW s \in Orders(S), NEW t \in Orders(S)
    PROVE  /\ Cardinality(S) \in Nat
           /\ Len(s) = Cardinality(S) /\ s \in Seq(S) /\ DOMAIN s = 1..Len(s)
           /\ \A i \in 1..Cardinality(S) : Rank[s[i]] = Rank[t[i]]
<1>1. IsFiniteSet(S) BY ObjectAssumption, FS_Subset
<1>2. s \in SetToSeqs(S) /\ t \in SetToSeqs(S) BY DEF Orders
<1>3. /\ Cardinality(S) \in Nat /\ Len(s) = Cardinality(S) /\ s \in Seq(S)
      /\ DOMAIN s = 1..Cardinality(S) /\ s \in [1..Cardinality(S) -> S]
      /\ \A i, j \in 1..Cardinality(S) : i # j => s[i] # s[j]
  BY <1>1, <1>2, ListOfAll
<1>4. /\ t \in [1..Cardinality(S) -> S]
      /\ \A o \in S : \E i \in 1..Cardinality(S) : t[i] = o
  BY <1>1, <1>2, ListOfAll
<1>5. ASSUME NEW i \in 1..Cardinality(S) PROVE Rank[s[i]] = Rank[t[i]]
  <2>1. CASE Cardinality(S) >= 2
    <3>1. \A o \in S : Rank[o] \in Nat BY <2>1, ObjectAssumption DEF Sortable
    <3>2. Ordered(s) /\ Ordered(t) BY <2>1 DEF Orders
    <3>3. Rank[s[i]] <= Rank[t[i]] BY <1>2, <3>1, <3>2, NoLowerRank
    <3>4. Rank[t[i]] <= Rank[s[i]] BY <1>2, <3>1, <3>2, NoLowerRank
    <3>5. Rank[s[i]] \in Nat /\ Rank[t[i]] \in Nat BY <1>3, <1>4, <3>1
    <3> QED BY <3>3, <3>4, <3>5
  <2>2. CASE ~(Cardinality(S) >= 2)
    <3>1. Cardinality(S) = 1 /\ i = 1 BY <1>3, <2>2
    <3>2. PICK k \in 1..Cardinality(S) : t[k] = s[i] BY <1>3, <1>4
    <3>3. k = i BY <3>1
    <3> QED BY <3>2, <3>3
  <2> QED BY <2>1, <2>2
<1> QED BY <1>3, <1>5

\* What the label selector leaves of a sorted list is the sorted list of what it
\* selects: the store sorts before the proxy filters, and the pages are cut last.
LEMMA ChosenIsSorted ==
    ASSUME NEW S, S \subseteq Objects, Sortable(S), NEW s \in Orders(S)
    PROVE  Chosen(s) \in Orders(S \cap Labelled)
<1> DEFINE L == S \cap Labelled
           t == Chosen(s)
<1>1. IsFiniteSet(S) /\ IsFiniteSet(L) BY ObjectAssumption, FS_Subset
<1>2. s \in SetToSeqs(S) BY DEF Orders
<1>3. /\ Cardinality(S) \in Nat /\ Len(s) = Cardinality(S) /\ s \in Seq(S)
      /\ DOMAIN s = 1..Cardinality(S) /\ s \in [1..Cardinality(S) -> S]
      /\ \A i, j \in 1..Cardinality(S) : i # j => s[i] # s[j]
      /\ \A o \in S : \E i \in 1..Cardinality(S) : s[i] = o
  BY <1>1, <1>2, ListOfAll
<1>4. s \in Seq(Objects) BY <1>3, SeqMonotonic
<1>5. t \in Seq(Objects) /\ KeptOf(s, Labelled, Len(s), t) BY <1>4, FilteredKeeps DEF Chosen
<1> HIDE DEF t
<1>6. Len(t) \in Nat /\ DOMAIN t = 1..Len(t) /\ t \in [1..Len(t) -> Objects] BY <1>5, LenProperties
<1>7. \A a \in 1..Len(t) : t[a] \in L BY <1>3, <1>5 DEF KeptOf
<1>8. t \in [1..Len(t) -> L] BY <1>6, <1>7
<1>9. \A a, b \in 1..Len(t) : a < b => \E j, k \in 1..Cardinality(S) :
                                          j < k /\ t[a] = s[j] /\ t[b] = s[k]
  BY <1>3, <1>5 DEF KeptOf
<1>10. ASSUME NEW a \in 1..Len(t), NEW b \in 1..Len(t), a # b PROVE t[a] # t[b]
  <2>1. \A j, k \in 1..Cardinality(S) : j < k => s[j] # s[k] BY <1>3
  <2>2. CASE a < b BY <1>9, <2>1, <2>2
  <2>3. CASE b < a BY <1>9, <2>1, <2>3
  <2> QED BY <1>6, <1>10, <2>2, <2>3
<1>11. ASSUME NEW o \in L PROVE \E a \in 1..Len(t) : t[a] = o
  <2>1. PICK j \in 1..Cardinality(S) : s[j] = o BY <1>3
  <2> QED BY <1>3, <1>5, <2>1 DEF KeptOf
<1>12. Cardinality(L) = Len(t)
  <2>1. t \in Injection(1..Len(t), L) BY <1>8, <1>10 DEF Injection, IsInjective
  <2>2. t \in Surjection(1..Len(t), L) BY <1>8, <1>11 DEF Surjection
  <2>3. ExistsBijection(1..Len(t), L) BY <2>1, <2>2 DEF ExistsBijection, Bijection
  <2> QED BY <1>6, <2>3, FS_CountingElements
<1>13. t \in SetToSeqs(L) BY <1>8, <1>10, <1>12 DEF SetToSeqs
<1>14. ASSUME Cardinality(L) >= 2 PROVE Ordered(t)
  <2>1. Cardinality(L) <= Cardinality(S) BY <1>1, FS_Subset
  <2>2. Cardinality(S) >= 2 BY <1>3, <1>6, <1>12, <1>14, <2>1
  <2>3. Ordered(s) BY <2>2 DEF Orders
  <2>4. \A j, k \in 1..Cardinality(S) : j < k => Rank[s[j]] <= Rank[s[k]]
    BY <1>3, <2>3 DEF Ordered
  <2>5. \A a, b \in 1..Len(t) : a < b => Rank[t[a]] <= Rank[t[b]] BY <1>9, <2>4
  <2> QED BY <1>6, <2>5 DEF Ordered
<1>15. t \in Orders(L) BY <1>13, <1>14 DEF Orders
<1> QED BY <1>15 DEF t

-----------------------------------------------------------------------------
(* Pages. *)

LEMMA NoWrap ==
    ASSUME NEW n \in Range64
    PROVE  Wrap(n) = n
<1>1. Half \in Nat /\ n \in (-Half)..(Half - 1) BY NumberAssumption DEF Range64
<1>2. n + Half \in 0..((2 * Half) - 1) /\ 2 * Half \in Nat \ {0} BY <1>1
<1>3. (n + Half) % (2 * Half) = n + Half BY <1>2
<1> QED BY <1>1, <1>3 DEF Wrap

LEMMA WrapType ==
    ASSUME NEW n \in Int
    PROVE  Wrap(n) \in Range64
<1>1. Half \in Nat /\ Half # 0
  <2>1. Cardinality(Objects) \in Nat BY ObjectAssumption, FS_CardinalityType
  <2> QED BY <2>1, NumberAssumption
<1>2. n + Half \in Int /\ 2 * Half \in Nat \ {0} BY <1>1
<1>3. (n + Half) % (2 * Half) \in 0..((2 * Half) - 1) BY <1>2
<1> QED BY <1>1, <1>3 DEF Wrap, Range64

\* A page that is asked for properly: its first and its last index are what they
\* are without a width.
LEMMA ProperBounds ==
    ASSUME NEW p \in Nat, NEW z \in Nat, p >= 1, z >= 1, p * z < Half
    PROVE  /\ (p - 1) * z \in Nat /\ p * z \in Nat /\ (p - 1) * z + z = p * z
           /\ Start(p, z) = (p - 1) * z /\ Finish(p, z) = p * z
<1>1. /\ (p - 1) * z \in Nat /\ p * z \in Nat /\ (p - 1) * z + z = p * z
      /\ p - 1 \in Nat /\ p <= p * z
  OBVIOUS
<1>2. Half \in Nat BY NumberAssumption
<1>3. p - 1 \in Range64 /\ (p - 1) * z \in Range64 /\ p * z \in Range64
  BY <1>1, <1>2 DEF Range64
<1>4. Start(p, z) = (p - 1) * z BY <1>3, NoWrap DEF Start
<1>5. Finish(p, z) = p * z BY <1>1, <1>3, <1>4, NoWrap DEF Finish
<1> QED BY <1>1, <1>4, <1>5

FirstOf(s, p, z) == Lesser((p - 1) * z, Len(s))
LastOf(s, p, z) == Lesser(p * z, Len(s))
ItemsOf(s, p, z) == SubSeq(s, FirstOf(s, p, z) + 1, LastOf(s, p, z))

LEMMA ProperCut ==
    ASSUME NEW p \in Nat, NEW z \in Nat, p >= 1, z >= 1, p * z < Half,
           NEW s \in Seq(Objects)
    PROVE  /\ Cut(s, p, z) = [code |-> 200, items |-> ItemsOf(s, p, z)]
           /\ ItemsOf(s, p, z) \in Seq(Objects)
           /\ Len(ItemsOf(s, p, z)) = LastOf(s, p, z) - FirstOf(s, p, z)
           /\ \A i \in 1..(LastOf(s, p, z) - FirstOf(s, p, z)) :
                 ItemsOf(s, p, z)[i] = s[FirstOf(s, p, z) + i]
<1> DEFINE first == Lesser((p - 1) * z, Len(s))
           last == Lesser(p * z, Len(s))
<1>1. /\ (p - 1) * z \in Nat /\ p * z \in Nat /\ (p - 1) * z + z = p * z
      /\ Start(p, z) = (p - 1) * z /\ Finish(p, z) = p * z
  BY ProperBounds
<1>2. Len(s) \in Nat BY LenProperties
<1>3. Clamp(Start(p, z), Len(s)) = first /\ Clamp(Finish(p, z), Len(s)) = last
  BY <1>1, <1>2 DEF Clamp, Lesser
<1>4. first \in Nat /\ last \in Nat /\ first <= last /\ last <= Len(s) BY <1>1, <1>2 DEF Lesser
<1>5. Cut(s, p, z) = [code |-> 200, items |-> SubSeq(s, first + 1, last)]
  <2>1. Cut(s, p, z) = Slice(s, first, last) BY <1>3 DEF Cut
  <2> HIDE DEF first, last
  <2> QED BY <1>4, <2>1 DEF Slice
<1> HIDE DEF first, last
<1>6. \A i \in (first + 1)..last : s[i] \in Objects
  <2>1. \A i \in (first + 1)..last : i \in 1..Len(s) BY <1>2, <1>4
  <2> QED BY <2>1, ElementOfSeq
<1> DEFINE items == SubSeq(s, first + 1, last)
<1>7. /\ items \in Seq(Objects)
      /\ Len(items) = IF first + 1 <= last THEN last - (first + 1) + 1 ELSE 0
      /\ \A i \in 1..(last - (first + 1) + 1) : items[i] = s[(first + 1) + i - 1]
  <2>1. first + 1 \in Int /\ last \in Int BY <1>4
  <2> QED BY <1>6, <2>1, SubSeqProperties
<1> HIDE DEF items
<1>8. Len(items) = last - first BY <1>4, <1>7
<1>9. ASSUME NEW i \in 1..(last - first) PROVE items[i] = s[first + i]
  <2>1. i \in 1..(last - (first + 1) + 1) /\ (first + 1) + i - 1 = first + i BY <1>4
  <2> QED BY <1>7, <2>1
<1> QED BY <1>5, <1>7, <1>8, <1>9 DEF items, first, last, FirstOf, LastOf, ItemsOf

Cuts == [code : {200, 500}, items : Seq(Objects)]
AllAnswers == [code : Codes, items : Seq(Objects), remain : Range64]

LEMMA CutType ==
    ASSUME NEW s \in Seq(Objects), NEW p \in Nat, NEW z \in Nat
    PROVE  StorePage(s, p, z) \in Cuts /\ LabelPage(s, p, z) \in Cuts
<1>1. Len(s) \in Nat BY LenProperties
<1>2. Start(p, z) \in Int /\ Finish(p, z) \in Int
  <2>1. Half \in Nat BY NumberAssumption
  <2>2. \A n \in Range64 : n \in Int BY <2>1 DEF Range64
  <2>3. Wrap(p - 1) \in Int BY <2>2, WrapType
  <2>4. Start(p, z) \in Int BY <2>2, <2>3, WrapType DEF Start
  <2> QED BY <2>2, <2>4, WrapType DEF Finish
<1>3. ASSUME NEW m \in Int, NEW n \in Int PROVE Slice(s, m, n) \in Cuts
  <2>1. CASE 0 <= m /\ m <= n /\ n <= Len(s)
    <3>1. \A i \in (m + 1)..n : i \in 1..Len(s) BY <1>1, <2>1
    <3>2. \A i \in (m + 1)..n : s[i] \in Objects BY <3>1, ElementOfSeq
    <3>3. SubSeq(s, m + 1, n) \in Seq(Objects) BY <3>2, SubSeqProperties
    <3>4. Slice(s, m, n) = [code |-> 200, items |-> SubSeq(s, m + 1, n)] BY <2>1 DEF Slice
    <3> QED BY <3>3, <3>4 DEF Cuts
  <2>2. CASE ~(0 <= m /\ m <= n /\ n <= Len(s))
    <3>1. Slice(s, m, n) = [code |-> 500, items |-> <<>>] BY <2>2 DEF Slice
    <3> QED BY <3>1, EmptySeq DEF Cuts
  <2> QED BY <2>1, <2>2
<1>4. Clamp(Start(p, z), Len(s)) \in Int /\ Clamp(Finish(p, z), Len(s)) \in Int
  BY <1>1, <1>2 DEF Clamp
<1>5. Cut(s, p, z) \in Cuts BY <1>3, <1>4 DEF Cut
<1>6. [code |-> 200, items |-> s] \in Cuts BY DEF Cuts
<1> QED BY <1>5, <1>6 DEF StorePage, LabelPage

LEMMA FailureType ==
    ASSUME NEW code \in Codes
    PROVE  Failure(code) \in AllAnswers
<1>1. 0 \in Range64
  <2>1. Cardinality(Objects) \in Nat BY ObjectAssumption, FS_CardinalityType
  <2> QED BY <2>1, NumberAssumption DEF Range64
<1>2. Failure(code) = [code |-> code, items |-> <<>>, remain |-> 0] BY DEF Failure, NoAnswer
<1> QED BY <1>1, <1>2, EmptySeq DEF AllAnswers

LEMMA RespondType ==
    ASSUME NEW cut \in Cuts, NEW total \in Nat, NEW p \in Nat, NEW z \in Nat
    PROVE  Respond(cut, total, p, z) \in AllAnswers
<1>1. Half \in Nat /\ Half # 0 /\ 0 \in Range64
  <2>1. Cardinality(Objects) \in Nat BY ObjectAssumption, FS_CardinalityType
  <2> QED BY <2>1, NumberAssumption DEF Range64
<1>2. \A n \in Range64 : n \in Int BY <1>1 DEF Range64
<1>3. Remain(total, p, z) \in Range64
  <2>1. z * p \in Int OBVIOUS
  <2>2. Wrap(z * p) \in Int BY <1>2, <2>1, WrapType
  <2>3. Wrap(total - Wrap(z * p)) \in Range64 BY <2>2, WrapType
  <2> QED BY <1>1, <2>3 DEF Remain
<1>4. \A code \in Codes : Failure(code) \in AllAnswers BY FailureType
<1>5. cut.code \in Codes /\ 400 \in Codes /\ cut.items \in Seq(Objects) BY DEF Cuts, Codes
<1>6. \A r \in Range64 : [code |-> 200, items |-> cut.items, remain |-> r] \in AllAnswers
  BY <1>5 DEF AllAnswers, Codes
<1> HIDE DEF Cuts
<1> QED BY <1>1, <1>3, <1>4, <1>5, <1>6 DEF Respond

ListOf(S, withLabels) == IF withLabels THEN S \cap Labelled ELSE S

\* An answer shows a page of some sort of the list.
ShowsSorted(a, L, p, z) ==
    \E s \in Orders(L) :
        /\ s \in Seq(Objects)
        /\ \/ a = Respond(LabelPage(s, p, z), Len(s), p, z)
           \/ a = Respond(StorePage(s, p, z), Len(s), p, z)

LEMMA SortedAnswer ==
    ASSUME NEW S \in SUBSET Objects, Sortable(S), NEW withLabels \in BOOLEAN,
           NEW p \in Nat, NEW z \in Nat, NEW a \in Answers(S, withLabels, p, z)
    PROVE  ShowsSorted(a, ListOf(S, withLabels), p, z)
<1>1. \A s \in Orders(S) : s \in Seq(Objects)
  BY SameRanks, SeqMonotonic
<1>2. CASE withLabels
  <2>1. PICK order \in Orders(S) :
            a = Respond(LabelPage(Chosen(order), p, z), Len(Chosen(order)), p, z)
    BY <1>2 DEF Answers
  <2>2. Chosen(order) \in Orders(S \cap Labelled) BY ChosenIsSorted
  <2>3. Chosen(order) \in Seq(Objects) BY <1>1, FilteredKeeps DEF Chosen
  <2> QED BY <1>2, <2>1, <2>2, <2>3 DEF ShowsSorted, ListOf
<1>3. CASE ~withLabels
  <2>1. PICK order \in Orders(S) : a = Respond(StorePage(order, p, z), Len(order), p, z)
    BY <1>3 DEF Answers
  <2> QED BY <1>1, <1>3, <2>1 DEF ShowsSorted, ListOf
<1> QED BY <1>2, <1>3

LEMMA AnswerType ==
    ASSUME NEW S \in SUBSET Objects, NEW withLabels \in BOOLEAN,
           NEW p \in Nat, NEW z \in Nat, NEW a \in Answers(S, withLabels, p, z)
    PROVE  a \in AllAnswers
<1>1. CASE ~Sortable(S)
  <2>1. a = Failure(400) BY <1>1 DEF Answers
  <2> QED BY <2>1, FailureType DEF Codes
<1>2. CASE Sortable(S)
  <2>1. ShowsSorted(a, ListOf(S, withLabels), p, z) BY <1>2, SortedAnswer
  <2>2. PICK s \in Seq(Objects) :
            \/ a = Respond(LabelPage(s, p, z), Len(s), p, z)
            \/ a = Respond(StorePage(s, p, z), Len(s), p, z)
    BY <2>1 DEF ShowsSorted
  <2>3. Len(s) \in Nat BY LenProperties
  <2> QED BY <2>2, <2>3, CutType, RespondType
<1> QED BY <1>1, <1>2

\* The page of s that was asked for properly, or none when it is beyond the end.
IsPage(a, s, p, z) ==
    \/ Len(s) <= (p - 1) * z /\ p # 1 /\ a = Failure(400)
    \/ /\ (p - 1) * z < Len(s) \/ p = 1
       /\ a.code = 200
       /\ a.items \in Seq(Objects)
       /\ Len(a.items) = Lesser(p * z, Len(s)) - (p - 1) * z
       /\ \A i \in 1..Len(a.items) : a.items[i] = s[(p - 1) * z + i]
       /\ a.remain = IF p * z < Len(s) THEN Len(s) - p * z ELSE 0

LEMMA ProperPage ==
    ASSUME NEW p \in Nat, NEW z \in Nat, p >= 1, z >= 1, p * z < Half,
           NEW s \in Seq(Objects), Len(s) < Half
    PROVE  /\ IsPage(Respond(LabelPage(s, p, z), Len(s), p, z), s, p, z)
           /\ IsPage(Respond(StorePage(s, p, z), Len(s), p, z), s, p, z)
<1> DEFINE first == Lesser((p - 1) * z, Len(s))
           last == Lesser(p * z, Len(s))
           items == ItemsOf(s, p, z)
           cut == [code |-> 200, items |-> items]
<1>1. /\ (p - 1) * z \in Nat /\ p * z \in Nat /\ (p - 1) * z + z = p * z
      /\ p = 1 => (p - 1) * z = 0
  OBVIOUS
<1>2. Len(s) \in Nat /\ Half \in Nat BY LenProperties, NumberAssumption
<1>3. /\ Cut(s, p, z) = cut /\ items \in Seq(Objects) /\ Len(items) = last - first
      /\ \A i \in 1..(last - first) : items[i] = s[first + i]
  BY ProperCut DEF FirstOf, LastOf
<1>4. LabelPage(s, p, z) = cut BY <1>3 DEF LabelPage
<1>5. StorePage(s, p, z) = cut
  <2>1. CASE s # <<>> BY <1>3, <2>1 DEF StorePage
  <2>2. CASE s = <<>>
    <3>1. StorePage(s, p, z) = [code |-> 200, items |-> s] BY <2>2 DEF StorePage
    <3>2. Len(s) = 0 BY <2>2, EmptySeq
    <3>3. Len(items) = 0 BY <1>1, <1>3, <3>2 DEF Lesser
    <3>4. items = s BY <1>3, <2>2, <3>3, EmptySeq
    <3> QED BY <3>1, <3>4
  <2> QED BY <2>1, <2>2
<1>6. Remain(Len(s), p, z) = Len(s) - p * z
  <2>1. z * p = p * z OBVIOUS
  <2>2. p * z \in Range64 /\ Len(s) - p * z \in Range64 BY <1>1, <1>2 DEF Range64
  <2>3. Remain(Len(s), p, z) = Wrap(Len(s) - Wrap(z * p)) BY DEF Remain
  <2> QED BY <2>1, <2>2, <2>3, NoWrap
<1>7. first \in Nat /\ last \in Nat /\ first <= last BY <1>1, <1>2 DEF Lesser
<1>8. (p - 1) * z < Len(s) \/ p = 1 => first = (p - 1) * z BY <1>1, <1>2 DEF Lesser
<1>9. items = <<>> <=> Len(items) = 0 BY <1>3, EmptySeq
<1> DEFINE a == Respond(cut, Len(s), p, z)
<1>10. CASE Len(s) <= (p - 1) * z /\ p # 1
  <2>1. first = Len(s) /\ last = Len(s) BY <1>1, <1>2, <1>10 DEF Lesser
  <2>2. Len(s) - p * z < 0 BY <1>1, <1>2, <1>10
  <2>3. items = <<>> BY <1>2, <1>3, <1>9, <2>1
  <2>4. a = Failure(400) BY <1>6, <1>10, <2>2, <2>3 DEF Respond
  <2> QED BY <1>4, <1>5, <1>10, <2>4 DEF IsPage
<1>11. CASE ~(Len(s) <= (p - 1) * z /\ p # 1)
  <2>1. (p - 1) * z < Len(s) \/ p = 1 BY <1>1, <1>2, <1>11
  <2>2. first = (p - 1) * z BY <1>8, <2>1
  <2>3. ~(Len(s) - p * z < 0 /\ items = <<>> /\ p # 1)
    <3>1. p # 1 => first < last BY <1>1, <1>2, <2>1, <2>2 DEF Lesser
    <3> QED BY <1>3, <1>7, <1>9, <3>1
  <2>4. a = [code |-> 200, items |-> items,
             remain |-> IF Len(s) - p * z < 0 THEN 0 ELSE Len(s) - p * z]
    <3> HIDE DEF items
    <3> QED BY <1>6, <2>3 DEF Respond
  <2> HIDE DEF a, items
  <2>5. a.code = 200 /\ a.items = items BY <2>4
  <2>6. a.remain = IF p * z < Len(s) THEN Len(s) - p * z ELSE 0 BY <1>1, <1>2, <2>4
  <2>7. Len(items) = last - (p - 1) * z BY <1>3, <2>2
  <2>8. \A i \in 1..Len(items) : items[i] = s[(p - 1) * z + i] BY <1>3, <2>2
  <2>9. IsPage(a, s, p, z) BY <1>3, <2>1, <2>5, <2>6, <2>7, <2>8 DEF IsPage
  <2> QED BY <1>4, <1>5, <2>9 DEF a
<1> QED BY <1>10, <1>11

LEMMA ProperAnswer ==
    ASSUME NEW S \in SUBSET Objects, Sortable(S), NEW withLabels \in BOOLEAN,
           NEW p \in Nat, NEW z \in Nat, p >= 1, z >= 1, p * z < Half,
           NEW a \in Answers(S, withLabels, p, z)
    PROVE  \E s \in Orders(ListOf(S, withLabels)) : IsPage(a, s, p, z)
<1> DEFINE L == ListOf(S, withLabels)
<1>1. PICK s \in Orders(L) :
          /\ s \in Seq(Objects)
          /\ \/ a = Respond(LabelPage(s, p, z), Len(s), p, z)
             \/ a = Respond(StorePage(s, p, z), Len(s), p, z)
  BY SortedAnswer DEF ShowsSorted
<1>2. Len(s) < Half
  <2>1. L \in SUBSET Objects BY DEF ListOf
  <2>2. IsFiniteSet(L) /\ Cardinality(L) <= Cardinality(Objects)
    BY <2>1, ObjectAssumption, FS_Subset
  <2>3. s \in SetToSeqs(L) BY DEF Orders
  <2>4. Cardinality(L) \in Nat /\ Len(s) = Cardinality(L) BY <2>2, <2>3, ListOfAll
  <2>5. Cardinality(Objects) \in Nat BY ObjectAssumption, FS_CardinalityType
  <2> QED BY <2>2, <2>4, <2>5, NumberAssumption
<1>3. IsPage(a, s, p, z) BY <1>1, <1>2, ProperPage
<1> QED BY <1>3

LEMMA ListedSorts ==
    ASSUME NEW S \in SUBSET Objects, Sortable(S), NEW withLabels \in BOOLEAN
    PROVE  /\ ListOf(S, withLabels) \in SUBSET Objects
           /\ Sortable(ListOf(S, withLabels))
<1>1. S \cap Labelled \in SUBSET S /\ IsFiniteSet(S) BY ObjectAssumption, FS_Subset
<1>2. /\ Cardinality(S \cap Labelled) \in Nat /\ Cardinality(S) \in Nat
      /\ Cardinality(S \cap Labelled) <= Cardinality(S)
  BY <1>1, FS_Subset, FS_CardinalityType
<1>3. Sortable(S \cap Labelled) BY <1>1, <1>2 DEF Sortable
<1> QED BY <1>3 DEF ListOf

-----------------------------------------------------------------------------
(* Typing. *)

LEMMA SizesAndPages ==
    TypeOK => size \in Nat /\ page \in Nat /\ from \in Nat
<1>1. MaxPage \in Nat /\ \A n \in PageSizes : n \in Nat
  <2>1. Half \in Nat BY NumberAssumption
  <2> QED BY <2>1, NumberAssumption
<1> QED BY <1>1 DEF TypeOK, Pages

LEMMA TypeStep == TypeOK /\ [Next]_vars => TypeOK'
<1> SUFFICES ASSUME TypeOK, [Next]_vars PROVE TypeOK' OBVIOUS
<1>1. ASSUME NEW o \in Objects, Change(o) PROVE TypeOK'
  BY <1>1, NumberAssumption DEF Change, TypeOK
<1>2. ASSUME NEW p \in FirstPages, NEW withLabels \in BOOLEAN, Begin(p, withLabels)
      PROVE  TypeOK'
  <2>1. p \in Pages BY NumberAssumption DEF Pages
  <2> QED BY <1>2, <2>1 DEF Begin, TypeOK
<1>3. ASSUME List PROVE TypeOK'
  <2>1. size \in Nat /\ page \in Nat BY SizesAndPages
  <2>2. answer' \in Answers(matched, labels, page, size) BY <1>3 DEF List
  <2>3. answer' \in AllAnswers BY <2>1, <2>2, AnswerType DEF TypeOK
  <2>4. collected' \in Seq(Objects)
    <3>1. answer'.items \in Seq(Objects) BY <2>3 DEF AllAnswers
    <3> QED BY <1>3, <3>1, ConcatProperties DEF List, TypeOK
  <2> QED BY <1>3, <2>3, <2>4 DEF List, TypeOK, AllAnswers
<1>4. ASSUME NextPage PROVE TypeOK'
  <2>1. page + 1 \in Pages
    BY <1>4, NumberAssumption DEF NextPage, TypeOK, Pages
  <2> QED BY <1>4, <2>1 DEF NextPage, TypeOK
<1>5. ASSUME End PROVE TypeOK' BY <1>5 DEF End, TypeOK
<1>6. CASE UNCHANGED vars BY <1>6 DEF vars, TypeOK
<1> QED BY <1>1, <1>2, <1>3, <1>4, <1>5, <1>6 DEF Next

LEMMA TypeInit == Init => TypeOK
<1> SUFFICES ASSUME Init PROVE TypeOK OBVIOUS
<1>1. 0 \in Pages /\ 0 \in 0..MaxChanges BY NumberAssumption DEF Pages
<1>2. 0 \in Codes BY DEF Codes
<1>3. NoAnswer \in AllAnswers
  <2>1. NoAnswer = Failure(0) BY DEF NoAnswer, Failure
  <2> QED BY <1>2, <2>1, FailureType
<1>4. <<>> \in Seq(Objects) BY EmptySeq
<1> QED BY <1>1, <1>3, <1>4 DEF Init, TypeOK, AllAnswers

\* Pagination keeps its types: every answer has a code, a list of objects and an
\* integer of the width (memory.go:308-336, proxy.go:266-324).
THEOREM TypeCorrect == Spec => []TypeOK
<1>1. Init => TypeOK BY TypeInit
<1>2. TypeOK /\ [Next]_vars => TypeOK' BY TypeStep
<1> QED BY <1>1, <1>2, PTL DEF Spec

-----------------------------------------------------------------------------
(* One answer. *)

\* List with a proper page: what the answer is.
LEMMA ListShows ==
    ASSUME TypeOK, List, Proper, Sortable(matched)
    PROVE  /\ size \in Nat /\ page \in Nat
           /\ Listed \in SUBSET Objects /\ Sortable(Listed) /\ Listed' = Listed
           /\ \E s \in Orders(Listed) : IsPage(answer', s, page, size)
<1>1. size \in Nat /\ page \in Nat BY SizesAndPages
<1>2. answer' \in Answers(matched, labels, page, size) BY DEF List
<1>3. matched \in SUBSET Objects /\ labels \in BOOLEAN BY DEF TypeOK
<1>4. page >= 1 /\ size >= 1 /\ page * size < Half BY DEF Proper
<1>5. Listed = ListOf(matched, labels) BY DEF Listed, ListOf
<1>6. \E s \in Orders(ListOf(matched, labels)) : IsPage(answer', s, page, size)
  BY <1>1, <1>2, <1>3, <1>4, ProperAnswer
<1>7. Listed' = Listed BY DEF List, Listed
<1> QED BY <1>1, <1>3, <1>5, <1>6, <1>7, ListedSorts

LEMMA Unsortable ==
    ASSUME List, ~Sortable(matched)
    PROVE  answer' = Failure(400)
BY DEF List, Answers

LEMMA ListSteps ==
    ASSUME [Next]_vars, ListStep
    PROVE  List
BY DEF Next, vars, ListStep, Change, Begin, NextPage, End

\* A page that is asked for properly never makes the server panic: the bounds of the
\* slice are in order for any page, any size and any number of objects
\* (memory.go:322-334, proxy.go:270-287).
THEOREM PagesNeverPanic == Spec => NoPanic
<1>1. TypeOK /\ [Next]_vars => ((ListStep /\ Proper) => answer'.code # 500)
  <2> SUFFICES ASSUME TypeOK, [Next]_vars, ListStep, Proper PROVE answer'.code # 500
    OBVIOUS
  <2>1. List BY ListSteps
  <2>2. Failure(400).code = 400 BY DEF Failure, NoAnswer
  <2>3. CASE Sortable(matched)
    <3>1. PICK s \in Orders(Listed) : IsPage(answer', s, page, size)
      BY <2>1, <2>3, ListShows
    <3> QED BY <2>2, <3>1 DEF IsPage
  <2>4. CASE ~Sortable(matched) BY <2>1, <2>2, <2>4, Unsortable
  <2> QED BY <2>3, <2>4
<1> QED BY <1>1, TypeCorrect, PTL DEF Spec, NoPanic

\* The remaining count is honest on every page, also on the last one and on one that
\* is full to the last place (proxy.go:302-324, page.go:342-352).
THEOREM TotalsAreHonest == Spec => TotalHonest
<1>1. TypeOK /\ [Next]_vars =>
          ((ListStep /\ Proper /\ answer'.code = 200) => Total' = Cardinality(Listed))
  <2> SUFFICES ASSUME TypeOK, [Next]_vars, ListStep, Proper, answer'.code = 200
               PROVE  Total' = Cardinality(Listed)
    OBVIOUS
  <2>1. List BY ListSteps
  <2>2. Failure(400).code = 400 BY DEF Failure, NoAnswer
  <2>3. Sortable(matched) BY <2>1, <2>2, Unsortable
  <2>4. /\ size \in Nat /\ page \in Nat
        /\ Listed \in SUBSET Objects /\ Sortable(Listed)
    BY <2>1, <2>3, ListShows
  <2>5. PICK s \in Orders(Listed) : IsPage(answer', s, page, size)
    BY <2>1, <2>3, ListShows
  <2>6. Cardinality(Listed) \in Nat /\ Len(s) = Cardinality(Listed) BY <2>4, SameRanks
  <2>7. /\ (page - 1) * size < Len(s) \/ page = 1
        /\ Len(answer'.items) = Lesser(page * size, Len(s)) - (page - 1) * size
        /\ answer'.remain = IF page * size < Len(s) THEN Len(s) - page * size ELSE 0
    BY <2>2, <2>5 DEF IsPage
  <2>8. page' = page /\ size' = size BY <2>1 DEF List
  <2>9. page * size \in Nat /\ (page - 1) * size + size = page * size /\ page >= 1
    BY <2>4 DEF Proper
  <2>10. page = 1 => (page - 1) * size = 0 BY <2>4
  <2> DEFINE before == (page - 1) * size
             upto == page * size
  <2>11. before \in Nat /\ upto \in Nat BY <2>4, <2>9
  <2>12. /\ before + size = upto
         /\ before < Len(s) \/ before = 0
         /\ Len(answer'.items) = Lesser(upto, Len(s)) - before
         /\ answer'.remain = IF upto < Len(s) THEN Len(s) - upto ELSE 0
    BY <2>7, <2>9, <2>10
  <2> HIDE DEF before, upto
  <2>13. answer'.remain + before + Len(answer'.items) = Len(s)
    BY <2>4, <2>6, <2>11, <2>12 DEF Lesser
  <2> QED BY <2>6, <2>8, <2>13 DEF Total, before
<1> QED BY <1>1, TypeCorrect, PTL DEF Spec, TotalHonest

-----------------------------------------------------------------------------
(* The walk. *)

LEMMA IInvInit == Init => IInv
<1>1. Init => ControlInv /\ AskInv /\ GotInv
  BY DEF Init, ControlInv, AskInv, GotInv, Walking
<1> QED BY <1>1, TypeInit DEF IInv

\* A change during the walk ends what the invariant says of it.
LEMMA ChangeStep ==
    ASSUME IInv, NEW o \in Objects, Change(o)
    PROVE  ControlInv' /\ AskInv' /\ GotInv'
<1>1. /\ touched' = (touched \/ pc # "idle") /\ pc' = pc /\ from' = from /\ page' = page
      /\ answer' = answer /\ collected' = collected
  BY DEF Change
<1>2. ~Walking' BY <1>1 DEF Walking
<1>3. ControlInv' BY <1>1 DEF IInv, ControlInv
<1> QED BY <1>2, <1>3 DEF AskInv, GotInv

LEMMA BeginStep ==
    ASSUME IInv, NEW p \in FirstPages, NEW withLabels \in BOOLEAN, Begin(p, withLabels)
    PROVE  ControlInv' /\ AskInv' /\ GotInv'
<1>1. /\ pc = "idle" /\ pc' = "ask" /\ page' = p /\ from' = p
      /\ collected' = collected /\ size' = size /\ collected = <<>>
  BY DEF Begin, IInv, ControlInv
<1>2. size \in Nat /\ p \in Nat
  <2>1. Half \in Nat /\ MaxPage \in Nat BY NumberAssumption
  <2> QED BY <2>1, NumberAssumption, SizesAndPages DEF IInv
<1>3. Ahead' = (page' - 1) * size' BY <1>1 DEF Ahead
<1>4. (page' - 1) * size' \in Int BY <1>1, <1>2
<1>5. Len(collected') = 0 BY <1>1, EmptySeq
<1>6. CollectedTo((page - 1) * size)' BY <1>3, <1>4, <1>5 DEF CollectedTo
<1>7. AskInv' BY <1>1, <1>6 DEF AskInv
<1>8. ControlInv' BY <1>1, <1>2 DEF ControlInv
<1>9. GotInv' BY <1>1 DEF GotInv
<1> QED BY <1>7, <1>8, <1>9

LEMMA WholeOfAny ==
    ASSUME Listed \in SUBSET Objects, Sortable(Listed), NEW s \in Orders(Listed)
    PROVE  /\ Cardinality(Listed) \in Nat /\ Len(s) = Cardinality(Listed)
           /\ Whole = [i \in 1..Cardinality(Listed) |-> Rank[s[i]]]
<1> DEFINE w == CHOOSE t \in Orders(Listed) : TRUE
<1>1. w \in Orders(Listed) OBVIOUS
<1> HIDE DEF w
<1>2. /\ Cardinality(Listed) \in Nat /\ Len(s) = Cardinality(Listed)
      /\ \A i \in 1..Cardinality(Listed) : Rank[w[i]] = Rank[s[i]]
  BY <1>1, SameRanks
<1>3. DOMAIN w = 1..Cardinality(Listed) BY <1>1, SameRanks
<1>4. Whole = RanksOf(w) BY DEF Whole, w
<1>5. RanksOf(w) = [i \in 1..Cardinality(Listed) |-> Rank[w[i]]] BY <1>3 DEF RanksOf
<1> QED BY <1>2, <1>4, <1>5

LEMMA WalkNumbers ==
    ASSUME TypeOK, Proper, from >= 1, from <= page
    PROVE  /\ size \in Nat /\ page \in Nat /\ from \in Nat
           /\ Ahead \in Nat /\ (page - 1) * size \in Nat /\ page * size \in Nat
           /\ (page - 1) * size + size = page * size /\ size >= 1
           /\ Ahead <= (page - 1) * size
           /\ page = 1 => (page - 1) * size = 0
           /\ page = from => Ahead = (page - 1) * size
<1>1. size \in Nat /\ page \in Nat /\ from \in Nat /\ page >= 1 /\ size >= 1
  BY SizesAndPages DEF Proper
<1> QED BY <1>1 DEF Ahead

LEMMA ListStepKeeps ==
    ASSUME IInv, List
    PROVE  ControlInv' /\ AskInv' /\ GotInv'
<1>1. /\ pc = "ask" /\ pc' = "got" /\ collected' = collected \o answer'.items
      /\ size' = size /\ page' = page /\ from' = from /\ touched' = touched
      /\ matched' = matched /\ labels' = labels
  BY DEF List
<1>2. ControlInv' BY <1>1 DEF IInv, ControlInv
<1>3. AskInv' BY <1>1 DEF AskInv
<1>4. SUFFICES ASSUME Walking' PROVE GotInv' BY <1>2, <1>3 DEF GotInv
<1>5. Walking /\ Proper /\ Sortable(matched) /\ from >= 1 /\ from <= page
  BY <1>1, <1>4 DEF Walking, Proper, IInv, ControlInv
<1>6. TypeOK BY DEF IInv
<1>7. /\ Listed \in SUBSET Objects /\ Sortable(Listed) /\ Listed' = Listed
  BY <1>5, <1>6, ListShows
<1>8. PICK s \in Orders(Listed) : IsPage(answer', s, page, size)
  BY <1>5, <1>6, ListShows
<1>9. Whole' = Whole /\ Ahead' = Ahead BY <1>1, <1>7 DEF Whole, Ahead
<1> DEFINE n == Cardinality(Listed)
           before == (page - 1) * size
           upto == page * size
<1>10. n \in Nat /\ Len(s) = n /\ Whole = [i \in 1..n |-> Rank[s[i]]] BY <1>7, WholeOfAny
<1>11. /\ Ahead \in Nat /\ before \in Nat /\ upto \in Nat /\ before <= upto
       /\ Ahead <= before
       /\ page = 1 => before = 0
       /\ page = from => Ahead = before
  BY <1>5, <1>6, WalkNumbers
<1>12. /\ Len(collected) = before - Ahead
       /\ \A i \in 1..Len(collected) : Rank[collected[i]] = Whole[Ahead + i]
       /\ page = from \/ before < n
  BY <1>1, <1>5 DEF IInv, AskInv, CollectedTo
<1>13. Failure(400).code = 400 /\ Failure(400).items = <<>> BY DEF Failure, NoAnswer
<1>14. collected \in Seq(Objects) /\ Len(collected) \in Nat
  BY <1>6, LenProperties DEF TypeOK
<1>15. CASE n <= before /\ page # 1 /\ answer' = Failure(400)
  <2>1. page = from BY <1>10, <1>11, <1>12, <1>15
  <2>2. Len(collected) = 0 /\ n <= Ahead /\ from # 1 BY <1>11, <1>12, <1>15, <2>1
  <2>3. collected = <<>> BY <1>14, <2>2, EmptySeq
  <2>4. collected' = <<>> BY <1>1, <1>13, <1>15, <2>3, <1>14, ConcatEmptySeq
  <2>5. answer'.code # 200 BY <1>13, <1>15
  <2> QED BY <1>1, <1>7, <1>9, <2>2, <2>4, <2>5 DEF GotInv
<1>16. CASE ~(n <= before /\ page # 1 /\ answer' = Failure(400))
  <2>1. /\ before < n \/ page = 1
        /\ answer'.code = 200 /\ answer'.items \in Seq(Objects)
        /\ Len(answer'.items) = Lesser(upto, n) - before
        /\ \A i \in 1..Len(answer'.items) : answer'.items[i] = s[before + i]
        /\ answer'.remain = IF upto < n THEN n - upto ELSE 0
    BY <1>8, <1>10, <1>16 DEF IsPage
  <2> HIDE DEF n, before, upto
  <2>2. Ahead <= n BY <1>10, <1>11, <2>1
  <2>3. before <= Lesser(upto, n) /\ Lesser(upto, n) \in Nat /\ Lesser(upto, n) <= n
    BY <1>10, <1>11, <2>1 DEF Lesser
  <2>4. /\ Len(collected') = Len(collected) + Len(answer'.items)
        /\ \A i \in 1..(Len(collected) + Len(answer'.items)) :
              collected'[i] = IF i <= Len(collected) THEN collected[i]
                              ELSE answer'.items[i - Len(collected)]
    BY <1>1, <1>14, <2>1, ConcatProperties
  <2>5. Len(collected') = Lesser(upto, n) - Ahead BY <1>11, <1>12, <2>1, <2>3, <2>4
  <2>6. ASSUME NEW i \in 1..Len(collected') PROVE Rank[collected'[i]] = Whole[Ahead + i]
    <3>1. i \in 1..(Len(collected) + Len(answer'.items)) BY <2>4
    <3>2. CASE i <= Len(collected)
      <4>1. i \in 1..Len(collected) BY <1>14, <3>2
      <4> QED BY <1>12, <2>4, <3>1, <3>2, <4>1
    <3>3. CASE ~(i <= Len(collected))
      <4>1. /\ i - Len(collected) \in 1..Len(answer'.items)
            /\ before + (i - Len(collected)) = Ahead + i
        BY <1>11, <1>12, <1>14, <2>1, <2>3, <3>1, <3>3
      <4>2. collected'[i] = s[Ahead + i] BY <2>1, <2>4, <3>1, <3>3, <4>1
      <4>3. Ahead + i \in 1..n BY <1>10, <1>11, <2>3, <2>5
      <4> QED BY <1>10, <4>2, <4>3
    <3> QED BY <3>2, <3>3
  <2>7. CollectedTo(Lesser(page * size, Cardinality(Listed)))'
    BY <1>1, <1>7, <1>9, <2>5, <2>6 DEF CollectedTo, n, upto
  <2> QED BY <1>1, <1>7, <1>9, <2>1, <2>2, <2>7 DEF GotInv, n, upto
<1> QED BY <1>15, <1>16

LEMMA NextPageStep ==
    ASSUME IInv, NextPage
    PROVE  ControlInv' /\ AskInv' /\ GotInv'
<1>1. /\ pc = "got" /\ pc' = "ask" /\ answer.code = 200 /\ answer.remain > 0
      /\ page' = page + 1 /\ from' = from /\ size' = size /\ collected' = collected
      /\ touched' = touched /\ matched' = matched /\ labels' = labels
  BY DEF NextPage
<1>2. size \in Nat /\ page \in Nat /\ from \in Nat BY SizesAndPages DEF IInv
<1>3. ControlInv' BY <1>1, <1>2 DEF IInv, ControlInv
<1>4. GotInv' BY <1>1 DEF GotInv
<1>5. SUFFICES ASSUME Walking' PROVE AskInv' BY <1>3, <1>4 DEF AskInv
<1>6. from >= 1 /\ from <= page /\ Sortable(matched) /\ ~touched
  BY <1>1, <1>5 DEF Walking, IInv, ControlInv
<1>7. Proper
  <2>1. size >= 1 /\ (page + 1) * size < Half /\ Half \in Nat
    BY <1>1, <1>5, NumberAssumption DEF Walking, Proper
  <2>2. page * size <= (page + 1) * size BY <1>2
  <2>3. page * size < Half
    <3>1. page * size \in Int /\ (page + 1) * size \in Int BY <1>2
    <3> QED BY <2>1, <2>2, <3>1
  <2> QED BY <1>2, <1>6, <2>1, <2>3 DEF Proper
<1>8. Walking BY <1>1, <1>6, <1>7 DEF Walking
<1>9. /\ CollectedTo(Lesser(page * size, Cardinality(Listed)))
      /\ answer.remain = IF page * size < Cardinality(Listed)
                        THEN Cardinality(Listed) - page * size ELSE 0
  BY <1>1, <1>8 DEF IInv, GotInv
<1>10. page * size < Cardinality(Listed) BY <1>1, <1>9
<1>11. CollectedTo(page * size) BY <1>9, <1>10 DEF Lesser
<1>12. Listed' = Listed /\ Ahead' = Ahead /\ (page' - 1) * size' = page * size
  <2>1. page' - 1 = page BY <1>1, <1>2
  <2> QED BY <1>1, <2>1 DEF Listed, Ahead
<1>13. Whole' = Whole BY <1>12 DEF Whole
<1>14. CollectedTo((page - 1) * size)' BY <1>1, <1>11, <1>12, <1>13 DEF CollectedTo
<1> QED BY <1>10, <1>12, <1>14 DEF AskInv

LEMMA EndStep ==
    ASSUME IInv, End
    PROVE  ControlInv' /\ AskInv' /\ GotInv'
<1>1. /\ pc = "got" /\ pc' = "end"
      /\ answer.code # 200 \/ answer.remain <= 0
      /\ UNCHANGED <<matched, labels, size, page, from, answer, collected, touched>>
  BY DEF End
<1>2. ControlInv' BY <1>1 DEF IInv, ControlInv
<1>3. AskInv' BY <1>1 DEF AskInv
<1>4. Listed' = Listed /\ Ahead' = Ahead BY <1>1 DEF Listed, Ahead
<1>5. Whole' = Whole BY <1>4 DEF Whole
<1>6. GotInv'
  <2> SUFFICES ASSUME Walking' PROVE GotInv' BY DEF GotInv
  <2>1. Walking BY <1>1 DEF Walking, Proper
  <2> QED BY <1>1, <1>4, <1>5, <2>1 DEF IInv, GotInv, CollectedTo
<1> QED BY <1>2, <1>3, <1>6

LEMMA StutterStep ==
    ASSUME IInv, UNCHANGED vars
    PROVE  ControlInv' /\ AskInv' /\ GotInv'
<1>1. UNCHANGED <<matched, pc, labels, size, page, from, answer, collected, touched>>
  BY DEF vars
<1>2. Listed' = Listed /\ Ahead' = Ahead BY <1>1 DEF Listed, Ahead
<1>3. Whole' = Whole BY <1>2 DEF Whole
<1>4. Walking' <=> Walking BY <1>1 DEF Walking, Proper
<1> QED BY <1>1, <1>2, <1>3, <1>4 DEF IInv, ControlInv, AskInv, GotInv, CollectedTo

\* The strengthening behind WalkComplete.
THEOREM Inductive == Spec => []IInv
<1>1. Init => IInv BY IInvInit
<1>2. IInv /\ [Next]_vars => IInv'
  <2> SUFFICES ASSUME IInv, [Next]_vars PROVE IInv' OBVIOUS
  <2>1. TypeOK' BY TypeStep DEF IInv
  <2>2. ControlInv' /\ AskInv' /\ GotInv'
    BY ChangeStep, BeginStep, ListStepKeeps, NextPageStep, EndStep, StutterStep DEF Next
  <2> QED BY <2>1, <2>2 DEF IInv
<1> QED BY <1>1, <1>2, PTL DEF Spec

\* A walk over a list that does not change is complete and in order, and meets no
\* error from page 1 on, for any number of objects, any sort with any ties, any label
\* selector and any page size, although each page is cut out of a sort of its own
\* (memory.go:308-336, proxy.go:266-324).
THEOREM WalksAreComplete == Spec => []WalkComplete
<1>1. ASSUME IInv, pc = "end", ~touched, Proper, from >= 1, Sortable(matched)
      PROVE  /\ RanksOf(collected) = SubSeq(Whole, Ahead + 1, Len(Whole))
             /\ from = 1 => answer.code = 200
  <2> DEFINE n == Cardinality(Listed)
             Ranks == Nat \cup {NoNumber}
  <2>1. Walking /\ TypeOK /\ from <= page BY <1>1 DEF Walking, IInv, ControlInv
  <2>2. /\ Orders(Listed) # {}
        /\ answer.code = 200 => /\ Ahead <= n
                               /\ CollectedTo(Lesser(page * size, n))
                               /\ answer.remain = IF page * size < n THEN n - page * size ELSE 0
        /\ answer.code # 200 => collected = <<>> /\ from # 1 /\ n <= Ahead
    BY <1>1, <2>1 DEF IInv, GotInv
  <2>3. Listed \in SUBSET Objects /\ Sortable(Listed)
    BY <1>1, <2>1, ListedSorts DEF Listed, ListOf, TypeOK
  <2>4. PICK s \in Orders(Listed) : TRUE BY <2>2
  <2>5. n \in Nat /\ Len(s) = n /\ Whole = [i \in 1..n |-> Rank[s[i]]] BY <2>3, <2>4, WholeOfAny
  <2>6. \A i \in 1..n : s[i] \in Objects BY <2>3, <2>5, SameRanks, ElementOfSeq
  <2>7. Whole \in [1..n -> Ranks] BY <2>5, <2>6, ObjectAssumption
  <2>8. Whole \in Seq(Ranks) /\ Len(Whole) = n
    <3>1. Whole \in Seq(Ranks) BY <2>5, <2>7, SeqDef
    <3> QED BY <2>5, <2>7, <3>1, LenProperties
  <2>9. Ahead \in Nat /\ page * size \in Nat BY <1>1, <2>1, WalkNumbers
  <2> DEFINE rest == SubSeq(Whole, Ahead + 1, Len(Whole))
  <2>10. /\ rest \in Seq(Ranks)
         /\ Len(rest) = IF Ahead + 1 <= n THEN n - (Ahead + 1) + 1 ELSE 0
         /\ \A i \in 1..(n - (Ahead + 1) + 1) : rest[i] = Whole[(Ahead + 1) + i - 1]
    <3>1. \A i \in (Ahead + 1)..n : Whole[i] \in Ranks BY <2>5, <2>7, <2>9
    <3> HIDE DEF n
    <3> QED BY <2>5, <2>8, <2>9, <3>1, SubSeqProperties
  <2>11. collected \in Seq(Objects) /\ Len(collected) \in Nat BY <2>1, LenProperties DEF TypeOK
  <2>12. /\ RanksOf(collected) = [i \in 1..Len(collected) |-> Rank[collected[i]]]
         /\ RanksOf(collected) \in [1..Len(collected) -> Ranks]
    <3>1. DOMAIN collected = 1..Len(collected) BY <2>11, LenProperties
    <3>2. \A i \in 1..Len(collected) : collected[i] \in Objects BY <2>11, ElementOfSeq
    <3> QED BY <3>1, <3>2, ObjectAssumption DEF RanksOf
  <2>13. RanksOf(collected) \in Seq(Ranks) /\ Len(RanksOf(collected)) = Len(collected)
    <3>1. RanksOf(collected) \in Seq(Ranks) BY <2>11, <2>12, SeqDef
    <3> QED BY <2>11, <2>12, <3>1, LenProperties
  <2> HIDE DEF n, Ranks, rest
  <2>14. CASE answer.code = 200
    <3>1. answer.remain <= 0 BY <1>1, <2>14 DEF IInv, ControlInv
    <3>2. Lesser(page * size, n) = n BY <2>2, <2>5, <2>9, <2>14, <3>1 DEF Lesser
    <3>3. /\ Len(collected) = n - Ahead
          /\ \A i \in 1..Len(collected) : Rank[collected[i]] = Whole[Ahead + i]
      BY <2>2, <2>14, <3>2 DEF CollectedTo
    <3>4. Len(rest) = n - Ahead BY <2>2, <2>5, <2>9, <2>10, <2>14
    <3>5. ASSUME NEW i \in 1..Len(collected) PROVE RanksOf(collected)[i] = rest[i]
      <4>1. i \in 1..(n - (Ahead + 1) + 1) /\ (Ahead + 1) + i - 1 = Ahead + i
        BY <2>5, <2>9, <3>3
      <4> QED BY <2>10, <2>12, <3>3, <4>1
    <3>6. RanksOf(collected) = rest BY <2>10, <2>13, <3>3, <3>4, <3>5, SeqEqual
    <3> QED BY <2>14, <3>6 DEF rest
  <2>15. CASE answer.code # 200
    <3>1. collected = <<>> /\ from # 1 /\ n <= Ahead BY <2>2, <2>15
    <3>2. Len(collected) = 0 BY <3>1, EmptySeq
    <3>3. Len(rest) = 0 BY <2>5, <2>9, <2>10, <3>1
    <3>4. RanksOf(collected) = rest BY <2>10, <2>13, <3>2, <3>3, SeqEqual
    <3> QED BY <3>1, <3>4 DEF rest
  <2> QED BY <2>14, <2>15
<1>2. IInv => WalkComplete BY <1>1 DEF WalkComplete, Whole, Ahead
<1> QED BY <1>2, Inductive, PTL

-----------------------------------------------------------------------------
(* The end of a walk. *)

\* What an answer says to remain can remain, of all the objects there are.
RestInv ==
    pc = "got" /\ Proper /\ answer.code = 200 =>
        answer.remain = 0 \/ page * size + answer.remain <= Cardinality(Objects)

LEMMA RestStep == TypeOK /\ RestInv /\ [Next]_vars => RestInv'
<1> SUFFICES ASSUME TypeOK, RestInv, [Next]_vars, pc' = "got", Proper', answer'.code = 200
             PROVE  answer'.remain = 0 \/ page' * size' + answer'.remain <= Cardinality(Objects)
  BY DEF RestInv
<1>1. CASE List
  <2>1. page' = page /\ size' = size /\ Proper BY <1>1 DEF List, Proper
  <2>2. Failure(400).code = 400 BY DEF Failure, NoAnswer
  <2>3. Sortable(matched) BY <1>1, <2>2, Unsortable
  <2>4. /\ size \in Nat /\ page \in Nat
        /\ Listed \in SUBSET Objects /\ Sortable(Listed)
    BY <1>1, <2>1, <2>3, ListShows
  <2>5. PICK s \in Orders(Listed) : IsPage(answer', s, page, size)
    BY <1>1, <2>1, <2>3, ListShows
  <2>6. Cardinality(Listed) \in Nat /\ Len(s) = Cardinality(Listed) BY <2>4, SameRanks
  <2>7. Cardinality(Listed) <= Cardinality(Objects) /\ Cardinality(Objects) \in Nat
    BY <2>4, ObjectAssumption, FS_Subset, FS_CardinalityType
  <2>8. answer'.remain = IF page * size < Len(s) THEN Len(s) - page * size ELSE 0
    BY <2>2, <2>5 DEF IsPage
  <2> DEFINE upto == page * size
  <2>9. upto \in Nat BY <2>4
  <2>10. answer'.remain = IF upto < Len(s) THEN Len(s) - upto ELSE 0 BY <2>8
  <2> HIDE DEF upto
  <2>11. answer'.remain = 0 \/ upto + answer'.remain <= Cardinality(Objects)
    BY <2>6, <2>7, <2>9, <2>10
  <2> QED BY <2>1, <2>11 DEF upto
<1>2. CASE ~List
  <2>1. pc = "got" /\ UNCHANGED <<page, size, answer>>
    BY <1>2 DEF Next, vars, Change, Begin, NextPage, End
  <2> QED BY <2>1 DEF RestInv, Proper
<1> QED BY <1>1, <1>2

\* However the store changes under a walk, the client asks for another page only while
\* the pages up to this one could not hold all the objects there are: the number of the
\* objects bounds that of the requests, which is what lets a walk end (proxy.go:302-324,
\* page.go:342-352).
THEOREM WalksAreBounded ==
    Spec => [][NextPage /\ Proper => page * size < Cardinality(Objects)]_vars
<1>1. Init => RestInv BY DEF Init, RestInv
<1>2. TypeOK /\ RestInv /\ [Next]_vars => RestInv' BY RestStep
<1>3. TypeOK /\ RestInv /\ [Next]_vars =>
          [NextPage /\ Proper => page * size < Cardinality(Objects)]_vars
  <2> SUFFICES ASSUME TypeOK, RestInv, NextPage, Proper
               PROVE  page * size < Cardinality(Objects)
    OBVIOUS
  <2>1. answer.remain > 0 /\ page * size + answer.remain <= Cardinality(Objects)
    BY DEF NextPage, RestInv
  <2>2. answer.remain \in Int BY NumberAssumption DEF TypeOK, Range64
  <2>3. size \in Nat /\ page \in Nat BY SizesAndPages
  <2> DEFINE upto == page * size
  <2>4. upto \in Nat /\ upto + answer.remain <= Cardinality(Objects) BY <2>1, <2>3
  <2>5. Cardinality(Objects) \in Nat BY ObjectAssumption, FS_CardinalityType
  <2> HIDE DEF upto
  <2>6. upto < Cardinality(Objects) BY <2>1, <2>2, <2>4, <2>5
  <2> QED BY <2>6 DEF upto
<1> QED BY <1>1, <1>2, <1>3, TypeCorrect, PTL DEF Spec
=============================================================================
