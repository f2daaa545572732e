---------------------------- MODULE Search_proof ----------------------------
(***************************************************************************)
(* Proofs about Search and LabelCodec for any parts and selectors, any     *)
(* number of them and of calls, and any sizes of the codec: the typing,    *)
(* that the page arrives as it was sent (QueryArrives), and that no        *)
(* sequence of calls loses anything of a search (SearchKept).              *)
(*                                                                         *)
(* They rest on two round trips.  Offsets that are printed with as many    *)
(* digits sort as numbers (DigitsOrder), so that merging puts the parts of *)
(* a value back in their order (ValueArrives).  And a search that is       *)
(* joined from parts which are not empty and do not begin with the         *)
(* separator is split into the same parts (RoundTrip).                     *)
(***************************************************************************)
EXTENDS Search, DataLemmas, FiniteSetTheorems

-----------------------------------------------------------------------------
(* Printing. *)

\* q is n divided by Base again and again.
Quotients(q, n, bound) == q[0] = n /\ \A i \in 1..bound : q[i] = q[i - 1] \div Base

DigitsAt(q, k) == [j \in 1..k |-> q[k - j] % Base]

\* DigitsOf(n, least) has k digits.
PrintedBy(q, n, least, k) ==
    /\ Quotients(q, n, least + n)
    /\ q[k] = 0 /\ (k = least \/ q[k - 1] # 0)
    /\ DigitsOf(n, least) = DigitsAt(q, k)

LEMMA Division ==
    /\ \A n \in Nat : n \div Base \in Nat /\ n % Base \in 0..(Base - 1)
    /\ \A n \in Nat \ {0} : n \div Base <= n - 1
    /\ \A m, n \in Nat : m <= n => m \div Base <= n \div Base
    /\ \A m, n \in Nat : m < n /\ m \div Base = n \div Base => m % Base < n % Base
<1>1. Base \in Nat /\ Base >= 2 BY CodecAssumption
<1>2. \A n \in Nat : n \div Base \in Nat /\ n % Base \in 0..(Base - 1) BY <1>1
<1>3. \A n \in Nat : n = Base * (n \div Base) + (n % Base) BY <1>1
<1>4. ASSUME NEW n \in Nat \ {0} PROVE n \div Base <= n - 1
  <2> DEFINE d == n \div Base
             r == n % Base
  <2>1. d \in Nat /\ r \in Nat /\ n = Base * d + r BY <1>2, <1>3
  <2> HIDE DEF d, r
  <2>2. d = 0 \/ 2 * d <= Base * d BY <1>1, <2>1
  <2>3. Base * d \in Nat BY <1>1, <2>1
  <2>4. d <= n - 1 BY <2>1, <2>2, <2>3
  <2> QED BY <2>4 DEF d
<1>5. ASSUME NEW m \in Nat, NEW n \in Nat, m <= n PROVE m \div Base <= n \div Base
  BY <1>1, <1>5
<1>6. ASSUME NEW m \in Nat, NEW n \in Nat, m < n, m \div Base = n \div Base
      PROVE  m % Base < n % Base
  <2> DEFINE d == n \div Base
             e == Base * d
  <2>1. d \in Nat /\ n = Base * d + (n % Base) /\ m = Base * d + (m % Base) BY <1>2, <1>3, <1>6
  <2>2. n % Base \in Nat /\ m % Base \in Nat BY <1>2
  <2>3. e \in Nat BY <1>1, <2>1
  <2>4. n = e + (n % Base) /\ m = e + (m % Base) BY <2>1
  <2> HIDE DEF e
  <2> QED BY <1>6, <2>2, <2>3, <2>4
<1> QED BY <1>2, <1>4, <1>5, <1>6

\* The digits are what the recursion says.
LEMMA Printing ==
    ASSUME NEW n \in Nat, NEW least \in Nat
    PROVE  \E q \in [0..(least + n) -> Nat] : \E k \in least..(least + n) :
               PrintedBy(q, n, least, k)
<1> DEFINE top == least + n
           Loop(f) == f = [i \in 0..top |-> IF i = 0 THEN n ELSE f[i - 1] \div Base]
           quotient == CHOOSE f : Loop(f)
           k == CHOOSE k \in least..top : quotient[k] = 0 /\ (k = least \/ quotient[k - 1] # 0)
           step == [i \in 1..top |-> [a \in Nat |-> a \div Base]]
<1>1. top \in Nat OBVIOUS
<1>2. step \in [1..top -> [Nat -> Nat]] BY Division
<1>3. \A i \in 1..top : \A a \in Nat : step[i][a] = a \div Base OBVIOUS
<1>4. DigitsOf(n, least) = [j \in 1..k |-> quotient[k - j] % Base] BY Zenon DEF DigitsOf
<1> HIDE DEF step
<1>5. PICK f \in [0..top -> Nat] : Follows(f, top, n, step) BY <1>1, <1>2, Recursion, Zenon
<1>6. ASSUME NEW i \in 1..top PROVE f[i] = f[i - 1] \div Base
  <2>1. i - 1 \in 0..top BY <1>1
  <2> QED BY <1>3, <1>5, <2>1 DEF Follows
<1>7. Loop(f)
  <2>1. DOMAIN f = 0..top BY <1>5
  <2>2. \A i \in 0..top : i = 0 \/ (i # 0 /\ i \in 1..top) BY <1>1
  <2> HIDE DEF top
  <2> QED BY <1>5, <1>6, <2>1, <2>2 DEF Follows
<1> HIDE DEF Loop, quotient
<1>8. Loop(quotient) BY <1>7, Zenon DEF quotient
<1>9. quotient[0] = n BY <1>1, <1>8 DEF Loop
<1>10. ASSUME NEW i \in 1..top PROVE quotient[i] = quotient[i - 1] \div Base
  <2>1. i \in 0..top /\ i # 0 BY <1>1
  <2> HIDE DEF top
  <2> QED BY <1>8, <2>1, Zenon DEF Loop
<1>11. quotient \in [0..top -> Nat]
  <2>1. quotient = [i \in 0..top |-> quotient[i]] BY <1>8, Zenon DEF Loop
  <2>2. ASSUME NEW i \in 1..top, quotient[i - 1] \in Nat PROVE quotient[i] \in Nat
    BY <1>10, <2>2, Division
  <2> HIDE DEF top
  <2> QED BY <1>1, <1>9, <2>1, <2>2, RecursionType
<1>12. ASSUME NEW i \in 0..top PROVE quotient[i] = 0 \/ quotient[i] <= n - i
  <2> DEFINE T == {j \in 0..top : quotient[j] = 0 \/ quotient[j] <= n - j}
  <2>1. 0 \in T BY <1>1, <1>9
  <2>2. ASSUME NEW j \in 1..top, j - 1 \in T PROVE j \in T
    <3>1. j \in 0..top /\ j - 1 \in 0..top /\ quotient[j - 1] \in Nat BY <1>1, <1>11
    <3>2. quotient[j] = quotient[j - 1] \div Base BY <1>10
    <3>3. CASE quotient[j - 1] = 0
      <4>1. quotient[j] = 0 BY <3>2, <3>3, CodecAssumption
      <4> QED BY <3>1, <4>1
    <3>4. CASE quotient[j - 1] # 0
      <4>1. quotient[j - 1] <= n - (j - 1) BY <2>2, <3>4
      <4>2. quotient[j] \in Nat /\ quotient[j] <= quotient[j - 1] - 1 BY <3>1, <3>2, <3>4, Division
      <4>3. quotient[j] <= n - j BY <3>1, <4>1, <4>2
      <4> QED BY <3>1, <4>3
    <3> QED BY <3>3, <3>4
  <2> HIDE DEF T, top
  <2>3. 0..top \subseteq T BY <1>1, <2>1, <2>2, BoundedInduction
  <2> QED BY <2>3 DEF T
<1>13. quotient[top] = 0
  <2>1. top \in 0..top BY <1>1
  <2>2. quotient[top] \in Nat BY <1>11, <2>1
  <2> QED BY <1>12, <2>1, <2>2
<1> DEFINE K == {i \in least..top : quotient[i] = 0}
<1>14. PICK l \in K : \A i \in K : l <= i
  <2>1. K \subseteq Nat /\ top \in K BY <1>1, <1>13
  <2> HIDE DEF K
  <2> QED BY <2>1, LeastNat
<1>15. l = least \/ quotient[l - 1] # 0
  <2>1. l \in Nat /\ ~(l <= l - 1) /\ l \in least..top BY <1>1
  <2>2. l - 1 \notin K BY <1>14, <2>1
  <2>3. l # least => l - 1 \in least..top BY <1>1, <2>1
  <2> QED BY <2>2, <2>3
<1>16. k \in least..top /\ quotient[k] = 0 /\ (k = least \/ quotient[k - 1] # 0)
  <2>1. l \in least..top /\ quotient[l] = 0 OBVIOUS
  <2> HIDE DEF top
  <2> QED BY <1>15, <2>1, Zenon
<1> HIDE DEF k
<1>17. PrintedBy(quotient, n, least, k)
  BY <1>4, <1>9, <1>10, <1>16 DEF PrintedBy, Quotients, DigitsAt
<1> QED BY <1>11, <1>16, <1>17

LEMMA ZeroStays ==
    ASSUME NEW n \in Nat, NEW b \in Nat, NEW q \in [0..b -> Nat], Quotients(q, n, b),
           NEW k \in 0..b, q[k] = 0, NEW i \in k..b
    PROVE  q[i] = 0
<1> DEFINE T == {j \in 0..b : j >= k => q[j] = 0}
<1>1. 0 \in T
  <2>1. 0 >= k => k = 0 OBVIOUS
  <2> QED BY <2>1
<1>2. ASSUME NEW j \in 1..b, j - 1 \in T PROVE j \in T
  <2>1. j \in 0..b /\ j - 1 \in 0..b OBVIOUS
  <2>2. CASE j > k
    <3>1. j - 1 >= k BY <2>1, <2>2
    <3>2. q[j - 1] = 0 BY <1>2, <3>1
    <3>3. q[j] = 0 BY <3>2, CodecAssumption DEF Quotients
    <3> QED BY <2>1, <3>3
  <2>3. CASE j = k BY <2>1, <2>3
  <2>4. CASE j < k BY <2>1, <2>4
  <2> QED BY <2>1, <2>2, <2>3, <2>4
<1> HIDE DEF T
<1>3. 0..b \subseteq T BY <1>1, <1>2, BoundedInduction
<1> QED BY <1>3 DEF T

LEMMA QuotientOrder ==
    ASSUME NEW m \in Nat, NEW n \in Nat, m <= n, NEW a \in Nat, NEW b \in Nat,
           NEW p \in [0..a -> Nat], Quotients(p, m, a),
           NEW q \in [0..b -> Nat], Quotients(q, n, b),
           NEW i \in Nat, i <= a, i <= b
    PROVE  p[i] <= q[i]
<1> DEFINE T == {j \in 0..i : p[j] <= q[j]}
<1>1. 0 \in T BY DEF Quotients
<1>2. ASSUME NEW j \in 1..i, j - 1 \in T PROVE j \in T
  <2>1. /\ j \in 0..i /\ j \in 1..a /\ j \in 1..b
        /\ j - 1 \in 0..a /\ j - 1 \in 0..b
    OBVIOUS
  <2>2. p[j] = p[j - 1] \div Base /\ q[j] = q[j - 1] \div Base BY <2>1 DEF Quotients
  <2>3. p[j - 1] \in Nat /\ q[j - 1] \in Nat /\ p[j - 1] <= q[j - 1] BY <1>2, <2>1
  <2>4. p[j] <= q[j] BY <2>2, <2>3, Division
  <2> QED BY <2>1, <2>4
<1> HIDE DEF T
<1>3. 0..i \subseteq T BY <1>1, <1>2, BoundedInduction
<1>4. i \in 0..i OBVIOUS
<1> QED BY <1>3, <1>4 DEF T

\* Of two numbers with as many digits the less is before the other as a string.
LEMMA DigitsOrder ==
    ASSUME NEW m \in Nat, NEW n \in Nat, m < n, NEW a \in Nat, NEW b \in Nat,
           NEW p \in [0..a -> Nat], Quotients(p, m, a),
           NEW q \in [0..b -> Nat], Quotients(q, n, b),
           NEW k \in Nat, k <= a, k <= b, p[k] = 0, q[k] = 0
    PROVE  Before(DigitsAt(p, k), DigitsAt(q, k))
<1> DEFINE K == {i \in 0..k : p[i] = q[i]}
           c == DigitsAt(p, k)
           d == DigitsAt(q, k)
<1>1. PICK l \in K : \A i \in K : l <= i
  <2>1. k \in K /\ K \subseteq Nat OBVIOUS
  <2> HIDE DEF K
  <2> QED BY <2>1, LeastNat
<1>2. l \in 0..k /\ p[l] = q[l] OBVIOUS
<1>3. l # 0
  <2>1. 0 \in 0..a /\ 0 \in 0..b OBVIOUS
  <2> QED BY <1>2 DEF Quotients
<1>4. /\ l \in 1..k /\ l \in 1..a /\ l \in 1..b
      /\ l - 1 \in 0..k /\ l - 1 \in 0..a /\ l - 1 \in 0..b
  BY <1>2, <1>3
<1>5. p[l - 1] < q[l - 1]
  <2>1. l - 1 \notin K BY <1>1, <1>4
  <2>2. p[l - 1] # q[l - 1] BY <1>4, <2>1
  <2>3. p[l - 1] <= q[l - 1]
    <3>1. m <= n /\ l - 1 \in Nat /\ l - 1 <= a /\ l - 1 <= b BY <1>4
    <3> QED BY <3>1, QuotientOrder
  <2>4. p[l - 1] \in Nat /\ q[l - 1] \in Nat BY <1>4
  <2> QED BY <2>2, <2>3, <2>4
<1>6. p[l - 1] % Base < q[l - 1] % Base
  <2>1. p[l - 1] \in Nat /\ q[l - 1] \in Nat BY <1>4
  <2>2. p[l - 1] \div Base = q[l - 1] \div Base BY <1>2, <1>4 DEF Quotients
  <2> QED BY <1>5, <2>1, <2>2, Division
<1>7. ASSUME NEW i \in l..k PROVE p[i] = q[i]
  <2> DEFINE T == {j \in 0..k : j >= l => p[j] = q[j]}
  <2>1. 0 \in T BY <1>3, <1>4
  <2>2. ASSUME NEW j \in 1..k, j - 1 \in T PROVE j \in T
    <3>1. j \in 0..k /\ j \in 1..a /\ j \in 1..b OBVIOUS
    <3>2. CASE j > l
      <4>1. j - 1 >= l BY <3>1, <3>2, <1>4
      <4>2. p[j - 1] = q[j - 1] BY <2>2, <4>1
      <4>3. p[j] = q[j] BY <3>1, <4>2 DEF Quotients
      <4> QED BY <3>1, <4>3
    <3>3. CASE j = l BY <1>2, <3>1, <3>3
    <3>4. CASE j < l BY <1>4, <3>1, <3>4
    <3> QED BY <1>4, <3>1, <3>2, <3>3, <3>4
  <2> HIDE DEF T
  <2>3. 0..k \subseteq T BY <2>1, <2>2, BoundedInduction
  <2>4. i \in 0..k /\ i >= l BY <1>4
  <2> QED BY <2>3, <2>4 DEF T
<1>8. /\ Len(c) = k /\ Len(d) = k
      /\ \A j \in 1..k : c[j] = p[k - j] % Base /\ d[j] = q[k - j] % Base
  BY DEF DigitsAt
<1> HIDE DEF c, d, K
<1> DEFINE at == k - l + 1
<1>9. at \in 1..k /\ k - at = l - 1 BY <1>4
<1> HIDE DEF at
<1>10. c[at] < d[at] BY <1>6, <1>8, <1>9
<1>11. ASSUME NEW j \in 1..(at - 1) PROVE j <= Len(c) /\ c[j] = d[j]
  <2>1. j \in 1..k /\ k - j \in l..k BY <1>4, <1>9
  <2>2. p[k - j] = q[k - j] BY <1>7, <2>1
  <2> QED BY <1>8, <2>1, <2>2
<1>12. Before(c, d)
  <2>1. at \in 1..Len(d) BY <1>8, <1>9
  <2> QED BY <1>10, <1>11, <2>1 DEF Before
<1> QED BY <1>12 DEF c, d

\* A string of digits.
Digital(a) == a \in Seq(0..(Base - 1))

LEMMA PrintedIsDigital ==
    ASSUME NEW n \in Nat
    PROVE  Digital(Printed(n)) /\ Len(Printed(n)) >= Digits
<1>1. Digits \in Nat BY CodecAssumption
<1>2. PICK q \in [0..(Digits + n) -> Nat], k \in Digits..(Digits + n) : PrintedBy(q, n, Digits, k)
  BY <1>1, Printing
<1>3. Printed(n) = [j \in 1..k |-> q[k - j] % Base] BY <1>2 DEF Printed, PrintedBy, DigitsAt
<1>4. ASSUME NEW j \in 1..k PROVE q[k - j] % Base \in 0..(Base - 1)
  <2>1. k - j \in 0..(Digits + n) BY <1>1
  <2>2. q[k - j] \in Nat BY <2>1
  <2> QED BY <2>2, Division
<1>5. k \in Nat BY <1>1
<1>6. Printed(n) \in [1..k -> 0..(Base - 1)] BY <1>3, <1>4
<1>7. Printed(n) \in Seq(0..(Base - 1)) /\ Len(Printed(n)) = k BY <1>3, <1>5, <1>6
<1> QED BY <1>1, <1>7 DEF Digital

\* Greater numbers have no fewer digits, and the less of two with as many is before
\* the other.
LEMMA PrintedOrder ==
    ASSUME NEW m \in Nat, NEW n \in Nat, m < n
    PROVE  /\ Len(Printed(m)) <= Len(Printed(n))
           /\ Len(Printed(m)) = Len(Printed(n)) => Before(Printed(m), Printed(n))
<1>1. Digits \in Nat BY CodecAssumption
<1> DEFINE a == Digits + m
           b == Digits + n
<1>2. a \in Nat /\ b \in Nat /\ a < b BY <1>1
<1>3. PICK p \in [0..a -> Nat], k \in Digits..a : PrintedBy(p, m, Digits, k) BY <1>1, Printing
<1>4. PICK q \in [0..b -> Nat], l \in Digits..b : PrintedBy(q, n, Digits, l) BY <1>1, Printing
<1> HIDE DEF a, b
<1>5. /\ Quotients(p, m, a) /\ p[k] = 0 /\ (k = Digits \/ p[k - 1] # 0)
      /\ Printed(m) = DigitsAt(p, k)
  BY <1>3 DEF PrintedBy, Printed, a
<1>6. /\ Quotients(q, n, b) /\ q[l] = 0 /\ Printed(n) = DigitsAt(q, l)
  BY <1>4 DEF PrintedBy, Printed, b
<1>7. k \in Nat /\ l \in Nat /\ k <= a /\ l <= b /\ Digits <= k /\ Digits <= l BY <1>1, <1>2
<1>8. Len(Printed(m)) = k /\ Len(Printed(n)) = l BY <1>5, <1>6, <1>7 DEF DigitsAt
<1>9. k <= l
  <2> SUFFICES ASSUME l < k PROVE FALSE BY <1>7
  <2>1. k - 1 \in Nat /\ k - 1 <= a /\ k - 1 <= b /\ k - 1 \in l..b /\ l \in 0..b BY <1>2, <1>7
  <2>2. p[k - 1] # 0 BY <1>5, <1>7
  <2>3. q[k - 1] = 0 BY <1>2, <1>6, <2>1, ZeroStays
  <2>4. p[k - 1] <= q[k - 1]
    <3>1. m <= n OBVIOUS
    <3> QED BY <1>2, <1>5, <1>6, <2>1, <3>1, QuotientOrder
  <2>5. p[k - 1] \in Nat BY <2>1
  <2> QED BY <2>2, <2>3, <2>4, <2>5
<1>10. ASSUME k = l PROVE Before(Printed(m), Printed(n))
  <2>1. k <= b /\ q[k] = 0 /\ Printed(n) = DigitsAt(q, k) BY <1>6, <1>7, <1>10
  <2>2. Before(DigitsAt(p, k), DigitsAt(q, k)) BY <1>2, <1>5, <1>6, <1>7, <2>1, DigitsOrder
  <2> QED BY <1>5, <2>1, <2>2
<1> QED BY <1>8, <1>9, <1>10

-----------------------------------------------------------------------------
(* The order of the offsets. *)

LEMMA BeforeIrreflexive ==
    ASSUME NEW a, Digital(a)
    PROVE  ~Before(a, a)
<1> SUFFICES ASSUME NEW i \in 1..Len(a), i > Len(a) \/ a[i] < a[i] PROVE FALSE
  BY DEF Before
<1>1. Len(a) \in Nat /\ a[i] \in 0..(Base - 1) BY LenProperties, ElementOfSeq DEF Digital
<1> QED BY <1>1, CodecAssumption

LEMMA BeforeTransitive ==
    ASSUME NEW a, Digital(a), NEW b, Digital(b), NEW c, Digital(c), Before(a, b), Before(b, c)
    PROVE  Before(a, c)
<1>1. /\ Len(a) \in Nat /\ \A i \in 1..Len(a) : a[i] \in Int
      /\ Len(b) \in Nat /\ \A i \in 1..Len(b) : b[i] \in Int
      /\ Len(c) \in Nat /\ \A i \in 1..Len(c) : c[i] \in Int
  <2>1. 0..(Base - 1) \subseteq Int OBVIOUS
  <2> QED BY <2>1, LenProperties, ElementOfSeq DEF Digital
<1>2. PICK i \in 1..Len(b) : /\ \A j \in 1..(i - 1) : j <= Len(a) /\ a[j] = b[j]
                             /\ i > Len(a) \/ a[i] < b[i]
  BY DEF Before
<1>3. PICK k \in 1..Len(c) : /\ \A j \in 1..(k - 1) : j <= Len(b) /\ b[j] = c[j]
                             /\ k > Len(b) \/ b[k] < c[k]
  BY DEF Before
<1>4. CASE i < k
  <2>1. i \in 1..(k - 1) /\ i \in 1..Len(c) BY <1>1, <1>4
  <2>2. i > Len(a) \/ a[i] < c[i] BY <1>2, <1>3, <2>1
  <2>3. ASSUME NEW j \in 1..(i - 1) PROVE j <= Len(a) /\ a[j] = c[j]
    <3>1. j \in 1..(k - 1) BY <1>1, <1>4
    <3> QED BY <1>2, <1>3, <3>1
  <2> QED BY <2>1, <2>2, <2>3 DEF Before
<1>5. CASE i = k
  <2>1. i > Len(a) \/ a[i] < c[i]
    <3> SUFFICES ASSUME ~(i > Len(a)) PROVE a[i] < c[i] OBVIOUS
    <3>1. i \in 1..Len(a) /\ i \in 1..Len(b) /\ i \in 1..Len(c) BY <1>1, <1>5
    <3>2. a[i] < b[i] /\ b[i] < c[i] BY <1>1, <1>2, <1>3, <1>5, <3>1
    <3>3. a[i] \in Int /\ b[i] \in Int /\ c[i] \in Int BY <1>1, <3>1
    <3> QED BY <3>2, <3>3
  <2> QED BY <1>2, <1>3, <1>5, <2>1 DEF Before
<1>6. CASE k < i
  <2>1. k \in 1..(i - 1) /\ k \in 1..Len(b) BY <1>1, <1>6
  <2>2. a[k] < c[k] BY <1>1, <1>2, <1>3, <2>1
  <2>3. ASSUME NEW j \in 1..(k - 1) PROVE j <= Len(a) /\ a[j] = c[j]
    <3>1. j \in 1..(i - 1) BY <1>1, <1>6
    <3> QED BY <1>2, <1>3, <3>1
  <2> QED BY <2>2, <2>3 DEF Before
<1>7. i \in Int /\ k \in Int BY <1>1
<1> QED BY <1>4, <1>5, <1>6, <1>7

LEMMA BeforeTotal ==
    ASSUME NEW a, Digital(a), NEW b, Digital(b), a # b
    PROVE  Before(a, b) \/ Before(b, a)
<1>1. /\ Len(a) \in Nat /\ \A i \in 1..Len(a) : a[i] \in Int
      /\ Len(b) \in Nat /\ \A i \in 1..Len(b) : b[i] \in Int
  <2>1. 0..(Base - 1) \subseteq Int OBVIOUS
  <2> QED BY <2>1, LenProperties, ElementOfSeq DEF Digital
<1> DEFINE K == {i \in 1..(Len(a) + 1) : i > Len(a) \/ i > Len(b) \/ a[i] # b[i]}
<1>2. PICK l \in K : \A i \in K : l <= i
  <2>1. Len(a) + 1 \in K /\ K \subseteq Nat BY <1>1
  <2> HIDE DEF K
  <2> QED BY <2>1, LeastNat
<1>3. l \in 1..(Len(a) + 1) /\ (l > Len(a) \/ l > Len(b) \/ a[l] # b[l]) OBVIOUS
<1>4. ASSUME NEW j \in 1..(l - 1) PROVE j <= Len(a) /\ j <= Len(b) /\ a[j] = b[j]
  <2>1. j \notin K BY <1>1, <1>2, <1>3
  <2>2. j \in 1..(Len(a) + 1) BY <1>1, <1>3
  <2> QED BY <1>1, <2>1, <2>2
<1> HIDE DEF K
<1>5. CASE l \in 1..Len(a) /\ l \in 1..Len(b)
  <2>1. a[l] < b[l] \/ b[l] < a[l] BY <1>1, <1>3, <1>5
  <2> QED BY <1>4, <1>5, <2>1 DEF Before
<1>6. CASE l > Len(a) /\ l \in 1..Len(b) BY <1>4, <1>6 DEF Before
<1>7. CASE l \in 1..Len(a) /\ l > Len(b) BY <1>4, <1>7 DEF Before
<1>8. CASE l > Len(a) /\ l > Len(b)
  <2>1. l = Len(a) + 1 BY <1>1, <1>3, <1>8
  <2>2. Len(a) <= Len(b)
    <3>1. CASE Len(a) = 0 BY <1>1, <3>1
    <3>2. CASE Len(a) # 0
      <4>1. Len(a) \in 1..(l - 1) BY <1>1, <2>1, <3>2
      <4> QED BY <1>4, <4>1
    <3> QED BY <3>1, <3>2
  <2>3. Len(a) = Len(b) BY <1>1, <1>8, <2>1, <2>2
  <2>4. \A j \in 1..Len(a) : a[j] = b[j] BY <1>1, <1>4, <2>1
  <2>5. a = b BY <2>3, <2>4, SeqEqual DEF Digital
  <2> QED BY <2>5
<1>9. (l \in 1..Len(a) \/ l > Len(a)) /\ (l \in 1..Len(b) \/ l > Len(b)) BY <1>1, <1>3
<1> QED BY <1>5, <1>6, <1>7, <1>8, <1>9

\* No two offsets are printed alike.
LEMMA PrintedApart ==
    ASSUME NEW m \in Nat, NEW n \in Nat, m # n
    PROVE  Printed(m) # Printed(n)
<1>1. CASE m < n
  <2> SUFFICES ASSUME Printed(m) = Printed(n) PROVE FALSE OBVIOUS
  <2>1. Before(Printed(m), Printed(n)) BY <1>1, PrintedOrder
  <2> QED BY <2>1, PrintedIsDigital, BeforeIrreflexive
<1>2. CASE n < m
  <2> SUFFICES ASSUME Printed(m) = Printed(n) PROVE FALSE OBVIOUS
  <2>1. Before(Printed(n), Printed(m)) BY <1>2, PrintedOrder
  <2> QED BY <2>1, PrintedIsDigital, BeforeIrreflexive
<1> QED BY <1>1, <1>2

\* The place of a value among the sorted ones, and the value at a place.
Place(values, v) == 1 + Cardinality({w \in values : Before(w.at, v.at)})
ValueAt(values, i) == CHOOSE v \in values : Place(values, v) = i
TextsOf(values) == [i \in 1..Cardinality(values) |-> ValueAt(values, i).text]

LEMMA MergesTexts ==
    ASSUME NEW values
    PROVE  MergeValues(values) = FlattenSeq(TextsOf(values))
<1> DEFINE sorted == [i \in 1..Cardinality(values) |-> ValueAt(values, i)]
<1>1. MergeValues(values) = FlattenSeq([i \in DOMAIN sorted |-> sorted[i].text])
  BY Zenon DEF MergeValues, ValueAt, Place
<1>2. [i \in DOMAIN sorted |-> sorted[i].text] = TextsOf(values) BY DEF TextsOf
<1> QED BY <1>1, <1>2

\* Values with different offsets.
Sortables(values) ==
    /\ IsFiniteSet(values)
    /\ \A v \in values : Digital(v.at)
    /\ \A v, w \in values : v # w => v.at # w.at

LEMMA EveryPlaceIsTaken ==
    ASSUME NEW values, Sortables(values), NEW i \in 1..Cardinality(values)
    PROVE  ValueAt(values, i) \in values /\ Place(values, ValueAt(values, i)) = i
<1> DEFINE Earlier(v) == {w \in values : Before(w.at, v.at)}
           f == [v \in values |-> Place(values, v)]
           n == Cardinality(values)
<1>1. n \in Nat BY FS_CardinalityType DEF Sortables
<1>2. ASSUME NEW v \in values
      PROVE  /\ IsFiniteSet(Earlier(v)) /\ Cardinality(Earlier(v)) \in Nat
             /\ Cardinality(Earlier(v)) < n
  <2>1. Earlier(v) \in SUBSET values /\ v \notin Earlier(v) BY BeforeIrreflexive DEF Sortables
  <2> HIDE DEF Earlier
  <2>2. /\ IsFiniteSet(Earlier(v)) /\ Cardinality(Earlier(v)) <= n
        /\ n = Cardinality(Earlier(v)) => values = Earlier(v)
    BY <2>1, FS_Subset DEF Sortables
  <2>3. Cardinality(Earlier(v)) \in Nat BY <2>2, FS_CardinalityType
  <2> QED BY <1>1, <2>1, <2>2, <2>3
<1>3. ASSUME NEW v \in values, NEW w \in values, Before(v.at, w.at)
      PROVE  Cardinality(Earlier(v)) < Cardinality(Earlier(w))
  <2>1. Earlier(v) \subseteq Earlier(w) BY <1>3, BeforeTransitive DEF Sortables
  <2>2. v \in Earlier(w) /\ v \notin Earlier(v) BY <1>3, BeforeIrreflexive DEF Sortables
  <2>3. IsFiniteSet(Earlier(w)) /\ Cardinality(Earlier(w)) \in Nat
        /\ Cardinality(Earlier(v)) \in Nat
    BY <1>2
  <2> HIDE DEF Earlier
  <2>4. /\ Cardinality(Earlier(v)) <= Cardinality(Earlier(w))
        /\ Cardinality(Earlier(w)) = Cardinality(Earlier(v)) => Earlier(w) = Earlier(v)
    BY <2>1, <2>3, FS_Subset
  <2> QED BY <2>2, <2>3, <2>4
<1>4. \A v \in values : f[v] = 1 + Cardinality(Earlier(v)) BY DEF Place
<1>5. f \in [values -> 1..n]
  <2>1. ASSUME NEW v \in values PROVE Place(values, v) \in 1..n
    <3>1. Place(values, v) = 1 + Cardinality(Earlier(v)) BY DEF Place
    <3> HIDE DEF Earlier, n
    <3> QED BY <1>1, <1>2, <3>1
  <2> QED BY <2>1
<1>6. ASSUME NEW v \in values, NEW w \in values, v # w PROVE f[v] # f[w]
  <2>1. Before(v.at, w.at) \/ Before(w.at, v.at) BY <1>6, BeforeTotal DEF Sortables
  <2>2. Cardinality(Earlier(v)) \in Nat /\ Cardinality(Earlier(w)) \in Nat BY <1>2
  <2>3. Cardinality(Earlier(v)) # Cardinality(Earlier(w)) BY <1>3, <2>1, <2>2
  <2> HIDE DEF Earlier, f
  <2> QED BY <1>4, <2>2, <2>3
<1> HIDE DEF f, Earlier
<1>7. f \in Injection(values, 1..n) BY <1>5, <1>6 DEF Injection, IsInjective
<1>8. IsFiniteSet(1..n) /\ Cardinality(1..n) = n BY <1>1, FS_Interval
<1>9. f \in Surjection(values, 1..n) BY <1>7, <1>8, FS_Injection
<1>10. PICK v \in values : f[v] = i BY <1>9 DEF Surjection
<1>11. Place(values, v) = i BY <1>10 DEF f
<1> QED BY <1>11, Zenon DEF ValueAt

-----------------------------------------------------------------------------
(* Splitting and merging. *)

PartAt(value, k) ==
    [at |-> Printed(PartLen * k),
     text |-> SubSeq(value, PartLen * k + 1, Smaller(PartLen * (k + 1), Len(value)))]

LEMMA PartNumbers ==
    ASSUME NEW n \in Nat, n > PartLen
    PROVE  /\ (n - 1) \div PartLen \in Nat
           /\ PartLen * ((n - 1) \div PartLen + 1) >= n
           /\ \A k \in 0..((n - 1) \div PartLen) :
                 /\ PartLen * k \in Nat /\ PartLen * k < n
                 /\ PartLen * (k + 1) = PartLen * k + PartLen
<1>1. PartLen \in Nat /\ PartLen >= 1 BY CodecAssumption
<1> DEFINE d == (n - 1) \div PartLen
<1>2. n - 1 \in Nat BY <1>1
<1>3. d \in Nat /\ PartLen * d <= n - 1 /\ PartLen * d + PartLen > n - 1 BY <1>1, <1>2
<1> HIDE DEF d
<1>4. PartLen * (d + 1) >= n
  <2>1. PartLen * (d + 1) = PartLen * d + PartLen BY <1>1, <1>3
  <2>2. PartLen * d \in Nat BY <1>1, <1>3
  <2> QED BY <1>1, <1>3, <2>1, <2>2
<1>5. ASSUME NEW k \in 0..d
      PROVE  /\ PartLen * k \in Nat /\ PartLen * k < n
             /\ PartLen * (k + 1) = PartLen * k + PartLen
  <2>1. k \in Nat /\ k <= d BY <1>3
  <2>2. PartLen * k <= PartLen * d BY <1>1, <1>3, <2>1
  <2>3. PartLen * k \in Nat /\ PartLen * d \in Nat BY <1>1, <1>3, <2>1
  <2>4. PartLen * (k + 1) = PartLen * k + PartLen BY <1>1, <2>1
  <2> QED BY <1>2, <1>3, <2>2, <2>3, <2>4
<1> QED BY <1>3, <1>4, <1>5 DEF d

LEMMA SplitParts ==
    ASSUME NEW X, NEW value \in Seq(X), Len(value) > PartLen
    PROVE  /\ LastPart(value) \in Nat
           /\ SplittingValue(value) = {PartAt(value, k) : k \in 0..LastPart(value)}
           /\ \A k \in 0..LastPart(value) :
                 /\ PartAt(value, k).text \in Seq(X)
                 /\ PartAt(value, k).at = Printed(PartLen * k)
                 /\ Digital(PartAt(value, k).at)
           /\ \A j, k \in 0..LastPart(value) :
                 j # k => PartAt(value, j).at # PartAt(value, k).at
           /\ IsFiniteSet(SplittingValue(value))
           /\ Cardinality(SplittingValue(value)) = LastPart(value) + 1
<1>1. Len(value) \in Nat /\ PartLen \in Nat /\ PartLen >= 1
  BY LenProperties, CodecAssumption
<1> DEFINE last == LastPart(value)
<1>2. last = (Len(value) - 1) \div PartLen BY DEF LastPart
<1> HIDE DEF last
<1>3. last \in Nat /\ \A k \in 0..last : PartLen * k \in Nat BY <1>1, <1>2, PartNumbers
<1>4. SplittingValue(value) = {PartAt(value, k) : k \in 0..last}
  BY <1>1 DEF SplittingValue, PartAt, last
<1>5. ASSUME NEW k \in 0..last
      PROVE  /\ PartAt(value, k).text \in Seq(X)
             /\ PartAt(value, k).at = Printed(PartLen * k)
             /\ Digital(PartAt(value, k).at)
  <2> DEFINE from == PartLen * k + 1
             to == Smaller(PartLen * (k + 1), Len(value))
  <2>1. PartAt(value, k).text = SubSeq(value, from, to) BY DEF PartAt
  <2>2. PartAt(value, k).at = Printed(PartLen * k) BY DEF PartAt
  <2>3. PartLen * k \in Nat /\ PartLen * (k + 1) = PartLen * k + PartLen
    BY <1>1, <1>2, PartNumbers
  <2>4. from \in Int /\ from >= 1 /\ to \in Int /\ to <= Len(value)
    BY <1>1, <2>3 DEF Smaller
  <2> HIDE DEF from, to
  <2>5. \A i \in from..to : value[i] \in X
    <3>1. \A i \in from..to : i \in 1..Len(value) BY <1>1, <2>4
    <3> QED BY <3>1, ElementOfSeq
  <2>6. SubSeq(value, from, to) \in Seq(X) BY <2>4, <2>5, SubSeqProperties
  <2> QED BY <2>1, <2>2, <2>3, <2>6, PrintedIsDigital
<1>6. ASSUME NEW j \in 0..last, NEW k \in 0..last, j # k
      PROVE  PartAt(value, j).at # PartAt(value, k).at
  <2>1. PartLen * j \in Nat /\ PartLen * k \in Nat BY <1>3
  <2>2. j \in Nat /\ k \in Nat BY <1>3
  <2>3. PartLen * j # PartLen * k BY <1>1, <1>6, <2>2
  <2>4. Printed(PartLen * j) # Printed(PartLen * k) BY <2>1, <2>3, PrintedApart
  <2> QED BY <1>5, <2>4
<1>7. IsFiniteSet(SplittingValue(value)) /\ Cardinality(SplittingValue(value)) = last + 1
  <2> DEFINE f == [k \in 0..last |-> PartAt(value, k)]
  <2>1. IsFiniteSet(0..last) /\ Cardinality(0..last) = last + 1 BY <1>3, FS_Interval
  <2>2. f \in [0..last -> SplittingValue(value)] BY <1>4
  <2>3. \A j, k \in 0..last : j # k => f[j] # f[k] BY <1>6
  <2>4. \A v \in SplittingValue(value) : \E k \in 0..last : f[k] = v BY <1>4
  <2> HIDE DEF f
  <2>5. f \in Injection(0..last, SplittingValue(value)) BY <2>2, <2>3 DEF Injection, IsInjective
  <2>6. f \in Surjection(0..last, SplittingValue(value)) BY <2>2, <2>4 DEF Surjection
  <2>7. ExistsBijection(0..last, SplittingValue(value))
    BY <2>5, <2>6 DEF ExistsBijection, Bijection
  <2> QED BY <2>1, <2>7, FS_Bijection
<1> QED BY <1>3, <1>4, <1>5, <1>6, <1>7 DEF last

\* The values of a search that is not split.
LEMMA OneValue ==
    ASSUME NEW X, NEW value \in Seq(X), Len(value) <= PartLen
    PROVE  /\ SplittingValue(value) = {[at |-> <<>>, text |-> value]}
           /\ Sortables(SplittingValue(value))
           /\ Cardinality(SplittingValue(value)) = 1
<1> DEFINE v == [at |-> <<>>, text |-> value]
<1>1. SplittingValue(value) = {v} BY DEF SplittingValue
<1>2. v.at = <<>> /\ Digital(<<>>) BY EmptySeq DEF Digital
<1> HIDE DEF v
<1>3. IsFiniteSet({v}) /\ Cardinality({v}) = 1 BY FS_Singleton
<1>4. Sortables({v}) BY <1>2, <1>3 DEF Sortables
<1> QED BY <1>1, <1>3, <1>4 DEF v

LEMMA SplitIsSortable ==
    ASSUME NEW X, NEW value \in Seq(X)
    PROVE  /\ Sortables(SplittingValue(value))
           /\ \A v \in SplittingValue(value) : v.text \in Seq(X)
<1>1. CASE Len(value) <= PartLen
  <2>1. SplittingValue(value) = {[at |-> <<>>, text |-> value]} BY <1>1, OneValue
  <2>2. Sortables(SplittingValue(value)) BY <1>1, OneValue
  <2>3. \A v \in SplittingValue(value) : v.text \in Seq(X) BY <2>1
  <2> QED BY <2>2, <2>3
<1>2. CASE Len(value) > PartLen
  <2>1. Sortables(SplittingValue(value)) BY <1>2, SplitParts DEF Sortables
  <2> QED BY <1>2, <2>1, SplitParts
<1>3. Len(value) \in Nat /\ PartLen \in Nat BY LenProperties, CodecAssumption
<1> QED BY <1>1, <1>2, <1>3

LEMMA TextsType ==
    ASSUME NEW X, NEW values, Sortables(values), \A v \in values : v.text \in Seq(X)
    PROVE  TextsOf(values) \in Seq(Seq(X)) /\ Len(TextsOf(values)) = Cardinality(values)
<1>1. Cardinality(values) \in Nat BY FS_CardinalityType DEF Sortables
<1>2. \A i \in 1..Cardinality(values) : ValueAt(values, i).text \in Seq(X)
  BY EveryPlaceIsTaken
<1> HIDE DEF Sortables
<1>3. TextsOf(values) \in [1..Cardinality(values) -> Seq(X)] BY <1>2 DEF TextsOf
<1> QED BY <1>1, <1>3

LEMMA MergeNothing ==
    MergeValues({}) = <<>>
<1>1. Cardinality({}) = 0 BY FS_EmptySet
<1>2. TextsOf({}) = <<>> BY <1>1 DEF TextsOf
<1>3. FlattenSeq(<<>>) = <<>>
  <2>1. Len(<<>>) = 0 BY EmptySeq
  <2> QED BY <2>1, Zenon DEF FlattenSeq
<1> QED BY <1>2, <1>3, MergesTexts

\* The places of the parts of a value that is not too long.
LEMMA PartPlaces ==
    ASSUME NEW X, NEW value \in Seq(X), Len(value) > PartLen, ~TooLong(value),
           NEW k \in 0..LastPart(value)
    PROVE  Place(SplittingValue(value), PartAt(value, k)) = k + 1
<1> DEFINE last == LastPart(value)
           values == SplittingValue(value)
           At(i) == Printed(PartLen * i)
           Earlier == {w \in values : Before(w.at, PartAt(value, k).at)}
<1>1. /\ last \in Nat
      /\ values = {PartAt(value, i) : i \in 0..last}
      /\ \A i \in 0..last : PartAt(value, i).at = At(i) /\ Digital(At(i))
      /\ \A i, j \in 0..last : i # j => At(i) # At(j)
  BY SplitParts
<1>2. PartLen \in Nat /\ PartLen >= 1 /\ Digits \in Nat BY CodecAssumption
<1>3. \A i, j \in 0..last : i < j => PartLen * i \in Nat /\ PartLen * j \in Nat /\ PartLen * i < PartLen * j
  BY <1>1, <1>2
<1>4. ASSUME NEW i \in 0..last PROVE Len(At(i)) = Digits
  <2>1. Len(At(last)) <= Digits /\ Len(At(last)) \in Nat
    <3>1. last \in 0..last BY <1>1
    <3>2. Len(At(last)) \in Nat BY <1>1, <3>1, LenProperties DEF Digital
    <3>3. ~(Len(At(last)) > Digits) BY DEF TooLong
    <3> QED BY <1>2, <3>2, <3>3
  <2>2. Len(At(i)) \in Nat BY <1>1, LenProperties DEF Digital
  <2>3. Len(At(i)) <= Len(At(last))
    <3>1. CASE i = last BY <2>1, <3>1
    <3>2. CASE i # last
      <4>1. i < last /\ last \in 0..last BY <1>1, <3>2
      <4> QED BY <1>3, <4>1, PrintedOrder
    <3> QED BY <3>1, <3>2
  <2>4. Len(At(i)) >= Digits
    <3>1. i \in Nat BY <1>1
    <3>2. PartLen * i \in Nat BY <1>2, <3>1
    <3> QED BY <3>2, PrintedIsDigital
  <2> QED BY <1>2, <2>1, <2>2, <2>3, <2>4
<1>5. ASSUME NEW i \in 0..last, NEW j \in 0..last, i < j PROVE Before(At(i), At(j))
  <2>1. Len(At(i)) = Len(At(j)) BY <1>4
  <2> QED BY <1>3, <1>5, <2>1, PrintedOrder
<1>6. ASSUME NEW i \in 0..last, NEW j \in 0..last, Before(At(i), At(j)) PROVE i < j
  <2>1. CASE i = j BY <1>1, <1>6, <2>1, BeforeIrreflexive
  <2>2. CASE j < i
    <3>1. Before(At(j), At(i)) BY <1>5, <2>2
    <3>2. Before(At(i), At(i)) BY <1>1, <1>6, <3>1, BeforeTransitive
    <3> QED BY <1>1, <3>2, BeforeIrreflexive
  <2> QED BY <1>1, <2>1, <2>2
<1> DEFINE f == [j \in 0..(k - 1) |-> PartAt(value, j)]
<1> HIDE DEF last, values, At
<1>7. k \in Nat /\ k <= last /\ \A j \in 0..(k - 1) : j \in 0..last /\ j < k BY <1>1 DEF last
<1>8. k \in 0..last BY <1>1, <1>7
<1>9. \A j \in 0..(k - 1) : PartAt(value, j) \in Earlier
  BY <1>1, <1>5, <1>7, <1>8
<1>10. \A w \in Earlier : \E j \in 0..(k - 1) : PartAt(value, j) = w
  <2> TAKE w \in Earlier
  <2>1. PICK j \in 0..last : w = PartAt(value, j) BY <1>1
  <2>2. j < k BY <1>1, <1>6, <1>8, <2>1
  <2>3. j \in 0..(k - 1) BY <1>7, <2>2
  <2> QED BY <2>1, <2>3
<1>11. \A i, j \in 0..(k - 1) : i # j => PartAt(value, i) # PartAt(value, j)
  BY <1>1, <1>7
<1> HIDE DEF Earlier
<1>12. Cardinality(Earlier) = k
  <2>1. IsFiniteSet(0..(k - 1)) /\ Cardinality(0..(k - 1)) = k BY <1>7, FS_Interval
  <2>2. f \in [0..(k - 1) -> Earlier] BY <1>9
  <2>3. \A i, j \in 0..(k - 1) : i # j => f[i] # f[j] BY <1>11
  <2>4. \A w \in Earlier : \E j \in 0..(k - 1) : f[j] = w BY <1>10
  <2> HIDE DEF f
  <2>5. f \in Injection(0..(k - 1), Earlier) BY <2>2, <2>3 DEF Injection, IsInjective
  <2>6. f \in Surjection(0..(k - 1), Earlier) BY <2>2, <2>4 DEF Surjection
  <2>7. ExistsBijection(0..(k - 1), Earlier) BY <2>5, <2>6 DEF ExistsBijection, Bijection
  <2> QED BY <2>1, <2>7, FS_Bijection
<1> QED BY <1>7, <1>12 DEF Earlier, Place, values

\* The round trip of a long value.
LEMMA LongValueArrives ==
    ASSUME NEW X, NEW value \in Seq(X), Len(value) > PartLen, ~TooLong(value)
    PROVE  MergeValues(SplittingValue(value)) = value
<1> DEFINE last == LastPart(value)
           values == SplittingValue(value)
           texts == TextsOf(values)
           End(i) == Smaller(PartLen * i, Len(value))
<1>1. /\ last \in Nat /\ Cardinality(values) = last + 1
      /\ values = {PartAt(value, i) : i \in 0..last}
  BY SplitParts
<1>2. Sortables(values) /\ \A v \in values : v.text \in Seq(X) BY SplitIsSortable
<1>3. texts \in Seq(Seq(X)) /\ Len(texts) = last + 1 BY <1>1, <1>2, TextsType
<1>4. PartLen \in Nat /\ PartLen >= 1 /\ Len(value) \in Nat BY CodecAssumption, LenProperties
<1>5. /\ PartLen * (last + 1) >= Len(value)
      /\ \A k \in 0..last :
            PartLen * k \in Nat /\ PartLen * k < Len(value) /\ PartLen * (k + 1) = PartLen * k + PartLen
  BY <1>4, PartNumbers DEF LastPart
<1>6. ASSUME NEW i \in 1..(last + 1)
      PROVE  texts[i] = SubSeq(value, PartLen * (i - 1) + 1, End(i))
  <2>1. i - 1 \in 0..last /\ (i - 1) + 1 = i /\ i \in 1..Cardinality(values) BY <1>1
  <2>2. ValueAt(values, i) \in values /\ Place(values, ValueAt(values, i)) = i
    BY <1>2, <2>1, EveryPlaceIsTaken
  <2>3. PICK k \in 0..last : ValueAt(values, i) = PartAt(value, k) BY <1>1, <2>2
  <2>4. k + 1 = i BY <2>2, <2>3, PartPlaces
  <2>5. k = i - 1 BY <1>1, <2>4
  <2>6. texts[i] = PartAt(value, i - 1).text BY <2>1, <2>3, <2>5 DEF TextsOf
  <2> QED BY <2>1, <2>6 DEF PartAt
<1>7. PICK joined \in [0..Len(texts) -> Seq(X)] : JoinsOf(texts, joined)
  BY <1>3, FlattenLoop, Zenon
<1> HIDE DEF last, values, texts, End
<1> DEFINE T == {i \in 0..(last + 1) : joined[i] = SubSeq(value, 1, End(i))}
<1>8. 0 \in T
  <2>1. End(0) = 0 BY <1>4 DEF End, Smaller
  <2>2. SubSeq(value, 1, 0) = <<>> BY SubSeqEmpty
  <2>3. joined[0] = <<>> BY <1>7 DEF JoinsOf
  <2> QED BY <1>1, <2>1, <2>2, <2>3
<1>9. ASSUME NEW i \in 1..(last + 1), i - 1 \in T PROVE i \in T
  <2>1. i \in 0..(last + 1) /\ i - 1 \in 0..last /\ (i - 1) + 1 = i BY <1>1
  <2> DEFINE k == PartLen * (i - 1)
  <2>2. k \in Nat /\ k < Len(value) /\ PartLen * i = k + PartLen BY <1>5, <2>1
  <2>3. End(i - 1) = k BY <1>4, <2>2 DEF End, Smaller
  <2>4. texts[i] = SubSeq(value, k + 1, End(i)) BY <1>6
  <2>5. joined[i] = joined[i - 1] \o texts[i] BY <1>3, <1>7 DEF JoinsOf
  <2>6. End(i) \in k..Len(value) BY <1>4, <2>2 DEF End, Smaller
  <2> HIDE DEF k
  <2>7. 1 \in 1..(Len(value) + 1) /\ k \in (1 - 1)..Len(value) BY <1>4, <2>2
  <2>8. SubSeq(value, 1, k) \o SubSeq(value, k + 1, End(i)) = SubSeq(value, 1, End(i))
    BY <2>6, <2>7, ConcatAdjacentSubSeq
  <2>9. joined[i - 1] = SubSeq(value, 1, k) BY <1>9, <2>3
  <2> QED BY <2>1, <2>4, <2>5, <2>8, <2>9
<1> HIDE DEF T
<1>10. last + 1 \in Nat BY <1>1
<1>11. 0..(last + 1) \subseteq T BY <1>8, <1>9, <1>10, BoundedInduction
<1>12. last + 1 \in 0..(last + 1) BY <1>10
<1>13. joined[last + 1] = SubSeq(value, 1, End(last + 1)) BY <1>11, <1>12 DEF T
<1>14. End(last + 1) = Len(value)
  <2> DEFINE e == PartLen * (last + 1)
  <2>1. e \in Nat BY <1>4, <1>10
  <2>2. e >= Len(value) BY <1>5
  <2>3. End(last + 1) = IF e < Len(value) THEN e ELSE Len(value) BY DEF End, Smaller
  <2> HIDE DEF e
  <2> QED BY <1>4, <2>1, <2>2, <2>3
<1>15. joined[last + 1] = value BY <1>13, <1>14, SubSeqFull
<1> QED BY <1>3, <1>7, <1>15, MergesTexts DEF JoinsOf, texts, values

\* MergeValues undoes SplittingValue: a value of any characters that is not too long is
\* put together as it was, since offsets that are printed with leading zeros sort as
\* numbers (label.go:12-43).
THEOREM ValueArrives ==
    ASSUME NEW X, NEW value \in Seq(X), ~TooLong(value)
    PROVE  MergeValues(SplittingValue(value)) = value
<1>1. CASE Len(value) > PartLen BY <1>1, LongValueArrives
<1>2. CASE Len(value) <= PartLen
  <2> DEFINE values == SplittingValue(value)
  <2>1. /\ values = {[at |-> <<>>, text |-> value]}
        /\ Sortables(values) /\ Cardinality(values) = 1
    BY <1>2, OneValue
  <2> HIDE DEF values
  <2>2. 1 \in 1..Cardinality(values) BY <2>1
  <2>3. ValueAt(values, 1).text = value BY <2>1, <2>2, EveryPlaceIsTaken
  <2> DEFINE texts == TextsOf(values)
  <2>4. texts \in Seq(Seq(X)) /\ Len(texts) = 1
    <3>1. \A v \in values : v.text \in Seq(X) BY <2>1
    <3> QED BY <2>1, <3>1, TextsType
  <2>5. texts[1] = value BY <2>2, <2>3 DEF TextsOf
  <2> HIDE DEF texts
  <2>6. PICK joined \in [0..Len(texts) -> Seq(X)] : JoinsOf(texts, joined)
    BY <2>4, FlattenLoop, Zenon
  <2>7. 1 \in 1..Len(texts) /\ 1 - 1 = 0 BY <2>4
  <2>8. joined[1] = joined[0] \o texts[1] BY <2>6, <2>7, Zenon DEF JoinsOf
  <2>9. joined[0] = <<>> /\ FlattenSeq(texts) = joined[1] BY <2>4, <2>6, Zenon DEF JoinsOf
  <2>10. FlattenSeq(texts) = value BY <2>5, <2>8, <2>9, ConcatEmptySeq
  <2> QED BY <2>10, MergesTexts DEF values, texts
<1>3. Len(value) \in Nat /\ PartLen \in Nat BY LenProperties, CodecAssumption
<1> QED BY <1>1, <1>2, <1>3

-----------------------------------------------------------------------------
(* What is joined is split as it was. *)

Unread == [parts |-> <<>>, part |-> <<>>, skip |-> FALSE]

\* The scan has read the parts A, and B of the next part.
HasRead(a, A, B) == a.parts = A /\ a.part = B /\ ~a.skip

\* The step of the scan at the character i.
ScanStep(t, i, a) ==
    IF a.skip THEN [a EXCEPT !.skip = FALSE]
    ELSE IF t[i] # Sep \/ i = Len(t) THEN [a EXCEPT !.part = Append(@, t[i])]
    ELSE IF t[i + 1] = Sep
    THEN [a EXCEPT !.part = Append(@, Sep), !.skip = TRUE]
    ELSE [a EXCEPT !.parts = Append(@, a.part), !.part = <<>>]

Scans(t, scan) ==
    /\ Scan(t) = scan[Len(t)]
    /\ scan[0] = Unread
    /\ \A i \in 1..Len(t) : scan[i] = ScanStep(t, i, scan[i - 1])

ScanStates(X) == [parts : Seq(Seq(X)), part : Seq(X), skip : BOOLEAN]

LEMMA ScanStepType ==
    ASSUME NEW X, NEW t \in Seq(X), NEW i \in 1..Len(t), NEW a \in ScanStates(X)
    PROVE  ScanStep(t, i, a) \in ScanStates(X)
<1>1. t[i] \in X BY ElementOfSeq
<1>2. a.parts \in Seq(Seq(X)) /\ a.part \in Seq(X) /\ <<>> \in Seq(X) BY DEF ScanStates
<1>3. Append(a.part, t[i]) \in Seq(X) /\ Append(a.parts, a.part) \in Seq(Seq(X))
  BY <1>1, <1>2, AppendProperties
<1>4. ~(t[i] # Sep) => Append(a.part, Sep) \in Seq(X) BY <1>3
<1> QED BY <1>2, <1>3, <1>4 DEF ScanStep, ScanStates

LEMMA ScanLoop ==
    ASSUME NEW X, NEW t \in Seq(X)
    PROVE  \E scan \in [0..Len(t) -> ScanStates(X)] : Scans(t, scan)
<1> DEFINE n == Len(t)
           Loop(f) ==
               f = [i \in 0..n |->
                       IF i = 0 THEN [parts |-> <<>>, part |-> <<>>, skip |-> FALSE]
                       ELSE LET a == f[i - 1] IN
                            IF a.skip THEN [a EXCEPT !.skip = FALSE]
                            ELSE IF t[i] # Sep \/ i = Len(t)
                            THEN [a EXCEPT !.part = Append(@, t[i])]
                            ELSE IF t[i + 1] = Sep
                            THEN [a EXCEPT !.part = Append(@, Sep), !.skip = TRUE]
                            ELSE [a EXCEPT !.parts = Append(@, a.part), !.part = <<>>]]
           Steps(f) ==
               f = [i \in 0..n |-> IF i = 0 THEN Unread ELSE ScanStep(t, i, f[i - 1])]
           scan == CHOOSE f : Loop(f)
           step == [i \in 1..n |-> [a \in ScanStates(X) |-> ScanStep(t, i, a)]]
<1>1. n \in Nat BY LenProperties
<1>2. Scan(t) = scan[n] BY Zenon DEF Scan
<1>3. \A f : Loop(f) <=> Steps(f) BY Zenon DEF ScanStep, Unread
<1> HIDE DEF Loop, scan
<1>4. step \in [1..n -> [ScanStates(X) -> ScanStates(X)]] BY ScanStepType
<1>5. \A i \in 1..n : \A a \in ScanStates(X) : step[i][a] = ScanStep(t, i, a) OBVIOUS
<1>6. Unread \in ScanStates(X)
  <2>1. <<>> \in Seq(X) /\ <<>> \in Seq(Seq(X)) BY EmptySeq
  <2> QED BY <2>1 DEF Unread, ScanStates
<1> HIDE DEF step, n
<1>7. PICK f \in [0..n -> ScanStates(X)] : Follows(f, n, Unread, step)
  BY <1>1, <1>4, <1>6, Recursion, Zenon
<1>8. ASSUME NEW i \in 1..n PROVE f[i] = ScanStep(t, i, f[i - 1])
  <2>1. i - 1 \in 0..n BY <1>1
  <2> QED BY <1>5, <1>7, <2>1 DEF Follows
<1>9. Steps(f)
  <2>1. \A i \in 0..n : i = 0 \/ (i # 0 /\ i \in 1..n) BY <1>1
  <2>2. f[0] = Unread BY <1>7 DEF Follows
  <2>3. ASSUME NEW i \in 0..n
        PROVE  f[i] = IF i = 0 THEN Unread ELSE ScanStep(t, i, f[i - 1])
    BY <1>8, <2>1, <2>2
  <2>4. f = [i \in 0..n |-> f[i]] BY <1>7
  <2> QED BY <2>3, <2>4, Zenon
<1> HIDE DEF Steps
<1>10. Steps(scan) BY <1>3, <1>9, Zenon DEF scan
<1>11. scan[0] = Unread
  <2>1. 0 \in 0..n BY <1>1
  <2> QED BY <1>10, <2>1, Zenon DEF Steps
<1>12. ASSUME NEW i \in 1..n PROVE scan[i] = ScanStep(t, i, scan[i - 1])
  <2>1. i \in 0..n /\ i # 0 BY <1>1
  <2> QED BY <1>10, <2>1, Zenon DEF Steps
<1>13. scan \in [0..n -> ScanStates(X)]
  <2>1. scan = [i \in 0..n |-> scan[i]] BY <1>10, Zenon DEF Steps
  <2>2. ASSUME NEW i \in 1..n, scan[i - 1] \in ScanStates(X) PROVE scan[i] \in ScanStates(X)
    BY <1>12, <2>2, ScanStepType DEF n
  <2> QED BY <1>1, <1>6, <1>11, <2>1, <2>2, RecursionType
<1>14. Scans(t, scan) BY <1>2, <1>11, <1>12 DEF Scans, n
<1> QED BY <1>13, <1>14 DEF n

\* All the parts, with the empty ones.
AllParts(t) == Append(Scan(t).parts, Scan(t).part)

LEMMA PartsType ==
    ASSUME NEW X, NEW t \in Seq(X)
    PROVE  /\ AllParts(t) \in Seq(Seq(X))
           /\ SearchParts(t) = Filtered(AllParts(t), Range(AllParts(t)) \ {<<>>})
           /\ SearchParts(t) \in Seq(Seq(X))
           /\ Range(SearchParts(t)) = Range(AllParts(t)) \ {<<>>}
<1>1. PICK scan \in [0..Len(t) -> ScanStates(X)] : Scans(t, scan) BY ScanLoop, Zenon
<1>2. Len(t) \in 0..Len(t)
  <2>1. Len(t) \in Nat BY LenProperties
  <2> QED BY <2>1
<1>3. Scan(t) \in ScanStates(X) BY <1>1, <1>2 DEF Scans
<1>4. Scan(t).parts \in Seq(Seq(X)) /\ Scan(t).part \in Seq(X) BY <1>3 DEF ScanStates
<1>5. AllParts(t) \in Seq(Seq(X)) BY <1>4, AppendProperties DEF AllParts
<1>6. SearchParts(t) = Filtered(AllParts(t), Range(AllParts(t)) \ {<<>>})
  BY Zenon DEF SearchParts, AllParts
<1>7. /\ SearchParts(t) \in Seq(Seq(X))
      /\ Range(SearchParts(t)) = Range(AllParts(t)) \cap (Range(AllParts(t)) \ {<<>>})
  BY <1>5, <1>6, FilteredRange
<1> QED BY <1>5, <1>6, <1>7

\* Three steps of the scan: a character, a doubled separator, a single one.
LEMMA ScanCharacter ==
    ASSUME NEW X, NEW t, NEW i, NEW a \in ScanStates(X), NEW A, NEW B,
           HasRead(a, A, B), t[i] # Sep
    PROVE  HasRead(ScanStep(t, i, a), A, Append(B, t[i]))
BY DEF ScanStep, HasRead, ScanStates

LEMMA ScanDoubled ==
    ASSUME NEW X, NEW t \in Seq(X), NEW i \in 1..Len(t), i + 1 \in 1..Len(t),
           NEW a \in ScanStates(X), NEW A, NEW B,
           HasRead(a, A, B), t[i] = Sep, t[i + 1] = Sep
    PROVE  HasRead(ScanStep(t, i + 1, ScanStep(t, i, a)), A, Append(B, Sep))
<1>1. i # Len(t)
  <2>1. Len(t) \in Nat BY LenProperties
  <2> QED BY <2>1
<1> DEFINE b == [a EXCEPT !.part = Append(@, Sep), !.skip = TRUE]
<1>2. ScanStep(t, i, a) = b BY <1>1 DEF ScanStep, HasRead
<1>3. b \in ScanStates(X)
  <2>1. ScanStep(t, i, a) \in ScanStates(X) BY ScanStepType
  <2> QED BY <1>2, <2>1
<1>4. b.parts = A /\ b.part = Append(B, Sep) /\ b.skip BY DEF HasRead, ScanStates
<1> HIDE DEF b
<1>5. ScanStep(t, i + 1, b) = [b EXCEPT !.skip = FALSE] BY <1>4 DEF ScanStep
<1>6. HasRead([b EXCEPT !.skip = FALSE], A, Append(B, Sep)) BY <1>3, <1>4 DEF HasRead, ScanStates
<1> QED BY <1>2, <1>5, <1>6

LEMMA ScanSingle ==
    ASSUME NEW X, NEW t, NEW i, i # Len(t), NEW a \in ScanStates(X), NEW A, NEW B,
           HasRead(a, A, B), t[i] = Sep, t[i + 1] # Sep
    PROVE  HasRead(ScanStep(t, i, a), Append(A, B), <<>>)
BY DEF ScanStep, HasRead, ScanStates

\* The pieces of a part, and of a search.
Pieces(part) ==
    [i \in DOMAIN part |-> IF part[i] = Sep THEN <<Sep, Sep>> ELSE <<part[i]>>]
Links(parts) ==
    [i \in DOMAIN parts |-> IF i = 1 THEN Doubled(parts[i]) ELSE <<Sep>> \o Doubled(parts[i])]

LEMMA PiecesType ==
    ASSUME NEW X, NEW p \in Seq(X)
    PROVE  /\ Pieces(p) \in Seq(Seq(X)) /\ Len(Pieces(p)) = Len(p)
           /\ \A i \in 1..Len(p) :
                 Pieces(p)[i] = IF p[i] = Sep THEN <<Sep, Sep>> ELSE <<p[i]>>
           /\ Doubled(p) = FlattenSeq(Pieces(p))
           /\ Doubled(p) \in Seq(X)
<1>1. Len(p) \in Nat /\ DOMAIN p = 1..Len(p) /\ \A i \in 1..Len(p) : p[i] \in X
  BY LenProperties
<1>2. ASSUME NEW i \in 1..Len(p)
      PROVE  (IF p[i] = Sep THEN <<Sep, Sep>> ELSE <<p[i]>>) \in Seq(X)
  <2>1. CASE p[i] = Sep
    <3>1. Sep \in X BY <1>1, <2>1
    <3> QED BY <2>1, <3>1
  <2>2. CASE p[i] # Sep BY <1>1, <2>2
  <2> QED BY <2>1, <2>2
<1>3. Pieces(p) \in [1..Len(p) -> Seq(X)] BY <1>1, <1>2 DEF Pieces
<1>4. Pieces(p) \in Seq(Seq(X)) /\ Len(Pieces(p)) = Len(p) BY <1>1, <1>3
<1>5. Doubled(p) = FlattenSeq(Pieces(p)) BY Zenon DEF Doubled, Pieces
<1>6. PICK joined \in [0..Len(Pieces(p)) -> Seq(X)] : JoinsOf(Pieces(p), joined)
  BY <1>4, FlattenLoop, Zenon
<1>7. Doubled(p) \in Seq(X)
  <2>1. Len(Pieces(p)) \in 0..Len(Pieces(p)) BY <1>1, <1>4
  <2> QED BY <1>5, <1>6, <2>1 DEF JoinsOf
<1>8. \A i \in 1..Len(p) : Pieces(p)[i] = IF p[i] = Sep THEN <<Sep, Sep>> ELSE <<p[i]>>
  BY <1>1 DEF Pieces
<1> QED BY <1>4, <1>5, <1>7, <1>8

LEMMA AppendNext ==
    ASSUME NEW X, NEW B \in Seq(X), NEW p \in Seq(X), NEW j \in 1..Len(p)
    PROVE  Append(B \o SubSeq(p, 1, j - 1), p[j]) = B \o SubSeq(p, 1, j)
<1>1. Len(p) \in Nat /\ p[j] \in X BY LenProperties, ElementOfSeq
<1> DEFINE u == SubSeq(p, 1, j - 1)
<1>2. u \in Seq(X)
  <2>1. \A i \in 1..(j - 1) : p[i] \in X
    <3>1. \A i \in 1..(j - 1) : i \in 1..Len(p) BY <1>1
    <3> QED BY <3>1, ElementOfSeq
  <2>2. 1 \in Int /\ j - 1 \in Int OBVIOUS
  <2> QED BY <2>1, <2>2, SubSeqProperties
<1>3. SubSeq(p, 1, j) = u \o <<p[j]>>
  <2>1. 1 \in 1..Len(p) /\ j \in 1..Len(p) BY <1>1
  <2> QED BY <2>1, SubSeqRecursiveSecond
<1> HIDE DEF u
<1>4. B \o u \in Seq(X) /\ <<p[j]>> \in Seq(X) BY <1>1, <1>2, ConcatProperties
<1>5. Append(B \o u, p[j]) = (B \o u) \o <<p[j]>> BY <1>1, <1>4, AppendIsConcat
<1>6. (B \o u) \o <<p[j]>> = B \o (u \o <<p[j]>>) BY <1>2, <1>4, ConcatAssociative
<1> QED BY <1>3, <1>5, <1>6 DEF u

\* A part is read as it was before its separators were doubled.
LEMMA ReadPart ==
    ASSUME NEW X, NEW t \in Seq(X), NEW scan \in [0..Len(t) -> ScanStates(X)], Scans(t, scan),
           NEW p \in Seq(X), NEW at \in Nat, Lies(t, at, Doubled(p)),
           NEW A, NEW B \in Seq(X), HasRead(scan[at], A, B)
    PROVE  HasRead(scan[at + Len(Doubled(p))], A, B \o p)
<1> DEFINE n == Len(p)
           ss == Pieces(p)
<1>1. Len(t) \in Nat /\ n \in Nat BY LenProperties
<1>2. /\ ss \in Seq(Seq(X)) /\ Len(ss) = n /\ Doubled(p) = FlattenSeq(ss) /\ Doubled(p) \in Seq(X)
      /\ \A i \in 1..n : ss[i] = IF p[i] = Sep THEN <<Sep, Sep>> ELSE <<p[i]>>
  BY PiecesType
<1>3. PICK d \in [0..Len(ss) -> Seq(X)] : JoinsOf(ss, d) BY <1>2, FlattenLoop, Zenon
<1> HIDE DEF ss, n
<1>4. d[0] = <<>> /\ Doubled(p) = d[n] BY <1>2, <1>3 DEF JoinsOf
<1>5. \A i \in 0..n : d[i] \in Seq(X) /\ Len(d[i]) \in Nat BY <1>2, <1>3, LenProperties
<1> DEFINE Good(j) == HasRead(scan[at + Len(d[j])], A, B \o SubSeq(p, 1, j))
           T == {j \in 0..n : Good(j)}
<1>6. 0 \in T
  <2>1. at + Len(d[0]) = at BY <1>4, EmptySeq
  <2>2. B \o SubSeq(p, 1, 0) = B BY SubSeqEmpty, ConcatEmptySeq
  <2>3. HasRead(scan[at + Len(d[0])], A, B \o SubSeq(p, 1, 0)) BY <2>1, <2>2
  <2> QED BY <1>1, <2>3
<1>7. ASSUME NEW j \in 1..n, j - 1 \in T PROVE j \in T
  <2>1. j - 1 \in 0..n /\ j \in 0..n /\ j \in 1..Len(ss) /\ j \in 1..Len(p) BY <1>1, <1>2 DEF n
  <2> DEFINE cur == at + Len(d[j - 1])
             u == B \o SubSeq(p, 1, j - 1)
  <2>2. cur \in Nat BY <1>5, <2>1
  <2>3. Len(d[j]) = Len(d[j - 1]) + Len(ss[j]) BY <1>2, <1>3, <2>1, JoinsLie
  <2>4. Lies(Doubled(p), Len(d[j - 1]), ss[j]) BY <1>2, <1>3, <2>1, JoinsLie
  <2>5. Lies(t, cur, ss[j])
    <3>1. ss[j] \in Seq(X) BY <1>2, <2>1, ElementOfSeq
    <3> QED BY <1>2, <1>5, <2>1, <2>4, <3>1, LiesInside
  <2>6. HasRead(scan[cur], A, u) BY <1>7
  <2>7. Append(u, p[j]) = B \o SubSeq(p, 1, j) BY <2>1, AppendNext
  <2>8. Len(ss[j]) \in Nat /\ at + Len(d[j]) = cur + Len(ss[j])
    <3>1. Len(ss[j]) \in Nat BY <1>2, <2>1, ElementOfSeq, LenProperties
    <3>2. Len(d[j - 1]) \in Nat BY <1>5, <2>1
    <3> DEFINE l == Len(d[j - 1])
               m == Len(ss[j])
    <3>3. l \in Nat /\ m \in Nat /\ Len(d[j]) = l + m BY <2>3, <3>1, <3>2
    <3> HIDE DEF l, m
    <3>4. at + (l + m) = (at + l) + m BY <3>3
    <3> QED BY <3>1, <3>3, <3>4 DEF l, m
  <2> HIDE DEF cur, u
  <2>9. CASE p[j] # Sep
    <3>1. ss[j] = <<p[j]>> BY <1>2, <2>9
    <3>2. Len(ss[j]) = 1 /\ ss[j][1] = p[j] BY <3>1
    <3>3. cur + 1 <= Len(t) /\ t[cur + 1] = p[j] BY <2>5, <3>2 DEF Lies
    <3>4. cur + 1 \in 1..Len(t) /\ (cur + 1) - 1 = cur /\ cur \in 0..Len(t) BY <1>1, <2>2, <3>3
    <3>5. scan[cur + 1] = ScanStep(t, cur + 1, scan[cur]) BY <3>4 DEF Scans
    <3>6. scan[cur] \in ScanStates(X) BY <3>4
    <3>7. HasRead(scan[cur + 1], A, Append(u, t[cur + 1]))
      BY <2>6, <2>9, <3>3, <3>5, <3>6, ScanCharacter
    <3>8. Good(j) BY <2>7, <2>8, <3>2, <3>3, <3>7
    <3> QED BY <2>1, <3>8
  <2>10. CASE p[j] = Sep
    <3>1. ss[j] = <<Sep, Sep>> BY <1>2, <2>10
    <3>2. Len(ss[j]) = 2 /\ ss[j][1] = Sep /\ ss[j][2] = Sep BY <3>1
    <3>3. cur + 2 <= Len(t) /\ t[cur + 1] = Sep /\ t[cur + 2] = Sep BY <2>5, <3>2 DEF Lies
    <3>4. /\ cur + 1 \in 1..Len(t) /\ (cur + 1) - 1 = cur /\ cur \in 0..Len(t)
          /\ (cur + 1) + 1 = cur + 2 /\ cur + 2 \in 1..Len(t) /\ (cur + 2) - 1 = cur + 1
      BY <1>1, <2>2, <3>3
    <3>5. /\ scan[cur + 1] = ScanStep(t, cur + 1, scan[cur])
          /\ scan[cur + 2] = ScanStep(t, cur + 2, scan[cur + 1])
      BY <3>4 DEF Scans
    <3>6. scan[cur] \in ScanStates(X) BY <3>4
    <3> DEFINE i == cur + 1
    <3>7. /\ i \in 1..Len(t) /\ i + 1 \in 1..Len(t) /\ t[i] = Sep /\ t[i + 1] = Sep
          /\ scan[i + 1] = ScanStep(t, i + 1, ScanStep(t, i, scan[cur])) /\ i + 1 = cur + 2
      BY <3>3, <3>4, <3>5
    <3> HIDE DEF i
    <3>8. HasRead(scan[i + 1], A, Append(u, Sep)) BY <2>6, <3>6, <3>7, ScanDoubled
    <3>9. Good(j) BY <2>7, <2>8, <2>10, <3>2, <3>7, <3>8
    <3> QED BY <2>1, <3>9
  <2> QED BY <2>9, <2>10
<1> HIDE DEF T, Good
<1>8. 0..n \subseteq T BY <1>1, <1>6, <1>7, BoundedInduction
<1>9. Good(n) BY <1>1, <1>8 DEF T
<1>10. SubSeq(p, 1, n) = p BY SubSeqFull DEF n
<1> QED BY <1>4, <1>9, <1>10 DEF Good

LEMMA LinksType ==
    ASSUME NEW X, Sep \in X, NEW P \in Seq(Seq(X))
    PROVE  /\ Links(P) \in Seq(Seq(X)) /\ Len(Links(P)) = Len(P)
           /\ \A i \in 1..Len(P) :
                 Links(P)[i] = IF i = 1 THEN Doubled(P[i]) ELSE <<Sep>> \o Doubled(P[i])
           /\ Joined(P) = FlattenSeq(Links(P))
           /\ Joined(P) \in Seq(X)
<1>1. Len(P) \in Nat /\ DOMAIN P = 1..Len(P) /\ \A i \in 1..Len(P) : P[i] \in Seq(X)
  BY LenProperties
<1>2. ASSUME NEW i \in 1..Len(P)
      PROVE  (IF i = 1 THEN Doubled(P[i]) ELSE <<Sep>> \o Doubled(P[i])) \in Seq(X)
  <2>1. Doubled(P[i]) \in Seq(X) BY <1>1, PiecesType
  <2>2. <<Sep>> \in Seq(X) OBVIOUS
  <2>3. <<Sep>> \o Doubled(P[i]) \in Seq(X) BY <2>1, <2>2, ConcatProperties
  <2> QED BY <2>1, <2>3
<1>3. Links(P) \in [1..Len(P) -> Seq(X)] BY <1>1, <1>2 DEF Links
<1>4. Links(P) \in Seq(Seq(X)) /\ Len(Links(P)) = Len(P)
  <2> DEFINE n == Len(P)
             L == Links(P)
  <2>1. n \in Nat /\ L \in [1..n -> Seq(X)] BY <1>1, <1>3
  <2> HIDE DEF n, L
  <2>2. L \in Seq(Seq(X)) /\ Len(L) = n BY <2>1
  <2> QED BY <2>2 DEF n, L
<1>5. Joined(P) = FlattenSeq(Links(P)) BY Zenon DEF Joined, Links
<1>6. PICK joined \in [0..Len(Links(P)) -> Seq(X)] : JoinsOf(Links(P), joined)
  BY <1>4, FlattenLoop, Zenon
<1>7. Joined(P) \in Seq(X)
  <2>1. Len(Links(P)) \in 0..Len(Links(P)) BY <1>1, <1>4
  <2> QED BY <1>5, <1>6, <2>1 DEF JoinsOf
<1>8. \A i \in 1..Len(P) :
          Links(P)[i] = IF i = 1 THEN Doubled(P[i]) ELSE <<Sep>> \o Doubled(P[i])
  BY <1>1 DEF Links
<1> QED BY <1>4, <1>5, <1>7, <1>8

\* A part that begins with another character begins with it when it is doubled, too.
LEMMA DoubledBegins ==
    ASSUME NEW X, NEW p \in Seq(X), p # <<>>, p[1] # Sep
    PROVE  Len(Doubled(p)) \in Nat \ {0} /\ Doubled(p)[1] = p[1]
<1>1. /\ Pieces(p) \in Seq(Seq(X)) /\ Len(Pieces(p)) = Len(p)
      /\ Doubled(p) = FlattenSeq(Pieces(p)) /\ Doubled(p) \in Seq(X)
      /\ \A i \in 1..Len(p) : Pieces(p)[i] = IF p[i] = Sep THEN <<Sep, Sep>> ELSE <<p[i]>>
  BY PiecesType
<1>2. 1 \in 1..Len(p)
  <2>1. Len(p) \in Nat \ {0} BY EmptySeq
  <2> QED BY <2>1
<1>3. Pieces(p)[1] = <<p[1]>> BY <1>1, <1>2
<1>4. PICK d \in [0..Len(Pieces(p)) -> Seq(X)] : JoinsOf(Pieces(p), d)
  BY <1>1, FlattenLoop, Zenon
<1>5. Lies(Doubled(p), Len(d[1 - 1]), <<p[1]>>)
  <2>1. 1 \in 1..Len(Pieces(p)) BY <1>1, <1>2
  <2>2. Lies(FlattenSeq(Pieces(p)), Len(d[1 - 1]), Pieces(p)[1]) BY <1>1, <1>4, <2>1, JoinsLie
  <2> QED BY <1>1, <1>3, <2>2
<1>6. Len(d[1 - 1]) = 0
  <2>1. d[0] = <<>> BY <1>4 DEF JoinsOf
  <2>2. d[1 - 1] = <<>> BY <2>1
  <2> QED BY <2>2, EmptySeq
<1>7. Len(<<p[1]>>) = 1 /\ <<p[1]>>[1] = p[1] OBVIOUS
<1>8. 0 + 1 <= Len(Doubled(p)) /\ Doubled(p)[0 + 1] = p[1]
  <2>1. Lies(Doubled(p), 0, <<p[1]>>) BY <1>5, <1>6
  <2>2. 1 \in 1..Len(<<p[1]>>) BY <1>7
  <2> QED BY <1>7, <2>1, <2>2 DEF Lies
<1>9. Len(Doubled(p)) \in Nat BY <1>1, LenProperties
<1> QED BY <1>8, <1>9

\* What is joined is read part by part.
LEMMA ReadJoined ==
    ASSUME NEW X, Sep \in X, NEW P \in Seq(Seq(X)),
           \A i \in 1..Len(P) : P[i] # <<>> /\ P[i][1] # Sep, P # <<>>
    PROVE  HasRead(Scan(Joined(P)), SubSeq(P, 1, Len(P) - 1), P[Len(P)])
<1> DEFINE t == Joined(P)
           n == Len(P)
           ss == Links(P)
<1>1. /\ ss \in Seq(Seq(X)) /\ Len(ss) = n /\ t = FlattenSeq(ss) /\ t \in Seq(X)
      /\ \A i \in 1..n : ss[i] = IF i = 1 THEN Doubled(P[i]) ELSE <<Sep>> \o Doubled(P[i])
  BY LinksType
<1>2. n \in Nat \ {0} BY EmptySeq
<1>3. \A i \in 1..n : P[i] \in Seq(X) /\ P[i] # <<>> /\ P[i][1] # Sep BY ElementOfSeq
<1> HIDE DEF n, ss, t
<1>4. \A i \in 1..n : /\ Doubled(P[i]) \in Seq(X)
                      /\ Len(Doubled(P[i])) \in Nat \ {0} /\ Doubled(P[i])[1] = P[i][1]
  BY <1>3, PiecesType, DoubledBegins
<1>5. Len(t) \in Nat BY <1>1, LenProperties
<1>6. PICK scan \in [0..Len(t) -> ScanStates(X)] : Scans(t, scan) BY <1>1, ScanLoop, Zenon
<1>7. PICK d \in [0..Len(ss) -> Seq(X)] : JoinsOf(ss, d) BY <1>1, FlattenLoop, Zenon
<1>8. d[0] = <<>> /\ d[n] = t BY <1>1, <1>7 DEF JoinsOf
<1>9. \A i \in 0..n : Len(d[i]) \in Nat BY <1>1, <1>7, LenProperties
<1> DEFINE Good(i) == HasRead(scan[Len(d[i])], SubSeq(P, 1, i - 1), P[i])
           T == {i \in 0..n : i # 0 => Good(i)}
<1>10. 0 \in T BY <1>2
<1>11. ASSUME NEW i \in 1..n, i - 1 \in T PROVE i \in T
  <2>1. i \in 0..n /\ i - 1 \in 0..n /\ i # 0 /\ i \in 1..Len(ss) BY <1>1, <1>2
  <2> DEFINE at == Len(d[i - 1])
             q == Doubled(P[i])
  <2>2. at \in Nat BY <1>9, <2>1
  <2>3. Len(d[i]) = at + Len(ss[i]) /\ Lies(t, at, ss[i]) BY <1>1, <1>7, <2>1, JoinsLie
  <2>4. q \in Seq(X) /\ Len(q) \in Nat \ {0} /\ q[1] # Sep BY <1>3, <1>4
  <2>5. P[i] \in Seq(X) /\ <<>> \in Seq(X) /\ <<>> \o P[i] = P[i]
    <3>1. P[i] \in Seq(X) BY <1>3
    <3> QED BY <3>1, EmptySeq, ConcatEmptySeq
  <2>6. CASE i = 1
    <3>1. ss[i] = q BY <1>1, <2>6
    <3>2. at = 0
      <4>1. d[i - 1] = <<>> BY <1>8, <2>6
      <4> QED BY <4>1, EmptySeq
    <3>3. HasRead(scan[at], <<>>, <<>>)
      <4>1. scan[0] = Unread BY <1>6 DEF Scans
      <4> QED BY <3>2, <4>1 DEF HasRead, Unread
    <3> HIDE DEF at
    <3>4. HasRead(scan[at + Len(q)], <<>>, <<>> \o P[i])
      BY <1>1, <1>6, <2>2, <2>3, <2>5, <3>1, <3>3, ReadPart
    <3>5. SubSeq(P, 1, i - 1) = <<>> BY <2>6, SubSeqEmpty
    <3>6. Good(i) BY <2>3, <2>5, <3>1, <3>4, <3>5
    <3> QED BY <2>1, <3>6
  <2>7. CASE i # 1
    <3> DEFINE A == SubSeq(P, 1, (i - 1) - 1)
               B == P[i - 1]
    <3>1. ss[i] = <<Sep>> \o q BY <1>1, <2>7
    <3>2. /\ Len(ss[i]) = 1 + Len(q) /\ Lies(ss[i], 1, q) /\ ss[i][1] = Sep /\ ss[i][2] # Sep
      <4>1. <<Sep>> \in Seq(X) /\ Len(<<Sep>>) = 1 /\ <<Sep>>[1] = Sep OBVIOUS
      <4> DEFINE one == <<Sep>>
      <4> HIDE DEF q
      <4>2. Len(ss[i]) = 1 + Len(q) /\ Lies(ss[i], 1, q)
        <5>1. one \in Seq(X) /\ Len(one) = 1 /\ ss[i] = one \o q BY <3>1, <4>1
        <5> HIDE DEF one
        <5>2. Len(one \o q) = Len(one) + Len(q) /\ Lies(one \o q, Len(one), q)
          BY <2>4, <5>1, ConcatLies
        <5> QED BY <5>1, <5>2
      <4>3. ss[i][1] = Sep
        <5>1. 1 \in 1..(Len(<<Sep>>) + Len(q)) /\ 1 <= Len(<<Sep>>) BY <2>4, <4>1
        <5> QED BY <2>4, <3>1, <4>1, <5>1, ConcatProperties
      <4>4. ss[i][1 + 1] = q[1]
        <5>1. 1 \in 1..Len(q) BY <2>4
        <5> QED BY <4>2, <5>1 DEF Lies
      <4> QED BY <2>4, <4>2, <4>3, <4>4
    <3>3. HasRead(scan[at], A, B) BY <1>11, <2>1, <2>7
    <3> HIDE DEF at, q
    <3>4. /\ at + 2 <= Len(t) /\ t[at + 1] = Sep /\ t[at + 2] # Sep
      <4>1. at + Len(ss[i]) <= Len(t) /\ \A j \in 1..Len(ss[i]) : t[at + j] = ss[i][j]
        BY <2>3 DEF Lies
      <4>2. 1 \in 1..Len(ss[i]) /\ 2 \in 1..Len(ss[i]) /\ Len(ss[i]) >= 2 BY <2>4, <3>2
      <4>3. Len(ss[i]) \in Nat BY <2>4, <3>2
      <4> QED BY <1>5, <2>2, <3>2, <4>1, <4>2, <4>3
    <3> DEFINE k == at + 1
    <3>5. /\ k \in 1..Len(t) /\ k # Len(t) /\ k - 1 = at /\ at \in 0..Len(t) /\ k \in Nat
          /\ t[k] = Sep /\ t[k + 1] # Sep
      BY <1>5, <2>2, <3>4
    <3> HIDE DEF k, A, B
    <3>6. scan[k] = ScanStep(t, k, scan[at]) /\ scan[at] \in ScanStates(X)
      BY <1>6, <3>5 DEF Scans
    <3>7. HasRead(scan[k], Append(A, B), <<>>)
      <4>1. HasRead(ScanStep(t, k, scan[at]), Append(A, B), <<>>)
        BY <3>3, <3>5, <3>6, ScanSingle, Zenon
      <4> QED BY <3>6, <4>1
    <3>8. Append(A, B) = SubSeq(P, 1, i - 1)
      <4>1. i - 1 \in 1..Len(P) BY <1>2, <2>7 DEF n
      <4>2. <<>> \in Seq(Seq(X)) BY EmptySeq
      <4>3. Append(<<>> \o SubSeq(P, 1, (i - 1) - 1), P[i - 1]) = <<>> \o SubSeq(P, 1, i - 1)
        BY <4>1, <4>2, AppendNext
      <4>4. \A j \in 0..Len(P) : SubSeq(P, 1, j) \in Seq(Seq(X))
        <5> TAKE j \in 0..Len(P)
        <5>1. Len(P) \in Nat BY <1>2 DEF n
        <5>2. \A m \in 1..j : P[m] \in Seq(X)
          <6>1. \A m \in 1..j : m \in 1..Len(P) BY <5>1
          <6> QED BY <6>1, ElementOfSeq
        <5>3. 1 \in Int /\ j \in Int BY <5>1
        <5> QED BY <5>2, <5>3, SubSeqProperties
      <4>5. (i - 1) - 1 \in 0..Len(P) /\ i - 1 \in 0..Len(P) BY <1>2, <2>7 DEF n
      <4>6. /\ <<>> \o SubSeq(P, 1, (i - 1) - 1) = SubSeq(P, 1, (i - 1) - 1)
            /\ <<>> \o SubSeq(P, 1, i - 1) = SubSeq(P, 1, i - 1)
        BY <4>4, <4>5, ConcatEmptySeq
      <4> QED BY <4>3, <4>6 DEF A, B
    <3>9. Lies(t, k, q)
      <4>1. ss[i] \in Seq(X) BY <1>1, <2>1, ElementOfSeq
      <4> QED BY <1>1, <2>2, <2>3, <2>4, <3>2, <4>1, LiesInside DEF k
    <3>10. HasRead(scan[k + Len(q)], SubSeq(P, 1, i - 1), <<>> \o P[i])
      <4>1. HasRead(scan[k], SubSeq(P, 1, i - 1), <<>>) BY <3>7, <3>8
      <4> QED BY <1>1, <1>6, <2>5, <3>5, <3>9, <4>1, ReadPart DEF q
    <3>11. Len(d[i]) = k + Len(q) BY <2>2, <2>3, <2>4, <3>2 DEF k
    <3>12. Good(i) BY <2>5, <3>10, <3>11
    <3> QED BY <2>1, <3>12
  <2> QED BY <2>6, <2>7
<1> HIDE DEF T, Good
<1>12. 0..n \subseteq T BY <1>2, <1>10, <1>11, BoundedInduction
<1>13. Good(n)
  <2>1. n \in 0..n /\ n # 0 BY <1>2
  <2> QED BY <1>12, <2>1 DEF T
<1>14. Scan(t) = scan[Len(t)] BY <1>6 DEF Scans
<1> QED BY <1>8, <1>13, <1>14 DEF Good, n, t

\* SearchParts undoes SetSearchWithParts: a search of any parts is split into the same
\* parts, in the same order, if no part is empty or begins with the separator
\* (page.go:30-59, 179-188).
THEOREM RoundTrip ==
    ASSUME NEW X, Sep \in X, NEW P \in Seq(Seq(X)),
           \A i \in 1..Len(P) : P[i] # <<>> /\ P[i][1] # Sep
    PROVE  SearchParts(Joined(P)) = P
<1> DEFINE t == Joined(P)
<1>1. t \in Seq(X) BY LinksType
<1>2. Len(P) \in Nat /\ DOMAIN P = 1..Len(P) BY LenProperties
<1>3. /\ SearchParts(t) = Filtered(AllParts(t), Range(AllParts(t)) \ {<<>>})
      /\ SearchParts(t) \in Seq(Seq(X))
      /\ Range(SearchParts(t)) = Range(AllParts(t)) \ {<<>>}
  BY <1>1, PartsType
<1>4. CASE P # <<>>
  <2>1. HasRead(Scan(t), SubSeq(P, 1, Len(P) - 1), P[Len(P)]) BY <1>4, ReadJoined
  <2> HIDE DEF t
  <2>2. Len(P) \in 1..Len(P)
    <3>1. Len(P) \in Nat \ {0} BY <1>4, EmptySeq
    <3> QED BY <3>1
  <2>3. Append(SubSeq(P, 1, Len(P) - 1), P[Len(P)]) = P
    <3>1. <<>> \in Seq(Seq(X)) BY EmptySeq
    <3>2. Append(<<>> \o SubSeq(P, 1, Len(P) - 1), P[Len(P)]) = <<>> \o SubSeq(P, 1, Len(P))
      BY <2>2, <3>1, AppendNext
    <3>3. SubSeq(P, 1, Len(P)) = P BY SubSeqFull
    <3>4. SubSeq(P, 1, Len(P) - 1) \in Seq(Seq(X))
      <4>1. \A m \in 1..(Len(P) - 1) : P[m] \in Seq(X)
        <5>1. \A m \in 1..(Len(P) - 1) : m \in 1..Len(P) BY <1>2
        <5> QED BY <5>1, ElementOfSeq
      <4>2. 1 \in Int /\ Len(P) - 1 \in Int BY <1>2
      <4> QED BY <4>1, <4>2, SubSeqProperties
    <3> QED BY <3>2, <3>3, <3>4, ConcatEmptySeq
  <2>4. AllParts(t) = P BY <2>1, <2>3 DEF AllParts, HasRead
  <2>5. \A i \in 1..Len(P) : P[i] \in Range(P) \ {<<>>} BY <1>2 DEF Range
  <2>6. Filtered(P, Range(P) \ {<<>>}) = P BY <2>5, FilteredAll
  <2> QED BY <1>3, <2>4, <2>6 DEF t
<1>5. CASE P = <<>>
  <2>1. t = <<>>
    <3>1. Links(P) = <<>>
      <4>1. Links(P) \in Seq(Seq(X)) /\ Len(Links(P)) = Len(P) BY LinksType
      <4>2. Len(P) = 0 BY <1>5, EmptySeq
      <4> QED BY <4>1, <4>2, EmptySeq
    <3>2. Joined(P) = FlattenSeq(<<>>) BY <3>1, LinksType
    <3>3. FlattenSeq(<<>>) = <<>>
      <4>1. Len(<<>>) = 0 BY EmptySeq
      <4> QED BY <4>1, Zenon DEF FlattenSeq
    <3> QED BY <3>2, <3>3
  <2>2. PICK scan \in [0..Len(t) -> ScanStates(X)] : Scans(t, scan) BY <1>1, ScanLoop, Zenon
  <2>3. Len(t) = 0 BY <2>1, EmptySeq
  <2>4. Scan(t) = Unread BY <2>2, <2>3 DEF Scans
  <2>5. AllParts(t) = <<<<>>>> BY <2>4 DEF AllParts, Unread
  <2>6. Range(AllParts(t)) = {<<>>} BY <2>5 DEF Range
  <2>7. Range(SearchParts(t)) = {} BY <1>3, <2>6
  <2> DEFINE s == SearchParts(t)
  <2>8. s \in Seq(Seq(X)) BY <1>3
  <2>9. Len(s) \in Nat /\ DOMAIN s = 1..Len(s) BY <2>8, LenProperties
  <2>10. Range(s) = {} BY <2>7
  <2> HIDE DEF s
  <2>11. Len(s) = 0
    <3> SUFFICES ASSUME Len(s) # 0 PROVE FALSE OBVIOUS
    <3>1. 1 \in DOMAIN s BY <2>9
    <3> QED BY <2>10, <3>1 DEF Range
  <2>12. s = <<>> BY <2>8, <2>11, EmptySeq
  <2> QED BY <1>5, <2>12 DEF s
<1> QED BY <1>4, <1>5

-----------------------------------------------------------------------------
(* Parts and selectors. *)

Strings == Seq(Tokens)

LEMMA SepIsToken == Sep \in Characters /\ Sep \in Tokens
BY DEF Characters, Tokens

LEMMA SelectorTokenIs ==
    ASSUME NEW x \in Texts
    PROVE  /\ [selector |-> x] \in SelectorTokens /\ [selector |-> x] \in Tokens
           /\ [selector |-> x] \notin Characters /\ [selector |-> x].selector = x
<1>1. [selector |-> x] \in SelectorTokens /\ [selector |-> x].selector = x BY DEF SelectorTokens
<1> QED BY <1>1, TokenAssumption DEF Tokens

LEMMA EverythingType ==
    Everything \in AllSelectors /\ WellFormed(Everything) /\ Everything \in Texts
<1>1. <<>> \in Seq([op : Ops, values : SUBSET (Clusters \cup Namespaces)]) BY EmptySeq
<1>2. Everything \in AllSelectors BY <1>1 DEF Everything, AllSelectors
<1>3. \A k \in ExprKeys : Range(Everything[k].exprs) = {}
  <2>1. \A k \in ExprKeys : Everything[k].exprs = <<>> BY DEF Everything
  <2>2. Range(<<>>) = {} BY DEF Range
  <2> QED BY <2>1, <2>2
<1>4. WellFormed(Everything) BY <1>3 DEF WellFormed
<1> QED BY <1>2, <1>4 DEF Texts

\* A selector that is restricted can be written, is not the one of everything, and
\* differs in the expressions of one key only.
LEMMA RestrictedType ==
    ASSUME NEW s \in AllSelectors, WellFormed(s), NEW key \in ExprKeys,
           NEW values \in SUBSET (Clusters \cup Namespaces), values # {}
    PROVE  /\ Restricted(s, key, values) \in AllSelectors
           /\ WellFormed(Restricted(s, key, values))
           /\ Restricted(s, key, values) # Everything
           /\ Restricted(s, key, values)[key].label = s[key].label
           /\ \A k \in ExprKeys : k # key => Restricted(s, key, values)[k] = s[k]
<1> DEFINE Exprs == [op : Ops, values : SUBSET (Clusters \cup Namespaces)]
           Entries == [label : Clusters \cup Namespaces \cup {None}, exprs : Seq(Exprs)]
           e == [op |-> "In", values |-> values]
           r == Restricted(s, key, values)
           c == [s[key] EXCEPT !.exprs = <<e>>]
<1>1. AllSelectors = [ExprKeys -> Entries] BY DEF AllSelectors
<1>2. s[key] \in Entries BY <1>1
<1>3. e \in Exprs /\ e.op = "In" /\ e.values = values BY DEF Ops
<1> HIDE DEF Exprs, e
<1>4. <<e>> \in Seq(Exprs) /\ Range(<<e>>) = {e} BY <1>3 DEF Range
<1>5. c \in Entries /\ c.exprs = <<e>> /\ c.label = s[key].label BY <1>2, <1>4
<1>6. r = [s EXCEPT ![key] = c] BY DEF Restricted, e
<1> HIDE DEF Entries, c, r
<1>7. r \in [ExprKeys -> Entries] BY <1>1, <1>5, <1>6
<1>8. r[key] = c /\ \A k \in ExprKeys : k # key => r[k] = s[k] BY <1>1, <1>6
<1>9. WellFormed(r)
  <2>1. ASSUME NEW k \in ExprKeys, NEW f \in Range(r[k].exprs)
        PROVE  f.op \in {"In", "NotIn"} <=> f.values # {}
    <3>1. CASE k = key
      <4>1. f = e BY <1>4, <1>5, <1>8, <2>1, <3>1
      <4> QED BY <1>3, <4>1
    <3>2. CASE k # key
      <4>1. f \in Range(s[k].exprs) BY <1>8, <2>1, <3>2
      <4> QED BY <4>1 DEF WellFormed
    <3> QED BY <3>1, <3>2
  <2> QED BY <2>1 DEF WellFormed
<1>10. r # Everything
  <2>1. Everything[key].exprs = <<>> BY DEF Everything
  <2>2. <<e>> # <<>>
    <3>1. Len(<<e>>) = 1 /\ Len(<<>>) = 0 BY <1>4, EmptySeq
    <3> QED BY <1>4, <3>1, EmptySeq
  <2>3. r[key].exprs = <<e>> BY <1>5, <1>8
  <2>4. r[key].exprs # <<>> BY <2>2, <2>3, Zenon
  <2> QED BY <2>1, <2>4, Zenon
<1> QED BY <1>1, <1>5, <1>7, <1>8, <1>9, <1>10 DEF r

LEMMA UsableValues ==
    ASSUME NEW values \in SUBSET (Clusters \cup Namespaces \cup {NoName}), ~Unusable(values)
    PROVE  values \in SUBSET (Clusters \cup Namespaces) /\ values # {}
BY DEF Unusable

\* What is left of a part when it is trimmed.
LEMMA TrimmedType ==
    ASSUME NEW p \in Strings
    PROVE  Trimmed(p) \in Strings /\ Range(Trimmed(p)) = Range(p) \ {Space}
<1>1. Filtered(p, Range(p) \ {Space}) \in Seq(Tokens)
      /\ Range(Filtered(p, Range(p) \ {Space})) = Range(p) \cap (Range(p) \ {Space})
  BY FilteredRange DEF Strings
<1> QED BY <1>1 DEF Trimmed, Strings

\* A part that is advanced begins with a selector, and its text is that of one or none.
LEMMA OtherPart ==
    ASSUME NEW p \in Strings, p # <<>>, IsAdvanced(p)
    PROVE  p[1] # Sep /\ TextOf(p) \in Texts
<1>1. Head(p) \in Tokens /\ Head(p) = p[1] BY HeadTailProperties DEF Strings
<1>2. p[1] \notin Characters /\ p[1] \in SelectorTokens BY <1>1 DEF IsAdvanced, Tokens
<1>3. p[1] \in Range(p) \ {Space}
  <2>1. DOMAIN p = 1..Len(p) /\ Len(p) \in Nat BY LenProperties DEF Strings
  <2>2. Len(p) # 0 BY EmptySeq DEF Strings
  <2>3. 1 \in DOMAIN p BY <2>1, <2>2
  <2>4. Space \in Characters BY DEF Characters
  <2> QED BY <1>2, <2>3, <2>4 DEF Range
<1> DEFINE t == Trimmed(p)
<1>4. t \in Seq(Tokens) /\ p[1] \in Range(t) BY <1>3, TrimmedType DEF Strings
<1>5. TextOf(p) = IF Len(t) = 1 THEN Head(t).selector ELSE NoText BY DEF TextOf
<1> HIDE DEF t
<1>6. CASE Len(t) = 1
  <2>1. DOMAIN t = 1..1 BY <1>4, <1>6, LenProperties
  <2>2. p[1] = t[1] BY <1>4, <2>1 DEF Range
  <2>3. Head(t) = t[1] BY <1>4, <1>6
  <2>4. Head(t).selector \in Texts BY <1>2, <2>2, <2>3 DEF SelectorTokens
  <2> QED BY <1>2, <1>5, <1>6, <2>4, SepIsToken
<1>7. CASE Len(t) # 1 BY <1>2, <1>5, <1>7, SepIsToken DEF Texts
<1> QED BY <1>6, <1>7

LEMMA AdvancedPart ==
    ASSUME NEW x \in Texts
    PROVE  /\ Advanced(x) \in Strings /\ Advanced(x) # <<>> /\ Advanced(x)[1] # Sep
           /\ IsAdvanced(Advanced(x)) /\ TextOf(Advanced(x)) = x
<1> DEFINE token == [selector |-> x]
<1>1. token \in Tokens /\ token \notin Characters /\ token.selector = x BY SelectorTokenIs
<1>2. token # Sep /\ token # Space BY <1>1, SepIsToken DEF Characters
<1>3. Advanced(x) = <<token>> BY DEF Advanced
<1> HIDE DEF token
<1>4. <<token>> \in Seq(Tokens) /\ Len(<<token>>) = 1 /\ Head(<<token>>) = token
      /\ <<token>>[1] = token /\ Range(<<token>>) = {token}
  BY <1>1 DEF Range
<1>5. <<token>> # <<>> BY <1>4, EmptySeq
<1>6. Trimmed(<<token>>) = <<token>>
  <2>1. \A i \in 1..Len(<<token>>) : <<token>>[i] \in Range(<<token>>) \ {Space}
    BY <1>2, <1>4
  <2> QED BY <1>4, <2>1, FilteredAll DEF Trimmed
<1>7. TextOf(<<token>>) = x BY <1>1, <1>4, <1>6 DEF TextOf
<1> QED BY <1>1, <1>2, <1>3, <1>4, <1>5, <1>7 DEF IsAdvanced, Strings

LEMMA ClientPart ==
    ASSUME NEW p \in ClientParts
    PROVE  p \in Strings /\ p # <<>> /\ Head(p) = p[1]
<1>1. p \in Seq(Tokens) /\ p # <<>> BY TokenAssumption
<1>2. Head(p) = p[1] BY <1>1
<1> QED BY <1>1, <1>2 DEF Strings

\* The parts of a string, its plain ones and its selectors.
LEMMA PartsOf ==
    ASSUME NEW t \in Strings
    PROVE  /\ SearchParts(t) \in Seq(Strings)
           /\ \A p \in Range(SearchParts(t)) : p \in Strings /\ p # <<>>
           /\ Said(SearchParts(t)) \subseteq Texts
<1> DEFINE parts == SearchParts(t)
<1>1. parts \in Seq(Strings) /\ Range(parts) = Range(AllParts(t)) \ {<<>>}
  BY PartsType DEF Strings
<1> HIDE DEF parts
<1>2. \A p \in Range(parts) : p \in Strings /\ p # <<>>
  <2>1. \A p \in Range(parts) : p \in Strings
    <3>1. DOMAIN parts = 1..Len(parts) BY <1>1, LenProperties
    <3> QED BY <1>1, <3>1, ElementOfSeq DEF Range
  <2> QED BY <1>1, <2>1
<1>3. \A p \in SelectorParts(parts) : TextOf(p) \in Texts
  BY <1>2, OtherPart DEF SelectorParts
<1> QED BY <1>1, <1>2, <1>3 DEF Said, parts

\* What SearchSelector makes of a text.
Read(x) == IF x = Blank THEN Everything ELSE x

\* The selector that is found is said by one of the parts.
LEMMA SelectorFound ==
    ASSUME NEW t \in Strings
    PROVE  /\ Said(SearchParts(t)) = {} => SearchSelector(t) = Everything
           /\ Said(SearchParts(t)) # {} =>
                 \E x \in Said(SearchParts(t)) : SearchSelector(t) = Read(x)
           /\ SearchSelector(t) \in Texts \ {Blank}
<1> DEFINE parts == SearchParts(t)
           found == Filtered(parts, SelectorParts(parts))
<1>1. parts \in Seq(Strings) /\ Said(parts) \subseteq Texts BY PartsOf
<1>2. SearchSelector(t) = IF found = <<>> \/ TextOf(Head(found)) = Blank THEN Everything
                          ELSE TextOf(Head(found))
  BY Zenon DEF SearchSelector
<1> HIDE DEF parts
<1>3. found \in Seq(Strings) /\ Range(found) = Range(parts) \cap SelectorParts(parts)
  BY <1>1, FilteredRange
<1>4. Range(found) = SelectorParts(parts) BY <1>3 DEF SelectorParts
<1> HIDE DEF found
<1>5. DOMAIN found = 1..Len(found) /\ Len(found) \in Nat BY <1>3, LenProperties
<1>6. Everything \in Texts \ {Blank} BY EverythingType, TokenAssumption
<1>7. CASE found = <<>>
  <2>1. Len(found) = 0 BY <1>7, EmptySeq
  <2>2. Range(found) = {} BY <1>5, <2>1 DEF Range
  <2>3. Said(parts) = {} BY <1>4, <2>2 DEF Said
  <2> QED BY <1>2, <1>6, <1>7, <2>3 DEF parts
<1>8. CASE found # <<>>
  <2>1. 1 \in DOMAIN found
    <3>1. Len(found) \in Nat \ {0} BY <1>3, <1>8, EmptySeq
    <3> QED BY <1>5, <3>1
  <2>2. Head(found) = found[1] BY <1>3, <1>8
  <2>3. Head(found) \in SelectorParts(parts) BY <1>4, <2>1, <2>2 DEF Range
  <2> DEFINE x == TextOf(Head(found))
  <2>4. x \in Said(parts) BY <2>3 DEF Said
  <2>5. SearchSelector(t) = Read(x) BY <1>2, <1>8 DEF Read
  <2>6. Read(x) \in Texts \ {Blank} BY <1>1, <1>6, <2>4 DEF Read
  <2> HIDE DEF x
  <2> QED BY <2>4, <2>5, <2>6 DEF parts
<1> QED BY <1>7, <1>8

\* What is behind a space is a matter of the plain parts.
LEMMA BehindOfPlain ==
    ASSUME NEW A, NEW B, PlainOnes(A) = PlainOnes(B)
    PROVE  Behind(A) = Behind(B)
BY DEF Behind

-----------------------------------------------------------------------------
(* The calls. *)

LEMMA JoinedNothing == Joined(<<>>) = <<>>
<1>1. <<>> \in Seq(Seq(Tokens)) /\ Len(<<>>) = 0 BY EmptySeq
<1>2. Links(<<>>) \in Seq(Seq(Tokens)) /\ Len(Links(<<>>)) = Len(<<>>)
      /\ Joined(<<>>) = FlattenSeq(Links(<<>>))
  BY <1>1, LinksType, SepIsToken
<1>3. Links(<<>>) = <<>> BY <1>1, <1>2, EmptySeq
<1>4. FlattenSeq(<<>>) = <<>> BY <1>1, Zenon DEF FlattenSeq
<1> QED BY <1>2, <1>3, <1>4

\* What SetSearchSelector makes of a string.
LEMMA WithSelectorDoes ==
    ASSUME NEW t \in Strings, NEW s \in AllSelectors, WellFormed(s)
    PROVE  /\ WithSelector(t, s) \in Strings
           /\ (\A p \in PlainOnes(SearchParts(t)) : p[1] # Sep) =>
                 /\ PlainOnes(SearchParts(WithSelector(t, s))) = PlainOnes(SearchParts(t))
                 /\ Said(SearchParts(WithSelector(t, s))) = {Written(s)}
<1> DEFINE parts == SearchParts(t)
           rest == Filtered(parts, PlainOnes(parts))
           a == Advanced(Written(s))
           P == <<a>> \o rest
<1>1. parts \in Seq(Strings) /\ \A p \in Range(parts) : p \in Strings /\ p # <<>> BY PartsOf
<1>2. WithSelector(t, s) = Joined(P) BY Zenon DEF WithSelector
<1> HIDE DEF parts
<1>3. a \in Strings /\ a # <<>> /\ a[1] # Sep /\ IsAdvanced(a) /\ TextOf(a) = Written(s)
  <2>1. Written(s) \in Texts BY DEF Written, Texts
  <2> QED BY <2>1, AdvancedPart
<1> HIDE DEF a
<1>4. rest \in Seq(Strings) /\ Range(rest) = Range(parts) \cap PlainOnes(parts)
  BY <1>1, FilteredRange
<1>5. Range(rest) = PlainOnes(parts) BY <1>4 DEF PlainOnes
<1> HIDE DEF rest
<1> DEFINE one == <<a>>
<1>6. one \in Seq(Strings) /\ Range(one) = {a} /\ Len(one) = 1 BY <1>3 DEF Range
<1>7. P = one \o rest OBVIOUS
<1> HIDE DEF one, P
<1>8. P \in Seq(Strings) /\ DOMAIN P = 1..Len(P)
  <2>1. P \in Seq(Strings) BY <1>4, <1>6, <1>7, ConcatProperties
  <2> QED BY <2>1, LenProperties
<1>9. Range(P) = {a} \cup PlainOnes(parts)
  BY <1>4, <1>5, <1>6, <1>7, RangeConcatenation
<1>10. Joined(P) \in Strings BY <1>8, LinksType, SepIsToken DEF Strings
<1>11. ASSUME \A p \in PlainOnes(parts) : p[1] # Sep
       PROVE  /\ PlainOnes(SearchParts(Joined(P))) = PlainOnes(parts)
              /\ Said(SearchParts(Joined(P))) = {Written(s)}
  <2>1. \A p \in Range(P) : p # <<>> /\ p[1] # Sep BY <1>1, <1>3, <1>9, <1>11 DEF PlainOnes
  <2>2. \A i \in 1..Len(P) : P[i] # <<>> /\ P[i][1] # Sep BY <1>8, <2>1 DEF Range
  <2>3. SearchParts(Joined(P)) = P BY <1>8, <2>2, RoundTrip, SepIsToken DEF Strings
  <2>4. \A p \in PlainOnes(parts) : ~IsAdvanced(p) BY DEF PlainOnes, SelectorParts
  <2>5. SelectorParts(P) = {a} BY <1>3, <1>9, <2>4 DEF SelectorParts
  <2>6. PlainOnes(P) = PlainOnes(parts)
    <3>1. PlainOnes(P) = Range(P) \ {a} BY <2>5 DEF PlainOnes
    <3>2. a \notin PlainOnes(parts) BY <1>3, <2>4
    <3> QED BY <1>9, <3>1, <3>2
  <2>7. Said(P) = {Written(s)} BY <1>3, <2>5 DEF Said
  <2> QED BY <2>3, <2>6, <2>7
<1> QED BY <1>2, <1>10, <1>11 DEF parts

\* Namespaces and Clusters leave the string, or give it a restricted selector.
LEMMA RestrictToIs ==
    ASSUME NEW t \in Strings, NEW key \in ExprKeys,
           NEW values \in SUBSET (Clusters \cup Namespaces \cup {NoName})
    PROVE  \/ /\ RestrictTo(t, key, values) = t
              /\ Unusable(values) \/ SearchSelector(t) = NoText
           \/ /\ ~Unusable(values) /\ SearchSelector(t) \in AllSelectors
              /\ WellFormed(SearchSelector(t))
              /\ Restricted(SearchSelector(t), key, values) \in AllSelectors
              /\ WellFormed(Restricted(SearchSelector(t), key, values))
              /\ Restricted(SearchSelector(t), key, values) # Everything
              /\ RestrictTo(t, key, values)
                     = WithSelector(t, Restricted(SearchSelector(t), key, values))
<1> DEFINE s == SearchSelector(t)
<1>1. s \in Texts \ {Blank} BY SelectorFound
<1>2. RestrictTo(t, key, values) =
          IF s = NoText \/ Unusable(values) THEN t
          ELSE WithSelector(t, Restricted(s, key, values))
  BY Zenon DEF RestrictTo
<1> HIDE DEF s
<1>3. CASE s = NoText \/ Unusable(values) BY <1>2, <1>3 DEF s
<1>4. CASE ~(s = NoText \/ Unusable(values))
  <2>1. s \in AllSelectors /\ WellFormed(s) BY <1>1, <1>4 DEF Texts
  <2>2. values \in SUBSET (Clusters \cup Namespaces) /\ values # {} BY <1>4, UsableValues
  <2>3. /\ Restricted(s, key, values) \in AllSelectors
        /\ WellFormed(Restricted(s, key, values)) /\ Restricted(s, key, values) # Everything
    BY <2>1, <2>2, RestrictedType
  <2> QED BY <1>2, <1>4, <2>1, <2>3 DEF s
<1> QED BY <1>3, <1>4

LEMMA RestrictToKeeps ==
    ASSUME NEW t \in Strings, NEW key \in ExprKeys,
           NEW values \in SUBSET (Clusters \cup Namespaces \cup {NoName})
    PROVE  /\ RestrictTo(t, key, values) \in Strings
           /\ (\A p \in PlainOnes(SearchParts(t)) : p[1] # Sep) =>
                 PlainOnes(SearchParts(RestrictTo(t, key, values))) = PlainOnes(SearchParts(t))
<1> DEFINE r == Restricted(SearchSelector(t), key, values)
<1>1. CASE RestrictTo(t, key, values) = t BY <1>1
<1>2. CASE /\ r \in AllSelectors /\ WellFormed(r)
           /\ RestrictTo(t, key, values) = WithSelector(t, r)
  <2> HIDE DEF r
  <2> QED BY <1>2, WithSelectorDoes
<1> QED BY <1>1, <1>2, RestrictToIs

\* What the string says is what it ought to say, which is one selector at most, or the
\* one text that cannot be read, which has been written for the empty selector.
Means(said, ss) ==
    /\ \A r, s \in ss : r = s
    /\ said = ss \/ (said = {NoText} /\ NoText \notin ss)

\* A call means for the string what it means for the selector.
LEMMA RestrictToMeans ==
    ASSUME NEW t \in Strings, NEW ss \in SUBSET Texts, Means(Said(SearchParts(t)), ss),
           \A p \in PlainOnes(SearchParts(t)) : p[1] # Sep,
           NEW key \in ExprKeys, NEW values \in SUBSET (Clusters \cup Namespaces \cup {NoName})
    PROVE  Means(Said(SearchParts(RestrictTo(t, key, values))), RestrictAll(ss, key, values))
<1> DEFINE s == SearchSelector(t)
           r == Restricted(s, key, values)
           said == Said(SearchParts(t))
           ends == Said(SearchParts(RestrictTo(t, key, values)))
           from == IF ss = {} THEN {Everything} ELSE ss
<1>1. /\ said = {} => s = Everything
      /\ said # {} => \E x \in said : s = Read(x)
  BY SelectorFound
<1>2. Blank # NoText /\ Everything # NoText /\ Everything # Blank
  BY TokenAssumption, EverythingType
<1>3. CASE Unusable(values)
  <2>1. RestrictAll(ss, key, values) = ss BY <1>3 DEF RestrictAll
  <2>2. RestrictTo(t, key, values) = t BY <1>3, RestrictToIs
  <2> QED BY <2>1, <2>2
<1>4. CASE ~Unusable(values)
  <2>1. RestrictAll(ss, key, values) = {RestrictedText(x, key, values) : x \in from}
    BY <1>4 DEF RestrictAll
  <2>2. PICK x : from = {x} /\ (ss = {} => x = Everything)
    <3>1. CASE ss = {} BY <3>1
    <3>2. CASE ss # {}
      <4>1. PICK y \in ss : TRUE BY <3>2
      <4>2. ss = {y} BY <4>1 DEF Means
      <4> QED BY <3>2, <4>2
    <3> QED BY <3>1, <3>2
  <2>3. x \in Texts BY <2>2, EverythingType
  <2> HIDE DEF from
  <2>4. RestrictAll(ss, key, values) = {RestrictedText(x, key, values)} BY <2>1, <2>2
  <2>5. RestrictedText(x, key, values) =
            IF x = NoText THEN NoText ELSE Restricted(Read(x), key, values)
    BY <1>2 DEF RestrictedText, Read
  <2>6. CASE s = NoText
    <3>1. ends = said
      <4>1. RestrictTo(t, key, values) = t BY <2>6, RestrictToIs, TokenAssumption
      <4> QED BY <4>1
    <3>2. NoText \in said BY <1>1, <1>2, <2>6 DEF Read
    <3>3. said = {NoText} BY <3>2 DEF Means
    <3>4. x # NoText => RestrictedText(x, key, values) # NoText
      <4> SUFFICES ASSUME x # NoText PROVE RestrictedText(x, key, values) # NoText OBVIOUS
      <4>1. Read(x) \in AllSelectors /\ WellFormed(Read(x))
        BY <2>3, EverythingType DEF Read, Texts
      <4>2. values \in SUBSET (Clusters \cup Namespaces) /\ values # {}
        BY <1>4, UsableValues
      <4>3. Restricted(Read(x), key, values) \in AllSelectors BY <4>1, <4>2, RestrictedType
      <4> QED BY <2>5, <4>3, TokenAssumption
    <3>5. x = NoText => RestrictedText(x, key, values) = NoText BY <2>5
    <3> HIDE DEF said, ends, s
    <3> QED BY <2>4, <3>1, <3>3, <3>4, <3>5 DEF Means, ends
  <2>7. CASE s # NoText
    <3>1. /\ r \in AllSelectors /\ WellFormed(r) /\ r # Everything
          /\ RestrictTo(t, key, values) = WithSelector(t, r)
      BY <1>4, <2>7, RestrictToIs
    <3>2. ends = {r}
      <4> HIDE DEF r
      <4>1. Written(r) = r BY <3>1 DEF Written
      <4> QED BY <3>1, <4>1, WithSelectorDoes
    <3>3. said = ss
      <4>1. said # {NoText} BY <1>1, <1>2, <2>7 DEF Read
      <4> QED BY <4>1 DEF Means
    <3>4. s = Read(x)
      <4>1. CASE ss = {} BY <1>1, <1>2, <2>2, <3>3, <4>1 DEF Read
      <4>2. CASE ss # {}
        <5>1. said = {x} BY <2>2, <3>3, <4>2 DEF from
        <5> HIDE DEF said, s
        <5> QED BY <1>1, <5>1
      <4> QED BY <4>1, <4>2
    <3>5. x # NoText BY <1>2, <2>7, <3>4 DEF Read
    <3>6. RestrictedText(x, key, values) = r BY <2>5, <3>4, <3>5
    <3> HIDE DEF said, s, r
    <3> QED BY <2>4, <3>2, <3>6 DEF Means, ends
  <2> QED BY <2>6, <2>7
<1> QED BY <1>3, <1>4

-----------------------------------------------------------------------------
(* The server. *)

PageTokens == Tokens \cup {Paging, Open, Close}

\* A page that arrives is read as it was written.
LEMMA PageIsRead ==
    ASSUME NEW paged, NEW t \in Strings
    PROVE  /\ Marshal(paged, t) \in Seq(PageTokens)
           /\ Marshal(paged, t) = <<>> => t = <<>>
           /\ Marshal(paged, t) # <<>> => Unmarshal(Marshal(paged, t)) = t
<1> DEFINE first == IF paged THEN Paging ELSE Open
           value == <<first>> \o t \o <<Close>>
           inside == SubSeq(value, 2, Len(value) - 1)
<1>1. CASE ~paged /\ t = <<>>
  <2>1. Marshal(paged, t) = <<>> BY <1>1 DEF Marshal
  <2>2. <<>> \in Seq(PageTokens) BY EmptySeq
  <2> QED BY <1>1, <2>1, <2>2
<1>2. CASE ~(~paged /\ t = <<>>)
  <2>1. Marshal(paged, t) = value BY <1>2 DEF Marshal
  <2>2. first \in PageTokens /\ Close \in PageTokens BY DEF PageTokens
  <2>3. t \in Seq(PageTokens)
    <3>1. Tokens \subseteq PageTokens BY DEF PageTokens
    <3> QED BY <3>1, SeqMonotonic DEF Strings
  <2> HIDE DEF first
  <2>4. value \in Seq(PageTokens) /\ Len(value) = Len(t) + 2 BY <2>2, <2>3
  <2>5. value[Len(value)] = Close BY <2>2, <2>3, <2>4
  <2>6. \A i \in 1..Len(t) : value[i + 1] = t[i] BY <2>2, <2>3
  <2>7. Len(t) \in Nat BY LenProperties DEF Strings
  <2> HIDE DEF value
  <2>8. inside = t
    <3>1. inside \in Seq(PageTokens) /\ Len(inside) = Len(t) BY <2>4, <2>7
    <3>2. \A i \in 1..Len(t) : inside[i] = t[i] BY <2>4, <2>6, <2>7
    <3> QED BY <2>3, <3>1, <3>2, SeqEqual
  <2>9. value # <<>>
    <3>1. Len(value) # 0 BY <2>4, <2>7
    <3> QED BY <3>1, EmptySeq
  <2>10. Unmarshal(value) = t
    <3>1. inside \in Seq(Tokens) BY <2>8 DEF Strings
    <3> QED BY <2>5, <2>8, <2>9, <3>1 DEF Unmarshal
  <2> QED BY <2>1, <2>4, <2>9, <2>10
<1> QED BY <1>1, <1>2

LEMMA UnmarshalType ==
    ASSUME NEW value
    PROVE  Unmarshal(value) \in Strings
<1>1. <<>> \in Strings BY EmptySeq DEF Strings
<1> QED BY <1>1 DEF Unmarshal, Strings

LEMMA NothingIsRead == Unmarshal(<<>>) = <<>>
BY DEF Unmarshal

\* Nothing is found where a text cannot be read.
LEMMA FindsNothing ==
    ASSUME NEW texts, NoText \in texts
    PROVE  Places(texts) = {}
BY DEF Places

\* What is said finds what it ought to, or less where "<none>" was written.
LEMMA FindsSame ==
    ASSUME NEW said, NEW ss, NEW behind, Means(said, ss)
    PROVE  /\ Places(said \cup behind) \subseteq Places(ss \cup behind)
           /\ \/ Places(ss \cup behind) \subseteq Places(said \cup behind)
              \/ NoText \in said \cup behind /\ NoText \notin ss \cup behind
<1>1. CASE said = ss BY <1>1
<1>2. CASE said = {NoText} /\ NoText \notin ss
  <2>1. Places(said \cup behind) = {} BY <1>2, FindsNothing
  <2>2. NoText \in behind => Places(ss \cup behind) = {} BY FindsNothing
  <2> QED BY <1>2, <2>1, <2>2
<1> QED BY <1>1, <1>2 DEF Means

\* What the list branch of Proxy makes of the search that it gets.
Serves(t) == IF GetClusters(t) = {} THEN RestrictTo(t, "cluster", {Default}) ELSE t

\* Wanted and Overruled, of selectors and of what is behind a space.
WantedOf(ss, behind) ==
    IF Named(ss \cup behind) THEN ss \cup behind
    ELSE RestrictAll(ss, "cluster", {Default}) \cup behind

OverruledOf(ss, behind) ==
    Named(ss \cup behind) /\ \E x \in ss \ {NoText} :
        \/ x = Blank
        \/ x["cluster"].exprs # <<>> /\ Head(x["cluster"].exprs).values = {}

LEMMA DefaultUsable ==
    /\ "cluster" \in ExprKeys /\ "namespace" \in ExprKeys /\ "namespace" # "cluster"
    /\ {Default} \in SUBSET (Clusters \cup Namespaces) /\ {Default} # {}
    /\ {Default} \in SUBSET (Clusters \cup Namespaces \cup {NoName}) /\ ~Unusable({Default})
BY DefaultAssumption DEF ExprKeys, Unusable

\* A selector without cluster expressions that is restricted to the default cluster
\* finds no more than it did.
LEMMA RestrictedFindsLess ==
    ASSUME NEW x \in Texts \ {Blank, NoText}, x["cluster"].exprs = <<>>, NEW p,
           Selects(Restricted(x, "cluster", {Default}), "cluster", p[1]),
           Selects(Restricted(x, "cluster", {Default}), "namespace", p[2])
    PROVE  Selects(x, "cluster", p[1]) /\ Selects(x, "namespace", p[2])
<1> DEFINE r == Restricted(x, "cluster", {Default})
<1>1. x \in AllSelectors /\ WellFormed(x) BY DEF Texts
<1>2. r["cluster"].label = x["cluster"].label /\ r["namespace"] = x["namespace"]
  BY <1>1, DefaultUsable, RestrictedType
<1> HIDE DEF r
<1>3. Selects(x, "namespace", p[2]) BY <1>2 DEF Selects, r
<1>4. Range(x["cluster"].exprs) = {} BY DEF Range
<1>5. Selects(x, "cluster", p[1]) BY <1>2, <1>4 DEF Selects, r
<1> QED BY <1>3, <1>5

LEMMA ServedFinds ==
    ASSUME NEW t \in Strings, NEW ss \in SUBSET Texts, NEW behind,
           Means(Said(SearchParts(t)), ss), \A p \in PlainOnes(SearchParts(t)) : p[1] # Sep,
           ~OverruledOf(ss, behind),
           NEW found, found = Said(SearchParts(Serves(t))) \cup behind
    PROVE  /\ Places(found) \subseteq Places(WantedOf(ss, behind))
           /\ \/ Places(WantedOf(ss, behind)) \subseteq Places(found)
              \/ NoText \in found /\ NoText \notin ss \cup behind
              \/ Named(ss \cup behind)
<1> DEFINE s == SearchSelector(t)
           said == Said(SearchParts(t))
           ends == Said(SearchParts(Serves(t)))
           restricted == RestrictAll(ss, "cluster", {Default})
<1>1. /\ said = {} => s = Everything
      /\ said # {} => \E x \in said : s = Read(x)
      /\ s \in Texts \ {Blank}
  BY SelectorFound
<1>2. GetClusters(t) = IF s = NoText \/ s["cluster"].exprs = <<>> THEN {}
                       ELSE Head(s["cluster"].exprs).values
  BY Zenon DEF GetClusters
<1>3. Blank # NoText /\ Everything # NoText /\ Everything # Blank
      /\ Everything["cluster"].exprs = <<>>
  BY TokenAssumption, EverythingType, DefaultUsable DEF Everything
<1>4. CASE GetClusters(t) # {}
  <2>1. s # NoText /\ s["cluster"].exprs # <<>> BY <1>2, <1>4
  <2>2. PICK x \in said : s = Read(x) BY <1>1, <1>3, <2>1
  <2>3. x = s /\ x # NoText /\ x # Blank BY <1>3, <2>1, <2>2 DEF Read
  <2>4. said = ss BY <2>2, <2>3 DEF Means
  <2>5. Named(ss \cup behind)
    <3>1. s \in (ss \cup behind) \ {Blank, NoText} BY <2>2, <2>3, <2>4
    <3> HIDE DEF s
    <3> QED BY <2>1, <3>1 DEF Named
  <2>6. ends = said BY <1>4 DEF Serves
  <2>7. found = WantedOf(ss, behind) BY <2>4, <2>5, <2>6 DEF WantedOf
  <2> QED BY <2>7
<1>5. CASE GetClusters(t) = {}
  <2>1. Serves(t) = RestrictTo(t, "cluster", {Default}) BY <1>5 DEF Serves
  <2>2. Means(ends, restricted) BY <2>1, DefaultUsable, RestrictToMeans
  <2>3. /\ Places(found) \subseteq Places(restricted \cup behind)
        /\ \/ Places(restricted \cup behind) \subseteq Places(found)
           \/ NoText \in found /\ NoText \notin restricted \cup behind
    <3>1. found = ends \cup behind OBVIOUS
    <3> HIDE DEF ends, restricted
    <3> QED BY <2>2, <3>1, FindsSame
  <2>4. NoText \in ss => NoText \in restricted
    <3> SUFFICES ASSUME NoText \in ss PROVE NoText \in restricted OBVIOUS
    <3>1. restricted = {RestrictedText(x, "cluster", {Default}) : x \in ss}
      BY DefaultUsable DEF RestrictAll
    <3>2. RestrictedText(NoText, "cluster", {Default}) = NoText BY DEF RestrictedText
    <3> QED BY <3>1, <3>2
  <2>5. CASE ~Named(ss \cup behind)
    <3>1. WantedOf(ss, behind) = restricted \cup behind BY <2>5 DEF WantedOf
    <3> QED BY <2>3, <2>4, <3>1
  <2>6. CASE Named(ss \cup behind)
    <3>1. WantedOf(ss, behind) = ss \cup behind BY <2>6 DEF WantedOf
    <3> SUFFICES Places(found) \subseteq Places(ss \cup behind) BY <2>6, <3>1
    <3>2. CASE NoText \in found BY <3>2, FindsNothing
    <3>3. CASE NoText \notin found
      <4>1. ends = restricted BY <2>2, <3>3 DEF Means
      <4>2. said = ss
        <5> SUFFICES ASSUME said = {NoText} PROVE FALSE BY DEF Means
        <5>1. s = NoText BY <1>1, <1>3 DEF Read
        <5>2. RestrictTo(t, "cluster", {Default}) = t
          BY <5>1, DefaultUsable, RestrictToIs, TokenAssumption
        <5> QED BY <2>1, <3>3, <5>2
      <4>3. ASSUME NEW x \in ss
            PROVE  /\ x \notin {Blank, NoText} /\ x["cluster"].exprs = <<>>
                   /\ Restricted(x, "cluster", {Default}) \in found
        <5>1. x # NoText BY <2>4, <3>3, <4>1, <4>3
        <5>2. x # Blank BY <2>6, <4>3, <5>1 DEF OverruledOf
        <5>3. s = x
          <6>1. said = {x} BY <4>2, <4>3 DEF Means
          <6> HIDE DEF said, s
          <6> QED BY <1>1, <5>2, <6>1 DEF Read
        <5>4. x["cluster"].exprs = <<>>
          <6>1. x["cluster"].exprs # <<>> => Head(x["cluster"].exprs).values # {}
            BY <2>6, <4>3, <5>1 DEF OverruledOf
          <6> HIDE DEF s
          <6> QED BY <1>2, <1>5, <5>1, <5>3, <6>1
        <5>5. Restricted(x, "cluster", {Default}) \in restricted
          <6>1. restricted = {RestrictedText(y, "cluster", {Default}) : y \in ss}
            BY <4>3, DefaultUsable DEF RestrictAll
          <6>2. RestrictedText(x, "cluster", {Default}) = Restricted(x, "cluster", {Default})
            BY <5>1, <5>2 DEF RestrictedText
          <6> QED BY <4>3, <6>1, <6>2
        <5> QED BY <4>1, <5>1, <5>2, <5>4, <5>5
      <4>4. ASSUME NEW p \in Places(found) PROVE p \in Places(ss \cup behind)
        <5>1. p \in Clusters \X Namespaces BY DEF Places
        <5>2. ASSUME NEW x \in behind
              PROVE  /\ x \notin {Blank, NoText} /\ Selects(x, "cluster", p[1])
                     /\ Selects(x, "namespace", p[2])
          BY <4>4, <5>2 DEF Places
        <5>3. ASSUME NEW x \in ss
              PROVE  /\ x \notin {Blank, NoText} /\ Selects(x, "cluster", p[1])
                     /\ Selects(x, "namespace", p[2])
          <6> DEFINE r == Restricted(x, "cluster", {Default})
          <6>1. r \in found /\ x \notin {Blank, NoText} /\ x["cluster"].exprs = <<>>
            BY <4>3, <5>3
          <6> HIDE DEF r
          <6>2. Selects(r, "cluster", p[1]) /\ Selects(r, "namespace", p[2])
            BY <4>4, <6>1 DEF Places
          <6>3. x \in Texts \ {Blank, NoText} BY <5>3, <6>1
          <6> QED BY <6>1, <6>2, <6>3, RestrictedFindsLess DEF r
        <5> QED BY <5>1, <5>2, <5>3 DEF Places
      <4> QED BY <4>4
    <3> QED BY <3>2, <3>3
  <2> QED BY <2>5, <2>6
<1> QED BY <1>4, <1>5

-----------------------------------------------------------------------------
(* The invariant. *)

TypeInv ==
    /\ search \in Strings /\ received \in Strings
    /\ given \in Seq(ClientParts) /\ Len(given) <= MaxParts
    /\ selectors \in SUBSET Texts
    /\ calls \in 0..MaxCalls
    /\ pc \in {"build", "failed", "served"}

\* The options hold the page that was sent last, unless it was empty.
TravelInv ==
    page \in Seq(PageTokens) /\ (page # <<>> => options = SplittingValue(page))

\* The string says what it ought to: the history is the meaning of the string.
SaysInv ==
    ~LeadingSep =>
        /\ PlainOnes(SearchParts(search)) = PlainOnes(given)
        /\ SeveralSelectors \/ Means(Said(SearchParts(search)), selectors)

IInv == TypeInv /\ TravelInv /\ SaysInv /\ SearchKept

LEMMA PlainOfGiven ==
    ASSUME NEW parts \in Seq(ClientParts), \A p \in Range(parts) : Head(p) # Sep
    PROVE  \A p \in Range(parts) : p # <<>> /\ p[1] # Sep
<1>1. DOMAIN parts = 1..Len(parts) BY LenProperties
<1>2. \A p \in Range(parts) : p \in ClientParts BY <1>1, ElementOfSeq DEF Range
<1> QED BY <1>2, ClientPart

LEMMA GivenPlain ==
    ASSUME TypeInv, ~LeadingSep, NEW p \in PlainOnes(given)
    PROVE  p[1] # Sep
BY PlainOfGiven DEF TypeInv, LeadingSep, PlainOnes

\* While the client builds a search, it is kept if it says what it ought to.
LEMMA BuiltIsKept == SaysInv /\ pc # "served" => SearchKept
<1> SUFFICES ASSUME SaysInv, pc # "served", ~LeadingSep PROVE SearchKept BY DEF SearchKept
<1>1. Matched = SearchParts(search) /\ Wanted = Asked BY DEF Matched, Wanted
<1>2. PlainOnes(Matched) = PlainOnes(given)
      /\ (SeveralSelectors \/ Means(Said(Matched), selectors))
  BY <1>1 DEF SaysInv
<1>3. CASE SeveralSelectors BY <1>2, <1>3 DEF SearchKept
<1>4. CASE Means(Said(Matched), selectors)
  <2>1. Found(Matched) = Said(Matched) \cup Behind(given) /\ Asked = selectors \cup Behind(given)
    BY <1>2, BehindOfPlain DEF Found, Asked
  <2>2. /\ Places(Found(Matched)) \subseteq Places(Asked)
        /\ Places(Asked) \subseteq Places(Found(Matched)) \/ Unwritten
    BY <1>4, <2>1, FindsSame DEF Unwritten
  <2> QED BY <1>1, <1>2, <2>2 DEF SearchKept
<1> QED BY <1>2, <1>3, <1>4

LEMMA InitInv == Init => IInv
<1> SUFFICES ASSUME Init PROVE IInv OBVIOUS
<1>1. /\ search = <<>> /\ received = <<>> /\ options = {} /\ page = <<>> /\ given = <<>>
      /\ selectors = {} /\ calls = 0 /\ pc = "build"
  BY DEF Init
<1>2. <<>> \in Strings /\ <<>> \in Seq(ClientParts) /\ Len(<<>>) = 0 /\ <<>> \in Seq(PageTokens)
  BY EmptySeq DEF Strings
<1>3. TypeInv BY <1>1, <1>2, BoundAssumption DEF TypeInv
<1>4. TravelInv BY <1>1, <1>2 DEF TravelInv
<1>5. SaysInv
  <2>1. SearchParts(<<>>) = <<>>
    <3> DEFINE empty == <<>>
    <3>1. empty \in Seq(Seq(Tokens)) /\ Len(empty) = 0 BY EmptySeq
    <3>2. Joined(empty) = empty BY JoinedNothing
    <3> HIDE DEF empty
    <3>3. \A i \in 1..Len(empty) : empty[i] # <<>> /\ empty[i][1] # Sep BY <3>1
    <3>4. SearchParts(Joined(empty)) = empty BY <3>1, <3>3, RoundTrip, SepIsToken
    <3> QED BY <3>2, <3>4 DEF empty
  <2>2. Range(<<>>) = {} BY DEF Range
  <2>3. Said(<<>>) = {} BY <2>2 DEF Said, SelectorParts
  <2>4. Means({}, {}) BY DEF Means
  <2> QED BY <1>1, <2>1, <2>3, <2>4 DEF SaysInv
<1>6. SearchKept BY <1>1, <1>5, BuiltIsKept
<1> QED BY <1>3, <1>4, <1>5, <1>6 DEF IInv

-----------------------------------------------------------------------------
(* The steps. *)

LEMMA PartListsType ==
    ASSUME NEW parts \in PartLists
    PROVE  /\ parts \in Seq(ClientParts) /\ Len(parts) <= MaxParts
           /\ parts \in Seq(Strings)
<1>1. PICK n \in 0..MaxParts : parts \in [1..n -> ClientParts] BY DEF PartLists
<1>2. n \in Nat /\ n <= MaxParts BY BoundAssumption
<1>3. parts \in Seq(ClientParts) /\ Len(parts) = n BY <1>1, <1>2
<1>4. ClientParts \subseteq Strings BY ClientPart
<1>5. parts \in Seq(Strings) BY <1>3, <1>4, SeqMonotonic
<1> QED BY <1>2, <1>3, <1>5

LEMMA SetPartsStep ==
    ASSUME IInv, NEW parts \in PartLists, SetSearchWithParts(parts)
    PROVE  IInv'
<1>1. /\ calls < MaxCalls /\ search' = Joined(parts) /\ given' = parts
      /\ selectors' = Said(parts) /\ calls' = calls + 1 /\ pc' = "build"
      /\ options' = options /\ page' = page /\ received' = received
  BY DEF SetSearchWithParts
<1>2. parts \in Seq(ClientParts) /\ Len(parts) <= MaxParts /\ parts \in Seq(Strings)
  BY PartListsType
<1>3. DOMAIN parts = 1..Len(parts) /\ \A p \in Range(parts) : p \in Strings /\ p # <<>>
  <2>1. DOMAIN parts = 1..Len(parts) BY <1>2, LenProperties
  <2>2. \A p \in Range(parts) : p \in ClientParts BY <1>2, <2>1, ElementOfSeq DEF Range
  <2> QED BY <2>1, <2>2, ClientPart
<1>4. Said(parts) \in SUBSET Texts
  <2>1. \A p \in SelectorParts(parts) : TextOf(p) \in Texts
    BY <1>3, OtherPart DEF SelectorParts
  <2> QED BY <2>1 DEF Said
<1>5. Joined(parts) \in Strings BY <1>2, LinksType, SepIsToken DEF Strings
<1>6. TypeInv'
  <2>1. calls + 1 \in 0..MaxCalls BY <1>1, BoundAssumption DEF IInv, TypeInv
  <2> QED BY <1>1, <1>2, <1>4, <1>5, <2>1 DEF IInv, TypeInv
<1>7. TravelInv' BY <1>1 DEF IInv, TravelInv
<1>8. SaysInv'
  <2> SUFFICES ASSUME ~LeadingSep'
               PROVE  /\ PlainOnes(SearchParts(search')) = PlainOnes(given')
                      /\ SeveralSelectors' \/ Means(Said(SearchParts(search')), selectors')
    BY DEF SaysInv
  <2>1. \A p \in Range(parts) : p # <<>> /\ p[1] # Sep
    BY <1>1, <1>2, PlainOfGiven DEF LeadingSep
  <2>2. \A i \in 1..Len(parts) : parts[i] # <<>> /\ parts[i][1] # Sep BY <1>3, <2>1 DEF Range
  <2>3. SearchParts(Joined(parts)) = parts BY <1>2, <2>2, RoundTrip, SepIsToken DEF Strings
  <2>4. ASSUME ~SeveralSelectors' PROVE \A r, s \in Said(parts) : r = s
    <3>1. \A i, j \in DOMAIN parts : IsAdvanced(parts[i]) /\ IsAdvanced(parts[j]) => i = j
      BY <1>1, <2>4 DEF SeveralSelectors
    <3>2. \A p, q \in SelectorParts(parts) : p = q BY <3>1 DEF SelectorParts, Range
    <3> QED BY <3>2 DEF Said
  <2>5. SeveralSelectors' \/ Means(Said(parts), Said(parts)) BY <2>4 DEF Means
  <2> QED BY <1>1, <2>3, <2>5
<1>9. SearchKept'
  <2>1. (pc # "served")' BY <1>1
  <2> QED BY <1>8, <2>1, BuiltIsKept, PTL
<1> QED BY <1>6, <1>7, <1>8, <1>9 DEF IInv

\* A call of the client, which leaves the options and what was given.
LEMMA CallStep ==
    ASSUME IInv, calls' = calls + 1, calls < MaxCalls, pc' = "build",
           UNCHANGED <<options, page, received, given>>,
           search' \in Strings, selectors' \in SUBSET Texts,
           ~LeadingSep => PlainOnes(SearchParts(search')) = PlainOnes(given),
           ~LeadingSep /\ ~SeveralSelectors => Means(Said(SearchParts(search')), selectors')
    PROVE  IInv'
<1>1. TypeInv' BY BoundAssumption DEF IInv, TypeInv
<1>2. TravelInv' BY DEF IInv, TravelInv
<1>3. SaysInv' BY DEF SaysInv, LeadingSep, SeveralSelectors
<1>4. SearchKept'
  <2>1. (pc # "served")' OBVIOUS
  <2> QED BY <1>3, <2>1, BuiltIsKept, PTL
<1> QED BY <1>1, <1>2, <1>3, <1>4 DEF IInv

\* What is known of the string before a call.
LEMMA BeforeCall ==
    ASSUME IInv
    PROVE  /\ search \in Strings /\ selectors \in SUBSET Texts
           /\ ~LeadingSep => PlainOnes(SearchParts(search)) = PlainOnes(given)
           /\ ~LeadingSep => \A p \in PlainOnes(SearchParts(search)) : p[1] # Sep
           /\ ~LeadingSep /\ ~SeveralSelectors => Means(Said(SearchParts(search)), selectors)
BY GivenPlain DEF IInv, TypeInv, SaysInv

LEMMA SetSelectorStep ==
    ASSUME IInv, NEW s \in Selectors, SetSearchSelector(s)
    PROVE  IInv'
<1>1. /\ calls < MaxCalls /\ calls' = calls + 1 /\ pc' = "build"
      /\ search' = IF WellFormed(s) THEN WithSelector(search, s) ELSE search
      /\ selectors' = IF WellFormed(s) THEN {s} ELSE selectors
      /\ UNCHANGED <<options, page, received, given>>
  BY DEF SetSearchSelector
<1>2. s \in AllSelectors BY SelectorAssumption
<1>3. CASE ~WellFormed(s)
  <2>1. search' = search /\ selectors' = selectors BY <1>1, <1>3
  <2>2. /\ search' \in Strings /\ selectors' \in SUBSET Texts
        /\ ~LeadingSep => PlainOnes(SearchParts(search')) = PlainOnes(given)
        /\ ~LeadingSep /\ ~SeveralSelectors => Means(Said(SearchParts(search')), selectors')
    BY <2>1, BeforeCall
  <2> QED BY <1>1, <2>2, CallStep
<1>4. CASE WellFormed(s)
  <2>1. search' = WithSelector(search, s) /\ selectors' = {s} BY <1>1, <1>4
  <2>2. s \in Texts /\ s # NoText BY <1>2, <1>4, TokenAssumption DEF Texts
  <2>3. Means({Written(s)}, {s}) BY <2>2 DEF Means, Written
  <2>4. /\ WithSelector(search, s) \in Strings
        /\ ~LeadingSep =>
              /\ PlainOnes(SearchParts(WithSelector(search, s))) = PlainOnes(given)
              /\ Said(SearchParts(WithSelector(search, s))) = {Written(s)}
    BY <1>2, <1>4, BeforeCall, WithSelectorDoes
  <2>5. selectors' \in SUBSET Texts BY <2>1, <2>2
  <2> QED BY <1>1, <2>1, <2>3, <2>4, <2>5, CallStep
<1> QED BY <1>3, <1>4

LEMMA RestrictAllType ==
    ASSUME NEW ss \in SUBSET Texts, NEW key \in ExprKeys,
           NEW values \in SUBSET (Clusters \cup Namespaces \cup {NoName})
    PROVE  RestrictAll(ss, key, values) \in SUBSET Texts
<1>1. CASE Unusable(values) BY <1>1 DEF RestrictAll
<1>2. CASE ~Unusable(values)
  <2> DEFINE from == IF ss = {} THEN {Everything} ELSE ss
  <2>1. values \in SUBSET (Clusters \cup Namespaces) /\ values # {} BY <1>2, UsableValues
  <2>2. from \in SUBSET Texts BY EverythingType
  <2>3. RestrictAll(ss, key, values) = {RestrictedText(x, key, values) : x \in from}
    BY <1>2 DEF RestrictAll
  <2> HIDE DEF from
  <2>4. ASSUME NEW x \in Texts PROVE RestrictedText(x, key, values) \in Texts
    <3>1. CASE x = NoText BY <3>1 DEF RestrictedText, Texts
    <3>2. CASE x # NoText
      <4>1. Read(x) \in AllSelectors /\ WellFormed(Read(x))
        BY <3>2, EverythingType DEF Read, Texts
      <4>2. Restricted(Read(x), key, values) \in Texts
        BY <2>1, <4>1, RestrictedType DEF Texts
      <4>3. RestrictedText(x, key, values) = Restricted(Read(x), key, values)
        BY <3>2 DEF RestrictedText, Read
      <4> QED BY <4>2, <4>3
    <3> QED BY <3>1, <3>2
  <2> QED BY <2>2, <2>3, <2>4
<1> QED BY <1>1, <1>2

\* Namespaces and Clusters.
LEMMA RestrictStep ==
    ASSUME IInv, NEW key \in ExprKeys,
           NEW values \in SUBSET (Clusters \cup Namespaces \cup {NoName}),
           calls < MaxCalls, search' = RestrictTo(search, key, values),
           selectors' = RestrictAll(selectors, key, values),
           calls' = calls + 1, pc' = "build", UNCHANGED <<options, page, received, given>>
    PROVE  IInv'
<1>1. search' \in Strings /\ selectors' \in SUBSET Texts
  BY BeforeCall, RestrictToKeeps, RestrictAllType
<1>2. ~LeadingSep => PlainOnes(SearchParts(search')) = PlainOnes(given)
  BY BeforeCall, RestrictToKeeps
<1>3. ~LeadingSep /\ ~SeveralSelectors => Means(Said(SearchParts(search')), selectors')
  BY BeforeCall, RestrictToMeans
<1> QED BY <1>1, <1>2, <1>3, CallStep

LEMMA CallNamespacesStep ==
    ASSUME IInv, NEW nss \in SUBSET Namespaces, CallNamespaces(nss)
    PROVE  IInv'
<1>1. nss \in SUBSET (Clusters \cup Namespaces \cup {NoName}) OBVIOUS
<1> QED BY <1>1, DefaultUsable, RestrictStep DEF CallNamespaces

LEMMA CallClustersStep ==
    ASSUME IInv, NEW css \in SUBSET (Clusters \cup {NoName}), CallClusters(css)
    PROVE  IInv'
<1>1. css \in SUBSET (Clusters \cup Namespaces \cup {NoName}) OBVIOUS
<1> QED BY <1>1, DefaultUsable, RestrictStep DEF CallClusters

\* The page arrives, unless it is too long or a page before is left in the options.
LEMMA SentArrives ==
    ASSUME NEW values, NEW sent \in Seq(PageTokens),
           sent # <<>> => values = SplittingValue(sent)
    PROVE  MergeValues(values) = sent \/ TooLong(sent) \/ (sent = <<>> /\ values # {})
<1>1. CASE sent = <<>> BY <1>1, MergeNothing
<1>2. CASE sent # <<>> BY <1>2, ValueArrives
<1> QED BY <1>1, <1>2

LEMMA ProxyStep ==
    ASSUME IInv, NEW paged, NEW readable, Proxy(paged, readable)
    PROVE  IInv'
<1> DEFINE sent == Marshal(paged, search)
           values == QueryListOptions(options, sent)
           read == Unmarshal(MergeValues(values))
<1>1. /\ calls < MaxCalls /\ calls' = calls + 1 /\ pc' = "served"
      /\ options' = values /\ page' = sent /\ received' = Serves(read)
      /\ UNCHANGED <<search, given, selectors>>
  BY Zenon DEF Proxy, Serves
<1>2. search \in Strings /\ selectors \in SUBSET Texts BY BeforeCall
<1>3. sent \in Seq(PageTokens) /\ (sent # <<>> => Unmarshal(sent) = search)
      /\ (sent = <<>> => search = <<>>)
  BY <1>2, PageIsRead
<1>4. read \in Strings BY UnmarshalType
<1>5. sent # <<>> => values = SplittingValue(sent) BY DEF QueryListOptions
<1>6. MergeValues(values) = sent \/ TooLong(sent) \/ (sent = <<>> /\ values # {})
  BY <1>3, <1>5, SentArrives
<1>7. MergeValues(values) = sent => read = search BY <1>3, NothingIsRead
<1> HIDE DEF sent, values, read
<1>8. Serves(read) \in Strings BY <1>4, DefaultUsable, RestrictToKeeps DEF Serves
<1>9. TypeInv' BY <1>1, <1>8, BoundAssumption DEF IInv, TypeInv
<1>10. TravelInv' BY <1>1, <1>3, <1>5 DEF TravelInv
<1>11. SaysInv' BY <1>1 DEF IInv, SaysInv, LeadingSep, SeveralSelectors
<1>12. SearchKept'
  <2>1. LeadingSep' = LeadingSep /\ SeveralSelectors' = SeveralSelectors /\ Asked' = Asked
    BY <1>1 DEF LeadingSep, SeveralSelectors, Asked
  <2>2. Leftover' = (sent = <<>> /\ values # {}) /\ TooLong(page)' = TooLong(sent)
    BY <1>1 DEF Leftover
  <2> SUFFICES ASSUME ~LeadingSep, ~TooLong(sent), ~(sent = <<>> /\ values # {})
               PROVE  SearchKept'
    BY <1>1, <2>1, <2>2 DEF SearchKept
  <2>3. read = search BY <1>6, <1>7
  <2>4. /\ PlainOnes(SearchParts(search)) = PlainOnes(given)
        /\ \A p \in PlainOnes(SearchParts(search)) : p[1] # Sep
        /\ SeveralSelectors \/ Means(Said(SearchParts(search)), selectors)
    BY BeforeCall
  <2> DEFINE parts == SearchParts(Serves(search))
             behind == Behind(given)
  <2>5. Matched' = parts BY <1>1, <2>3 DEF Matched
  <2>6. PlainOnes(parts) = PlainOnes(given)
    BY <1>2, <2>4, DefaultUsable, RestrictToKeeps DEF Serves
  <2>7. Found(parts) = Said(parts) \cup behind BY <2>6, BehindOfPlain DEF Found
  <2>8. Narrowed' = Named(selectors \cup behind)
    <3>1. Asked = selectors \cup behind BY DEF Asked
    <3>2. Narrowed' <=> (pc' = "served" /\ Named(Asked')) BY DEF Narrowed
    <3>3. Asked' = selectors \cup behind BY <2>1, <3>1
    <3>4. Narrowed' <=> Named(selectors \cup behind) BY <1>1, <3>2, <3>3, Zenon
    <3> QED BY <3>4 DEF Narrowed, Named
  <2>9. Overruled' = OverruledOf(selectors, behind)
    BY <1>1, <2>8 DEF Overruled, OverruledOf
  <2>10. Wanted' = WantedOf(selectors, behind)
    BY <1>1, <2>1 DEF Wanted, WantedOf, Asked
  <2>11. Unwritten' = (NoText \in Found(parts) /\ NoText \notin selectors \cup behind)
    BY <2>1, <2>5 DEF Unwritten, Asked
  <2>12. PlainOnes(given)' = PlainOnes(given) BY <1>1
  <2>13. SeveralSelectors \/ OverruledOf(selectors, behind) \/
         (/\ Places(Found(parts)) \subseteq Places(WantedOf(selectors, behind))
          /\ \/ Places(WantedOf(selectors, behind)) \subseteq Places(Found(parts))
             \/ NoText \in Found(parts) /\ NoText \notin selectors \cup behind
             \/ Named(selectors \cup behind))
    <3> SUFFICES ASSUME Means(Said(SearchParts(search)), selectors),
                        ~OverruledOf(selectors, behind)
                 PROVE  /\ Places(Found(parts)) \subseteq Places(WantedOf(selectors, behind))
                        /\ \/ Places(WantedOf(selectors, behind)) \subseteq Places(Found(parts))
                           \/ NoText \in Found(parts) /\ NoText \notin selectors \cup behind
                           \/ Named(selectors \cup behind)
      BY <2>4
    <3> QED BY <1>2, <2>4, <2>7, ServedFinds
  <2> HIDE DEF parts, behind
  <2> QED BY <2>1, <2>5, <2>6, <2>8, <2>9, <2>10, <2>11, <2>12, <2>13 DEF SearchKept
<1> QED BY <1>9, <1>10, <1>11, <1>12 DEF IInv

LEMMA FailStep ==
    ASSUME IInv, NEW paged, NEW readable, Fail(paged, readable)
    PROVE  IInv'
<1>1. pc' = "failed" /\ UNCHANGED <<search, options, page, received, given, selectors, calls>>
  BY DEF Fail
<1>2. TypeInv' BY <1>1 DEF IInv, TypeInv
<1>3. TravelInv' BY <1>1 DEF IInv, TravelInv
<1>4. SaysInv' BY <1>1 DEF IInv, SaysInv, LeadingSep, SeveralSelectors
<1>5. SearchKept'
  <2>1. (pc # "served")' BY <1>1
  <2> QED BY <1>4, <2>1, BuiltIsKept, PTL
<1> QED BY <1>2, <1>3, <1>4, <1>5 DEF IInv

LEMMA StutterStep == IInv /\ UNCHANGED vars => IInv'
BY DEF vars, IInv, TypeInv, TravelInv, SaysInv, SearchKept, Matched, Wanted, Asked,
       LeadingSep, SeveralSelectors, Unwritten, Narrowed, Overruled, Leftover

LEMMA NextInv == IInv /\ [Next]_vars => IInv'
<1> SUFFICES ASSUME IInv, [Next]_vars PROVE IInv' OBVIOUS
<1>1. ASSUME NEW parts \in PartLists, SetSearchWithParts(parts) PROVE IInv'
  BY <1>1, SetPartsStep
<1>2. ASSUME NEW s \in Selectors, SetSearchSelector(s) PROVE IInv' BY <1>2, SetSelectorStep
<1>3. ASSUME NEW nss \in SUBSET Namespaces, CallNamespaces(nss) PROVE IInv'
  BY <1>3, CallNamespacesStep
<1>4. ASSUME NEW css \in SUBSET (Clusters \cup {NoName}), CallClusters(css) PROVE IInv'
  BY <1>4, CallClustersStep
<1>5. ASSUME NEW paged \in BOOLEAN, NEW readable \in BOOLEAN, Proxy(paged, readable)
      PROVE  IInv'
  BY <1>5, ProxyStep
<1>6. ASSUME NEW paged \in BOOLEAN, NEW readable \in BOOLEAN, Fail(paged, readable)
      PROVE  IInv'
  BY <1>6, FailStep
<1>7. CASE UNCHANGED vars BY <1>7, StutterStep
<1> QED BY <1>1, <1>2, <1>3, <1>4, <1>5, <1>6, <1>7 DEF Next

-----------------------------------------------------------------------------
(* The theorems. *)

\* In every behaviour the string says what the history of the calls means, or the one
\* text that cannot be read; the options hold the page that was sent last, unless it
\* was empty; and the search is kept.  Everything below follows from this: a call
\* reads the string it changes, and what it reads there is known only if what the
\* string says is part of the invariant.
THEOREM Inductive == Spec => []IInv
<1>1. Init => IInv BY InitInv
<1>2. IInv /\ [Next]_vars => IInv' BY NextInv
<1> QED BY <1>1, <1>2, PTL DEF Spec

\* Whatever a client calls and sends, the strings of the client and of the server
\* consist of characters and of texts that the calls can write: no call makes a
\* token that the parser would not know (page.go:141-254).
THEOREM TypeCorrect == Spec => []TypeOK
<1>1. IInv => TypeOK BY DEF IInv, TypeInv, TypeOK, Strings
<1> QED BY <1>1, Inductive, PTL

\* A search keeps its parts and its selector through any sequence of SetSearchWithParts,
\* SetSearchSelector, Namespaces and Clusters, through the label selector it travels
\* in, and through the restriction to the default cluster, for any words, separators,
\* spaces, selectors and lengths, with the exceptions that SearchKept names
\* (page.go:30-59, 141-254, proxy.go:222-227).
THEOREM SearchIsKept == Spec => []SearchKept
<1>1. IInv => SearchKept BY DEF IInv
<1> QED BY <1>1, Inductive, PTL

\* The values in the label selector put together are the page that was sent last, for
\* any length of a part, base and number of digits, whatever was sent or refused
\* before, unless the last offset outgrows its digits or the page was empty and that
\* of a request before is left in the options (label.go:12-43, page.go:295-327).
THEOREM QueriesArrive == Spec => []QueryArrives
<1>1. TravelInv => QueryArrives
  <2> SUFFICES ASSUME TravelInv PROVE QueryArrives OBVIOUS
  <2>1. MergeValues(options) = page \/ TooLong(page) \/ (page = <<>> /\ options # {})
    BY SentArrives DEF TravelInv
  <2> QED BY <2>1 DEF QueryArrives, Leftover
<1>2. IInv => TravelInv BY DEF IInv
<1> QED BY <1>1, <1>2, Inductive, PTL
=============================================================================
