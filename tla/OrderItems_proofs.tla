------------------------- MODULE OrderItems_proofs --------------------------
(***************************************************************************)
(* The invariants of OrderItems, proved for any orders, products and keys. *)
(*                                                                         *)
(* Sum is recursive, so the first section is about it: what it is for no   *)
(* amounts, for one amount more and for one that has changed, each shown   *)
(* by induction on the beginnings of the sequence.  From these follows     *)
(* what each command does to the totals of the lines; the rest is about    *)
(* which lines, keys and orders know each other.                           *)
(***************************************************************************)
EXTENDS OrderItems, Integers, FiniteSetTheorems, SequenceTheorems, WellFoundedInduction,
        TLAPS

----------------------------------------------------------------------------
(* Sums. *)

\* Every nonempty finite set of naturals has a least member.
LEMMA LeastExists ==
    ASSUME NEW A, A \subseteq Nat, IsFiniteSet(A), A # {}
    PROVE  \E m \in A : \A t \in A : m <= t
<1> DEFINE upTo(t) == {u \in A : u <= t}
           family == {upTo(t) : t \in A}
<1>1. family \subseteq FiniteSubsetsOf(A)
  BY FS_Subset DEF FiniteSubsetsOf
<1>2. family # {}
  <2>1. PICK t \in A : TRUE
    OBVIOUS
  <2>2. upTo(t) \in family
    OBVIOUS
  <2>. QED  BY <2>2
<1>3. PICK T \in family : \A U \in family : ~(<<U, T>> \in StrictSubsetOrdering(A))
  BY <1>1, <1>2, FS_StrictSubsetOrderingWellFounded, WFMin, Zenon
<1>4. PICK m \in A : T = upTo(m)
  OBVIOUS
<1>5. ASSUME NEW t \in A, t < m
      PROVE  FALSE
  <2>1. t \in Nat /\ m \in Nat
    OBVIOUS
  <2>2. upTo(t) \subseteq upTo(m)
    <3>1. SUFFICES ASSUME NEW u \in A, u <= t
                   PROVE  u <= m
      OBVIOUS
    <3>2. u \in Nat
      OBVIOUS
    <3>. QED  BY <1>5, <2>1, <3>1, <3>2
  <2>3. m \in upTo(m) /\ m \notin upTo(t)
    BY <1>5, <2>1
  <2>4. upTo(t) \in family
    OBVIOUS
  <2>5. ~(<<upTo(t), upTo(m)>> \in StrictSubsetOrdering(A))
    BY <1>3, <1>4, <2>4
  <2>6. upTo(t) \in SUBSET A /\ upTo(m) \in SUBSET A
    OBVIOUS
  <2> HIDE DEF upTo, family
  <2>. QED  BY <2>2, <2>3, <2>5, <2>6 DEF StrictSubsetOrdering
<1>6. \A t \in A : m <= t
  <2>1. SUFFICES ASSUME NEW t \in A PROVE m <= t
    OBVIOUS
  <2>2. t \in Nat /\ m \in Nat /\ ~(t < m)
    BY <1>5
  <2>. QED  BY <2>2
<1>. QED  BY <1>6

\* Induction up to n, told of a set.
LEMMA UpTo ==
    ASSUME NEW n \in Nat, NEW S, 0 \in S,
           \A i \in 0 .. n : i + 1 <= n /\ i \in S => i + 1 \in S
    PROVE  \A i \in 0 .. n : i \in S
<1> DEFINE A == {i \in 0 .. n : i \notin S}
<1>1. SUFFICES ASSUME A # {} PROVE FALSE
  OBVIOUS
<1>2. A \subseteq Nat /\ IsFiniteSet(A)
  <2>1. IsFiniteSet(0 .. n)
    BY FS_Interval
  <2>2. A \in SUBSET (0 .. n)
    OBVIOUS
  <2>. QED  BY <2>1, <2>2, FS_Subset
<1>3. PICK m \in A : \A t \in A : m <= t
  <2> HIDE DEF A
  <2>. QED  BY <1>1, <1>2, LeastExists
<1>4. m # 0 /\ m - 1 \in 0 .. n /\ m - 1 \in S
  BY <1>3
<1>. QED  BY <1>4

Runs(sum, n, amounts) ==
    sum = [i \in 0 .. n |-> IF i = 0 THEN 0 ELSE sum[i - 1] + amounts[i]]

LEMMA SumIsDefined ==
    ASSUME NEW n \in Nat, NEW amounts
    PROVE  \E sum : Runs(sum, n, amounts)
<1> DEFINE S == {m \in 0 .. n : \E sum : Runs(sum, m, amounts)}
<1>1. 0 \in S
  <2>1. Runs([i \in 0 .. 0 |-> 0], 0, amounts)
    BY DEF Runs
  <2>. QED  BY <2>1
<1>2. ASSUME NEW m \in 0 .. n, m + 1 <= n, m \in S
      PROVE  m + 1 \in S
  <2>1. PICK f : Runs(f, m, amounts)
    BY <1>2
  <2> DEFINE g == [i \in 0 .. m + 1 |-> IF i = m + 1 THEN f[m] + amounts[m + 1] ELSE f[i]]
  <2>2. ASSUME NEW i \in 0 .. m + 1
        PROVE  g[i] = IF i = 0 THEN 0 ELSE g[i - 1] + amounts[i]
    <3>1. CASE i = m + 1
      BY <3>1
    <3>2. CASE i # m + 1
      <4>1. i \in 0 .. m
        BY <3>2
      <4>2. f[i] = IF i = 0 THEN 0 ELSE f[i - 1] + amounts[i]
        BY <2>1, <4>1 DEF Runs
      <4>3. i # 0 => g[i - 1] = f[i - 1]
        BY <4>1
      <4>. QED  BY <3>2, <4>2, <4>3
    <3>. QED  BY <3>1, <3>2
  <2>3. g = [i \in 0 .. m + 1 |-> g[i]]
    OBVIOUS
  <2>4. Runs(g, m + 1, amounts)
    <3> HIDE DEF g
    <3>. QED  BY <2>2, <2>3 DEF Runs
  <2>. QED  BY <1>2, <2>4
<1>3. \A m \in 0 .. n : m \in S
  <2> HIDE DEF S
  <2>. QED  BY <1>1, <1>2, UpTo
<1>. QED  BY <1>3

\* The sum is the last of the sums of its beginnings.
Beginnings(sum, n, amounts) ==
    /\ sum \in [0 .. n -> Nat]
    /\ sum[0] = 0
    /\ \A i \in 0 .. n : i + 1 <= n => sum[i + 1] = sum[i] + amounts[i + 1]
    /\ Sum(n, amounts) = sum[n]

LEMMA SumUnfolds ==
    ASSUME NEW n \in Nat, NEW amounts, \A i \in 1 .. n : amounts[i] \in Nat
    PROVE  \E sum : Beginnings(sum, n, amounts)
<1> DEFINE f == CHOOSE sum : Runs(sum, n, amounts)
<1>1. Runs(f, n, amounts)
  BY SumIsDefined
<1>2. Sum(n, amounts) = f[n]
  BY DEF Sum, Runs
<1> HIDE DEF f
<1>3. \A i \in 0 .. n : f[i] = IF i = 0 THEN 0 ELSE f[i - 1] + amounts[i]
  BY <1>1 DEF Runs
<1>4. f[0] = 0
  BY <1>3
<1>5. ASSUME NEW i \in 0 .. n, i + 1 <= n
      PROVE  f[i + 1] = f[i] + amounts[i + 1]
  <2>1. i + 1 \in 0 .. n /\ i + 1 # 0 /\ (i + 1) - 1 = i
    BY <1>5
  <2>. QED  BY <1>3, <2>1
<1>6. f \in [0 .. n -> Nat]
  <2> DEFINE S == {i \in 0 .. n : f[i] \in Nat}
  <2>1. 0 \in S
    BY <1>4
  <2>2. \A i \in 0 .. n : i + 1 <= n /\ i \in S => i + 1 \in S
    BY <1>5
  <2>3. \A i \in 0 .. n : i \in S
    <3> HIDE DEF S
    <3>. QED  BY <2>1, <2>2, UpTo
  <2>4. f = [i \in 0 .. n |-> f[i]]
    BY <1>1 DEF Runs
  <2>. QED  BY <2>3, <2>4
<1>7. Beginnings(f, n, amounts)
  BY <1>2, <1>4, <1>5, <1>6 DEF Beginnings
<1>. QED  BY <1>7

LEMMA SumIsNat ==
    ASSUME NEW n \in Nat, NEW amounts, \A i \in 1 .. n : amounts[i] \in Nat
    PROVE  Sum(n, amounts) \in Nat
<1>1. PICK sum : Beginnings(sum, n, amounts)
  BY SumUnfolds
<1>. QED  BY <1>1 DEF Beginnings

LEMMA SumOfNothing ==
    ASSUME NEW amounts PROVE Sum(0, amounts) = 0
<1>1. PICK sum : Beginnings(sum, 0, amounts)
  BY SumUnfolds
<1>. QED  BY <1>1 DEF Beginnings

\* One more amount.
LEMMA SumOfMore ==
    ASSUME NEW n \in Nat, NEW a, NEW b,
           \A i \in 1 .. n + 1 : b[i] \in Nat,
           \A i \in 1 .. n : b[i] = a[i]
    PROVE  Sum(n + 1, b) = Sum(n, a) + b[n + 1]
<1>0. \A i \in 1 .. n : a[i] \in Nat
  OBVIOUS
<1>1. PICK s : Beginnings(s, n, a)
  BY <1>0, SumUnfolds
<1>2. PICK t : Beginnings(t, n + 1, b)
  BY SumUnfolds
<1> DEFINE S == {i \in 0 .. n : t[i] = s[i]}
<1>3. 0 \in S
  BY <1>1, <1>2 DEF Beginnings
<1>4. ASSUME NEW i \in 0 .. n, i + 1 <= n, i \in S
      PROVE  i + 1 \in S
  <2>1. s[i + 1] = s[i] + a[i + 1]
    BY <1>1, <1>4 DEF Beginnings
  <2>2. t[i + 1] = t[i] + b[i + 1]
    BY <1>2, <1>4 DEF Beginnings
  <2>. QED  BY <1>4, <2>1, <2>2
<1>5. \A i \in 0 .. n : i \in S
  <2> HIDE DEF S
  <2>. QED  BY <1>3, <1>4, UpTo
<1>6. t[n + 1] = t[n] + b[n + 1]
  BY <1>2 DEF Beginnings
<1>7. t[n] = s[n]
  BY <1>5
<1>. QED  BY <1>1, <1>2, <1>6, <1>7 DEF Beginnings

\* One amount is another.
LEMMA SumOfOther ==
    ASSUME NEW n \in Nat, NEW a, NEW b, NEW k \in 1 .. n,
           \A i \in 1 .. n : a[i] \in Nat /\ b[i] \in Nat,
           \A i \in 1 .. n : i # k => b[i] = a[i]
    PROVE  Sum(n, b) + a[k] = Sum(n, a) + b[k]
<1>1. PICK s : Beginnings(s, n, a)
  BY SumUnfolds
<1>2. PICK t : Beginnings(t, n, b)
  BY SumUnfolds
<1> DEFINE S == {i \in 0 .. n : IF i < k THEN t[i] = s[i] ELSE t[i] + a[k] = s[i] + b[k]}
<1>3. 0 \in S
  BY <1>1, <1>2 DEF Beginnings
<1>4. ASSUME NEW i \in 0 .. n, i + 1 <= n, i \in S
      PROVE  i + 1 \in S
  <2>1. s[i + 1] = s[i] + a[i + 1] /\ s[i] \in Nat /\ s[i + 1] \in Nat
    BY <1>1, <1>4 DEF Beginnings
  <2>2. t[i + 1] = t[i] + b[i + 1] /\ t[i] \in Nat /\ t[i + 1] \in Nat
    BY <1>2, <1>4 DEF Beginnings
  <2>3. a[i + 1] \in Nat /\ b[i + 1] \in Nat /\ (i + 1 # k => b[i + 1] = a[i + 1])
    BY <1>4
  <2>4. CASE i + 1 < k
    BY <1>4, <2>1, <2>2, <2>3, <2>4
  <2>5. CASE i + 1 = k
    BY <1>4, <2>1, <2>2, <2>3, <2>5
  <2>6. CASE i + 1 > k
    BY <1>4, <2>1, <2>2, <2>3, <2>6
  <2>. QED  BY <2>4, <2>5, <2>6
<1>5. \A i \in 0 .. n : i \in S
  <2> HIDE DEF S
  <2>. QED  BY <1>3, <1>4, UpTo
<1>6. n \in S
  BY <1>5
<1>. QED  BY <1>1, <1>2, <1>6 DEF Beginnings

----------------------------------------------------------------------------
(* The lines of one order. *)

ActiveCost(line) == IF line.state = "ACTIVE" THEN line.total ELSE 0
TwiceTaken(line) ==
    IF line.state = "REPLACED" /\ line.before = "REMOVED" THEN line.total ELSE 0

LEMMA CostsAreNat ==
    ASSUME NEW line \in Line PROVE ActiveCost(line) \in Nat /\ TwiceTaken(line) \in Nat
BY DEF Line, ActiveCost, TwiceTaken

LEMMA SeqOfLines ==
    ASSUME NEW lines \in Seq(Line)
    PROVE  /\ Len(lines) \in Nat /\ DOMAIN lines = 1 .. Len(lines)
           /\ \A i \in 1 .. Len(lines) : lines[i] \in Line
OBVIOUS

LEMMA TotalsAreNat ==
    ASSUME NEW lines \in Seq(Line)
    PROVE  /\ ActiveTotal(lines) \in Nat /\ RemovedThenReplacedTotal(lines) \in Nat
           /\ Total(lines) \in Nat
<1> DEFINE n == Len(lines)
           a == [i \in DOMAIN lines |-> IF lines[i].state = "ACTIVE" THEN lines[i].total ELSE 0]
           b == [i \in DOMAIN lines |->
                   IF lines[i].state = "REPLACED" /\ lines[i].before = "REMOVED"
                   THEN lines[i].total ELSE 0]
           c == [i \in DOMAIN lines |-> lines[i].total]
<1>1. n \in Nat /\ DOMAIN lines = 1 .. n /\ \A i \in 1 .. n : lines[i] \in Line
  BY SeqOfLines
<1>2. \A i \in 1 .. n : a[i] \in Nat /\ b[i] \in Nat /\ c[i] \in Nat
  BY <1>1 DEF Line
<1>3. Sum(n, a) \in Nat /\ Sum(n, b) \in Nat /\ Sum(n, c) \in Nat
  <2> HIDE DEF a, b, c, n
  <2>. QED  BY <1>1, <1>2, SumIsNat
<1>. QED  BY <1>3 DEF ActiveTotal, RemovedThenReplacedTotal, Total

\* One line more.
OneMore(new, lines, line) ==
    /\ new \in Seq(Line) /\ Len(new) = Len(lines) + 1
    /\ new[Len(lines) + 1] = line
    /\ \A i \in 1 .. Len(lines) : new[i] = lines[i]
    /\ ActiveTotal(new) = ActiveTotal(lines) + ActiveCost(line)
    /\ RemovedThenReplacedTotal(new) = RemovedThenReplacedTotal(lines) + TwiceTaken(line)

LEMMA TotalsOfMore ==
    ASSUME NEW lines \in Seq(Line), NEW line \in Line, NEW new, new = Append(lines, line)
    PROVE  OneMore(new, lines, line)
<1> DEFINE n == Len(lines)
           a(l) == [i \in DOMAIN l |-> IF l[i].state = "ACTIVE" THEN l[i].total ELSE 0]
           b(l) == [i \in DOMAIN l |->
                      IF l[i].state = "REPLACED" /\ l[i].before = "REMOVED"
                      THEN l[i].total ELSE 0]
<1>1. n \in Nat /\ DOMAIN lines = 1 .. n /\ \A i \in 1 .. n : lines[i] \in Line
  BY SeqOfLines
<1>2. /\ new \in Seq(Line) /\ Len(new) = n + 1 /\ DOMAIN new = 1 .. n + 1
      /\ new[n + 1] = line /\ \A i \in 1 .. n : new[i] = lines[i]
  BY <1>1
<1>3. \A i \in 1 .. n + 1 : new[i] \in Line
  BY <1>1, <1>2
<1>4. \A i \in 1 .. n + 1 : a(new)[i] \in Nat /\ b(new)[i] \in Nat
  BY <1>2, <1>3 DEF Line
<1>5. \A i \in 1 .. n : a(new)[i] = a(lines)[i] /\ b(new)[i] = b(lines)[i]
  BY <1>1, <1>2
<1>6. a(new)[n + 1] = ActiveCost(line) /\ b(new)[n + 1] = TwiceTaken(line)
  BY <1>1, <1>2 DEF ActiveCost, TwiceTaken
<1>7. /\ Sum(n + 1, a(new)) = Sum(n, a(lines)) + a(new)[n + 1]
      /\ Sum(n + 1, b(new)) = Sum(n, b(lines)) + b(new)[n + 1]
  <2> HIDE DEF a, b, n
  <2>. QED  BY <1>1, <1>4, <1>5, SumOfMore
<1>. QED  BY <1>2, <1>6, <1>7 DEF OneMore, ActiveTotal, RemovedThenReplacedTotal

\* One line is another.
OneOther(new, lines, i, line) ==
    /\ new \in Seq(Line) /\ Len(new) = Len(lines)
    /\ new[i] = line
    /\ \A j \in 1 .. Len(lines) : j # i => new[j] = lines[j]
    /\ ActiveTotal(new) + ActiveCost(lines[i]) = ActiveTotal(lines) + ActiveCost(line)
    /\ RemovedThenReplacedTotal(new) + TwiceTaken(lines[i])
           = RemovedThenReplacedTotal(lines) + TwiceTaken(line)

LEMMA TotalsOfOther ==
    ASSUME NEW lines \in Seq(Line), NEW i \in 1 .. Len(lines), NEW line \in Line,
           NEW new, new = [lines EXCEPT ![i] = line]
    PROVE  OneOther(new, lines, i, line)
<1> DEFINE n == Len(lines)
           a(l) == [j \in DOMAIN l |-> IF l[j].state = "ACTIVE" THEN l[j].total ELSE 0]
           b(l) == [j \in DOMAIN l |->
                      IF l[j].state = "REPLACED" /\ l[j].before = "REMOVED"
                      THEN l[j].total ELSE 0]
<1>1. n \in Nat /\ DOMAIN lines = 1 .. n /\ \A j \in 1 .. n : lines[j] \in Line
  BY SeqOfLines
<1>2. /\ new \in Seq(Line) /\ Len(new) = n /\ DOMAIN new = 1 .. n
      /\ new[i] = line /\ \A j \in 1 .. n : j # i => new[j] = lines[j]
  BY <1>1
<1>3. \A j \in 1 .. n : new[j] \in Line
  BY <1>1, <1>2
<1>4. \A j \in 1 .. n : /\ a(new)[j] \in Nat /\ b(new)[j] \in Nat
                        /\ a(lines)[j] \in Nat /\ b(lines)[j] \in Nat
  BY <1>1, <1>2, <1>3 DEF Line
<1>5. \A j \in 1 .. n : j # i => a(new)[j] = a(lines)[j] /\ b(new)[j] = b(lines)[j]
  BY <1>1, <1>2
<1>6. /\ a(new)[i] = ActiveCost(line) /\ b(new)[i] = TwiceTaken(line)
      /\ a(lines)[i] = ActiveCost(lines[i]) /\ b(lines)[i] = TwiceTaken(lines[i])
  BY <1>1, <1>2 DEF ActiveCost, TwiceTaken
<1>7. /\ Sum(n, a(new)) + a(lines)[i] = Sum(n, a(lines)) + a(new)[i]
      /\ Sum(n, b(new)) + b(lines)[i] = Sum(n, b(lines)) + b(new)[i]
  <2>1. i \in 1 .. n
    OBVIOUS
  <2> HIDE DEF a, b, n
  <2>2. PICK aOld, aNew : aOld = a(lines) /\ aNew = a(new)
    OBVIOUS
  <2>3. PICK bOld, bNew : bOld = b(lines) /\ bNew = b(new)
    OBVIOUS
  <2>4. Sum(n, aNew) + aOld[i] = Sum(n, aOld) + aNew[i]
    <3>1. /\ \A j \in 1 .. n : aOld[j] \in Nat /\ aNew[j] \in Nat
          /\ \A j \in 1 .. n : j # i => aNew[j] = aOld[j]
      BY <1>4, <1>5, <2>2
    <3>. QED  BY <1>1, <2>1, <3>1, SumOfOther
  <2>5. Sum(n, bNew) + bOld[i] = Sum(n, bOld) + bNew[i]
    <3>1. /\ \A j \in 1 .. n : bOld[j] \in Nat /\ bNew[j] \in Nat
          /\ \A j \in 1 .. n : j # i => bNew[j] = bOld[j]
      BY <1>4, <1>5, <2>3
    <3>. QED  BY <1>1, <2>1, <3>1, SumOfOther
  <2>. QED  BY <2>2, <2>3, <2>4, <2>5
<1>. QED  BY <1>2, <1>6, <1>7 DEF OneOther, ActiveTotal, RemovedThenReplacedTotal

Replacing(lines, i) == {j \in DOMAIN lines : lines[j].replaces = i}

\* The lines of an order account for a subtotal and for each other.
Explained(lines, subtotal) ==
    /\ lines \in Seq(Line)
    /\ subtotal \in Nat
    /\ subtotal + RemovedThenReplacedTotal(lines) = ActiveTotal(lines)
    /\ \A i \in DOMAIN lines :
           Cardinality(Replacing(lines, i)) = IF lines[i].state = "REPLACED" THEN 1 ELSE 0
    /\ \A i \in DOMAIN lines : lines[i].replaces < i

LEMMA ReplacingIsFinite ==
    ASSUME NEW lines \in Seq(Line), NEW i
    PROVE  IsFiniteSet(Replacing(lines, i))
<1>1. Replacing(lines, i) \in SUBSET (1 .. Len(lines)) /\ Len(lines) \in Nat
  BY SeqOfLines DEF Replacing
<1>2. IsFiniteSet(1 .. Len(lines))
  BY <1>1, FS_Interval
<1>. QED  BY <1>1, <1>2, FS_Subset

\* What a line costs, and that it is one.
LEMMA LineOfIsLine ==
    ASSUME NEW p \in Products, NEW q \in 1 .. MaxQuantity, NEW price \in 1 .. MaxPrice,
           NEW r \in 0 .. MaxLines, NEW line, line = LineOf(p, q, price, r)
    PROVE  /\ line \in Line /\ line.state = "ACTIVE" /\ line.replaces = r
           /\ ActiveCost(line) = line.total /\ TwiceTaken(line) = 0
<1>1. price \in Nat /\ q \in Nat
  BY OrderItemsAssumption
<1>2. price * q \in Nat
  BY <1>1
<1>3. line \in Line
  BY <1>2 DEF LineOf, Line
<1>4. line.state = "ACTIVE" /\ line.replaces = r
  BY DEF LineOf
<1>. QED  BY <1>3, <1>4 DEF ActiveCost, TwiceTaken

\* addItem
LEMMA AddingExplains ==
    ASSUME NEW lines, NEW subtotal, Explained(lines, subtotal),
           NEW line \in Line, line.state = "ACTIVE", line.replaces = 0
    PROVE  Explained(Append(lines, line), subtotal + line.total)
<1>1. PICK new : new = Append(lines, line)
  OBVIOUS
<1>2. PICK n : n = Len(lines) /\ n \in Nat /\ DOMAIN lines = 1 .. n
  BY SeqOfLines DEF Explained
<1>3. lines \in Seq(Line) /\ subtotal \in Nat /\ line.total \in Nat
  BY DEF Explained, Line
<1>4. /\ new \in Seq(Line) /\ Len(new) = n + 1 /\ new[n + 1] = line
      /\ \A i \in 1 .. n : new[i] = lines[i]
      /\ ActiveTotal(new) = ActiveTotal(lines) + ActiveCost(line)
      /\ RemovedThenReplacedTotal(new) = RemovedThenReplacedTotal(lines) + TwiceTaken(line)
  <2>1. OneMore(new, lines, line)
    BY <1>1, <1>3, TotalsOfMore, Zenon
  <2>. QED  BY <1>2, <2>1 DEF OneMore
<1>5. DOMAIN new = 1 .. n + 1
  BY <1>4, SeqOfLines
<1>6. ActiveCost(line) = line.total /\ TwiceTaken(line) = 0
  BY DEF ActiveCost, TwiceTaken
<1>7. /\ ActiveTotal(lines) \in Nat
      /\ RemovedThenReplacedTotal(lines) \in Nat
  BY <1>3, TotalsAreNat
<1>8. subtotal + line.total + RemovedThenReplacedTotal(new) = ActiveTotal(new)
  BY <1>3, <1>4, <1>6, <1>7 DEF Explained
<1>9. ASSUME NEW i \in DOMAIN new PROVE new[i].replaces < i
  <2>1. CASE i = n + 1
    BY <1>2, <1>4, <2>1
  <2>2. CASE i # n + 1
    <3>1. i \in 1 .. n
      BY <1>2, <1>5, <2>2
    <3>. QED  BY <1>2, <1>4, <3>1 DEF Explained
  <2>. QED  BY <2>1, <2>2
<1>10. ASSUME NEW i \in DOMAIN new
       PROVE  Cardinality(Replacing(new, i)) = IF new[i].state = "REPLACED" THEN 1 ELSE 0
  <2>1. CASE i = n + 1
    <3>1. ASSUME NEW j \in DOMAIN new PROVE new[j].replaces # i
      BY <1>2, <1>4, <1>5, <1>9, <2>1 DEF Line
    <3>2. Replacing(new, i) = {}
      BY <3>1 DEF Replacing
    <3>. QED  BY <1>4, <2>1, <3>2, FS_EmptySet
  <2>2. CASE i # n + 1
    <3>1. i \in 1 .. n /\ i # 0
      BY <1>2, <1>5, <2>2
    <3>2. Replacing(new, i) = Replacing(lines, i)
      BY <1>2, <1>4, <1>5, <3>1 DEF Replacing
    <3>. QED  BY <1>2, <1>4, <3>1, <3>2 DEF Explained
  <2>. QED  BY <2>1, <2>2
<1>. QED  BY <1>1, <1>3, <1>4, <1>8, <1>9, <1>10 DEF Explained

\* A line is another, which replaces what it did and is REPLACED if it was.
LEMMA ChangingExplains ==
    ASSUME NEW lines, NEW subtotal, Explained(lines, subtotal),
           NEW i \in DOMAIN lines, NEW line \in Line, NEW after \in Nat,
           lines[i].state # "REPLACED", line.state # "REPLACED",
           line.replaces = lines[i].replaces,
           after + ActiveCost(lines[i]) = subtotal + ActiveCost(line)
    PROVE  Explained([lines EXCEPT ![i] = line], after)
<1>1. PICK new : new = [lines EXCEPT ![i] = line]
  OBVIOUS
<1>2. PICK n : n = Len(lines) /\ n \in Nat /\ DOMAIN lines = 1 .. n
  BY SeqOfLines DEF Explained
<1>3. lines \in Seq(Line) /\ subtotal \in Nat /\ i \in 1 .. n /\ lines[i] \in Line
  BY <1>2 DEF Explained
<1>4. /\ new \in Seq(Line) /\ Len(new) = n /\ new[i] = line
      /\ \A j \in 1 .. n : j # i => new[j] = lines[j]
      /\ ActiveTotal(new) + ActiveCost(lines[i]) = ActiveTotal(lines) + ActiveCost(line)
      /\ RemovedThenReplacedTotal(new) + TwiceTaken(lines[i])
             = RemovedThenReplacedTotal(lines) + TwiceTaken(line)
  <2>1. i \in 1 .. Len(lines)
    BY <1>2, <1>3
  <2>2. OneOther(new, lines, i, line)
    BY <1>1, <1>3, <2>1, TotalsOfOther, Zenon
  <2>. QED  BY <1>2, <2>2 DEF OneOther
<1>5. DOMAIN new = 1 .. n
  BY <1>4, SeqOfLines
<1>6. TwiceTaken(lines[i]) = 0 /\ TwiceTaken(line) = 0
  BY DEF TwiceTaken
<1>7. /\ ActiveTotal(lines) \in Nat /\ ActiveTotal(new) \in Nat
      /\ RemovedThenReplacedTotal(lines) \in Nat /\ RemovedThenReplacedTotal(new) \in Nat
      /\ ActiveCost(lines[i]) \in Nat /\ ActiveCost(line) \in Nat
  BY <1>3, <1>4, TotalsAreNat, CostsAreNat
<1>8. after + RemovedThenReplacedTotal(new) = ActiveTotal(new)
  <2>1. subtotal + RemovedThenReplacedTotal(lines) = ActiveTotal(lines)
    BY DEF Explained
  <2>2. RemovedThenReplacedTotal(new) = RemovedThenReplacedTotal(lines)
    BY <1>4, <1>6, <1>7
  <2>3. ActiveTotal(new) + ActiveCost(lines[i]) = ActiveTotal(lines) + ActiveCost(line)
    BY <1>4
  <2>4. after + ActiveCost(lines[i]) = subtotal + ActiveCost(line)
    OBVIOUS
  <2>5. PICK a, b, r, c, d : /\ a = ActiveTotal(lines) /\ b = ActiveTotal(new)
                             /\ r = RemovedThenReplacedTotal(lines)
                             /\ c = ActiveCost(lines[i]) /\ d = ActiveCost(line)
    OBVIOUS
  <2>6. /\ subtotal + r = a /\ b + c = a + d /\ after + c = subtotal + d
        /\ {a, b, r, c, d, subtotal, after} \subseteq Nat
    BY <1>3, <1>7, <2>1, <2>3, <2>4, <2>5
  <2>7. after + r = b
    BY <2>6
  <2>. QED  BY <2>2, <2>5, <2>7
<1>9. \A j \in 1 .. n : new[j].replaces = lines[j].replaces
  BY <1>3, <1>4
<1>10. \A j \in DOMAIN new : new[j].replaces < j
  BY <1>2, <1>5, <1>9 DEF Explained
<1>11. ASSUME NEW j \in DOMAIN new
       PROVE  Cardinality(Replacing(new, j)) = IF new[j].state = "REPLACED" THEN 1 ELSE 0
  <2>1. Replacing(new, j) = Replacing(lines, j)
    BY <1>2, <1>5, <1>9 DEF Replacing
  <2>2. new[j].state = "REPLACED" <=> lines[j].state = "REPLACED"
    BY <1>4, <1>5
  <2>. QED  BY <1>2, <1>5, <2>1, <2>2 DEF Explained
<1>. QED  BY <1>1, <1>4, <1>8, <1>10, <1>11 DEF Explained

\* replaceItem: the line i is gone, and another replaces it.
LEMMA ReplacingExplains ==
    ASSUME NEW lines, NEW subtotal, Explained(lines, subtotal),
           NEW i \in DOMAIN lines, lines[i].state # "REPLACED",
           NEW gone \in Line, gone.state = "REPLACED", gone.before = lines[i].state,
           gone.total = lines[i].total, gone.replaces = lines[i].replaces,
           NEW line \in Line, line.state = "ACTIVE", line.replaces = i,
           NEW after \in Nat, after + lines[i].total = subtotal + line.total
    PROVE  Explained(Append([lines EXCEPT ![i] = gone], line), after)
<1>1. PICK mid : mid = [lines EXCEPT ![i] = gone]
  OBVIOUS
<1>2. PICK new : new = Append(mid, line)
  OBVIOUS
<1>3. PICK n : n = Len(lines) /\ n \in Nat /\ DOMAIN lines = 1 .. n
  BY SeqOfLines DEF Explained
<1>4. lines \in Seq(Line) /\ subtotal \in Nat /\ i \in 1 .. n /\ lines[i] \in Line
  BY <1>3 DEF Explained
<1>5. /\ mid \in Seq(Line) /\ Len(mid) = n /\ mid[i] = gone
      /\ \A j \in 1 .. n : j # i => mid[j] = lines[j]
      /\ ActiveTotal(mid) + ActiveCost(lines[i]) = ActiveTotal(lines) + ActiveCost(gone)
      /\ RemovedThenReplacedTotal(mid) + TwiceTaken(lines[i])
             = RemovedThenReplacedTotal(lines) + TwiceTaken(gone)
  <2>1. i \in 1 .. Len(lines)
    BY <1>3, <1>4
  <2>2. OneOther(mid, lines, i, gone)
    BY <1>1, <1>4, <2>1, TotalsOfOther, Zenon
  <2>. QED  BY <1>3, <2>2 DEF OneOther
<1>6. /\ new \in Seq(Line) /\ Len(new) = n + 1 /\ new[n + 1] = line
      /\ \A j \in 1 .. n : new[j] = mid[j]
      /\ ActiveTotal(new) = ActiveTotal(mid) + ActiveCost(line)
      /\ RemovedThenReplacedTotal(new) = RemovedThenReplacedTotal(mid) + TwiceTaken(line)
  <2>1. OneMore(new, mid, line)
    BY <1>2, <1>5, TotalsOfMore, Zenon
  <2>. QED  BY <1>5, <2>1 DEF OneMore
<1>7. DOMAIN new = 1 .. n + 1
  BY <1>6, SeqOfLines
<1>8. after + RemovedThenReplacedTotal(new) = ActiveTotal(new)
  <2>1. /\ ActiveCost(gone) = 0 /\ TwiceTaken(lines[i]) = 0
        /\ ActiveCost(line) = line.total /\ TwiceTaken(line) = 0
    BY DEF ActiveCost, TwiceTaken
  <2>2. /\ ActiveCost(lines[i]) \in Nat /\ TwiceTaken(gone) \in Nat
        /\ ActiveCost(lines[i]) + TwiceTaken(gone) = lines[i].total
    <3>1. PICK was : was = lines[i]
      OBVIOUS
    <3>2. was \in Line /\ was.state # "REPLACED" /\ gone.before = was.state
          /\ gone.total = was.total
      BY <1>4, <3>1
    <3>3. was.total \in Nat /\ was.state \in {"ACTIVE", "REMOVED"}
      BY <3>2 DEF Line
    <3>4. CASE was.state = "ACTIVE"
      <4>1. ActiveCost(was) = was.total /\ TwiceTaken(gone) = 0
        BY <3>2, <3>4 DEF ActiveCost, TwiceTaken
      <4>. QED  BY <3>1, <3>3, <4>1
    <3>5. CASE was.state = "REMOVED"
      <4>1. ActiveCost(was) = 0 /\ TwiceTaken(gone) = was.total
        BY <3>2, <3>5 DEF ActiveCost, TwiceTaken
      <4>. QED  BY <3>1, <3>3, <4>1
    <3>. QED  BY <3>3, <3>4, <3>5
  <2>3. PICK a, b, c, r, q, s, lost, new2, x, y :
            /\ a = ActiveTotal(lines) /\ b = ActiveTotal(mid) /\ c = ActiveTotal(new)
            /\ r = RemovedThenReplacedTotal(lines) /\ q = RemovedThenReplacedTotal(mid)
            /\ s = RemovedThenReplacedTotal(new)
            /\ lost = lines[i].total /\ new2 = line.total
            /\ x = ActiveCost(lines[i]) /\ y = TwiceTaken(gone)
    OBVIOUS
  <2>4. {a, b, c, r, q, s} \subseteq Nat
    BY <1>4, <1>5, <1>6, <2>3, TotalsAreNat
  <2>5. lost \in Nat /\ new2 \in Nat /\ x \in Nat /\ y \in Nat
    BY <1>4, <2>2, <2>3 DEF Line
  <2>6. subtotal + r = a /\ subtotal \in Nat
    BY <2>3 DEF Explained
  <2>7. b + x = a /\ q = r + y /\ c = b + new2 /\ s = q /\ x + y = lost
    BY <1>5, <1>6, <2>1, <2>2, <2>3, <2>4
  <2>8. after + lost = subtotal + new2
    BY <2>3
  <2>9. after + s = c
    BY <2>4, <2>5, <2>6, <2>7, <2>8
  <2>. QED  BY <2>3, <2>9
<1>9. \A j \in 1 .. n : /\ new[j].replaces = lines[j].replaces
                        /\ j # i => new[j].state = lines[j].state
  BY <1>4, <1>5, <1>6
<1>10. new[i].state = "REPLACED" /\ new[n + 1].replaces = i /\ new[n + 1].state = "ACTIVE"
  BY <1>4, <1>5, <1>6
<1>11. ASSUME NEW j \in DOMAIN new PROVE new[j].replaces < j
  <2>1. CASE j = n + 1
    BY <1>3, <1>4, <1>10, <2>1
  <2>2. CASE j # n + 1
    <3>1. j \in 1 .. n
      BY <1>3, <1>7, <2>2
    <3>2. lines[j].replaces < j
      BY <1>3, <3>1 DEF Explained
    <3>. QED  BY <1>9, <3>1, <3>2
  <2>. QED  BY <2>1, <2>2
<1>12. ASSUME NEW j \in DOMAIN new
       PROVE  Cardinality(Replacing(new, j)) = IF new[j].state = "REPLACED" THEN 1 ELSE 0
  <2>1. CASE j = n + 1
    <3>1. ASSUME NEW k \in DOMAIN new PROVE new[k].replaces # j
      <4>1. new[k].replaces < k /\ k \in 1 .. n + 1
        BY <1>7, <1>11
      <4>2. new[k] \in Line
        BY <1>6, <1>7, SeqOfLines
      <4>3. new[k].replaces \in 0 .. MaxLines /\ MaxLines \in Nat
        BY <4>2, OrderItemsAssumption DEF Line
      <4>. QED  BY <1>3, <2>1, <4>1, <4>3
    <3>2. Replacing(new, j) = {}
      BY <3>1 DEF Replacing
    <3>. QED  BY <1>10, <2>1, <3>2, FS_EmptySet
  <2>2. CASE j = i
    <3>1. Replacing(lines, i) = {}
      <4>1. Cardinality(Replacing(lines, i)) = 0
        BY DEF Explained
      <4>. QED  BY <1>4, <4>1, ReplacingIsFinite, FS_EmptySet
    <3>2. Replacing(new, i) = {n + 1}
      <4>1. \A k \in 1 .. n : new[k].replaces # i
        BY <1>3, <1>9, <3>1 DEF Replacing
      <4>2. \A k \in 1 .. n + 1 : k \in 1 .. n \/ k = n + 1
        BY <1>3
      <4>3. n + 1 \in 1 .. n + 1
        BY <1>3
      <4>. QED  BY <1>7, <1>10, <4>1, <4>2, <4>3 DEF Replacing
    <3>3. Cardinality({n + 1}) = 1
      BY FS_Singleton
    <3>. QED  BY <1>10, <2>2, <3>2, <3>3
  <2>3. CASE j # n + 1 /\ j # i
    <3>1. j \in 1 .. n
      BY <1>3, <1>7, <2>3
    <3>2. Replacing(new, j) = Replacing(lines, j)
      <4>1. \A k \in 1 .. n + 1 : k \in 1 .. n \/ k = n + 1
        BY <1>3
      <4>2. \A k \in 1 .. n : k \in 1 .. n + 1
        BY <1>3
      <4>. QED  BY <1>3, <1>7, <1>9, <1>10, <2>3, <4>1, <4>2 DEF Replacing
    <3>3. Cardinality(Replacing(lines, j)) = IF lines[j].state = "REPLACED" THEN 1 ELSE 0
      BY <1>3, <3>1 DEF Explained
    <3>. QED  BY <1>9, <2>3, <3>1, <3>2, <3>3
  <2>. QED  BY <2>1, <2>2, <2>3
<1>. QED  BY <1>1, <1>2, <1>6, <1>8, <1>11, <1>12 DEF Explained

LEMMA SumOfZeros ==
    ASSUME NEW n \in Nat, NEW a, \A i \in 1 .. n : a[i] = 0
    PROVE  Sum(n, a) = 0
<1>1. PICK s : Beginnings(s, n, a)
  BY SumUnfolds
<1> DEFINE S == {i \in 0 .. n : s[i] = 0}
<1>2. 0 \in S
  BY <1>1 DEF Beginnings
<1>3. ASSUME NEW i \in 0 .. n, i + 1 <= n, i \in S
      PROVE  i + 1 \in S
  <2>1. s[i + 1] = s[i] + a[i + 1]
    BY <1>1, <1>3 DEF Beginnings
  <2>2. a[i + 1] = 0 /\ s[i] = 0 /\ i + 1 \in 0 .. n
    BY <1>3
  <2>. QED  BY <2>1, <2>2
<1>4. \A i \in 0 .. n : i \in S
  <2> HIDE DEF S
  <2>. QED  BY <1>2, <1>3, UpTo
<1>. QED  BY <1>1, <1>4 DEF Beginnings

\* create: every line is ACTIVE and replaces nothing.
LEMMA PlacingExplains ==
    ASSUME NEW cart \in Carts, NEW prices \in [Products -> 1 .. MaxPrice],
           NEW lines, lines = PlacedLines(cart, prices)
    PROVE  Explained(lines, Total(lines))
<1>1. PICK n : n = Len(cart) /\ n \in Nat /\ DOMAIN cart = 1 .. n
  BY OrderItemsAssumption
<1>2. \A i \in 1 .. n : cart[i].product \in Products /\ cart[i].quantity \in 1 .. MaxQuantity
  <2>1. cart \in Seq([product : Products, quantity : 1 .. MaxQuantity])
    BY OrderItemsAssumption
  <2>2. \A i \in 1 .. n : cart[i] \in [product : Products, quantity : 1 .. MaxQuantity]
    BY <1>1, <2>1, ElementOfSeq
  <2>. QED  BY <2>2
<1>3. DOMAIN lines = 1 .. n
  BY <1>1 DEF PlacedLines
<1>4. ASSUME NEW i \in 1 .. n
      PROVE  lines[i] \in Line /\ lines[i].state = "ACTIVE" /\ lines[i].replaces = 0
  <2>1. PICK p, q : p = cart[i].product /\ q = cart[i].quantity
    OBVIOUS
  <2>2. p \in Products /\ q \in 1 .. MaxQuantity /\ prices[p] \in 1 .. MaxPrice
    BY <1>2, <2>1
  <2>3. lines[i] = LineOf(p, q, prices[p], 0)
    BY <1>1, <2>1 DEF PlacedLines
  <2>4. 0 \in 0 .. MaxLines
    BY OrderItemsAssumption
  <2>. QED  BY <2>2, <2>3, <2>4, LineOfIsLine
<1>5. lines \in Seq(Line) /\ Len(lines) = n
  <2>1. lines = [i \in 1 .. n |-> lines[i]]
    BY <1>1 DEF PlacedLines
  <2>. QED  BY <1>1, <1>4, <2>1
<1>6. RemovedThenReplacedTotal(lines) = 0
  <2> DEFINE b == [i \in DOMAIN lines |->
                     IF lines[i].state = "REPLACED" /\ lines[i].before = "REMOVED"
                     THEN lines[i].total ELSE 0]
  <2>1. \A i \in 1 .. n : b[i] = 0
    BY <1>3, <1>4
  <2>2. Sum(n, b) = 0
    <3> HIDE DEF b
    <3>. QED  BY <1>1, <2>1, SumOfZeros
  <2>. QED  BY <1>5, <2>2 DEF RemovedThenReplacedTotal
<1>7. ActiveTotal(lines) = Total(lines)
  <2>1. [i \in DOMAIN lines |-> IF lines[i].state = "ACTIVE" THEN lines[i].total ELSE 0]
            = [i \in DOMAIN lines |-> lines[i].total]
    BY <1>3, <1>4
  <2>. QED  BY <2>1 DEF ActiveTotal, Total
<1>8. ASSUME NEW i \in DOMAIN lines
      PROVE  Cardinality(Replacing(lines, i)) = IF lines[i].state = "REPLACED" THEN 1 ELSE 0
  <2>1. Replacing(lines, i) = {}
    BY <1>1, <1>3, <1>4 DEF Replacing
  <2>. QED  BY <1>3, <1>4, <2>1, FS_EmptySet
<1>9. \A i \in DOMAIN lines : lines[i].replaces < i
  BY <1>1, <1>3, <1>4
<1>10. Total(lines) \in Nat /\ Total(lines) + 0 = Total(lines)
  BY <1>5, TotalsAreNat
<1>. QED  BY <1>5, <1>6, <1>7, <1>8, <1>9, <1>10 DEF Explained

----------------------------------------------------------------------------
(* The inductive invariant. *)

\* A key stands for an order that was placed.
KeysAreUsed == \A k \in DOMAIN placed : orders[placed[k].order].status # "NONE"

\* What was quoted asks for something under some key.
QuotedAsks ==
    \A c \in Placings :
        placings[c].step \in {"quoted", "answered"} =>
            placings[c].cart \in Carts /\ placings[c].key \in PlaceKeys

\* Explained says LinesExplained of one order, and that a line only replaces one that
\* was there before it.
IInv ==
    /\ TypeOK
    /\ \A o \in Orders : Explained(items[o], orders[o].subtotal)
    /\ PlacedOnce
    /\ KeysAreUsed
    /\ QuotedAsks

LEMMA NothingIsExplained == Explained(<<>>, 0)
<1>1. <<>> \in Seq(Line) /\ Len(<<>>) = 0 /\ DOMAIN <<>> = {}
  OBVIOUS
<1>2. ActiveTotal(<<>>) = 0 /\ RemovedThenReplacedTotal(<<>>) = 0
  BY <1>1, SumOfNothing DEF ActiveTotal, RemovedThenReplacedTotal
<1>. QED  BY <1>1, <1>2 DEF Explained

LEMMA InitKeeps == Init => IInv
<1> SUFFICES ASSUME Init PROVE IInv
  OBVIOUS
<1>1. DOMAIN placed = {} /\ DOMAIN commands = {}
  BY DEF Init
<1>2. /\ orders \in [Orders -> Order] /\ items \in [Orders -> Seq(Line)]
      /\ placings \in [Placings -> Placing]
  BY DEF Init, Order, Placing, NoPlacing
<1>3. placed = [k \in {} |-> placed[k]] /\ commands = [k \in {} |-> commands[k]]
  BY DEF Init
<1>4. TypeOK
  BY <1>1, <1>2, <1>3 DEF TypeOK
<1>5. \A o \in Orders : Explained(items[o], orders[o].subtotal)
  BY NothingIsExplained DEF Init
<1>6. PlacedOnce /\ KeysAreUsed /\ QuotedAsks
  BY <1>1 DEF Init, PlacedOnce, KeysAreUsed, QuotedAsks, NoPlacing
<1>. QED  BY <1>4, <1>5, <1>6 DEF IInv

----------------------------------------------------------------------------
(* Edits. *)

LEMMA EditKeeps ==
    ASSUME IInv, NEW op \in Operations, NEW key \in EditKeys, NEW of \in Arguments,
           NEW lines, NEW less \in Nat, NEW more \in Nat, NEW after,
           Edit(op, key, of, lines, less, more),
           after + less = orders[of.order].subtotal + more, after \in Nat,
           Explained(lines, after),
           orders[of.order].status # "NONE"
    PROVE  IInv'
<1>1. PICK o \in Orders : o = of.order
  BY DEF Arguments
<1>2. TypeOK /\ orders[o] \in Order
  BY DEF IInv, TypeOK
<1>3. /\ orders' = [orders EXCEPT ![o].subtotal = @ + more - less]
      /\ items' = [items EXCEPT ![o] = lines]
      /\ commands' = With(commands, <<op, key>>, of)
      /\ placed' = placed /\ placings' = placings
  BY <1>1 DEF Edit
<1>4. orders[o].subtotal + more - less = after
  BY <1>1, <1>2 DEF Order
<1>5. /\ orders'[o].subtotal = after
      /\ orders'[o].status = orders[o].status
      /\ \A p \in Orders : p # o => orders'[p] = orders[p]
      /\ orders' \in [Orders -> Order]
  BY <1>2, <1>3, <1>4 DEF TypeOK, Order
<1>6. /\ items'[o] = lines /\ \A p \in Orders : p # o => items'[p] = items[p]
      /\ items' \in [Orders -> Seq(Line)]
  BY <1>2, <1>3 DEF TypeOK, Explained
<1>7. /\ DOMAIN commands' \subseteq Operations \X EditKeys
      /\ commands' \in [DOMAIN commands' -> Arguments]
  <2>1. PICK c : c = <<op, key>>
    OBVIOUS
  <2>2. /\ DOMAIN commands' = DOMAIN commands \cup {c}
        /\ commands'[c] = of
        /\ \A d \in DOMAIN commands : d # c => commands'[d] = commands[d]
        /\ commands' = [d \in DOMAIN commands \cup {c} |-> commands'[d]]
    <3>1. PICK f : f = commands'
      OBVIOUS
    <3>2. f = With(commands, c, of)
      BY <1>3, <2>1, <3>1
    <3>3. /\ DOMAIN f = DOMAIN commands \cup {c} /\ f[c] = of
          /\ \A d \in DOMAIN commands : d # c => f[d] = commands[d]
          /\ f = [d \in DOMAIN commands \cup {c} |-> f[d]]
      BY <3>2 DEF With
    <3>. QED  BY <3>1, <3>3
  <2>3. c \in Operations \X EditKeys
    BY <2>1
  <2>4. /\ DOMAIN commands \subseteq Operations \X EditKeys
        /\ \A d \in DOMAIN commands : commands[d] \in Arguments
    BY <1>2 DEF TypeOK
  <2>5. \A d \in DOMAIN commands' : commands'[d] \in Arguments
    BY <2>2, <2>4
  <2>. QED  BY <2>2, <2>3, <2>4, <2>5
<1>8. TypeOK'
  BY <1>2, <1>3, <1>5, <1>6, <1>7 DEF TypeOK
<1>9. \A p \in Orders : Explained(items'[p], orders'[p].subtotal)
  BY <1>5, <1>6 DEF IInv
<1>10. \A p \in Orders : orders'[p].status = orders[p].status
  BY <1>5
<1>11. PlacedOnce' /\ KeysAreUsed' /\ QuotedAsks'
  <2>1. \A k \in DOMAIN placed : placed[k].order \in Orders
    BY <1>2 DEF TypeOK
  <2>2. KeysAreUsed'
    BY <1>3, <1>10, <2>1 DEF IInv, KeysAreUsed
  <2>3. QuotedAsks'
    BY <1>3 DEF IInv, QuotedAsks
  <2>4. PlacedOnce'
    BY <1>3, <1>10 DEF IInv, PlacedOnce
  <2>. QED  BY <2>2, <2>3, <2>4
<1>. QED  BY <1>8, <1>9, <1>11 DEF IInv

\* What an edit finds.
LEMMA EditFinds ==
    ASSUME IInv, NEW o \in Orders
    PROVE  /\ items[o] \in Seq(Line) /\ Explained(items[o], orders[o].subtotal)
           /\ orders[o].subtotal \in Nat
           /\ \A i \in DOMAIN items[o] : items[o][i] \in Line /\ items[o][i].total \in Nat
<1>1. items[o] \in Seq(Line) /\ Explained(items[o], orders[o].subtotal)
  BY DEF IInv, TypeOK
<1>2. \A i \in DOMAIN items[o] : items[o][i] \in Line
  BY <1>1, SeqOfLines
<1>. QED  BY <1>1, <1>2 DEF Explained, Line

LEMMA AddItemKeeps ==
    ASSUME IInv, NEW key \in EditKeys, NEW o \in Orders, NEW p \in Products,
           NEW q \in 1 .. MaxQuantity, NEW price \in 1 .. MaxPrice, NEW of,
           of = [order |-> o, line |-> 0, product |-> p, quantity |-> q],
           AddItem(key, of, price)
    PROVE  IInv'
<1>1. of \in Arguments /\ of.order = o /\ of.product = p /\ of.quantity = q
  BY OrderItemsAssumption DEF Arguments
<1>2. PICK line : line = LineOf(p, q, price, 0)
  OBVIOUS
<1>3. line \in Line /\ line.state = "ACTIVE" /\ line.replaces = 0
  <2>1. 0 \in 0 .. MaxLines
    BY OrderItemsAssumption
  <2>. QED  BY <1>2, <2>1, LineOfIsLine
<1>4. line.total \in Nat
  BY <1>3 DEF Line
<1>5. Edit("itemAdd", key, of, Append(items[o], line), 0, line.total) /\ Editable(o)
  BY <1>1, <1>2 DEF AddItem
<1>6. /\ Explained(items[o], orders[o].subtotal) /\ orders[o].subtotal \in Nat
  BY EditFinds
<1>7. Explained(Append(items[o], line), orders[o].subtotal + line.total)
  BY <1>3, <1>6, AddingExplains
<1>8. PICK after : after = orders[o].subtotal + line.total
  OBVIOUS
<1>9. after \in Nat /\ after + 0 = orders[of.order].subtotal + line.total
  BY <1>1, <1>4, <1>6, <1>8
<1>10. orders[of.order].status # "NONE" /\ "itemAdd" \in Operations
  BY <1>1, <1>5 DEF Editable, Operations
<1>. QED  BY <1>1, <1>4, <1>5, <1>7, <1>8, <1>9, <1>10, EditKeeps

LEMMA RemoveItemKeeps ==
    ASSUME IInv, NEW key \in EditKeys, NEW o \in Orders, NEW i \in 1 .. MaxLines, NEW of,
           of = [order |-> o, line |-> i, product |-> None, quantity |-> 0],
           RemoveItem(key, of)
    PROVE  IInv'
<1>1. of \in Arguments /\ of.order = o /\ of.line = i
  BY OrderItemsAssumption DEF Arguments
<1>2. /\ Edit("itemRemove", key, of, [items[o] EXCEPT ![i].state = "REMOVED"],
              items[o][i].total, 0)
      /\ Editable(o) /\ i \in DOMAIN items[o] /\ items[o][i].state = "ACTIVE"
  BY <1>1 DEF RemoveItem, Active
<1>3. /\ Explained(items[o], orders[o].subtotal) /\ orders[o].subtotal \in Nat
      /\ items[o][i] \in Line /\ items[o][i].total \in Nat
  BY <1>2, EditFinds
<1>4. PICK line : line = [items[o][i] EXCEPT !.state = "REMOVED"]
  OBVIOUS
<1>5. line \in Line /\ line.state = "REMOVED" /\ line.replaces = items[o][i].replaces
  BY <1>3, <1>4 DEF Line
<1>6. Edit("itemRemove", key, of, [items[o] EXCEPT ![i] = line], items[o][i].total, 0)
  BY <1>2, <1>4
<1>7. PICK after : after = orders[o].subtotal - items[o][i].total
  OBVIOUS
<1>8. /\ after \in Nat /\ after + items[o][i].total = orders[o].subtotal
      /\ orders[o].subtotal + 0 = orders[o].subtotal
  <2>1. orders[o].subtotal + 0 >= items[o][i].total
    BY <1>1, <1>2 DEF Edit
  <2>. QED  BY <1>3, <1>7, <2>1
<1>9. ActiveCost(items[o][i]) = items[o][i].total /\ ActiveCost(line) = 0
  BY <1>2, <1>5 DEF ActiveCost
<1>10. Explained([items[o] EXCEPT ![i] = line], after)
  <2>1. after + ActiveCost(items[o][i]) = orders[o].subtotal + ActiveCost(line)
    BY <1>8, <1>9
  <2>2. items[o][i].state # "REPLACED" /\ line.state # "REPLACED"
    BY <1>2, <1>5
  <2>. QED  BY <1>2, <1>3, <1>5, <1>8, <2>1, <2>2, ChangingExplains
<1>11. orders[of.order].status # "NONE" /\ "itemRemove" \in Operations
  BY <1>1, <1>2 DEF Editable, Operations
<1>. QED  BY <1>1, <1>3, <1>6, <1>8, <1>10, <1>11, EditKeeps

LEMMA ChangeQuantityKeeps ==
    ASSUME IInv, NEW key \in EditKeys, NEW o \in Orders, NEW i \in 1 .. MaxLines,
           NEW q \in 1 .. MaxQuantity, NEW of,
           of = [order |-> o, line |-> i, product |-> None, quantity |-> q],
           ChangeQuantity(key, of)
    PROVE  IInv'
<1>1. of \in Arguments /\ of.order = o /\ of.line = i /\ of.quantity = q
  BY OrderItemsAssumption DEF Arguments
<1>2. PICK total : total = items[o][i].price * q
  OBVIOUS
<1>3. /\ Edit("itemQuantity", key, of,
              [items[o] EXCEPT ![i].quantity = q, ![i].total = total],
              items[o][i].total, total)
      /\ Editable(o) /\ i \in DOMAIN items[o] /\ items[o][i].state = "ACTIVE"
  BY <1>1, <1>2 DEF ChangeQuantity, Active
<1>4. /\ Explained(items[o], orders[o].subtotal) /\ orders[o].subtotal \in Nat
      /\ items[o][i] \in Line /\ items[o][i].total \in Nat /\ items[o] \in Seq(Line)
  BY <1>3, EditFinds
<1>5. total \in Nat
  <2>1. PICK price : price = items[o][i].price /\ price \in Nat
    BY <1>4, OrderItemsAssumption DEF Line
  <2>2. q \in Nat
    BY OrderItemsAssumption
  <2>. QED  BY <1>2, <2>1, <2>2
<1>6. PICK line : line = [items[o][i] EXCEPT !.quantity = q, !.total = total]
  OBVIOUS
<1>7. /\ line \in Line /\ line.state = "ACTIVE" /\ line.replaces = items[o][i].replaces
      /\ line.total = total
  BY <1>3, <1>4, <1>5, <1>6 DEF Line
<1>8. [items[o] EXCEPT ![i].quantity = q, ![i].total = total] = [items[o] EXCEPT ![i] = line]
  BY <1>3, <1>4, <1>6
<1>9. Edit("itemQuantity", key, of, [items[o] EXCEPT ![i] = line], items[o][i].total, total)
  BY <1>3, <1>8
<1>10. PICK after : after = orders[o].subtotal + total - items[o][i].total
  OBVIOUS
<1>11. after \in Nat /\ after + items[o][i].total = orders[o].subtotal + total
  <2>1. orders[o].subtotal + total >= items[o][i].total
    BY <1>1, <1>3 DEF Edit
  <2>. QED  BY <1>4, <1>5, <1>10, <2>1
<1>12. ActiveCost(items[o][i]) = items[o][i].total /\ ActiveCost(line) = total
  BY <1>3, <1>7 DEF ActiveCost
<1>13. Explained([items[o] EXCEPT ![i] = line], after)
  <2>1. after + ActiveCost(items[o][i]) = orders[o].subtotal + ActiveCost(line)
    BY <1>11, <1>12
  <2>2. items[o][i].state # "REPLACED" /\ line.state # "REPLACED"
    BY <1>3, <1>7
  <2>. QED  BY <1>3, <1>4, <1>7, <1>11, <2>1, <2>2, ChangingExplains
<1>14. orders[of.order].status # "NONE" /\ "itemQuantity" \in Operations
  BY <1>1, <1>3 DEF Editable, Operations
<1>. QED  BY <1>1, <1>4, <1>5, <1>9, <1>11, <1>13, <1>14, EditKeeps

LEMMA ReplaceItemKeeps ==
    ASSUME IInv, NEW key \in EditKeys, NEW o \in Orders, NEW i \in 1 .. MaxLines,
           NEW p \in Products, NEW q \in 1 .. MaxQuantity, NEW price \in 1 .. MaxPrice,
           NEW of, of = [order |-> o, line |-> i, product |-> p, quantity |-> q],
           ReplaceItem(key, of, price)
    PROVE  IInv'
<1>1. /\ of \in Arguments /\ of.order = o /\ of.line = i
      /\ of.product = p /\ of.quantity = q
  BY OrderItemsAssumption DEF Arguments
<1>2. PICK line : line = LineOf(p, q, price, i)
  OBVIOUS
<1>3. /\ line \in Line /\ line.state = "ACTIVE" /\ line.replaces = i /\ line.total \in Nat
  <2>1. i \in 0 .. MaxLines
    BY OrderItemsAssumption
  <2>2. line \in Line /\ line.state = "ACTIVE" /\ line.replaces = i
    BY <1>2, <2>1, LineOfIsLine
  <2>. QED  BY <2>2 DEF Line
<1>4. PICK original : original = items[o][i]
  OBVIOUS
<1>5. /\ Editable(o) /\ i \in DOMAIN items[o] /\ original.state # "REPLACED"
      /\ Edit("itemReplace", key, of,
              Append([items[o] EXCEPT ![i].state = "REPLACED",
                          ![i].before = IF original.state = "REPLACED" THEN @
                                        ELSE original.state], line),
              original.total, line.total)
  BY <1>1, <1>2, <1>4 DEF ReplaceItem, Replaceable
<1>6. /\ Explained(items[o], orders[o].subtotal) /\ orders[o].subtotal \in Nat
      /\ original \in Line /\ original.total \in Nat /\ items[o] \in Seq(Line)
  BY <1>4, <1>5, EditFinds
<1>7. PICK gone : gone = [original EXCEPT !.state = "REPLACED", !.before = original.state]
  OBVIOUS
<1>8. /\ gone \in Line /\ gone.state = "REPLACED" /\ gone.before = original.state
      /\ gone.total = original.total /\ gone.replaces = original.replaces
  BY <1>5, <1>6, <1>7 DEF Line
<1>9. [items[o] EXCEPT ![i].state = "REPLACED",
                       ![i].before = IF original.state = "REPLACED" THEN @ ELSE original.state]
          = [items[o] EXCEPT ![i] = gone]
  BY <1>4, <1>5, <1>6, <1>7
<1>10. Edit("itemReplace", key, of, Append([items[o] EXCEPT ![i] = gone], line),
            original.total, line.total)
  BY <1>5, <1>9
<1>11. PICK after : after = orders[o].subtotal + line.total - original.total
  OBVIOUS
<1>12. after \in Nat /\ after + original.total = orders[o].subtotal + line.total
  <2>1. orders[o].subtotal + line.total >= original.total
    BY <1>1, <1>5 DEF Edit
  <2>. QED  BY <1>3, <1>6, <1>11, <2>1
<1>13. Explained(Append([items[o] EXCEPT ![i] = gone], line), after)
  <2>1. PICK lines, subtotal : lines = items[o] /\ subtotal = orders[o].subtotal
    OBVIOUS
  <2>2. /\ Explained(lines, subtotal) /\ i \in DOMAIN lines /\ lines[i] = original
        /\ after + lines[i].total = subtotal + line.total
    BY <1>4, <1>5, <1>6, <1>12, <2>1
  <2>3. /\ lines[i].state # "REPLACED" /\ gone.before = lines[i].state
        /\ gone.total = lines[i].total /\ gone.replaces = lines[i].replaces
    BY <1>5, <1>8, <2>2
  <2>4. Explained(Append([lines EXCEPT ![i] = gone], line), after)
    BY <1>3, <1>8, <1>12, <2>2, <2>3, ReplacingExplains
  <2>. QED  BY <2>1, <2>4
<1>14. orders[of.order].status # "NONE" /\ "itemReplace" \in Operations
  BY <1>1, <1>5 DEF Editable, Operations
<1>. QED  BY <1>1, <1>3, <1>6, <1>10, <1>12, <1>13, <1>14, EditKeeps

----------------------------------------------------------------------------
(* Placing, and the lifecycle. *)

\* A request goes on, the tables stay.
LEMMA PlacingGoesOn ==
    ASSUME IInv, NEW c \in Placings, NEW row \in Placing,
           placings' = [placings EXCEPT ![c] = row],
           UNCHANGED <<orders, items, placed, commands>>,
           row.step \in {"quoted", "answered"} => row.cart \in Carts /\ row.key \in PlaceKeys,
           row.step = "answered" =>
               /\ row.key \in DOMAIN placed
               /\ placed[row.key] = [cart |-> row.cart, order |-> row.order]
    PROVE  IInv'
<1>1. TypeOK
  BY DEF IInv
<1>2. placings'[c] = row /\ \A d \in Placings : d # c => placings'[d] = placings[d]
  BY <1>1 DEF TypeOK
<1>3. TypeOK'
  BY <1>1 DEF TypeOK
<1>4. QuotedAsks'
  BY <1>2 DEF IInv, QuotedAsks
<1>5. PlacedOnce'
  <2>1. \A o \in Orders : orders'[o].status # "NONE" =>
            Cardinality({k \in DOMAIN placed' : placed'[k].order = o}) = 1
    BY DEF IInv, PlacedOnce
  <2>2. ASSUME NEW d \in Placings, placings'[d].step = "answered"
        PROVE  /\ placings'[d].key \in DOMAIN placed'
               /\ placed'[placings'[d].key]
                      = [cart |-> placings'[d].cart, order |-> placings'[d].order]
    <3>1. CASE d = c
      BY <1>2, <2>2, <3>1
    <3>2. CASE d # c
      BY <1>2, <2>2, <3>2 DEF IInv, PlacedOnce
    <3>. QED  BY <3>1, <3>2
  <2>. QED  BY <2>1, <2>2 DEF PlacedOnce
<1>6. KeysAreUsed'
  BY DEF IInv, KeysAreUsed
<1>7. \A o \in Orders : Explained(items'[o], orders'[o].subtotal)
  BY DEF IInv
<1>. QED  BY <1>3, <1>4, <1>5, <1>6, <1>7 DEF IInv

LEMMA PlacingRows ==
    ASSUME IInv, NEW c \in Placings
    PROVE  placings[c] \in Placing
BY DEF IInv, TypeOK

LEMMA QuoteKeeps ==
    ASSUME IInv, NEW c \in Placings, NEW cart \in Carts, NEW key \in PlaceKeys,
           NEW admits \in BOOLEAN, Quote(c, cart, key, admits)
    PROVE  IInv'
<1>1. PICK again \in BOOLEAN : again = IsRepeated(cart, key)
  BY DEF IsRepeated
<1>2. PICK row : row = [ step |-> IF admits THEN "quoted" ELSE "refused", cart |-> cart,
                         key |-> key, again |-> again, order |-> None ]
  OBVIOUS
<1>3. row \in Placing /\ row.step \in {"quoted", "refused"} /\ row.cart = cart /\ row.key = key
  BY <1>2 DEF Placing
<1>4. placings' = [placings EXCEPT ![c] = row] /\ UNCHANGED <<orders, items, placed, commands>>
  BY <1>1, <1>2 DEF Quote
<1>. QED  BY <1>3, <1>4, PlacingGoesOn

\* A refused request changes nothing but itself.
LEMMA RefusedKeeps ==
    ASSUME IInv, NEW c \in Placings, Refused(c), UNCHANGED <<orders, items, placed, commands>>
    PROVE  IInv'
<1>1. PICK row : row = [placings[c] EXCEPT !.step = "refused"]
  OBVIOUS
<1>2. row \in Placing /\ row.step = "refused"
  BY <1>1, PlacingRows DEF Placing
<1>3. placings' = [placings EXCEPT ![c] = row]
  BY <1>1 DEF Refused
<1>. QED  BY <1>2, <1>3, PlacingGoesOn

\* An answer sets two fields of its request's row.
LEMMA AnsweredAtOnce ==
    ASSUME NEW rows \in [Placings -> Placing], NEW c \in Placings, NEW o,
           NEW row, row = [rows[c] EXCEPT !.step = "answered", !.order = o]
    PROVE  [rows EXCEPT ![c].step = "answered", ![c].order = o] = [rows EXCEPT ![c] = row]
OBVIOUS

LEMMA PlaceAgainKeeps ==
    ASSUME IInv, NEW c \in Placings, PlaceAgain(c)
    PROVE  IInv'
<1>1. UNCHANGED <<orders, items, placed, commands>> /\ placings[c].step = "quoted"
  BY DEF PlaceAgain
<1>2. CASE Refused(c)
  BY <1>1, <1>2, RefusedKeeps
<1>3. CASE placed[placings[c].key].cart = placings[c].cart
  <2>1. PICK o : o = placed[placings[c].key].order
    OBVIOUS
  <2>2. /\ placings[c].key \in DOMAIN placed
        /\ placings' = [placings EXCEPT ![c].step = "answered", ![c].order = o]
    BY <1>3, <2>1 DEF PlaceAgain, Known, Answered
  <2>3. placed[placings[c].key] \in [cart : Carts, order : Orders]
    BY <2>2 DEF IInv, TypeOK
  <2>4. o \in Orders /\ placed[placings[c].key] = [cart |-> placings[c].cart, order |-> o]
    BY <1>3, <2>1, <2>3
  <2>5. PICK row : row = [placings[c] EXCEPT !.step = "answered", !.order = o]
    OBVIOUS
  <2>6. /\ row \in Placing /\ row.step = "answered" /\ row.order = o
        /\ row.cart = placings[c].cart /\ row.key = placings[c].key
    BY <2>4, <2>5, PlacingRows DEF Placing
  <2>7. row.cart \in Carts /\ row.key \in PlaceKeys
    BY <1>1, <2>6 DEF IInv, QuotedAsks
  <2>8. placings' = [placings EXCEPT ![c] = row]
    <3>1. placings \in [Placings -> Placing]
      BY DEF IInv, TypeOK
    <3>. QED  BY <2>2, <2>5, <3>1, AnsweredAtOnce
  <2>9. /\ row.key \in DOMAIN placed
        /\ placed[row.key] = [cart |-> row.cart, order |-> row.order]
    BY <2>2, <2>4, <2>6
  <2>. QED  BY <1>1, <2>6, <2>7, <2>8, <2>9, PlacingGoesOn
<1>. QED  BY <1>2, <1>3 DEF PlaceAgain

LEMMA AnswerKeeps ==
    ASSUME IInv, NEW c \in Placings, Answer(c)
    PROVE  IInv'
<1>1. PICK row : row = [NoPlacing EXCEPT !.step = "gone"]
  OBVIOUS
<1>2. row \in Placing /\ row.step = "gone"
  BY <1>1 DEF NoPlacing, Placing
<1>3. placings' = [placings EXCEPT ![c] = row] /\ UNCHANGED <<orders, items, placed, commands>>
  BY <1>1 DEF Answer
<1>. QED  BY <1>2, <1>3, PlacingGoesOn

\* The one step that places: the key is new, so nobody knew the order.
LEMMA PlaceNewKeeps ==
    ASSUME IInv, NEW c \in Placings, NEW o \in Orders,
           NEW prices \in [Products -> 1 .. MaxPrice], PlaceNew(c, o, prices)
    PROVE  IInv'
<1>1. TypeOK /\ PlacedOnce /\ KeysAreUsed /\ QuotedAsks
  BY DEF IInv
<1>2. PICK cart, key : cart = placings[c].cart /\ key = placings[c].key
  OBVIOUS
<1>3. PICK lines : lines = PlacedLines(cart, prices)
  OBVIOUS
<1>4. PICK new : new = [status |-> "EDITABLE", subtotal |-> Total(lines)]
  OBVIOUS
<1>5. /\ placings[c].step = "quoted" /\ key \notin DOMAIN placed
      /\ orders[o].status = "NONE"
      /\ orders' = [orders EXCEPT ![o] = new] /\ items' = [items EXCEPT ![o] = lines]
      /\ placed' = With(placed, key, [cart |-> cart, order |-> o])
      /\ placings' = [placings EXCEPT ![c].step = "answered", ![c].order = o]
      /\ commands' = commands
  BY <1>2, <1>3, <1>4 DEF PlaceNew, Known, Answered
<1>6. cart \in Carts /\ key \in PlaceKeys
  BY <1>1, <1>2, <1>5 DEF QuotedAsks
<1>7. Explained(lines, Total(lines))
  BY <1>3, <1>6, PlacingExplains
<1>8. new \in Order /\ new.status # "NONE" /\ new.subtotal = Total(lines)
  BY <1>4, <1>7 DEF Explained, Order
<1>9. /\ orders'[o] = new /\ items'[o] = lines
      /\ \A p \in Orders : p # o => orders'[p] = orders[p] /\ items'[p] = items[p]
  BY <1>1, <1>5 DEF TypeOK
<1>10. /\ DOMAIN placed' = DOMAIN placed \cup {key}
       /\ placed'[key] = [cart |-> cart, order |-> o]
       /\ \A k \in DOMAIN placed : placed'[k] = placed[k]
       /\ placed' = [k \in DOMAIN placed \cup {key} |-> placed'[k]]
  <2>1. PICK v : v = [cart |-> cart, order |-> o]
    OBVIOUS
  <2>2. placed' = With(placed, key, v)
    BY <1>5, <2>1
  <2>3. /\ DOMAIN placed' = DOMAIN placed \cup {key} /\ placed'[key] = v
        /\ \A k \in DOMAIN placed : k # key => placed'[k] = placed[k]
        /\ placed' = [k \in DOMAIN placed \cup {key} |-> placed'[k]]
    <3>1. PICK f : f = placed'
      OBVIOUS
    <3>2. f = With(placed, key, v)
      BY <2>2, <3>1
    <3>3. /\ DOMAIN f = DOMAIN placed \cup {key} /\ f[key] = v
          /\ \A k \in DOMAIN placed : k # key => f[k] = placed[k]
          /\ f = [k \in DOMAIN placed \cup {key} |-> f[k]]
      BY <3>2 DEF With
    <3>. QED  BY <3>1, <3>3
  <2>. QED  BY <1>5, <2>1, <2>3
<1>11. PICK row : row = [placings[c] EXCEPT !.step = "answered", !.order = o]
  OBVIOUS
<1>12. /\ row \in Placing /\ row.step = "answered" /\ row.order = o
       /\ row.cart = cart /\ row.key = key
  BY <1>2, <1>11, PlacingRows DEF Placing
<1>13. placings' = [placings EXCEPT ![c] = row]
  BY <1>5, <1>11, PlacingRows DEF IInv, TypeOK
<1>14. placings'[c] = row /\ \A d \in Placings : d # c => placings'[d] = placings[d]
  BY <1>1, <1>13 DEF TypeOK
<1>15. \A k \in DOMAIN placed : placed[k] \in [cart : Carts, order : Orders]
  BY <1>1 DEF TypeOK
<1>16. TypeOK'
  <2>1. orders' \in [Orders -> Order] /\ items' \in [Orders -> Seq(Line)]
    BY <1>1, <1>5, <1>7, <1>8 DEF TypeOK, Explained
  <2>2. placings' \in [Placings -> Placing]
    BY <1>1, <1>12, <1>13 DEF TypeOK
  <2>3. DOMAIN placed' \subseteq PlaceKeys
    BY <1>1, <1>6, <1>10 DEF TypeOK
  <2>4. \A k \in DOMAIN placed' : placed'[k] \in [cart : Carts, order : Orders]
    <3>1. placed'[key] \in [cart : Carts, order : Orders]
      BY <1>6, <1>10
    <3>. QED  BY <1>10, <1>15, <3>1
  <2>5. placed' \in [DOMAIN placed' -> [cart : Carts, order : Orders]]
    BY <1>10, <2>4
  <2>. QED  BY <1>1, <1>5, <2>1, <2>2, <2>3, <2>5 DEF TypeOK
<1>17. \A p \in Orders : Explained(items'[p], orders'[p].subtotal)
  BY <1>7, <1>8, <1>9 DEF IInv
<1>18. \A k \in DOMAIN placed : placed[k].order # o /\ placed[k].order \in Orders
  BY <1>1, <1>5, <1>15 DEF KeysAreUsed
<1>19. KeysAreUsed'
  <2>1. SUFFICES ASSUME NEW k \in DOMAIN placed'
                 PROVE  orders'[placed'[k].order].status # "NONE"
    BY DEF KeysAreUsed
  <2>2. CASE k = key
    BY <1>8, <1>9, <1>10, <2>2
  <2>3. CASE k # key
    <3>1. k \in DOMAIN placed /\ placed'[k] = placed[k]
      BY <1>10, <2>1, <2>3
    <3>2. orders[placed[k].order].status # "NONE"
      BY <1>1, <3>1 DEF KeysAreUsed
    <3>. QED  BY <1>9, <1>18, <3>1, <3>2
  <2>. QED  BY <2>2, <2>3
<1>20. QuotedAsks'
  BY <1>1, <1>6, <1>12, <1>14 DEF QuotedAsks
<1>21. PlacedOnce'
  <2>1. ASSUME NEW p \in Orders, orders'[p].status # "NONE"
        PROVE  Cardinality({k \in DOMAIN placed' : placed'[k].order = p}) = 1
    <3>1. CASE p = o
      <4>1. {k \in DOMAIN placed' : placed'[k].order = p} = {key}
        BY <1>10, <1>18, <3>1
      <4>. QED  BY <4>1, FS_Singleton
    <3>2. CASE p # o
      <4>1. {k \in DOMAIN placed' : placed'[k].order = p}
                = {k \in DOMAIN placed : placed[k].order = p}
        BY <1>10, <3>2
      <4>2. orders[p].status # "NONE"
        BY <1>9, <2>1, <3>2
      <4>. QED  BY <1>1, <4>1, <4>2 DEF PlacedOnce
    <3>. QED  BY <3>1, <3>2
  <2>2. ASSUME NEW d \in Placings, placings'[d].step = "answered"
        PROVE  /\ placings'[d].key \in DOMAIN placed'
               /\ placed'[placings'[d].key]
                      = [cart |-> placings'[d].cart, order |-> placings'[d].order]
    <3>1. CASE d = c
      BY <1>10, <1>12, <1>14, <3>1
    <3>2. CASE d # c
      <4>1. placings'[d] = placings[d]
        BY <1>14, <3>2
      <4>2. /\ placings[d].key \in DOMAIN placed
            /\ placed[placings[d].key]
                   = [cart |-> placings[d].cart, order |-> placings[d].order]
        BY <1>1, <2>2, <4>1 DEF PlacedOnce
      <4>. QED  BY <1>10, <4>1, <4>2
    <3>. QED  BY <3>1, <3>2
  <2>. QED  BY <2>1, <2>2 DEF PlacedOnce
<1>. QED  BY <1>16, <1>17, <1>19, <1>20, <1>21 DEF IInv

LEMMA ProgressKeeps ==
    ASSUME IInv, NEW o \in Orders, Progress(o)
    PROVE  IInv'
<1>1. TypeOK /\ orders[o] \in Order
  BY DEF IInv, TypeOK
<1>2. PICK status : status = IF orders[o].status = "EDITABLE" THEN "LOCKED" ELSE "EDITABLE"
  OBVIOUS
<1>3. /\ orders' = [orders EXCEPT ![o].status = status]
      /\ orders[o].status # "NONE" /\ status \in {"LOCKED", "EDITABLE"}
      /\ UNCHANGED <<items, placed, commands, placings>>
  BY <1>2 DEF Progress
<1>4. /\ orders'[o].status = status /\ orders'[o].subtotal = orders[o].subtotal
      /\ orders' \in [Orders -> Order]
      /\ \A p \in Orders : p # o => orders'[p] = orders[p]
  BY <1>1, <1>3 DEF TypeOK, Order
<1>5. \A p \in Orders : /\ orders'[p].subtotal = orders[p].subtotal
                        /\ orders'[p].status = "NONE" <=> orders[p].status = "NONE"
  BY <1>3, <1>4
<1>6. TypeOK'
  BY <1>1, <1>3, <1>4 DEF TypeOK
<1>7. \A k \in DOMAIN placed : placed[k].order \in Orders
  BY <1>1 DEF TypeOK
<1>8. KeysAreUsed'
  BY <1>3, <1>5, <1>7 DEF IInv, KeysAreUsed
<1>9. QuotedAsks'
  BY <1>3 DEF IInv, QuotedAsks
<1>10. PlacedOnce'
  BY <1>3, <1>5 DEF IInv, PlacedOnce
<1>11. \A p \in Orders : Explained(items'[p], orders'[p].subtotal)
  BY <1>3, <1>5 DEF IInv
<1>. QED  BY <1>6, <1>8, <1>9, <1>10, <1>11 DEF IInv

----------------------------------------------------------------------------
(* The theorems. *)

LEMMA NextKeeps == IInv /\ [Next]_vars => IInv'
<1> SUFFICES ASSUME IInv, [Next]_vars PROVE IInv'
  OBVIOUS
<1>1. CASE UNCHANGED vars
  <2>1. TypeOK' = TypeOK /\ PlacedOnce' = PlacedOnce /\ KeysAreUsed' = KeysAreUsed
        /\ QuotedAsks' = QuotedAsks
    BY <1>1 DEF vars, TypeOK, PlacedOnce, KeysAreUsed, QuotedAsks
  <2>2. items' = items /\ orders' = orders
    BY <1>1 DEF vars
  <2>. QED  BY <2>1, <2>2 DEF IInv
<1>2. ASSUME NEW c \in Placings, NEW cart \in Carts, NEW key \in PlaceKeys,
             NEW admits \in BOOLEAN, Quote(c, cart, key, admits)
      PROVE  IInv'
  BY <1>2, QuoteKeeps
<1>3. ASSUME NEW c \in Placings, PlaceAgain(c) PROVE IInv'
  BY <1>3, PlaceAgainKeeps
<1>4. ASSUME NEW c \in Placings, NEW o \in Orders, NEW prices \in [Products -> 1 .. MaxPrice],
             PlaceNew(c, o, prices)
      PROVE  IInv'
  BY <1>4, PlaceNewKeeps
<1>5. ASSUME NEW c \in Placings, PlaceRefused(c) PROVE IInv'
  BY <1>5, RefusedKeeps DEF PlaceRefused
<1>6. ASSUME NEW c \in Placings, Answer(c) PROVE IInv'
  BY <1>6, AnswerKeeps
<1>7. ASSUME NEW key \in EditKeys, NEW o \in Orders, NEW p \in Products,
             NEW q \in 1 .. MaxQuantity, NEW price \in 1 .. MaxPrice,
             AddItem(key, [order |-> o, line |-> 0, product |-> p, quantity |-> q], price)
      PROVE  IInv'
  BY <1>7, AddItemKeeps
<1>8. ASSUME NEW key \in EditKeys, NEW o \in Orders, NEW i \in 1 .. MaxLines,
             RemoveItem(key, [order |-> o, line |-> i, product |-> None, quantity |-> 0])
      PROVE  IInv'
  BY <1>8, RemoveItemKeeps
<1>9. ASSUME NEW key \in EditKeys, NEW o \in Orders, NEW i \in 1 .. MaxLines,
             NEW q \in 1 .. MaxQuantity,
             ChangeQuantity(key, [order |-> o, line |-> i, product |-> None, quantity |-> q])
      PROVE  IInv'
  BY <1>9, ChangeQuantityKeeps
<1>10. ASSUME NEW key \in EditKeys, NEW o \in Orders, NEW i \in 1 .. MaxLines,
              NEW p \in Products, NEW q \in 1 .. MaxQuantity, NEW price \in 1 .. MaxPrice,
              ReplaceItem(key, [order |-> o, line |-> i, product |-> p, quantity |-> q], price)
       PROVE  IInv'
  BY <1>10, ReplaceItemKeeps
<1>11. ASSUME NEW o \in Orders, Progress(o) PROVE IInv'
  BY <1>11, ProgressKeeps
<1>12. CASE Next
  BY <1>2, <1>3, <1>4, <1>5, <1>6, <1>7, <1>8, <1>9, <1>10, <1>11, <1>12, Zenon DEF Next
<1>. QED  BY <1>1, <1>12

\* Every reachable state satisfies the inductive invariant.
THEOREM Invariance == Spec => []IInv
BY InitKeeps, NextKeeps, PTL DEF Spec

\* Orders, lines, keys and requests have their types, for any orders, products and keys.
THEOREM ItemsTypeCorrect == Spec => []TypeOK
<1>1. IInv => TypeOK  BY DEF IInv
<1>. QED  BY <1>1, Invariance, PTL

\* The lines of an order account for its subtotal and for each other, after any number of
\* edits of any lines (addItem, removeItem, changeQuantity, replaceItem).
THEOREM LinesAlwaysExplained == Spec => []LinesExplained
<1>1. IInv => LinesExplained
  <2> SUFFICES ASSUME IInv PROVE LinesExplained
    OBVIOUS
  <2>1. SubtotalExplained
    BY DEF IInv, Explained, SubtotalExplained
  <2>2. ReplacedOnce
    BY DEF IInv, Explained, ReplacedOnce, Replacing
  <2>. QED  BY <2>1, <2>2 DEF LinesExplained
<1>. QED  BY <1>1, Invariance, PTL

\* There is one order for one key, and all requests it answered asked for the same
\* (OrderService.create).
THEOREM PlacedOnceAlways == Spec => []PlacedOnce
<1>1. IInv => PlacedOnce  BY DEF IInv
<1>. QED  BY <1>1, Invariance, PTL

UsesAKey(o) ==
    \E c \in DOMAIN commands' \ DOMAIN commands :
        /\ \A d \in DOMAIN commands : commands'[d] = commands[d]
        /\ commands'[c].order = o

\* What an edit does to lines and keys.
LEMMA EditUsesItsKey ==
    ASSUME TypeOK, NEW op, NEW key, NEW of, NEW lines, NEW less, NEW more,
           of.order \in Orders, <<op, key>> \notin DOMAIN commands,
           Edit(op, key, of, lines, less, more),
           NEW o \in Orders, items'[o] # items[o]
    PROVE  UsesAKey(o)
<1>1. PICK c : c = <<op, key>>
  OBVIOUS
<1>2. /\ commands' = With(commands, c, of) /\ c \notin DOMAIN commands
      /\ items' = [items EXCEPT ![of.order] = lines]
  BY <1>1 DEF Edit
<1>3. /\ DOMAIN commands' = DOMAIN commands \cup {c} /\ commands'[c] = of
      /\ \A d \in DOMAIN commands : commands'[d] = commands[d]
  BY <1>2 DEF With
<1>4. o = of.order
  BY <1>2 DEF TypeOK
<1>. QED  BY <1>2, <1>3, <1>4 DEF UsesAKey

\* A command that is repeated, or sent with an old key, edits nothing
\* (beginOfferIdempotency, completeOfferIdempotency).
THEOREM EditsOncePerKeyAlways == Spec => EditsOncePerKey
<1>1. TypeOK /\ [Next]_vars =>
          [\A o \in Orders :
               orders[o].status # "NONE" /\ items'[o] # items[o] =>
                   \E c \in DOMAIN commands' \ DOMAIN commands :
                       /\ \A d \in DOMAIN commands : commands'[d] = commands[d]
                       /\ commands'[c].order = o]_vars
  <2> SUFFICES ASSUME TypeOK, Next, NEW o \in Orders,
                      orders[o].status # "NONE", items'[o] # items[o]
               PROVE  UsesAKey(o)
    BY DEF UsesAKey
  <2>1. ASSUME NEW c \in Placings, NEW p \in Orders,
               NEW prices \in [Products -> 1 .. MaxPrice], PlaceNew(c, p, prices)
        PROVE  FALSE
    <3>1. orders[p].status = "NONE" /\ p # o
      BY <2>1 DEF PlaceNew
    <3>2. PICK lines : items' = [items EXCEPT ![p] = lines]
      BY <2>1 DEF PlaceNew
    <3>. QED  BY <3>1, <3>2 DEF TypeOK
  <2>2. ASSUME NEW op, NEW key, NEW of, NEW lines, NEW less, NEW more,
               of.order \in Orders, Proceeds(op, key, of),
               Edit(op, key, of, lines, less, more)
        PROVE  UsesAKey(o)
    BY <2>2, EditUsesItsKey DEF Proceeds
  <2>3. ASSUME NEW key \in EditKeys, NEW p \in Orders, NEW x \in Products,
               NEW q \in 1 .. MaxQuantity, NEW price \in 1 .. MaxPrice,
               AddItem(key, [order |-> p, line |-> 0, product |-> x, quantity |-> q], price)
        PROVE  UsesAKey(o)
    <3>1. PICK of : of = [order |-> p, line |-> 0, product |-> x, quantity |-> q]
      OBVIOUS
    <3>2. of.order \in Orders /\ AddItem(key, of, price)
      BY <2>3, <3>1
    <3>. QED  BY <2>2, <3>2 DEF AddItem
  <2>4. ASSUME NEW key \in EditKeys, NEW p \in Orders, NEW i \in 1 .. MaxLines,
               RemoveItem(key, [order |-> p, line |-> i, product |-> None, quantity |-> 0])
        PROVE  UsesAKey(o)
    <3>1. PICK of : of = [order |-> p, line |-> i, product |-> None, quantity |-> 0]
      OBVIOUS
    <3>2. of.order \in Orders /\ RemoveItem(key, of)
      BY <2>4, <3>1
    <3>. QED  BY <2>2, <3>2 DEF RemoveItem
  <2>5. ASSUME NEW key \in EditKeys, NEW p \in Orders, NEW i \in 1 .. MaxLines,
               NEW q \in 1 .. MaxQuantity,
               ChangeQuantity(key, [order |-> p, line |-> i, product |-> None, quantity |-> q])
        PROVE  UsesAKey(o)
    <3>1. PICK of : of = [order |-> p, line |-> i, product |-> None, quantity |-> q]
      OBVIOUS
    <3>2. of.order \in Orders /\ ChangeQuantity(key, of)
      BY <2>5, <3>1
    <3>. QED  BY <2>2, <3>2 DEF ChangeQuantity
  <2>6. ASSUME NEW key \in EditKeys, NEW p \in Orders, NEW i \in 1 .. MaxLines,
               NEW x \in Products, NEW q \in 1 .. MaxQuantity, NEW price \in 1 .. MaxPrice,
               ReplaceItem(key, [order |-> p, line |-> i, product |-> x, quantity |-> q], price)
        PROVE  UsesAKey(o)
    <3>1. PICK of : of = [order |-> p, line |-> i, product |-> x, quantity |-> q]
      OBVIOUS
    <3>2. of.order \in Orders /\ ReplaceItem(key, of, price)
      BY <2>6, <3>1
    <3>. QED  BY <2>2, <3>2 DEF ReplaceItem
  <2>7. ASSUME NEW c \in Placings, NEW cart \in Carts, NEW key \in PlaceKeys,
               NEW admits \in BOOLEAN, Quote(c, cart, key, admits)
        PROVE  FALSE
    BY <2>7 DEF Quote
  <2>8. ASSUME NEW c \in Placings, PlaceAgain(c) \/ PlaceRefused(c) \/ Answer(c)
        PROVE  FALSE
    BY <2>8 DEF PlaceAgain, PlaceRefused, Answer
  <2>9. ASSUME NEW p \in Orders, Progress(p) PROVE FALSE
    BY <2>9 DEF Progress
  <2>. QED  BY <2>1, <2>3, <2>4, <2>5, <2>6, <2>7, <2>8, <2>9, Zenon DEF Next
<1>. QED  BY <1>1, ItemsTypeCorrect, PTL DEF Spec, EditsOncePerKey

=============================================================================
