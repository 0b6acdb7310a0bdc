------------------------------ MODULE LRUProofs ------------------------------
(***************************************************************************)
(* The safety of the LRU for any keys, sizes and bounds: list, map and     *)
(* total agree, the least recently used is what goes, and it is the store  *)
(* the cache middleware takes it for.                                      *)
(***************************************************************************)
EXTENDS LRU, FiniteSetTheorems, TLAPS

----------------------------------------------------------------------------
\* Sizes

\* Sizes are numbers.
LEMMA ItemSizes ==
    /\ \A it \in Items : it.size \in Nat
    /\ \A items \in Seq(Items) : \A n \in 1..Len(items) : items[n] \in Items /\ items[n].size \in Nat
<1>1. \A it \in Items : it.size \in Nat
  BY LRUAssumption, Zenon DEF Items
<1> QED
  BY <1>1

\* A term moved past a step of a sum.
LEMMA Moved ==
    ASSUME NEW p \in Nat, NEW r \in Nat, NEW t \in Nat
    PROVE  p + (r + t) = (p + r) + t /\ (r + t) - p = (r - p) + t
  OBVIOUS

\* The sums of the sizes of the first items.
Sums(items, f) ==
    f = [n \in 0..Len(items) |-> IF n = 0 THEN 0 ELSE f[n - 1] + items[n].size]

\* One by one.
LEMMA EachSum ==
    ASSUME NEW items, NEW f, Sums(items, f)
    PROVE  /\ f = [n \in 0..Len(items) |-> f[n]]
           /\ \A n \in 0..Len(items) : f[n] = IF n = 0 THEN 0 ELSE f[n - 1] + items[n].size
<1> DEFINE Term(n) == IF n = 0 THEN 0 ELSE f[n - 1] + items[n].size
<1>1. f = [n \in 0..Len(items) |-> Term(n)]
  BY Zenon DEF Sums
<1> HIDE DEF Term
<1>2. /\ f = [n \in 0..Len(items) |-> f[n]]
      /\ \A n \in 0..Len(items) : f[n] = Term(n)
  BY <1>1, Zenon
<1> QED
  BY <1>2, Zenon DEF Term

\* A non-empty set of numbers has a least one.
LEMMA Least ==
    ASSUME NEW T \in SUBSET Nat, T # {}
    PROVE  \E n \in T : \A m \in T : n <= m
<1> DEFINE Less == {ss \in Nat \X Nat : ss[1] < ss[2]}
<1>1. IsWellFoundedOn(Less, Nat)
  BY NatLessThanWellFounded DEF OpToRel
<1> HIDE DEF Less
<1>2. PICK n \in T : \A m \in T : ~(<<m, n>> \in Less)
  BY <1>1, WFMin, Zenon
<1>3. ASSUME NEW m \in T PROVE n <= m
  <2>1. ~(m < n)
    BY <1>2, Zenon DEF Less
  <2> QED
    BY <2>1
<1> QED
  BY <1>3

\* Nor is there then one before it.
LEMMA LeastOf ==
    ASSUME NEW len \in Nat, NEW Bad \in SUBSET (0..len), Bad # {}, 0 \notin Bad
    PROVE  \E n \in Bad : n \in 1..len /\ n - 1 \in 0..len /\ n - 1 \notin Bad
<1>1. Bad \in SUBSET Nat
  OBVIOUS
<1>2. PICK n \in Bad : \A m \in Bad : n <= m
  BY <1>1, Least, Zenon
<1>3. n \in 1..len /\ n - 1 \in 0..len /\ ~(n <= n - 1)
  OBVIOUS
<1> QED
  BY <1>2, <1>3, Zenon

\* Sums exist: else a shortest prefix had none, and those of the prefix before it
\* could be extended.
LEMMA SumsExist ==
    ASSUME NEW items \in Seq(Items)
    PROVE  \E f : Sums(items, f)
<1> DEFINE Part(n, f) == f = [i \in 0..n |-> IF i = 0 THEN 0 ELSE f[i - 1] + items[i].size]
           Bad == {n \in 0..Len(items) : ~\E f : Part(n, f)}
<1>0. Len(items) \in Nat
  OBVIOUS
<1> SUFFICES ASSUME Bad # {} PROVE FALSE
  BY <1>0 DEF Sums
<1>1. Part(0, [i \in 0..0 |-> 0])
  OBVIOUS
<1>2. Bad \in SUBSET (0..Len(items)) /\ 0 \notin Bad
  BY <1>1, Zenon
<1>3. PICK n \in Bad : n \in 1..Len(items) /\ n - 1 \in 0..Len(items) /\ n - 1 \notin Bad
  BY <1>0, <1>2, LeastOf, Zenon
<1>4. PICK f : Part(n - 1, f)
  BY <1>3, Zenon
<1> DEFINE g == [i \in 0..n |-> IF i = n THEN f[n - 1] + items[n].size ELSE f[i]]
<1>5. ASSUME NEW i \in 0..n PROVE g[i] = IF i = 0 THEN 0 ELSE g[i - 1] + items[i].size
  <2>1. CASE i = n
    BY <1>3, <2>1
  <2>2. CASE i # n
    <3>1. i \in 0..(n - 1) /\ g[i] = f[i] /\ (i # 0 => i - 1 \in 0..n /\ i - 1 # n)
      BY <1>3, <2>2
    <3>2. f[i] = IF i = 0 THEN 0 ELSE f[i - 1] + items[i].size
      BY <1>4, <3>1
    <3> QED
      BY <3>1, <3>2
  <2> QED
    BY <2>1, <2>2
<1>6. Part(n, g)
  BY <1>5, Zenon
<1> QED
  BY <1>6, Zenon

\* They are numbers, and the last of them is the size.
LEMMA LastSum ==
    ASSUME NEW items \in Seq(Items), NEW f, Sums(items, f)
    PROVE  /\ f \in [0..Len(items) -> Nat]
           /\ SizeOf(items) = f[Len(items)]
<1>0. Len(items) \in Nat /\ Len(items) \in 0..Len(items)
  OBVIOUS
<1>1. \A h : Sums(items, h) =>
         h[0] = 0 /\ \A n \in 1..Len(items) : h[n] = h[n - 1] + items[n].size
  <2> SUFFICES ASSUME NEW h, Sums(items, h)
               PROVE  h[0] = 0 /\ \A n \in 1..Len(items) : h[n] = h[n - 1] + items[n].size
    OBVIOUS
  <2>1. \A n \in 0..Len(items) : h[n] = IF n = 0 THEN 0 ELSE h[n - 1] + items[n].size
    BY EachSum, Zenon
  <2>2. 0 \in 0..Len(items) /\ \A n \in 1..Len(items) : n \in 0..Len(items) /\ n # 0
    BY <1>0
  <2> QED
    BY <2>1, <2>2, Zenon
<1>2. \A n \in 1..Len(items) : items[n].size \in Nat
  BY ItemSizes, Zenon
<1>3. \A n \in 0..Len(items) : f[n] \in Nat
  <2> DEFINE Bad == {n \in 0..Len(items) : f[n] \notin Nat}
  <2> SUFFICES ASSUME Bad # {} PROVE FALSE
    OBVIOUS
  <2>1. Bad \in SUBSET (0..Len(items)) /\ 0 \notin Bad
    BY <1>1
  <2>2. PICK n \in Bad : n \in 1..Len(items) /\ n - 1 \in 0..Len(items) /\ n - 1 \notin Bad
    BY <1>0, <2>1, LeastOf, Zenon
  <2>3. f[n - 1] \in Nat /\ items[n].size \in Nat /\ f[n] = f[n - 1] + items[n].size /\ f[n] \notin Nat
    BY <1>1, <1>2, <2>2, Zenon
  <2> QED
    BY <2>3
<1>4. PICK g : Sums(items, g) /\ SizeOf(items) = g[Len(items)]
  BY SumsExist, Zenon DEF SizeOf, Sums
<1>5. \A n \in 0..Len(items) : f[n] = g[n]
  <2> DEFINE Bad == {n \in 0..Len(items) : f[n] # g[n]}
  <2> SUFFICES ASSUME Bad # {} PROVE FALSE
    BY Zenon
  <2>1. Bad \in SUBSET (0..Len(items)) /\ 0 \notin Bad
    BY <1>1, <1>4, Zenon
  <2>2. PICK n \in Bad : n \in 1..Len(items) /\ n - 1 \in 0..Len(items) /\ n - 1 \notin Bad
    BY <1>0, <2>1, LeastOf, Zenon
  <2>3. f[n - 1] = g[n - 1] /\ f[n] = f[n - 1] + items[n].size /\ g[n] = g[n - 1] + items[n].size
    BY <1>1, <1>4, <2>2, Zenon
  <2> QED
    BY <2>2, <2>3, Zenon
<1>6. f = [n \in 0..Len(items) |-> f[n]]
  BY EachSum, Zenon
<1> QED
  BY <1>0, <1>3, <1>4, <1>5, <1>6, Zenon

\* The size by way of the sums.
LEMMA SumOf ==
    ASSUME NEW items \in Seq(Items)
    PROVE  /\ SizeOf(items) \in Nat
           /\ \E f \in [0..Len(items) -> Nat] :
                 /\ f[0] = 0 /\ f[Len(items)] = SizeOf(items)
                 /\ \A n \in 1..Len(items) : f[n] = f[n - 1] + items[n].size
<1>0. /\ Len(items) \in 0..Len(items) /\ 0 \in 0..Len(items)
      /\ \A n \in 1..Len(items) : n \in 0..Len(items) /\ n # 0
  OBVIOUS
<1>1. PICK f : Sums(items, f)
  BY SumsExist, Zenon
<1>2. f \in [0..Len(items) -> Nat] /\ SizeOf(items) = f[Len(items)]
  BY <1>1, LastSum, Zenon
<1>3. \A n \in 0..Len(items) : f[n] = IF n = 0 THEN 0 ELSE f[n - 1] + items[n].size
  BY <1>1, EachSum, Zenon
<1>4. f[0] = 0 /\ \A n \in 1..Len(items) : f[n] = f[n - 1] + items[n].size
  BY <1>0, <1>3, Zenon
<1> QED
  BY <1>0, <1>2, <1>4, Zenon

\* What sums up like them is them.
LEMMA SumsTo ==
    ASSUME NEW items \in Seq(Items), NEW f \in [0..Len(items) -> Int], f[0] = 0,
           \A n \in 1..Len(items) : f[n] = f[n - 1] + items[n].size
    PROVE  SizeOf(items) = f[Len(items)]
<1> DEFINE Term(n) == IF n = 0 THEN 0 ELSE f[n - 1] + items[n].size
<1>1. \A n \in 0..Len(items) : n = 0 \/ n \in 1..Len(items)
  OBVIOUS
<1>2. \A n \in 0..Len(items) : f[n] = Term(n)
  BY <1>1, Zenon
<1> HIDE DEF Term
<1>3. f = [n \in 0..Len(items) |-> Term(n)]
  BY <1>2, Zenon
<1>4. Sums(items, f)
  BY <1>3, Zenon DEF Term, Sums
<1> QED
  BY <1>4, LastSum, Zenon

\* list.PushFront
LEMMA Pushed ==
    ASSUME NEW items \in Seq(Items), NEW it \in Items
    PROVE  /\ <<it>> \o items \in Seq(Items)
           /\ Len(<<it>> \o items) = Len(items) + 1
           /\ \A j \in 1..(Len(items) + 1) :
                 (<<it>> \o items)[j] = IF j = 1 THEN it ELSE items[j - 1]
           /\ SizeOf(<<it>> \o items) = it.size + SizeOf(items)
<1> DEFINE s == <<it>> \o items
<1>1. s \in Seq(Items) /\ Len(s) = Len(items) + 1
      /\ \A j \in 1..(Len(items) + 1) : s[j] = IF j = 1 THEN it ELSE items[j - 1]
  OBVIOUS
<1>2. PICK f \in [0..Len(items) -> Nat] :
        /\ f[0] = 0 /\ f[Len(items)] = SizeOf(items)
        /\ \A n \in 1..Len(items) : f[n] = f[n - 1] + items[n].size
  BY SumOf, Zenon
<1> HIDE DEF s
<1> DEFINE g == [j \in 0..Len(s) |-> IF j = 0 THEN 0 ELSE it.size + f[j - 1]]
<1>3. it.size \in Nat /\ Len(items) \in Nat
  BY ItemSizes
<1>4. g \in [0..Len(s) -> Int] /\ g[0] = 0 /\ g[Len(s)] = it.size + SizeOf(items)
  BY <1>1, <1>2, <1>3
<1>5. ASSUME NEW n \in 1..Len(s) PROVE g[n] = g[n - 1] + s[n].size
  <2>1. CASE n = 1
    <3>1. g[1] = it.size + f[0] /\ g[0] = 0 /\ s[1] = it
      BY <1>1, <1>3
    <3>2. it.size + 0 = 0 + it.size /\ 1 - 1 = 0
      BY <1>3
    <3> QED
      BY <1>2, <2>1, <3>1, <3>2, Zenon
  <2>2. CASE n # 1
    <3>1. n - 1 \in 1..Len(items) /\ n - 1 # 0 /\ (n - 1) - 1 \in 0..Len(items) /\ n - 1 \in 0..Len(items)
      BY <1>1, <1>3, <2>2
    <3>2. f[n - 1] = f[(n - 1) - 1] + items[n - 1].size
      BY <1>2, <3>1, Zenon
    <3>3. s[n] = items[n - 1]
      BY <1>1, <2>2
    <3>4. g[n] = it.size + f[n - 1] /\ g[n - 1] = it.size + f[(n - 1) - 1]
      BY <1>1, <1>3, <2>2, <3>1
    <3>5. items[n - 1].size \in Nat /\ f[(n - 1) - 1] \in Nat
      BY <3>1, ItemSizes, Zenon
    <3>6. it.size + (f[(n - 1) - 1] + items[n - 1].size) = (it.size + f[(n - 1) - 1]) + items[n - 1].size
      BY <1>3, <3>5, Moved, Zenon
    <3> HIDE DEF g
    <3> QED
      BY <3>2, <3>3, <3>4, <3>6, Zenon
  <2> QED
    BY <2>1, <2>2
<1> HIDE DEF g
<1>6. SizeOf(s) = it.size + SizeOf(items)
  BY <1>1, <1>4, <1>5, SumsTo, Zenon
<1> QED
  BY <1>1, <1>6 DEF s

\* A list in two parts.
LEMMA Parted ==
    ASSUME NEW items \in Seq(Items), NEW n \in 0..Len(items)
    PROVE  /\ SubSeq(items, 1, n) \in Seq(Items) /\ Len(SubSeq(items, 1, n)) = n
           /\ \A j \in 1..n : SubSeq(items, 1, n)[j] = items[j]
           /\ After(items, n) \in Seq(Items) /\ Len(After(items, n)) = Len(items) - n
           /\ \A j \in 1..(Len(items) - n) : After(items, n)[j] = items[n + j]
           /\ SizeOf(SubSeq(items, 1, n)) + SizeOf(After(items, n)) = SizeOf(items)
<1> DEFINE a == SubSeq(items, 1, n)
           b == After(items, n)
<1>1. /\ a \in Seq(Items) /\ Len(a) = n
      /\ \A j \in 1..n : a[j] = items[j]
  OBVIOUS
<1>2. /\ b \in Seq(Items) /\ Len(b) = Len(items) - n
      /\ \A j \in 1..(Len(items) - n) : b[j] = items[n + j]
  BY DEF After
<1>3. PICK f \in [0..Len(items) -> Nat] :
        /\ f[0] = 0 /\ f[Len(items)] = SizeOf(items)
        /\ \A m \in 1..Len(items) : f[m] = f[m - 1] + items[m].size
  BY SumOf, Zenon
<1> HIDE DEF a, b
<1>4. SizeOf(a) = f[n]
  <2> DEFINE g == [j \in 0..Len(a) |-> f[j]]
  <2>1. g \in [0..Len(a) -> Int] /\ g[0] = 0 /\ g[Len(a)] = f[n]
    BY <1>1, <1>3
  <2>2. ASSUME NEW m \in 1..Len(a) PROVE g[m] = g[m - 1] + a[m].size
    <3>1. m \in 1..Len(items) /\ m \in 1..n /\ m - 1 \in 0..Len(a) /\ m \in 0..Len(a)
      BY <1>1
    <3> QED
      BY <1>1, <1>3, <3>1, Zenon
  <2> HIDE DEF g
  <2> QED
    BY <1>1, <2>1, <2>2, SumsTo, Zenon
<1>5. SizeOf(b) = f[Len(items)] - f[n]
  <2> DEFINE g == [j \in 0..Len(b) |-> f[n + j] - f[n]]
  <2>1. g \in [0..Len(b) -> Int] /\ g[0] = 0 /\ g[Len(b)] = f[Len(items)] - f[n]
    <3>1. /\ \A j \in 0..Len(b) : n + j \in 0..Len(items)
          /\ n + Len(b) = Len(items) /\ n + 0 = n /\ 0 \in 0..Len(b) /\ Len(b) \in 0..Len(b)
      BY <1>2
    <3>2. \A j \in 0..Len(b) : f[n + j] \in Nat
      BY <1>3, <3>1, Zenon
    <3>3. f[n] \in Nat /\ f[n] - f[n] = 0
      BY <1>3
    <3>4. g \in [0..Len(b) -> Int]
      BY <3>2, <3>3
    <3> QED
      BY <3>1, <3>3, <3>4, Zenon
  <2>2. ASSUME NEW m \in 1..Len(b) PROVE g[m] = g[m - 1] + b[m].size
    <3>1. /\ n + m \in 1..Len(items) /\ (n + m) - 1 = n + (m - 1) /\ (n + m) - 1 \in 0..Len(items)
          /\ n + m \in 0..Len(items) /\ m \in 1..(Len(items) - n)
      BY <1>2
    <3>2. f[n + m] = f[n + (m - 1)] + b[m].size
      BY <1>2, <1>3, <3>1, Zenon
    <3>3. g[m] = f[n + m] - f[n] /\ g[m - 1] = f[n + (m - 1)] - f[n]
      BY <1>2
    <3>4. f[n + (m - 1)] \in Nat /\ b[m].size \in Nat /\ f[n] \in Nat
      BY <1>2, <1>3, <3>1, ItemSizes, Zenon
    <3>5. (f[n + (m - 1)] + b[m].size) - f[n] = (f[n + (m - 1)] - f[n]) + b[m].size
      BY <3>4, Moved, Zenon
    <3> HIDE DEF g
    <3> QED
      BY <3>2, <3>3, <3>5, Zenon
  <2> HIDE DEF g
  <2> QED
    BY <1>2, <2>1, <2>2, SumsTo, Zenon
<1>6. f[n] \in Nat /\ f[Len(items)] \in Nat
  BY <1>3
<1>7. SizeOf(a) + SizeOf(b) = SizeOf(items)
  BY <1>3, <1>4, <1>5, <1>6
<1> QED
  BY <1>1, <1>2, <1>7 DEF a, b

\* list.Remove: what is before and what is behind the element.
Spliced(items, i) == SubSeq(items, 1, i - 1) \o After(items, i)

\* It takes the element's size out, and leaves the others in their order.
LEMMA Removed ==
    ASSUME NEW items \in Seq(Items), NEW i \in 1..Len(items)
    PROVE  /\ Spliced(items, i) \in Seq(Items)
           /\ Len(Spliced(items, i)) = Len(items) - 1
           /\ \A j \in 1..(Len(items) - 1) :
                 Spliced(items, i)[j] = items[IF j < i THEN j ELSE j + 1]
           /\ SizeOf(Spliced(items, i)) = SizeOf(items) - items[i].size
<1> DEFINE a == SubSeq(items, 1, i - 1)
           b == After(items, i)
           s == Spliced(items, i)
<1>0. /\ Len(items) \in Nat /\ i - 1 \in 0..Len(items) /\ i \in 0..Len(items)
      /\ items[i] \in Items /\ items[i].size \in Nat
  BY ItemSizes
<1>1. /\ a \in Seq(Items) /\ Len(a) = i - 1
      /\ \A j \in 1..(i - 1) : a[j] = items[j]
      /\ SizeOf(a) + SizeOf(After(items, i - 1)) = SizeOf(items)
  BY <1>0, Parted, Zenon
<1>2. /\ b \in Seq(Items) /\ Len(b) = Len(items) - i
      /\ \A j \in 1..(Len(items) - i) : b[j] = items[i + j]
  BY <1>0, Parted, Zenon
<1>3. s = a \o b
  BY DEF Spliced
<1>4. After(items, i - 1) = <<items[i]>> \o b
  BY <1>0 DEF After
<1>5. SizeOf(After(items, i - 1)) = items[i].size + SizeOf(b)
  BY <1>0, <1>2, <1>4, Pushed, Zenon
<1> HIDE DEF a, b, s
<1>6. s \in Seq(Items) /\ Len(s) = Len(items) - 1
  <2>1. a \in Seq(Items) /\ b \in Seq(Items)
    BY <1>1, <1>2
  <2>2. a \o b \in Seq(Items) /\ Len(a \o b) = Len(a) + Len(b)
    BY <2>1
  <2>3. (i - 1) + (Len(items) - i) = Len(items) - 1
    BY <1>0
  <2> QED
    BY <1>1, <1>2, <1>3, <2>2, <2>3, Zenon
<1>7. ASSUME NEW j \in 1..(Len(items) - 1)
      PROVE  s[j] = items[IF j < i THEN j ELSE j + 1]
  <2>1. CASE j < i
    BY <1>1, <1>2, <1>3, <2>1
  <2>2. CASE ~(j < i)
    <3>1. j - (i - 1) \in 1..(Len(items) - i) /\ i + (j - (i - 1)) = j + 1
      BY <1>0, <2>2
    <3>2. s[j] = b[j - (i - 1)]
      <4>1. a \in Seq(Items) /\ b \in Seq(Items) /\ Len(a) = i - 1
        BY <1>1, <1>2
      <4>2. j \in 1..(Len(a) + Len(b)) /\ ~(j <= Len(a))
        BY <1>0, <1>1, <1>2, <2>2
      <4>3. (a \o b)[j] = b[j - Len(a)]
        BY <4>1, <4>2
      <4> QED
        BY <1>3, <4>1, <4>3, Zenon
    <3> QED
      BY <1>2, <2>2, <3>1, <3>2, Zenon
  <2> QED
    BY <2>1, <2>2
<1>8. SizeOf(s) = SizeOf(a) + SizeOf(b)
  <2>1. i - 1 \in 0..Len(s)
    BY <1>0, <1>6
  <2>2. SubSeq(s, 1, i - 1) = a /\ After(s, i - 1) = b
    BY <1>0, <1>1, <1>2, <1>3 DEF After
  <2> QED
    BY <1>6, <2>1, <2>2, Parted, Zenon
<1>9. SizeOf(a) \in Nat /\ SizeOf(b) \in Nat /\ SizeOf(items) \in Nat
  BY <1>1, <1>2, SumOf, Zenon
<1>10. SizeOf(s) = SizeOf(items) - items[i].size
  BY <1>0, <1>1, <1>5, <1>8, <1>9
<1> QED
  BY <1>6, <1>7, <1>10 DEF s

\* Time does not change sizes.
LEMMA OlderSizes ==
    ASSUME NEW items \in Seq(Items)
    PROVE  /\ [i \in DOMAIN items |-> Older(items[i])] \in Seq(Items)
           /\ Len([i \in DOMAIN items |-> Older(items[i])]) = Len(items)
           /\ SizeOf([i \in DOMAIN items |-> Older(items[i])]) = SizeOf(items)
<1> DEFINE s == [i \in DOMAIN items |-> Older(items[i])]
<1>1. \A it \in Items : Older(it) \in Items /\ Older(it).size = it.size
  BY LRUAssumption DEF Older, Items
<1>2. s \in Seq(Items) /\ Len(s) = Len(items)
      /\ \A n \in 1..Len(items) : s[n].size = items[n].size
  BY <1>1
<1>3. PICK f \in [0..Len(items) -> Nat] :
        /\ f[0] = 0 /\ f[Len(items)] = SizeOf(items)
        /\ \A m \in 1..Len(items) : f[m] = f[m - 1] + items[m].size
  BY SumOf
<1> HIDE DEF s
<1>4. f \in [0..Len(s) -> Int] /\ \A n \in 1..Len(s) : f[n] = f[n - 1] + s[n].size
  BY <1>2, <1>3
<1>5. SizeOf(s) = f[Len(s)]
  BY <1>2, <1>3, <1>4, SumsTo, Zenon
<1> QED
  BY <1>2, <1>3, <1>5 DEF s

\* evict: what is kept fits.
LEMMA KeptFits ==
    ASSUME NEW items \in Seq(Items), NEW total, total = SizeOf(items)
    PROVE  /\ KeptLen(items, total) \in 0..Len(items)
           /\ Within(KeptLen(items, total), total - SizeOf(After(items, KeptLen(items, total))))
<1> DEFINE Fit(n) == n = 0 \/ Within(n, total - SizeOf(After(items, n)))
           S == {n \in 0..Len(items) : Fit(n)}
           T == {n \in 0..Len(items) : Fit(Len(items) - n)}
<1>0. Len(items) \in Nat
  OBVIOUS
<1>1. Within(0, total - SizeOf(After(items, 0)))
  <2>1. SizeOf(SubSeq(items, 1, 0)) = 0
    <3> DEFINE a == SubSeq(items, 1, 0)
    <3>1. a \in Seq(Items) /\ Len(a) = 0
      BY <1>0, Parted
    <3> HIDE DEF a
    <3>2. PICK f \in [0..Len(a) -> Nat] : f[0] = 0 /\ f[Len(a)] = SizeOf(a)
      BY <3>1, SumOf
    <3> QED
      BY <3>1, <3>2 DEF a
  <2>2. SizeOf(After(items, 0)) = total /\ total \in Nat
    BY <1>0, <2>1, Parted, SumOf
  <2> QED
    BY <2>2, LRUAssumption DEF Within
<1>2. \A n \in S : n \in 0..Len(items) /\ Within(n, total - SizeOf(After(items, n)))
  BY <1>1
<1>3. PICK m \in T : \A q \in T : m <= q
  <2>1. T \in SUBSET Nat
    OBVIOUS
  <2>2. Len(items) \in T
    BY <1>0
  <2> HIDE DEF T
  <2> QED
    BY <2>1, <2>2, Least, Zenon
<1>4. KeptLen(items, total) = CHOOSE n \in S : \A y \in S : y <= n
  BY DEF KeptLen
<1> HIDE DEF Fit
<1>5. Len(items) - m \in S /\ \A y \in S : y <= Len(items) - m
  <2>1. ASSUME NEW y \in S PROVE y <= Len(items) - m
    <3>1. Len(items) - y \in 0..Len(items) /\ Len(items) - (Len(items) - y) = y
      BY <1>0
    <3>2. Len(items) - y \in T
      BY <3>1
    <3>3. m <= Len(items) - y /\ m \in 0..Len(items) /\ y \in 0..Len(items)
      BY <1>3, <3>2
    <3> QED
      BY <1>0, <3>3
  <2> QED
    BY <1>0, <2>1
<1> HIDE DEF S
<1>6. KeptLen(items, total) \in S
  BY <1>4, <1>5, Zenon
<1> QED
  BY <1>2, <1>6

----------------------------------------------------------------------------
\* The list and the map

\* They have the same elements, each once.
Linked(o, x) ==
    /\ o \in Seq(Items)
    /\ \A i \in 1..Len(o) : o[i].key \in DOMAIN x /\ x[o[i].key] = o[i]
    /\ \A k \in DOMAIN x : \E i \in 1..Len(o) : o[i].key = k
    /\ \A i, j \in 1..Len(o) : o[i].key = o[j].key => i = j

\* The list has those that were used later in front.
Sorted(o, r) ==
    \A i, j \in 1..Len(o) : i < j => <<o[i].key, o[j].key>> \in r

\* Both after list.Remove and delete.
LEMMA DetachedLinks ==
    ASSUME Linked(order, index), NEW k \in DOMAIN index
    PROVE  /\ Linked(Detached(k), Without(index, {k}))
           /\ \A i \in 1..Len(Detached(k)) : Detached(k)[i].key # k
           /\ \A r : Sorted(order, r) => Sorted(Detached(k), r)
           /\ Len(Detached(k)) = Len(order) - 1
           /\ SizeOf(Detached(k)) = SizeOf(order) - index[k].size
           /\ index[k] \in Items /\ index[k].key = k
<1> DEFINE p == CHOOSE i \in DOMAIN order : order[i] = index[k]
           d == Detached(k)
<1>1. p \in 1..Len(order) /\ order[p] = index[k] /\ order[p].key = k
  BY DEF Linked
<1>2. order \in Seq(Items) /\ Len(order) \in Nat /\ order[p] \in Items
  BY <1>1 DEF Linked
<1> HIDE DEF p
<1>3. d = Spliced(order, p)
  BY DEF Detached, Spliced, p
<1> HIDE DEF d
<1>4. /\ d \in Seq(Items) /\ Len(d) = Len(order) - 1
      /\ SizeOf(d) = SizeOf(order) - index[k].size
      /\ \A j \in 1..Len(d) : d[j] = order[IF j < p THEN j ELSE j + 1]
  BY <1>1, <1>2, <1>3, Removed, Zenon
<1> DEFINE place(j) == IF j < p THEN j ELSE j + 1
<1>5. /\ \A j \in 1..Len(d) : place(j) \in 1..Len(order) /\ place(j) # p /\ d[j] = order[place(j)]
      /\ \A i, j \in 1..Len(d) : (i < j => place(i) < place(j)) /\ (place(i) = place(j) => i = j)
  BY <1>1, <1>2, <1>4
<1>6. \A i \in 1..Len(order) : i # p => \E j \in 1..Len(d) : place(j) = i
  <2> SUFFICES ASSUME NEW i \in 1..Len(order), i # p PROVE \E j \in 1..Len(d) : place(j) = i
    OBVIOUS
  <2>1. CASE i < p
    BY <1>1, <1>2, <1>4, <2>1
  <2>2. CASE i > p
    <3>1. i - 1 \in 1..Len(d) /\ place(i - 1) = i
      BY <1>1, <1>2, <1>4, <2>2
    <3> QED
      BY <3>1
  <2> QED
    BY <1>1, <2>1, <2>2
<1> HIDE DEF place
<1>7. \A i \in 1..Len(d) : d[i].key # k
  <2> TAKE i \in 1..Len(d)
  <2>1. place(i) \in 1..Len(order) /\ place(i) # p /\ d[i] = order[place(i)]
    BY <1>5
  <2>2. order[place(i)].key = order[p].key => place(i) = p
    BY <1>1, <2>1, Zenon DEF Linked
  <2> QED
    BY <1>1, <2>1, <2>2
<1>8. Linked(d, Without(index, {k}))
  <2>1. ASSUME NEW i \in 1..Len(d)
        PROVE  /\ d[i].key \in DOMAIN Without(index, {k})
               /\ Without(index, {k})[d[i].key] = d[i]
    <3>1. place(i) \in 1..Len(order) /\ d[i] = order[place(i)] /\ d[i].key # k
      BY <1>5, <1>7
    <3>2. d[i].key \in DOMAIN index /\ index[d[i].key] = d[i]
      BY <3>1 DEF Linked
    <3> QED
      BY <3>1, <3>2 DEF Without, Restrict
  <2>2. \A q \in DOMAIN Without(index, {k}) : \E j \in 1..Len(d) : d[j].key = q
    <3> SUFFICES ASSUME NEW q \in DOMAIN index, q # k PROVE \E j \in 1..Len(d) : d[j].key = q
      BY DEF Without, Restrict
    <3>1. PICK i \in 1..Len(order) : order[i].key = q
      BY Zenon DEF Linked
    <3>2. PICK j \in 1..Len(d) : place(j) = i
      BY <1>1, <1>6, <3>1
    <3> QED
      BY <1>5, <3>1, <3>2
  <2>3. ASSUME NEW i \in 1..Len(d), NEW j \in 1..Len(d), d[i].key = d[j].key PROVE i = j
    <3>1. /\ place(i) \in 1..Len(order) /\ place(j) \in 1..Len(order)
          /\ order[place(i)].key = order[place(j)].key
      BY <1>5, <2>3
    <3>2. place(i) = place(j)
      BY <3>1, Zenon DEF Linked
    <3> QED
      BY <1>5, <3>2
  <2> QED
    BY <1>4, <2>1, <2>2, <2>3, Zenon DEF Linked
<1>9. ASSUME NEW r, Sorted(order, r) PROVE Sorted(d, r)
  BY <1>5, <1>9 DEF Sorted
<1> QED
  BY <1>1, <1>2, <1>4, <1>7, <1>8, <1>9 DEF d

\* What Used does to keys other than the one used, and to that one.
LEMMA UsedLater ==
    ASSUME NEW k, Used(k)
    PROVE  /\ \A a, b : <<a, b>> \in newer /\ a # k /\ b # k => <<a, b>> \in newer'
           /\ \A b \in CacheKeys : b # k => <<k, b>> \in newer'
<1>1. newer' = {p \in newer : k \notin Range(p)} \cup ({k} \X (CacheKeys \ {k}))
  BY DEF Used
<1>2. ASSUME NEW a, NEW b, <<a, b>> \in newer, a # k, b # k PROVE <<a, b>> \in newer'
  <2>1. Range(<<a, b>>) = {a, b}
    BY DEF Range
  <2> QED
    BY <1>1, <1>2, <2>1
<1> QED
  BY <1>1, <1>2

\* PushFront and the entry in the map: list s and map y are o and x with it in addition.
PushOf(o, x, it, s, y) ==
    /\ Linked(o, x) /\ it \in Items /\ s = <<it>> \o o
    /\ \A i \in 1..Len(o) : o[i].key # it.key
    /\ DOMAIN y = DOMAIN x \cup {it.key} /\ y[it.key] = it
    /\ \A k \in DOMAIN x : k # it.key => y[k] = x[k]

\* They are linked and sorted if they were before.
LEMMA PushedLinks ==
    ASSUME NEW o, NEW x, NEW it, NEW s, NEW y, PushOf(o, x, it, s, y),
           Sorted(o, newer), Used(it.key)
    PROVE  Linked(s, y) /\ Sorted(s, newer')
<1>0. /\ Linked(o, x) /\ it \in Items
      /\ \A i \in 1..Len(o) : o[i].key # it.key
      /\ DOMAIN y = DOMAIN x \cup {it.key} /\ y[it.key] = it
      /\ \A k \in DOMAIN x : k # it.key => y[k] = x[k]
  BY Zenon DEF PushOf
<1>1. o \in Seq(Items) /\ Len(o) \in Nat
  BY <1>0 DEF Linked
<1>2. /\ s \in Seq(Items) /\ Len(s) = Len(o) + 1
      /\ \A j \in 1..Len(s) : s[j] = IF j = 1 THEN it ELSE o[j - 1]
  <2>1. /\ <<it>> \o o \in Seq(Items) /\ Len(<<it>> \o o) = Len(o) + 1
        /\ \A j \in 1..Len(<<it>> \o o) :
              (<<it>> \o o)[j] = IF j = 1 THEN it ELSE o[j - 1]
    BY <1>0, <1>1, Pushed
  <2> QED
    BY <2>1, Zenon DEF PushOf
<1>3. s[1] = it /\ \A j \in 1..Len(s) : j # 1 => j - 1 \in 1..Len(o) /\ s[j] = o[j - 1]
  BY <1>1, <1>2
<1>4. ASSUME NEW j \in 1..Len(s) PROVE s[j].key \in DOMAIN y /\ y[s[j].key] = s[j]
  <2>1. CASE j = 1
    BY <1>0, <1>3, <2>1
  <2>2. CASE j # 1
    <3>1. j - 1 \in 1..Len(o) /\ s[j] = o[j - 1]
      BY <1>3, <2>2
    <3>2. s[j].key \in DOMAIN x /\ x[s[j].key] = s[j] /\ s[j].key # it.key
      BY <1>0, <3>1 DEF Linked
    <3> QED
      BY <1>0, <3>2
  <2> QED
    BY <2>1, <2>2
<1>5. ASSUME NEW k \in DOMAIN y PROVE \E j \in 1..Len(s) : s[j].key = k
  <2>1. CASE k = it.key
    <3>1. 1 \in 1..Len(s)
      BY <1>1, <1>2
    <3> QED
      BY <1>3, <2>1, <3>1, Zenon
  <2>2. CASE k # it.key
    <3>1. PICK i \in 1..Len(o) : o[i].key = k
      BY <1>0, <2>2, Zenon DEF Linked
    <3>2. i + 1 \in 1..Len(s) /\ s[i + 1] = o[i]
      BY <1>1, <1>2
    <3> QED
      BY <3>1, <3>2
  <2> QED
    BY <2>1, <2>2
<1>6. ASSUME NEW i \in 1..Len(s), NEW j \in 1..Len(s), s[i].key = s[j].key PROVE i = j
  <2>1. CASE i = 1 \/ j = 1
    BY <1>0, <1>3, <1>6, <2>1
  <2>2. CASE i # 1 /\ j # 1
    <3>1. /\ i - 1 \in 1..Len(o) /\ j - 1 \in 1..Len(o)
          /\ o[i - 1].key = o[j - 1].key
      BY <1>3, <1>6, <2>2, Zenon
    <3>2. i - 1 = j - 1
      BY <1>0, <3>1, Zenon DEF Linked
    <3> QED
      BY <3>2
  <2> QED
    BY <2>1, <2>2
<1>7. ASSUME NEW i \in 1..Len(s), NEW j \in 1..Len(s), i < j
      PROVE  <<s[i].key, s[j].key>> \in newer'
  <2>1. j # 1 /\ j - 1 \in 1..Len(o) /\ s[j] = o[j - 1] /\ s[j].key # it.key
    BY <1>0, <1>3, <1>7
  <2>2. CASE i = 1
    <3>0. s[j] \in Items
      BY <1>2
    <3>1. s[j].key \in CacheKeys
      BY <3>0 DEF Items
    <3> QED
      BY <1>3, <2>1, <2>2, <3>1, UsedLater
  <2>3. CASE i # 1
    <3>1. i - 1 \in 1..Len(o) /\ s[i] = o[i - 1] /\ s[i].key # it.key /\ i - 1 < j - 1
      BY <1>0, <1>3, <1>7, <2>3
    <3>2. <<s[i].key, s[j].key>> \in newer
      BY <2>1, <3>1 DEF Sorted
    <3> QED
      BY <2>1, <3>1, <3>2, UsedLater, Zenon
  <2> QED
    BY <2>2, <2>3
<1> QED
  BY <1>2, <1>4, <1>5, <1>6, <1>7, Zenon DEF Linked, Sorted

\* evict: the map w has lost of y what was behind the first n elements of o.
EvictOf(o, y, n, w) ==
    /\ \A k \in DOMAIN y \ DOMAIN w : \E j \in (n + 1)..Len(o) : o[j].key = k
    /\ \A k \in DOMAIN w : \E i \in 1..n : o[i].key = k

\* Both after evict.
LEMMA EvictedLinks ==
    ASSUME NEW o, NEW y, Linked(o, y), NEW r, Sorted(o, r), NEW n \in 0..Len(o)
    PROVE  /\ Linked(SubSeq(o, 1, n), Without(y, KeysOf(After(o, n))))
           /\ Sorted(SubSeq(o, 1, n), r)
           /\ EvictOf(o, y, n, Without(y, KeysOf(After(o, n))))
<1> DEFINE a == SubSeq(o, 1, n)
           b == After(o, n)
           w == Without(y, KeysOf(After(o, n)))
<1>1. o \in Seq(Items) /\ Len(o) \in Nat
  BY DEF Linked
<1>2. /\ a \in Seq(Items) /\ Len(a) = n /\ \A j \in 1..n : a[j] = o[j]
      /\ b \in Seq(Items) /\ Len(b) = Len(o) - n
      /\ \A j \in 1..(Len(o) - n) : b[j] = o[n + j]
  BY <1>1, Parted, Zenon DEF a, b
<1> HIDE DEF a, b
<1>3. KeysOf(b) = {o[j].key : j \in (n + 1)..Len(o)}
  <2>1. KeysOf(b) = {b[i].key : i \in 1..(Len(o) - n)}
    <3>1. DOMAIN b = 1..(Len(o) - n)
      BY <1>2
    <3> QED
      BY <3>1, Zenon DEF KeysOf
  <2>2. \A j \in (n + 1)..Len(o) : j - n \in 1..(Len(o) - n) /\ b[j - n] = o[j]
    BY <1>1, <1>2
  <2>3. \A i \in 1..(Len(o) - n) : n + i \in (n + 1)..Len(o) /\ b[i] = o[n + i]
    BY <1>1, <1>2
  <2>4. ASSUME NEW k \in KeysOf(b) PROVE \E j \in (n + 1)..Len(o) : k = o[j].key
    BY <2>1, <2>3, Zenon
  <2>5. ASSUME NEW j \in (n + 1)..Len(o) PROVE o[j].key \in KeysOf(b)
    BY <2>1, <2>2, Zenon
  <2> QED
    BY <2>4, <2>5, Zenon
<1>4. DOMAIN w = DOMAIN y \ KeysOf(b) /\ \A k \in DOMAIN w : w[k] = y[k]
  BY DEF Without, Restrict, b
<1> HIDE DEF w
<1>5. ASSUME NEW i \in 1..n PROVE o[i].key \in DOMAIN w /\ w[o[i].key] = o[i]
  <2>1. i \in 1..Len(o) /\ \A j \in (n + 1)..Len(o) : j \in 1..Len(o) /\ j # i
    BY <1>1
  <2>2. o[i].key \in DOMAIN y /\ y[o[i].key] = o[i]
    BY <2>1, Zenon DEF Linked
  <2>3. \A j \in (n + 1)..Len(o) : o[j].key # o[i].key
    BY <2>1, Zenon DEF Linked
  <2>4. o[i].key \notin KeysOf(b)
    BY <1>3, <2>3, Zenon
  <2> QED
    BY <1>4, <2>2, <2>4
<1>6. ASSUME NEW k \in DOMAIN w PROVE \E i \in 1..n : o[i].key = k
  <2>1. PICK i \in 1..Len(o) : o[i].key = k
    BY <1>4 DEF Linked
  <2>2. i \notin (n + 1)..Len(o)
    BY <1>3, <1>4, <2>1
  <2> QED
    BY <1>1, <2>1, <2>2
<1>7. Linked(a, w)
  <2>1. \A i \in 1..n : i \in 1..Len(o)
    BY <1>1
  <2>2. ASSUME NEW i \in 1..n, NEW j \in 1..n, a[i].key = a[j].key PROVE i = j
    <3>1. i \in 1..Len(o) /\ j \in 1..Len(o) /\ o[i].key = o[j].key
      BY <1>2, <2>1, <2>2, Zenon
    <3> QED
      BY <3>1, Zenon DEF Linked
  <2>3. \A i \in 1..n : a[i].key \in DOMAIN w /\ w[a[i].key] = a[i]
    BY <1>2, <1>5
  <2>4. \A k \in DOMAIN w : \E i \in 1..n : a[i].key = k
    BY <1>2, <1>6
  <2> QED
    BY <1>2, <2>2, <2>3, <2>4 DEF Linked
<1>8. Sorted(a, r)
  <2>1. \A i \in 1..n : i \in 1..Len(o) /\ a[i] = o[i]
    BY <1>1, <1>2
  <2> QED
    BY <1>2, <2>1, Zenon DEF Sorted
<1>9. \A k \in DOMAIN y \ DOMAIN w : \E j \in (n + 1)..Len(o) : o[j].key = k
  BY <1>3, <1>4
<1> QED
  BY <1>6, <1>7, <1>8, <1>9 DEF a, w, EvictOf

----------------------------------------------------------------------------
\* The operations

\* List, map, total and bounds, and the list in the order of use.
LRUInv ==
    /\ Linked(order, index) /\ Sorted(order, newer)
    /\ bytes = SizeOf(order) /\ Within(Len(order), bytes)

\* A cache that was within its bounds is so with less in it.
LEMMA WithinLess ==
    ASSUME NEW l \in Nat, NEW m \in Nat, NEW b \in Nat, NEW c \in Nat,
           Within(l, b), m <= l, c <= b
    PROVE  Within(m, c)
  BY LRUAssumption DEF Within

\* A list and a map that are linked have elements of the cache.
LEMMA LinkedItems ==
    ASSUME NEW o, NEW x, Linked(o, x), NEW k \in DOMAIN x
    PROVE  k \in CacheKeys /\ x[k] \in Items /\ x[k].key = k
<1>1. PICK i \in 1..Len(o) : o[i].key = k
  BY DEF Linked
<1>2. o[i] \in Items /\ x[k] = o[i]
  BY <1>1 DEF Linked
<1> QED
  BY <1>1, <1>2 DEF Items

\* An empty cache.
LEMMA InitLRUInv == LRUInit => LRUInv
<1> SUFFICES ASSUME LRUInit PROVE LRUInv
  OBVIOUS
<1>1. order = <<>> /\ index = <<>> /\ bytes = 0
  BY DEF LRUInit
<1>2. order \in Seq(Items) /\ Len(order) = 0 /\ DOMAIN index = {}
  BY <1>1
<1>3. SizeOf(order) = 0
  <2>1. PICK f \in [0..Len(order) -> Nat] : f[0] = 0 /\ f[Len(order)] = SizeOf(order)
    BY <1>2, SumOf, Zenon
  <2> QED
    BY <1>2, <2>1
<1> QED
  BY <1>1, <1>2, <1>3, LRUAssumption DEF LRUInv, Linked, Sorted, Within

\* An expired entry leaves list, map and total.
LEMMA ExpireLRUInv ==
    ASSUME LRUInv, NEW k, Expire(k)
    PROVE  LRUInv'
<1>1. /\ k \in DOMAIN index /\ order' = Detached(k) /\ index' = Without(index, {k})
      /\ bytes' = bytes - index[k].size /\ newer' = newer
  BY DEF Expire
<1>2. /\ Linked(order, index) /\ Sorted(order, newer)
      /\ bytes = SizeOf(order) /\ Within(Len(order), bytes)
  BY DEF LRUInv
<1>3. /\ Linked(order', index') /\ Sorted(order', newer') /\ Len(order') = Len(order) - 1
      /\ SizeOf(order') = SizeOf(order) - index[k].size /\ index[k] \in Items
  BY <1>1, <1>2, DetachedLinks
<1>4. bytes' = SizeOf(order')
  BY <1>1, <1>2, <1>3
<1>5. Within(Len(order'), bytes')
  <2>1. order \in Seq(Items) /\ order' \in Seq(Items) /\ index[k].size \in Nat
    BY <1>2, <1>3, ItemSizes, Zenon DEF Linked
  <2>2. bytes \in Nat /\ bytes' \in Nat
    BY <1>2, <1>4, <2>1, SumOf, Zenon
  <2>3. Len(order) \in Nat /\ Len(order') \in Nat
    BY <2>1
  <2>4. bytes' <= bytes /\ Len(order') <= Len(order)
    BY <1>1, <1>3, <2>1, <2>2, <2>3
  <2> QED
    BY <1>2, <2>2, <2>3, <2>4, WithinLess
<1>6. Within(Len(order), bytes)' = Within(Len(order'), bytes')
  BY DEF Within
<1> QED
  BY <1>3, <1>4, <1>5, <1>6, Zenon DEF LRUInv, Linked, Sorted

\* A hit moves its element to the front.
LEMMA HitLRUInv ==
    ASSUME LRUInv, NEW k, Hit(k)
    PROVE  LRUInv'
<1> DEFINE d == Detached(k)
           x == Without(index, {k})
<1>1. /\ k \in DOMAIN index /\ order' = <<index[k]>> \o d /\ Used(k)
      /\ index' = index /\ bytes' = bytes
  BY DEF Hit
<1>2. /\ Linked(order, index) /\ Sorted(order, newer)
      /\ bytes = SizeOf(order) /\ Within(Len(order), bytes)
  BY DEF LRUInv
<1>3. /\ Linked(d, x) /\ Sorted(d, newer) /\ Len(d) = Len(order) - 1
      /\ \A i \in 1..Len(d) : d[i].key # k
      /\ SizeOf(d) = SizeOf(order) - index[k].size /\ index[k] \in Items /\ index[k].key = k
  BY <1>1, <1>2, DetachedLinks, Zenon
<1> HIDE DEF d
<1>4. Linked(order', index) /\ Sorted(order', newer')
  <2>1. DOMAIN index = DOMAIN x \cup {k} /\ \A q \in DOMAIN x : index[q] = x[q]
    BY <1>1, Zenon DEF Without, Restrict
  <2> HIDE DEF x
  <2>2. PushOf(d, x, index[k], order', index)
    BY <1>1, <1>3, <2>1 DEF PushOf
  <2>3. Used(k) /\ index[k].key = k
    BY <1>1, <1>3
  <2>4. Used(index[k].key)
    BY <2>3, Zenon
  <2> QED
    BY <1>3, <2>2, <2>4, PushedLinks, Zenon
<1>5. order \in Seq(Items) /\ d \in Seq(Items)
  BY <1>2, <1>3, Zenon DEF Linked
<1>6. SizeOf(order') = SizeOf(order) /\ Len(order') = Len(order)
  <2>1. SizeOf(order') = index[k].size + SizeOf(d) /\ Len(order') = Len(d) + 1
    <3>1. /\ SizeOf(<<index[k]>> \o d) = index[k].size + SizeOf(d)
          /\ Len(<<index[k]>> \o d) = Len(d) + 1
      BY <1>3, <1>5, Pushed, Zenon
    <3> QED
      BY <1>1, <3>1, Zenon
  <2>2. index[k].size \in Nat /\ SizeOf(order) \in Nat
    BY <1>3, <1>5, ItemSizes, SumOf, Zenon
  <2>3. Len(order) \in Nat
    BY <1>5
  <2> QED
    BY <1>3, <2>1, <2>2, <2>3
<1>7. Within(Len(order), bytes)' = Within(Len(order'), bytes')
  BY DEF Within
<1> QED
  BY <1>1, <1>2, <1>4, <1>6, <1>7, Zenon DEF LRUInv, Linked, Sorted

\* Set keeps the invariant, and what it evicts was used before what it keeps.
LEMMA SetLRUInv ==
    ASSUME LRUInv, NEW it \in Items, Set(it)
    PROVE  /\ LRUInv'
           /\ \A lost \in DOMAIN index \ DOMAIN index', kept \in DOMAIN index' :
                 <<kept, lost>> \in newer'
<1>2. /\ Linked(order, index) /\ Sorted(order, newer)
      /\ bytes = SizeOf(order) /\ Within(Len(order), bytes)
  BY Zenon DEF LRUInv
<1>3. order \in Seq(Items) /\ bytes \in Nat /\ it.size \in Nat
  BY <1>2, SumOf, ItemSizes, Zenon DEF Linked
<1> DEFINE all == Inserted(it)
           total == bytes - OldSize(it.key) + it.size
           n == KeptLen(all, total)
           gone == After(all, n)
           y == [k \in DOMAIN index \cup {it.key} |-> IF k = it.key THEN it ELSE index[k]]
<1>1. /\ order' = SubSeq(all, 1, n) /\ index' = Without(y, KeysOf(gone))
      /\ bytes' = total - SizeOf(gone) /\ Used(it.key)
  BY DEF Set
<1> HIDE DEF all, total, n, gone
<1>4. /\ DOMAIN y = DOMAIN index \cup {it.key} /\ y[it.key] = it
      /\ \A k \in DOMAIN index : k # it.key => y[k] = index[k]
  OBVIOUS
<1> HIDE DEF y
<1>5. Linked(all, y) /\ Sorted(all, newer') /\ SizeOf(all) = total
  <2>1. CASE it.key \in DOMAIN index
    <3> DEFINE d == Detached(it.key)
               x == Without(index, {it.key})
    <3>1. /\ Linked(d, x) /\ Sorted(d, newer)
          /\ \A i \in 1..Len(d) : d[i].key # it.key
          /\ SizeOf(d) = SizeOf(order) - index[it.key].size /\ index[it.key] \in Items
      BY <1>2, <2>1, DetachedLinks, Zenon
    <3>2. all = <<it>> \o d /\ OldSize(it.key) = index[it.key].size
      BY <2>1 DEF Inserted, OldSize, all
    <3>3. /\ DOMAIN y = DOMAIN x \cup {it.key}
          /\ \A k \in DOMAIN x : k # it.key => y[k] = x[k]
      <4>1. DOMAIN x = DOMAIN index \ {it.key} /\ \A k \in DOMAIN x : x[k] = index[k]
        BY Zenon DEF Without, Restrict
      <4> HIDE DEF x
      <4> QED
        BY <1>4, <2>1, <4>1
    <3> HIDE DEF d, x
    <3>4. Linked(all, y) /\ Sorted(all, newer')
      <4>1. PushOf(d, x, it, all, y)
        BY <1>4, <3>1, <3>2, <3>3 DEF PushOf
      <4> QED
        BY <1>1, <3>1, <4>1, PushedLinks, Zenon
    <3>5. SizeOf(all) = it.size + SizeOf(d) /\ index[it.key].size \in Nat
      BY <3>1, <3>2, Pushed, ItemSizes DEF Linked
    <3> QED
      BY <1>2, <1>3, <3>1, <3>2, <3>4, <3>5 DEF total
  <2>2. CASE it.key \notin DOMAIN index
    <3>1. all = <<it>> \o order /\ OldSize(it.key) = 0
      BY <2>2 DEF Inserted, OldSize, all
    <3>2. \A i \in 1..Len(order) : order[i].key # it.key
      BY <1>2, <2>2 DEF Linked
    <3>3. Linked(all, y) /\ Sorted(all, newer')
      <4>1. PushOf(order, index, it, all, y)
        BY <1>2, <1>4, <3>1, <3>2 DEF PushOf
      <4> QED
        BY <1>1, <1>2, <4>1, PushedLinks, Zenon
    <3>4. SizeOf(all) = it.size + SizeOf(order)
      BY <1>3, <3>1, Pushed
    <3> QED
      BY <1>2, <1>3, <3>1, <3>3, <3>4 DEF total
  <2> QED
    BY <2>1, <2>2
<1>6. all \in Seq(Items) /\ Len(all) \in Nat
  BY <1>5 DEF Linked
<1>7. n \in 0..Len(all) /\ Within(n, total - SizeOf(gone))
  BY <1>5, <1>6, KeptFits DEF n, gone
<1>8. /\ Linked(order', index') /\ Sorted(order', newer')
      /\ \A k \in DOMAIN y \ DOMAIN index' : \E j \in (n + 1)..Len(all) : all[j].key = k
      /\ \A k \in DOMAIN index' : \E i \in 1..n : all[i].key = k
  <2>1. order' = SubSeq(all, 1, n) /\ index' = Without(y, KeysOf(After(all, n)))
    BY <1>1, Zenon DEF gone
  <2>2. /\ Linked(SubSeq(all, 1, n), Without(y, KeysOf(After(all, n))))
        /\ Sorted(SubSeq(all, 1, n), newer')
        /\ EvictOf(all, y, n, Without(y, KeysOf(After(all, n))))
    BY <1>5, <1>7, EvictedLinks, Zenon
  <2>3. Linked(order', index') /\ Sorted(order', newer') /\ EvictOf(all, y, n, index')
    BY <2>1, <2>2, Zenon
  <2> QED
    BY <2>3, Zenon DEF EvictOf
<1>9. bytes' = SizeOf(order') /\ Len(order') = n
  <2>1. /\ SizeOf(order') + SizeOf(gone) = total /\ Len(order') = n
        /\ order' \in Seq(Items) /\ gone \in Seq(Items)
    <3>1. /\ SizeOf(SubSeq(all, 1, n)) + SizeOf(After(all, n)) = SizeOf(all)
          /\ Len(SubSeq(all, 1, n)) = n
          /\ SubSeq(all, 1, n) \in Seq(Items) /\ After(all, n) \in Seq(Items)
      BY <1>6, <1>7, Parted, Zenon
    <3> QED
      BY <1>1, <1>5, <3>1, Zenon DEF gone
  <2>2. SizeOf(order') \in Nat /\ SizeOf(gone) \in Nat
    BY <2>1, SumOf, Zenon
  <2> QED
    BY <1>1, <2>1, <2>2
<1>10. Within(Len(order), bytes)'
  <2>1. Within(Len(order), bytes)' = Within(Len(order'), bytes')
    BY DEF Within
  <2> QED
    BY <1>1, <1>7, <1>9, <2>1
<1>11. LRUInv'
  BY <1>8, <1>9, <1>10, Zenon DEF LRUInv, Linked, Sorted
<1>12. ASSUME NEW lost \in DOMAIN index \ DOMAIN index', NEW kept \in DOMAIN index'
       PROVE  <<kept, lost>> \in newer'
  <2>1. PICK j \in (n + 1)..Len(all) : all[j].key = lost
    BY <1>4, <1>8, Zenon
  <2>2. PICK i \in 1..n : all[i].key = kept
    BY <1>8
  <2>3. i \in 1..Len(all) /\ j \in 1..Len(all) /\ i < j
    BY <1>6, <1>7
  <2> QED
    BY <1>5, <2>1, <2>2, <2>3, Zenon DEF Sorted
<1> QED
  BY <1>11, <1>12, Zenon

\* Time passes for the list and the map alike.
LEMMA TickLRUInv ==
    ASSUME LRUInv, Tick
    PROVE  LRUInv'
<1>1. /\ order' = [i \in DOMAIN order |-> Older(order[i])]
      /\ index' = [k \in DOMAIN index |-> Older(index[k])]
      /\ bytes' = bytes /\ newer' = newer
  BY DEF Tick
<1>2. /\ Linked(order, index) /\ Sorted(order, newer)
      /\ bytes = SizeOf(order) /\ Within(Len(order), bytes)
  BY DEF LRUInv
<1>3. order \in Seq(Items) /\ DOMAIN order = 1..Len(order)
  BY <1>2 DEF Linked
<1>4. order' \in Seq(Items) /\ Len(order') = Len(order) /\ SizeOf(order') = SizeOf(order)
  BY <1>1, <1>3, OlderSizes, Zenon
<1>5. \A i \in 1..Len(order) : order'[i] = Older(order[i]) /\ order'[i].key = order[i].key
  <2>1. \A it \in Items : Older(it).key = it.key
    BY DEF Older, Items
  <2>2. \A i \in 1..Len(order) : order'[i] = Older(order[i]) /\ order[i] \in Items
    BY <1>1, <1>3
  <2> QED
    BY <2>1, <2>2
<1>6. Linked(order', index')
  <2>1. ASSUME NEW i \in 1..Len(order)
        PROVE  order'[i].key \in DOMAIN index' /\ index'[order'[i].key] = order'[i]
    <3>1. order[i].key \in DOMAIN index /\ index[order[i].key] = order[i]
      BY <1>2, Zenon DEF Linked
    <3>2. DOMAIN index' = DOMAIN index /\ index'[order[i].key] = Older(index[order[i].key])
      BY <1>1, <3>1, Zenon
    <3> QED
      BY <1>5, <3>1, <3>2, Zenon
  <2>2. \A k \in DOMAIN index' : \E i \in 1..Len(order) : order'[i].key = k
    <3>1. DOMAIN index' = DOMAIN index
      BY <1>1
    <3>2. \A k \in DOMAIN index : \E i \in 1..Len(order) : order[i].key = k
      BY <1>2 DEF Linked
    <3> QED
      BY <1>5, <3>1, <3>2
  <2>3. \A i, j \in 1..Len(order) : order'[i].key = order'[j].key => i = j
    BY <1>2, <1>5 DEF Linked
  <2> QED
    BY <1>4, <2>1, <2>2, <2>3, Zenon DEF Linked
<1>7. Sorted(order', newer')
  <2>1. \A i, j \in 1..Len(order) : i < j => <<order[i].key, order[j].key>> \in newer
    BY <1>2 DEF Sorted
  <2>2. ASSUME NEW i \in 1..Len(order), NEW j \in 1..Len(order), i < j
        PROVE  <<order'[i].key, order'[j].key>> \in newer
    <3>1. order'[i].key = order[i].key /\ order'[j].key = order[j].key
      BY <1>5
    <3> QED
      BY <2>1, <2>2, <3>1
  <2>3. newer' = newer /\ Len(order') = Len(order)
    BY <1>1, <1>4
  <2> QED
    BY <2>2, <2>3 DEF Sorted
<1>8. Within(Len(order), bytes)' = Within(Len(order'), bytes')
  BY DEF Within
<1> QED
  BY <1>1, <1>2, <1>4, <1>6, <1>7, <1>8, Zenon DEF LRUInv, Linked, Sorted

\* Set is given items of the cache.
LEMMA NewItems ==
    ASSUME NEW k \in CacheKeys, NEW b \in Bodies, NEW n \in Sizes, NEW t \in 0..MaxTTL
    PROVE  [key |-> k, body |-> b, size |-> n, left |-> t] \in Items
  BY LRUAssumption DEF Items

\* Every operation keeps the invariant.
LEMMA NextLRUInv == LRUInv /\ [LRUNext]_lruVars => LRUInv'
<1> SUFFICES ASSUME LRUInv, [LRUNext]_lruVars PROVE LRUInv'
  OBVIOUS
<1>1. CASE UNCHANGED <<order, index, bytes, newer>>
  BY <1>1, Zenon DEF LRUInv, Linked, Sorted, Within
<1>2. ASSUME NEW k \in CacheKeys, Get(k) PROVE LRUInv'
  BY <1>1, <1>2, ExpireLRUInv, HitLRUInv DEF Get, Miss
<1>3. ASSUME NEW k \in CacheKeys, NEW b \in Bodies, NEW n \in Sizes, NEW t \in 0..MaxTTL,
             Set([key |-> k, body |-> b, size |-> n, left |-> t])
      PROVE  LRUInv'
  BY <1>3, NewItems, SetLRUInv
<1>4. CASE Tick
  BY <1>4, TickLRUInv
<1> QED
  BY <1>1, <1>2, <1>3, <1>4, Zenon DEF LRUNext, lruVars

\* The invariant holds throughout.
LEMMA LRUInvHolds == LRUSpec => []LRUInv
  BY InitLRUInv, NextLRUInv, PTL DEF LRUSpec

\* List, map and running total of the cache never drift apart and the bounds are kept,
\* for any keys, sizes and bounds, whatever the sequence of Get and Set and of expiries.
THEOREM CacheConsistent == LRUSpec => []Consistent
<1>1. LRUInv => Consistent
  <2> SUFFICES ASSUME LRUInv PROVE IndexAgrees
    BY DEF LRUInv, Consistent, BytesAccounted
  <2>1. Linked(order, index)
    BY DEF LRUInv
  <2>2. Len(order) \in Nat /\ DOMAIN order = 1..Len(order)
    BY <2>1 DEF Linked
  <2>3. ASSUME NEW k \in DOMAIN index PROVE index[k].key = k /\ index[k] \in Range(order)
    <3>1. PICK i \in 1..Len(order) : order[i].key = k
      BY <2>1 DEF Linked
    <3>2. index[k] = order[i]
      BY <2>1, <3>1 DEF Linked
    <3> QED
      BY <2>2, <3>1, <3>2 DEF Range
  <2>4. Len(order) = Cardinality(DOMAIN index)
    <3> DEFINE f == [i \in 1..Len(order) |-> order[i].key]
    <3>1. f \in Bijection(1..Len(order), DOMAIN index)
      <4>1. f \in [1..Len(order) -> DOMAIN index]
        BY <2>1 DEF Linked
      <4>2. \A i, j \in 1..Len(order) : f[i] = f[j] => i = j
        BY <2>1 DEF Linked
      <4>3. \A k \in DOMAIN index : \E i \in 1..Len(order) : f[i] = k
        BY <2>1 DEF Linked
      <4> HIDE DEF f
      <4> QED
        BY <4>1, <4>2, <4>3 DEF Bijection, Injection, Surjection, IsInjective
    <3>2. ExistsBijection(1..Len(order), DOMAIN index)
      BY <3>1 DEF ExistsBijection
    <3>3. IsFiniteSet(1..Len(order)) /\ Cardinality(1..Len(order)) = Len(order)
      <4>1. Len(order) \in Int /\ 1 \in Int
        BY <2>2
      <4>2. /\ IsFiniteSet(1..Len(order))
            /\ Cardinality(1..Len(order)) = IF 1 > Len(order) THEN 0 ELSE Len(order) - 1 + 1
        BY <4>1, FS_Interval, Zenon
      <4> QED
        BY <2>2, <4>2
    <3> QED
      BY <3>2, <3>3, FS_Bijection
  <2> QED
    BY <2>3, <2>4 DEF IndexAgrees
<1> QED
  BY <1>1, LRUInvHolds, PTL

\* Whatever is evicted before it expires was last used before all that stays.
THEOREM OldestEvicted == LRUSpec => EvictsOldest
<1> DEFINE Oldest == \A lost \in DOMAIN index \ DOMAIN index', kept \in DOMAIN index' :
                        ~Expired(index[lost]) => <<kept, lost>> \in newer'
<1>1. LRUInv /\ [LRUNext]_lruVars => [Oldest]_lruVars
  <2> SUFFICES ASSUME LRUInv, LRUNext PROVE Oldest
    BY Zenon
  <2>1. ASSUME NEW k \in CacheKeys, Get(k) PROVE Oldest
    <3>1. CASE UNCHANGED index
      BY <3>1
    <3>2. CASE Expire(k)
      <4>1. DOMAIN index' = DOMAIN index \ {k} /\ Expired(index[k])
        BY <3>2 DEF Expire, Without, Restrict
      <4> QED
        BY <4>1
    <3> QED
      BY <2>1, <3>1, <3>2 DEF Get, Miss, Hit
  <2>2. ASSUME NEW k \in CacheKeys, NEW b \in Bodies, NEW n \in Sizes, NEW t \in 0..MaxTTL,
               Set([key |-> k, body |-> b, size |-> n, left |-> t])
        PROVE  Oldest
    BY <2>2, NewItems, SetLRUInv
  <2>3. CASE Tick
    BY <2>3 DEF Tick
  <2> QED
    BY <2>1, <2>2, <2>3, Zenon DEF LRUNext
<1> QED
  BY <1>1, LRUInvHolds, PTL DEF LRUSpec, EvictsOldest

\* Contents that lost entries and gained none are what may remain.
LEMMA Lost ==
    ASSUME NEW s, NEW t, t = [k \in CacheKeys |-> t[k]],
           \A k \in CacheKeys : t[k] = s[k] \/ t[k] = Nil
    PROVE  t \in Lossy!Remains(s)
<1> DEFINE kept == {k \in CacheKeys : t[k] = s[k] /\ s[k] # Nil}
<1>1. t = [k \in CacheKeys |-> IF k \in kept THEN s[k] ELSE Nil]
  OBVIOUS
<1> QED
  BY <1>1, Zenon DEF Lossy!Remains

\* The cache is a store that may lose entries: Get returns what was last Set and has
\* not expired, or nothing.  That is all the cache middleware assumes of it.
THEOREM CacheIsLossyStore == LRUSpec => ImplementsLossyStore
<1>1. LRUInit => Lossy!Init
  BY DEF LRUInit, Lossy!Init, Visible, Live
<1>2. LRUInv /\ [LRUNext]_lruVars => [Lossy!Next]_(Lossy!vars)
  <2> SUFFICES ASSUME LRUInv, [LRUNext]_lruVars PROVE [Lossy!Next]_(Lossy!vars)
    OBVIOUS
  <2>0. \A k \in DOMAIN index : k \in CacheKeys /\ index[k] \in Items
    BY LinkedItems DEF LRUInv
  <2>1. CASE UNCHANGED lruVars
    BY <2>1 DEF lruVars, Lossy!vars, Visible, Live
  <2>2. ASSUME NEW k \in CacheKeys, Get(k) PROVE Lossy!Get(k)
    <3>1. Visible' = Visible
      <4>1. CASE UNCHANGED index
        BY <4>1 DEF Visible, Live
      <4>2. CASE Expire(k)
        <5>1. /\ Expired(index[k]) /\ DOMAIN index' = DOMAIN index \ {k}
              /\ \A q \in DOMAIN index' : index'[q] = index[q]
          BY <4>2 DEF Expire, Without, Restrict
        <5>2. ~Live(k) /\ ~Live(k)' /\ \A q : q # k => Live(q)' = Live(q)
          BY <5>1 DEF Live, Expired
        <5> QED
          BY <5>1, <5>2 DEF Visible, Live
      <4> QED
        BY <2>2, <4>1, <4>2 DEF Get, Miss, Hit
    <3>2. got' = Visible[k]
      BY <2>2 DEF Get, Miss, Expire, Hit, Visible, Live
    <3> QED
      BY <3>1, <3>2 DEF Lossy!Get
  <2>3. ASSUME NEW k \in CacheKeys, NEW b \in Bodies, NEW n \in Sizes, NEW t \in 0..MaxTTL,
               Set([key |-> k, body |-> b, size |-> n, left |-> t])
        PROVE  Lossy!Set(k, b)
    <3> DEFINE it == [key |-> k, body |-> b, size |-> n, left |-> t]
    <3>1. /\ \A q \in DOMAIN index' : index'[q] = IF q = k THEN it ELSE index[q]
          /\ DOMAIN index' \subseteq DOMAIN index \cup {k} /\ got' = got
      BY <2>3 DEF Set, Without, Restrict
    <3>2. ~Expired(it) /\ it.body = b
      BY LRUAssumption DEF Expired
    <3> HIDE DEF it
    <3>3. ASSUME NEW q \in CacheKeys
          PROVE  Visible'[q] = [Visible EXCEPT ![k] = b][q] \/ Visible'[q] = Nil
      BY <3>1, <3>2 DEF Visible, Live, Expired
    <3>4. Visible' \in Lossy!Remains([Visible EXCEPT ![k] = b])
      <4>1. Visible' = [q \in CacheKeys |-> Visible'[q]]
        BY Zenon DEF Visible
      <4> QED
        BY <3>3, <4>1, Lost, Zenon
    <3> QED
      BY <3>1, <3>4, Zenon DEF Lossy!Set
  <2>4. CASE Tick
    <3>1. /\ DOMAIN index' = DOMAIN index /\ got' = got
          /\ \A q \in DOMAIN index : /\ index'[q].body = index[q].body
                                     /\ Expired(index[q]) => Expired(index'[q])
      BY <2>0, <2>4, LRUAssumption DEF Tick, Older, Items, Expired
    <3>2. ASSUME NEW q \in CacheKeys PROVE Visible'[q] = Visible[q] \/ Visible'[q] = Nil
      BY <3>1 DEF Visible, Live, Expired
    <3>3. Visible' \in Lossy!Remains(Visible)
      <4>1. Visible' = [q \in CacheKeys |-> Visible'[q]]
        BY Zenon DEF Visible
      <4> QED
        BY <3>2, <4>1, Lost, Zenon
    <3> QED
      BY <3>1, <3>3 DEF Lossy!Lose, Lossy!Next
  <2> QED
    BY <2>1, <2>2, <2>3, <2>4, Zenon DEF LRUNext, Lossy!Next
<1> QED
  BY <1>1, <1>2, LRUInvHolds, PTL DEF LRUSpec, ImplementsLossyStore, Lossy!Spec
==============================================================================
