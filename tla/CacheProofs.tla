---------------------------- MODULE CacheProofs ----------------------------
(***************************************************************************)
(* The safety of the cache middleware, for any number of requests, headers *)
(* and versions.                                                           *)
(***************************************************************************)
EXTENDS ResponseCache, NaturalsInduction, WellFoundedInduction, TLAPS

----------------------------------------------------------------------------
\* Operators

\* Among the numbers up to len, the first one in a set that does not hold 0 has a
\* predecessor outside of it.
LEMMA FirstOf ==
    ASSUME NEW len \in Nat, NEW Bad \in SUBSET (0..len), Bad # {}, 0 \notin Bad
    PROVE  \E n \in Bad : n \in 1..len /\ n - 1 \in 0..len /\ n - 1 \notin Bad
<1> DEFINE Less == {ss \in Nat \X Nat : ss[1] < ss[2]}
<1>1. IsWellFoundedOn(Less, Nat)
  BY NatLessThanWellFounded DEF OpToRel
<1>2. Bad \subseteq Nat
  OBVIOUS
<1> HIDE DEF Less
<1>3. PICK n \in Bad : \A m \in Bad : ~(<<m, n>> \in Less)
  BY <1>1, <1>2, WFMin, Zenon
<1>4. n \in 1..len /\ n - 1 \in 0..len /\ n - 1 < n
  OBVIOUS
<1>5. n - 1 \notin Bad
  <2>1. n - 1 \in Nat /\ n \in Nat
    BY <1>4
  <2> QED
    BY <1>3, <1>4, <2>1, Zenon DEF Less
<1> QED
  BY <1>3, <1>4, <1>5, Zenon

\* What Get returns of a header field, and the lists parsed from Vary.
LEMMA FirstLines ==
    /\ \A h \in Fields, x \in Headers : FirstLine(h[x]) \in Seq(Words)
    /\ \A field \in VaryFields : FirstLine(field) \in Seq(Headers)
    /\ Lists \subseteq Seq(Headers)
<1>1. ASSUME NEW S, NEW field \in Seq(Seq(S)) PROVE FirstLine(field) \in Seq(S)
  <2>1. field = <<>> \/ Head(field) \in Seq(S)
    OBVIOUS
  <2>2. <<>> \in Seq(S)
    OBVIOUS
  <2> QED
    BY <2>1, <2>2, Zenon DEF FirstLine
<1>2. \A h \in Fields, x \in Headers : h[x] \in Seq(Seq(Words))
  BY CacheAssumption
<1>3. \A field \in VaryFields : FirstLine(field) \in Seq(Headers)
  BY <1>1, CacheAssumption, Zenon
<1>4. <<>> \in Seq(Headers)
  OBVIOUS
<1> QED
  BY <1>1, <1>2, <1>3, <1>4, Zenon DEF Lists

\* The text after each header of the list.
Texts(h, list, f) ==
    f = [n \in 0..Len(list) |->
            IF n = 0 THEN <<>> ELSE (f[n - 1] \o <<list[n]>>) \o FirstLine(h[list[n]])]

\* There is such a text: a shortest prefix of the list without one could be given
\* one.
LEMMA TextsExist ==
    ASSUME NEW h, NEW list \in Seq(Headers)
    PROVE  \E f : Texts(h, list, f)
<1> DEFINE Grown(t, i) == (t \o <<list[i]>>) \o FirstLine(h[list[i]])
           Part(n, f) == f = [i \in 0..n |-> IF i = 0 THEN <<>> ELSE Grown(f[i - 1], i)]
           Bad == {n \in 0..Len(list) : ~\E f : Part(n, f)}
<1>1. Len(list) \in Nat /\ Len(list) \in 0..Len(list)
  OBVIOUS
<1>2. \A f : Part(Len(list), f) => Texts(h, list, f)
  BY Zenon DEF Texts
<1> HIDE DEF Grown
<1>3. SUFFICES ASSUME Bad # {} PROVE FALSE
  <2>1. \E f : Part(Len(list), f)
    BY <1>1, <1>3, Zenon
  <2> QED
    BY <1>2, <2>1, Zenon
<1>4. Part(0, [i \in 0..0 |-> <<>>])
  OBVIOUS
<1>5. Bad \in SUBSET (0..Len(list)) /\ 0 \notin Bad
  BY <1>4, Zenon
<1>6. PICK n \in Bad : n \in 1..Len(list) /\ n - 1 \in 0..Len(list) /\ n - 1 \notin Bad
  BY <1>1, <1>3, <1>5, FirstOf, Zenon
<1>7. PICK f : Part(n - 1, f)
  BY <1>6, Zenon
<1> DEFINE g == [i \in 0..n |-> IF i = n THEN Grown(f[n - 1], n) ELSE f[i]]
<1>8. ASSUME NEW i \in 0..n PROVE g[i] = IF i = 0 THEN <<>> ELSE Grown(g[i - 1], i)
  <2>1. CASE i = n
    <3>1. n # 0 /\ n - 1 \in 0..n /\ n - 1 # n /\ n \in 0..n
      BY <1>6
    <3>2. g[n] = Grown(f[n - 1], n) /\ g[n - 1] = f[n - 1]
      BY <3>1, Zenon
    <3> QED
      BY <2>1, <3>1, <3>2, Zenon
  <2>2. CASE i # n
    <3>1. i \in 0..(n - 1) /\ (i # 0 => i - 1 \in 0..n /\ i - 1 # n)
      BY <1>6, <2>2
    <3>2. f[i] = IF i = 0 THEN <<>> ELSE Grown(f[i - 1], i)
      BY <1>7, <3>1, Zenon
    <3>3. g[i] = f[i] /\ (i # 0 => g[i - 1] = f[i - 1])
      BY <2>2, <3>1, Zenon
    <3> QED
      BY <3>2, <3>3, Zenon
  <2> QED
    BY <2>1, <2>2
<1>9. Part(n, g)
  BY <1>8, Zenon
<1> QED
  BY <1>9, Zenon

\* The key by way of the texts.
LEMMA KeyText ==
    ASSUME NEW h, NEW list \in Seq(Headers)
    PROVE  \E f : /\ f[0] = <<>> /\ f[Len(list)] = BuildKey(h, list)
                  /\ \A n \in 1..Len(list) :
                        f[n] = (f[n - 1] \o <<list[n]>>) \o FirstLine(h[list[n]])
<1> DEFINE Grown(t, i) == (t \o <<list[i]>>) \o FirstLine(h[list[i]])
<1>1. PICK f : Texts(h, list, f) /\ BuildKey(h, list) = f[Len(list)]
  BY TextsExist, Zenon DEF BuildKey, Texts
<1>2. f = [n \in 0..Len(list) |-> IF n = 0 THEN <<>> ELSE Grown(f[n - 1], n)]
  BY <1>1, Zenon DEF Texts
<1> HIDE DEF Grown
<1>3. \A n \in 0..Len(list) : f[n] = IF n = 0 THEN <<>> ELSE Grown(f[n - 1], n)
  BY <1>2, Zenon
<1>4. 0 \in 0..Len(list) /\ \A n \in 1..Len(list) : n \in 0..Len(list) /\ n # 0
  OBVIOUS
<1>5. f[0] = <<>> /\ \A n \in 1..Len(list) : f[n] = Grown(f[n - 1], n)
  BY <1>3, <1>4, Zenon
<1> QED
  BY <1>1, <1>5, Zenon DEF Grown

\* In a text, each header is followed by the value that h has for it, and then by
\* the next header or the end.
Reads(t, h) ==
    \A p \in 1..Len(t) : t[p] \in Headers =>
        /\ p + Len(FirstLine(h[t[p]])) <= Len(t)
        /\ \A j \in 1..Len(FirstLine(h[t[p]])) : t[p + j] = FirstLine(h[t[p]])[j]
        /\ p + Len(FirstLine(h[t[p]])) < Len(t) =>
              t[p + Len(FirstLine(h[t[p]])) + 1] \in Headers

\* That remains so when a header and its value, which has none in it, are added.
LEMMA ReadsOn ==
    ASSUME NEW h \in Fields, NEW t \in Seq(Words), NEW x \in Headers, Reads(t, h),
           Range(FirstLine(h[x])) \cap Headers = {}
    PROVE  LET u == (t \o <<x>>) \o FirstLine(h[x])
           IN  /\ u \in Seq(Words) /\ Reads(u, h)
               /\ \A p \in 1..Len(t) : p \in 1..Len(u) /\ u[p] = t[p]
               /\ Len(t) + 1 \in 1..Len(u) /\ u[Len(t) + 1] = x
<1> DEFINE v == FirstLine(h[x])
           u == (t \o <<x>>) \o v
<1>0. v \in Seq(Words) /\ x \in Words
  BY FirstLines, CacheAssumption
<1>1. \A j \in 1..Len(v) : v[j] \notin Headers
  BY <1>0 DEF Range
<1> HIDE DEF v
<1>2. /\ u \in Seq(Words) /\ Len(u) = Len(t) + 1 + Len(v)
      /\ \A p \in 1..Len(t) : u[p] = t[p]
      /\ u[Len(t) + 1] = x
      /\ \A j \in 1..Len(v) : u[Len(t) + 1 + j] = v[j]
  BY <1>0
<1> HIDE DEF u
<1>3. Len(t) \in Nat /\ Len(v) \in Nat
  BY <1>0
<1>4. \A y \in Headers : Len(FirstLine(h[y])) \in Nat
  BY FirstLines
<1>5. ASSUME NEW p \in 1..Len(u), u[p] \in Headers
      PROVE  /\ p + Len(FirstLine(h[u[p]])) <= Len(u)
             /\ \A j \in 1..Len(FirstLine(h[u[p]])) : u[p + j] = FirstLine(h[u[p]])[j]
             /\ p + Len(FirstLine(h[u[p]])) < Len(u) =>
                   u[p + Len(FirstLine(h[u[p]])) + 1] \in Headers
  <2>1. CASE p <= Len(t)
    <3> DEFINE w == FirstLine(h[u[p]])
    <3>1. p \in 1..Len(t) /\ u[p] = t[p] /\ Len(w) \in Nat
      BY <1>2, <1>3, <1>4, <1>5, <2>1
    <3>2. /\ p + Len(w) <= Len(t)
          /\ \A j \in 1..Len(w) : t[p + j] = w[j]
          /\ p + Len(w) < Len(t) => t[p + Len(w) + 1] \in Headers
      BY <1>5, <3>1, Zenon DEF Reads
    <3> HIDE DEF w
    <3>3. \A j \in 1..Len(w) : p + j \in 1..Len(t)
      BY <1>3, <3>1, <3>2
    <3>4. p + Len(w) < Len(t) => p + Len(w) + 1 \in 1..Len(t)
      BY <1>3, <3>1
    <3>5. ~(p + Len(w) < Len(t)) => p + Len(w) + 1 = Len(t) + 1
      <4>1. p + Len(w) <= Len(t)
        BY <3>2, Zenon
      <4> QED
        BY <1>3, <3>1, <4>1
    <3>6. p + Len(w) <= Len(u)
      BY <1>2, <1>3, <3>1, <3>2
    <3>7. \A j \in 1..Len(w) : u[p + j] = w[j]
      BY <1>2, <3>2, <3>3, Zenon
    <3>8. u[p + Len(w) + 1] \in Headers
      BY <1>2, <3>2, <3>4, <3>5, Zenon
    <3> QED
      BY <3>6, <3>7, <3>8, Zenon DEF w
  <2>2. CASE p = Len(t) + 1
    BY <1>2, <1>3, <2>2 DEF v
  <2>3. CASE p > Len(t) + 1
    <3>1. p - (Len(t) + 1) \in 1..Len(v) /\ p = Len(t) + 1 + (p - (Len(t) + 1))
      BY <1>2, <1>3, <2>3
    <3>2. u[p] = v[p - (Len(t) + 1)]
      BY <1>2, <3>1, Zenon
    <3> QED
      BY <1>1, <1>5, <3>1, <3>2, Zenon
  <2> QED
    BY <1>3, <2>1, <2>2, <2>3
<1>6. Reads(u, h)
  BY <1>5, Zenon DEF Reads
<1>7. /\ \A p \in 1..Len(t) : p \in 1..Len(u)
      /\ Len(t) + 1 \in 1..Len(u)
  BY <1>2, <1>3
<1>8. /\ u \in Seq(Words) /\ Reads(u, h)
      /\ \A p \in 1..Len(t) : p \in 1..Len(u) /\ u[p] = t[p]
      /\ Len(t) + 1 \in 1..Len(u) /\ u[Len(t) + 1] = x
  BY <1>2, <1>6, <1>7, Zenon
<1> QED
  BY <1>8, Zenon DEF u, v

\* The values of a plain request have no header in them.
LEMMA PlainLines ==
    ASSUME NEW h \in Fields, Plain(h), NEW x \in Headers
    PROVE  Range(FirstLine(h[x])) \cap Headers = {}
<1>1. h[x] \in Seq(Seq(Words))
  BY CacheAssumption
<1>2. CASE h[x] = <<>>
  BY <1>2 DEF FirstLine, Range
<1>3. CASE h[x] # <<>>
  <2>1. 1 \in DOMAIN h[x] /\ Head(h[x]) = h[x][1]
    BY <1>1, <1>3
  <2>2. Head(h[x]) \in Range(h[x])
    BY <2>1, Zenon DEF Range
  <2> QED
    BY <1>3, <2>2, Zenon DEF FirstLine, Plain
<1> QED
  BY <1>2, <1>3

\* The key of a plain request reads as its headers, and every header of the list is
\* in it.
LEMMA KeyReads ==
    ASSUME NEW h \in Fields, Plain(h), NEW list \in Seq(Headers)
    PROVE  /\ BuildKey(h, list) \in Seq(Words)
           /\ Reads(BuildKey(h, list), h)
           /\ \A i \in 1..Len(list) : \E p \in 1..Len(BuildKey(h, list)) : BuildKey(h, list)[p] = list[i]
<1>1. PICK f : /\ f[0] = <<>> /\ f[Len(list)] = BuildKey(h, list)
               /\ \A n \in 1..Len(list) :
                     f[n] = (f[n - 1] \o <<list[n]>>) \o FirstLine(h[list[n]])
  BY KeyText, Zenon
<1> DEFINE Good(n) == /\ f[n] \in Seq(Words) /\ Reads(f[n], h)
                      /\ \A i \in 1..n : \E p \in 1..Len(f[n]) : f[n][p] = list[i]
           Bad == {n \in 0..Len(list) : ~Good(n)}
<1>2. Len(list) \in Nat /\ Len(list) \in 0..Len(list)
  OBVIOUS
<1>3. SUFFICES ASSUME Bad # {} PROVE FALSE
  <2>1. Good(Len(list))
    BY <1>2, <1>3, Zenon
  <2> QED
    BY <1>1, <2>1, Zenon
<1>4. Good(0)
  <2>1. <<>> \in Seq(Words) /\ Reads(<<>>, h) /\ 1..0 = {}
    BY DEF Reads
  <2> QED
    BY <1>1, <2>1, Zenon
<1> HIDE DEF Good
<1>5. Bad \in SUBSET (0..Len(list)) /\ 0 \notin Bad
  BY <1>4, Zenon
<1>6. PICK n \in Bad : n \in 1..Len(list) /\ n - 1 \in 0..Len(list) /\ n - 1 \notin Bad
  BY <1>2, <1>3, <1>5, FirstOf, Zenon
<1> DEFINE t == f[n - 1]  x == list[n]  u == (t \o <<x>>) \o FirstLine(h[x])
<1>7. t \in Seq(Words) /\ Reads(t, h) /\ \A i \in 1..(n - 1) : \E p \in 1..Len(t) : t[p] = list[i]
  BY <1>6, Zenon DEF Good
<1>8. x \in Headers /\ f[n] = u
  <2>1. list[n] \in Headers
    BY <1>6
  <2> QED
    BY <1>1, <1>6, <2>1, Zenon
<1>9. Range(FirstLine(h[x])) \cap Headers = {}
  BY <1>8, PlainLines
<1> HIDE DEF t, x
<1>10. /\ u \in Seq(Words) /\ Reads(u, h)
       /\ \A p \in 1..Len(t) : p \in 1..Len(u) /\ u[p] = t[p]
       /\ Len(t) + 1 \in 1..Len(u) /\ u[Len(t) + 1] = x
  BY <1>7, <1>8, <1>9, ReadsOn
<1> HIDE DEF u
<1>11. ASSUME NEW i \in 1..n PROVE \E p \in 1..Len(u) : u[p] = list[i]
  <2>1. CASE i = n
    BY <1>10, <2>1, Zenon DEF x
  <2>2. CASE i # n
    <3>1. i \in 1..(n - 1)
      BY <1>6, <2>2
    <3> QED
      BY <1>7, <1>10, <3>1, Zenon
  <2> QED
    BY <2>1, <2>2
<1>12. Good(n)
  BY <1>8, <1>10, <1>11, Zenon DEF Good
<1> QED
  BY <1>12, Zenon

\* A field of at most one line, not empty, is known from its first line.
LEMMA OneLine ==
    ASSUME NEW field \in Seq(Seq(Words)), Len(field) <= 1,
           \A line \in Range(field) : line # <<>>
    PROVE  field = IF FirstLine(field) = <<>> THEN <<>> ELSE <<FirstLine(field)>>
<1>1. CASE field = <<>>
  BY <1>1, Zenon DEF FirstLine
<1>2. CASE field # <<>>
  <2>1. \A n \in Nat : n # 0 /\ n <= 1 => n = 1
    OBVIOUS
  <2>2. Len(field) \in Nat /\ Len(field) # 0
    BY <1>2
  <2>3. Len(field) = 1
    BY <2>1, <2>2, Zenon
  <2>4. DOMAIN field = 1..1 /\ 1 \in DOMAIN field
    BY <2>3
  <2>5. Head(field) = field[1] /\ field = <<field[1]>>
    BY <1>2, <2>3
  <2>6. Head(field) # <<>>
    BY <2>4, <2>5, Zenon DEF Range
  <2> QED
    BY <1>2, <2>5, <2>6, Zenon DEF FirstLine
<1> QED
  BY <1>1, <1>2

\* Two plain requests with the same key, under whatever lists, have the same field
\* for every header in them.
LEMMA KeysApart ==
    ASSUME NEW h \in Fields, NEW g \in Fields, Plain(h), Plain(g),
           NEW l \in Seq(Headers), NEW m \in Seq(Headers),
           BuildKey(h, l) = BuildKey(g, m), NEW x \in Range(m)
    PROVE  h[x] = g[x]
<1> DEFINE k == BuildKey(h, l)  v == FirstLine(h[x])  w == FirstLine(g[x])
<1>1. x \in Headers
  BY DEF Range
<1>2. v \in Seq(Words) /\ w \in Seq(Words)
  BY <1>1, FirstLines
<1>3. (\A j \in 1..Len(v) : v[j] \notin Headers) /\ (\A j \in 1..Len(w) : w[j] \notin Headers)
  <2>1. Range(v) \cap Headers = {} /\ Range(w) \cap Headers = {}
    BY <1>1, PlainLines
  <2> HIDE DEF v, w
  <2> QED
    BY <1>2, <2>1 DEF Range
<1>4. k \in Seq(Words) /\ Reads(k, h) /\ Reads(k, g)
  BY KeyReads, Zenon
<1>5. PICK p \in 1..Len(k) : k[p] = x
  <2>1. PICK i \in 1..Len(m) : m[i] = x
    BY DEF Range
  <2>2. \E p \in 1..Len(BuildKey(g, m)) : BuildKey(g, m)[p] = m[i]
    BY KeyReads, Zenon
  <2> QED
    BY <2>1, <2>2, Zenon
<1>6. /\ p + Len(v) <= Len(k) /\ (p + Len(v) < Len(k) => k[p + Len(v) + 1] \in Headers)
      /\ \A j \in 1..Len(v) : k[p + j] = v[j]
      /\ p + Len(w) <= Len(k) /\ (p + Len(w) < Len(k) => k[p + Len(w) + 1] \in Headers)
      /\ \A j \in 1..Len(w) : k[p + j] = w[j]
  BY <1>1, <1>4, <1>5, Zenon DEF Reads
<1> HIDE DEF k, v, w
<1>7. Len(v) \in Nat /\ Len(w) \in Nat /\ Len(k) \in Nat
  BY <1>2, <1>4
<1>8. ~(Len(v) < Len(w))
  <2> SUFFICES ASSUME Len(v) < Len(w) PROVE FALSE
    OBVIOUS
  <2>1. Len(v) + 1 \in 1..Len(w) /\ p + Len(v) < Len(k) /\ p + Len(v) + 1 = p + (Len(v) + 1)
    BY <1>6, <1>7
  <2>2. k[p + (Len(v) + 1)] = w[Len(v) + 1]
    BY <1>6, <2>1, Zenon
  <2>3. w[Len(v) + 1] \in Headers
    BY <1>6, <2>1, <2>2
  <2> QED
    BY <1>3, <2>1, <2>3, Zenon
<1>9. ~(Len(w) < Len(v))
  <2> SUFFICES ASSUME Len(w) < Len(v) PROVE FALSE
    OBVIOUS
  <2>1. Len(w) + 1 \in 1..Len(v) /\ p + Len(w) < Len(k) /\ p + Len(w) + 1 = p + (Len(w) + 1)
    BY <1>6, <1>7
  <2>2. k[p + (Len(w) + 1)] = v[Len(w) + 1]
    BY <1>6, <2>1, Zenon
  <2>3. v[Len(w) + 1] \in Headers
    BY <1>6, <2>1, <2>2
  <2> QED
    BY <1>3, <2>1, <2>3, Zenon
<1>10. v = w
  <2>1. Len(v) = Len(w)
    BY <1>7, <1>8, <1>9
  <2>2. \A j \in 1..Len(v) : v[j] = w[j]
    BY <1>6, <2>1, Zenon
  <2> QED
    BY <1>2, <2>1, <2>2, SMTT(15)
<1>11. h[x] \in Seq(Seq(Words)) /\ g[x] \in Seq(Seq(Words))
  BY <1>1, CacheAssumption
<1>12. /\ Len(h[x]) <= 1 /\ \A line \in Range(h[x]) : line # <<>>
       /\ Len(g[x]) <= 1 /\ \A line \in Range(g[x]) : line # <<>>
  BY <1>1, Zenon DEF Plain
<1>13. /\ h[x] = IF v = <<>> THEN <<>> ELSE <<v>>
       /\ g[x] = IF w = <<>> THEN <<>> ELSE <<w>>
  BY <1>11, <1>12, OneLine, Zenon DEF v, w
<1> QED
  BY <1>10, <1>13

\* Keys are built from the fields of a request and a list of headers.
LEMMA KeyBuilt ==
    /\ \A h \in Fields, list \in Lists : BuildKey(h, list) \in Keys
    /\ \A e \in Responses : ParsedVary(e) \in Lists
    /\ AnyHeaders \in Fields /\ BuildKey(AnyHeaders, <<>>) \in Keys
<1>1. \A h \in Fields, list \in Lists : BuildKey(h, list) \in Keys
  BY DEF Keys
<1>2. \A e \in Responses : e.vary \in VaryFields
  BY DEF Responses
<1>3. \A e \in Responses : ParsedVary(e) \in Lists
  BY <1>2, Zenon DEF ParsedVary, Lists
<1>4. AnyHeaders \in Fields
  BY CacheAssumption, Zenon DEF AnyHeaders
<1> QED
  BY <1>1, <1>3, <1>4, Zenon DEF Lists

\* cacheableResponse refuses what is personal.
LEMMA CacheableImpersonal ==
    ASSUME NEW e \in Responses, <<e.cacheable, e.personal>> \in Verdicts, e.cacheable
    PROVE  ~e.personal
<1>1. PICK t \in Terms : e.cacheable = CacheableResponse(t) /\ e.personal = Personal(t)
  BY Zenon DEF Verdicts
<1> QED
  BY <1>1, Zenon DEF CacheableResponse, Personal

\* A store loses entries, and gains none by that.
LEMMA RemainsOf ==
    ASSUME NEW s \in [Keys -> Entries \cup {None}], NEW t \in LS!Remains(s)
    PROVE  /\ t \in [Keys -> Entries \cup {None}]
           /\ \A k \in Keys : t[k] = s[k] \/ t[k] = None
  BY DEF LS!Remains

----------------------------------------------------------------------------
\* Types

\* Between the capture and the end of its call a leader holds its own response,
\* and goes on to Set with a cacheable one only.
Held ==
    \A r \in Requests :
        /\ stage[r] \in {"captured", "recorded", "filled"} =>
              resp[r] \in Responses /\ resp[r].for = hdr[r] /\ resp[r].version <= version
        /\ stage[r] = "recorded" => resp[r].cacheable

Typed == TypeOK /\ Held

\* The process starts with everything of its type.
LEMMA InitTyped == Init => Typed
<1> SUFFICES ASSUME Init PROVE Typed
  OBVIOUS
<1>1. version \in 0..MaxVersion
  BY CacheAssumption DEF Init
<1>2. TypeOK
  BY <1>1, KeyBuilt DEF Init, TypeOK, Lists, Stages
<1> QED
  BY <1>2 DEF Typed, Held, Init

\* Every step keeps the types.
LEMMA NextTyped == Typed /\ [Next]_vars => Typed'
<1> SUFFICES ASSUME Typed, [Next]_vars PROVE Typed'
  OBVIOUS
<1> USE DEF Typed, Held, TypeOK, Stages
<1>1. CASE UNCHANGED vars
  BY <1>1 DEF vars, request
<1>2. CASE Lose
  BY <1>2, RemainsOf DEF Lose, LeftOf, request
<1>3. CASE Change
  BY <1>3, CacheAssumption DEF Change, request, Responses
<1>4. ASSUME NEW r \in Requests, NEW h \in Fields, Arrive(r, h) PROVE Typed'
  <2>1. BuildKey(h, vary) \in Keys
    <3>1. vary \in Lists
      BY Zenon
    <3> HIDE DEF Typed, Held, TypeOK, Stages
    <3> QED
      BY <3>1, KeyBuilt, Zenon
  <2> QED
    BY <1>4, <2>1 DEF Arrive, At
<1>5. ASSUME NEW r \in Requests, Handle(r) PROVE Typed'
  <2>1. CASE Lookup(r)
    BY <2>1 DEF Lookup, At, Give, Entries
  <2>2. CASE Bypass(r) \/ Abort(r)
    BY <2>2 DEF Bypass, Abort, At
  <2>3. CASE Join(r)
    BY <2>3 DEF Join, At, FlightKey
  <2>4. CASE Lead(r)
    BY <2>4 DEF Lead, At, FlightKey
  <2>5. ASSUME NEW response \in Answers(r), Capture(r, response) PROVE Typed'
    BY <2>5 DEF Capture, At, Give, Answers, Responses
  <2>6. CASE Record(r)
    <3>1. resp[r] \in Responses /\ ParsedVary(resp[r]) \in Lists
      BY <2>6, KeyBuilt DEF Record, At
    <3> QED
      BY <2>6, <3>1 DEF Record, At
  <2>7. CASE Store(r)
    <3> DEFINE s == [store EXCEPT ![FinalKey(r)] = resp[r]]
    <3>1. resp[r] \in Entries /\ resp[r] \in Responses
      BY <2>7 DEF Store, At, Entries
    <3>2. FinalKey(r) \in Keys
      BY <3>1, KeyBuilt, Zenon DEF FinalKey
    <3>3. s \in [Keys -> Entries \cup {None}]
      BY <3>1, Zenon
    <3>4. store' \in LS!Remains(s)
      BY <2>7, Zenon DEF Store, LeftOf
    <3>5. store' \in [Keys -> Entries \cup {None}]
      <4> HIDE DEF s
      <4> QED
        BY <3>3, <3>4, RemainsOf, Zenon
    <3>6. kept' \subseteq Keys
      BY <2>7, <3>2, Zenon DEF Store, LeftOf
    <3> QED
      BY <2>7, <3>5, <3>6 DEF Store, At
  <2>8. CASE EndFlight(r)
    BY <2>8, KeyBuilt DEF EndFlight, Forget, FlightKey
  <2>9. CASE Leave(r)
    BY <2>9, KeyBuilt DEF Leave, Forget, Give, At
  <2> QED
    BY <1>5, <2>1, <2>2, <2>3, <2>4, <2>5, <2>6, <2>7, <2>8, <2>9, Zenon
    DEF Handle
<1> QED
  BY <1>1, <1>2, <1>3, <1>4, <1>5 DEF Next

----------------------------------------------------------------------------
\* singleflight

\* The stages of a request that makes the call of its key.
InCall == {"fetching", "captured", "recorded", "filled", "aborted"}

\* A call is under way for the key of a request that makes one, and no other
\* request makes one for that key.
Flights ==
    /\ \A r \in Requests : stage[r] \in InCall => flight[key[r]] # None
    /\ \A q, r \in Requests :
          stage[q] \in InCall /\ stage[r] \in InCall /\ key[q] = key[r] => q = r

\* No call is under way at first.
LEMMA InitFlights == Init => Flights
<1> SUFFICES ASSUME Init PROVE Flights
  OBVIOUS
<1>1. \A r \in Requests : stage[r] = "idle"
  BY DEF Init
<1> QED
  BY <1>1 DEF Flights, InCall

\* A step after which the calls are among those made before, for keys that are
\* still taken.
LEMMA SameFlights ==
    ASSUME Flights,
           \A q \in Requests : stage'[q] \in InCall =>
               /\ stage[q] \in InCall /\ key'[q] = key[q]
               /\ flight[key[q]] # None => flight'[key[q]] # None
    PROVE  Flights'
<1>1. \A r \in Requests : stage'[r] \in InCall => flight'[key'[r]] # None
  BY Zenon DEF Flights
<1>2. \A q, r \in Requests :
          stage'[q] \in InCall /\ stage'[r] \in InCall /\ key'[q] = key'[r] => q = r
  BY Zenon DEF Flights
<1> QED
  BY <1>1, <1>2, Zenon DEF Flights, InCall

\* Every step keeps the flights in order.
LEMMA NextFlights == Typed /\ Flights /\ [Next]_vars => Flights'
<1> SUFFICES ASSUME Typed, Flights, [Next]_vars PROVE Flights'
  OBVIOUS
<1>0. /\ stage \in [Requests -> Stages] /\ key \in [Requests -> Keys]
      /\ flight \in [Keys -> (SUBSET Requests) \cup {None}]
  BY DEF Typed, TypeOK
<1>1. CASE UNCHANGED vars \/ Lose \/ Change
  BY <1>1 DEF Flights, vars, request, Lose, Change
<1>2. ASSUME NEW r \in Requests, NEW h \in Fields, Arrive(r, h) PROVE Flights'
  <2>1. /\ UNCHANGED flight /\ stage'[r] \in {"bypass", "lookup", "reload"}
        /\ \A q \in Requests \ {r} : stage'[q] = stage[q] /\ key'[q] = key[q]
    BY <1>0, <1>2 DEF Arrive, At
  <2>2. stage'[r] \notin InCall
    BY <2>1 DEF InCall
  <2> QED
    BY <2>1, <2>2, SameFlights
<1>3. ASSUME NEW r \in Requests, Handle(r) PROVE Flights'
  <2>1. CASE Lookup(r) \/ Bypass(r) \/ Abort(r) \/ Record(r) \/ Store(r)
             \/ \E response \in Answers(r) : Capture(r, response)
    <3>1. /\ UNCHANGED <<flight, key>>
          /\ \A q \in Requests \ {r} : stage'[q] = stage[q]
      BY <1>0, <2>1 DEF Lookup, Bypass, Abort, Record, Store, Capture, At
    <3>2. stage'[r] \in InCall => stage[r] \in InCall
      BY <1>0, <2>1 DEF Lookup, Bypass, Abort, Record, Store, Capture, At, InCall
    <3> QED
      BY <3>1, <3>2, SameFlights
  <2>2. CASE Join(r)
    <3>1. /\ UNCHANGED key /\ stage'[r] = "waiting"
          /\ \A q \in Requests \ {r} : stage'[q] = stage[q]
          /\ flight[key[r]] # None
          /\ flight'[key[r]] = flight[key[r]] \cup {r}
          /\ \A k \in Keys \ {key[r]} : flight'[k] = flight[k]
      BY <1>0, <2>2 DEF Join, At, FlightKey
    <3>2. flight'[key[r]] # None
      BY <1>0, <3>1, NoneAssumption
    <3>3. stage'[r] \notin InCall
      BY <3>1 DEF InCall
    <3> QED
      BY <1>0, <3>1, <3>2, <3>3, SameFlights
  <2>3. CASE Lead(r)
    <3>1. /\ UNCHANGED key /\ stage'[r] = "fetching"
          /\ \A q \in Requests \ {r} : stage'[q] = stage[q]
          /\ flight[key[r]] = None
          /\ flight'[key[r]] = {}
          /\ \A k \in Keys \ {key[r]} : flight'[k] = flight[k]
      BY <1>0, <2>3 DEF Lead, At, FlightKey
    <3>2. flight'[key[r]] # None
      BY <3>1, NoneAssumption
    <3> QED
      BY <1>0, <3>1, <3>2 DEF Flights
  <2>4. CASE EndFlight(r)
    <3>1. /\ stage[r] \in InCall
          /\ \A k \in Keys \ {key[r]} : flight'[k] = flight[k]
          /\ \A q \in Requests : \/ stage'[q] \in {"idle", "served"}
                                 \/ q # r /\ stage'[q] = stage[q] /\ key'[q] = key[q]
      BY <1>0, <2>4 DEF EndFlight, Forget, FlightKey, InCall
    <3>2. \A q \in Requests : stage'[q] \in InCall =>
              q # r /\ stage[q] \in InCall /\ key'[q] = key[q]
      BY <3>1 DEF InCall
    <3>3. \A q \in Requests : q # r /\ stage[q] \in InCall => key[q] # key[r]
      BY <3>1 DEF Flights
    <3> QED
      BY <1>0, <3>1, <3>2, <3>3, SameFlights
  <2>5. CASE Leave(r)
    <3>1. /\ UNCHANGED flight /\ stage'[r] = "idle"
          /\ \A q \in Requests \ {r} : stage'[q] = stage[q] /\ key'[q] = key[q]
      BY <1>0, <2>5 DEF Leave, Forget, At
    <3>2. stage'[r] \notin InCall
      BY <3>1 DEF InCall
    <3> QED
      BY <3>1, <3>2, SameFlights
  <2> QED
    BY <1>3, <2>1, <2>2, <2>3, <2>4, <2>5 DEF Handle
<1> QED
  BY <1>1, <1>2, <1>3 DEF Next

----------------------------------------------------------------------------
\* What is stored and what is served from there

\* An entry is stored under the key its own request has for its Vary list.
Sound(k, e) ==
    /\ ~e.personal
    /\ e.version <= version
    /\ k = BuildKey(e.for, ParsedVary(e))

\* A request with the fields h may have the key that the entry e is stored under.
Matches(e, h) == \E list \in Lists : BuildKey(h, list) = BuildKey(e.for, ParsedVary(e))

Contents ==
    /\ \A k \in Keys : store[k] # None => Sound(k, store[k])
    /\ \A r \in Requests : stage[r] \in {"captured", "recorded"} /\ resp[r].cacheable =>
          ~resp[r].personal
    /\ \A r \in Requests : stage[r] = "lookup" =>
          \E list \in Lists : key[r] = BuildKey(hdr[r], list)
    /\ \A r \in Requests : source[r] = "cache" =>
          /\ stage[r] = "served" /\ resp[r] \in Responses
          /\ ~resp[r].personal /\ Matches(resp[r], hdr[r])

\* Set touches no key but the one it stores under, except to lose entries.
LEMMA StoreEffect ==
    ASSUME Typed, NEW r \in Requests, Store(r)
    PROVE  /\ FinalKey(r) \in Keys
           /\ \A k \in Keys : \/ store'[k] = None
                              \/ k = FinalKey(r) /\ store'[k] = resp[r]
                              \/ k # FinalKey(r) /\ store'[k] = store[k]
<1> DEFINE s == [store EXCEPT ![FinalKey(r)] = resp[r]]
<1>1. resp[r] \in Entries /\ resp[r] \in Responses /\ hdr[r] \in Fields
  BY DEF Typed, TypeOK, Held, Store, At, Entries
<1>2. FinalKey(r) \in Keys
  BY <1>1, KeyBuilt, Zenon DEF FinalKey
<1>3. s \in [Keys -> Entries \cup {None}]
  <2>1. store \in [Keys -> Entries \cup {None}]
    BY Zenon DEF Typed, TypeOK
  <2> QED
    BY <1>1, <2>1, Zenon
<1>4. store' \in LS!Remains(s)
  BY Zenon DEF Store, LeftOf
<1>5. \A k \in Keys : store'[k] = s[k] \/ store'[k] = None
  <2> HIDE DEF s
  <2> QED
    BY <1>3, <1>4, RemainsOf
<1> QED
  BY <1>2, <1>5 DEF Typed, TypeOK

\* Nothing is stored at first.
LEMMA InitContents == Init => Contents
<1> SUFFICES ASSUME Init PROVE Contents
  OBVIOUS
<1>1. /\ \A r \in Requests : stage[r] = "idle" /\ source[r] = "own"
      /\ \A k \in Keys : store[k] = None
  BY DEF Init
<1> QED
  BY <1>1 DEF Contents

\* A step that stores nothing, and after which every request that has captured, looks
\* up or has been served from the cache is where it was before.
LEMMA SameContents ==
    ASSUME Contents, UNCHANGED version,
           \A k \in Keys : store'[k] = store[k] \/ store'[k] = None,
           \A q \in Requests :
               \/ /\ stage'[q] \in {"captured", "recorded"} =>
                        stage[q] \in {"captured", "recorded"}
                  /\ stage'[q] = "lookup" => stage[q] = "lookup"
                  /\ source[q] = "cache" => stage'[q] = stage[q]
                  /\ resp'[q] = resp[q] /\ source'[q] = source[q]
                  /\ key'[q] = key[q] /\ hdr'[q] = hdr[q]
               \/ stage'[q] \notin {"captured", "recorded", "lookup"} /\ source'[q] # "cache"
    PROVE  Contents'
  BY DEF Contents, Sound, Matches

\* Every step keeps the contents sound.
LEMMA NextContents == Typed /\ Contents /\ [Next]_vars => Contents'
<1> SUFFICES ASSUME Typed, Contents, [Next]_vars PROVE Contents'
  OBVIOUS
<1>0. TypeOK /\ Held
  BY DEF Typed
<1> USE DEF TypeOK
<1>1. CASE UNCHANGED vars
  BY <1>1, SameContents DEF vars, request
<1>2. CASE Lose
  <2>1. \A k \in Keys : store'[k] = store[k] \/ store'[k] = None
    BY <1>0, <1>2, RemainsOf DEF Lose, LeftOf
  <2> QED
    BY <1>2, <2>1, SameContents DEF Lose, request
<1>3. CASE Change
  <2>1. \A k \in Keys : store[k] # None => store[k].version \in Nat
    BY <1>0, CacheAssumption DEF Entries, Responses
  <2> QED
    BY <1>0, <1>3, <2>1, CacheAssumption DEF Contents, Sound, Matches, Change, request
<1>4. ASSUME NEW r \in Requests, NEW h \in Fields, Arrive(r, h) PROVE Contents'
  <2>1. stage'[r] = "lookup" => \E list \in Lists : key'[r] = BuildKey(hdr'[r], list)
    <3>1. stage'[r] = "lookup" => key'[r] = BuildKey(h, vary) /\ hdr'[r] = h
      BY <1>0, <1>4 DEF Arrive, At
    <3> QED
      BY <1>0, <3>1, Zenon
  <2>2. /\ UNCHANGED <<store, resp, source, version>>
        /\ stage[r] = "idle" /\ stage'[r] \in {"bypass", "lookup", "reload"}
        /\ \A q \in Requests \ {r} :
              stage'[q] = stage[q] /\ key'[q] = key[q] /\ hdr'[q] = hdr[q]
    BY <1>0, <1>4 DEF Arrive, At
  <2> QED
    BY <2>1, <2>2 DEF Contents, Sound, Matches
<1>5. ASSUME NEW r \in Requests, Handle(r) PROVE Contents'
  <2>1. CASE Lookup(r)
    <3> DEFINE k == key[r]  e == store[k]
    <3>1. CASE e # None
      <4>1. /\ UNCHANGED <<store, key, hdr, version>>
            /\ stage[r] = "lookup" /\ stage'[r] = "served" /\ resp'[r] = e
            /\ \A q \in Requests \ {r} :
                  stage'[q] = stage[q] /\ resp'[q] = resp[q] /\ source'[q] = source[q]
        BY <1>0, <2>1, <3>1 DEF Lookup, At, Give
      <4>2. e \in Responses /\ k \in Keys
        BY <1>0, <3>1 DEF Entries
      <4>3. Sound(k, e)
        BY <3>1, <4>2 DEF Contents
      <4>4. Matches(e, hdr[r])
        BY <4>1, <4>3, Zenon DEF Sound, Matches, Contents
      <4>5. resp'[r] \in Responses /\ ~resp'[r].personal /\ Matches(resp'[r], hdr'[r])
        BY <4>1, <4>2, <4>3, <4>4 DEF Sound
      <4> HIDE DEF k, e
      <4> QED
        BY <4>1, <4>5 DEF Contents, Sound, Matches
    <3>2. CASE e = None
      <4>1. /\ UNCHANGED <<store, resp, source, key, hdr, version>>
            /\ stage[r] = "lookup" /\ stage'[r] = "missed"
            /\ \A q \in Requests \ {r} : stage'[q] = stage[q]
        BY <1>0, <2>1, <3>2 DEF Lookup, At
      <4>2. source[r] # "cache"
        BY <4>1 DEF Contents
      <4> QED
        BY <4>1, <4>2, SameContents
    <3> QED
      BY <3>1, <3>2
  <2>2. CASE Bypass(r) \/ Abort(r) \/ Join(r) \/ Lead(r)
    <3>1. /\ UNCHANGED <<store, resp, source, key, hdr, version>>
          /\ stage[r] # "served" /\ stage'[r] \in {"idle", "aborted", "waiting", "fetching"}
          /\ \A q \in Requests \ {r} : stage'[q] = stage[q]
      BY <1>0, <2>2 DEF Bypass, Abort, Join, Lead, At
    <3>2. source[r] # "cache"
      BY <3>1, Zenon DEF Contents
    <3> QED
      BY <3>1, <3>2, SameContents
  <2>3. ASSUME NEW response \in Answers(r), Capture(r, response) PROVE Contents'
    <3>1. response.cacheable => ~response.personal
      BY CacheableImpersonal DEF Answers
    <3>2. /\ UNCHANGED <<store, key, hdr, version>>
          /\ stage'[r] = "captured" /\ resp'[r] = response /\ source'[r] = "own"
          /\ \A q \in Requests \ {r} :
                stage'[q] = stage[q] /\ resp'[q] = resp[q] /\ source'[q] = source[q]
      BY <1>0, <2>3 DEF Capture, At, Give
    <3> QED
      BY <3>1, <3>2 DEF Contents, Sound, Matches
  <2>4. CASE Record(r)
    <3>1. /\ UNCHANGED <<store, resp, source, key, hdr, version>>
          /\ stage[r] = "captured" /\ stage'[r] \in {"recorded", "filled"}
          /\ \A q \in Requests \ {r} : stage'[q] = stage[q]
      BY <1>0, <2>4 DEF Record, At
    <3>2. source[r] # "cache"
      BY <3>1 DEF Contents
    <3> QED
      BY <3>1, <3>2, SameContents
  <2>5. CASE Store(r)
    <3>1. /\ stage[r] = "recorded" /\ stage'[r] = "filled"
          /\ UNCHANGED <<resp, source, key, hdr, version>>
          /\ \A q \in Requests \ {r} : stage'[q] = stage[q]
      BY <1>0, <2>5 DEF Store, At
    <3>2. /\ resp[r] \in Responses /\ resp[r].for = hdr[r] /\ resp[r].version <= version
          /\ resp[r].cacheable
      BY <1>0, <3>1 DEF Held
    <3>3. \A k \in Keys : \/ store'[k] = None
                          \/ k = FinalKey(r) /\ store'[k] = resp[r]
                          \/ store'[k] = store[k]
      BY <2>5, StoreEffect
    <3>4. Sound(FinalKey(r), resp[r])
      BY <3>1, <3>2 DEF Sound, FinalKey, Contents
    <3>5. \A k \in Keys : store'[k] # None => Sound(k, store'[k])
      BY <3>3, <3>4 DEF Contents
    <3> QED
      BY <3>1, <3>5 DEF Contents, Sound, Matches
  <2>6. CASE EndFlight(r)
    <3>1. /\ UNCHANGED <<store, version>>
          /\ \A q \in Requests :
                \/ /\ stage'[q] = stage[q] /\ resp'[q] = resp[q] /\ source'[q] = source[q]
                   /\ key'[q] = key[q] /\ hdr'[q] = hdr[q]
                \/ stage'[q] \in {"idle", "served"} /\ source'[q] \in {"own", "shared"}
      BY <1>0, <2>6 DEF EndFlight, Forget
    <3> QED
      BY <3>1, SameContents
  <2>7. CASE Leave(r)
    <3>1. /\ UNCHANGED <<store, version>>
          /\ stage'[r] = "idle" /\ source'[r] = "own"
          /\ \A q \in Requests \ {r} :
                /\ stage'[q] = stage[q] /\ resp'[q] = resp[q] /\ source'[q] = source[q]
                /\ key'[q] = key[q] /\ hdr'[q] = hdr[q]
      BY <1>0, <2>7 DEF Leave, Forget, Give, At
    <3> QED
      BY <3>1, SameContents
  <2> QED
    BY <1>5, <2>1, <2>2, <2>3, <2>4, <2>5, <2>6, <2>7 DEF Handle
<1> QED
  BY <1>1, <1>2, <1>3, <1>4, <1>5 DEF Next

----------------------------------------------------------------------------
\* The order of fills

\* What the call for a key holds is no older than an entry that an earlier call for
\* the key has left there.
Order ==
    \A r \in Requests :
        stage[r] \in {"captured", "recorded"} /\ key[r] \in kept /\ store[key[r]] # None =>
            store[key[r]].version <= resp[r].version

IInv == Typed /\ Flights /\ Contents /\ Order

\* Nothing is kept that was not before, the store only loses entries, and whoever
\* holds a response has held it before.
LEMMA SameOrder ==
    ASSUME Typed, Order, kept' \subseteq kept,
           \A k \in Keys : store'[k] = store[k] \/ store'[k] = None,
           \A q \in Requests : stage'[q] \in {"captured", "recorded"} =>
               /\ stage[q] \in {"captured", "recorded"}
               /\ key'[q] = key[q] /\ resp'[q] = resp[q]
    PROVE  Order'
<1>1. \A q \in Requests : key[q] \in Keys
  BY DEF Typed, TypeOK
<1> QED
  BY <1>1 DEF Order

\* Every step keeps the order.
LEMMA NextOrder == IInv /\ [Next]_vars => Order'
<1> SUFFICES ASSUME IInv, [Next]_vars PROVE Order'
  OBVIOUS
<1>0. TypeOK /\ Held /\ Typed /\ Flights /\ Contents /\ Order
  BY DEF IInv, Typed
<1> USE DEF TypeOK
<1>1. CASE UNCHANGED vars \/ Change
  BY <1>0, <1>1, SameOrder DEF vars, request, Change
<1>2. CASE Lose
  <2>1. /\ \A k \in Keys : store'[k] = store[k] \/ store'[k] = None
        /\ kept' \subseteq kept
    BY <1>0, <1>2, RemainsOf DEF Lose, LeftOf
  <2> QED
    BY <1>0, <1>2, <2>1, SameOrder DEF Lose, request
<1>3. ASSUME NEW r \in Requests, NEW h \in Fields, Arrive(r, h) PROVE Order'
  <2>1. /\ UNCHANGED <<store, kept, resp>>
        /\ stage'[r] \in {"bypass", "lookup", "reload"}
        /\ \A q \in Requests \ {r} : stage'[q] = stage[q] /\ key'[q] = key[q]
    BY <1>0, <1>3 DEF Arrive, At
  <2> QED
    BY <1>0, <2>1, SameOrder
<1>4. ASSUME NEW r \in Requests, Handle(r) PROVE Order'
  <2>1. CASE Lookup(r) \/ Bypass(r) \/ Join(r) \/ Lead(r) \/ Abort(r) \/ Leave(r)
    <3>1. /\ UNCHANGED <<store, kept>>
          /\ stage'[r] \notin {"captured", "recorded"}
          /\ \A q \in Requests \ {r} :
                stage'[q] = stage[q] /\ key'[q] = key[q] /\ resp'[q] = resp[q]
      BY <1>0, <2>1 DEF Lookup, Bypass, Join, Lead, Abort, Leave, Forget, At, Give
    <3> QED
      BY <1>0, <3>1, SameOrder
  <2>2. CASE Record(r)
    <3>1. /\ UNCHANGED <<store, kept, key, resp>>
          /\ stage[r] = "captured"
          /\ \A q \in Requests \ {r} : stage'[q] = stage[q]
      BY <1>0, <2>2 DEF Record, At
    <3> QED
      BY <1>0, <3>1, SameOrder
  <2>3. ASSUME NEW response \in Answers(r), Capture(r, response) PROVE Order'
    <3>1. /\ UNCHANGED <<store, kept, key>>
          /\ resp'[r] = response /\ response.version = version
          /\ \A q \in Requests \ {r} : stage'[q] = stage[q] /\ resp'[q] = resp[q]
      BY <1>0, <2>3 DEF Capture, At, Give, Answers
    <3>2. store[key[r]] # None => store[key[r]].version <= version
      BY <1>0 DEF Contents, Sound
    <3> QED
      BY <3>1, <3>2, <1>0 DEF Order
  <2>4. CASE Store(r)
    <3>1. /\ UNCHANGED <<key, resp>>
          /\ stage[r] = "recorded" /\ stage'[r] = "filled"
          /\ \A q \in Requests \ {r} : stage'[q] = stage[q]
      BY <1>0, <2>4 DEF Store, At
    <3>2. kept' \subseteq (kept \ {FinalKey(r)}) \cup ({FinalKey(r)} \cap {key[r]})
      BY <2>4, Zenon DEF Store, LeftOf
    <3>3. \A k \in Keys : k # FinalKey(r) => store'[k] = store[k] \/ store'[k] = None
      BY <1>0, <2>4, StoreEffect
    <3>4. ASSUME NEW q \in Requests, stage'[q] \in {"captured", "recorded"},
                 key'[q] \in kept', store'[key'[q]] # None
          PROVE  store'[key'[q]].version <= resp'[q].version
      <4>1. q # r /\ stage[q] \in {"captured", "recorded"}
        BY <3>1, <3>4
      <4>2. key[q] # key[r]
        BY <1>0, <3>1, <4>1 DEF Flights, InCall
      <4>3. key[q] \in kept /\ key[q] # FinalKey(r)
        BY <3>1, <3>2, <3>4, <4>2
      <4> QED
        BY <1>0, <3>1, <3>3, <3>4, <4>1, <4>3 DEF Order
    <3> QED
      BY <3>4 DEF Order
  <2>5. CASE EndFlight(r)
    <3>1. /\ UNCHANGED <<store, kept>>
          /\ \A q \in Requests :
                \/ stage'[q] = stage[q] /\ resp'[q] = resp[q] /\ key'[q] = key[q]
                \/ stage'[q] \in {"idle", "served"}
      BY <1>0, <2>5 DEF EndFlight, Forget
    <3> QED
      BY <1>0, <3>1, SameOrder
  <2> QED
    BY <1>4, <2>1, <2>2, <2>3, <2>4, <2>5 DEF Handle
<1> QED
  BY <1>1, <1>2, <1>3, <1>4 DEF Next

\* The invariant holds throughout.
LEMMA IInvHolds == Spec => []IInv
<1>1. Init => IInv
  <2>1. Init => Order
    BY DEF Init, Order
  <2> QED
    BY <2>1, InitTyped, InitFlights, InitContents DEF IInv
<1>2. IInv /\ [Next]_vars => IInv'
  BY NextTyped, NextFlights, NextContents, NextOrder DEF IInv
<1> QED
  BY <1>1, <1>2, PTL DEF Spec

----------------------------------------------------------------------------

\* No hit hands out what cacheableResponse should have kept back.
THEOREM NoPersonalHit == Spec => []HitsImpersonal
<1>1. IInv => HitsImpersonal
  BY DEF IInv, Contents, HitsImpersonal
<1> QED
  BY <1>1, IInvHolds, PTL

\* However lookups, fills and changes of the Vary list interleave, and whatever lists
\* two plain requests have built their keys from, buildKey tells them apart: a hit on
\* a response with one line of Vary suits its request on every header named there.
THEOREM PlainHitsSuit == Spec => []HitsSuit
<1>1. IInv => HitsSuit
  <2> SUFFICES ASSUME IInv, NEW r \in Requests, source[r] = "cache", Plain(hdr[r]),
                      Plain(resp[r].for), Len(resp[r].vary) <= 1,
                      NEW x \in VariesOn(resp[r])
               PROVE  resp[r].for[x] = hdr[r][x]
    BY Zenon DEF HitsSuit, Suits
  <2> DEFINE e == resp[r]  field == e.vary
  <2>1. e \in Responses /\ Matches(e, hdr[r])
    BY DEF IInv, Contents
  <2>2. hdr[r] \in Fields /\ e.for \in Fields /\ field \in Seq(Seq(Headers))
    BY <2>1, CacheAssumption DEF IInv, Typed, TypeOK, Responses
  <2>3. PICK list \in Lists : BuildKey(hdr[r], list) = BuildKey(e.for, ParsedVary(e))
    BY <2>1, Zenon DEF Matches
  <2>4. list \in Seq(Headers) /\ ParsedVary(e) \in Seq(Headers)
    BY <2>1, KeyBuilt, FirstLines, Zenon
  <2>5. x \in Range(ParsedVary(e))
    <3>1. PICK line \in Range(field) : x \in Range(line)
      BY Zenon DEF VariesOn
    <3>2. PICK i \in 1..Len(field) : line = field[i]
      BY <2>2 DEF Range
    <3>3. i = 1 /\ field # <<>>
      BY <2>2, <3>2
    <3>4. line = FirstLine(field)
      BY <2>2, <3>2, <3>3 DEF FirstLine
    <3> QED
      BY <3>1, <3>4, Zenon DEF ParsedVary
  <2> HIDE DEF e
  <2>6. Plain(e.for)
    BY Zenon DEF e
  <2>7. hdr[r][x] = e.for[x]
    BY <2>2, <2>3, <2>4, <2>5, <2>6, KeysApart, ZenonT(30)
  <2> QED
    BY <2>7, Zenon DEF e
<1> QED
  BY <1>1, IInvHolds, PTL

\* What a step does to an entry that two calls for its key have stored.
LEMMA NextAdvances ==
    ASSUME Typed, Order, [Next]_vars,
           NEW k \in Keys, store[k] # None, store'[k] # None, k \in kept, k \in kept'
    PROVE  store'[k].version >= store[k].version
<1>1. store[k].version \in Nat
  <2>1. store[k] \in Responses
    BY Zenon DEF Typed, TypeOK, Entries
  <2> QED
    BY <2>1, CacheAssumption DEF Responses
<1>2. CASE store'[k] = store[k]
  <2>1. store[k].version >= store[k].version
    BY <1>1
  <2> QED
    BY <1>2, <2>1, Zenon
<1>3. ASSUME NEW r \in Requests, Store(r) PROVE store'[k].version >= store[k].version
  <2>1. stage[r] = "recorded" /\ (k = FinalKey(r) => k = key[r])
    BY <1>3, Zenon DEF Store, At, LeftOf
  <2>2. store'[k] = store[k] \/ (k = key[r] /\ store'[k] = resp[r])
    BY <1>3, <2>1, StoreEffect, Zenon
  <2>3. CASE k = key[r] /\ store'[k] = resp[r]
    <3>1. store[k].version <= resp[r].version
      BY <2>1, <2>3 DEF Order
    <3>2. resp[r] \in Responses
      BY <2>1 DEF Typed, Held
    <3>3. resp[r].version \in Nat
      BY <3>2, CacheAssumption DEF Responses
    <3> QED
      BY <1>1, <2>3, <3>1, <3>3
  <2> QED
    BY <1>2, <2>2, <2>3, Zenon
<1>4. CASE Lose
  <2>1. store \in [Keys -> Entries \cup {None}] /\ store' \in LS!Remains(store)
    BY <1>4, Zenon DEF Lose, LeftOf, Typed, TypeOK
  <2> QED
    BY <1>2, <2>1, RemainsOf, Zenon
<1>5. CASE UNCHANGED store
  BY <1>2, <1>5
<1> QED
  BY <1>3, <1>4, <1>5, Zenon
  DEF Next, Handle, vars, Arrive, Lookup, Bypass, Join, Lead, Abort, Capture, Record,
      EndFlight, Leave, Change

\* A call for a key never puts an older version in place of what an earlier call for
\* the key has stored there, whatever entries other calls have put under other keys
\* than their own.
THEOREM FillsOnlyAdvance == Spec => FillsAdvance
<1> DEFINE Advance ==
        \A k \in Keys : store[k] # None /\ store'[k] # None /\ k \in kept \cap kept' =>
                            store'[k].version >= store[k].version
<1>1. IInv /\ [Next]_vars => [Advance]_vars
  <2> SUFFICES ASSUME IInv, [Next]_vars PROVE Advance
    BY Zenon
  <2> QED
    BY NextAdvances, Zenon DEF IInv
<1> QED
  BY <1>1, IInvHolds, PTL DEF Spec, FillsAdvance
=============================================================================
