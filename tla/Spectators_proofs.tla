--------------------------- MODULE Spectators_proofs ---------------------------
(***************************************************************************)
(* Who follows a match: the chatter about it is bounded by what happens in *)
(* it, the page never shows an older score, and a page that has caught up  *)
(* shows the whole match.  What a page has listed is a recursive function  *)
(* of the feed; what it yields is found by induction over its domain, with *)
(* sets of numbers in place of predicates.                                 *)
(***************************************************************************)
EXTENDS Spectators, TLAPS, WellFoundedInduction, FiniteSetTheorems, SequenceTheorems

\* How many of the first n events of a feed are of given kinds.
CountIn(f, kinds, n) == Cardinality({i \in 1 .. n : f[i] \in kinds})

\* What the page lists for event i, and for the first n events.
EntriesIn(f, i) ==
  CASE f[i] = "verified" -> <<i, i>>
    [] f[i] \in Logged \ {"verified"} -> <<i>>
    [] OTHER -> <<>>

ListedIn(f, n) ==
  LET Listed[i \in 0 .. n] == IF i = 0 THEN <<>> ELSE Listed[i - 1] \o EntriesIn(f, i)
  IN  Listed[n]

-----------------------------------------------------------------------------
\* Lists.
\* Induction, with a set in place of a predicate.
LEMMA LeastNumber ==
  ASSUME NEW T \in SUBSET Nat, T # {}
  PROVE  \E m \in T : \A n \in T : m <= n
<1> DEFINE R == OpToRel(<, Nat)
<1>1. IsWellFoundedOn(R, Nat)
  BY NatLessThanWellFounded
<1>2. \A x, y \in Nat : <<y, x>> \in R <=> y < x
  BY DEF OpToRel
<1> HIDE DEF R
<1>3. PICK x \in T : \A y \in T : ~ (<<y, x>> \in R)
  BY <1>1, WFMin
<1>4. ASSUME NEW n \in T PROVE x <= n
  <2>1. x \in Nat /\ n \in Nat
    OBVIOUS
  <2>2. ~ (n < x)
    BY <1>2, <1>3, <2>1
  <2> QED
    BY <2>1, <2>2
<1> QED
  BY <1>4

LEMMA Induct ==
  ASSUME NEW S, 0 \in S, \A n \in Nat : n \in S => n + 1 \in S
  PROVE  Nat \subseteq S
<1> SUFFICES ASSUME Nat \ S # {} PROVE FALSE
  OBVIOUS
<1>1. PICK m \in Nat \ S : \A n \in Nat \ S : m <= n
  BY LeastNumber
<1>2. m - 1 \in Nat /\ m - 1 \in S
  BY <1>1
<1> QED
  BY <1>1, <1>2

\* f lists, up to n, what d gives for every place.
At(f, d, i) == IF i = 0 THEN <<>> ELSE f[i - 1] \o d[i]
IsList(f, d, n) == f = [i \in 0 .. n |-> At(f, d, i)]

LEMMA AtNext ==
  ASSUME NEW f, NEW d, NEW m \in Nat
  PROVE  At(f, d, 0) = <<>> /\ At(f, d, m + 1) = f[m] \o d[m + 1]
<1>1. m + 1 # 0 /\ (m + 1) - 1 = m
  OBVIOUS
<1>2. \A j : j = m => f[j] \o d[m + 1] = f[m] \o d[m + 1]
  BY Zenon
<1>3. f[(m + 1) - 1] \o d[m + 1] = f[m] \o d[m + 1]
  BY <1>1, <1>2, Zenon
<1>4. At(f, d, m + 1) = f[(m + 1) - 1] \o d[m + 1]
  BY <1>1, Zenon DEF At
<1>5. At(f, d, 0) = <<>>
  BY Zenon DEF At
<1> QED
  BY <1>3, <1>4, <1>5, Zenon

LEMMA ListAt ==
  ASSUME NEW n \in Nat, NEW d, NEW f, IsList(f, d, n), NEW i \in 0 .. n
  PROVE  f[i] = At(f, d, i)
<1> DEFINE g == [j \in 0 .. n |-> At(f, d, j)]
<1>1. f = g
  BY Zenon DEF IsList
<1>2. g[i] = At(f, d, i)
  BY Zenon
<1> HIDE DEF g
<1> QED
  BY <1>1, <1>2, Zenon

\* Such a list exists, and there is one.
LEMMA ListExists ==
  ASSUME NEW n \in Nat, NEW E, NEW d \in [1 .. n -> Seq(E)]
  PROVE  \E f \in [0 .. n -> Seq(E)] : IsList(f, d, n)
<1> DEFINE S == {m \in Nat : m <= n => \E f \in [0 .. m -> Seq(E)] : IsList(f, d, m)}
<1>1. 0 \in S
  <2> DEFINE f == [i \in 0 .. 0 |-> <<>>]
  <2>1. f \in [0 .. 0 -> Seq(E)] /\ IsList(f, d, 0)
    BY AtNext DEF IsList
  <2> QED
    BY <2>1
<1>2. ASSUME NEW m \in Nat, m \in S PROVE m + 1 \in S
  <2> SUFFICES ASSUME m + 1 <= n PROVE \E f \in [0 .. m + 1 -> Seq(E)] : IsList(f, d, m + 1)
    OBVIOUS
  <2>1. PICK f \in [0 .. m -> Seq(E)] : IsList(f, d, m)
    BY <1>2
  <2>5. f[m] \o d[m + 1] \in Seq(E)
    <3>1. m \in 0 .. m /\ m + 1 \in 1 .. n
      OBVIOUS
    <3>2. f[m] \in Seq(E) /\ d[m + 1] \in Seq(E)
      BY <3>1
    <3> QED
      BY <3>2, ConcatProperties
  <2> DEFINE last == f[m] \o d[m + 1]
             g == [i \in 0 .. m + 1 |-> IF i = m + 1 THEN last ELSE f[i]]
  <2> HIDE DEF last
  <2>2. g \in [0 .. m + 1 -> Seq(E)]
    <3>1. \A i \in 0 .. m + 1 : i # m + 1 => i \in 0 .. m
      OBVIOUS
    <3> QED
      BY <2>5, <3>1 DEF last
  <2>6. g[m + 1] = last /\ m + 1 # 0 /\ m + 1 - 1 = m
    OBVIOUS
  <2>7. \A i \in 0 .. m : g[i] = f[i]
    OBVIOUS
  <2> HIDE DEF g
  <2>3. ASSUME NEW i \in 0 .. m + 1 PROVE g[i] = At(g, d, i)
    <3>1. CASE i = m + 1
      <4>1. g[m] = f[m]
        BY <2>7
      <4>2. At(g, d, m + 1) = g[m] \o d[m + 1]
        BY AtNext
      <4>3. g[i] = last /\ At(g, d, i) = g[m] \o d[m + 1]
        BY <3>1, <2>6, <4>2, Zenon
      <4> QED
        BY <4>1, <4>3, Zenon DEF last
    <3>2. CASE i # m + 1
      <4>1. i \in 0 .. m
        BY <3>2
      <4>2. f[i] = At(f, d, i)
        BY <4>1, <2>1, Zenon DEF IsList
      <4>3. g[i] = f[i]
        BY <4>1, <2>7
      <4>4. CASE i = 0
        BY <4>2, <4>3, <4>4, Zenon DEF At
      <4>5. CASE i # 0
        <5>1. i - 1 \in 0 .. m
          BY <4>1, <4>5
        <5>2. g[i - 1] = f[i - 1]
          BY <5>1, <2>7
        <5>3. At(g, d, i) = At(f, d, i)
          BY <4>5, <5>2, Zenon DEF At
        <5> QED
          BY <4>2, <4>3, <5>3, Zenon
      <4> QED
        BY <4>4, <4>5
    <3> QED
      BY <3>1, <3>2
  <2> HIDE DEF g
  <2>4. IsList(g, d, m + 1)
    BY <2>2, <2>3 DEF IsList
  <2> QED
    BY <2>2, <2>4
<1> HIDE DEF S
<1>3. n \in S
  BY <1>1, <1>2, Induct
<1> QED
  BY <1>3 DEF S

\* Two lists of what is the same up to n.
Twins(f, d, n, g, e, k) ==
  IsList(f, d, n) /\ IsList(g, e, k) /\ n <= k /\ \A i \in 1 .. n : d[i] = e[i]

\* What a list has come to.
Whole(f, n) == f[n]

LEMMA ListUnique ==
  ASSUME NEW n \in Nat, NEW k \in Nat, NEW d, NEW e, NEW f, NEW g, Twins(f, d, n, g, e, k)
  PROVE  Whole(f, n) = Whole(g, n)
<1>4. IsList(f, d, n) /\ IsList(g, e, k) /\ n <= k /\ \A i \in 1 .. n : d[i] = e[i]
  BY DEF Twins
<1> DEFINE S == {m \in Nat : m <= n => f[m] = g[m]}
<1>1. 0 \in S
  <2>1. f[0] = At(f, d, 0) /\ g[0] = At(g, e, 0)
    BY <1>4, ListAt
  <2>2. At(f, d, 0) = <<>> /\ At(g, e, 0) = <<>>
    BY AtNext
  <2>3. f[0] = g[0]
    BY <2>1, <2>2, Zenon
  <2> QED
    BY <2>3
<1>2. ASSUME NEW m \in Nat, m \in S PROVE m + 1 \in S
  <2> SUFFICES ASSUME m + 1 <= n PROVE f[m + 1] = g[m + 1]
    OBVIOUS
  <2>1. m + 1 \in 0 .. n /\ m + 1 \in 0 .. k /\ m + 1 \in 1 .. n
    BY <1>4
  <2>2. f[m + 1] = At(f, d, m + 1) /\ g[m + 1] = At(g, e, m + 1)
    BY <1>4, <2>1, ListAt
  <2>3. f[m] = g[m] /\ d[m + 1] = e[m + 1]
    BY <1>2, <1>4, <2>1
  <2>4. At(f, d, m + 1) = f[m] \o d[m + 1] /\ At(g, e, m + 1) = g[m] \o e[m + 1]
    BY AtNext
  <2> QED
    BY <2>2, <2>3, <2>4, Zenon
<1> HIDE DEF S
<1>3. Nat \subseteq S
  BY <1>1, <1>2, Induct
<1>5. f[n] = g[n]
  BY <1>3 DEF S
<1> QED
  BY <1>5, Zenon DEF Whole

\* What the page lists is such a list.
Row(f, n) == [i \in 1 .. n |-> EntriesIn(f, i)]

LEMMA EntriesTyped == ASSUME NEW f, NEW i \in Nat PROVE EntriesIn(f, i) \in Seq(Nat)
<1>1. <<i, i>> \in Seq(Nat) /\ <<i>> \in Seq(Nat) /\ <<>> \in Seq(Nat)
  OBVIOUS
<1> QED
  BY <1>1 DEF EntriesIn

LEMMA RowTyped == ASSUME NEW f, NEW n \in Nat PROVE Row(f, n) \in [1 .. n -> Seq(Nat)]
BY EntriesTyped DEF Row

LEMMA ListedIsList ==
  ASSUME NEW f, NEW n \in Nat
  PROVE  \E h \in [0 .. n -> Seq(Nat)] : IsList(h, Row(f, n), n) /\ ListedIn(f, n) = h[n]
<1> DEFINE Q(g) == g = [i \in 0 .. n |-> IF i = 0 THEN <<>> ELSE g[i - 1] \o EntriesIn(f, i)]
           c == CHOOSE g : Q(g)
<1>1. PICK h \in [0 .. n -> Seq(Nat)] : IsList(h, Row(f, n), n)
  BY ListExists, RowTyped
<1>2. ListedIn(f, n) = c[n]
  BY DEF ListedIn
<1>3. ASSUME NEW g PROVE Q(g) <=> IsList(g, Row(f, n), n)
  <2> DEFINE a == [i \in 0 .. n |-> IF i = 0 THEN <<>> ELSE g[i - 1] \o EntriesIn(f, i)]
             b == [i \in 0 .. n |-> At(g, Row(f, n), i)]
  <2>1. ASSUME NEW i \in 0 .. n PROVE a[i] = b[i]
    <3>1. CASE i = 0
      BY <3>1, Zenon DEF At
    <3>2. CASE i # 0
      <4>1. i \in 1 .. n
        BY <3>2
      <4>2. Row(f, n)[i] = EntriesIn(f, i)
        BY <4>1 DEF Row
      <4>3. a[i] = g[i - 1] \o EntriesIn(f, i)
        BY <3>2, Zenon
      <4>4. b[i] = g[i - 1] \o Row(f, n)[i]
        BY <3>2, Zenon DEF At
      <4> QED
        BY <4>2, <4>3, <4>4, Zenon
    <3> QED
      BY <3>1, <3>2
  <2>2. a = b
    BY <2>1, Zenon
  <2>3. (g = a) <=> (g = b)
    BY <2>2, Zenon
  <2> QED
    BY <2>3 DEF IsList
<1>4. IsList(c, Row(f, n), n)
  BY <1>1, <1>3
<1> HIDE DEF c
<1>5. c[n] = h[n]
  <2>1. Twins(c, Row(f, n), n, h, Row(f, n), n)
    BY <1>1, <1>4 DEF Twins
  <2>2. Whole(c, n) = Whole(h, n)
    BY <2>1, ListUnique
  <2> QED
    BY <2>2, Zenon DEF Whole
<1> QED
  BY <1>1, <1>2, <1>5

\* One more event adds its entries.
LEMMA ListedNext ==
  ASSUME NEW f, NEW n \in Nat
  PROVE  /\ ListedIn(f, 0) = <<>>
         /\ ListedIn(f, n) \in Seq(Nat)
         /\ ListedIn(f, n + 1) = ListedIn(f, n) \o EntriesIn(f, n + 1)
<1>1. PICK h \in [0 .. n -> Seq(Nat)] : IsList(h, Row(f, n), n) /\ ListedIn(f, n) = h[n]
  BY ListedIsList
<1>2. n + 1 \in Nat /\ n + 1 \in 1 .. n + 1 /\ n + 1 \in 0 .. n + 1 /\ n <= n + 1
  OBVIOUS
<1>3. PICK g \in [0 .. n + 1 -> Seq(Nat)] :
        IsList(g, Row(f, n + 1), n + 1) /\ ListedIn(f, n + 1) = g[n + 1]
  BY <1>2, ListedIsList
<1>4. \A i \in 1 .. n : Row(f, n)[i] = Row(f, n + 1)[i]
  BY DEF Row
<1>5. h[n] = g[n]
  <2>1. Twins(h, Row(f, n), n, g, Row(f, n + 1), n + 1)
    BY <1>1, <1>2, <1>3, <1>4 DEF Twins
  <2>2. Whole(h, n) = Whole(g, n)
    BY <1>2, <2>1, ListUnique
  <2> QED
    BY <2>2, Zenon DEF Whole
<1>6. g[n + 1] = At(g, Row(f, n + 1), n + 1)
  BY <1>2, <1>3, Zenon DEF IsList
<1>7. At(g, Row(f, n + 1), n + 1) = g[n] \o Row(f, n + 1)[n + 1]
  BY AtNext
<1>8. Row(f, n + 1)[n + 1] = EntriesIn(f, n + 1)
  BY <1>2 DEF Row
<1>9. ListedIn(f, n + 1) = ListedIn(f, n) \o EntriesIn(f, n + 1)
  BY <1>1, <1>3, <1>5, <1>6, <1>7, <1>8, Zenon
<1>10. ListedIn(f, 0) = <<>>
  <2>1. PICK o \in [0 .. 0 -> Seq(Nat)] : IsList(o, Row(f, 0), 0) /\ ListedIn(f, 0) = o[0]
    BY ListedIsList
  <2>2. o[0] = At(o, Row(f, 0), 0)
    BY <2>1, ListAt
  <2>3. At(o, Row(f, 0), 0) = <<>>
    BY AtNext
  <2> QED
    BY <2>1, <2>2, <2>3, Zenon
<1>11. h[n] \in Seq(Nat)
  OBVIOUS
<1> QED
  BY <1>1, <1>9, <1>10, <1>11

\* Only the events so far matter.
LEMMA ListedSame ==
  ASSUME NEW f, NEW g, NEW n \in Nat, \A i \in 1 .. n : f[i] = g[i]
  PROVE  ListedIn(f, n) = ListedIn(g, n)
<1>1. PICK h \in [0 .. n -> Seq(Nat)] : IsList(h, Row(f, n), n) /\ ListedIn(f, n) = h[n]
  BY ListedIsList
<1>2. PICK o \in [0 .. n -> Seq(Nat)] : IsList(o, Row(g, n), n) /\ ListedIn(g, n) = o[n]
  BY ListedIsList
<1>3. ASSUME NEW i \in 1 .. n PROVE Row(f, n)[i] = Row(g, n)[i]
  <2>1. f[i] = g[i]
    OBVIOUS
  <2>2. EntriesIn(f, i) = EntriesIn(g, i)
    BY <2>1, Zenon DEF EntriesIn
  <2> QED
    BY <2>2 DEF Row
<1>4. h[n] = o[n]
  <2>1. Twins(h, Row(f, n), n, o, Row(g, n), n)
    BY <1>1, <1>2, <1>3 DEF Twins
  <2>2. Whole(h, n) = Whole(o, n)
    BY <2>1, ListUnique
  <2> QED
    BY <2>2, Zenon DEF Whole
<1> QED
  BY <1>1, <1>2, <1>4

LEMMA CompleteIsListed == Complete = ListedIn(feed, length)
BY Zenon DEF Complete, ListedIn, Entries, EntriesIn

\* The end of a sequence.
LEMMA LastProperties ==
  ASSUME NEW K \in Nat, NEW s \in Seq(Nat)
  PROVE  /\ Last(K, s) \in Seq(Nat)
         /\ Len(Last(K, s)) = IF Len(s) > K THEN K ELSE Len(s)
         /\ \A i \in 1 .. Len(Last(K, s)) : Last(K, s)[i] = s[Len(s) - Len(Last(K, s)) + i]
<1>1. CASE Len(s) > K
  <2> DEFINE t == SubSeq(s, Len(s) - K + 1, Len(s))
  <2>1. Last(K, s) = t
    BY <1>1 DEF Last
  <2>2. t \in Seq(Nat) /\ Len(t) = K /\ \A i \in 1 .. K : t[i] = s[Len(s) - K + i]
    BY <1>1
  <2> HIDE DEF t
  <2> QED
    BY <1>1, <2>1, <2>2
<1>2. CASE ~ (Len(s) > K)
  <2>1. Last(K, s) = s
    BY <1>2, Zenon DEF Last
  <2>2. \A i \in 1 .. Len(s) : Len(s) - Len(s) + i = i
    OBVIOUS
  <2> QED
    BY <1>2, <2>1, <2>2
<1> QED
  BY <1>1, <1>2

\* What is dropped early is dropped anyway.
LEMMA LastOfLast ==
  ASSUME NEW K \in Nat, NEW s \in Seq(Nat), NEW e \in Seq(Nat)
  PROVE  Last(K, Last(K, s) \o e) = Last(K, s \o e)
<1> DEFINE t == Last(K, s)
           u == t \o e
           v == s \o e
           a == Last(K, u)
           b == Last(K, v)
<1>1. t \in Seq(Nat) /\ Len(t) = (IF Len(s) > K THEN K ELSE Len(s))
      /\ \A i \in 1 .. Len(t) : t[i] = s[Len(s) - Len(t) + i]
  BY LastProperties
<1> HIDE DEF t
<1>a. t \in Seq(Nat)
  BY <1>1
<1>2. u \in Seq(Nat) /\ Len(u) = Len(t) + Len(e)
      /\ \A i \in 1 .. Len(t) + Len(e) : u[i] = IF i <= Len(t) THEN t[i] ELSE e[i - Len(t)]
  BY <1>a, ConcatProperties
<1>3. v \in Seq(Nat) /\ Len(v) = Len(s) + Len(e)
      /\ \A i \in 1 .. Len(s) + Len(e) : v[i] = IF i <= Len(s) THEN s[i] ELSE e[i - Len(s)]
  BY ConcatProperties
<1> HIDE DEF u, v
<1>4. a \in Seq(Nat) /\ Len(a) = (IF Len(u) > K THEN K ELSE Len(u))
      /\ \A i \in 1 .. Len(a) : a[i] = u[Len(u) - Len(a) + i]
  BY <1>2, LastProperties
<1>5. b \in Seq(Nat) /\ Len(b) = (IF Len(v) > K THEN K ELSE Len(v))
      /\ \A i \in 1 .. Len(b) : b[i] = v[Len(v) - Len(b) + i]
  BY <1>3, LastProperties
<1> HIDE DEF a, b
<1>6. Len(s) \in Nat /\ Len(t) \in Nat /\ Len(e) \in Nat /\ Len(u) \in Nat /\ Len(v) \in Nat
  BY <1>1, <1>2, <1>3
<1>b. /\ Len(t) = (IF Len(s) > K THEN K ELSE Len(s))
      /\ Len(u) = Len(t) + Len(e) /\ Len(v) = Len(s) + Len(e)
      /\ Len(a) = (IF Len(u) > K THEN K ELSE Len(u)) /\ Len(b) = (IF Len(v) > K THEN K ELSE Len(v))
  BY <1>1, <1>2, <1>3, <1>4, <1>5, Zenon
<1>7. Len(a) = Len(b)
  BY <1>b, <1>6
<1>8. ASSUME NEW i \in 1 .. Len(a) PROVE a[i] = b[i]
  <2> DEFINE p == Len(u) - Len(a) + i
             q == Len(v) - Len(a) + i
  <2>1. a[i] = u[p] /\ b[i] = v[q]
    BY <1>4, <1>5, <1>7
  <2>2. Len(a) \in Nat
    BY <1>4
  <2>3. p \in 1 .. Len(u) /\ q \in 1 .. Len(v) /\ q = p + (Len(s) - Len(t))
    <3> DEFINE lt == Len(t)
               ls == Len(s)
               le == Len(e)
               la == Len(a)
               lu == Len(u)
               lv == Len(v)
    <3>1. lt \in Nat /\ ls \in Nat /\ le \in Nat /\ la \in Nat /\ lu \in Nat /\ lv \in Nat
      BY <1>6, <2>2
    <3>2. i \in 1 .. la
      OBVIOUS
    <3>3. lu = lt + le /\ lv = ls + le
      BY <1>b
    <3>4. la = (IF lu > K THEN K ELSE lu) /\ lt = (IF ls > K THEN K ELSE ls)
      BY <1>b
    <3>5. p = lu - la + i /\ q = lv - la + i
      OBVIOUS
    <3> HIDE DEF lt, ls, le, la, lu, lv, p, q
    <3>6. la <= lu /\ la <= lv
      BY <3>1, <3>3, <3>4
    <3>7. p \in 1 .. lu /\ q \in 1 .. lv /\ q = p + (ls - lt)
      BY <3>1, <3>2, <3>3, <3>5, <3>6
    <3> QED
      BY <3>7 DEF lt, ls, lu, lv
  <2> HIDE DEF p, q
  <2>4. CASE p <= Len(t)
    <3>4. p \in 1 .. Len(t) /\ p \in 1 .. Len(t) + Len(e)
      <4>1. p \in Int /\ 1 <= p
        BY <2>3, <1>6
      <4> QED
        BY <1>6, <4>1, <2>4
    <3>5. u[p] = t[p]
      BY <1>2, <2>4, <3>4, Zenon
    <3>6. t[p] = s[Len(s) - Len(t) + p]
      BY <1>1, <3>4, Zenon
    <3>1. u[p] = t[p] /\ t[p] = s[Len(s) - Len(t) + p]
      BY <3>5, <3>6
    <3>2. q <= Len(s) /\ q = Len(s) - Len(t) + p
      BY <1>6, <2>3, <2>4
    <3>3. v[q] = s[q]
      BY <1>3, <2>3, <3>2
    <3> QED
      BY <2>1, <3>1, <3>2, <3>3
  <2>5. CASE ~ (p <= Len(t))
    <3>1. u[p] = e[p - Len(t)]
      BY <1>2, <2>3, <2>5
    <3>2. ~ (q <= Len(s)) /\ q - Len(s) = p - Len(t)
      BY <1>6, <2>3, <2>5
    <3>3. v[q] = e[q - Len(s)]
      BY <1>3, <2>3, <3>2
    <3> QED
      BY <2>1, <3>1, <3>2, <3>3
  <2> QED
    BY <2>4, <2>5
<1>9. a = b
  BY <1>4, <1>5, <1>7, <1>8, SeqEqual
<1> QED
  BY <1>9 DEF a, b, u, v, t

-----------------------------------------------------------------------------
\* Counts.
\* One more event counts once at most.
LEMMA CountFacts ==
  ASSUME NEW f, NEW kinds, NEW n \in Nat
  PROVE  /\ CountIn(f, kinds, n) \in Nat
         /\ CountIn(f, kinds, 0) = 0
         /\ CountIn(f, kinds, n + 1) = CountIn(f, kinds, n) + IF f[n + 1] \in kinds THEN 1 ELSE 0
<1> DEFINE T == {i \in 1 .. n : f[i] \in kinds}
           U == {i \in 1 .. n + 1 : f[i] \in kinds}
<1>1. IsFiniteSet(1 .. n)
  BY FS_Interval
<1>2. IsFiniteSet(T)
  <2>1. T \subseteq 1 .. n
    OBVIOUS
  <2> QED
    BY <1>1, <2>1, FS_Subset
<1>3. Cardinality(T) \in Nat
  BY <1>2, FS_CardinalityType
<1>4. {i \in 1 .. 0 : f[i] \in kinds} = {}
  OBVIOUS
<1>5. Cardinality(U) = Cardinality(T) + IF f[n + 1] \in kinds THEN 1 ELSE 0
  <2>1. CASE f[n + 1] \in kinds
    <3>1. U = T \cup {n + 1} /\ n + 1 \notin T
      BY <2>1
    <3> HIDE DEF T, U
    <3> QED
      BY <1>2, <2>1, <3>1, FS_AddElement
  <2>2. CASE f[n + 1] \notin kinds
    <3>1. U = T
      BY <2>2
    <3> HIDE DEF T, U
    <3> QED
      BY <1>3, <2>2, <3>1
  <2> QED
    BY <2>1, <2>2
<1>6. Cardinality({i \in 1 .. 0 : f[i] \in kinds}) = 0
  BY <1>4, FS_EmptySet
<1> QED
  BY <1>3, <1>5, <1>6 DEF CountIn

LEMMA CountSame ==
  ASSUME NEW f, NEW g, NEW kinds, NEW n \in Nat, \A i \in 1 .. n : f[i] = g[i]
  PROVE  CountIn(f, kinds, n) = CountIn(g, kinds, n)
<1>1. {i \in 1 .. n : f[i] \in kinds} = {i \in 1 .. n : g[i] \in kinds}
  OBVIOUS
<1> QED
  BY <1>1 DEF CountIn

\* A count never shrinks.
LEMMA CountMono ==
  ASSUME NEW f, NEW kinds, NEW m \in Nat, NEW n \in Nat, m <= n
  PROVE  CountIn(f, kinds, m) <= CountIn(f, kinds, n)
<1> DEFINE T == {i \in 1 .. m : f[i] \in kinds}
           U == {i \in 1 .. n : f[i] \in kinds}
<1>1. U \subseteq 1 .. n /\ T \subseteq U
  OBVIOUS
<1>2. IsFiniteSet(U)
  <2>1. IsFiniteSet(1 .. n)
    BY FS_Interval
  <2> QED
    BY <1>1, <2>1, FS_Subset
<1> HIDE DEF T, U
<1>3. Cardinality(T) <= Cardinality(U)
  BY <1>1, <1>2, FS_Subset
<1> QED
  BY <1>3 DEF T, U, CountIn

-----------------------------------------------------------------------------
\* The invariant.
\* The kinds of events published.
Kinds == Logged \cup {"claim", "opening", "seeded", "started", "aborted", "finished", "score", "comment"}

\* A reader stands where it may; one that has not joined stands at the start.
BusInv ==
  /\ length \in Nat /\ feed \in Seq(Kinds) /\ Len(feed) = length
  /\ pos \in [Readers -> Nat] /\ end \in [Readers -> Nat]
  /\ reader \in [Readers -> {"absent", "attached", "cut", "gone"}]
  /\ \A r \in Readers : pos[r] <= end[r] /\ end[r] <= length
  /\ \A r \in Readers : reader[r] = "absent" => pos[r] = 0

JudgeStates == {"off", "mute", "reading", "asking", "posting", "exited"}
Talking == {"asking", "posting"}
\* The judges with a comment on the way, and what the judges have read of note.
Busy(d) == {j \in Judges : d[j] \in Talking}
Heard(f, p, n) == {x \in Judges \X (1 .. n) : x[2] <= p[x[1]] /\ f[x[2]] \in Noteworthy}

\* Nothing is published before the match.
ArenaInv ==
  /\ stage \in 0 .. Len(Lifecycle) /\ fights \in 0 .. MaxFights /\ unscored \in 0 .. fights
  /\ judge \in [Judges -> JudgeStates]
  /\ stage = 0 => length = 0 /\ fights = 0 /\ unscored = 0 /\ script = <<>> /\ Busy(judge) = {}
  /\ length = 0 => stage = 0

\* A feed begins with the opening of the match, which comes once.
OpeningInv ==
  /\ length > 0 => feed[1] = "opening"
  /\ \A i \in 2 .. length : feed[i] # "opening"

\* What the commentator has yet to say: claims, then comments.
Script(s, c, n) ==
  /\ s \in Seq({"claim", "comment"}) /\ Len(s) = c + n
  /\ \A i \in 1 .. c + n : s[i] = IF i <= c THEN "claim" ELSE "comment"

\* What has been said, and what is still to be said, stays within what was read.
Owed(f, k, p, n, d, c, m) ==
  /\ CountIn(f, {"claim"}, n) + c <= k + 2 * CountIn(f, Combat, p[Commentator])
  /\ CountIn(f, {"comment"}, n) + m + Cardinality(Busy(d))
       <= MaxReactions * CountIn(f, Combat, p[Commentator]) + Cardinality(Heard(f, p, n))

ChatterInv ==
  \E c \in 0 .. 2, m \in 0 .. MaxReactions :
    Script(script, c, m) /\ Owed(feed, fights, pos, length, judge, c, m)

\* The frames on the wire are the last that the stream has read.
Frames == [at : Nat, score : Nat]

WireInv ==
  /\ link \in 0 .. Len(Connections) /\ online \in BOOLEAN
  /\ wire \in Seq(Frames) /\ Len(wire) <= MaxWire
  /\ ~online => wire = <<>>
  /\ online => link > 0 /\ length > 0
  /\ log \in Seq(Nat) /\ Len(log) <= LogKept /\ bugs \in Seq(Nat)
  /\ online => \A i \in 1 .. Len(wire) : wire[i].at = pos[Stream] - Len(wire) + i
  /\ online => Len(wire) <= pos[Stream]

\* The scores on the wire grow, from what the page shows to what is true.
BoardInv ==
  /\ board \in Int
  /\ board <= CountIn(feed, {"verified"}, length)
  /\ \A i \in 1 .. Len(wire) : board <= wire[i].score /\ wire[i].score <= CountIn(feed, {"verified"}, length)
  /\ \A i, j \in 1 .. Len(wire) : i <= j => wire[i].score <= wire[j].score

\* The page shows what it was sent on this connection, once that began.
PageInv ==
  online /\ length <= MaxReplay =>
    LET n == pos[Stream] - Len(wire) IN
    n >= 1 => /\ log = Last(LogKept, ListedIn(feed, n))
              /\ Len(bugs) = CountIn(feed, {"seeded"}, n)

TalkInv == BusInv /\ ArenaInv /\ OpeningInv /\ ChatterInv
PagesInv == WireInv /\ BoardInv /\ PageInv
SpectatorsInv == TalkInv /\ PagesInv

-----------------------------------------------------------------------------
\* The steps of the bus.
LEMMA PublishFacts ==
  ASSUME BusInv, NEW kind \in Kinds, Publish(kind)
  PROVE  /\ length' = length + 1 /\ pos' = pos
         /\ \A i \in 1 .. length : feed'[i] = feed[i]
         /\ feed'[length + 1] = kind
         /\ BusInv'
<1>1. length' = length + 1 /\ pos' = pos /\ feed' = Append(feed, kind)
  BY DEF Publish, Bus!Extend
<1>2. PICK cut \in SUBSET {r \in Readers : reader[r] = "attached" /\ length - pos[r] >= MaxLag} :
        /\ reader' = [r \in Readers |-> IF r \in cut THEN "cut" ELSE reader[r]]
        /\ end' = [r \in Readers |->
                    IF reader[r] = "attached" /\ r \notin cut THEN length + 1 ELSE end[r]]
  BY DEF Publish, Bus!Extend
<1>3. length \in Nat /\ feed \in Seq(Kinds) /\ Len(feed) = length
  BY DEF BusInv
<1>4. feed' \in Seq(Kinds) /\ Len(feed') = length + 1
      /\ (\A i \in 1 .. length : feed'[i] = feed[i]) /\ feed'[length + 1] = kind
  BY <1>1, <1>3, AppendProperties
<1>5. \A r \in Readers : reader'[r] \in {"absent", "attached", "cut", "gone"}
  BY <1>2 DEF BusInv
<1>6. \A r \in Readers : end'[r] \in Nat /\ pos[r] <= end'[r] /\ end'[r] <= length + 1
  BY <1>2 DEF BusInv
<1>7. \A r \in Readers : reader'[r] = "absent" => pos[r] = 0
  BY <1>2 DEF BusInv
<1>8. reader' \in [Readers -> {"absent", "attached", "cut", "gone"}] /\ end' \in [Readers -> Nat]
  BY <1>2, <1>5, <1>6
<1>9. pos \in [Readers -> Nat]
  BY DEF BusInv
<1>10. BusInv'
  BY <1>1, <1>3, <1>4, <1>6, <1>7, <1>8, <1>9 DEF BusInv
<1> QED
  BY <1>1, <1>4, <1>10

LEMMA ReadFacts ==
  ASSUME BusInv, NEW r \in Readers, Bus!Read(r), UNCHANGED feed
  PROVE  /\ UNCHANGED length
         /\ pos[r] \in Nat /\ pos[r] + 1 \in 1 .. length
         /\ pos' = [pos EXCEPT ![r] = pos[r] + 1]
         /\ BusInv'
<1>1. /\ pos[r] < end[r] /\ pos' = [pos EXCEPT ![r] = pos[r] + 1]
      /\ UNCHANGED <<length, end, reader>> /\ reader[r] \in {"attached", "cut"}
  BY DEF Bus!Read
<1>2. pos \in [Readers -> Nat] /\ end[r] \in Nat /\ end[r] <= length /\ length \in Nat
  BY DEF BusInv
<1>3. BusInv'
  BY <1>1, <1>2 DEF BusInv
<1> QED
  BY <1>1, <1>2, <1>3

LEMMA JoinFacts ==
  ASSUME BusInv, NEW r \in Readers, Subscribe(r), MaxReplay \in Nat
  PROVE  /\ UNCHANGED <<length, feed>>
         /\ pos[r] = 0
         /\ pos'[r] = IF length > MaxReplay THEN length - MaxReplay ELSE 0
         /\ pos'[r] \in 0 .. length
         /\ pos' = [pos EXCEPT ![r] = pos'[r]]
         /\ BusInv'
<1>1. /\ reader[r] = "absent" /\ reader' = [reader EXCEPT ![r] = "attached"]
      /\ end' = [end EXCEPT ![r] = length] /\ UNCHANGED <<length, feed>>
  BY DEF Subscribe, Bus!Join
<1>2. PICK start \in 0 .. length : pos' = [pos EXCEPT ![r] = start]
  BY DEF Subscribe, Bus!Join
<1>3. /\ pos \in [Readers -> Nat] /\ length \in Nat /\ end \in [Readers -> Nat]
      /\ reader \in [Readers -> {"absent", "attached", "cut", "gone"}]
  BY DEF BusInv
<1>4. pos'[r] = start /\ start \in Nat
  BY <1>2, <1>3
<1>5. BusInv'
  BY <1>1, <1>2, <1>3, <1>4 DEF BusInv
<1>6. pos[r] = 0
  BY <1>1 DEF BusInv
<1>7. pos'[r] = IF length > MaxReplay THEN length - MaxReplay ELSE 0
  BY DEF Subscribe
<1> QED
  BY <1>1, <1>2, <1>4, <1>5, <1>6, <1>7

LEMMA QuitFacts ==
  ASSUME BusInv, NEW r \in Readers, Bus!Quit(r), UNCHANGED feed
  PROVE  UNCHANGED <<length, pos>> /\ BusInv'
BY DEF BusInv, Bus!Quit

LEMMA WhoReads ==
  /\ Commentator \in Readers /\ Judges \subseteq Readers
  /\ \A i \in DOMAIN Connections : Connections[i] \in Readers
BY DEF Readers

LEMMA KindsHere ==
  /\ Logged \subseteq Kinds /\ {"claim", "comment", "score"} \subseteq Kinds
  /\ \A i \in 1 .. 4 : Lifecycle[i] \in Kinds
BY DEF Kinds, Lifecycle

-----------------------------------------------------------------------------
\* What the talkers owe.
LEMMA HeardIsFinite ==
  ASSUME NEW f, NEW p, NEW n \in Nat
  PROVE  /\ IsFiniteSet(Heard(f, p, n)) /\ Cardinality(Heard(f, p, n)) \in Nat
         /\ Cardinality(Heard(f, p, n)) <= Cardinality(Judges) * CountIn(f, Noteworthy, n)
<1> DEFINE T == {i \in 1 .. n : f[i] \in Noteworthy}
<1>1. T \subseteq 1 .. n
  OBVIOUS
<1>2. IsFiniteSet(T)
  <2>1. IsFiniteSet(1 .. n)
    BY FS_Interval
  <2> QED
    BY <1>1, <2>1, FS_Subset
<1>3. Heard(f, p, n) \subseteq Judges \X T
  BY DEF Heard
<1>5. CountIn(f, Noteworthy, n) = Cardinality(T)
  BY DEF CountIn
<1> HIDE DEF T
<1>4. IsFiniteSet(Judges \X T) /\ Cardinality(Judges \X T) = Cardinality(Judges) * Cardinality(T)
  BY <1>2, SpectatorsAssumption, FS_Product
<1>6. IsFiniteSet(Heard(f, p, n)) /\ Cardinality(Heard(f, p, n)) <= Cardinality(Judges \X T)
  BY <1>3, <1>4, FS_Subset
<1>7. Cardinality(Heard(f, p, n)) \in Nat
  BY <1>6, FS_CardinalityType
<1> QED
  BY <1>4, <1>5, <1>6, <1>7

LEMMA HeardGrows ==
  ASSUME NEW f, NEW g, NEW p, NEW q, NEW n \in Nat, NEW m \in Nat, n <= m,
         \A i \in 1 .. n : f[i] = g[i],
         \A j \in Judges : p[j] \in Nat /\ q[j] \in Nat /\ p[j] <= q[j]
  PROVE  Cardinality(Heard(f, p, n)) <= Cardinality(Heard(g, q, m))
<1>1. ASSUME NEW x \in Heard(f, p, n) PROVE x \in Heard(g, q, m)
  <2>1. x \in Judges \X (1 .. n) /\ x[2] <= p[x[1]] /\ f[x[2]] \in Noteworthy
    BY DEF Heard
  <2>2. x[1] \in Judges /\ x[2] \in 1 .. n
    BY <2>1
  <2>3. x \in Judges \X (1 .. m)
    BY <2>1
  <2>4. g[x[2]] \in Noteworthy
    BY <2>1, <2>2
  <2>5. x[2] <= q[x[1]]
    BY <2>1, <2>2
  <2> QED
    BY <2>3, <2>4, <2>5 DEF Heard
<1>2. Heard(f, p, n) \subseteq Heard(g, q, m)
  BY <1>1
<1>3. IsFiniteSet(Heard(g, q, m))
  BY HeardIsFinite
<1> QED
  BY <1>2, <1>3, FS_Subset

LEMMA HeardOneMore ==
  ASSUME NEW f, NEW p \in [Readers -> Nat], NEW n \in Nat, NEW j \in Judges,
         p[j] + 1 \in 1 .. n, f[p[j] + 1] \in Noteworthy
  PROVE  Cardinality(Heard(f, [p EXCEPT ![j] = p[j] + 1], n)) >= Cardinality(Heard(f, p, n)) + 1
<1> DEFINE q == [p EXCEPT ![j] = p[j] + 1]
           x == <<j, p[j] + 1>>
           T == Heard(f, p, n)
           U == Heard(f, q, n)
<1>1. j \in Readers /\ Judges \subseteq Readers
  BY WhoReads
<1>2. q[j] = p[j] + 1 /\ p[j] \in Nat /\ \A r \in Judges : r # j => q[r] = p[r]
  BY <1>1
<1>3. x[1] = j /\ x[2] = p[j] + 1 /\ x \in Judges \X (1 .. n)
  OBVIOUS
<1> HIDE DEF q, x
<1>4. x \in U
  <2>1. x[2] <= q[x[1]]
    BY <1>2, <1>3
  <2> QED
    BY <1>3, <2>1 DEF Heard
<1>5. x \notin T
  <2>1. ~ (x[2] <= p[x[1]])
    BY <1>2, <1>3
  <2> QED
    BY <2>1 DEF Heard
<1>6. ASSUME NEW y \in T PROVE y \in U
  <2>1. y \in Judges \X (1 .. n) /\ y[2] <= p[y[1]] /\ f[y[2]] \in Noteworthy
    BY DEF Heard
  <2>2. y[1] \in Judges /\ y[2] \in 1 .. n
    BY <2>1
  <2>3. y[2] <= q[y[1]]
    <3>1. CASE y[1] = j
      BY <1>2, <2>1, <2>2, <3>1
    <3>2. CASE y[1] # j
      BY <1>2, <2>1, <2>2, <3>2
    <3> QED
      BY <3>1, <3>2
  <2> QED
    BY <2>1, <2>3 DEF Heard
<1>7. IsFiniteSet(U) /\ IsFiniteSet(T) /\ Cardinality(T) \in Nat
  BY HeardIsFinite
<1> HIDE DEF T, U
<1>8. T \cup {x} \subseteq U
  BY <1>4, <1>6
<1>9. IsFiniteSet(T \cup {x}) /\ Cardinality(T \cup {x}) = Cardinality(T) + 1
  BY <1>5, <1>7, FS_AddElement
<1>10. Cardinality(T \cup {x}) <= Cardinality(U)
  BY <1>7, <1>8, FS_Subset
<1>11. Cardinality(U) \in Nat
  BY <1>7, FS_CardinalityType
<1>12. Cardinality(U) >= Cardinality(T) + 1
  BY <1>7, <1>9, <1>10, <1>11
<1> QED
  BY <1>12 DEF q, T, U

LEMMA BusyFacts ==
  ASSUME NEW d \in [Judges -> JudgeStates], NEW j \in Judges, NEW v \in JudgeStates
  PROVE  LET e == [d EXCEPT ![j] = v] IN
         /\ Cardinality(Busy(d)) \in Nat /\ Cardinality(Busy(e)) \in Nat
         /\ d[j] \in Talking /\ v \notin Talking => Cardinality(Busy(e)) = Cardinality(Busy(d)) - 1
         /\ d[j] \notin Talking /\ v \in Talking => Cardinality(Busy(e)) = Cardinality(Busy(d)) + 1
         /\ (d[j] \in Talking <=> v \in Talking) => Cardinality(Busy(e)) = Cardinality(Busy(d))
<1> DEFINE e == [d EXCEPT ![j] = v]
           T == Busy(d)
           U == Busy(e)
<1>1. IsFiniteSet(T) /\ IsFiniteSet(U)
  <2>1. T \subseteq Judges /\ U \subseteq Judges /\ IsFiniteSet(Judges)
    BY SpectatorsAssumption DEF Busy
  <2> QED
    BY <2>1, FS_Subset
<1>2. Cardinality(T) \in Nat /\ Cardinality(U) \in Nat
  BY <1>1, FS_CardinalityType
<1>3. e[j] = v /\ \A i \in Judges : i # j => e[i] = d[i]
  OBVIOUS
<1> HIDE DEF e
<1>4. ASSUME d[j] \in Talking, v \notin Talking PROVE Cardinality(U) = Cardinality(T) - 1
  <2>1. U = T \ {j} /\ j \in T
    BY <1>3, <1>4 DEF Busy
  <2> HIDE DEF T, U
  <2> QED
    BY <1>1, <2>1, FS_RemoveElement
<1>5. ASSUME d[j] \notin Talking, v \in Talking PROVE Cardinality(U) = Cardinality(T) + 1
  <2>1. U = T \cup {j} /\ j \notin T
    BY <1>3, <1>5 DEF Busy
  <2> HIDE DEF T, U
  <2> QED
    BY <1>1, <2>1, FS_AddElement
<1>6. ASSUME d[j] \in Talking <=> v \in Talking PROVE Cardinality(U) = Cardinality(T)
  <2>1. U = T
    BY <1>3, <1>6 DEF Busy
  <2> QED
    BY <2>1
<1> QED
  BY <1>2, <1>4, <1>5, <1>6 DEF e

\* Arithmetic that the provers need spelled out.
LEMMA Times ==
  ASSUME NEW k \in Nat, NEW x \in Nat, NEW y \in Nat, x <= y
  PROVE  /\ k * x \in Nat /\ k * y \in Nat /\ k * x <= k * y
         /\ k * (x + 1) = k * x + k
<1>1. PICK z \in Nat : y = x + z
  <2>1. y - x \in Nat /\ y = x + (y - x)
    OBVIOUS
  <2> QED
    BY <2>1
<1>2. k * x \in Nat /\ k * z \in Nat
  OBVIOUS
<1>3. k * (x + z) = k * x + k * z
  OBVIOUS
<1>4. k * (x + 1) = k * x + k
  OBVIOUS
<1>5. k * y = k * x + k * z
  BY <1>1, <1>3
<1> QED
  BY <1>2, <1>4, <1>5

\* One more entry.
LEMMA OwedByPublishing ==
  ASSUME NEW f, NEW g, NEW p, NEW n \in Nat, NEW k \in Nat, NEW l \in Nat,
         NEW d \in [Judges -> JudgeStates], NEW e \in [Judges -> JudgeStates],
         NEW b \in Nat, NEW c \in Nat, NEW m \in Nat, NEW o \in Nat,
         Cardinality(Busy(d)) \in Nat, Cardinality(Busy(e)) \in Nat,
         \A r \in Judges \cup {Commentator} : p[r] \in 0 .. n,
         \A i \in 1 .. n : g[i] = f[i],
         Owed(f, k, p, n, d, b, m),
         (IF g[n + 1] = "claim" THEN 1 ELSE 0) + c + k <= b + l,
         (IF g[n + 1] = "comment" THEN 1 ELSE 0) + o + Cardinality(Busy(e)) <= m + Cardinality(Busy(d))
  PROVE  Owed(g, l, p, n + 1, e, c, o)
<1> DEFINE x == p[Commentator]
           h == CountIn(f, Combat, x)
           cl == CountIn(f, {"claim"}, n)
           co == CountIn(f, {"comment"}, n)
           cm == IF g[n + 1] = "claim" THEN 1 ELSE 0
           cc == IF g[n + 1] = "comment" THEN 1 ELSE 0
           bd == Cardinality(Busy(d))
           be == Cardinality(Busy(e))
           hd == Cardinality(Heard(f, p, n))
           he == Cardinality(Heard(g, p, n + 1))
<1>1. x \in Nat /\ x <= n
  OBVIOUS
<1> HIDE DEF x
<1>2. h \in Nat /\ CountIn(g, Combat, x) = h
  <2>1. \A i \in 1 .. x : f[i] = g[i]
    BY <1>1
  <2> QED
    BY <1>1, <2>1, CountFacts, CountSame
<1>3. cl \in Nat /\ CountIn(g, {"claim"}, n + 1) = cl + cm
  <2>1. CountIn(f, {"claim"}, n) = CountIn(g, {"claim"}, n)
    BY CountSame
  <2>2. CountIn(g, {"claim"}, n + 1) = CountIn(g, {"claim"}, n) + IF g[n + 1] \in {"claim"} THEN 1 ELSE 0
    BY CountFacts
  <2>3. CountIn(f, {"claim"}, n) \in Nat
    BY CountFacts
  <2> QED
    BY <2>1, <2>2, <2>3
<1>4. co \in Nat /\ CountIn(g, {"comment"}, n + 1) = co + cc
  <2>1. CountIn(f, {"comment"}, n) = CountIn(g, {"comment"}, n)
    BY CountSame
  <2>2. CountIn(g, {"comment"}, n + 1) = CountIn(g, {"comment"}, n) + IF g[n + 1] \in {"comment"} THEN 1 ELSE 0
    BY CountFacts
  <2>3. CountIn(f, {"comment"}, n) \in Nat
    BY CountFacts
  <2> QED
    BY <2>1, <2>2, <2>3
<1>5. hd \in Nat /\ he \in Nat /\ hd <= he
  <2>1. n <= n + 1 /\ \A i \in 1 .. n : f[i] = g[i]
    OBVIOUS
  <2>2. \A j \in Judges : p[j] \in Nat /\ p[j] <= p[j]
    OBVIOUS
  <2>3. n + 1 \in Nat
    OBVIOUS
  <2>4. hd <= he
    BY <2>1, <2>2, <2>3, HeardGrows
  <2> QED
    BY <2>3, <2>4, HeardIsFinite
<1>6. cl + b <= k + 2 * h /\ co + m + bd <= MaxReactions * h + hd
  BY DEF Owed, x
<1>7. cm + c + k <= b + l /\ cc + o + be <= m + bd
  OBVIOUS
<1>8. bd \in Nat /\ be \in Nat /\ cm \in Nat /\ cc \in Nat
  OBVIOUS
<1>9. MaxReactions * h \in Nat
  BY <1>2, SpectatorsAssumption
<1> DEFINE mh == MaxReactions * h
<1>10. cl + b <= k + 2 * h /\ co + m + bd <= mh + hd /\ mh \in Nat
  BY <1>6, <1>9
<1> HIDE DEF h, cl, co, cm, cc, bd, be, hd, he, mh
<1>11. (cl + cm) + c <= l + 2 * h
  BY <1>2, <1>3, <1>7, <1>8, <1>10
<1>12. (co + cc) + o + be <= mh + he
  BY <1>4, <1>5, <1>7, <1>8, <1>10
<1> QED
  BY <1>2, <1>3, <1>4, <1>11, <1>12 DEF Owed, x, mh, be, he

\* Readers that have read more owe nothing more.
LEMMA OwedByReading ==
  ASSUME NEW f, NEW p, NEW q, NEW n \in Nat, NEW k \in Nat,
         NEW d \in [Judges -> JudgeStates], NEW e \in [Judges -> JudgeStates],
         NEW c \in Nat, NEW m \in Nat, NEW o \in Nat,
         Cardinality(Busy(d)) \in Nat, Cardinality(Busy(e)) \in Nat,
         \A r \in Judges \cup {Commentator} : p[r] \in 0 .. n /\ q[r] \in 0 .. n /\ p[r] <= q[r],
         Owed(f, k, p, n, d, c, m),
         o + Cardinality(Busy(e)) <= m + Cardinality(Busy(d))
  PROVE  Owed(f, k, q, n, e, c, o)
<1> DEFINE x == p[Commentator]
           y == q[Commentator]
           h == CountIn(f, Combat, x)
           i == CountIn(f, Combat, y)
           cl == CountIn(f, {"claim"}, n)
           co == CountIn(f, {"comment"}, n)
           bd == Cardinality(Busy(d))
           be == Cardinality(Busy(e))
           hd == Cardinality(Heard(f, p, n))
           he == Cardinality(Heard(f, q, n))
           mh == MaxReactions * h
           mi == MaxReactions * i
<1>1. x \in Nat /\ y \in Nat /\ x <= y
  OBVIOUS
<1>2. h \in Nat /\ i \in Nat /\ h <= i
  <2> HIDE DEF x, y
  <2> QED
    BY <1>1, CountFacts, CountMono
<1>3. cl \in Nat /\ co \in Nat
  BY CountFacts
<1>4. hd \in Nat /\ he \in Nat /\ hd <= he
  <2>1. n <= n /\ \A j \in 1 .. n : f[j] = f[j]
    OBVIOUS
  <2>2. \A j \in Judges : p[j] \in Nat /\ q[j] \in Nat /\ p[j] <= q[j]
    OBVIOUS
  <2>3. hd <= he
    BY <2>1, <2>2, HeardGrows
  <2> QED
    BY <2>3, HeardIsFinite
<1>5. mh \in Nat /\ mi \in Nat /\ mh <= mi
  <2> HIDE DEF h, i
  <2> QED
    BY <1>2, SpectatorsAssumption, Times
<1>6. cl + c <= k + 2 * h /\ co + m + bd <= mh + hd
  BY DEF Owed
<1>7. o + be <= m + bd /\ bd \in Nat /\ be \in Nat
  OBVIOUS
<1> HIDE DEF h, i, cl, co, bd, be, hd, he, mh, mi
<1>8. cl + c <= k + 2 * i
  BY <1>2, <1>3, <1>6
<1>9. co + o + be <= mi + he
  BY <1>3, <1>4, <1>5, <1>6, <1>7
<1> QED
  BY <1>8, <1>9 DEF Owed, i, mi, be, he, cl, co

\* The commentator reads a combat event and writes a script for it.
LEMMA OwedByHearing ==
  ASSUME NEW f, NEW p \in [Readers -> Nat], NEW n \in Nat, NEW k \in Nat,
         NEW d \in [Judges -> JudgeStates], NEW c \in 0 .. 2, NEW m \in 0 .. MaxReactions,
         Cardinality(Busy(d)) \in Nat, \A r \in Readers : p[r] <= n,
         f[p[Commentator] + 1] \in Combat,
         Owed(f, k, p, n, d, 0, 0)
  PROVE  Owed(f, k, [p EXCEPT ![Commentator] = p[Commentator] + 1], n, d, c, m)
<1> DEFINE x == p[Commentator]
           q == [p EXCEPT ![Commentator] = p[Commentator] + 1]
           h == CountIn(f, Combat, x)
           cl == CountIn(f, {"claim"}, n)
           co == CountIn(f, {"comment"}, n)
           bd == Cardinality(Busy(d))
           hd == Cardinality(Heard(f, p, n))
           he == Cardinality(Heard(f, q, n))
           mh == MaxReactions * h
           mi == MaxReactions * (h + 1)
<1>1. x \in Nat /\ q[Commentator] = x + 1 /\ MaxReactions \in Nat /\ m \in Nat /\ c \in Nat
      /\ m <= MaxReactions /\ c <= 2
  BY WhoReads, SpectatorsAssumption
<1>2. \A j \in Judges : p[j] \in Nat /\ q[j] \in Nat /\ p[j] <= q[j]
  <2>1. \A j \in Judges : j \in Readers /\ j # Commentator
    BY WhoReads, SpectatorsAssumption
  <2>2. \A j \in Judges : q[j] = p[j] /\ p[j] \in Nat
    BY <2>1
  <2> HIDE DEF q
  <2> QED
    BY <2>2
<1> HIDE DEF q, x
<1>3. h \in Nat /\ CountIn(f, Combat, q[Commentator]) = h + 1
  <2>1. CountIn(f, Combat, x + 1) = CountIn(f, Combat, x) + IF f[x + 1] \in Combat THEN 1 ELSE 0
    BY <1>1, CountFacts
  <2>2. f[x + 1] \in Combat
    BY DEF x
  <2> QED
    BY <1>1, <2>1, <2>2, CountFacts
<1>4. cl \in Nat /\ co \in Nat
  BY CountFacts
<1>5. hd \in Nat /\ he \in Nat /\ hd <= he
  <2>1. n <= n /\ \A j \in 1 .. n : f[j] = f[j]
    OBVIOUS
  <2>2. hd <= he
    BY <1>2, <2>1, HeardGrows
  <2> QED
    BY <2>2, HeardIsFinite
<1>6. mh \in Nat /\ mi = mh + MaxReactions
  <2> HIDE DEF h
  <2>1. h <= h
    BY <1>3
  <2> QED
    BY <1>1, <1>3, <2>1, Times
<1>7. cl + 0 <= k + 2 * h /\ co + 0 + bd <= mh + hd
  BY DEF Owed, x
<1>8. bd \in Nat
  OBVIOUS
<1>9. CountIn(f, Combat, q[Commentator]) = h + 1
  BY <1>3
<1> DEFINE top == h + 1
<1>10. mi = MaxReactions * top
  OBVIOUS
<1> HIDE DEF h, cl, co, bd, hd, he, mh, mi
<1>11. cl + c <= k + 2 * top
  BY <1>1, <1>3, <1>4, <1>7
<1>12. co + m + bd <= mi + he
  BY <1>1, <1>4, <1>5, <1>6, <1>7, <1>8
<1>13. CountIn(f, Combat, q[Commentator]) = top
  BY <1>9
<1> HIDE DEF top
<1>14. Owed(f, k, q, n, d, c, m)
  BY <1>10, <1>11, <1>12, <1>13 DEF Owed, cl, co, bd, he
<1> QED
  BY <1>14 DEF q

\* A judge reads what it answers.
LEMMA OwedByNoting ==
  ASSUME NEW f, NEW p \in [Readers -> Nat], NEW n \in Nat, NEW k \in Nat, NEW j \in Judges,
         NEW d \in [Judges -> JudgeStates], NEW e \in [Judges -> JudgeStates],
         NEW c \in Nat, NEW m \in Nat,
         Cardinality(Busy(d)) \in Nat, Cardinality(Busy(e)) = Cardinality(Busy(d)) + 1,
         p[j] + 1 \in 1 .. n, f[p[j] + 1] \in Noteworthy,
         Owed(f, k, p, n, d, c, m)
  PROVE  Owed(f, k, [p EXCEPT ![j] = p[j] + 1], n, e, c, m)
<1> DEFINE q == [p EXCEPT ![j] = p[j] + 1]
           h == CountIn(f, Combat, p[Commentator])
           cl == CountIn(f, {"claim"}, n)
           co == CountIn(f, {"comment"}, n)
           bd == Cardinality(Busy(d))
           be == Cardinality(Busy(e))
           hd == Cardinality(Heard(f, p, n))
           he == Cardinality(Heard(f, q, n))
           mh == MaxReactions * h
<1>1. q[Commentator] = p[Commentator] /\ p[Commentator] \in Nat
  BY WhoReads, SpectatorsAssumption
<1>2. he >= hd + 1
  BY HeardOneMore
<1> HIDE DEF q
<1>3. h \in Nat /\ cl \in Nat /\ co \in Nat /\ hd \in Nat /\ he \in Nat
  BY <1>1, CountFacts, HeardIsFinite
<1>4. mh \in Nat
  BY <1>3, SpectatorsAssumption
<1>5. cl + c <= k + 2 * h /\ co + m + bd <= mh + hd
  BY DEF Owed
<1>6. be = bd + 1 /\ bd \in Nat
  OBVIOUS
<1>7. h = CountIn(f, Combat, q[Commentator])
  BY <1>1
<1> HIDE DEF h, cl, co, bd, be, hd, he, mh
<1>8. co + m + be <= mh + he
  BY <1>2, <1>3, <1>4, <1>5, <1>6
<1>9. Owed(f, k, q, n, e, c, m)
  BY <1>5, <1>7, <1>8 DEF Owed, cl, co, be, he, mh
<1> QED
  BY <1>9 DEF q

-----------------------------------------------------------------------------
\* The steps of the talkers.
LEMMA Cursors ==
  ASSUME BusInv
  PROVE  /\ length \in Nat /\ pos \in [Readers -> Nat]
         /\ \A r \in Judges \cup {Commentator} : pos[r] \in 0 .. length
         /\ \A r \in Readers : pos[r] \in 0 .. length
<1>1. Judges \cup {Commentator} \subseteq Readers
  BY WhoReads
<1>2. length \in Nat /\ pos \in [Readers -> Nat] /\ end \in [Readers -> Nat]
  BY DEF BusInv
<1>3. \A r \in Readers : pos[r] \in 0 .. length
  BY <1>2 DEF BusInv
<1> QED
  BY <1>1, <1>2, <1>3

LEMMA BusyCount ==
  ASSUME NEW d
  PROVE  Cardinality(Busy(d)) \in Nat
<1>1. Busy(d) \subseteq Judges /\ IsFiniteSet(Judges)
  BY SpectatorsAssumption DEF Busy
<1> QED
  BY <1>1, FS_Subset, FS_CardinalityType

LEMMA TalkByPublishing ==
  ASSUME BusInv, ArenaInv, OpeningInv, NEW kind \in Kinds, Publish(kind),
         length = 0 => kind = "opening", length > 0 => kind # "opening",
         NEW b \in 0 .. 2, NEW m \in 0 .. MaxReactions,
         Owed(feed, fights, pos, length, judge, b, m),
         NEW c \in 0 .. 2, NEW o \in 0 .. MaxReactions, Script(script', c, o),
         fights' \in Nat, judge' \in [Judges -> JudgeStates],
         (IF kind = "claim" THEN 1 ELSE 0) + c + fights <= b + fights',
         (IF kind = "comment" THEN 1 ELSE 0) + o + Cardinality(Busy(judge')) <= m + Cardinality(Busy(judge))
  PROVE  BusInv' /\ OpeningInv' /\ ChatterInv'
<1>1. /\ length' = length + 1 /\ pos' = pos
      /\ \A i \in 1 .. length : feed'[i] = feed[i]
      /\ feed'[length + 1] = kind
      /\ BusInv'
  BY PublishFacts
<1>2. length \in Nat /\ \A r \in Judges \cup {Commentator} : pos[r] \in 0 .. length
  BY Cursors
<1>3. OpeningInv'
  <2>1. CASE length = 0
    <3>1. length' = 1 /\ feed'[1] = "opening"
      BY <1>1, <2>1
    <3> QED
      BY <3>1 DEF OpeningInv
  <2>2. CASE length > 0
    <3>1. feed'[1] = "opening"
      BY <1>1, <1>2, <2>2 DEF OpeningInv
    <3>2. \A i \in 2 .. length : feed'[i] # "opening"
      BY <1>1, <1>2 DEF OpeningInv
    <3>3. feed'[length + 1] # "opening"
      BY <1>1, <2>2
    <3>4. \A i \in 2 .. length + 1 : i \in 2 .. length \/ i = length + 1
      BY <1>2
    <3>5. \A i \in 2 .. length + 1 : feed'[i] # "opening"
      BY <3>2, <3>3, <3>4
    <3> QED
      BY <1>1, <3>1, <3>5 DEF OpeningInv
  <2> QED
    BY <1>2, <2>1, <2>2
<1>4. b \in Nat /\ c \in Nat /\ m \in Nat /\ o \in Nat /\ fights \in Nat
  BY SpectatorsAssumption DEF ArenaInv
<1>5. judge \in [Judges -> JudgeStates]
  BY DEF ArenaInv
<1>6. Cardinality(Busy(judge)) \in Nat /\ Cardinality(Busy(judge')) \in Nat
  BY BusyCount
<1>7. /\ (IF feed'[length + 1] = "claim" THEN 1 ELSE 0) + c + fights <= b + fights'
      /\ (IF feed'[length + 1] = "comment" THEN 1 ELSE 0) + o + Cardinality(Busy(judge'))
           <= m + Cardinality(Busy(judge))
  BY <1>1
<1>8. Owed(feed', fights', pos, length + 1, judge', c, o)
  BY <1>1, <1>2, <1>4, <1>5, <1>6, <1>7, OwedByPublishing
<1>9. Owed(feed', fights', pos', length', judge', c, o)
  BY <1>1, <1>8
<1>10. ChatterInv'
  BY <1>9 DEF ChatterInv
<1> QED
  BY <1>1, <1>3, <1>10

\* What leaves the feed, the script and the judges alone, and moves no cursor back.
LEMMA TalkElsewhere ==
  ASSUME BusInv, ArenaInv, OpeningInv, ChatterInv, BusInv',
         UNCHANGED <<feed, length, script, fights>>,
         judge' \in [Judges -> JudgeStates],
         Cardinality(Busy(judge')) <= Cardinality(Busy(judge)),
         \A r \in Judges \cup {Commentator} : pos'[r] \in 0 .. length /\ pos[r] <= pos'[r]
  PROVE  OpeningInv' /\ ChatterInv'
<1>1. OpeningInv'
  BY DEF OpeningInv
<1>2. PICK c \in 0 .. 2, m \in 0 .. MaxReactions :
        Script(script, c, m) /\ Owed(feed, fights, pos, length, judge, c, m)
  BY DEF ChatterInv
<1>3. length \in Nat /\ \A r \in Judges \cup {Commentator} : pos[r] \in 0 .. length
  BY Cursors
<1>4. c \in Nat /\ m \in Nat /\ fights \in Nat /\ judge \in [Judges -> JudgeStates]
  BY SpectatorsAssumption DEF ArenaInv
<1>5. Cardinality(Busy(judge)) \in Nat /\ Cardinality(Busy(judge')) \in Nat
  BY BusyCount
<1>6. m + Cardinality(Busy(judge')) <= m + Cardinality(Busy(judge))
  BY <1>4, <1>5
<1>7. \A r \in Judges \cup {Commentator} :
        pos[r] \in 0 .. length /\ pos'[r] \in 0 .. length /\ pos[r] <= pos'[r]
  BY <1>3
<1>8. Owed(feed, fights, pos', length, judge', c, m)
  BY <1>2, <1>3, <1>4, <1>5, <1>6, <1>7, OwedByReading
<1>9. Owed(feed', fights', pos', length', judge', c, m)
  BY <1>8
<1>10. ChatterInv'
  BY <1>2, <1>9 DEF ChatterInv
<1> QED
  BY <1>1, <1>10

\* The next event of the match: the opening first, and once.
Announces(kind) ==
  /\ stage \in 0 .. 4 /\ stage < 4 /\ Publish(kind) /\ stage' = stage + 1
  /\ UNCHANGED <<fights, unscored, script, judgeVars, pageVars>>
  /\ kind \in Kinds /\ (stage = 0 => kind = "opening")
  /\ (stage > 0 => kind # "opening") /\ kind # "claim" /\ kind # "comment"

LEMMA MatchAnnounces ==
  ASSUME ArenaInv, Advance \/ Abort
  PROVE  \E kind \in Kinds : Announces(kind)
<1>1. CASE Advance
  <2> DEFINE kind == Lifecycle[stage + 1]
  <2>1. /\ stage \in 0 .. 4 /\ stage < 4 /\ Publish(kind) /\ stage' = stage + 1
        /\ UNCHANGED <<fights, unscored, script, judgeVars, pageVars>>
    BY <1>1 DEF Advance, Lifecycle, ArenaInv
  <2>2. kind \in Kinds /\ (stage = 0 => kind = "opening")
        /\ (stage > 0 => kind # "opening") /\ kind # "claim" /\ kind # "comment"
    BY <2>1 DEF Lifecycle, Kinds
  <2> HIDE DEF kind
  <2>3. Announces(kind)
    BY <2>1, <2>2 DEF Announces
  <2> QED
    BY <2>2, <2>3
<1>2. CASE Abort
  <2>1. "aborted" \in Kinds
    BY DEF Kinds
  <2>2. Announces("aborted")
    BY <1>2, <2>1 DEF Abort, Announces
  <2> QED
    BY <2>1, <2>2
<1> QED
  BY <1>1, <1>2

LEMMA MatchTalks == ASSUME TalkInv, NEW kind \in Kinds, Announces(kind) PROVE TalkInv'
<1> USE DEF TalkInv
<1>1. /\ stage \in 0 .. 4 /\ stage < 4 /\ Publish(kind) /\ stage' = stage + 1
      /\ UNCHANGED <<fights, unscored, script, judgeVars, pageVars>>
  BY DEF Announces
<1>2. kind \in Kinds /\ (stage = 0 => kind = "opening")
      /\ (stage > 0 => kind # "opening") /\ kind # "claim" /\ kind # "comment"
  BY DEF Announces
<1>3. PICK c \in 0 .. 2, m \in 0 .. MaxReactions :
        Script(script, c, m) /\ Owed(feed, fights, pos, length, judge, c, m)
  BY DEF ChatterInv
<1>4. length \in Nat /\ (length = 0 => kind = "opening") /\ (length > 0 => kind # "opening")
  BY <1>1, <1>2, Cursors DEF ArenaInv
<1>5. Script(script', c, m) /\ fights' \in Nat /\ judge' \in [Judges -> JudgeStates]
  BY <1>1, <1>3, SpectatorsAssumption DEF ArenaInv, judgeVars
<1>6. /\ (IF kind = "claim" THEN 1 ELSE 0) + c + fights <= c + fights'
      /\ (IF kind = "comment" THEN 1 ELSE 0) + m + Cardinality(Busy(judge')) <= m + Cardinality(Busy(judge))
  <2>1. fights' = fights /\ judge' = judge /\ fights \in Nat /\ Cardinality(Busy(judge)) \in Nat
    BY <1>1, <1>5, BusyCount DEF judgeVars
  <2>2. m \in Nat
    BY SpectatorsAssumption
  <2> QED
    BY <1>2, <2>1, <2>2
<1>7. BusInv' /\ OpeningInv' /\ ChatterInv'
  BY <1>1, <1>2, <1>3, <1>4, <1>5, <1>6, TalkByPublishing
<1>8. ArenaInv'
  <2>1. stage' \in 0 .. Len(Lifecycle) /\ stage' # 0
    BY <1>1 DEF Lifecycle
  <2>2. length' # 0
    BY <1>1, <1>2, <1>4, PublishFacts
  <2> QED
    BY <1>1, <2>1, <2>2 DEF ArenaInv, judgeVars
<1> QED
  BY <1>7, <1>8

LEMMA FightTalks == ASSUME TalkInv, Fight PROVE TalkInv'
<1> USE DEF TalkInv
<1>1. PICK kind \in Fights \cup {"claim"} :
        /\ Publish(kind)
        /\ unscored' = unscored + IF kind \in {"verified", "failed", "patched"} THEN 1 ELSE 0
  BY DEF Fight
<1>2. /\ stage >= 3 /\ fights < MaxFights /\ fights' = fights + 1
      /\ UNCHANGED <<stage, script, judgeVars, pageVars>>
  BY DEF Fight
<1>3. kind \in Logged \cup {"claim"}
  BY SpectatorsAssumption
<1>4. kind \in Kinds /\ kind # "opening" /\ kind # "comment"
  BY <1>3 DEF Kinds, Logged, Combat
<1>5. PICK c \in 0 .. 2, m \in 0 .. MaxReactions :
        Script(script, c, m) /\ Owed(feed, fights, pos, length, judge, c, m)
  BY DEF ChatterInv
<1>6. length \in Nat /\ length # 0
  BY <1>2, Cursors DEF ArenaInv
<1>7. fights \in Nat /\ judge' = judge /\ judge \in [Judges -> JudgeStates] /\ unscored \in 0 .. fights
      /\ MaxFights \in Nat
  BY <1>2, SpectatorsAssumption DEF ArenaInv, judgeVars
<1>8. Script(script', c, m) /\ fights' \in Nat /\ judge' \in [Judges -> JudgeStates]
  BY <1>2, <1>5, <1>7
<1>9. /\ (IF kind = "claim" THEN 1 ELSE 0) + c + fights <= c + fights'
      /\ (IF kind = "comment" THEN 1 ELSE 0) + m + Cardinality(Busy(judge')) <= m + Cardinality(Busy(judge))
  <2>1. Cardinality(Busy(judge)) \in Nat /\ m \in Nat
    BY SpectatorsAssumption, BusyCount
  <2> QED
    BY <1>2, <1>4, <1>7, <2>1
<1>10. BusInv' /\ OpeningInv' /\ ChatterInv'
  BY <1>1, <1>4, <1>5, <1>6, <1>8, <1>9, TalkByPublishing
<1>11. ArenaInv'
  <2>1. fights' \in 0 .. MaxFights /\ unscored' \in 0 .. fights'
    BY <1>1, <1>2, <1>7
  <2>2. stage' = stage /\ stage # 0 /\ script' = script
    BY <1>2 DEF ArenaInv
  <2>3. length' # 0
    BY <1>6, <1>1, <1>4, PublishFacts
  <2> QED
    BY <1>7, <2>1, <2>2, <2>3 DEF ArenaInv
<1> QED
  BY <1>10, <1>11

LEMMA ScoreTalks == ASSUME TalkInv, ScoreUpdated PROVE TalkInv'
<1> USE DEF TalkInv
<1>1. /\ unscored > 0 /\ Publish("score") /\ unscored' = unscored - 1
      /\ UNCHANGED <<stage, fights, script, judgeVars, pageVars>>
  BY DEF ScoreUpdated
<1>2. "score" \in Kinds
  BY DEF Kinds
<1>3. PICK c \in 0 .. 2, m \in 0 .. MaxReactions :
        Script(script, c, m) /\ Owed(feed, fights, pos, length, judge, c, m)
  BY DEF ChatterInv
<1>4. /\ fights \in Nat /\ judge' = judge /\ judge \in [Judges -> JudgeStates]
      /\ unscored \in 0 .. fights /\ stage # 0 /\ length \in Nat
  BY <1>1, SpectatorsAssumption, Cursors DEF ArenaInv, judgeVars
<1>5. length # 0
  BY <1>4 DEF ArenaInv
<1>6. Script(script', c, m) /\ fights' \in Nat /\ judge' \in [Judges -> JudgeStates]
  BY <1>1, <1>3, <1>4
<1>7. /\ (IF "score" = "claim" THEN 1 ELSE 0) + c + fights <= c + fights'
      /\ (IF "score" = "comment" THEN 1 ELSE 0) + m + Cardinality(Busy(judge')) <= m + Cardinality(Busy(judge))
  <2>1. Cardinality(Busy(judge)) \in Nat /\ m \in Nat
    BY SpectatorsAssumption, BusyCount
  <2> QED
    BY <1>1, <1>4, <2>1
<1>8. BusInv' /\ OpeningInv' /\ ChatterInv'
  <2>1. (length = 0 => "score" = "opening") /\ (length > 0 => "score" # "opening")
    BY <1>5
  <2> QED
    BY <1>1, <1>2, <1>3, <1>6, <1>7, <2>1, TalkByPublishing
<1>9. ArenaInv'
  <2>1. unscored' \in 0 .. fights'
    BY <1>1, <1>4
  <2>2. length' # 0
    BY <1>1, <1>2, <1>4, PublishFacts
  <2> QED
    BY <1>1, <1>4, <2>1, <2>2 DEF ArenaInv
<1> QED
  BY <1>8, <1>9

\* Scripts.
LEMMA EmptyScript == ASSUME NEW c \in Nat, NEW m \in Nat, Script(<<>>, c, m) PROVE c = 0 /\ m = 0
<1>1. Len(<<>>) = 0
  OBVIOUS
<1>2. Len(<<>>) = c + m
  BY DEF Script
<1> QED
  BY <1>1, <1>2

LEMMA BubblesScript ==
  ASSUME NEW kind \in Combat, NEW s \in Bubbles(kind)
  PROVE  \E c \in 0 .. 2, m \in 0 .. MaxReactions : Script(s, c, m)
<1> DEFINE T == {"claim", "comment"}
<1>1. MaxReactions \in Nat
  BY SpectatorsAssumption
<1>2. PICK c \in 1 .. 2 : IF kind \in {"verified", "failed"} THEN c = 2 ELSE c = 1
  <2>1. 1 \in 1 .. 2 /\ 2 \in 1 .. 2
    OBVIOUS
  <2> QED
    BY <2>1
<1> DEFINE claims == IF kind \in {"verified", "failed"} THEN <<"claim", "claim">> ELSE <<"claim">>
           Comments(n) == [i \in 1 .. n |-> "comment"]
<1>3. claims \in Seq(T) /\ Len(claims) = c /\ \A i \in 1 .. c : claims[i] = "claim"
  <2>1. CASE kind \in {"verified", "failed"}
    <3>1. claims = <<"claim", "claim">> /\ c = 2
      BY <1>2, <2>1
    <3> HIDE DEF claims
    <3> QED
      BY <3>1
  <2>2. CASE kind \notin {"verified", "failed"}
    <3>1. claims = <<"claim">> /\ c = 1
      BY <1>2, <2>2
    <3> HIDE DEF claims
    <3> QED
      BY <3>1
  <2> QED
    BY <2>1, <2>2
<1>4. s \in IF kind = "probe" THEN {claims} ELSE {claims \o Comments(n) : n \in 1 .. MaxReactions}
  BY Zenon DEF Bubbles
<1>5. c \in 0 .. 2
  OBVIOUS
<1>6. CASE kind = "probe"
  <2>1. s = claims
    BY <1>4, <1>6
  <2>2. 0 \in 0 .. MaxReactions /\ c + 0 = c
    BY <1>1
  <2> HIDE DEF claims
  <2>3. Script(s, c, 0)
    BY <1>3, <2>1, <2>2 DEF Script
  <2> QED
    BY <1>5, <2>2, <2>3
<1>7. CASE kind # "probe"
  <2>1. PICK n \in 1 .. MaxReactions : s = claims \o Comments(n)
    BY <1>4, <1>7
  <2> DEFINE t == Comments(n)
  <2>2. t \in Seq(T) /\ Len(t) = n /\ \A i \in 1 .. n : t[i] = "comment"
    <3>1. n \in Nat
      BY <1>1
    <3>2. t \in [1 .. n -> T]
      OBVIOUS
    <3> QED
      BY <3>1, <3>2
  <2> HIDE DEF claims, t
  <2>3. s = claims \o t
    BY <2>1 DEF t
  <2>4. /\ s \in Seq(T) /\ Len(s) = Len(claims) + Len(t)
        /\ \A i \in 1 .. Len(claims) + Len(t) :
              s[i] = IF i <= Len(claims) THEN claims[i] ELSE t[i - Len(claims)]
    BY <1>3, <2>2, <2>3, ConcatProperties
  <2>5. ASSUME NEW i \in 1 .. c + n PROVE s[i] = IF i <= c THEN "claim" ELSE "comment"
    <3>0. n \in Nat /\ c \in Nat
      BY <1>1
    <3>1. CASE i <= c
      BY <1>3, <2>2, <2>4, <3>0, <3>1
    <3>2. CASE ~ (i <= c)
      <4>1. i - c \in 1 .. n
        BY <3>0, <3>2
      <4>2. s[i] = t[i - c]
        BY <1>3, <2>2, <2>4, <3>2
      <4> QED
        BY <2>2, <3>2, <4>1, <4>2
    <3> QED
      BY <3>1, <3>2
  <2>6. n \in 0 .. MaxReactions
    BY <1>1
  <2>7. Script(s, c, n)
    BY <1>3, <2>2, <2>4, <2>5 DEF Script
  <2> QED
    BY <1>5, <2>6, <2>7
<1> QED
  BY <1>6, <1>7

LEMMA ScriptGoesOn ==
  ASSUME NEW s, s # <<>>, NEW c \in 0 .. 2, NEW m \in 0 .. MaxReactions, Script(s, c, m)
  PROVE  \E b \in 0 .. 2, o \in 0 .. MaxReactions :
           /\ Script(Tail(s), b, o)
           /\ \/ Head(s) = "claim" /\ b = c - 1 /\ o = m
              \/ Head(s) = "comment" /\ b = c /\ o = m - 1
<1> DEFINE t == Tail(s)
<1>1. MaxReactions \in Nat /\ c \in Nat /\ m \in Nat
  BY SpectatorsAssumption
<1>2. s \in Seq({"claim", "comment"}) /\ Len(s) = c + m
      /\ \A i \in 1 .. c + m : s[i] = IF i <= c THEN "claim" ELSE "comment"
  BY DEF Script
<1>3. t \in Seq({"claim", "comment"}) /\ Len(t) = Len(s) - 1
      /\ \A i \in 1 .. Len(t) : t[i] = s[i + 1]
  BY <1>2, HeadTailProperties
<1>4. Len(s) > 0 /\ Head(s) = s[1]
  BY <1>2
<1> HIDE DEF t
<1>5. c + m > 0 /\ Len(t) = c + m - 1
  BY <1>1, <1>2, <1>3, <1>4
<1>6. \A i \in 1 .. c + m - 1 : t[i] = IF i + 1 <= c THEN "claim" ELSE "comment"
  <2>1. \A i \in 1 .. c + m - 1 : i + 1 \in 1 .. c + m
    BY <1>1
  <2>2. \A i \in 1 .. c + m - 1 : t[i] = s[i + 1]
    BY <1>3, <1>5
  <2> QED
    BY <1>2, <2>1, <2>2
<1>7. s[1] = IF 1 <= c THEN "claim" ELSE "comment"
  <2>1. 1 \in 1 .. c + m
    BY <1>1, <1>5
  <2> QED
    BY <1>2, <2>1
<1>8. CASE c > 0
  <2> DEFINE b == c - 1
  <2>1. b \in 0 .. 2 /\ b + m = c + m - 1 /\ \A i \in 1 .. c + m - 1 : i + 1 <= c <=> i <= b
    BY <1>1, <1>8
  <2> HIDE DEF b
  <2>2. \A i \in 1 .. b + m : t[i] = IF i <= b THEN "claim" ELSE "comment"
    BY <1>6, <2>1
  <2>3. Script(t, b, m)
    BY <1>3, <1>5, <2>1, <2>2 DEF Script
  <2>4. Head(s) = "claim"
    BY <1>1, <1>4, <1>7, <1>8
  <2> QED
    BY <2>1, <2>3, <2>4 DEF b, t
<1>9. CASE ~ (c > 0)
  <2> DEFINE o == m - 1
  <2>0. c = 0
    BY <1>1, <1>9
  <2>1. o \in 0 .. MaxReactions /\ c + o = c + m - 1
        /\ \A i \in 1 .. c + m - 1 : ~ (i + 1 <= c) /\ ~ (i <= c)
    BY <1>1, <1>5, <2>0
  <2> HIDE DEF o
  <2>2. \A i \in 1 .. c + o : t[i] = IF i <= c THEN "claim" ELSE "comment"
    BY <1>6, <2>1
  <2>3. Script(t, c, o)
    BY <1>3, <1>5, <2>1, <2>2 DEF Script
  <2>4. Head(s) = "comment"
    BY <1>4, <1>7, <2>0
  <2> QED
    BY <2>1, <2>3, <2>4 DEF o, t
<1> QED
  BY <1>8, <1>9

LEMMA CommentatorStartTalks == ASSUME TalkInv, CommentatorStarts PROVE TalkInv'
<1> USE DEF TalkInv
<1>1. Subscribe(Commentator) /\ UNCHANGED <<arenaVars, script, judgeVars, pageVars>>
  BY DEF CommentatorStarts
<1>2. Commentator \in Readers /\ MaxReplay \in Nat
  BY WhoReads, SpectatorsAssumption
<1>3. /\ UNCHANGED <<length, feed>> /\ pos[Commentator] = 0 /\ pos'[Commentator] \in 0 .. length
      /\ pos' = [pos EXCEPT ![Commentator] = pos'[Commentator]] /\ BusInv'
  BY <1>1, <1>2, JoinFacts
<1>4. /\ length \in Nat /\ pos \in [Readers -> Nat]
      /\ \A r \in Judges \cup {Commentator} : pos[r] \in 0 .. length /\ r \in Readers
  BY Cursors, WhoReads
<1> DEFINE x == pos'[Commentator]
<1>5. \A r \in Judges \cup {Commentator} : pos'[r] \in 0 .. length /\ pos[r] <= pos'[r]
  <2>1. \A r \in Readers : pos'[r] = IF r = Commentator THEN x ELSE pos[r]
    BY <1>3, <1>4
  <2>2. x \in 0 .. length
    BY <1>3
  <2> HIDE DEF x
  <2> QED
    BY <1>3, <1>4, <2>1, <2>2
<1>6. judge' = judge /\ judge \in [Judges -> JudgeStates] /\ UNCHANGED <<script, fights>>
  BY <1>1 DEF ArenaInv, judgeVars, arenaVars
<1>7. OpeningInv' /\ ChatterInv'
  <2>1. Cardinality(Busy(judge')) <= Cardinality(Busy(judge))
    BY <1>6, BusyCount
  <2> QED
    BY <1>3, <1>5, <1>6, <2>1, TalkElsewhere
<1>8. ArenaInv'
  BY <1>1, <1>3, <1>6 DEF ArenaInv, arenaVars
<1> QED
  BY <1>3, <1>7, <1>8

LEMMA HearsTalks == ASSUME TalkInv, CommentatorHears PROVE TalkInv'
<1> USE DEF TalkInv
<1> DEFINE kind == feed[pos[Commentator] + 1]
<1>1. /\ script = <<>> /\ Bus!Read(Commentator)
      /\ IF Scripted(kind) THEN script' \in Bubbles(kind) ELSE UNCHANGED script
      /\ UNCHANGED <<feed, arenaVars, judgeVars, pageVars>>
  BY DEF CommentatorHears
<1>2. Commentator \in Readers
  BY WhoReads
<1>3. /\ UNCHANGED length /\ pos[Commentator] \in Nat /\ pos[Commentator] + 1 \in 1 .. length
      /\ pos' = [pos EXCEPT ![Commentator] = pos[Commentator] + 1] /\ BusInv'
  BY <1>1, <1>2, ReadFacts
<1>4. length \in Nat /\ pos \in [Readers -> Nat] /\ \A r \in Readers : pos[r] \in 0 .. length
  BY Cursors
<1>5. judge' = judge /\ judge \in [Judges -> JudgeStates] /\ UNCHANGED fights /\ fights \in Nat
  BY <1>1, SpectatorsAssumption DEF ArenaInv, judgeVars, arenaVars
<1>6. length # 0 /\ stage # 0
  BY <1>3, <1>4 DEF ArenaInv
<1>7. ArenaInv'
  BY <1>1, <1>3, <1>5, <1>6 DEF ArenaInv, arenaVars
<1>8. CASE kind \in Combat
  <2>1. script' \in Bubbles(kind)
    BY <1>1, <1>8 DEF Scripted
  <2>2. PICK c \in 0 .. 2, m \in 0 .. MaxReactions : Script(script', c, m)
    BY <1>8, <2>1, BubblesScript
  <2>3. PICK b \in 0 .. 2, o \in 0 .. MaxReactions :
          Script(script, b, o) /\ Owed(feed, fights, pos, length, judge, b, o)
    BY DEF ChatterInv
  <2>4. b = 0 /\ o = 0
    <3>1. Script(<<>>, b, o)
      BY <1>1, <2>3
    <3>2. b \in Nat /\ o \in Nat
      BY SpectatorsAssumption
    <3> QED
      BY <3>1, <3>2, EmptyScript
  <2>5. Owed(feed, fights, pos, length, judge, 0, 0)
    BY <2>3, <2>4
  <2>6. Cardinality(Busy(judge)) \in Nat /\ \A r \in Readers : pos[r] <= length
    BY <1>4, BusyCount
  <2>7. feed[pos[Commentator] + 1] \in Combat
    BY <1>8
  <2>8. Owed(feed, fights, [pos EXCEPT ![Commentator] = pos[Commentator] + 1], length, judge, c, m)
    BY <1>4, <1>5, <2>5, <2>6, <2>7, OwedByHearing
  <2>9. feed' = feed
    BY <1>1
  <2>10. Owed(feed', fights', pos', length', judge', c, m)
    BY <1>3, <1>5, <2>8, <2>9
  <2>11. ChatterInv'
    BY <2>2, <2>10 DEF ChatterInv
  <2>12. OpeningInv'
    BY <1>3, <2>9 DEF OpeningInv
  <2> QED
    BY <1>3, <1>7, <2>11, <2>12
<1>9. CASE kind \notin Combat
  <2>1. UNCHANGED <<feed, length, script, fights>>
    BY <1>1, <1>3, <1>5, <1>9 DEF Scripted
  <2>2. \A r \in Judges \cup {Commentator} : pos'[r] \in 0 .. length /\ pos[r] <= pos'[r]
    <3> DEFINE x == pos[Commentator] + 1
    <3>1. x \in 0 .. length /\ pos[Commentator] <= x
      BY <1>3
    <3>2. \A r \in Readers : pos'[r] = IF r = Commentator THEN x ELSE pos[r]
      BY <1>3, <1>4
    <3>3. Judges \cup {Commentator} \subseteq Readers
      BY WhoReads
    <3> HIDE DEF x
    <3> QED
      BY <1>4, <3>1, <3>2, <3>3
  <2>3. Cardinality(Busy(judge')) <= Cardinality(Busy(judge))
    BY <1>5, BusyCount
  <2>4. OpeningInv' /\ ChatterInv'
    BY <1>3, <1>5, <2>1, <2>2, <2>3, TalkElsewhere
  <2> QED
    BY <1>3, <1>7, <2>4
<1> QED
  BY <1>8, <1>9

LEMMA SpeaksTalks == ASSUME TalkInv, CommentatorSpeaks PROVE TalkInv'
<1> USE DEF TalkInv
<1>1. /\ script # <<>> /\ Publish(Head(script)) /\ script' = Tail(script)
      /\ UNCHANGED <<arenaVars, judgeVars, pageVars>>
  BY DEF CommentatorSpeaks
<1>2. PICK c \in 0 .. 2, m \in 0 .. MaxReactions :
        Script(script, c, m) /\ Owed(feed, fights, pos, length, judge, c, m)
  BY DEF ChatterInv
<1>3. PICK b \in 0 .. 2, o \in 0 .. MaxReactions :
        /\ Script(Tail(script), b, o)
        /\ \/ Head(script) = "claim" /\ b = c - 1 /\ o = m
           \/ Head(script) = "comment" /\ b = c /\ o = m - 1
  BY <1>1, <1>2, ScriptGoesOn
<1> DEFINE kind == Head(script)
<1>4. kind \in Kinds /\ kind # "opening" /\ Publish(kind)
  BY <1>1, <1>3 DEF Kinds
<1>5. \/ kind = "claim" /\ b = c - 1 /\ o = m
      \/ kind = "comment" /\ b = c /\ o = m - 1
  BY <1>3
<1> HIDE DEF kind
<1>6. /\ judge' = judge /\ judge \in [Judges -> JudgeStates] /\ fights' = fights /\ fights \in Nat
      /\ stage # 0
  BY <1>1, SpectatorsAssumption DEF ArenaInv, judgeVars, arenaVars
<1>7. length \in Nat /\ length # 0
  BY <1>6, Cursors DEF ArenaInv
<1>8. Script(script', b, o) /\ fights' \in Nat /\ judge' \in [Judges -> JudgeStates]
  BY <1>1, <1>3, <1>6
<1>9. /\ (IF kind = "claim" THEN 1 ELSE 0) + b + fights <= c + fights'
      /\ (IF kind = "comment" THEN 1 ELSE 0) + o + Cardinality(Busy(judge')) <= m + Cardinality(Busy(judge))
  <2>1. Cardinality(Busy(judge)) \in Nat /\ m \in Nat /\ c \in Nat
    BY SpectatorsAssumption, BusyCount
  <2>2. CASE kind = "claim" /\ b = c - 1 /\ o = m
    BY <1>6, <2>1, <2>2
  <2>3. CASE kind = "comment" /\ b = c /\ o = m - 1
    BY <1>6, <2>1, <2>3
  <2> QED
    BY <1>5, <2>2, <2>3
<1>10. (length = 0 => kind = "opening") /\ (length > 0 => kind # "opening")
  BY <1>4, <1>7
<1>11. BusInv' /\ OpeningInv' /\ ChatterInv'
  BY <1>2, <1>4, <1>8, <1>9, <1>10, TalkByPublishing
<1>12. ArenaInv'
  <2>1. length' # 0
    BY <1>4, <1>7, PublishFacts
  <2> QED
    BY <1>1, <1>6, <2>1 DEF ArenaInv, arenaVars
<1> QED
  BY <1>11, <1>12

\* A step of a judge that publishes nothing and notes nothing.
LEMMA JudgeQuietly ==
  ASSUME TalkInv, NEW j \in Judges, NEW v \in JudgeStates \ Talking, BusInv',
         judge' = [judge EXCEPT ![j] = v],
         UNCHANGED <<feed, length, arenaVars, script>>,
         \A r \in Judges \cup {Commentator} : pos'[r] \in 0 .. length /\ pos[r] <= pos'[r]
  PROVE  TalkInv'
<1> USE DEF TalkInv
<1>1. judge \in [Judges -> JudgeStates]
  BY DEF ArenaInv
<1>2. judge' \in [Judges -> JudgeStates]
  BY <1>1
<1>3. v \in JudgeStates /\ v \notin Talking
  OBVIOUS
<1>4. Cardinality(Busy(judge')) <= Cardinality(Busy(judge))
  <2>1. Cardinality(Busy(judge)) \in Nat /\ Cardinality(Busy(judge')) \in Nat
    BY BusyCount
  <2>2. Cardinality(Busy([judge EXCEPT ![j] = v])) = Cardinality(Busy(judge)) - 1
        \/ Cardinality(Busy([judge EXCEPT ![j] = v])) = Cardinality(Busy(judge))
    BY <1>1, <1>3, BusyFacts
  <2>3. [judge EXCEPT ![j] = v] = judge'
    OBVIOUS
  <2> QED
    BY <2>1, <2>2, <2>3
<1>5. UNCHANGED <<feed, length, script, fights>>
  BY DEF arenaVars
<1>6. OpeningInv' /\ ChatterInv'
  BY <1>2, <1>4, <1>5, TalkElsewhere
<1>7. Busy(judge') \subseteq Busy(judge)
  <2>1. \A i \in Judges : judge'[i] = IF i = j THEN v ELSE judge[i]
    BY <1>1
  <2> QED
    BY <1>3, <2>1 DEF Busy
<1>8. ArenaInv'
  BY <1>2, <1>7 DEF ArenaInv, arenaVars
<1> QED
  BY <1>6, <1>8

LEMMA BusyMeansStarted ==
  ASSUME ArenaInv, NEW j \in Judges, judge[j] \in Talking
  PROVE  stage # 0 /\ length # 0
<1>1. j \in Busy(judge)
  BY DEF Busy
<1> QED
  BY <1>1 DEF ArenaInv

LEMMA CursorsStay ==
  ASSUME BusInv, UNCHANGED <<pos, length>>
  PROVE  \A r \in Judges \cup {Commentator} : pos'[r] \in 0 .. length /\ pos[r] <= pos'[r]
<1>1. \A r \in Judges \cup {Commentator} : pos[r] \in 0 .. length
  BY Cursors
<1>2. length \in Nat
  BY Cursors
<1> QED
  BY <1>1, <1>2

LEMMA StartsTalks == ASSUME TalkInv, NEW j \in Judges, JudgeStarts(j) PROVE TalkInv'
<1> USE DEF TalkInv
<1>1. /\ judge[j] = "off" /\ UNCHANGED <<arenaVars, script, resting, late, pageVars>>
      /\ \/ Subscribe(j) /\ judge' = [judge EXCEPT ![j] = "reading"]
         \/ judge' = [judge EXCEPT ![j] = "mute"] /\ UNCHANGED busVars
  BY DEF JudgeStarts
<1>2. "reading" \in JudgeStates \ Talking /\ "mute" \in JudgeStates \ Talking
  BY DEF JudgeStates, Talking
<1>3. CASE Subscribe(j) /\ judge' = [judge EXCEPT ![j] = "reading"]
  <2>1. j \in Readers /\ MaxReplay \in Nat /\ Judges \cup {Commentator} \subseteq Readers
    BY WhoReads, SpectatorsAssumption
  <2>2. /\ UNCHANGED <<length, feed>> /\ pos[j] = 0 /\ pos'[j] \in 0 .. length
        /\ pos' = [pos EXCEPT ![j] = pos'[j]] /\ BusInv'
    BY <1>3, <2>1, JoinFacts
  <2>3. /\ length \in Nat /\ pos \in [Readers -> Nat] /\ \A r \in Readers : pos[r] \in 0 .. length
    BY Cursors
  <2> DEFINE x == pos'[j]
  <2>4. \A r \in Readers : pos'[r] = IF r = j THEN x ELSE pos[r]
    BY <2>2, <2>3
  <2>5. x \in 0 .. length
    BY <2>2
  <2> HIDE DEF x
  <2>6. \A r \in Judges \cup {Commentator} : pos'[r] \in 0 .. length /\ pos[r] <= pos'[r]
    BY <2>1, <2>2, <2>3, <2>4, <2>5
  <2> QED
    BY <1>1, <1>2, <1>3, <2>2, <2>6, JudgeQuietly
<1>4. CASE judge' = [judge EXCEPT ![j] = "mute"] /\ UNCHANGED busVars
  <2>1. UNCHANGED <<pos, length, feed>> /\ BusInv'
    BY <1>4 DEF busVars, BusInv
  <2>2. \A r \in Judges \cup {Commentator} : pos'[r] \in 0 .. length /\ pos[r] <= pos'[r]
    BY <2>1, CursorsStay
  <2> QED
    BY <1>1, <1>2, <1>4, <2>1, <2>2, JudgeQuietly
<1> QED
  BY <1>1, <1>3, <1>4

LEMMA JudgeReadTalks == ASSUME TalkInv, NEW j \in Judges, JudgeReads(j) PROVE TalkInv'
<1> USE DEF TalkInv
<1> DEFINE kind == feed[pos[j] + 1]
           v == IF kind \in Noteworthy /\ ~resting[j] THEN "asking" ELSE "reading"
<1>1. /\ judge[j] = "reading" /\ Bus!Read(j) /\ judge' = [judge EXCEPT ![j] = v]
      /\ UNCHANGED <<feed, arenaVars, script, resting, late, pageVars>>
  BY DEF JudgeReads
<1>2. j \in Readers /\ Judges \cup {Commentator} \subseteq Readers
  BY WhoReads
<1>3. /\ UNCHANGED length /\ pos[j] \in Nat /\ pos[j] + 1 \in 1 .. length
      /\ pos' = [pos EXCEPT ![j] = pos[j] + 1] /\ BusInv'
  BY <1>1, <1>2, ReadFacts
<1>4. length \in Nat /\ pos \in [Readers -> Nat] /\ \A r \in Readers : pos[r] \in 0 .. length
  BY Cursors
<1>5. length # 0 /\ stage # 0
  BY <1>3, <1>4 DEF ArenaInv
<1>6. CASE v = "reading"
  <2>1. "reading" \in JudgeStates \ Talking
    BY DEF JudgeStates, Talking
  <2>2. \A r \in Judges \cup {Commentator} : pos'[r] \in 0 .. length /\ pos[r] <= pos'[r]
    <3> DEFINE x == pos[j] + 1
    <3>1. x \in 0 .. length /\ pos[j] <= x
      BY <1>3
    <3>2. \A r \in Readers : pos'[r] = IF r = j THEN x ELSE pos[r]
      BY <1>3, <1>4
    <3> HIDE DEF x
    <3> QED
      BY <1>2, <1>4, <3>1, <3>2
  <2>3. judge' = [judge EXCEPT ![j] = "reading"]
    BY <1>1, <1>6
  <2> HIDE DEF v
  <2> QED
    BY <1>1, <1>3, <2>1, <2>2, <2>3, JudgeQuietly
<1>7. CASE v # "reading"
  <2>1. v = "asking" /\ kind \in Noteworthy
    BY <1>7
  <2>2. judge' = [judge EXCEPT ![j] = "asking"] /\ feed[pos[j] + 1] \in Noteworthy
    BY <1>1, <2>1
  <2> HIDE DEF v, kind
  <2>3. "asking" \in JudgeStates /\ "asking" \in Talking /\ judge[j] \notin Talking
    BY <1>1 DEF JudgeStates, Talking
  <2>4. judge \in [Judges -> JudgeStates]
    BY DEF ArenaInv
  <2>5. judge' \in [Judges -> JudgeStates]
    BY <2>2, <2>3, <2>4
  <2>6. Cardinality(Busy([judge EXCEPT ![j] = "asking"])) = Cardinality(Busy(judge)) + 1
    BY <2>3, <2>4, BusyFacts
  <2>7. Cardinality(Busy(judge')) = Cardinality(Busy(judge)) + 1
    BY <2>2, <2>6
  <2>8. PICK c \in 0 .. 2, m \in 0 .. MaxReactions :
          Script(script, c, m) /\ Owed(feed, fights, pos, length, judge, c, m)
    BY DEF ChatterInv
  <2>9. c \in Nat /\ m \in Nat /\ fights \in Nat /\ Cardinality(Busy(judge)) \in Nat
    BY SpectatorsAssumption, BusyCount DEF ArenaInv
  <2>10. Owed(feed, fights, [pos EXCEPT ![j] = pos[j] + 1], length, judge', c, m)
    BY <1>3, <1>4, <2>2, <2>4, <2>5, <2>7, <2>8, <2>9, OwedByNoting
  <2>11. UNCHANGED <<feed, fights, script, stage, unscored>>
    BY <1>1 DEF arenaVars
  <2>12. Owed(feed', fights', pos', length', judge', c, m)
    BY <1>3, <2>10, <2>11
  <2>13. ChatterInv'
    BY <2>8, <2>11, <2>12 DEF ChatterInv
  <2>14. OpeningInv'
    BY <1>3, <2>11 DEF OpeningInv
  <2>15. ArenaInv'
    BY <1>3, <1>5, <2>5, <2>11 DEF ArenaInv
  <2> QED
    BY <1>3, <2>13, <2>14, <2>15
<1> QED
  BY <1>6, <1>7

LEMMA ReactsTalks == ASSUME TalkInv, NEW j \in Judges, JudgeReacts(j) PROVE TalkInv'
<1> USE DEF TalkInv
<1>1. /\ judge[j] = "asking" /\ UNCHANGED <<busVars, arenaVars, script, late, pageVars>>
      /\ \/ judge' = [judge EXCEPT ![j] = "posting"]
         \/ judge' = [judge EXCEPT ![j] = "reading"]
  BY DEF JudgeReacts
<1>2. BusInv' /\ UNCHANGED <<pos, length, feed>>
  BY <1>1 DEF BusInv, busVars
<1>3. \A r \in Judges \cup {Commentator} : pos'[r] \in 0 .. length /\ pos[r] <= pos'[r]
  BY <1>2, CursorsStay
<1>4. CASE judge' = [judge EXCEPT ![j] = "reading"]
  <2>1. "reading" \in JudgeStates \ Talking
    BY DEF JudgeStates, Talking
  <2> QED
    BY <1>1, <1>2, <1>3, <1>4, <2>1, JudgeQuietly
<1>5. CASE judge' = [judge EXCEPT ![j] = "posting"]
  <2>1. /\ "posting" \in JudgeStates /\ "posting" \in Talking /\ judge[j] \in Talking
        /\ judge \in [Judges -> JudgeStates]
    BY <1>1 DEF JudgeStates, Talking, ArenaInv
  <2>2. judge' \in [Judges -> JudgeStates]
    BY <1>5, <2>1
  <2>3. Cardinality(Busy([judge EXCEPT ![j] = "posting"])) = Cardinality(Busy(judge))
    BY <2>1, BusyFacts
  <2>4. Cardinality(Busy(judge')) <= Cardinality(Busy(judge))
    BY <1>5, <2>3, BusyCount
  <2>5. UNCHANGED <<feed, length, script, fights, stage, unscored>>
    BY <1>1, <1>2 DEF arenaVars
  <2>6. OpeningInv' /\ ChatterInv'
    BY <1>2, <1>3, <2>2, <2>4, <2>5, TalkElsewhere
  <2>7. stage # 0 /\ length # 0
    BY <2>1, BusyMeansStarted
  <2>8. ArenaInv'
    BY <2>2, <2>5, <2>7 DEF ArenaInv
  <2> QED
    BY <1>2, <2>6, <2>8
<1> QED
  BY <1>1, <1>4, <1>5

LEMMA PostsTalks == ASSUME TalkInv, NEW j \in Judges, JudgePosts(j) PROVE TalkInv'
<1> USE DEF TalkInv
<1>1. /\ judge[j] = "posting" /\ (Publish("comment") \/ UNCHANGED busVars)
      /\ judge' = [judge EXCEPT ![j] = "reading"]
      /\ UNCHANGED <<arenaVars, script, resting, late, pageVars>>
  BY DEF JudgePosts
<1>2. /\ "reading" \in JudgeStates \ Talking /\ judge[j] \in Talking
      /\ judge \in [Judges -> JudgeStates]
  BY <1>1 DEF JudgeStates, Talking, ArenaInv
<1>3. CASE UNCHANGED busVars
  <2>1. BusInv' /\ UNCHANGED <<pos, length, feed>>
    BY <1>3 DEF BusInv, busVars
  <2>2. \A r \in Judges \cup {Commentator} : pos'[r] \in 0 .. length /\ pos[r] <= pos'[r]
    BY <2>1, CursorsStay
  <2> QED
    BY <1>1, <1>2, <2>1, <2>2, JudgeQuietly
<1>4. CASE Publish("comment")
  <2>1. "comment" \in Kinds
    BY DEF Kinds
  <2>2. PICK c \in 0 .. 2, m \in 0 .. MaxReactions :
          Script(script, c, m) /\ Owed(feed, fights, pos, length, judge, c, m)
    BY DEF ChatterInv
  <2>3. stage # 0 /\ length # 0 /\ length \in Nat
    BY <1>2, BusyMeansStarted, Cursors
  <2>4. /\ judge' \in [Judges -> JudgeStates] /\ fights' = fights /\ fights \in Nat
        /\ UNCHANGED <<stage, unscored, script>>
    BY <1>1, <1>2, SpectatorsAssumption DEF ArenaInv, arenaVars
  <2>5. Cardinality(Busy([judge EXCEPT ![j] = "reading"])) = Cardinality(Busy(judge)) - 1
    BY <1>2, BusyFacts
  <2>6. Cardinality(Busy(judge')) = Cardinality(Busy(judge)) - 1 /\ Cardinality(Busy(judge)) \in Nat
    BY <1>1, <2>5, BusyCount
  <2>7. c \in Nat /\ m \in Nat
    BY SpectatorsAssumption
  <2>8. /\ (IF "comment" = "claim" THEN 1 ELSE 0) + c + fights <= c + fights'
        /\ (IF "comment" = "comment" THEN 1 ELSE 0) + m + Cardinality(Busy(judge'))
             <= m + Cardinality(Busy(judge))
    BY <2>4, <2>6, <2>7
  <2>9. (length = 0 => "comment" = "opening") /\ (length > 0 => "comment" # "opening")
    BY <2>3
  <2>10. Script(script', c, m) /\ fights' \in Nat
    BY <2>2, <2>4
  <2>11. BusInv' /\ OpeningInv' /\ ChatterInv'
    BY <1>4, <2>1, <2>2, <2>4, <2>8, <2>9, <2>10, TalkByPublishing
  <2>12. length' # 0
    BY <1>4, <2>1, <2>3, PublishFacts
  <2>13. ArenaInv'
    BY <2>3, <2>4, <2>12 DEF ArenaInv
  <2> QED
    BY <2>11, <2>13
<1> QED
  BY <1>1, <1>3, <1>4

LEMMA LeavesTalks ==
  ASSUME TalkInv, NEW j \in Judges, JudgeLeaves(j) \/ StreamFails(j) PROVE TalkInv'
<1> USE DEF TalkInv
<1>1. /\ judge' = [judge EXCEPT ![j] = "exited"] /\ Bus!Quit(j)
      /\ UNCHANGED <<feed, arenaVars, script, resting, late, pageVars>>
  BY DEF JudgeLeaves, StreamFails
<1>2. j \in Readers
  BY WhoReads
<1>3. UNCHANGED <<length, pos>> /\ BusInv'
  BY <1>1, <1>2, QuitFacts
<1>4. "exited" \in JudgeStates \ Talking
  BY DEF JudgeStates, Talking
<1>5. \A r \in Judges \cup {Commentator} : pos'[r] \in 0 .. length /\ pos[r] <= pos'[r]
  BY <1>3, CursorsStay
<1> QED
  BY <1>1, <1>3, <1>4, <1>5, JudgeQuietly

LEMMA MuteTalks == ASSUME TalkInv, NEW j \in Judges, MuteEnds(j) PROVE TalkInv'
<1> USE DEF TalkInv
<1>1. /\ judge' = [judge EXCEPT ![j] = "exited"]
      /\ UNCHANGED <<busVars, arenaVars, script, resting, late, pageVars>>
  BY DEF MuteEnds
<1>2. UNCHANGED <<length, pos, feed>> /\ BusInv'
  BY <1>1 DEF BusInv, busVars
<1>4. "exited" \in JudgeStates \ Talking
  BY DEF JudgeStates, Talking
<1>5. \A r \in Judges \cup {Commentator} : pos'[r] \in 0 .. length /\ pos[r] <= pos'[r]
  BY <1>2, CursorsStay
<1> QED
  BY <1>1, <1>2, <1>4, <1>5, JudgeQuietly

\* Time, and the steps of the page.
LEMMA TalkStays ==
  ASSUME TalkInv, BusInv', UNCHANGED <<feed, length, arenaVars, script, judge>>,
         \A r \in Judges \cup {Commentator} : pos'[r] = pos[r]
  PROVE  TalkInv'
<1> USE DEF TalkInv
<1>1. judge' \in [Judges -> JudgeStates]
  BY DEF ArenaInv
<1>2. Cardinality(Busy(judge')) <= Cardinality(Busy(judge))
  BY BusyCount
<1>3. UNCHANGED <<feed, length, script, fights, stage, unscored>>
  BY DEF arenaVars
<1>4. \A r \in Judges \cup {Commentator} : pos'[r] \in 0 .. length /\ pos[r] <= pos'[r]
  BY Cursors
<1>5. OpeningInv' /\ ChatterInv'
  BY <1>1, <1>2, <1>3, <1>4, TalkElsewhere
<1>6. ArenaInv'
  BY <1>1, <1>3 DEF ArenaInv
<1> QED
  BY <1>5, <1>6

-----------------------------------------------------------------------------
\* The steps of the page.
LEMMA StreamFacts ==
  ASSUME NEW i \in 1 .. Len(Connections)
  PROVE  /\ i \in DOMAIN Connections
         /\ Connections[i] \in Readers
         /\ Connections[i] \notin Judges \cup {Commentator}
<1>1. DOMAIN Connections = 1 .. Len(Connections) /\ Len(Connections) \in Nat
  BY SpectatorsAssumption
<1> QED
  BY <1>1, WhoReads, SpectatorsAssumption

LEMMA FrameTyped ==
  ASSUME NEW w \in Seq(Frames), NEW i \in 1 .. Len(w)
  PROVE  w[i] \in Frames /\ w[i].at \in Nat /\ w[i].score \in Nat
<1>1. w[i] \in Frames
  OBVIOUS
<1> QED
  BY <1>1 DEF Frames

\* What leaves feed, page and its stream alone.
LEMMA PagesStay ==
  ASSUME PagesInv, UNCHANGED <<feed, length, pageVars>>,
         \A i \in 1 .. Len(Connections) : pos'[Connections[i]] = pos[Connections[i]]
  PROVE  PagesInv'
<1> USE DEF PagesInv
<1>1. UNCHANGED <<link, online, wire, log, bugs, board>>
  BY DEF pageVars
<1>2. online => link \in 1 .. Len(Connections)
  BY SpectatorsAssumption DEF WireInv
<1>3. Stream' = Stream
  BY <1>1 DEF Stream
<1>4. online => pos'[Stream] = pos[Stream]
  BY <1>2 DEF Stream
<1>5. WireInv'
  BY <1>1, <1>3, <1>4 DEF WireInv
<1>6. BoardInv'
  BY <1>1 DEF BoardInv
<1>7. PageInv'
  BY <1>1, <1>3, <1>4 DEF PageInv
<1> QED
  BY <1>5, <1>6, <1>7

LEMMA PagesByPublishing ==
  ASSUME BusInv, PagesInv, NEW kind \in Kinds, Publish(kind), UNCHANGED pageVars
  PROVE  PagesInv'
<1> USE DEF PagesInv
<1>1. UNCHANGED <<link, online, wire, log, bugs, board>>
  BY DEF pageVars
<1>2. /\ length' = length + 1 /\ pos' = pos /\ \A i \in 1 .. length : feed'[i] = feed[i]
      /\ length \in Nat /\ pos \in [Readers -> Nat] /\ \A r \in Readers : pos[r] \in 0 .. length
  BY PublishFacts, Cursors
<1>3. Stream' = Stream
  BY <1>1 DEF Stream
<1>4. WireInv'
  <2>1. online => length' > 0
    BY <1>2
  <2>2. pos'[Stream'] = pos[Stream]
    BY <1>2, <1>3
  <2> QED
    BY <1>1, <1>3, <2>1, <2>2 DEF WireInv
<1>5. BoardInv'
  <2> DEFINE v == CountIn(feed, {"verified"}, length)
             w == CountIn(feed', {"verified"}, length + 1)
  <2>1. v \in Nat /\ w \in Nat /\ v <= w
    <3>1. CountIn(feed, {"verified"}, length) = CountIn(feed', {"verified"}, length)
      BY <1>2, CountSame
    <3>2. length + 1 \in Nat /\ length <= length + 1
      BY <1>2
    <3> QED
      BY <1>2, <3>1, <3>2, CountFacts, CountMono
  <2>2. w = CountIn(feed', {"verified"}, length')
    BY <1>2
  <2> HIDE DEF v, w
  <2>3. /\ board \in Int /\ board <= v
        /\ \A i \in 1 .. Len(wire) : board <= wire[i].score /\ wire[i].score <= v
        /\ \A i, j \in 1 .. Len(wire) : i <= j => wire[i].score <= wire[j].score
    BY DEF BoardInv, v
  <2>4. \A i \in 1 .. Len(wire) : wire[i].score \in Nat
    <3>1. wire \in Seq(Frames)
      BY DEF WireInv
    <3> QED
      BY <3>1, FrameTyped
  <2>5. board <= w /\ \A i \in 1 .. Len(wire) : wire[i].score <= w
    BY <2>1, <2>3, <2>4
  <2>6. /\ board \in Int /\ board <= w
        /\ \A i \in 1 .. Len(wire) : board <= wire[i].score /\ wire[i].score <= w
        /\ \A i, j \in 1 .. Len(wire) : i <= j => wire[i].score <= wire[j].score
    BY <2>3, <2>5
  <2> QED
    BY <1>1, <2>2, <2>6 DEF BoardInv
<1>6. PageInv'
  <2> SUFFICES ASSUME online, length + 1 <= MaxReplay, pos[Stream] - Len(wire) >= 1
               PROVE  /\ log = Last(LogKept, ListedIn(feed', pos[Stream] - Len(wire)))
                      /\ Len(bugs) = CountIn(feed', {"seeded"}, pos[Stream] - Len(wire))
    BY <1>1, <1>2, <1>3 DEF PageInv
  <2> DEFINE n == pos[Stream] - Len(wire)
  <2>1. link \in 1 .. Len(Connections) /\ Len(wire) \in Nat /\ Len(wire) <= pos[Stream]
    BY SpectatorsAssumption DEF WireInv
  <2>2. Stream \in Readers
    BY <2>1, StreamFacts DEF Stream
  <2>3. n \in Nat /\ n <= length
    BY <1>2, <2>1, <2>2
  <2>4. length <= MaxReplay
    BY <1>2, SpectatorsAssumption
  <2>5. log = Last(LogKept, ListedIn(feed, n)) /\ Len(bugs) = CountIn(feed, {"seeded"}, n)
    BY <2>4 DEF PageInv
  <2> HIDE DEF n
  <2>6. \A i \in 1 .. n : feed[i] = feed'[i]
    BY <1>2, <2>3
  <2>7. ListedIn(feed, n) = ListedIn(feed', n) /\ CountIn(feed, {"seeded"}, n) = CountIn(feed', {"seeded"}, n)
    BY <2>3, <2>6, ListedSame, CountSame
  <2>8. log = Last(LogKept, ListedIn(feed', n)) /\ Len(bugs) = CountIn(feed', {"seeded"}, n)
    BY <2>5, <2>7
  <2> QED
    BY <2>8 DEF n
<1> QED
  BY <1>4, <1>5, <1>6

\* Another reader goes on.
LEMMA PagesByOther ==
  ASSUME BusInv, PagesInv, NEW r \in Judges \cup {Commentator}, NEW x,
         pos' = [pos EXCEPT ![r] = x], UNCHANGED <<feed, length, pageVars>>
  PROVE  PagesInv'
<1>1. pos \in [Readers -> Nat]
  BY Cursors
<1>2. ASSUME NEW i \in 1 .. Len(Connections) PROVE pos'[Connections[i]] = pos[Connections[i]]
  <2>1. Connections[i] \in Readers /\ Connections[i] # r
    BY StreamFacts
  <2> QED
    BY <1>1, <2>1
<1> QED
  BY <1>2, PagesStay

LEMMA ConnectKeeps == ASSUME TalkInv, PagesInv, Connect PROVE TalkInv' /\ PagesInv'
<1> USE DEF PagesInv
<1> DEFINE r == Connections[link + 1]
<1>1. /\ ~online /\ link < Len(Connections) /\ stage > 0
      /\ link' = link + 1 /\ online' = TRUE /\ Subscribe(r)
      /\ UNCHANGED <<arenaVars, script, judgeVars, wire, log, bugs, board>>
  BY DEF Connect
<1>2. link \in Nat /\ link + 1 \in 1 .. Len(Connections) /\ MaxReplay \in Nat
  BY <1>1, SpectatorsAssumption DEF WireInv
<1>3. r \in Readers /\ r \notin Judges \cup {Commentator}
  BY <1>2, StreamFacts
<1>4. BusInv /\ ArenaInv
  BY DEF TalkInv
<1> HIDE DEF r
<1>5. /\ UNCHANGED <<length, feed>>
      /\ pos'[r] = IF length > MaxReplay THEN length - MaxReplay ELSE 0
      /\ pos'[r] \in 0 .. length /\ pos' = [pos EXCEPT ![r] = pos'[r]] /\ BusInv'
  BY <1>1, <1>2, <1>3, <1>4, JoinFacts
<1>6. TalkInv'
  <2> DEFINE x == pos'[r]
  <2>1. \A q \in Readers : q # r => pos'[q] = pos[q]
    BY <1>4, <1>5, Cursors
  <2>2. \A q \in Judges \cup {Commentator} : pos'[q] = pos[q]
    BY <1>3, <2>1, WhoReads
  <2>3. judge' = judge
    BY <1>1 DEF judgeVars
  <2> QED
    BY <1>1, <1>5, <2>2, <2>3, TalkStays
<1>7. Stream' = r /\ wire = <<>> /\ Len(wire) = 0 /\ length \in Nat /\ length > 0
  <2>1. wire = <<>>
    BY <1>1 DEF WireInv
  <2>2. Stream' = r
    BY <1>1 DEF Stream, r
  <2>3. length \in Nat /\ length # 0
    BY <1>1, <1>4, Cursors DEF ArenaInv
  <2> QED
    BY <2>1, <2>2, <2>3
<1>8. WireInv'
  <2>1. pos'[r] \in Nat /\ pos'[r] >= 0
    BY <1>5, <1>7
  <2>2. \A i \in 1 .. Len(wire') : wire'[i].at = pos'[Stream'] - Len(wire') + i
    BY <1>1, <1>7
  <2>3. Len(wire') <= pos'[Stream']
    BY <1>1, <1>7, <2>1
  <2>4. link' \in 0 .. Len(Connections) /\ online' \in BOOLEAN /\ online' /\ link' > 0 /\ length' > 0
    BY <1>1, <1>2, <1>5, <1>7
  <2>5. wire' \in Seq(Frames) /\ Len(wire') <= MaxWire /\ log' \in Seq(Nat) /\ Len(log') <= LogKept
        /\ bugs' \in Seq(Nat)
    BY <1>1 DEF WireInv
  <2> QED
    BY <2>2, <2>3, <2>4, <2>5 DEF WireInv
<1>9. BoardInv'
  BY <1>1, <1>5 DEF BoardInv
<1>10. PageInv'
  <2> SUFFICES ASSUME length <= MaxReplay, pos'[r] - Len(wire') >= 1 PROVE FALSE
    BY <1>5, <1>7 DEF PageInv
  <2>1. pos'[r] = 0 /\ Len(wire') = 0
    BY <1>1, <1>2, <1>5, <1>7
  <2> QED
    BY <2>1
<1> QED
  BY <1>6, <1>8, <1>9, <1>10

LEMMA SendKeeps == ASSUME TalkInv, PagesInv, SendFrame PROVE TalkInv' /\ PagesInv'
<1> USE DEF PagesInv
<1> DEFINE v == CountIn(feed, {"verified"}, length)
           frame == [at |-> pos[Stream] + 1, score |-> v]
<1>1. /\ online /\ Len(wire) < MaxWire /\ Bus!Read(Stream) /\ wire' = Append(wire, frame)
      /\ UNCHANGED <<feed, arenaVars, script, judgeVars, link, online, log, bugs, board>>
  BY DEF SendFrame, Score, Count, CountIn
<1>2. link \in 1 .. Len(Connections)
  BY <1>1, SpectatorsAssumption DEF WireInv
<1>3. Stream \in Readers /\ Stream \notin Judges \cup {Commentator}
  BY <1>2, StreamFacts DEF Stream
<1>4. BusInv
  BY DEF TalkInv
<1>5. /\ UNCHANGED length /\ pos[Stream] \in Nat /\ pos[Stream] + 1 \in 1 .. length
      /\ pos' = [pos EXCEPT ![Stream] = pos[Stream] + 1] /\ BusInv'
  BY <1>1, <1>3, <1>4, ReadFacts
<1>6. length \in Nat /\ pos \in [Readers -> Nat]
  BY <1>4, Cursors
<1>7. pos'[Stream] = pos[Stream] + 1 /\ Stream' = Stream
      /\ \A q \in Readers : q # Stream => pos'[q] = pos[q]
  BY <1>1, <1>3, <1>5, <1>6 DEF Stream
<1>8. TalkInv'
  <2>1. \A q \in Judges \cup {Commentator} : pos'[q] = pos[q]
    BY <1>3, <1>7, WhoReads
  <2>2. judge' = judge
    BY <1>1 DEF judgeVars
  <2> QED
    BY <1>1, <1>5, <2>1, <2>2, TalkStays
<1>9. v \in Nat
  BY <1>6, CountFacts
<1> HIDE DEF v
<1>10. frame \in Frames /\ frame.at = pos[Stream] + 1 /\ frame.score = v
  BY <1>5, <1>9 DEF Frames
<1> HIDE DEF frame
<1>11. wire \in Seq(Frames) /\ Len(wire) \in Nat /\ Len(wire) <= pos[Stream]
  BY <1>1 DEF WireInv
<1>12. /\ wire' \in Seq(Frames) /\ Len(wire') = Len(wire) + 1
       /\ \A i \in 1 .. Len(wire) : wire'[i] = wire[i]
       /\ wire'[Len(wire) + 1] = frame
  BY <1>1, <1>10, <1>11, AppendProperties
<1>13. \A i \in 1 .. Len(wire') : i \in 1 .. Len(wire) \/ i = Len(wire')
  BY <1>11, <1>12
<1>14. WireInv'
  <2>1. ASSUME NEW i \in 1 .. Len(wire') PROVE wire'[i].at = pos'[Stream] - Len(wire') + i
    <3>1. CASE i \in 1 .. Len(wire)
      <4>1. wire'[i].at = pos[Stream] - Len(wire) + i
        BY <1>1, <1>12, <3>1 DEF WireInv
      <4> QED
        BY <1>5, <1>7, <1>11, <1>12, <4>1
    <3>2. CASE i = Len(wire')
      <4>1. wire'[i].at = pos[Stream] + 1
        BY <1>10, <1>12, <3>2
      <4> QED
        BY <1>5, <1>7, <1>11, <1>12, <3>2, <4>1
    <3> QED
      BY <1>13, <3>1, <3>2
  <2>2. Len(wire') <= MaxWire /\ Len(wire') <= pos'[Stream]
    BY <1>1, <1>5, <1>7, <1>11, <1>12, SpectatorsAssumption
  <2>3. /\ link' \in 0 .. Len(Connections) /\ online' \in BOOLEAN /\ online' /\ link' > 0 /\ length' > 0
        /\ log' \in Seq(Nat) /\ Len(log') <= LogKept /\ bugs' \in Seq(Nat)
    BY <1>1, <1>5 DEF WireInv
  <2> QED
    BY <1>7, <1>12, <2>1, <2>2, <2>3 DEF WireInv
<1>15. BoardInv'
  <2>1. /\ board \in Int /\ board <= v
        /\ \A i \in 1 .. Len(wire) : board <= wire[i].score /\ wire[i].score <= v
        /\ \A i, j \in 1 .. Len(wire) : i <= j => wire[i].score <= wire[j].score
    BY DEF BoardInv, v
  <2>2. v = CountIn(feed', {"verified"}, length') /\ board' = board
    BY <1>1, <1>5 DEF v
  <2>3. ASSUME NEW i \in 1 .. Len(wire') PROVE board <= wire'[i].score /\ wire'[i].score <= v
    <3>1. CASE i \in 1 .. Len(wire)
      BY <1>12, <2>1, <3>1
    <3>2. CASE i = Len(wire')
      BY <1>9, <1>10, <1>12, <2>1, <3>2
    <3> QED
      BY <1>13, <3>1, <3>2
  <2>4. ASSUME NEW i \in 1 .. Len(wire'), NEW j \in 1 .. Len(wire'), i <= j
        PROVE  wire'[i].score <= wire'[j].score
    <3>1. CASE j \in 1 .. Len(wire)
      <4>1. i \in 1 .. Len(wire)
        BY <1>11, <2>4, <3>1
      <4> QED
        BY <1>12, <2>1, <2>4, <3>1, <4>1
    <3>2. CASE j = Len(wire')
      <4>1. wire'[j].score = v
        BY <1>10, <1>12, <3>2
      <4> QED
        BY <2>3, <4>1
    <3> QED
      BY <1>13, <3>1, <3>2
  <2> QED
    BY <2>1, <2>2, <2>3, <2>4 DEF BoardInv
<1>16. PageInv'
  <2>1. pos'[Stream'] - Len(wire') = pos[Stream] - Len(wire)
    BY <1>5, <1>7, <1>11, <1>12
  <2>2. UNCHANGED <<feed, length, online, log, bugs>>
    BY <1>1, <1>5
  <2> QED
    BY <2>1, <2>2 DEF PageInv
<1> QED
  BY <1>8, <1>14, <1>15, <1>16

LEMMA DisconnectKeeps == ASSUME TalkInv, PagesInv, Disconnect PROVE TalkInv' /\ PagesInv'
<1> USE DEF PagesInv
<1>1. /\ online /\ online' = FALSE /\ wire' = <<>> /\ Bus!Quit(Stream)
      /\ UNCHANGED <<feed, arenaVars, script, judgeVars, link, log, bugs, board>>
  BY DEF Disconnect
<1>2. link \in 1 .. Len(Connections)
  BY <1>1, SpectatorsAssumption DEF WireInv
<1>3. Stream \in Readers /\ BusInv
  BY <1>2, StreamFacts DEF Stream, TalkInv
<1>4. UNCHANGED <<length, pos>> /\ BusInv'
  BY <1>1, <1>3, QuitFacts
<1>5. TalkInv'
  <2>1. judge' = judge
    BY <1>1 DEF judgeVars
  <2> QED
    BY <1>1, <1>4, <2>1, TalkStays
<1>6. Len(wire') = 0 /\ wire' \in Seq(Frames)
  BY <1>1
<1>7. WireInv'
  <2>1. Len(wire') <= MaxWire
    BY <1>6, SpectatorsAssumption
  <2>2. /\ link' \in 0 .. Len(Connections) /\ online' = FALSE
        /\ log' \in Seq(Nat) /\ Len(log') <= LogKept /\ bugs' \in Seq(Nat)
    BY <1>1 DEF WireInv
  <2>3. wire' = <<>>
    BY <1>1
  <2> QED
    BY <1>6, <2>1, <2>2, <2>3 DEF WireInv
<1>8. BoardInv'
  <2>1. 1 .. Len(wire') = {}
    BY <1>6
  <2>2. board' \in Int /\ board' <= CountIn(feed', {"verified"}, length')
    BY <1>1, <1>4 DEF BoardInv
  <2> QED
    BY <2>1, <2>2 DEF BoardInv
<1>9. PageInv'
  BY <1>1 DEF PageInv
<1> QED
  BY <1>5, <1>7, <1>8, <1>9

LEMMA EntriesHere == ASSUME NEW i PROVE Entries(i) = EntriesIn(feed, i)
BY Zenon DEF Entries, EntriesIn

\* The scores of a page stay or grow, or are taken away by an aborted match.
Holds(new, old) == new >= old \/ (Aborted /\ new = -1)

LEMMA IngestKeeps ==
  ASSUME TalkInv, PagesInv, Ingest
  PROVE  TalkInv' /\ PagesInv' /\ Holds(board', board)
<1> USE DEF PagesInv
<1> DEFINE at == Head(wire).at
           kind == feed[at]
           score == Head(wire).score
           E == Entries(at)
           kept(list) == IF Resets(kind) THEN <<>> ELSE list
           seeded == IF kind = "seeded" THEN <<at>> ELSE <<>>
<1>1. /\ wire # <<>> /\ wire' = Tail(wire)
      /\ log' = Last(LogKept, kept(log) \o E)
      /\ bugs' = kept(bugs) \o seeded
      /\ board' = IF kind = "aborted" THEN -1
                  ELSE IF kind \in {"started", "finished"} \/ (kind = "score" /\ board >= 0)
                  THEN score ELSE board
      /\ UNCHANGED <<busVars, arenaVars, script, judgeVars, link, online>>
  BY DEF Ingest
<1>2. UNCHANGED <<length, pos, end, reader, feed>> /\ judge' = judge /\ Stream' = Stream
  BY <1>1 DEF busVars, judgeVars, Stream
<1>3. online
  BY <1>1 DEF WireInv
<1>4. BusInv /\ BusInv' /\ OpeningInv /\ length \in Nat
  BY <1>2, Cursors DEF TalkInv, BusInv
<1>5. TalkInv'
  BY <1>1, <1>2, <1>4, TalkStays
<1>6. wire \in Seq(Frames) /\ Len(wire) \in Nat /\ Len(wire) > 0
      /\ Head(wire) = wire[1] /\ 1 \in 1 .. Len(wire)
  <2>1. wire \in Seq(Frames)
    BY DEF WireInv
  <2>2. Len(wire) > 0 /\ Head(wire) = wire[1]
    BY <1>1, <2>1
  <2> QED
    BY <2>1, <2>2
<1>7. wire' \in Seq(Frames) /\ Len(wire') = Len(wire) - 1
      /\ \A i \in 1 .. Len(wire) - 1 : wire'[i] = wire[i + 1]
  BY <1>1, <1>6, HeadTailProperties
<1>8. at \in Nat /\ score \in Nat
  BY <1>6, FrameTyped
<1> DEFINE n == pos[Stream] - Len(wire)
<1>14. pos[Stream] \in Nat
  <2>1. link \in 1 .. Len(Connections)
    BY <1>3, SpectatorsAssumption DEF WireInv
  <2> QED
    BY <1>4, <2>1, StreamFacts, Cursors DEF Stream
<1>9. at = n + 1 /\ n \in Nat /\ n + 1 <= length
  <2>1. at = pos[Stream] - Len(wire) + 1 /\ Len(wire) <= pos[Stream]
    BY <1>3, <1>6 DEF WireInv
  <2>2. link \in 1 .. Len(Connections)
    BY <1>3, SpectatorsAssumption DEF WireInv
  <2>3. pos[Stream] \in 0 .. length
    BY <1>4, <2>2, StreamFacts, Cursors DEF Stream
  <2> QED
    BY <1>4, <1>6, <2>1, <2>3
<1>15. n = pos[Stream] - Len(wire)
  OBVIOUS
<1> HIDE DEF n
<1>10. kept(log) \in Seq(Nat) /\ E \in Seq(Nat) /\ kept(bugs) \in Seq(Nat) /\ seeded \in Seq(Nat)
       /\ Len(seeded) = IF kind = "seeded" THEN 1 ELSE 0
  <2>1. E \in Seq(Nat)
    BY <1>8, EntriesHere, EntriesTyped
  <2>2. <<>> \in Seq(Nat) /\ <<at>> \in Seq(Nat) /\ Len(<<at>>) = 1 /\ Len(<<>>) = 0
    BY <1>8
  <2>3. log \in Seq(Nat) /\ bugs \in Seq(Nat)
    BY DEF WireInv
  <2> HIDE DEF E
  <2> QED
    BY <2>1, <2>2, <2>3
<1>11. WireInv'
  <2>1. log' \in Seq(Nat) /\ Len(log') <= LogKept
    <3> DEFINE s == kept(log) \o E
    <3> HIDE DEF E
    <3>1. s \in Seq(Nat)
      BY <1>10, ConcatProperties
    <3>2. LogKept \in Nat
      BY SpectatorsAssumption
    <3>3. log' = Last(LogKept, s)
      BY <1>1
    <3> HIDE DEF s
    <3>4. Len(s) \in Nat
      BY <3>1
    <3> QED
      BY <3>1, <3>2, <3>3, <3>4, LastProperties
  <2>2. bugs' \in Seq(Nat)
    BY <1>1, <1>10, ConcatProperties
  <2>3. ASSUME NEW i \in 1 .. Len(wire') PROVE wire'[i].at = pos'[Stream'] - Len(wire') + i
    <3>1. i \in 1 .. Len(wire) - 1 /\ i + 1 \in 1 .. Len(wire)
      BY <1>6, <1>7
    <3>2. wire'[i] = wire[i + 1]
      BY <1>7, <3>1
    <3>3. wire[i + 1].at = pos[Stream] - Len(wire) + (i + 1)
      BY <1>3, <3>1 DEF WireInv
    <3>4. pos'[Stream'] - Len(wire') + i = pos[Stream] - Len(wire) + (i + 1)
      <4>1. pos'[Stream'] = pos[Stream] /\ Len(wire') = Len(wire) - 1 /\ Len(wire) \in Nat
        BY <1>2, <1>6, <1>7
      <4>2. i \in Int
        BY <1>6, <3>1
      <4> DEFINE p == pos[Stream]
                 l == Len(wire)
      <4>3. p \in Nat /\ l \in Nat
        BY <1>14, <4>1
      <4> HIDE DEF p, l
      <4>4. p - (l - 1) + i = p - l + (i + 1)
        BY <4>2, <4>3
      <4> QED
        BY <4>1, <4>4 DEF p, l
    <3> QED
      BY <3>2, <3>3, <3>4
  <2>4. Len(wire') <= MaxWire /\ Len(wire') <= pos'[Stream']
    <3>1. Len(wire) <= MaxWire /\ Len(wire) <= pos[Stream] /\ MaxWire \in Nat
      BY <1>3, SpectatorsAssumption DEF WireInv
    <3> QED
      BY <1>2, <1>6, <1>7, <1>14, <3>1
  <2>5. /\ link' \in 0 .. Len(Connections) /\ online' \in BOOLEAN /\ online' /\ link' > 0 /\ length' > 0
    BY <1>1, <1>2, <1>3 DEF WireInv
  <2> QED
    BY <1>7, <2>1, <2>2, <2>3, <2>4, <2>5 DEF WireInv
<1>12. BoardInv' /\ Holds(board', board)
  <2> DEFINE v == CountIn(feed, {"verified"}, length)
  <2>1. /\ board \in Int /\ board <= v
        /\ \A i \in 1 .. Len(wire) : board <= wire[i].score /\ wire[i].score <= v
        /\ \A i, j \in 1 .. Len(wire) : i <= j => wire[i].score <= wire[j].score
    BY DEF BoardInv
  <2>2. v \in Nat
    BY <1>4, CountFacts
  <2>3. v = CountIn(feed', {"verified"}, length')
    BY <1>2
  <2> HIDE DEF v
  <2>4. score = wire[1].score
    BY <1>6
  <2>5. board' = score \/ board' = board \/ (kind = "aborted" /\ board' = -1)
    BY <1>1
  <2>9. kind = "aborted" => Aborted
    <3>1. at \in DOMAIN feed
      BY <1>4, <1>9 DEF BusInv
    <3> QED
      BY <3>1 DEF Aborted
  <2> HIDE DEF kind
  <2> HIDE DEF score
  <2>6. board' \in Int /\ board' <= v /\ board' <= wire[1].score
    BY <1>6, <1>8, <2>1, <2>2, <2>4, <2>5
  <2>10. Holds(board', board)
    BY <1>6, <1>8, <2>1, <2>4, <2>5, <2>9 DEF Holds
  <2>7. ASSUME NEW i \in 1 .. Len(wire') PROVE board' <= wire'[i].score /\ wire'[i].score <= v
    <3>1. i \in 1 .. Len(wire) - 1 /\ i + 1 \in 1 .. Len(wire) /\ 1 <= i + 1
      BY <1>6, <1>7
    <3>2. wire'[i] = wire[i + 1] /\ wire[i + 1].score \in Nat /\ wire[1].score \in Nat
      BY <1>6, <1>7, <3>1, FrameTyped
    <3>3. wire[1].score <= wire[i + 1].score /\ wire[i + 1].score <= v
      BY <1>6, <2>1, <3>1
    <3> QED
      BY <2>6, <3>2, <3>3
  <2>8. ASSUME NEW i \in 1 .. Len(wire'), NEW j \in 1 .. Len(wire'), i <= j
        PROVE  wire'[i].score <= wire'[j].score
    <3>1. /\ i \in 1 .. Len(wire) - 1 /\ i + 1 \in 1 .. Len(wire)
          /\ j \in 1 .. Len(wire) - 1 /\ j + 1 \in 1 .. Len(wire) /\ i + 1 <= j + 1
      BY <1>6, <1>7, <2>8
    <3>2. wire'[i] = wire[i + 1] /\ wire'[j] = wire[j + 1]
      BY <1>7, <3>1
    <3> QED
      BY <2>1, <3>1, <3>2
  <2> QED
    BY <2>3, <2>6, <2>7, <2>8, <2>10 DEF BoardInv
<1>13. PageInv'
  <2> SUFFICES ASSUME length <= MaxReplay
               PROVE  /\ log' = Last(LogKept, ListedIn(feed, n + 1))
                      /\ Len(bugs') = CountIn(feed, {"seeded"}, n + 1)
    <3>1. pos'[Stream'] - Len(wire') = n + 1 /\ feed' = feed /\ length' = length
      BY <1>2, <1>6, <1>7, <1>14, <1>15
    <3> QED
      BY <3>1 DEF PageInv
  <2>1. /\ ListedIn(feed, 0) = <<>> /\ ListedIn(feed, n) \in Seq(Nat)
        /\ ListedIn(feed, n + 1) = ListedIn(feed, n) \o EntriesIn(feed, n + 1)
    BY <1>9, ListedNext
  <2>2. E = EntriesIn(feed, n + 1)
    BY <1>9, EntriesHere
  <2>3. /\ CountIn(feed, {"seeded"}, n) \in Nat /\ CountIn(feed, {"seeded"}, 0) = 0
        /\ CountIn(feed, {"seeded"}, n + 1) = CountIn(feed, {"seeded"}, n) + IF feed[n + 1] \in {"seeded"} THEN 1 ELSE 0
    BY <1>9, CountFacts
  <2>4. Len(bugs') = Len(kept(bugs)) + Len(seeded) /\ kind = feed[n + 1]
    BY <1>1, <1>9, <1>10, ConcatProperties
  <2>5. LogKept \in Nat
    BY SpectatorsAssumption
  <2>6. CASE n = 0
    <3>1. kind = "opening"
      BY <1>4, <1>9, <2>6 DEF OpeningInv
    <3>2. kept(log) = <<>> /\ kept(bugs) = <<>>
      BY <3>1 DEF Resets
    <3>3. log' = Last(LogKept, ListedIn(feed, 0) \o EntriesIn(feed, n + 1))
      BY <1>1, <2>1, <2>2, <3>2
    <3>4. log' = Last(LogKept, ListedIn(feed, n + 1))
      BY <2>1, <2>6, <3>3
    <3>5. Len(bugs') = 0
      BY <1>10, <2>4, <3>1, <3>2
    <3>6. CountIn(feed, {"seeded"}, n) = 0
      BY <2>3, <2>6
    <3>7. feed[n + 1] \notin {"seeded"}
      BY <2>4, <3>1
    <3>8. CountIn(feed, {"seeded"}, n + 1) = 0
      BY <2>3, <3>6, <3>7
    <3> QED
      BY <3>4, <3>5, <3>8
  <2>7. CASE n # 0
    <3>1. kind # "opening"
      BY <1>4, <1>9, <2>4, <2>7 DEF OpeningInv
    <3>2. kept(log) = log /\ kept(bugs) = bugs
      BY <3>1 DEF Resets
    <3>3. n >= 1
      BY <1>9, <2>7
    <3>4. log = Last(LogKept, ListedIn(feed, n)) /\ Len(bugs) = CountIn(feed, {"seeded"}, n)
      BY <1>3, <1>15, <3>3 DEF PageInv
    <3>5. log' = Last(LogKept, Last(LogKept, ListedIn(feed, n)) \o EntriesIn(feed, n + 1))
      BY <1>1, <2>2, <3>2, <3>4
    <3>6. EntriesIn(feed, n + 1) \in Seq(Nat)
      BY <1>10, <2>2
    <3>7. log' = Last(LogKept, ListedIn(feed, n + 1))
      BY <2>1, <2>5, <3>5, <3>6, LastOfLast
    <3>8. Len(bugs') = CountIn(feed, {"seeded"}, n) + IF kind = "seeded" THEN 1 ELSE 0
      BY <1>10, <2>4, <3>2, <3>4
    <3> QED
      BY <2>3, <2>4, <3>7, <3>8
  <2> QED
    BY <2>6, <2>7
<1> QED
  BY <1>5, <1>11, <1>12, <1>13

-----------------------------------------------------------------------------
\* Every step.
LEMMA SpectatorsStart == ASSUME Init PROVE SpectatorsInv
<1>1. /\ length = 0 /\ pos = [r \in Readers |-> 0] /\ end = [r \in Readers |-> 0]
      /\ reader = [r \in Readers |-> "absent"] /\ feed = <<>>
      /\ stage = 0 /\ fights = 0 /\ unscored = 0 /\ script = <<>>
      /\ judge = [j \in Judges |-> "off"]
      /\ link = 0 /\ online = FALSE /\ wire = <<>> /\ log = <<>> /\ bugs = <<>> /\ board = -1
  BY DEF Init, Bus!Init
<1>2. BusInv
  <2>1. feed \in Seq(Kinds) /\ Len(feed) = 0
    BY <1>1
  <2>2. \A r \in Readers : pos[r] = 0 /\ end[r] = 0
    BY <1>1
  <2>3. pos \in [Readers -> Nat] /\ end \in [Readers -> Nat]
        /\ reader \in [Readers -> {"absent", "attached", "cut", "gone"}]
    BY <1>1
  <2> QED
    BY <1>1, <2>1, <2>2, <2>3 DEF BusInv
<1>3. Busy(judge) = {}
  BY <1>1 DEF Busy, Talking
<1>4. ArenaInv
  <2>1. judge \in [Judges -> JudgeStates]
    BY <1>1 DEF JudgeStates
  <2>2. Len(Lifecycle) = 4 /\ MaxFights \in Nat
    BY SpectatorsAssumption DEF Lifecycle
  <2> QED
    BY <1>1, <1>3, <2>1, <2>2 DEF ArenaInv
<1>5. OpeningInv
  BY <1>1 DEF OpeningInv
<1>6. ChatterInv
  <2>1. Script(script, 0, 0)
    <3>1. script \in Seq({"claim", "comment"}) /\ Len(script) = 0 + 0
      BY <1>1
    <3>2. 1 .. 0 + 0 = {}
      OBVIOUS
    <3> QED
      BY <3>1, <3>2 DEF Script
  <2>2. /\ CountIn(feed, {"claim"}, 0) = 0 /\ CountIn(feed, {"comment"}, 0) = 0
        /\ CountIn(feed, Combat, pos[Commentator]) \in Nat
        /\ Cardinality(Heard(feed, pos, 0)) \in Nat
    <3>1. pos[Commentator] \in Nat
      BY <1>1, WhoReads
    <3> QED
      BY <3>1, CountFacts, HeardIsFinite
  <2>3. Cardinality(Busy(judge)) = 0
    BY <1>3, FS_EmptySet
  <2>4. MaxReactions * CountIn(feed, Combat, pos[Commentator]) \in Nat
    BY <2>2, SpectatorsAssumption
  <2>5. Owed(feed, 0, pos, 0, judge, 0, 0)
    BY <2>2, <2>3, <2>4 DEF Owed
  <2>6. 0 \in 0 .. 2 /\ 0 \in 0 .. MaxReactions
    BY SpectatorsAssumption
  <2>7. Owed(feed, fights, pos, length, judge, 0, 0)
    BY <1>1, <2>5
  <2> QED
    BY <2>1, <2>6, <2>7 DEF ChatterInv
<1>7. WireInv
  <2>1. wire \in Seq(Frames) /\ Len(wire) = 0 /\ log \in Seq(Nat) /\ Len(log) = 0 /\ bugs \in Seq(Nat)
    BY <1>1
  <2>2. 0 \in 0 .. Len(Connections)
    BY SpectatorsAssumption
  <2>3. 0 <= MaxWire /\ 0 <= LogKept
    BY SpectatorsAssumption
  <2> QED
    BY <1>1, <2>1, <2>2, <2>3 DEF WireInv
<1>8. BoardInv
  <2>1. 1 .. Len(wire) = {}
    BY <1>1
  <2>2. CountIn(feed, {"verified"}, length) = 0
    BY <1>1, CountFacts
  <2>3. board \in Int /\ board <= 0
    BY <1>1
  <2> QED
    BY <2>1, <2>2, <2>3 DEF BoardInv
<1>9. PageInv
  BY <1>1 DEF PageInv
<1> QED
  BY <1>2, <1>4, <1>5, <1>6, <1>7, <1>8, <1>9 DEF SpectatorsInv, TalkInv, PagesInv

\* A step of a judge does not touch the page.
LEMMA JudgeKeeps ==
  ASSUME SpectatorsInv, NEW j \in Judges,
         \/ JudgeStarts(j) \/ JudgeReads(j) \/ JudgeReacts(j) \/ JudgePosts(j)
         \/ JudgeLeaves(j) \/ StreamFails(j) \/ MuteEnds(j) \/ Rested(j) \/ Deadline(j)
  PROVE  SpectatorsInv'
<1> USE DEF SpectatorsInv
<1>1. BusInv /\ j \in Readers /\ MaxReplay \in Nat /\ j \in Judges \cup {Commentator}
  BY WhoReads, SpectatorsAssumption DEF TalkInv
<1>2. ASSUME UNCHANGED <<busVars, pageVars>> PROVE PagesInv'
  <2>1. UNCHANGED <<feed, length, pos>>
    BY <1>2 DEF busVars
  <2> QED
    BY <1>2, <2>1, PagesStay
<1>3. CASE JudgeStarts(j)
  <2>1. TalkInv'
    BY <1>3, StartsTalks
  <2>2. CASE Subscribe(j)
    <3>1. UNCHANGED <<length, feed>> /\ pos' = [pos EXCEPT ![j] = pos'[j]]
      BY <1>1, <2>2, JoinFacts
    <3>2. UNCHANGED pageVars
      BY <1>3 DEF JudgeStarts
    <3> QED
      BY <1>1, <2>1, <3>1, <3>2, PagesByOther
  <2>3. CASE UNCHANGED busVars
    BY <1>2, <1>3, <2>1, <2>3 DEF JudgeStarts
  <2> QED
    BY <1>3, <2>2, <2>3 DEF JudgeStarts
<1>4. CASE JudgeReads(j)
  <2>1. TalkInv'
    BY <1>4, JudgeReadTalks
  <2>2. Bus!Read(j) /\ UNCHANGED <<feed, pageVars>>
    BY <1>4 DEF JudgeReads
  <2>3. UNCHANGED length /\ pos' = [pos EXCEPT ![j] = pos[j] + 1]
    BY <1>1, <2>2, ReadFacts
  <2> QED
    BY <1>1, <2>1, <2>2, <2>3, PagesByOther
<1>5. CASE JudgeReacts(j)
  BY <1>2, <1>5, ReactsTalks DEF JudgeReacts
<1>6. CASE JudgePosts(j)
  <2>1. TalkInv'
    BY <1>6, PostsTalks
  <2>2. UNCHANGED pageVars /\ (Publish("comment") \/ UNCHANGED busVars)
    BY <1>6 DEF JudgePosts
  <2>3. "comment" \in Kinds
    BY DEF Kinds
  <2> QED
    BY <1>1, <1>2, <2>1, <2>2, <2>3, PagesByPublishing
<1>7. CASE JudgeLeaves(j) \/ StreamFails(j)
  <2>1. TalkInv'
    BY <1>7, LeavesTalks
  <2>2. Bus!Quit(j) /\ UNCHANGED <<feed, pageVars>>
    BY <1>7 DEF JudgeLeaves, StreamFails
  <2>3. UNCHANGED <<length, pos>>
    BY <1>1, <2>2, QuitFacts
  <2> QED
    BY <2>1, <2>2, <2>3, PagesStay
<1>8. CASE MuteEnds(j)
  BY <1>2, <1>8, MuteTalks DEF MuteEnds
<1>9. CASE Rested(j) \/ Deadline(j)
  <2>1. UNCHANGED <<busVars, arenaVars, script, judge, pageVars>>
    BY <1>9 DEF Rested, Deadline
  <2>2. UNCHANGED <<feed, length, pos>> /\ BusInv'
    BY <1>1, <2>1 DEF busVars, BusInv
  <2>3. TalkInv'
    BY <2>1, <2>2, TalkStays
  <2> QED
    BY <1>2, <2>1, <2>3
<1> QED
  BY <1>3, <1>4, <1>5, <1>6, <1>7, <1>8, <1>9

LEMMA SpectatorsStep == ASSUME SpectatorsInv, [Next]_vars PROVE SpectatorsInv'
<1> USE DEF SpectatorsInv
<1>0. BusInv
  BY DEF TalkInv
<1>1. CASE Advance \/ Abort
  <2>1. PICK kind \in Kinds : Announces(kind)
    BY <1>1, MatchAnnounces DEF TalkInv
  <2>2. TalkInv'
    BY <2>1, MatchTalks
  <2>3. Publish(kind) /\ UNCHANGED pageVars
    BY <2>1 DEF Announces
  <2> QED
    BY <1>0, <2>2, <2>3, PagesByPublishing
<1>2. CASE Fight
  <2>1. TalkInv'
    BY <1>2, FightTalks
  <2>2. PICK kind \in Fights \cup {"claim"} : Publish(kind)
    BY <1>2 DEF Fight
  <2>3. kind \in Kinds
    BY SpectatorsAssumption DEF Kinds
  <2>4. UNCHANGED pageVars
    BY <1>2 DEF Fight
  <2> QED
    BY <1>0, <2>1, <2>2, <2>3, <2>4, PagesByPublishing
<1>3. CASE ScoreUpdated
  <2>1. "score" \in Kinds
    BY DEF Kinds
  <2> QED
    BY <1>0, <1>3, <2>1, ScoreTalks, PagesByPublishing DEF ScoreUpdated
<1>4. CASE CommentatorStarts
  <2>1. TalkInv'
    BY <1>4, CommentatorStartTalks
  <2>2. Subscribe(Commentator) /\ UNCHANGED pageVars
    BY <1>4 DEF CommentatorStarts
  <2>3. Commentator \in Readers /\ MaxReplay \in Nat /\ Commentator \in Judges \cup {Commentator}
    BY WhoReads, SpectatorsAssumption
  <2>4. UNCHANGED <<length, feed>> /\ pos' = [pos EXCEPT ![Commentator] = pos'[Commentator]]
    BY <1>0, <2>2, <2>3, JoinFacts
  <2> QED
    BY <1>0, <2>1, <2>2, <2>3, <2>4, PagesByOther
<1>5. CASE CommentatorHears
  <2>1. TalkInv'
    BY <1>5, HearsTalks
  <2>2. Bus!Read(Commentator) /\ UNCHANGED <<feed, pageVars>>
    BY <1>5 DEF CommentatorHears
  <2>3. Commentator \in Readers /\ Commentator \in Judges \cup {Commentator}
    BY WhoReads
  <2>4. UNCHANGED length /\ pos' = [pos EXCEPT ![Commentator] = pos[Commentator] + 1]
    BY <1>0, <2>2, <2>3, ReadFacts
  <2> QED
    BY <1>0, <2>1, <2>2, <2>3, <2>4, PagesByOther
<1>6. CASE CommentatorSpeaks
  <2>1. TalkInv'
    BY <1>6, SpeaksTalks
  <2>2. Publish(Head(script)) /\ script # <<>> /\ UNCHANGED pageVars
    BY <1>6 DEF CommentatorSpeaks
  <2>3. Head(script) \in Kinds
    <3>1. script \in Seq({"claim", "comment"})
      BY DEF TalkInv, ChatterInv, Script
    <3>2. Head(script) \in {"claim", "comment"}
      BY <2>2, <3>1
    <3> QED
      BY <3>2 DEF Kinds
  <2> QED
    BY <1>0, <2>1, <2>2, <2>3, PagesByPublishing
<1>7. CASE Connect
  BY <1>7, ConnectKeeps
<1>8. CASE SendFrame
  BY <1>8, SendKeeps
<1>9. CASE Disconnect
  BY <1>9, DisconnectKeeps
<1>10. CASE Ingest
  BY <1>10, IngestKeeps
<1>11. CASE UNCHANGED vars
  <2>1. UNCHANGED <<busVars, arenaVars, script, judgeVars, pageVars>>
    BY <1>11 DEF vars
  <2>2. UNCHANGED <<feed, length, pos>> /\ BusInv' /\ judge' = judge
    BY <1>0, <2>1 DEF busVars, BusInv, judgeVars
  <2>3. TalkInv'
    BY <2>1, <2>2, TalkStays
  <2> QED
    BY <2>1, <2>2, <2>3, PagesStay
<1> QED
  BY <1>1, <1>2, <1>3, <1>4, <1>5, <1>6, <1>7, <1>8, <1>9, <1>10, <1>11, JudgeKeeps DEF Next

LEMMA SpectatorsAlways == Spec => []SpectatorsInv
<1>1. Init => SpectatorsInv
  BY SpectatorsStart
<1>2. SpectatorsInv /\ [Next]_vars => SpectatorsInv'
  BY SpectatorsStep
<1> QED
  BY <1>1, <1>2, PTL DEF Spec

LEMMA ChatterBound == ASSUME SpectatorsInv PROVE ChatterIsBounded
<1>1. BusInv /\ ArenaInv /\ ChatterInv
  BY DEF SpectatorsInv, TalkInv
<1>2. PICK c \in 0 .. 2, m \in 0 .. MaxReactions :
        Script(script, c, m) /\ Owed(feed, fights, pos, length, judge, c, m)
  BY <1>1 DEF ChatterInv
<1> DEFINE x == pos[Commentator]
           h == CountIn(feed, Combat, x)
           i == CountIn(feed, Combat, length)
           cl == CountIn(feed, {"claim"}, length)
           co == CountIn(feed, {"comment"}, length)
           bd == Cardinality(Busy(judge))
           hd == Cardinality(Heard(feed, pos, length))
           mh == MaxReactions * h
           mi == MaxReactions * i
           nw == Cardinality(Judges) * CountIn(feed, Noteworthy, length)
<1>3. x \in Nat /\ length \in Nat /\ x <= length
  BY <1>1, Cursors
<1>4. h \in Nat /\ i \in Nat /\ h <= i /\ cl \in Nat /\ co \in Nat
  <2> HIDE DEF x
  <2> QED
    BY <1>3, CountFacts, CountMono
<1>5. mh \in Nat /\ mi \in Nat /\ mh <= mi
  <2> HIDE DEF h, i
  <2> QED
    BY <1>4, SpectatorsAssumption, Times
<1>6. hd \in Nat /\ hd <= nw
  BY <1>3, HeardIsFinite
<1>7. nw \in Nat
  <2>1. Cardinality(Judges) \in Nat
    BY SpectatorsAssumption, FS_CardinalityType
  <2>2. CountIn(feed, Noteworthy, length) \in Nat
    BY <1>3, CountFacts
  <2> QED
    BY <2>1, <2>2
<1>8. cl + c <= fights + 2 * h /\ co + m + bd <= mh + hd
  BY <1>2 DEF Owed
<1>9. c \in Nat /\ m \in Nat /\ bd \in Nat /\ fights \in Nat
  BY <1>1, SpectatorsAssumption, BusyCount DEF ArenaInv
<1> HIDE DEF h, i, cl, co, bd, hd, mh, mi, nw
<1>10. cl <= fights + 2 * i
  BY <1>4, <1>8, <1>9
<1>11. co <= mi + nw
  BY <1>4, <1>5, <1>6, <1>7, <1>8, <1>9
<1> QED
  BY <1>10, <1>11 DEF ChatterIsBounded, Count, CountIn, cl, co, i, mi, nw

\* Every variable keeps its type, and the chatter about a match stays within what
\* happens in it, for any judges, connections and bounds, wherever the bus cuts a
\* reader off (commentary.py, 182-231; chorus/main.py, 57-221).
THEOREM SpectatorsTypes == Spec => []TypeOK
<1>1. ASSUME SpectatorsInv PROVE TypeOK
  <2>1. BusInv /\ ArenaInv /\ WireInv
    BY <1>1 DEF SpectatorsInv, TalkInv, PagesInv
  <2>2. \A j \in Judges : judge[j] \in {"off", "mute", "reading", "asking", "posting", "exited"}
    BY <2>1 DEF ArenaInv, JudgeStates
  <2>3. fights \in 0 .. MaxFights /\ unscored \in 0 .. MaxFights /\ stage \in 0 .. Len(Lifecycle)
    BY <2>1, SpectatorsAssumption DEF ArenaInv
  <2>4. Len(feed) = length
    BY <2>1 DEF BusInv
  <2>5. link \in 0 .. Len(Connections) /\ Len(wire) <= MaxWire /\ Len(log) <= LogKept
    BY <2>1 DEF WireInv
  <2> QED
    BY <1>1, <2>2, <2>3, <2>4, <2>5, ChatterBound DEF TypeOK
<1> QED
  BY <1>1, SpectatorsAlways, PTL

\* A page that has caught up on a connection that began with the opening shows
\* the match in full, for any number of connections and wherever they broke
\* (store.ts, 91-230; useEventStream.ts, 34-99).
THEOREM PagesAreComplete == Spec => []PageIsComplete
<1>1. ASSUME SpectatorsInv PROVE PageIsComplete
  <2> SUFFICES ASSUME online, wire = <<>>, pos[Stream] = length, length <= MaxReplay
               PROVE  log = Last(LogKept, Complete) /\ Len(bugs) = Count({"seeded"}, length)
    BY DEF PageIsComplete
  <2>1. BusInv /\ WireInv /\ PageInv
    BY <1>1 DEF SpectatorsInv, TalkInv, PagesInv
  <2>2. length \in Nat /\ length > 0 /\ Len(wire) = 0
    BY <2>1, Cursors DEF WireInv
  <2>3. pos[Stream] - Len(wire) = length /\ length >= 1
    BY <2>2
  <2>4. log = Last(LogKept, ListedIn(feed, length)) /\ Len(bugs) = CountIn(feed, {"seeded"}, length)
    BY <2>1, <2>3 DEF PageInv
  <2> QED
    BY <2>4, CompleteIsListed DEF Count, CountIn
<1> QED
  BY <1>1, SpectatorsAlways, PTL

\* The scores the page shows never go back, for any number of reconnections,
\* unless the match was aborted and they are gone (manager.py, 99-115, 322-333 and
\* 655-661; store.ts, 91-230).
THEOREM BoardsNeverDrop == Spec => BoardNeverDrops
<1>1. ASSUME SpectatorsInv, [Next]_vars
      PROVE  [board' >= board \/ (Aborted /\ board' = -1)]_board
  <2>1. CASE Ingest
    BY <1>1, <2>1, IngestKeeps DEF SpectatorsInv, Holds
  <2>2. CASE ~Ingest
    <3>1. board' = board
      BY <1>1, <2>2
         DEF Next, vars, pageVars, Advance, Abort, Fight, ScoreUpdated, CommentatorStarts, CommentatorHears,
             CommentatorSpeaks, JudgeStarts, JudgeReads, JudgeReacts, JudgePosts, JudgeLeaves,
             StreamFails, MuteEnds, Rested, Deadline, Connect, SendFrame, Disconnect
    <3> QED
      BY <3>1
  <2> QED
    BY <2>1, <2>2
<1> QED
  BY <1>1, SpectatorsAlways, PTL DEF Spec, BoardNeverDrops
=============================================================================
