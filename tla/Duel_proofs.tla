------------------------------ MODULE Duel_proofs ------------------------------
(***************************************************************************)
(* The target and its verdicts: every variable keeps its type, a wound of  *)
(* a module as it was seeded was served by the route of its bug, and the   *)
(* balances are what the audit log says.  The log is summed by a recursive *)
(* function; what it yields is found by induction over its domain, stated  *)
(* with sets of numbers in place of predicates.                            *)
(***************************************************************************)
EXTENDS Duel, TLAPS, WellFoundedInduction, FiniteSetTheorems

\* Induction, with a set in place of a predicate.
LEMMA LeastNumber ==
  ASSUME NEW T \in SUBSET Nat, T # {}
  PROVE  \E m \in T : \A n \in T : m <= n
<1> DEFINE R == OpToRel(<, Nat)
<1>1. IsWellFoundedOn(R, Nat)
  BY NatLessThanWellFounded
<1>2. \A x, y \in Nat : <<y, x>> \in R <=> y < x
  BY DEF OpToRel
<1> HIDE DEF R
<1>3. PICK x \in T : \A y \in T : ~ (<<y, x>> \in R)
  BY <1>1, WFMin
<1>4. ASSUME NEW n \in T PROVE x <= n
  <2>1. x \in Nat /\ n \in Nat
    OBVIOUS
  <2>2. ~ (n < x)
    BY <1>2, <1>3, <2>1
  <2> QED
    BY <2>1, <2>2
<1> QED
  BY <1>4

LEMMA Induct ==
  ASSUME NEW S, 0 \in S, \A n \in Nat : n \in S => n + 1 \in S
  PROVE  Nat \subseteq S
<1> SUFFICES ASSUME Nat \ S # {} PROVE FALSE
  OBVIOUS
<1>1. PICK m \in Nat \ S : \A n \in Nat \ S : m <= n
  BY LeastNumber
<1>2. m - 1 \in Nat /\ m - 1 \in S
  BY <1>1
<1> QED
  BY <1>1, <1>2

\* What an entry of the ledger gains or costs user u.
Gain(e, u) == (IF e.pay.to = u THEN e.pay.amount ELSE 0) - (IF e.pay.from = u THEN e.pay.amount ELSE 0)

\* Net, of any ledger.
NetOf(l, u) ==
  LET Sum[i \in 0 .. Len(l)] ==
        IF i = 0 THEN 0
        ELSE Sum[i - 1] + (IF l[i].pay.to = u THEN l[i].pay.amount ELSE 0)
                        - (IF l[i].pay.from = u THEN l[i].pay.amount ELSE 0)
  IN  Sum[Len(l)]

IsSum(f, d, n) == f = [i \in 0 .. n |-> IF i = 0 THEN 0 ELSE f[i - 1] + d[i]]

\* Running sums exist, and there is one.
LEMMA SumExists ==
  ASSUME NEW n \in Nat, NEW d \in [1 .. n -> Int]
  PROVE  \E f \in [0 .. n -> Int] : IsSum(f, d, n)
<1> DEFINE S == {m \in Nat : m <= n => \E f \in [0 .. m -> Int] : IsSum(f, d, m)}
<1>1. 0 \in S
  <2> DEFINE f == [i \in 0 .. 0 |-> 0]
  <2>1. f \in [0 .. 0 -> Int] /\ IsSum(f, d, 0)
    BY DEF IsSum
  <2> QED
    BY <2>1
<1>2. ASSUME NEW m \in Nat, m \in S PROVE m + 1 \in S
  <2> SUFFICES ASSUME m + 1 <= n PROVE \E f \in [0 .. m + 1 -> Int] : IsSum(f, d, m + 1)
    OBVIOUS
  <2>1. PICK f \in [0 .. m -> Int] : IsSum(f, d, m)
    BY <1>2
  <2> DEFINE g == [i \in 0 .. m + 1 |-> IF i = m + 1 THEN f[m] + d[m + 1] ELSE f[i]]
  <2>2. g \in [0 .. m + 1 -> Int]
    OBVIOUS
  <2>3. ASSUME NEW i \in 0 .. m + 1 PROVE g[i] = IF i = 0 THEN 0 ELSE g[i - 1] + d[i]
    <3>1. CASE i = m + 1
      BY <3>1
    <3>2. CASE i # m + 1
      <4>1. i \in 0 .. m
        BY <3>2
      <4> QED
        BY <4>1, <2>1 DEF IsSum
    <3> QED
      BY <3>1, <3>2
  <2> HIDE DEF g
  <2>4. IsSum(g, d, m + 1)
    BY <2>2, <2>3 DEF IsSum
  <2> QED
    BY <2>2, <2>4
<1> HIDE DEF S
<1>3. n \in S
  BY <1>1, <1>2, Induct
<1> QED
  BY <1>3 DEF S

LEMMA SumUnique ==
  ASSUME NEW n \in Nat, NEW d, NEW f, NEW g, IsSum(f, d, n), IsSum(g, d, n)
  PROVE  f[n] = g[n]
<1> DEFINE S == {m \in Nat : m <= n => f[m] = g[m]}
<1>1. 0 \in S
  BY DEF IsSum
<1>2. ASSUME NEW m \in Nat, m \in S PROVE m + 1 \in S
  BY <1>2 DEF IsSum
<1> HIDE DEF S
<1>3. Nat \subseteq S
  BY <1>1, <1>2, Induct
<1> QED
  BY <1>3 DEF S

\* The recursive function is the running sum of what the entries gain user u.
LEMMA NetIsSum ==
  ASSUME NEW l, Len(l) \in Nat, NEW u, \A i \in 1 .. Len(l) : l[i].pay.amount \in Int
  PROVE  \E f \in [0 .. Len(l) -> Int] :
            /\ IsSum(f, [i \in 1 .. Len(l) |-> Gain(l[i], u)], Len(l))
            /\ NetOf(l, u) = f[Len(l)]
<1> DEFINE n == Len(l)
           d == [i \in 1 .. n |-> Gain(l[i], u)]
           in(i) == IF l[i].pay.to = u THEN l[i].pay.amount ELSE 0
           out(i) == IF l[i].pay.from = u THEN l[i].pay.amount ELSE 0
           Q(f) == f = [i \in 0 .. n |-> IF i = 0 THEN 0 ELSE f[i - 1] + in(i) - out(i)]
           c == CHOOSE f : Q(f)
<1>1. /\ d \in [1 .. n -> Int]
      /\ \A i \in 1 .. n : d[i] = in(i) - out(i) /\ in(i) \in Int /\ out(i) \in Int
  BY DEF Gain
<1>2. NetOf(l, u) = c[n]
  BY DEF NetOf
<1> HIDE DEF d, in, out
<1>3. PICK h \in [0 .. n -> Int] : IsSum(h, d, n)
  BY <1>1, SumExists
<1>4. Q(h)
  <2>1. ASSUME NEW i \in 0 .. n PROVE h[i] = IF i = 0 THEN 0 ELSE h[i - 1] + in(i) - out(i)
    <3>1. CASE i = 0
      BY <1>3, <3>1 DEF IsSum
    <3>2. CASE i # 0
      <4>1. i \in 1 .. n /\ i - 1 \in 0 .. n
        BY <3>2
      <4>2. h[i] = h[i - 1] + d[i] /\ h[i - 1] \in Int
        BY <1>3, <4>1, <3>2 DEF IsSum
      <4>3. d[i] = in(i) - out(i) /\ in(i) \in Int /\ out(i) \in Int
        BY <1>1, <4>1
      <4> QED
        BY <3>2, <4>2, <4>3
    <3> QED
      BY <3>1, <3>2
  <2> QED
    BY <2>1
<1>5. Q(c)
  BY <1>4
<1> HIDE DEF c
<1> DEFINE S == {m \in Nat : m <= n => c[m] = h[m]}
<1>6. 0 \in S
  BY <1>4, <1>5
<1>7. ASSUME NEW m \in Nat, m \in S PROVE m + 1 \in S
  <2> SUFFICES ASSUME m + 1 <= n PROVE c[m + 1] = h[m + 1]
    OBVIOUS
  <2>1. c[m] = h[m] /\ m + 1 \in 0 .. n /\ m + 1 # 0 /\ m + 1 - 1 = m
    BY <1>7
  <2> QED
    BY <1>4, <1>5, <2>1
<1> HIDE DEF S
<1>8. Nat \subseteq S
  BY <1>6, <1>7, Induct
<1>9. c[n] = h[n]
  BY <1>8 DEF S
<1> QED
  BY <1>2, <1>3, <1>9 DEF d

\* One more entry adds what it gains.
LEMMA NetOfAppend ==
  ASSUME NEW E, NEW l \in Seq(E), NEW e \in E, NEW u, \A x \in E : x.pay.amount \in Int
  PROVE  NetOf(Append(l, e), u) = NetOf(l, u) + Gain(e, u)
<1> DEFINE n == Len(l)
           L == Append(l, e)
           D(s) == [i \in 1 .. Len(s) |-> Gain(s[i], u)]
<1>1. /\ L \in Seq(E) /\ Len(L) = n + 1 /\ n \in Nat /\ L[n + 1] = e
      /\ \A i \in 1 .. n : L[i] = l[i]
  OBVIOUS
<1> HIDE DEF L
<1>2. \A x \in E : Gain(x, u) \in Int
  BY DEF Gain
<1>3. /\ \A i \in 1 .. n : l[i] \in E
      /\ \A i \in 1 .. n + 1 : L[i] \in E
  BY <1>1
<1>4. PICK f \in [0 .. n -> Int] : IsSum(f, D(l), n) /\ NetOf(l, u) = f[n]
  BY <1>1, <1>3, NetIsSum
<1>5. PICK g \in [0 .. n + 1 -> Int] : IsSum(g, D(L), n + 1) /\ NetOf(L, u) = g[n + 1]
  <2>1. Len(L) \in Nat /\ \A i \in 1 .. Len(L) : L[i].pay.amount \in Int
    BY <1>1, <1>3
  <2>2. \E g \in [0 .. Len(L) -> Int] :
           IsSum(g, [i \in 1 .. Len(L) |-> Gain(L[i], u)], Len(L)) /\ NetOf(L, u) = g[Len(L)]
    BY <2>1, NetIsSum
  <2> QED
    BY <2>2, <1>1
<1>6. /\ D(l) \in [1 .. n -> Int] /\ D(L) \in [1 .. n + 1 -> Int]
      /\ \A i \in 1 .. n : D(l)[i] = D(L)[i]
      /\ D(L)[n + 1] = Gain(e, u)
  BY <1>1, <1>2, <1>3
<1> HIDE DEF D
<1>7. f[n] = g[n]
  <2> DEFINE h == [i \in 0 .. n |-> g[i]]
             d == D(l)
  <2>1. ASSUME NEW i \in 0 .. n PROVE h[i] = IF i = 0 THEN 0 ELSE h[i - 1] + d[i]
    <3>1. CASE i = 0
      BY <3>1, <1>5 DEF IsSum
    <3>2. CASE i # 0
      <4>1. /\ i \in 1 .. n /\ i \in 0 .. n + 1 /\ i - 1 \in 0 .. n
        BY <3>2, <1>1
      <4> QED
        BY <3>2, <4>1, <1>5, <1>6 DEF IsSum
    <3> QED
      BY <3>1, <3>2
  <2>2. IsSum(h, d, n)
    <3> HIDE DEF d
    <3> QED
      BY <2>1 DEF IsSum
  <2>3. h[n] = g[n] /\ n \in Nat /\ IsSum(f, d, n)
    BY <1>1, <1>4
  <2> HIDE DEF h, d
  <2> QED
    BY <2>2, <2>3, SumUnique
<1>8. g[n + 1] = g[n] + Gain(e, u)
  <2>1. n + 1 \in 0 .. n + 1 /\ n + 1 # 0 /\ n + 1 - 1 = n
    BY <1>1
  <2> QED
    BY <1>5, <1>6, <2>1 DEF IsSum
<1> QED
  BY <1>4, <1>5, <1>7, <1>8 DEF L

LEMMA NetOfNothing == ASSUME NEW u PROVE NetOf(<<>>, u) = 0
<1>1. Len(<<>>) = 0 /\ \A i \in 1 .. 0 : FALSE
  OBVIOUS
<1>2. PICK f \in [0 .. Len(<<>>) -> Int] :
         IsSum(f, [i \in 1 .. Len(<<>>) |-> Gain(<<>>[i], u)], Len(<<>>)) /\ NetOf(<<>>, u) = f[Len(<<>>)]
  BY <1>1, NetIsSum
<1> QED
  BY <1>1, <1>2 DEF IsSum

LEMMA NetIsNetOf == ASSUME NEW u PROVE Net(u) = NetOf(ledger, u)
  BY DEF Net, NetOf

-----------------------------------------------------------------------------
\* What a target is seeded with.
Logins == {auth_bypass_login_empty_password, sqli_login_concat}

\* What the proofs need of the templates.
LEMMA Fields ==
  /\ auth_bypass_login_empty_password.endpoint = "POST /auth/login"
  /\ auth_bypass_login_empty_password.witness = "response"
  /\ sqli_login_concat.endpoint = "POST /auth/login"
  /\ sqli_login_concat.witness = "response"
  /\ auth_bypass_admin_header.endpoint = "GET /users"
  /\ auth_bypass_admin_header.witness = "response"
  /\ idor_user_lookup.endpoint = "GET /users/{user_id}"
  /\ idor_user_lookup.witness = "session"
  /\ idor_invoice_owner_skip.endpoint = "GET /invoices/{invoice_id}"
  /\ idor_invoice_owner_skip.witness = "session"
  /\ sqli_user_search.endpoint = "GET /users/search"
  /\ sqli_user_search.witness = "response"
  /\ cmd_injection_ping.endpoint = "POST /diagnostics/ping"
  /\ cmd_injection_ping.witness = "response"
  /\ cmd_injection_archive.endpoint = "POST /export/archive"
  /\ cmd_injection_archive.witness = "response"
  /\ path_traversal_secrets.endpoint = "GET /files/{name}"
  /\ path_traversal_secrets.witness = "response"
  /\ broken_access_priv_export.endpoint = "GET /priv/keys"
  /\ broken_access_priv_export.witness = "session"
  /\ race_condition_transfer.endpoint = "POST /transfers"
  /\ race_condition_transfer.witness = "ledger"
  /\ sig_replay_transfer.endpoint = "POST /signed/transfer"
  /\ sig_replay_transfer.witness = "ledger"
BY DEF Template, auth_bypass_login_empty_password, sqli_login_concat, auth_bypass_admin_header,
   idor_user_lookup, idor_invoice_owner_skip, sqli_user_search, cmd_injection_ping,
   cmd_injection_archive, path_traversal_secrets, broken_access_priv_export,
   race_condition_transfer, sig_replay_transfer

\* Of two templates of the bank that have a route in common both are logins.
LEMMA Routes ==
  \A t, u \in AllTemplates : t.endpoint = u.endpoint => t = u \/ (t \in Logins /\ u \in Logins)
<1> SUFFICES ASSUME NEW t \in AllTemplates, NEW u \in AllTemplates, t.endpoint = u.endpoint, t # u
             PROVE  t.endpoint = "POST /auth/login"
  <2>1. \A v \in AllTemplates : v.endpoint = "POST /auth/login" => v \in Logins
    BY Fields DEF Logins, AllTemplates
  <2> QED
    BY <2>1
<1> QED
  BY Fields, ZenonT(60) DEF AllTemplates

LEMMA Witnesses == \A t \in AllTemplates : t.witness \in {"response", "session", "ledger"}
BY Fields DEF AllTemplates

LEMMA FiniteBank == IsFiniteSet(Bank)
<1>1. ASSUME NEW a, NEW b, NEW c, NEW d PROVE IsFiniteSet({a, b, c, d})
  <2>1. IsFiniteSet({a} \cup {b})
    BY FS_Singleton, FS_AddElement
  <2>2. IsFiniteSet({a} \cup {b} \cup {c})
    BY <2>1, FS_AddElement
  <2>3. IsFiniteSet({a} \cup {b} \cup {c} \cup {d})
    BY <2>2, FS_AddElement
  <2>4. {a, b, c, d} = {a} \cup {b} \cup {c} \cup {d}
    OBVIOUS
  <2> QED
    BY <2>3, <2>4
<1>2. AllTemplates =
        ({auth_bypass_login_empty_password, sqli_login_concat, auth_bypass_admin_header, idor_user_lookup}
         \cup {idor_invoice_owner_skip, sqli_user_search, cmd_injection_ping, cmd_injection_archive})
         \cup {path_traversal_secrets, broken_access_priv_export, race_condition_transfer, sig_replay_transfer}
  BY DEF AllTemplates
<1>3. IsFiniteSet(AllTemplates)
  BY <1>1, <1>2, FS_Union
<1> QED
  BY <1>3, BankAssumption, FS_Subset

\* The tiers add up, however the quarters are rounded.
LEMMA MixAddsUp ==
  ASSUME NEW n \in Nat
  PROVE  /\ Mix(n).easy \in Nat /\ Mix(n).medium \in Nat /\ Mix(n).hard \in Nat
         /\ Mix(n).easy + Mix(n).medium + Mix(n).hard = n
<1>1. ASSUME NEW a \in Nat PROVE Quarters(a) \in Nat /\ 4 * Quarters(a) <= a + 2
  <2>1. a \div 4 \in Nat /\ a % 4 \in 0 .. 3
    OBVIOUS
  <2>4. a - 4 * (a \div 4) = a % 4
    OBVIOUS
  <2> DEFINE q == a \div 4
             r == a % 4
  <2>2. q \in Nat /\ r \in 0 .. 3 /\ a - 4 * q = r
    BY <2>1, <2>4
  <2>3. Quarters(a) \in {q, q + 1} /\ (Quarters(a) = q + 1 => r >= 2)
    BY <2>1 DEF Quarters
  <2> HIDE DEF q, r
  <2> QED
    BY <2>2, <2>3
<1> DEFINE e == Quarters(2 * n)
           m == Quarters(n)
<1>2. e \in Nat /\ m \in Nat /\ 4 * e <= 2 * n + 2 /\ 4 * m <= n + 2
  BY <1>1
<1>3. e + m <= n
  <2>1. CASE n >= 4
    <3> HIDE DEF e, m
    <3> QED
      BY <1>2, <2>1
  <2>2. CASE n \in 0 .. 3
    BY <2>2 DEF Quarters
  <2> QED
    BY <2>1, <2>2
<1>4. Mix(n) = [easy |-> e, medium |-> m, hard |-> IF n > e + m THEN n - e - m ELSE 0]
  BY DEF Mix
<1> HIDE DEF e, m
<1> QED
  BY <1>2, <1>3, <1>4

LEMMA DrawsFacts ==
  ASSUME NEW S, IsFiniteSet(S), NEW k \in Nat, NEW D \in Draws(S, k)
  PROVE  /\ D \subseteq S /\ IsFiniteSet(D) /\ Cardinality(D) \in Nat /\ Cardinality(S) \in Nat
         /\ Cardinality(D) = IF k < Cardinality(S) THEN k ELSE Cardinality(S)
BY FS_Subset, FS_CardinalityType DEF Draws

LEMMA Disjoint ==
  ASSUME NEW A, IsFiniteSet(A), NEW B, IsFiniteSet(B), A \cap B = {}
  PROVE  IsFiniteSet(A \cup B) /\ Cardinality(A \cup B) = Cardinality(A) + Cardinality(B)
<1>1. Cardinality(A) \in Nat /\ Cardinality(B) \in Nat /\ Cardinality(A \cap B) = 0
  BY FS_CardinalityType, FS_EmptySet
<1>2. /\ IsFiniteSet(A \cup B)
      /\ Cardinality(A \cup B) = Cardinality(A) + Cardinality(B) - Cardinality(A \cap B)
  BY FS_Union
<1> QED
  BY <1>1, <1>2

\* The four rounds draw different templates: as many as were asked for, or all.
LEMMA DrawnFacts ==
  ASSUME NEW n \in Nat, NEW rounds \in Drawn(n)
  PROVE  LET all == UNION {rounds[i] : i \in DOMAIN rounds} IN
         /\ all \subseteq Bank /\ IsFiniteSet(all)
         /\ Cardinality(all) = IF n < Cardinality(Bank) THEN n ELSE Cardinality(Bank)
<1> DEFINE Rounds(e, m, h) ==
             {<<e, m, h, top>> : top \in Draws(Bank \ (e \cup m \cup h), n - Cardinality(e \cup m \cup h))}
           Hard(e, m) == UNION {Rounds(e, m, h) : h \in Draws(Tier("hard"), Mix(n).hard)}
           Medium(e) == UNION {Hard(e, m) : m \in Draws(Tier("medium"), Mix(n).medium)}
<1>1. PICK easy \in Draws(Tier("easy"), Mix(n).easy),
           medium \in Draws(Tier("medium"), Mix(n).medium),
           hard \in Draws(Tier("hard"), Mix(n).hard) : rounds \in Rounds(easy, medium, hard)
  <2>1. Drawn(n) = UNION {Medium(e) : e \in Draws(Tier("easy"), Mix(n).easy)}
    BY DEF Drawn
  <2> HIDE DEF Rounds
  <2>2. PICK e \in Draws(Tier("easy"), Mix(n).easy) : rounds \in Medium(e)
    <3> HIDE DEF Medium
    <3> QED
      BY <2>1
  <2>3. PICK m \in Draws(Tier("medium"), Mix(n).medium) : rounds \in Hard(e, m)
    <3> HIDE DEF Hard
    <3> QED
      BY <2>2
  <2> QED
    BY <2>3
<1>12. PICK top \in Draws(Bank \ (easy \cup medium \cup hard), n - Cardinality(easy \cup medium \cup hard)) :
             rounds = <<easy, medium, hard, top>>
  BY <1>1
<1> HIDE DEF Rounds, Hard, Medium
<1> DEFINE three == easy \cup medium \cup hard
           all == UNION {rounds[i] : i \in DOMAIN rounds}
<1>2. all = three \cup top
  <2>1. /\ DOMAIN rounds = {1, 2, 3, 4}
        /\ rounds[1] = easy /\ rounds[2] = medium /\ rounds[3] = hard /\ rounds[4] = top
    BY <1>12
  <2> QED
    BY <2>1
<1>3. /\ IsFiniteSet(Tier("easy")) /\ IsFiniteSet(Tier("medium")) /\ IsFiniteSet(Tier("hard"))
      /\ IsFiniteSet(Bank)
  <2>1. Tier("easy") \in SUBSET Bank /\ Tier("medium") \in SUBSET Bank /\ Tier("hard") \in SUBSET Bank
    BY DEF Tier
  <2> QED
    BY <2>1, FiniteBank, FS_Subset
<1>4. /\ easy \subseteq Tier("easy") /\ IsFiniteSet(easy)
      /\ Cardinality(easy) \in Nat /\ Cardinality(easy) <= Mix(n).easy
  BY <1>3, MixAddsUp, DrawsFacts
<1>5. /\ medium \subseteq Tier("medium") /\ IsFiniteSet(medium)
      /\ Cardinality(medium) \in Nat /\ Cardinality(medium) <= Mix(n).medium
  BY <1>3, MixAddsUp, DrawsFacts
<1>6. /\ hard \subseteq Tier("hard") /\ IsFiniteSet(hard)
      /\ Cardinality(hard) \in Nat /\ Cardinality(hard) <= Mix(n).hard
  BY <1>3, MixAddsUp, DrawsFacts
<1>7. /\ three \subseteq Bank /\ IsFiniteSet(three) /\ Cardinality(three) \in Nat
      /\ Cardinality(three) <= n
  <2>1. easy \cap medium = {} /\ (easy \cup medium) \cap hard = {}
    BY <1>4, <1>5, <1>6 DEF Tier
  <2>2. /\ IsFiniteSet(easy \cup medium)
        /\ Cardinality(easy \cup medium) = Cardinality(easy) + Cardinality(medium)
    BY <1>4, <1>5, <2>1, Disjoint
  <2>3. IsFiniteSet(three) /\ Cardinality(three) = Cardinality(easy \cup medium) + Cardinality(hard)
    BY <1>6, <2>1, <2>2, Disjoint
  <2>4. three \subseteq Bank
    BY <1>4, <1>5, <1>6 DEF Tier
  <2> QED
    BY <1>4, <1>5, <1>6, <2>2, <2>3, <2>4, MixAddsUp
<1> DEFINE rest == Bank \ three
           left == n - Cardinality(three)
<1>8. /\ IsFiniteSet(rest) /\ Cardinality(rest) \in Nat
      /\ Cardinality(Bank) = Cardinality(three) + Cardinality(rest)
  <2>1. IsFiniteSet(rest) /\ Cardinality(rest) \in Nat
    <3>1. rest \in SUBSET Bank
      OBVIOUS
    <3> HIDE DEF rest
    <3> QED
      BY <1>3, <3>1, FS_Subset, FS_CardinalityType
  <2>2. three \cap rest = {} /\ Bank = three \cup rest
    BY <1>7
  <2> HIDE DEF three, rest
  <2> QED
    BY <1>7, <2>1, <2>2, Disjoint
<1>9. /\ top \subseteq rest /\ IsFiniteSet(top)
      /\ Cardinality(top) = IF left < Cardinality(rest) THEN left ELSE Cardinality(rest)
  <2>1. left \in Nat
    BY <1>7
  <2>2. top \in Draws(rest, left)
    OBVIOUS
  <2> HIDE DEF left, rest
  <2> QED
    BY <1>8, <2>1, <2>2, DrawsFacts
<1>10. IsFiniteSet(all) /\ Cardinality(all) = Cardinality(three) + Cardinality(top) /\ all \subseteq Bank
  <2>1. three \cap top = {}
    BY <1>9
  <2> HIDE DEF three, all
  <2> QED
    BY <1>2, <1>7, <1>9, <2>1, Disjoint
<1> HIDE DEF three, rest, all
<1>11. Cardinality(all) = IF n < Cardinality(Bank) THEN n ELSE Cardinality(Bank)
  BY <1>7, <1>8, <1>9, <1>10
<1> QED
  BY <1>10, <1>11 DEF all

\* Dropping those whose route is taken costs one template at most.
LEMMA SampleFacts ==
  ASSUME Size \in Nat, NEW S \in Samples(Size)
  PROVE  /\ S \subseteq Bank
         /\ \A t, u \in S : t.endpoint = u.endpoint => t = u
         /\ Cardinality(S) \in {Wanted - 1, Wanted}
<1>1. PICK rounds \in Drawn(Size) : S \in Dedupe(rounds)
  BY DEF Samples
<1> DEFINE all == UNION {rounds[i] : i \in DOMAIN rounds}
<1>2. all \subseteq Bank /\ IsFiniteSet(all) /\ Cardinality(all) = Wanted
  BY DrawnFacts DEF Wanted
<1>3. /\ S \subseteq all
      /\ \A t \in all : \E u \in S : u.endpoint = t.endpoint /\ \A v \in S : v.endpoint = t.endpoint => v = u
  BY <1>1 DEF Dedupe
<1> HIDE DEF all
<1>4. \A x, y \in all \ S : x = y
  <2> SUFFICES ASSUME NEW x \in all \ S, NEW y \in all \ S PROVE x = y
    OBVIOUS
  <2>1. PICK u \in S : u.endpoint = x.endpoint
    BY <1>3
  <2>2. PICK v \in S : v.endpoint = y.endpoint
    BY <1>3
  <2>3. x \in Logins /\ y \in Logins /\ u \in Logins
    BY <1>2, <1>3, <2>1, <2>2, BankAssumption, Routes
  <2> QED
    BY <2>3 DEF Logins
<1>5. IsFiniteSet(S) /\ Cardinality(S) \in Nat
  BY <1>2, <1>3, FS_Subset, FS_CardinalityType
<1>6. Cardinality(S) \in {Wanted - 1, Wanted}
  <2>1. CASE all \ S = {}
    BY <1>2, <1>3, <1>5, <2>1
  <2>2. CASE all \ S # {}
    <3>1. PICK x \in all \ S : TRUE
      BY <2>2
    <3>2. all = S \cup {x} /\ x \notin S
      BY <1>3, <1>4, <3>1
    <3> QED
      BY <1>2, <1>5, <3>2, FS_AddElement
  <2> QED
    BY <2>1, <2>2
<1> QED
  BY <1>2, <1>3, <1>6

-----------------------------------------------------------------------------
\* The invariant.
\* The types of a request.
Payments == [from : Users \cup {"nobody"}, to : Users \cup {"nobody"},
             amount : Amounts \cup {0}, nonce : Nonces \cup {0}]

Entries == [kind : {Transfers, Signed}, pay : Payments]

Phases == {"free", "sent", "yielded", "answered"}
Asked == Endpoints \cup {Login}
Tokens == (Users \X Nat) \cup {NoToken}
Sets == SUBSET Bank
Statuses == {0, 200, 400, 599}

Calls == [pc : Phases, claim : BOOLEAN, endpoint : Asked, token : Tokens, asks : Sets, pay : Payments,
          read : Nat, status : Statuses, by : Sets, shows : Sets]

RouteOf(S, endpoint) == {t \in S : t.endpoint = endpoint}

\* What is known of a request to a target seeded with S.
CallOK(S, c) ==
  /\ c.by \subseteq S
  /\ c.status # 200 => c.by = {} /\ c.shows = {}
  /\ c.pc = "answered" /\ c.status = 200 => c.by = RouteOf(S, c.endpoint)
  /\ c.pc \in {"sent", "yielded"} => c.status = 0 /\ c.pay \in Pays(c.endpoint, c.token[1])
  /\ c.pc = "yielded" => /\ c.endpoint = Transfers /\ RouteOf(S, Transfers) # {}
                         /\ c.pay.from \in Users /\ c.read >= c.pay.amount

CallInv == call \in [Slots -> Calls] /\ \A s \in Slots : CallOK(seeded, call[s])

Seeding(S) ==
  /\ S \subseteq Bank
  /\ \A t, u \in S : t.endpoint = u.endpoint => t = u
  /\ Cardinality(S) \in {Wanted - 1, Wanted}

StateInv ==
  /\ Seeding(seeded) /\ boot \in 1 .. MaxBoots /\ sent \in 0 .. MaxRequests
  /\ sessions \subseteq Users \X {boot}
  /\ balances \in [Users -> Nat] /\ ledger \in Seq(Entries) /\ raced \subseteq Users

\* BooksBalance, with the sum named.
BooksInv == \A u \in Users \ raced : balances[u] = SeedBalance + NetOf(ledger, u)

EditInv ==
  /\ module \in [seeded -> {"intact", "edited", "broken"}]
  /\ served \in [seeded -> {"intact", "edited", "broken"}]
  /\ restarting \in BOOLEAN
  /\ \A w \in wounds : /\ w.bug \in seeded /\ w.judge \in {"intact", "edited"}
                       /\ w.judge = "intact" => w.by = {w.bug}

DuelInv == StateInv /\ CallInv /\ BooksInv /\ EditInv

\* Payments.
LEMMA PaysFacts ==
  ASSUME NEW endpoint, NEW user \in Users \cup {"nobody"}, NEW pay \in Pays(endpoint, user)
  PROVE  /\ pay \in Payments
         /\ endpoint \in {Transfers, Signed} => pay.to \in Users
         /\ endpoint = Signed => pay.from \in Users
         /\ endpoint = Transfers => pay.from = user
<1>1. CASE endpoint = Transfers
  BY <1>1 DEF Pays, Payments, Transfers, Signed
<1>2. CASE endpoint = Signed
  BY <1>2 DEF Pays, Payments, Transfers, Signed
<1>3. CASE endpoint \notin {Transfers, Signed}
  BY <1>3 DEF Pays, NoPay, Payments
<1> QED
  BY <1>1, <1>2, <1>3

LEMMA AmountsAreNat == ASSUME NEW pay \in Payments PROVE pay.amount \in Nat
<1>1. pay.amount \in Amounts \cup {0}
  BY DEF Payments
<1>2. Amounts \cup {0} \subseteq Nat
  BY TargetAssumption
<1> QED
  BY <1>1, <1>2

LEMMA LedgerIsSummed == ASSUME NEW l \in Seq(Entries), NEW u PROVE NetOf(l, u) \in Int
<1>1. Len(l) \in Nat /\ \A i \in 1 .. Len(l) : l[i] \in Entries
  OBVIOUS
<1>2. \A i \in 1 .. Len(l) : l[i].pay.amount \in Int
  <2>1. ASSUME NEW i \in 1 .. Len(l) PROVE l[i].pay.amount \in Nat
    <3>1. l[i].pay \in Payments
      BY <1>1 DEF Entries
    <3> QED
      BY <3>1, AmountsAreNat
  <2> QED
    BY <2>1
<1>3. PICK f \in [0 .. Len(l) -> Int] :
        /\ IsSum(f, [i \in 1 .. Len(l) |-> Gain(l[i], u)], Len(l))
        /\ NetOf(l, u) = f[Len(l)]
  BY <1>1, <1>2, NetIsSum
<1> QED
  BY <1>1, <1>3

LEMMA TokenUser == ASSUME NEW c \in Calls PROVE c.token[1] \in Users \cup {"nobody"}
<1>1. c.token \in Users \X Nat \/ c.token = NoToken
  BY DEF Calls, Tokens
<1>2. CASE c.token \in Users \X Nat
  BY <1>2
<1>3. CASE c.token = NoToken
  BY <1>3 DEF NoToken
<1> QED
  BY <1>1, <1>2, <1>3

LEMMA NoCallOK == ASSUME NEW S PROVE NoCall \in Calls /\ CallOK(S, NoCall)
<1>1. NoPay \in Payments
  BY DEF NoPay, Payments
<1> QED
  BY <1>1 DEF NoCall, Calls, CallOK, Phases, Asked, Tokens, Sets, Statuses

\* A request is put in a slot, or goes on.
LEMMA SetCall ==
  ASSUME CallInv, NEW s \in Slots, NEW c \in Calls, CallOK(seeded, c),
         call' = [call EXCEPT ![s] = c], seeded' = seeded
  PROVE  CallInv'
BY DEF CallInv

\* A response.
LEMMA AnsweredOK ==
  ASSUME NEW S \in SUBSET Bank, NEW c \in Calls, CallOK(S, c), c.status = 0,
         NEW status \in {200, 400, 599}, NEW by \in SUBSET S, NEW shows \in SUBSET Bank,
         status = 200 => by = RouteOf(S, c.endpoint),
         status # 200 => by = {} /\ shows = {}
  PROVE  Answered(c, status, by, shows) \in Calls /\ CallOK(S, Answered(c, status, by, shows))
<1> DEFINE d == [c EXCEPT !.pc = "answered", !.read = 0, !.status = status, !.by = by, !.shows = shows]
<1>1. CASE c.claim
  <2>1. Answered(c, status, by, shows) = d
    BY <1>1 DEF Answered
  <2>2. /\ d.pc = "answered" /\ d.status = status /\ d.by = by /\ d.shows = shows
        /\ d.endpoint = c.endpoint
    BY DEF Calls
  <2>3. d \in Calls
    <3>1. "answered" \in Phases /\ 0 \in Nat /\ status \in Statuses /\ by \in Sets /\ shows \in Sets
      BY DEF Phases, Statuses, Sets
    <3> QED
      BY <3>1 DEF Calls
  <2> HIDE DEF d
  <2> QED
    BY <2>1, <2>2, <2>3 DEF CallOK
<1>2. CASE ~c.claim
  BY <1>2, NoCallOK DEF Answered
<1> QED
  BY <1>1, <1>2

\* A transfer moves what its entry says, also from a user to the same one.
LEMMA MoveFacts ==
  ASSUME NEW funds \in [Users -> Nat], NEW pay, pay.from \in Users, pay.to \in Users, pay.amount \in Nat,
         funds[pay.from] >= pay.amount
  PROVE  /\ Move(funds, pay) \in [Users -> Nat]
         /\ \A u \in Users : \A kind : Move(funds, pay)[u] = funds[u] + Gain([kind |-> kind, pay |-> pay], u)
<1> DEFINE debited == [funds EXCEPT ![pay.from] = funds[pay.from] - pay.amount]
           moved == [debited EXCEPT ![pay.to] = debited[pay.to] + pay.amount]
<1>1. Move(funds, pay) = moved
  BY DEF Move
<1>2. debited \in [Users -> Nat]
  OBVIOUS
<1>3. \A u \in Users : debited[u] = IF u = pay.from THEN funds[u] - pay.amount ELSE funds[u]
  OBVIOUS
<1> HIDE DEF debited
<1>4. moved \in [Users -> Nat]
  BY <1>2
<1>5. \A u \in Users : moved[u] = IF u = pay.to THEN debited[u] + pay.amount ELSE debited[u]
  BY <1>2
<1> HIDE DEF moved
<1>6. ASSUME NEW u \in Users, NEW kind
      PROVE  moved[u] = funds[u] + Gain([kind |-> kind, pay |-> pay], u)
  <2>1. Gain([kind |-> kind, pay |-> pay], u)
          = (IF pay.to = u THEN pay.amount ELSE 0) - (IF pay.from = u THEN pay.amount ELSE 0)
    BY DEF Gain
  <2> QED
    BY <1>3, <1>5, <2>1
<1> QED
  BY <1>1, <1>4, <1>6

-----------------------------------------------------------------------------
\* The steps of the target.
TargetInv == StateInv /\ CallInv /\ BooksInv

LEMMA SendStep ==
  ASSUME TargetInv, NEW s \in Slots, Send(s) PROVE TargetInv'
<1>1. PICK claim \in BOOLEAN, endpoint \in Endpoints,
           token \in sessions \cup (Users \X (1 .. boot - 1)) \cup {NoToken} :
        \E asks \in SUBSET {t \in Bank : t.endpoint = endpoint /\ t.asks}, pay \in Pays(endpoint, token[1]) :
          call' = [call EXCEPT ![s] = [NoCall EXCEPT !.pc = "sent", !.claim = claim,
                     !.endpoint = endpoint, !.token = token, !.asks = asks, !.pay = pay]]
  BY DEF Send
<1>2. PICK asks \in SUBSET {t \in Bank : t.endpoint = endpoint /\ t.asks}, pay \in Pays(endpoint, token[1]) :
        call' = [call EXCEPT ![s] = [NoCall EXCEPT !.pc = "sent", !.claim = claim,
                   !.endpoint = endpoint, !.token = token, !.asks = asks, !.pay = pay]]
  BY <1>1
<1> DEFINE c == [NoCall EXCEPT !.pc = "sent", !.claim = claim,
                   !.endpoint = endpoint, !.token = token, !.asks = asks, !.pay = pay]
<1>3. token \in Tokens /\ token[1] \in Users \cup {"nobody"}
  <2>1. CASE token \in sessions
    <3>1. token \in Users \X {boot} /\ boot \in Nat
      BY <2>1 DEF TargetInv, StateInv
    <3> QED
      BY <3>1 DEF Tokens
  <2>2. CASE token \in Users \X (1 .. boot - 1)
    BY <2>2 DEF Tokens
  <2>3. CASE token = NoToken
    BY <2>3 DEF Tokens, NoToken
  <2> QED
    BY <2>1, <2>2, <2>3
<1>4. pay \in Payments /\ asks \in Sets /\ endpoint \in Asked /\ "sent" \in Phases /\ claim \in BOOLEAN
  BY <1>3, PaysFacts DEF Sets, Asked, Phases
<1>5. NoCall \in Calls
  BY NoCallOK
<1>6. /\ c.pc = "sent" /\ c.status = 0 /\ c.by = {} /\ c.shows = {}
      /\ c.endpoint = endpoint /\ c.token = token /\ c.pay = pay
  BY DEF NoCall
<1>7. c \in Calls
  BY <1>3, <1>4, <1>5 DEF Calls
<1>8. call' = [call EXCEPT ![s] = c]
  BY <1>2
<1> HIDE DEF c
<1>9. CallOK(seeded, c)
  BY <1>6 DEF CallOK
<1>10. UNCHANGED <<seeded, boot, sessions, balances, ledger, raced>> /\ sent' \in 0 .. MaxRequests
  <2>1. sent \in 0 .. MaxRequests /\ sent < MaxRequests /\ sent' = sent + 1 /\ MaxRequests \in Nat
    BY TargetAssumption DEF Send, TargetInv, StateInv
  <2> QED
    BY <2>1 DEF Send
<1>11. CallInv'
  BY <1>7, <1>8, <1>9, <1>10, SetCall DEF TargetInv
<1> QED
  BY <1>10, <1>11 DEF TargetInv, StateInv, BooksInv

\* A handler answers.
LEMMA AnswerStep ==
  ASSUME CallInv, Seeding(seeded), NEW s \in Slots, call[s].pc \in {"sent", "yielded"},
         NEW status \in {200, 400}, NEW by \in SUBSET seeded, NEW shows \in SUBSET Bank,
         status = 200 => by = RouteOf(seeded, call[s].endpoint),
         status # 200 => by = {} /\ shows = {},
         Answer(s, status, by, shows), seeded' = seeded
  PROVE  CallInv'
<1> DEFINE c == Answered(call[s], status, by, shows)
<1>1. call[s] \in Calls /\ CallOK(seeded, call[s]) /\ call[s].status = 0
  BY DEF CallInv, CallOK
<1>2. c \in Calls /\ CallOK(seeded, c)
  <2>1. seeded \in SUBSET Bank /\ status \in {200, 400, 599}
    BY DEF Seeding
  <2> QED
    BY <1>1, <2>1, AnsweredOK
<1>3. call' = [call EXCEPT ![s] = c]
  BY DEF Answer
<1> HIDE DEF c
<1> QED
  BY <1>2, <1>3, SetCall

LEMMA RoutesAreSingle ==
  ASSUME Seeding(seeded), NEW t \in seeded PROVE RouteOf(seeded, t.endpoint) = {t}
BY DEF Seeding, RouteOf

LEMMA SessionsStep ==
  ASSUME StateInv, NEW endpoint, OpensSession(endpoint), boot' = boot
  PROVE  sessions' \subseteq Users \X {boot'}
<1>1. CASE endpoint = Login
  BY <1>1 DEF OpensSession, StateInv
<1>2. CASE endpoint # Login
  BY <1>2 DEF OpensSession, StateInv
<1> QED
  BY <1>1, <1>2

LEMMA QuietHandlers ==
  ASSUME TargetInv, NEW s \in Slots, ServeSeeded(s) \/ ServeBase(s) \/ Refuse(s) PROVE TargetInv'
<1>1. CASE ServeSeeded(s)
  <2>1. PICK t \in Route(call[s].endpoint) : \E shows \in Shown(t, call[s].asks) : Answer(s, 200, {t}, shows)
    BY <1>1 DEF ServeSeeded
  <2>2. PICK shows \in Shown(t, call[s].asks) : Answer(s, 200, {t}, shows)
    BY <2>1
  <2>3. t \in seeded /\ t.endpoint = call[s].endpoint /\ t \in Bank
    BY DEF Route, TargetInv, StateInv, Seeding
  <2>4. call[s].asks \in SUBSET Bank
    BY DEF TargetInv, CallInv, Calls, Sets
  <2>5. shows \in SUBSET Bank
    BY <2>3, <2>4 DEF Shown
  <2>6. RouteOf(seeded, call[s].endpoint) = {t}
    BY <2>3, RoutesAreSingle DEF TargetInv, StateInv
  <2>7. CallInv'
    <3>1. /\ {t} \in SUBSET seeded /\ 200 \in {200, 400} /\ call[s].pc \in {"sent", "yielded"}
          /\ CallInv /\ Seeding(seeded) /\ seeded' = seeded
      BY <1>1, <2>3 DEF ServeSeeded, TargetInv, StateInv
    <3> QED
      BY <2>2, <2>5, <2>6, <3>1, AnswerStep
  <2>8. UNCHANGED <<seeded, boot, balances, ledger, raced, sent>> /\ sessions' \subseteq Users \X {boot'}
    BY <1>1, SessionsStep DEF ServeSeeded, TargetInv
  <2> QED
    BY <2>7, <2>8 DEF TargetInv, StateInv, BooksInv
<1>2. CASE ServeBase(s)
  <2>1. RouteOf(seeded, call[s].endpoint) = {} /\ call[s].pc = "sent" /\ Answer(s, 200, {}, {})
    BY <1>2 DEF ServeBase, Route, RouteOf
  <2>2. UNCHANGED <<seeded, boot, balances, ledger, raced, sent>> /\ sessions' \subseteq Users \X {boot'}
    BY <1>2, SessionsStep DEF ServeBase, TargetInv
  <2>3. CallInv'
    <3>1. /\ {} \in SUBSET seeded /\ {} \in SUBSET Bank /\ 200 \in {200, 400}
          /\ call[s].pc \in {"sent", "yielded"} /\ CallInv /\ Seeding(seeded) /\ seeded' = seeded
          /\ (200 = 200 => {} = RouteOf(seeded, call[s].endpoint))
          /\ (200 # 200 => {} = {} /\ {} = {}) /\ Answer(s, 200, {}, {})
      BY <2>1, <2>2 DEF TargetInv, StateInv
    <3> QED
      BY <3>1, AnswerStep
  <2> QED
    BY <2>2, <2>3 DEF TargetInv, StateInv, BooksInv
<1>3. CASE Refuse(s)
  <2>1. /\ call[s].pc = "sent" /\ Answer(s, 400, {}, {})
        /\ UNCHANGED <<seeded, boot, sessions, balances, ledger, raced, sent>>
    BY <1>3 DEF Refuse
  <2>2. CallInv'
    BY <2>1, AnswerStep DEF TargetInv, StateInv
  <2> QED
    BY <2>1, <2>2 DEF TargetInv, StateInv, BooksInv
<1> QED
  BY <1>1, <1>2, <1>3

\* A transfer that the ledger explains.
LEMMA Booked ==
  ASSUME StateInv, NEW funds \in [Users -> Nat], NEW kind \in {Transfers, Signed},
         NEW pay \in Payments, pay.from \in Users, pay.to \in Users, funds[pay.from] >= pay.amount,
         balances' = Move(funds, pay), Book(kind, pay)
  PROVE  /\ balances' \in [Users -> Nat] /\ ledger' \in Seq(Entries)
         /\ \A u \in Users : /\ NetOf(ledger', u) = NetOf(ledger, u) + Gain([kind |-> kind, pay |-> pay], u)
                             /\ balances'[u] = funds[u] + Gain([kind |-> kind, pay |-> pay], u)
<1> DEFINE e == [kind |-> kind, pay |-> pay]
<1>1. e \in Entries /\ pay.amount \in Nat
  BY AmountsAreNat DEF Entries
<1>2. \A x \in Entries : x.pay.amount \in Int
  BY AmountsAreNat DEF Entries
<1>3. ledger' = Append(ledger, e) /\ ledger \in Seq(Entries)
  BY DEF Book, StateInv
<1> HIDE DEF e
<1>4. ledger' \in Seq(Entries)
  BY <1>1, <1>3
<1>5. \A u \in Users : NetOf(ledger', u) = NetOf(ledger, u) + Gain(e, u)
  BY <1>1, <1>2, <1>3, NetOfAppend
<1>6. balances' \in [Users -> Nat]
  BY <1>1, MoveFacts
<1>7. ASSUME NEW u \in Users PROVE balances'[u] = funds[u] + Gain(e, u)
  BY <1>1, MoveFacts DEF e
<1> QED
  BY <1>4, <1>5, <1>6, <1>7 DEF e

LEMMA TransferStep ==
  ASSUME TargetInv, NEW s \in Slots, Transfer(s) PROVE TargetInv'
<1> DEFINE c == call[s]
           pay == c.pay
           by == Route(c.endpoint)
<1>1. c \in Calls /\ CallOK(seeded, c) /\ c.pc = "sent" /\ pay \in Pays(c.endpoint, c.token[1])
  BY DEF Transfer, TargetInv, CallInv, CallOK
<1>2. c.token[1] \in Users \cup {"nobody"}
  BY <1>1, TokenUser
<1>3. c.endpoint \in {Transfers, Signed}
  BY DEF Transfer
<1>4. pay \in Payments /\ pay.to \in Users /\ (c.endpoint = Transfers => pay.from = c.token[1])
      /\ (c.endpoint = Signed => pay.from \in Users)
  BY <1>1, <1>2, <1>3, PaysFacts
<1>5. pay.from \in Users
  <2>1. CASE c.endpoint = Transfers
    <3>1. c.token \in sessions
      BY <2>1 DEF Transfer, Transfers, Signed
    <3>2. c.token \in Users \X {boot}
      BY <3>1 DEF TargetInv, StateInv
    <3> QED
      BY <2>1, <1>4, <3>2
  <2> QED
    BY <1>3, <1>4, <2>1
<1>6. /\ balances[pay.from] >= pay.amount /\ balances' = Move(balances, pay) /\ Book(c.endpoint, pay)
      /\ UNCHANGED <<seeded, boot, sessions, raced, sent>> /\ Answer(s, 200, by, by)
  BY DEF Transfer
<1>7. by \in SUBSET seeded /\ by \in SUBSET Bank /\ by = RouteOf(seeded, c.endpoint)
  BY DEF Route, RouteOf, TargetInv, StateInv, Seeding
<1> HIDE DEF by, pay
<1>8. CallInv'
  <2>1. 200 \in {200, 400} /\ call[s].pc \in {"sent", "yielded"} /\ CallInv /\ Seeding(seeded) /\ seeded' = seeded
    BY <1>1, <1>6 DEF TargetInv, StateInv
  <2> QED
    BY <1>6, <1>7, <2>1, AnswerStep
<1>9. /\ balances' \in [Users -> Nat] /\ ledger' \in Seq(Entries)
      /\ \A u \in Users : /\ NetOf(ledger', u) = NetOf(ledger, u) + Gain([kind |-> c.endpoint, pay |-> pay], u)
                          /\ balances'[u] = balances[u] + Gain([kind |-> c.endpoint, pay |-> pay], u)
  <2>1. StateInv /\ balances \in [Users -> Nat]
    BY DEF TargetInv, StateInv
  <2> QED
    BY <1>3, <1>4, <1>5, <1>6, <2>1, Booked
<1>10. BooksInv'
  <2> SUFFICES ASSUME NEW u \in Users \ raced
               PROVE  balances'[u] = SeedBalance + NetOf(ledger', u)
    BY <1>6 DEF BooksInv
  <2>1. balances[u] = SeedBalance + NetOf(ledger, u) /\ balances[u] \in Nat /\ SeedBalance \in Nat
    BY TargetAssumption DEF TargetInv, BooksInv, StateInv
  <2>2. NetOf(ledger, u) \in Int /\ Gain([kind |-> c.endpoint, pay |-> pay], u) \in Int
    BY <1>4, AmountsAreNat, LedgerIsSummed DEF Gain, TargetInv, StateInv
  <2> QED
    BY <1>9, <2>1, <2>2
<1> QED
  BY <1>6, <1>8, <1>9, <1>10 DEF TargetInv, StateInv

LEMMA ReadStep ==
  ASSUME TargetInv, NEW s \in Slots, ReadBalance(s) PROVE TargetInv'
<1> DEFINE r == call[s]
           c == [r EXCEPT !.pc = "yielded", !.read = balances[r.pay.from]]
<1>1. r \in Calls /\ CallOK(seeded, r) /\ r.pc = "sent" /\ r.pay \in Pays(r.endpoint, r.token[1])
      /\ r.endpoint = Transfers /\ r.token \in sessions /\ balances[r.pay.from] >= r.pay.amount
  BY DEF ReadBalance, TargetInv, CallInv, CallOK
<1>2. r.pay.from = r.token[1] /\ r.token[1] \in Users
  <2>1. r.token \in Users \X {boot}
    BY <1>1 DEF TargetInv, StateInv
  <2> QED
    BY <1>1, <2>1, PaysFacts
<1>3. RouteOf(seeded, Transfers) # {}
  BY DEF ReadBalance, Route, RouteOf
<1>4. balances[r.pay.from] \in Nat
  BY <1>2 DEF TargetInv, StateInv
<1>5. c \in Calls
  BY <1>1, <1>4 DEF Calls, Phases
<1>6. /\ c.pc = "yielded" /\ c.read = balances[r.pay.from] /\ c.endpoint = r.endpoint /\ c.pay = r.pay
      /\ c.status = r.status /\ c.by = r.by /\ c.shows = r.shows /\ c.token = r.token
  BY <1>1 DEF Calls
<1>7. call' = [call EXCEPT ![s] = c] /\ UNCHANGED <<seeded, boot, sessions, balances, ledger, raced, sent>>
  BY DEF ReadBalance
<1> HIDE DEF c
<1>8. CallOK(seeded, c)
  BY <1>1, <1>2, <1>3, <1>6 DEF CallOK
<1>9. CallInv'
  BY <1>5, <1>7, <1>8, SetCall DEF TargetInv
<1> QED
  BY <1>7, <1>9 DEF TargetInv, StateInv, BooksInv

LEMMA WriteStep ==
  ASSUME TargetInv, NEW s \in Slots, WriteBalance(s) PROVE TargetInv'
<1> DEFINE c == call[s]
           pay == c.pay
           by == Route(Transfers)
           funds == [balances EXCEPT ![pay.from] = c.read]
<1>1. c \in Calls /\ CallOK(seeded, c) /\ c.pc = "yielded" /\ pay \in Pays(c.endpoint, c.token[1])
      /\ c.endpoint = Transfers /\ RouteOf(seeded, Transfers) # {} /\ pay.from \in Users /\ c.read >= pay.amount
      /\ c.read \in Nat
  BY DEF WriteBalance, TargetInv, CallInv, CallOK, Calls
<1>2. pay \in Payments /\ pay.to \in Users
  BY <1>1, TokenUser, PaysFacts
<1>3. /\ balances' = Move(funds, pay) /\ Book(Transfers, pay)
      /\ raced' = IF c.read = balances[pay.from] THEN raced ELSE raced \cup {pay.from}
      /\ UNCHANGED <<seeded, boot, sessions, sent>> /\ Answer(s, 200, by, by)
  BY DEF WriteBalance
<1>4. /\ funds \in [Users -> Nat] /\ funds[pay.from] = c.read
      /\ \A u \in Users \ {pay.from} : funds[u] = balances[u]
  BY <1>1 DEF TargetInv, StateInv
<1>5. by \in SUBSET seeded /\ by \in SUBSET Bank /\ by = RouteOf(seeded, c.endpoint)
  BY <1>1 DEF Route, RouteOf, TargetInv, StateInv, Seeding
<1> HIDE DEF by, pay, funds
<1>6. CallInv'
  <2>1. 200 \in {200, 400} /\ call[s].pc \in {"sent", "yielded"} /\ CallInv /\ Seeding(seeded) /\ seeded' = seeded
    BY <1>1, <1>3 DEF TargetInv, StateInv
  <2> QED
    BY <1>3, <1>5, <2>1, AnswerStep
<1> DEFINE e == [kind |-> Transfers, pay |-> pay]
<1>7. /\ balances' \in [Users -> Nat] /\ ledger' \in Seq(Entries)
      /\ \A u \in Users : /\ NetOf(ledger', u) = NetOf(ledger, u) + Gain(e, u)
                          /\ balances'[u] = funds[u] + Gain(e, u)
  <2>1. StateInv /\ Transfers \in {Transfers, Signed} /\ funds[pay.from] >= pay.amount
    BY <1>1, <1>4 DEF TargetInv
  <2> QED
    BY <1>1, <1>2, <1>3, <1>4, <2>1, Booked
<1>8. BooksInv'
  <2> SUFFICES ASSUME NEW u \in Users, u \notin raced'
               PROVE  balances'[u] = SeedBalance + NetOf(ledger', u)
    BY DEF BooksInv
  <2>1. u \notin raced /\ funds[u] = balances[u]
    BY <1>3, <1>4
  <2>2. balances[u] = SeedBalance + NetOf(ledger, u) /\ balances[u] \in Nat /\ SeedBalance \in Nat
    BY <2>1, TargetAssumption DEF TargetInv, BooksInv, StateInv
  <2>3. NetOf(ledger, u) \in Int /\ Gain(e, u) \in Int
    BY <1>2, AmountsAreNat, LedgerIsSummed DEF Gain, TargetInv, StateInv
  <2> QED
    BY <1>7, <2>1, <2>2, <2>3
<1>9. raced' \subseteq Users
  BY <1>1, <1>3 DEF TargetInv, StateInv
<1> QED
  BY <1>3, <1>6, <1>7, <1>8, <1>9 DEF TargetInv, StateInv

LEMMA TimeoutStep ==
  ASSUME TargetInv, NEW s \in Slots, TimesOut(s) PROVE TargetInv'
<1> DEFINE r == call[s]
           c == [r EXCEPT !.claim = FALSE]
<1>1. r \in Calls /\ CallOK(seeded, r)
  BY DEF TargetInv, CallInv
<1>2. c \in Calls
  BY <1>1 DEF Calls
<1>3. /\ c.pc = r.pc /\ c.read = r.read /\ c.endpoint = r.endpoint /\ c.pay = r.pay
      /\ c.status = r.status /\ c.by = r.by /\ c.shows = r.shows /\ c.token = r.token
  BY <1>1 DEF Calls
<1>4. call' = [call EXCEPT ![s] = c] /\ UNCHANGED <<seeded, boot, sessions, balances, ledger, raced, sent>>
  BY DEF TimesOut
<1> HIDE DEF c
<1>5. CallOK(seeded, c)
  BY <1>1, <1>3 DEF CallOK
<1>6. CallInv'
  BY <1>2, <1>4, <1>5, SetCall DEF TargetInv
<1> QED
  BY <1>4, <1>6 DEF TargetInv, StateInv, BooksInv

LEMMA RebootStep ==
  ASSUME TargetInv, Reboot PROVE TargetInv'
<1>1. /\ boot' \in 1 .. MaxBoots /\ sessions' = {} /\ ledger' = <<>> /\ raced' = {} /\ call' = Cut
      /\ balances' = [u \in Users |-> SeedBalance] /\ UNCHANGED <<seeded, sent>>
  <2>1. boot \in 1 .. MaxBoots /\ boot < MaxBoots /\ MaxBoots \in Nat
    BY TargetAssumption DEF Reboot, TargetInv, StateInv
  <2> QED
    BY <2>1 DEF Reboot
<1>2. ASSUME NEW s \in Slots PROVE Cut[s] \in Calls /\ CallOK(seeded, Cut[s])
  <2>1. call[s] \in Calls /\ CallOK(seeded, call[s])
    BY DEF TargetInv, CallInv
  <2>2. CASE call[s].pc \in {"sent", "yielded"}
    <3>1. Cut[s] = Answered(call[s], 599, {}, {})
      BY <2>2 DEF Cut
    <3>2. /\ seeded \in SUBSET Bank /\ call[s].status = 0 /\ 599 \in {200, 400, 599} /\ {} \in SUBSET seeded
          /\ {} \in SUBSET Bank /\ 599 # 200
      BY <2>1, <2>2 DEF CallOK, TargetInv, StateInv, Seeding
    <3> QED
      BY <2>1, <3>1, <3>2, AnsweredOK
  <2>3. CASE call[s].pc \notin {"sent", "yielded"}
    <3>1. Cut[s] = call[s]
      BY <2>3 DEF Cut
    <3> QED
      BY <2>1, <3>1
  <2> QED
    BY <2>2, <2>3
<1>3. CallInv'
  <2>1. Cut \in [Slots -> Calls]
    BY <1>2 DEF Cut
  <2> QED
    BY <1>1, <1>2, <2>1 DEF CallInv
<1>4. SeedBalance \in Nat
  BY TargetAssumption
<1>5. balances' \in [Users -> Nat] /\ ledger' \in Seq(Entries)
  BY <1>1, <1>4
<1>6. BooksInv'
  BY <1>1, <1>4, NetOfNothing DEF BooksInv
<1> QED
  BY <1>1, <1>3, <1>5, <1>6 DEF TargetInv, StateInv

-----------------------------------------------------------------------------
\* The duel.
LEMMA DuelStart == Init => DuelInv
<1> SUFFICES ASSUME Init PROVE DuelInv
  OBVIOUS
<1>1. Seeding(seeded)
  BY TargetAssumption, SampleFacts DEF Init, TargetInit, Seeding
<1>2. /\ boot = 1 /\ sessions = {} /\ ledger = <<>> /\ sent = 0
      /\ balances = [u \in Users |-> SeedBalance] /\ call = [s \in Slots |-> NoCall]
      /\ raced = {}
  BY DEF Init, TargetInit
<1>3. /\ MaxBoots \in Nat \ {0} /\ MaxRequests \in Nat /\ SeedBalance \in Nat
  BY TargetAssumption
<1>4. StateInv
  <2>1. boot \in 1 .. MaxBoots /\ sent \in 0 .. MaxRequests
    BY <1>2, <1>3
  <2>2. balances \in [Users -> Nat] /\ ledger \in Seq(Entries) /\ sessions \subseteq Users \X {boot} /\ raced \subseteq Users
    BY <1>2, <1>3
  <2> QED
    BY <1>1, <2>1, <2>2 DEF StateInv
<1>5. CallInv
  BY <1>2, NoCallOK DEF CallInv
<1>6. BooksInv
  BY <1>2, <1>3, NetOfNothing DEF BooksInv
<1>7. EditInv
  BY DEF Init, DuelInit, EditInv
<1> QED
  BY <1>4, <1>5, <1>6, <1>7 DEF DuelInv

LEMMA EditFrame == EditInv /\ UNCHANGED <<seeded, duelVars>> => EditInv'
BY DEF EditInv, duelVars

\* On a state that was built afresh no witness but the response can speak.
LEMMA VerdictOfResponse ==
  ASSUME NEW t \in Bank, NEW c, Verifies(t, c, {}, <<>>)
  PROVE  c.endpoint = t.endpoint /\ c.status = 200 /\ t \in c.shows
BY DEF Verifies

LEMMA JudgeStep ==
  ASSUME DuelInv, NEW s \in Slots, Judge(s) PROVE DuelInv'
<1> DEFINE c == call[s]
<1>1. /\ c \in Calls /\ CallOK(seeded, c) /\ c.pc = "answered" /\ Seeding(seeded)
  BY DEF Judge, DuelInv, CallInv, StateInv
<1>2. call' = [call EXCEPT ![s] = NoCall] /\ UNCHANGED <<seeded, boot, sessions, balances, ledger, raced, sent>>
      /\ UNCHANGED <<module, served, restarting>>
  BY DEF Judge
<1>3. CallInv'
  BY <1>2, NoCallOK, SetCall DEF DuelInv
<1>4. EditInv'
  <2>1. CASE UNCHANGED wounds
    BY <1>2, <2>1 DEF DuelInv, EditInv
  <2>2. CASE \E t \in seeded : /\ TRUE \in Judgements(t, c)
                               /\ wounds' = wounds \cup {[bug |-> t, judge |-> module[t], by |-> c.by]}
    <3>1. PICK t \in seeded : /\ TRUE \in Judgements(t, c)
                              /\ wounds' = wounds \cup {[bug |-> t, judge |-> module[t], by |-> c.by]}
      BY <2>2
    <3>2. module[t] \in {"intact", "edited"}
      <4>1. module[t] \in {"intact", "edited", "broken"}
        BY DEF DuelInv, EditInv
      <4>2. module[t] # "broken"
        BY <3>1 DEF Judgements
      <4> QED
        BY <4>1, <4>2
    <3>3. ASSUME module[t] = "intact" PROVE c.by = {t}
      <4>1. Verifies(t, c, {}, <<>>)
        BY <3>1, <3>3 DEF Judgements
      <4>2. c.endpoint = t.endpoint /\ c.status = 200
        BY <1>1, <4>1, VerdictOfResponse DEF Seeding
      <4> QED
        BY <1>1, <4>2, RoutesAreSingle DEF CallOK
    <3> DEFINE w == [bug |-> t, judge |-> module[t], by |-> c.by]
    <3>4. /\ w.bug \in seeded /\ w.judge \in {"intact", "edited"}
          /\ w.judge = "intact" => w.by = {w.bug}
      BY <3>2, <3>3
    <3>5. wounds' = wounds \cup {w}
      BY <3>1
    <3> HIDE DEF w
    <3> QED
      BY <1>2, <3>4, <3>5 DEF DuelInv, EditInv
  <2> QED
    BY <2>1, <2>2 DEF Judge
<1> QED
  BY <1>2, <1>3, <1>4 DEF DuelInv, StateInv, BooksInv

LEMMA DuelStep == DuelInv /\ [Next]_vars => DuelInv'
<1> SUFFICES ASSUME DuelInv, [Next]_vars PROVE DuelInv'
  OBVIOUS
<1> USE DEF TargetInv
<1>1. ASSUME NEW s \in Slots, Send(s) \/ Handler(s) \/ TimesOut(s), UNCHANGED duelVars PROVE DuelInv'
  <2>1. TargetInv
    BY DEF DuelInv
  <2>2. TargetInv'
    BY <1>1, <2>1, SendStep, QuietHandlers, TransferStep, ReadStep, WriteStep, TimeoutStep DEF Handler
  <2>3. seeded' = seeded
    BY <1>1 DEF Send, Handler, ServeSeeded, ServeBase, Refuse, Transfer, ReadBalance, WriteBalance, TimesOut
  <2> QED
    BY <1>1, <2>2, <2>3, EditFrame DEF DuelInv
<1>2. ASSUME NEW s \in Slots, Judge(s) PROVE DuelInv'
  BY <1>2, JudgeStep
<1>3. ASSUME NEW t \in seeded, Patch(t) PROVE DuelInv'
  <2>1. PICK code \in {"intact", "edited", "broken"} : module' = [module EXCEPT ![t] = code]
    BY <1>3 DEF Patch
  <2>2. UNCHANGED targetVars /\ UNCHANGED <<served, wounds>> /\ restarting' = TRUE
    BY <1>3 DEF Patch
  <2>3. EditInv'
    BY <2>1, <2>2 DEF DuelInv, EditInv, targetVars
  <2> QED
    BY <2>2, <2>3 DEF DuelInv, StateInv, CallInv, BooksInv, targetVars
<1>4. ASSUME Restart PROVE DuelInv'
  <2>1. TargetInv'
    BY <1>4, RebootStep DEF Restart, DuelInv
  <2>2. EditInv'
    <3>1. Load \in [seeded -> {"intact", "edited", "broken"}]
      BY DEF Load, DuelInv, EditInv
    <3>2. seeded' = seeded /\ served' = Load /\ restarting' = FALSE /\ UNCHANGED <<module, wounds>>
      BY <1>4 DEF Restart, Reboot
    <3> QED
      BY <3>1, <3>2 DEF DuelInv, EditInv
  <2> QED
    BY <2>1, <2>2 DEF DuelInv
<1>5. ASSUME UNCHANGED vars PROVE DuelInv'
  BY <1>5 DEF vars, targetVars, duelVars, DuelInv, StateInv, CallInv, BooksInv, EditInv
<1> QED
  BY <1>1, <1>2, <1>3, <1>4, <1>5 DEF Next

\* Every variable of the target and of the duel keeps its type: no balance goes
\* below zero, a target has as many bugs as were asked for less one whose route
\* is taken, and only a response of status 200 shows anything (target_factory.py,
\* bug_bank.py, 48-92).
THEOREM DuelTypes == Spec => []TypeOK
<1>1. DuelInv => TypeOK
  <2> SUFFICES ASSUME DuelInv PROVE TypeOK
    OBVIOUS
  <2>1. \A i \in 1 .. Len(ledger) : ledger[i].kind \in {Transfers, Signed}
    <3>1. \A i \in 1 .. Len(ledger) : ledger[i] \in Entries
      BY DEF DuelInv, StateInv
    <3> QED
      BY <3>1 DEF Entries
  <2>2. TargetTypeOK
    BY <2>1 DEF DuelInv, StateInv, Seeding, CallInv, CallOK, TargetTypeOK
  <2> QED
    BY <2>2 DEF TypeOK, DuelInv, EditInv
<1> QED
  BY <1>1, DuelStart, DuelStep, PTL DEF Spec

\* The verdict of a module as it was seeded scores only a request that the route
\* of that very bug has served, for any templates, requests, patches and restarts
\* (manager.py, 543-580 and 791-853).
THEOREM WoundsWereServed == Spec => []WoundWasServed
<1>1. DuelInv => WoundWasServed
  BY DEF DuelInv, EditInv, WoundWasServed
<1> QED
  BY <1>1, DuelStart, DuelStep, PTL DEF Spec

\* Every balance is the seeded one and what the audit log explains, except that of
\* a payer whose balance changed while its own racing transfer had yielded: for any
\* requests that overlap and wherever a restart falls (target_factory.py, 132-139;
\* race_condition_transfer.py, 42-50; sig_replay_transfer.py, 58-72).
THEOREM BooksAreBalanced == Spec => []BooksBalance
<1>1. DuelInv => BooksBalance
  BY NetIsNetOf DEF DuelInv, BooksInv, BooksBalance, Route, RouteOf
<1> QED
  BY <1>1, DuelStart, DuelStep, PTL DEF Spec
=============================================================================
