------------------------- MODULE ApplyEndpointProofs -------------------------
(***************************************************************************)
(* Proofs about endpoint.apply: what putting a line into the file does to  *)
(* what WireGuard reads, the old configuration that is kept, the UCI       *)
(* section whose host and port belong together, and the endpoint that a    *)
(* success is about.                                                       *)
(***************************************************************************)
EXTENDS ApplyEndpoint, TLAPS, NaturalsInduction, WellFoundedInduction

Text == [lines : Seq(Line), nl : {TRUE}]

(***************************************************************************)
(* Least and greatest elements.                                            *)
(***************************************************************************)

\* A set of numbers that is not empty has a least element, which Min names.
LEMMA MinLeast ==
  ASSUME NEW S \in SUBSET Nat, S # {}
  PROVE  Min(S) \in S /\ \A x \in S : Min(S) <= x
<1> DEFINE R == {ss \in Nat \X Nat : ss[1] < ss[2]}
<1>1. IsWellFoundedOn(R, Nat)
  BY NatLessThanWellFounded DEF OpToRel
<1>2. \E x \in S : \A y \in S : ~(<<y, x>> \in R)
  <2> HIDE DEF R
  <2> QED
    BY <1>1, WFMin
<1>3. PICK m \in S : \A y \in S : ~(<<y, m>> \in R)
  BY <1>2
<1>4. \A y \in S : m <= y
  <2> TAKE y \in S
  <2>1. ~(y < m)
    <3> SUFFICES ASSUME y < m PROVE FALSE
      OBVIOUS
    <3>1. <<y, m>> \in R
      OBVIOUS
    <3> QED
      BY <1>3, <3>1
  <2> QED
    BY <2>1
<1> QED
  BY <1>4 DEF Min

\* ... and it is the only one that is below all.
LEMMA MinUnique ==
  ASSUME NEW S \in SUBSET Nat, NEW m \in S, \A x \in S : m <= x
  PROVE  Min(S) = m
<1>1. Min(S) \in S /\ \A x \in S : Min(S) <= x
  BY MinLeast
<1>2. Min(S) <= m /\ m <= Min(S) /\ Min(S) \in Nat
  BY <1>1
<1> QED
  BY <1>2

\* A set of numbers up to n that is not empty has a greatest element.
LEMMA MaxGreatest ==
  ASSUME NEW n \in Nat, NEW S \in SUBSET (1 .. n), S # {}
  PROVE  Max(S) \in S /\ \A x \in S : x <= Max(S)
<1> DEFINE D == {n - x : x \in S}
<1>1. D \in SUBSET Nat /\ D # {}
  <2>1. \A x \in S : x \in 1 .. n /\ n - x \in Nat
    OBVIOUS
  <2>2. D # {}
    OBVIOUS
  <2> QED
    BY <2>1, <2>2
<1>2. Min(D) \in D /\ \A y \in D : Min(D) <= y
  BY <1>1, MinLeast
<1>3. PICK m \in S : Min(D) = n - m
  BY <1>2
<1>4. \A x \in S : x <= m
  <2> TAKE x \in S
  <2>1. n - m <= n - x
    BY <1>2, <1>3
  <2> QED
    BY <2>1
<1> QED
  BY <1>4 DEF Max

(***************************************************************************)
(* Where a section ends.                                                   *)
(***************************************************************************)

\* The end of a section lies behind its header, is a header or the end of the
\* file, and no header lies in between.
LEMMA AfterIs ==
  ASSUME NEW ls \in Seq(Line), NEW p \in DOMAIN ls
  PROVE  /\ After(ls, p) \in Nat
         /\ p < After(ls, p) /\ After(ls, p) <= Len(ls) + 1
         /\ \A i \in Headers(ls) : p < i => After(ls, p) <= i
         /\ After(ls, p) <= Len(ls) => After(ls, p) \in Headers(ls)
<1> DEFINE S == {i \in Headers(ls) : i > p} \cup {Len(ls) + 1}
<1>1. S \in SUBSET Nat /\ S # {}
  BY DEF Headers
<1>2. Min(S) \in S /\ \A x \in S : Min(S) <= x
  BY <1>1, MinLeast
<1>3. After(ls, p) = Min(S)
  BY DEF After
<1> HIDE DEF S
<1>4. \A x \in S : (x \in Headers(ls) /\ x > p) \/ x = Len(ls) + 1
  BY DEF S
<1>5. \A i \in Headers(ls) : i > p => i \in S
  BY DEF S
<1>6. Len(ls) + 1 \in S
  BY DEF S
<1>7. Headers(ls) \subseteq 1 .. Len(ls) /\ p \in 1 .. Len(ls) /\ Len(ls) \in Nat
  BY DEF Headers
<1> QED
  BY <1>2, <1>3, <1>4, <1>5, <1>6, <1>7

\* A place with these three properties is the end of the section.
LEMMA AfterUnique ==
  ASSUME NEW ls \in Seq(Line), NEW p \in DOMAIN ls, NEW a \in Nat,
         p < a, a <= Len(ls) + 1,
         \A i \in Headers(ls) : p < i => a <= i,
         a <= Len(ls) => a \in Headers(ls)
  PROVE  After(ls, p) = a
<1>1. /\ After(ls, p) \in Nat
      /\ p < After(ls, p) /\ After(ls, p) <= Len(ls) + 1
      /\ \A i \in Headers(ls) : p < i => After(ls, p) <= i
      /\ After(ls, p) <= Len(ls) => After(ls, p) \in Headers(ls)
  BY AfterIs
<1>2. Len(ls) \in Nat /\ Headers(ls) \subseteq 1 .. Len(ls)
  BY DEF Headers
<1> QED
  BY <1>1, <1>2

(***************************************************************************)
(* What Put leaves behind.                                                 *)
(***************************************************************************)

\* The kinds of lines differ, so a header, a key and an endpoint do too.
LEMMA LineKinds ==
  ASSUME NEW k \in STRING, NEW e \in STRING
  PROVE  /\ Endpoint(e) \in Line /\ PublicKey(k) \in Line
         /\ Endpoint(e).kind = "endpoint" /\ PublicKey(k).kind = "key"
         /\ Endpoint(e) # PublicKey(k)
<1>1. Endpoint(e).kind = "endpoint" /\ PublicKey(k).kind = "key"
  BY DEF Endpoint, PublicKey
<1>2. Endpoint(e) # PublicKey(k)
  BY <1>1
<1>3. Endpoint(e) \in Line /\ PublicKey(k) \in Line
  BY DEF Endpoint, PublicKey, Line
<1> QED
  BY <1>1, <1>2, <1>3

\* Where the sections of a peer are: numbers of lines.
LEMMA WhereSectionsAre ==
  ASSUME NEW ls \in Seq(Line), NEW k \in STRING
  PROVE  /\ Sections(ls, k) \subseteq Headers(ls)
         /\ Headers(ls) \subseteq DOMAIN ls /\ Headers(ls) \subseteq Nat
         /\ \A p \in DOMAIN ls : Body(ls, p) \subseteq DOMAIN ls
<1>1. Sections(ls, k) \subseteq Headers(ls) /\ Headers(ls) \subseteq DOMAIN ls
  BY DEF Sections, Headers
<1>3. DOMAIN ls = 1 .. Len(ls) /\ 1 .. Len(ls) \subseteq Nat
  OBVIOUS
<1>2. \A p \in DOMAIN ls : Body(ls, p) \subseteq DOMAIN ls
  <2> TAKE p \in DOMAIN ls
  <2>1. After(ls, p) \in Nat /\ After(ls, p) <= Len(ls) + 1
    BY AfterIs
  <2> QED
    BY <2>1, <1>3 DEF Body
<1> QED
  BY <1>1, <1>2, <1>3

\* A replaced endpoint line is where the scan looks for it.
LEMMA ReplacedIsInPlace ==
  ASSUME NEW ls \in Seq(Line), NEW k \in STRING, NEW e \in STRING,
         Sections(ls, k) # {}, NEW p, p = Min(Sections(ls, k)),
         NEW m, m \in EndpointLines(ls, p, k), m = Max(EndpointLines(ls, p, k)),
         NEW f, f.lines = [ls EXCEPT ![m] = Endpoint(e)]
  PROVE  f.lines \in Seq(Line) /\ InPlace(f, k, e)
<1> DEFINE n == f.lines
<1>1. p \in Sections(ls, k) /\ p \in DOMAIN ls
  BY WhereSectionsAre, MinLeast
<1>2. m \in DOMAIN ls /\ ls[m].kind = "endpoint"
  BY <1>1, WhereSectionsAre DEF EndpointLines
<1>3. n \in Seq(Line) /\ DOMAIN n = DOMAIN ls /\ Len(n) = Len(ls)
  BY <1>2, LineKinds
<1>4. \A i \in DOMAIN ls : n[i].kind = ls[i].kind /\ (n[i] = PublicKey(k) <=> ls[i] = PublicKey(k))
  <2> TAKE i \in DOMAIN ls
  <2>1. CASE i = m
    <3>1. n[i] = Endpoint(e)
      BY <2>1, <1>2
    <3>2. ls[i] # PublicKey(k)
      BY <2>1, <1>2, LineKinds
    <3> QED
      BY <3>1, <3>2, <2>1, <1>2, LineKinds
  <2>2. CASE i # m
    BY <2>2
  <2> QED
    BY <2>1, <2>2
<1> HIDE DEF n
<1>5. Headers(n) = Headers(ls)
  BY <1>3, <1>4 DEF Headers
<1>6. \A q \in DOMAIN ls : After(n, q) = After(ls, q)
  BY <1>3, <1>5 DEF After
<1>7. \A q \in DOMAIN ls : Body(n, q) = Body(ls, q)
  BY <1>6 DEF Body
<1>8. \A q \in DOMAIN ls : KeyLines(n, q, k) = KeyLines(ls, q, k)
  BY <1>4, <1>7, WhereSectionsAre DEF KeyLines
<1>9. Sections(n, k) = Sections(ls, k)
  BY <1>4, <1>5, <1>8, WhereSectionsAre DEF Sections
<1>10. EndpointLines(n, p, k) = EndpointLines(ls, p, k)
  BY <1>1, <1>4, <1>7, <1>8, WhereSectionsAre DEF EndpointLines
<1>11. n[m] = Endpoint(e)
  BY <1>2 DEF n
<1>12. UpToDate(f, p, k, e)
  BY <1>10, <1>11 DEF UpToDate, n
<1> QED
  BY <1>3, <1>9, <1>12 DEF InPlace, n

\* What inserting does to the places of the lines.
LEMMA Inserted ==
  ASSUME NEW ls \in Seq(Line), NEW x \in Line, NEW a \in 1 .. Len(ls) + 1
  PROVE  /\ InsertAt(ls, a, x) \in Seq(Line)
         /\ Len(InsertAt(ls, a, x)) = Len(ls) + 1
         /\ \A i \in 1 .. a - 1 : InsertAt(ls, a, x)[i] = ls[i]
         /\ InsertAt(ls, a, x)[a] = x
         /\ \A i \in a + 1 .. Len(ls) + 1 : InsertAt(ls, a, x)[i] = ls[i - 1]
<1> DEFINE u == SubSeq(ls, 1, a - 1)
           v == SubSeq(ls, a, Len(ls))
           n == (u \o <<x>>) \o v
<1>1. InsertAt(ls, a, x) = n
  BY DEF InsertAt
<1>2. u \in Seq(Line) /\ Len(u) = a - 1 /\ \A i \in 1 .. a - 1 : u[i] = ls[i]
  OBVIOUS
<1>3. v \in Seq(Line) /\ Len(v) = Len(ls) - a + 1 /\ \A i \in 1 .. Len(ls) - a + 1 : v[i] = ls[a + i - 1]
  OBVIOUS
<1> HIDE DEF u, v
<1>4. u \o <<x>> \in Seq(Line) /\ Len(u \o <<x>>) = a
      /\ (\A i \in 1 .. a - 1 : (u \o <<x>>)[i] = ls[i]) /\ (u \o <<x>>)[a] = x
  BY <1>2
<1>5. n \in Seq(Line) /\ Len(n) = Len(ls) + 1
  BY <1>3, <1>4
<1>6. \A i \in 1 .. a : n[i] = (u \o <<x>>)[i]
  BY <1>3, <1>4
<1>7. \A i \in a + 1 .. Len(ls) + 1 : n[i] = ls[i - 1]
  <2> TAKE i \in a + 1 .. Len(ls) + 1
  <2>1. n[i] = v[i - a]
    BY <1>3, <1>4
  <2>2. i - a \in 1 .. Len(ls) - a + 1 /\ a + (i - a) - 1 = i - 1
    OBVIOUS
  <2> QED
    BY <2>1, <2>2, <1>3
<1> QED
  BY <1>1, <1>4, <1>5, <1>6, <1>7

\* A line inserted at the end of the section is where the scan looks for it.
LEMMA InsertedIsInPlace ==
  ASSUME NEW ls \in Seq(Line), NEW k \in STRING, NEW e \in STRING,
         Sections(ls, k) # {}, NEW p, p = Min(Sections(ls, k)),
         EndpointLines(ls, p, k) = {},
         NEW f, f.lines = InsertAt(ls, After(ls, p), Endpoint(e))
  PROVE  f.lines \in Seq(Line) /\ InPlace(f, k, e)
<1> DEFINE n == f.lines
           a == After(ls, p)
<1>1. p \in Sections(ls, k) /\ p \in DOMAIN ls /\ p \in Headers(ls)
      /\ \A q \in Sections(ls, k) : p <= q
  BY WhereSectionsAre, MinLeast
<1>2. /\ a \in Nat /\ p < a /\ a <= Len(ls) + 1
      /\ \A i \in Headers(ls) : p < i => a <= i
      /\ a <= Len(ls) => a \in Headers(ls)
  BY <1>1, AfterIs
<1>3. Len(ls) \in Nat /\ p \in 1 .. Len(ls) /\ a \in 1 .. Len(ls) + 1
  BY <1>1, <1>2
<1>4. Endpoint(e) \in Line /\ Endpoint(e).kind = "endpoint" /\ Endpoint(e) # PublicKey(k)
  BY LineKinds
<1>5. /\ n \in Seq(Line) /\ Len(n) = Len(ls) + 1
      /\ \A i \in 1 .. a - 1 : n[i] = ls[i]
      /\ n[a] = Endpoint(e)
      /\ \A i \in a + 1 .. Len(ls) + 1 : n[i] = ls[i - 1]
  <2> HIDE DEF a
  <2>1. n = InsertAt(ls, a, Endpoint(e))
    BY DEF a
  <2> HIDE DEF n
  <2>2. /\ InsertAt(ls, a, Endpoint(e)) \in Seq(Line)
        /\ Len(InsertAt(ls, a, Endpoint(e))) = Len(ls) + 1
        /\ \A i \in 1 .. a - 1 : InsertAt(ls, a, Endpoint(e))[i] = ls[i]
        /\ InsertAt(ls, a, Endpoint(e))[a] = Endpoint(e)
        /\ \A i \in a + 1 .. Len(ls) + 1 : InsertAt(ls, a, Endpoint(e))[i] = ls[i - 1]
    BY <1>3, <1>4, Inserted
  <2> QED
    BY <2>1, <2>2
<1> HIDE DEF n, a
<1>6. \A i \in 1 .. a - 1 : i \in Headers(n) <=> i \in Headers(ls)
  BY <1>3, <1>5 DEF Headers
<1>7. \A i \in Headers(n) : i # a /\ (i > a => i - 1 \in Headers(ls))
  <2> TAKE i \in Headers(n)
  <2>1. i \in 1 .. Len(ls) + 1 /\ n[i].kind \in {"peer", "section"}
    BY <1>5 DEF Headers
  <2>2. i # a
    BY <2>1, <1>4, <1>5
  <2>3. i > a => i - 1 \in Headers(ls)
    <3> SUFFICES ASSUME i > a PROVE i - 1 \in Headers(ls)
      OBVIOUS
    <3>1. n[i] = ls[i - 1] /\ i - 1 \in 1 .. Len(ls)
      BY <2>1, <1>3, <1>5
    <3> QED
      BY <2>1, <3>1 DEF Headers
  <2> QED
    BY <2>2, <2>3
<1>8. a + 1 <= Len(n) => a + 1 \in Headers(n)
  <2> SUFFICES ASSUME a + 1 <= Len(n) PROVE a + 1 \in Headers(n)
    OBVIOUS
  <2>1. a <= Len(ls) /\ a + 1 \in 1 .. Len(n)
    BY <1>3, <1>5
  <2>2. a \in Headers(ls) /\ n[a + 1] = ls[a]
    BY <2>1, <1>2, <1>3, <1>5
  <2> QED
    BY <2>1, <2>2, <1>5 DEF Headers
<1>9. Headers(n) \subseteq 1 .. Len(n) /\ Headers(ls) \subseteq 1 .. Len(ls)
  BY <1>5 DEF Headers
\* The section of the peer is longer by one line.
<1>10. After(n, p) = a + 1
  <2>1. \A i \in Headers(n) : p < i => a + 1 <= i
    <3> SUFFICES ASSUME NEW i \in Headers(n), p < i PROVE a + 1 <= i
      OBVIOUS
    <3>1. i \in Nat /\ i # a
      BY <1>7, <1>9
    <3>2. ~(i < a)
      BY <1>2, <1>3, <1>6, <1>9, <3>1
    <3> QED
      BY <3>1, <3>2, <1>3
  <2> QED
    BY <2>1, <1>2, <1>3, <1>5, <1>8, AfterUnique
<1>11. KeyLines(ls, p, k) # {} /\ KeyLines(ls, p, k) \subseteq KeyLines(n, p, k)
  <2>1. Body(ls, p) = p + 1 .. a - 1 /\ Body(n, p) = p + 1 .. a
    BY <1>3, <1>10 DEF Body, a
  <2>2. KeyLines(ls, p, k) # {}
    BY <1>1 DEF Sections
  <2>3. \A i \in KeyLines(ls, p, k) : i \in p + 1 .. a - 1 /\ ls[i] = PublicKey(k)
    BY <2>1 DEF KeyLines
  <2>4. \A i \in p + 1 .. a - 1 : i \in 1 .. a - 1 /\ i \in p + 1 .. a
    BY <1>3
  <2>5. \A i \in KeyLines(ls, p, k) : i \in KeyLines(n, p, k)
    BY <2>1, <2>3, <2>4, <1>5 DEF KeyLines
  <2> QED
    BY <2>2, <2>5
<1>12. p \in Sections(n, k)
  <2>1. p \in 1 .. a - 1
    BY <1>2, <1>3
  <2>2. p \in Headers(n) /\ n[p] = ls[p]
    BY <2>1, <1>1, <1>5, <1>6
  <2>3. ls[p].kind = "peer" /\ KeyLines(n, p, k) # {}
    BY <1>1, <1>11 DEF Sections
  <2> QED
    BY <2>2, <2>3 DEF Sections
\* No section before it becomes one of the peer.
<1>13. \A q \in Sections(n, k) : p <= q
  <2> SUFFICES ASSUME NEW q \in Sections(n, k), ~(p <= q) PROVE FALSE
    OBVIOUS
  <2>1. q \in Headers(n) /\ n[q].kind = "peer" /\ KeyLines(n, q, k) # {}
    BY DEF Sections
  <2>2. q \in 1 .. p - 1 /\ q \in 1 .. a - 1
    BY <2>1, <1>3, <1>9, <1>2
  <2>3. q \in Headers(ls) /\ n[q] = ls[q] /\ q \in DOMAIN ls
    BY <2>1, <2>2, <1>5, <1>6, <1>9
  <2> DEFINE b == After(ls, q)
  <2>4. /\ b \in Nat /\ q < b /\ b <= Len(ls) + 1
        /\ \A i \in Headers(ls) : q < i => b <= i
        /\ b <= Len(ls) => b \in Headers(ls)
    BY <2>3, AfterIs
  <2> HIDE DEF b
  <2>5. b <= p /\ b \in Headers(ls) /\ b \in 1 .. a - 1
    BY <2>2, <2>4, <1>1, <1>2, <1>3
  <2>6. After(n, q) = b
    <3>1. b \in Headers(n) /\ b <= Len(n) + 1 /\ q \in DOMAIN n
      BY <2>2, <2>5, <1>3, <1>5, <1>6
    <3>2. \A i \in Headers(n) : q < i => b <= i
      <4> SUFFICES ASSUME NEW i \in Headers(n), q < i, ~(b <= i) PROVE FALSE
        OBVIOUS
      <4>1. i \in 1 .. a - 1
        BY <2>5, <1>3, <1>9
      <4> QED
        BY <4>1, <1>6, <2>4
    <3> QED
      BY <3>1, <3>2, <2>4, <1>5, AfterUnique
  <2>7. Body(n, q) = q + 1 .. b - 1 /\ Body(ls, q) = q + 1 .. b - 1
    BY <2>6 DEF Body, b
  <2>8. KeyLines(ls, q, k) # {}
    <3>1. PICK i \in Body(n, q) : n[i] = PublicKey(k)
      BY <2>1 DEF KeyLines
    <3>2. i \in 1 .. a - 1
      BY <3>1, <2>2, <2>5, <2>7, <1>3
    <3> QED
      BY <3>1, <3>2, <2>7, <1>5 DEF KeyLines
  <2>9. q \in Sections(ls, k)
    BY <2>1, <2>3, <2>8 DEF Sections
  <2> QED
    BY <2>2, <2>9, <1>1, <1>3
<1>14. Min(Sections(n, k)) = p
  <2>1. Sections(n, k) \subseteq Nat
    BY <1>5, WhereSectionsAre
  <2> QED
    BY <2>1, <1>12, <1>13, MinUnique
\* The new line is its only endpoint behind the key.
<1>15. EndpointLines(n, p, k) = {a}
  <2>1. Body(ls, p) = p + 1 .. a - 1 /\ Body(n, p) = p + 1 .. a
    BY <1>3, <1>10 DEF Body, a
  <2>2. a \in EndpointLines(n, p, k)
    <3>1. PICK j \in KeyLines(ls, p, k) : TRUE
      BY <1>11
    <3>2. j \in KeyLines(n, p, k) /\ j < a
      BY <3>1, <1>11, <2>1, <1>3 DEF KeyLines
    <3>3. a \in Body(n, p) /\ n[a].kind = "endpoint"
      BY <2>1, <1>2, <1>3, <1>4, <1>5
    <3> QED
      BY <3>2, <3>3 DEF EndpointLines
  <2>3. \A i \in EndpointLines(n, p, k) : i = a
    <3> SUFFICES ASSUME NEW i \in EndpointLines(n, p, k), i # a PROVE FALSE
      OBVIOUS
    <3>1. i \in p + 1 .. a - 1 /\ n[i].kind = "endpoint"
      BY <2>1, <1>3 DEF EndpointLines
    <3>2. PICK j \in KeyLines(n, p, k) : j < i
      BY DEF EndpointLines
    <3>3. j \in p + 1 .. a - 1 /\ n[j] = PublicKey(k)
      BY <3>1, <3>2, <2>1, <1>3 DEF KeyLines
    <3>4. j \in KeyLines(ls, p, k) /\ ls[i].kind = "endpoint"
      BY <3>1, <3>3, <2>1, <1>3, <1>5 DEF KeyLines
    <3>5. i \in EndpointLines(ls, p, k)
      BY <3>1, <3>2, <3>4, <2>1 DEF EndpointLines
    <3> QED
      BY <3>5
  <2> QED
    BY <2>2, <2>3
<1>16. Max({a}) = a
  BY <1>3 DEF Max
<1>17. UpToDate(f, p, k, e)
  BY <1>5, <1>15, <1>16 DEF UpToDate, n
<1> QED
  BY <1>5, <1>12, <1>14, <1>17 DEF InPlace, n

\* Put leaves a file that ends in a newline, with the endpoint in place.
LEMMA PutIsInPlace ==
  ASSUME NEW f \in Text, NEW k \in STRING, NEW e \in STRING,
         Sections(f.lines, k) # {}, NEW p, p = Min(Sections(f.lines, k))
  PROVE  Put(f, p, k, e) \in Text /\ InPlace(Put(f, p, k, e), k, e)
<1> DEFINE es == EndpointLines(f.lines, p, k)
           n  == Put(f, p, k, e)
<1>1. f.lines \in Seq(Line) /\ f.nl = TRUE
  BY DEF Text
<1>2. CASE es # {}
  <2>1. p \in DOMAIN f.lines
    BY <1>1, WhereSectionsAre, MinLeast
  <2>2. es \subseteq 1 .. Len(f.lines) /\ Len(f.lines) \in Nat
    BY <1>1, <2>1, WhereSectionsAre DEF EndpointLines
  <2>3. Max(es) \in es
    BY <1>2, <2>2, MaxGreatest
  <2>4. n = [lines |-> [f.lines EXCEPT ![Max(es)] = Endpoint(e)], nl |-> TRUE]
    BY <1>1, <1>2 DEF Put
  <2>5. n.lines \in Seq(Line) /\ InPlace(n, k, e)
    <3> HIDE DEF n
    <3>1. n.lines = [f.lines EXCEPT ![Max(es)] = Endpoint(e)]
      BY <2>4
    <3> QED
      BY <3>1, <2>3, <1>1, ReplacedIsInPlace
  <2>6. n = [lines |-> n.lines, nl |-> n.nl] /\ n.nl = TRUE
    BY <2>4
  <2>7. n \in Text
    <3> HIDE DEF n
    <3> QED
      BY <2>5, <2>6 DEF Text
  <2> QED
    BY <2>5, <2>7
<1>3. CASE es = {}
  <2>1. n = [f EXCEPT !.lines = InsertAt(f.lines, After(f.lines, p), Endpoint(e))]
    BY <1>1, <1>3 DEF Put
  <2>2. n.lines = InsertAt(f.lines, After(f.lines, p), Endpoint(e)) /\ n.nl = TRUE
        /\ n = [lines |-> n.lines, nl |-> n.nl]
    BY <2>1, <1>1 DEF Text
  <2>3. n.lines \in Seq(Line) /\ InPlace(n, k, e)
    <3> HIDE DEF n
    <3> QED
      BY <2>2, <1>1, <1>3, InsertedIsInPlace
  <2> QED
    BY <2>2, <2>3 DEF Text
<1> QED
  BY <1>2, <1>3

(***************************************************************************)
(* What WireGuard reads of the file that Put leaves behind.                *)
(***************************************************************************)

\* The lines of a section are lines of the file, behind the header.
LEMMA BodyLines ==
  ASSUME NEW ls \in Seq(Line), NEW p \in DOMAIN ls
  PROVE  /\ p \in Nat /\ After(ls, p) \in Nat /\ Len(ls) \in Nat
         /\ Body(ls, p) \subseteq 1 .. Len(ls) /\ Body(ls, p) \subseteq DOMAIN ls
         /\ \A i : i \in Body(ls, p) <=> i \in Nat /\ p < i /\ i < After(ls, p)
<1>1. /\ p \in 1 .. Len(ls) /\ DOMAIN ls = 1 .. Len(ls) /\ Len(ls) \in Nat
      /\ After(ls, p) \in Nat /\ After(ls, p) <= Len(ls) + 1
  BY AfterIs
<1> QED
  BY <1>1 DEF Body

\* The endpoint of a section is on the last endpoint line of its body.
LEMMA LastEndpoint ==
  ASSUME NEW ls \in Seq(Line), NEW p \in DOMAIN ls, NEW m \in EndpointsAt(ls, p),
         \A i \in EndpointsAt(ls, p) : i <= m
  PROVE  EndpointOf(ls, p) = ls[m].value
<1>1. EndpointsAt(ls, p) \subseteq 1 .. Len(ls) /\ Len(ls) \in Nat
  BY BodyLines DEF EndpointsAt
<1>2. /\ Max(EndpointsAt(ls, p)) \in EndpointsAt(ls, p)
      /\ \A i \in EndpointsAt(ls, p) : i <= Max(EndpointsAt(ls, p))
  BY <1>1, MaxGreatest
<1>3. Max(EndpointsAt(ls, p)) = m
  BY <1>1, <1>2
<1> QED
  BY <1>3 DEF EndpointOf

\* Two sections have no line in common.
LEMMA BodiesApart ==
  ASSUME NEW ls \in Seq(Line), NEW p \in Headers(ls), NEW q \in Headers(ls), p # q
  PROVE  Body(ls, p) \cap Body(ls, q) = {}
<1>1. p \in DOMAIN ls /\ q \in DOMAIN ls
  BY DEF Headers
<1>2. /\ After(ls, p) \in Nat /\ After(ls, q) \in Nat
      /\ p < q => After(ls, p) <= q
      /\ q < p => After(ls, q) <= p
  BY <1>1, AfterIs
<1>3. \A i \in Body(ls, p) : i \in Nat /\ p < i /\ i < After(ls, p)
  BY <1>1, <1>2 DEF Body
<1>4. \A i \in Body(ls, q) : i \in Nat /\ q < i /\ i < After(ls, q)
  BY <1>1, <1>2 DEF Body
<1> QED
  BY <1>1, <1>2, <1>3, <1>4

\* A section whose lines are those of another one, a few lines further down, reads
\* the same.
LEMMA MovedSection ==
  ASSUME NEW ls \in Seq(Line), NEW n \in Seq(Line), NEW d \in {0, 1},
         NEW p \in DOMAIN ls, p + d \in DOMAIN n,
         After(n, p + d) = After(ls, p) + d,
         \A i \in Body(ls, p) : n[i + d] = ls[i]
  PROVE  /\ KeysAt(n, p + d) = KeysAt(ls, p)
         /\ EndpointOf(n, p + d) = EndpointOf(ls, p)
<1>1. /\ After(ls, p) \in Nat /\ p \in Nat /\ Len(ls) \in Nat
      /\ Body(ls, p) \subseteq 1 .. Len(ls)
  BY BodyLines
<1>2. /\ \A i : i \in Body(ls, p) <=> i \in Nat /\ p < i /\ i < After(ls, p)
      /\ \A i : i \in Body(n, p + d) <=> i \in Nat /\ p + d < i /\ i < After(ls, p) + d
  BY BodyLines
<1>3. \A i \in Body(ls, p) : i + d \in Body(n, p + d) /\ n[i + d] = ls[i]
  BY <1>1, <1>2
<1>4. \A i \in Body(n, p + d) : i - d \in Body(ls, p) /\ (i - d) + d = i /\ n[i] = ls[i - d]
  <2> TAKE i \in Body(n, p + d)
  <2>1. i \in Nat /\ p + d < i /\ i < After(ls, p) + d
    BY <1>2
  <2>2. i - d \in Nat /\ p < i - d /\ i - d < After(ls, p) /\ (i - d) + d = i
    BY <1>1, <2>1
  <2>3. i - d \in Body(ls, p) /\ (i - d) + d = i
    BY <1>2, <2>2
  <2> QED
    BY <2>3, <1>3
<1>5. KeysAt(n, p + d) = KeysAt(ls, p)
  <2>1. ASSUME NEW v \in KeysAt(n, p + d) PROVE v \in KeysAt(ls, p)
    <3>1. PICK i \in Body(n, p + d) : n[i].kind = "key" /\ n[i].value = v
      BY <2>1 DEF KeysAt
    <3>2. i - d \in Body(ls, p) /\ ls[i - d].kind = "key" /\ ls[i - d].value = v
      BY <3>1, <1>4
    <3> QED
      BY <3>2 DEF KeysAt
  <2>2. ASSUME NEW v \in KeysAt(ls, p) PROVE v \in KeysAt(n, p + d)
    <3>1. PICK i \in Body(ls, p) : ls[i].kind = "key" /\ ls[i].value = v
      BY <2>2 DEF KeysAt
    <3>2. i + d \in Body(n, p + d) /\ n[i + d].kind = "key" /\ n[i + d].value = v
      BY <3>1, <1>3
    <3> QED
      BY <3>2 DEF KeysAt
  <2> QED
    BY <2>1, <2>2
<1>6. \A i \in EndpointsAt(ls, p) : i + d \in EndpointsAt(n, p + d)
  BY <1>3 DEF EndpointsAt
<1>7. \A i \in EndpointsAt(n, p + d) : i - d \in EndpointsAt(ls, p)
  BY <1>4 DEF EndpointsAt
<1>8. CASE EndpointsAt(ls, p) = {}
  <2>1. EndpointsAt(n, p + d) = {}
    BY <1>7, <1>8
  <2> QED
    BY <1>5, <1>8, <2>1 DEF EndpointOf
<1>9. CASE EndpointsAt(ls, p) # {}
  <2> DEFINE m == Max(EndpointsAt(ls, p))
  <2>1. EndpointsAt(ls, p) \subseteq 1 .. Len(ls)
    BY <1>1 DEF EndpointsAt
  <2>a. m \in EndpointsAt(ls, p) /\ \A i \in EndpointsAt(ls, p) : i <= m
    BY <1>1, <1>9, <2>1, MaxGreatest
  <2>2. m \in EndpointsAt(ls, p) /\ m \in Nat /\ \A i \in EndpointsAt(ls, p) : i <= m
    <3> HIDE DEF m
    <3> QED
      BY <1>1, <2>1, <2>a
  <2>3. EndpointOf(ls, p) = ls[m].value
    BY <1>9 DEF EndpointOf
  <2> HIDE DEF m
  <2>4. m + d \in EndpointsAt(n, p + d) /\ n[m + d] = ls[m]
    BY <2>2, <1>3, <1>6 DEF EndpointsAt
  <2>5. \A i \in EndpointsAt(n, p + d) : i <= m + d
    <3> TAKE i \in EndpointsAt(n, p + d)
    <3>1. i \in Nat /\ i - d <= m /\ i - d \in Nat
      <4>1. i \in Body(n, p + d) /\ i - d \in EndpointsAt(ls, p)
        BY <1>7 DEF EndpointsAt
      <4> QED
        BY <4>1, <1>1, <1>2, <2>1, <2>2
    <3> QED
      BY <3>1, <2>2
  <2>6. EndpointOf(n, p + d) = n[m + d].value
    BY <2>4, <2>5, LastEndpoint
  <2> QED
    BY <1>5, <2>3, <2>4, <2>6
<1> QED
  BY <1>8, <1>9

\* An endpoint line that is replaced: the first section of the peer reads the new one.
LEMMA ReplacedChanges ==
  ASSUME NEW ls \in Seq(Line), NEW k \in STRING, NEW e \in STRING,
         Sections(ls, k) # {}, NEW p, p = Min(Sections(ls, k)),
         NEW m, m \in EndpointLines(ls, p, k), m = Max(EndpointLines(ls, p, k)),
         NEW n \in Seq(Line), Len(n) = Len(ls), n[m] = Endpoint(e),
         \A i \in DOMAIN ls : i # m => n[i] = ls[i]
  PROVE  m \in DOMAIN n /\ ChangesEndpoint(ls, n, k, e, m)
<1>1. p \in Sections(ls, k) /\ p \in DOMAIN ls /\ p \in Headers(ls) /\ p \in Nat
  BY WhereSectionsAre, MinLeast
<1>2. m \in Body(ls, p) /\ m \in DOMAIN ls /\ ls[m].kind = "endpoint" /\ m \in Nat
  BY <1>1, WhereSectionsAre DEF EndpointLines
<1>0. DOMAIN n = DOMAIN ls
  <2>1. DOMAIN n = 1 .. Len(n) /\ DOMAIN ls = 1 .. Len(ls)
    OBVIOUS
  <2> QED
    BY <2>1
<1>3. /\ n \in Seq(Line) /\ DOMAIN n = DOMAIN ls /\ Len(n) = Len(ls)
      /\ n[m] = Endpoint(e) /\ \A i \in DOMAIN ls : i # m => n[i] = ls[i]
  BY <1>0
<1>4. \A i \in DOMAIN ls : n[i].kind = ls[i].kind
  BY <1>2, <1>3, LineKinds
<1>5. Headers(n) = Headers(ls)
  BY <1>3, <1>4 DEF Headers
<1>6. \A q \in DOMAIN ls : After(n, q) = After(ls, q) /\ Body(n, q) = Body(ls, q)
  BY <1>3, <1>5 DEF After, Body
<1>7. \A i \in Nat : Moved(i, m, Len(n) - Len(ls)) = i
  BY <1>3 DEF Moved
\* The sections of others.
<1>8. ASSUME NEW q \in Headers(ls), q # p
      PROVE  KeysAt(n, q) = KeysAt(ls, q) /\ EndpointOf(n, q) = EndpointOf(ls, q)
  <2>1. q \in DOMAIN ls /\ q \in Nat
    BY WhereSectionsAre
  <2>2. m \notin Body(ls, q)
    BY <1>1, <1>2, <1>8, BodiesApart
  <2>3. \A i \in Body(ls, q) : i \in Nat /\ n[i] = ls[i]
    <3>1. \A i \in Body(ls, q) : i \in Nat /\ i \in DOMAIN ls /\ i # m
      BY <2>1, <2>2, BodyLines
    <3> QED
      BY <3>1
  <2>4. /\ q + 0 = q /\ After(n, q + 0) = After(ls, q) + 0 /\ q + 0 \in DOMAIN n
        /\ \A i \in Body(ls, q) : n[i + 0] = ls[i]
    <3>1. q + 0 = q /\ \A i \in Body(ls, q) : i + 0 = i
      BY <2>1, <2>3
    <3>2. After(ls, q) + 0 = After(ls, q)
      BY <2>1, AfterIs
    <3> QED
      BY <3>1, <3>2, <1>3, <1>6, <2>1, <2>3
  <2>5. KeysAt(n, q + 0) = KeysAt(ls, q) /\ EndpointOf(n, q + 0) = EndpointOf(ls, q)
    BY <1>3, <2>1, <2>4, MovedSection
  <2> QED
    BY <2>4, <2>5
\* The section of the peer.
<1>9. KeysAt(n, p) = KeysAt(ls, p)
  <2>1. \A i \in Body(ls, p) : n[i].kind = "key" <=> ls[i].kind = "key"
    BY <1>1, <1>4, WhereSectionsAre
  <2>2. Body(n, p) = Body(ls, p)
    BY <1>1, <1>6
  <2>3. \A i \in Body(ls, p) : ls[i].kind = "key" => n[i] = ls[i]
    BY <1>1, <1>2, <1>3, BodyLines
  <2> QED
    BY <2>1, <2>2, <2>3 DEF KeysAt
<1>10. EndpointOf(n, p) = e
  <2>1. EndpointsAt(n, p) = EndpointsAt(ls, p)
    BY <1>1, <1>4, <1>6, WhereSectionsAre DEF EndpointsAt
  <2>2. m \in EndpointsAt(n, p)
    BY <1>2, <2>1 DEF EndpointsAt
  <2>3. \A i \in EndpointsAt(n, p) : i <= m
    <3> SUFFICES ASSUME NEW i \in EndpointsAt(ls, p), ~(i <= m) PROVE FALSE
      BY <2>1
    <3>1. i \in Body(ls, p) /\ i \in Nat /\ ls[i].kind = "endpoint"
      BY <1>1, WhereSectionsAre DEF EndpointsAt
    <3>2. PICK j \in KeyLines(ls, p, k) : j < m
      BY DEF EndpointLines
    <3>3. j \in Nat
      BY <1>1, BodyLines DEF KeyLines
    <3>4. j < i
      BY <1>2, <3>1, <3>2, <3>3
    <3>5. i \in EndpointLines(ls, p, k)
      BY <3>1, <3>2, <3>4 DEF EndpointLines
    <3>6. EndpointLines(ls, p, k) \subseteq 1 .. Len(ls) /\ Len(ls) \in Nat
      BY <1>1, WhereSectionsAre DEF EndpointLines
    <3>7. i <= m
      BY <3>5, <3>6, MaxGreatest
    <3> QED
      BY <3>7
  <2>4. p \in DOMAIN n
    BY <1>1, <1>3
  <2>5. EndpointOf(n, p) = n[m].value
    BY <1>3, <2>2, <2>3, <2>4, LastEndpoint
  <2> QED
    BY <1>3, <2>5 DEF Endpoint
<1>11. \A i \in DOMAIN ls : i \in Nat
  OBVIOUS
<1>12. \A i \in DOMAIN ls : Moved(i, m, Len(n) - Len(ls)) # m
         => n[Moved(i, m, Len(n) - Len(ls))] = ls[i]
  BY <1>3, <1>7, <1>11
<1>13. \A q \in Headers(ls) :
         /\ KeysAt(n, Moved(q, m, Len(n) - Len(ls))) = KeysAt(ls, q)
         /\ EndpointOf(n, Moved(q, m, Len(n) - Len(ls)))
              = IF q = p THEN e ELSE EndpointOf(ls, q)
  <2> TAKE q \in Headers(ls)
  <2>1. Moved(q, m, Len(n) - Len(ls)) = q
    BY <1>7, WhereSectionsAre
  <2>2. KeysAt(n, q) = KeysAt(ls, q) /\ EndpointOf(n, q) = IF q = p THEN e ELSE EndpointOf(ls, q)
    BY <1>8, <1>9, <1>10
  <2> QED
    BY <2>1, <2>2
<1> QED
  BY <1>2, <1>3, <1>12, <1>13 DEF ChangesEndpoint

\* A line that comes in at the end of the section: everything from there on moves down
\* by one, and the first section of the peer reads the new endpoint.
LEMMA InsertedChanges ==
  ASSUME NEW ls \in Seq(Line), NEW k \in STRING, NEW e \in STRING,
         Sections(ls, k) # {}, NEW p \in Nat, Min(Sections(ls, k)) = p,
         NEW a \in Nat, After(ls, p) = a, NEW n \in Seq(Line), Len(n) = Len(ls) + 1,
         n[a] = Endpoint(e),
         \A i \in 1 .. a - 1 : n[i] = ls[i],
         \A i \in a + 1 .. Len(ls) + 1 : n[i] = ls[i - 1]
  PROVE  a \in DOMAIN n /\ ChangesEndpoint(ls, n, k, e, a)
<1>1. p \in DOMAIN ls /\ p \in Headers(ls)
  BY WhereSectionsAre, MinLeast
<1>2. /\ a \in Nat /\ p < a /\ a <= Len(ls) + 1
      /\ \A i \in Headers(ls) : p < i => a <= i
      /\ a <= Len(ls) => a \in Headers(ls)
  BY <1>1, AfterIs
<1>3. /\ Len(ls) \in Nat /\ p \in 1 .. Len(ls) /\ a \in 1 .. Len(ls) + 1 /\ p \in Nat
      /\ DOMAIN ls = 1 .. Len(ls) /\ DOMAIN n = 1 .. Len(ls) + 1
  BY <1>1, <1>2
<1>4. \A i \in 1 .. Len(ls) : a <= i => n[i + 1] = ls[i]
  <2> SUFFICES ASSUME NEW i \in 1 .. Len(ls), a <= i PROVE n[i + 1] = ls[i]
    OBVIOUS
  <2>1. i + 1 \in a + 1 .. Len(ls) + 1 /\ (i + 1) - 1 = i
    BY <1>3
  <2>2. n[i + 1] = ls[(i + 1) - 1]
    BY <2>1
  <2> QED
    BY <2>1, <2>2
<1>5. n[a].kind = "endpoint" /\ n[a].value = e
  BY DEF Endpoint
<1>6. Headers(ls) \subseteq 1 .. Len(ls) /\ Headers(n) \subseteq 1 .. Len(ls) + 1
  BY <1>3 DEF Headers
<1>7. \A i \in 1 .. a - 1 : i \in Headers(n) <=> i \in Headers(ls)
  BY <1>3 DEF Headers
<1>8. \A i \in Nat : a <= i => (i + 1 \in Headers(n) <=> i \in Headers(ls))
  <2> SUFFICES ASSUME NEW i \in Nat, a <= i PROVE i + 1 \in Headers(n) <=> i \in Headers(ls)
    OBVIOUS
  <2>1. i + 1 \in 1 .. Len(ls) + 1 <=> i \in 1 .. Len(ls)
    BY <1>3
  <2>2. i \in 1 .. Len(ls) => n[i + 1] = ls[i]
    BY <1>4
  <2> QED
    BY <1>3, <2>1, <2>2 DEF Headers
<1>9. a \notin Headers(n)
  BY <1>5 DEF Headers
<1>10. \A i \in Headers(n) : i # a /\ (i < a => i \in Headers(ls)) /\ (a < i => i - 1 \in Headers(ls))
  <2> TAKE i \in Headers(n)
  <2>1. i \in 1 .. Len(ls) + 1 /\ i # a
    BY <1>6, <1>9
  <2>2. i < a => i \in Headers(ls)
    BY <2>1, <1>3, <1>7
  <2>3. a < i => i - 1 \in Nat /\ a <= i - 1 /\ (i - 1) + 1 = i
    BY <2>1, <1>3
  <2> QED
    BY <2>1, <2>2, <2>3, <1>8
\* Sections before that of the peer.
<1>11. ASSUME NEW q \in Headers(ls), q < p
       PROVE  KeysAt(n, q) = KeysAt(ls, q) /\ EndpointOf(n, q) = EndpointOf(ls, q)
  <2>1. q \in 1 .. Len(ls) /\ q \in DOMAIN ls /\ q \in Nat
    BY <1>3, <1>6
  <2> DEFINE b == After(ls, q)
  <2>2. /\ b \in Nat /\ q < b /\ b <= Len(ls) + 1
        /\ \A i \in Headers(ls) : q < i => b <= i
        /\ b <= Len(ls) => b \in Headers(ls)
    BY <2>1, AfterIs
  <2> HIDE DEF b
  <2>3. b <= p /\ b \in Headers(ls) /\ b \in 1 .. a - 1
    BY <1>1, <1>2, <1>3, <1>11, <2>1, <2>2
  <2>4. b \in Headers(n) /\ q \in DOMAIN n /\ b <= Len(n) + 1
    BY <1>3, <1>7, <2>1, <2>3
  <2>5. \A i \in Headers(n) : q < i => b <= i
    <3> SUFFICES ASSUME NEW i \in Headers(n), q < i, ~(b <= i) PROVE FALSE
      OBVIOUS
    <3>1. i \in Headers(ls)
      BY <1>3, <1>6, <1>10, <2>3
    <3> QED
      BY <2>2, <3>1
  <2>6. After(n, q) = b
    BY <2>2, <2>4, <2>5, AfterUnique
  <2>7. /\ q + 0 = q /\ q + 0 \in DOMAIN n
        /\ After(n, q + 0) = After(ls, q) + 0
    <3>1. q + 0 = q /\ b + 0 = b
      BY <2>1, <2>2
    <3> QED
      BY <3>1, <2>4, <2>6 DEF b
  <2>8. \A i \in Body(ls, q) : n[i + 0] = ls[i]
    <3> TAKE i \in Body(ls, q)
    <3>1. i \in Nat /\ q < i /\ i < b
      BY <2>1, BodyLines DEF b
    <3>2. i \in 1 .. a - 1 /\ i + 0 = i
      BY <1>3, <2>1, <2>3, <3>1
    <3> QED
      BY <3>2
  <2>9. KeysAt(n, q + 0) = KeysAt(ls, q) /\ EndpointOf(n, q + 0) = EndpointOf(ls, q)
    BY <2>1, <2>7, <2>8, MovedSection
  <2> QED
    BY <2>7, <2>9
\* Sections behind it.
<1>12. ASSUME NEW q \in Headers(ls), p < q
       PROVE  /\ a <= q
              /\ KeysAt(n, q + 1) = KeysAt(ls, q) /\ EndpointOf(n, q + 1) = EndpointOf(ls, q)
  <2>1. q \in 1 .. Len(ls) /\ q \in DOMAIN ls /\ q \in Nat /\ a <= q
    BY <1>2, <1>3, <1>6, <1>12
  <2> DEFINE b == After(ls, q)
  <2>2. /\ b \in Nat /\ q < b /\ b <= Len(ls) + 1
        /\ \A i \in Headers(ls) : q < i => b <= i
        /\ b <= Len(ls) => b \in Headers(ls)
    BY <2>1, AfterIs
  <2> HIDE DEF b
  <2>3. /\ q + 1 \in DOMAIN n /\ b + 1 \in Nat /\ q + 1 < b + 1 /\ b + 1 <= Len(n) + 1
        /\ b + 1 <= Len(n) => b + 1 \in Headers(n)
    <3>1. q + 1 \in DOMAIN n /\ b + 1 \in Nat /\ q + 1 < b + 1 /\ b + 1 <= Len(n) + 1
      BY <1>3, <2>1, <2>2
    <3>2. a <= b /\ (b + 1 <= Len(n) => b <= Len(ls))
      BY <1>3, <2>1, <2>2
    <3>3. b <= Len(ls) => b + 1 \in Headers(n)
      BY <1>8, <2>2, <3>2
    <3> QED
      BY <3>1, <3>2, <3>3
  <2>4. \A i \in Headers(n) : q + 1 < i => b + 1 <= i
    <3> SUFFICES ASSUME NEW i \in Headers(n), q + 1 < i PROVE b + 1 <= i
      OBVIOUS
    <3>1. i \in Nat /\ a < i
      BY <1>3, <1>6, <2>1
    <3>2. i - 1 \in Headers(ls) /\ q < i - 1
      <4>1. i - 1 \in Headers(ls)
        BY <1>10, <3>1
      <4>2. q < i - 1
        BY <2>1, <3>1
      <4> QED
        BY <4>1, <4>2
    <3>3. b <= i - 1
      BY <2>2, <3>2
    <3> QED
      BY <2>2, <3>1, <3>3
  <2>5. After(n, q + 1) = b + 1
    BY <2>3, <2>4, AfterUnique
  <2>6. \A i \in Body(ls, q) : n[i + 1] = ls[i]
    <3> TAKE i \in Body(ls, q)
    <3>1. i \in 1 .. Len(ls) /\ i \in Nat /\ q < i
      BY <2>1, BodyLines
    <3>2. a <= i
      BY <1>3, <2>1, <3>1
    <3> QED
      BY <1>4, <3>1, <3>2
  <2>7. KeysAt(n, q + 1) = KeysAt(ls, q) /\ EndpointOf(n, q + 1) = EndpointOf(ls, q)
    <3>1. After(n, q + 1) = After(ls, q) + 1
      BY <2>5 DEF b
    <3> QED
      BY <2>1, <2>3, <2>6, <3>1, MovedSection
  <2> QED
    BY <2>1, <2>7
\* Its own section is longer by one line.
<1>13. After(n, p) = a + 1
  <2>1. \A i \in Headers(n) : p < i => a + 1 <= i
    <3> SUFFICES ASSUME NEW i \in Headers(n), p < i, ~(a + 1 <= i) PROVE FALSE
      OBVIOUS
    <3>1. i \in Nat /\ i < a
      BY <1>3, <1>6, <1>9
    <3>2. i \in Headers(ls)
      BY <1>10, <3>1
    <3> QED
      BY <1>2, <3>1, <3>2
  <2>2. a + 1 <= Len(n) => a + 1 \in Headers(n)
    BY <1>2, <1>3, <1>8
  <2>3. p \in DOMAIN n /\ a + 1 \in Nat /\ p < a + 1 /\ a + 1 <= Len(n) + 1
    BY <1>2, <1>3
  <2> QED
    BY <2>1, <2>2, <2>3, AfterUnique
<1>14. /\ \A i : i \in Body(ls, p) <=> i \in Nat /\ p < i /\ i < a
       /\ \A i : i \in Body(n, p) <=> i \in Nat /\ p < i /\ i < a + 1
  <2>1. p \in DOMAIN n /\ p \in DOMAIN ls /\ n \in Seq(Line) /\ ls \in Seq(Line)
    BY <1>3
  <2>2. \A i : i \in Body(ls, p) <=> i \in Nat /\ p < i /\ i < After(ls, p)
    BY <2>1, BodyLines
  <2>3. \A i : i \in Body(n, p) <=> i \in Nat /\ p < i /\ i < After(n, p)
    BY <2>1, BodyLines
  <2> QED
    BY <1>13, <2>2, <2>3
<1>15. \A i \in Body(ls, p) : i \in Body(n, p) /\ n[i] = ls[i]
  BY <1>3, <1>14
<1>16. \A i \in Body(n, p) : i = a \/ i \in Body(ls, p)
  BY <1>3, <1>14
<1>17. KeysAt(n, p) = KeysAt(ls, p)
  <2>1. ASSUME NEW v \in KeysAt(n, p) PROVE v \in KeysAt(ls, p)
    <3>1. PICK i \in Body(n, p) : n[i].kind = "key" /\ n[i].value = v
      BY <2>1 DEF KeysAt
    <3>2. i \in Body(ls, p) /\ n[i] = ls[i]
      BY <1>5, <1>15, <1>16, <3>1
    <3> QED
      BY <3>1, <3>2 DEF KeysAt
  <2>2. ASSUME NEW v \in KeysAt(ls, p) PROVE v \in KeysAt(n, p)
    <3>1. PICK i \in Body(ls, p) : ls[i].kind = "key" /\ ls[i].value = v
      BY <2>2 DEF KeysAt
    <3>2. i \in Body(n, p) /\ n[i] = ls[i]
      BY <1>15, <3>1
    <3> QED
      BY <3>1, <3>2 DEF KeysAt
  <2> QED
    BY <2>1, <2>2
<1>18. EndpointOf(n, p) = e
  <2>1. p \in DOMAIN n /\ a \in EndpointsAt(n, p)
    BY <1>2, <1>3, <1>5, <1>14 DEF EndpointsAt
  <2>2. \A i \in EndpointsAt(n, p) : i <= a
    BY <1>3, <1>14 DEF EndpointsAt
  <2> QED
    BY <1>5, <2>1, <2>2, LastEndpoint
<1> DEFINE at(i) == Moved(i, a, Len(n) - Len(ls))
<1>19. \A i \in Nat : at(i) = IF i < a THEN i ELSE i + 1
  <2>1. Len(n) - Len(ls) = 1
    BY <1>3
  <2> QED
    BY <2>1 DEF Moved
<1> HIDE DEF at
<1>20. \A i \in DOMAIN ls : at(i) # a => n[at(i)] = ls[i]
  <2> TAKE i \in DOMAIN ls
  <2>1. i \in Nat /\ i \in 1 .. Len(ls)
    BY <1>3
  <2>2. CASE i < a
    <3>1. i \in 1 .. a - 1 /\ at(i) = i
      BY <1>3, <1>19, <2>1, <2>2
    <3> QED
      BY <3>1
  <2>3. CASE ~(i < a)
    <3>1. a <= i
      BY <2>1, <2>3
    <3>2. at(i) = i + 1
      BY <1>19, <2>1, <2>3
    <3> QED
      BY <1>4, <2>1, <3>1, <3>2
  <2> QED
    BY <2>2, <2>3
<1>21. \A q \in Headers(ls) :
         /\ KeysAt(n, at(q)) = KeysAt(ls, q)
         /\ EndpointOf(n, at(q)) = IF q = p THEN e ELSE EndpointOf(ls, q)
  <2> TAKE q \in Headers(ls)
  <2>1. q \in Nat
    BY <1>6
  <2>2. CASE q = p
    <3>1. p < a
      BY <1>2
    <3>2. at(p) = p
      BY <1>19, <3>1
    <3> QED
      BY <1>17, <1>18, <2>2, <3>2
  <2>3. CASE q < p
    <3>1. at(q) = q /\ q # p
      <4>1. q < a /\ q # p
        BY <1>2, <2>1, <2>3
      <4> QED
        BY <1>19, <2>1, <4>1
    <3>2. KeysAt(n, q) = KeysAt(ls, q) /\ EndpointOf(n, q) = EndpointOf(ls, q)
      BY <1>11, <2>3
    <3> QED
      BY <3>1, <3>2
  <2>4. CASE p < q
    <3>1. at(q) = q + 1 /\ q # p
      <4>1. ~(q < a) /\ q # p
        BY <1>2, <2>1, <2>4
      <4> QED
        BY <1>19, <2>1, <4>1
    <3>2. KeysAt(n, q + 1) = KeysAt(ls, q) /\ EndpointOf(n, q + 1) = EndpointOf(ls, q)
      BY <1>12, <2>4
    <3> QED
      BY <3>1, <3>2
  <2>5. q < p \/ q = p \/ p < q
    BY <2>1
  <2> QED
    BY <2>2, <2>3, <2>4, <2>5
<1> QED
  BY <1>3, <1>20, <1>21 DEF ChangesEndpoint, at

\* Put changes the endpoint of the first section of the peer, and nothing else.
LEMMA PutChanges ==
  ASSUME NEW f \in Text, NEW k \in STRING, NEW e \in STRING,
         Sections(f.lines, k) # {}, NEW p, p = Min(Sections(f.lines, k)),
         NEW g, g = Put(f, p, k, e)
  PROVE  \E at \in DOMAIN g.lines : ChangesEndpoint(f.lines, g.lines, k, e, at)
<1> DEFINE ls == f.lines
           es == EndpointLines(ls, p, k)
           n  == g.lines
<1>1. ls \in Seq(Line) /\ f.nl = TRUE
  BY DEF Text
<1>2. p \in DOMAIN ls
  BY <1>1, WhereSectionsAre, MinLeast
<1>3. CASE es # {}
  <2> DEFINE m == Max(es)
  <2>1. es \subseteq 1 .. Len(ls) /\ Len(ls) \in Nat
    BY <1>1, <1>2, BodyLines DEF EndpointLines
  <2>2. m \in es
    BY <1>3, <2>1, MaxGreatest
  <2>3. n = [ls EXCEPT ![m] = Endpoint(e)]
    BY <1>3 DEF Put
  <2>4. m \in DOMAIN ls
    BY <1>1, <2>1, <2>2
  <2> HIDE DEF m, n, ls, es
  <2>5. n \in Seq(Line) /\ Len(n) = Len(ls) /\ n[m] = Endpoint(e)
        /\ \A i \in DOMAIN ls : i # m => n[i] = ls[i]
    BY <1>1, <2>3, <2>4, LineKinds
  <2>6. m \in DOMAIN n /\ ChangesEndpoint(ls, n, k, e, m)
    <3>1. Sections(ls, k) # {} /\ p = Min(Sections(ls, k))
      BY DEF ls
    <3>2. m \in EndpointLines(ls, p, k) /\ m = Max(EndpointLines(ls, p, k))
      BY <2>2 DEF m, es
    <3> QED
      BY <1>1, <2>5, <3>1, <3>2, ReplacedChanges
  <2> QED
    BY <2>6 DEF n, ls
<1>4. CASE es = {}
  <2> DEFINE a == After(ls, p)
  <2>1. n = InsertAt(ls, a, Endpoint(e))
    <3>1. g = [f EXCEPT !.lines = InsertAt(ls, a, Endpoint(e))]
      BY <1>1, <1>4 DEF Put
    <3>2. f = [lines |-> f.lines, nl |-> f.nl]
      BY DEF Text
    <3> QED
      BY <3>1, <3>2
  <2>2. a \in 1 .. Len(ls) + 1
    BY <1>1, <1>2, AfterIs
  <2>3. Sections(ls, k) # {} /\ Min(Sections(ls, k)) = p /\ After(ls, p) = a /\ p \in Nat
    BY <1>1, <1>2, BodyLines
  <2> HIDE DEF n, ls, a
  <2>4. /\ n \in Seq(Line) /\ Len(n) = Len(ls) + 1
        /\ \A i \in 1 .. a - 1 : n[i] = ls[i]
        /\ n[a] = Endpoint(e)
        /\ \A i \in a + 1 .. Len(ls) + 1 : n[i] = ls[i - 1]
    <3>1. Endpoint(e) \in Line
      BY LineKinds
    <3>2. /\ InsertAt(ls, a, Endpoint(e)) \in Seq(Line)
          /\ Len(InsertAt(ls, a, Endpoint(e))) = Len(ls) + 1
          /\ \A i \in 1 .. a - 1 : InsertAt(ls, a, Endpoint(e))[i] = ls[i]
          /\ InsertAt(ls, a, Endpoint(e))[a] = Endpoint(e)
          /\ \A i \in a + 1 .. Len(ls) + 1 : InsertAt(ls, a, Endpoint(e))[i] = ls[i - 1]
      BY <1>1, <2>2, <3>1, Inserted
    <3> QED
      BY <2>1, <3>2
  <2>5. a \in DOMAIN n /\ ChangesEndpoint(ls, n, k, e, a)
    BY <1>1, <2>2, <2>3, <2>4, InsertedChanges
  <2> QED
    BY <2>5 DEF n, ls
<1> QED
  BY <1>3, <1>4

(***************************************************************************)
(* Types.                                                                  *)
(***************************************************************************)

\* The first section of a peer is a section.
LEMMA FirstSection ==
  ASSUME NEW ss \in Seq(Section), NEW k, FindPeerSections(ss, k) # {}
  PROVE  /\ Min(FindPeerSections(ss, k)) \in FindPeerSections(ss, k)
         /\ Min(FindPeerSections(ss, k)) \in DOMAIN ss
         /\ Min(FindPeerSections(ss, k)) \in Nat
         /\ \A j \in FindPeerSections(ss, k) : Min(FindPeerSections(ss, k)) <= j
<1>1. FindPeerSections(ss, k) \subseteq DOMAIN ss /\ DOMAIN ss \subseteq Nat
  BY DEF FindPeerSections
<1> QED
  BY <1>1, MinLeast

\* What is reported decides about the history (Go).
LEMMA GoesOn ==
  ASSUME TypeOK, NEW s, Go(s)
  PROVE  /\ req' = [req EXCEPT !.step = s]
         /\ req' = [step |-> s, key |-> req.key, endpoint |-> req.endpoint,
                    section |-> req.section]
         /\ s = "ok" => failed' = failed \ {req.key}
         /\ s = "failed" => failed' = failed \cup {req.key}
         /\ s \notin {"ok", "failed"} => failed' = failed
<1>1. req' = [req EXCEPT !.step = s]
  BY DEF Go, Goes
<1>2. req' = [step |-> s, key |-> req.key, endpoint |-> req.endpoint,
              section |-> req.section]
  BY <1>1 DEF TypeOK
<1>3. req'.step = s /\ req'.key = req.key
  BY <1>2
<1>4. failed' = CASE req'.step = "ok"     -> failed \ {req'.key}
                  [] req'.step = "failed" -> failed \cup {req'.key}
                  [] OTHER                -> failed
  BY <1>1 DEF Go, Goes
<1> QED
  BY <1>1, <1>2, <1>3, <1>4

\* What one command does to the sections (RunUci).
LEMMA UciSteps ==
  ASSUME TypeOK, RunUci
  PROVE  /\ uci' = [committed |-> uci'.committed, staged |-> uci'.staged]
         /\ req.step \in {"host", "port"} =>
              /\ uci'.committed = uci.committed
              /\ uci'.staged \in Seq(Section) /\ DOMAIN uci'.staged = DOMAIN uci.staged
              /\ \A i \in DOMAIN uci.staged : i # req.section => uci'.staged[i] = uci.staged[i]
              /\ uci'.staged[req.section].key = uci.staged[req.section].key
         /\ req.step = "host" =>
              /\ uci'.staged[req.section].host = req.endpoint
              /\ req' = [req EXCEPT !.step = "port"] /\ failed' = failed
         /\ req.step = "port" =>
              /\ uci'.staged[req.section].host = uci.staged[req.section].host
              /\ uci'.staged[req.section].port = req.endpoint
              /\ req' = [req EXCEPT !.step = "commit"] /\ failed' = failed
         /\ req.step = "commit" =>
              /\ uci'.committed = uci.staged /\ uci'.staged = uci.staged
              /\ req' = [req EXCEPT !.step = AfterStore(TRUE)]
              /\ failed' = IF link.reload THEN failed ELSE failed \ {req.key}
<1>1. /\ uci.committed \in Seq(Section) /\ uci.staged \in Seq(Section)
      /\ uci = [committed |-> uci.committed, staged |-> uci.staged]
      /\ req.step \in {"host", "port", "commit"}
      /\ req.endpoint \in Address /\ req.section \in DOMAIN uci.staged
  BY DEF TypeOK, RunUci, Over
<1>2. uci.staged[req.section] \in Section
  BY <1>1
<1>3. CASE req.step = "host"
  <2>1. uci' = [uci EXCEPT !.staged[req.section].host = req.endpoint]
    BY <1>3 DEF RunUci
  <2> DEFINE s == [uci.staged[req.section] EXCEPT !.host = req.endpoint]
             ss == [uci.staged EXCEPT ![req.section] = s]
  <2>2. s \in Section /\ s.host = req.endpoint /\ s.key = uci.staged[req.section].key
    BY <1>1, <1>2 DEF Section
  <2>3. uci' = [committed |-> uci.committed, staged |-> ss]
    BY <2>1, <1>1
  <2>4. ss \in Seq(Section) /\ DOMAIN ss = DOMAIN uci.staged /\ ss[req.section] = s
        /\ \A i \in DOMAIN uci.staged : i # req.section => ss[i] = uci.staged[i]
    <3> HIDE DEF s
    <3> QED
      BY <2>2, <1>1
  <2>5. req' = [req EXCEPT !.step = "port"] /\ failed' = failed
    <3>1. NextUci[req.step] = "port"
      BY <1>3 DEF NextUci
    <3>2. Go("port")
      BY <3>1 DEF RunUci
    <3> QED
      BY <3>2, GoesOn
  <2> HIDE DEF s, ss
  <2> QED
    BY <1>3, <2>2, <2>3, <2>4, <2>5
<1>4. CASE req.step = "port"
  <2>1. uci' = [uci EXCEPT !.staged[req.section].port = req.endpoint]
    BY <1>4 DEF RunUci
  <2> DEFINE s == [uci.staged[req.section] EXCEPT !.port = req.endpoint]
             ss == [uci.staged EXCEPT ![req.section] = s]
  <2>2. s \in Section /\ s.port = req.endpoint /\ s.key = uci.staged[req.section].key
        /\ s.host = uci.staged[req.section].host
    BY <1>1, <1>2 DEF Section
  <2>3. uci' = [committed |-> uci.committed, staged |-> ss]
    BY <2>1, <1>1
  <2>4. ss \in Seq(Section) /\ DOMAIN ss = DOMAIN uci.staged /\ ss[req.section] = s
        /\ \A i \in DOMAIN uci.staged : i # req.section => ss[i] = uci.staged[i]
    <3> HIDE DEF s
    <3> QED
      BY <2>2, <1>1
  <2>5. req' = [req EXCEPT !.step = "commit"] /\ failed' = failed
    <3>1. NextUci[req.step] = "commit"
      BY <1>4 DEF NextUci
    <3>2. Go("commit")
      BY <3>1 DEF RunUci
    <3> QED
      BY <3>2, GoesOn
  <2> HIDE DEF s, ss
  <2> QED
    BY <1>4, <2>2, <2>3, <2>4, <2>5
<1>5. CASE req.step = "commit"
  <2>1. uci' = [uci EXCEPT !.committed = uci.staged]
    BY <1>5 DEF RunUci
  <2>2. uci' = [committed |-> uci.staged, staged |-> uci.staged]
    BY <2>1, <1>1
  <2>3. req' = [req EXCEPT !.step = AfterStore(TRUE)]
        /\ failed' = IF link.reload THEN failed ELSE failed \ {req.key}
    <3>1. NextUci[req.step] = AfterStore(TRUE)
      BY <1>5 DEF NextUci
    <3>2. Go(AfterStore(TRUE))
      BY <3>1 DEF RunUci
    <3>3. AfterStore(TRUE) = IF link.reload THEN "reload" ELSE "ok"
      BY DEF AfterStore
    <3> QED
      BY <3>2, <3>3, GoesOn
  <2> QED
    BY <1>5, <2>2, <2>3
<1> QED
  BY <1>1, <1>3, <1>4, <1>5

\* Types are an invariant.
THEOREM TypeCorrect == ApplySpec => []TypeOK
<1>1. ApplyInit => TypeOK
  <2> SUFFICES ASSUME ApplyInit PROVE TypeOK
    OBVIOUS
  <2>1. link \in [type : {"wg_conf", "openwrt_uci", "runtime"}, reload : BOOLEAN]
    BY DEF ApplyInit
  <2>2. uci \in [committed : Seq(Section), staged : Seq(Section)]
    <3>1. PICK ss \in Seq(Section) : uci = [committed |-> ss, staged |-> ss]
      <4>1. CASE uci = [committed |-> <<>>, staged |-> <<>>]
        <5>1. <<>> \in Seq(Section)
          OBVIOUS
        <5> QED
          BY <4>1, <5>1
      <4>2. CASE \E ss \in UciStart : uci = [committed |-> ss, staged |-> ss]
        BY <4>2, ApplyAssumption
      <4> QED
        BY <4>1, <4>2 DEF ApplyInit
    <3> QED
      BY <3>1
  <2>3. live = [up |-> live.up, base |-> live.base, set |-> live.set]
        /\ live.up \in BOOLEAN /\ live.set \in [Key -> Address \cup {"none"}]
    BY DEF ApplyInit, Unset
  <2>4. req = NoReq /\ failed = {} /\ crashes = 0
    BY DEF ApplyInit, Init
  <2> QED
    BY <2>1, <2>2, <2>3, <2>4 DEF TypeOK, NoReq, Over
<1>2. TypeOK /\ [ApplyNext]_applyVars => TypeOK'
  <2> SUFFICES ASSUME TypeOK, [ApplyNext]_applyVars PROVE TypeOK'
    OBVIOUS
  <2> DEFINE LinkOK == link \in [type : {"wg_conf", "openwrt_uci", "runtime"}, reload : BOOLEAN]
             UciOK  == uci \in [committed : Seq(Section), staged : Seq(Section)]
             LiveOK == /\ live = [up |-> live.up, base |-> live.base, set |-> live.set]
                       /\ live.up \in BOOLEAN /\ live.set \in [Key -> Address \cup {"none"}]
             ReqOK  == /\ req \in [step : {"idle", "ok", "failed", "store", "host", "port",
                                           "commit", "reload"},
                                   key : Key \cup {""}, endpoint : Address \cup {""},
                                   section : Nat]
                       /\ ~Over => req.key \in Key /\ req.endpoint \in Address
                       /\ req.step \in {"host", "port", "commit"} =>
                            req.section \in DOMAIN uci.staged
             PastOK == failed \subseteq Key /\ crashes \in Nat
  <2>0. LinkOK /\ UciOK /\ LiveOK /\ ReqOK /\ PastOK
    BY DEF TypeOK
  <2>a. ASSUME LinkOK', UciOK', LiveOK', ReqOK', PastOK' PROVE TypeOK'
    BY <2>a DEF TypeOK
  <2>s. AfterStore(TRUE) \in {"reload", "ok"} /\ AfterStore(FALSE) \in {"reload", "ok"}
    BY DEF AfterStore
  \* A command that begins, or is refused.
  <2>b. ASSUME NEW t, NEW k \in Key, NEW e \in Address, NEW i \in Nat,
               NEW s \in {"store", "host", "reload", "ok"},
               s = "host" => i \in DOMAIN uci.staged,
               Begin(t, k, e, s, i)
        PROVE  ReqOK' /\ failed' \subseteq Key
    <3>1. req' = [step |-> s, key |-> k, endpoint |-> e, section |-> i] /\ uci' = uci
      BY <2>b DEF Begin, Goes
    <3>2. failed' \in {failed, failed \ {k}}
      BY <2>b DEF Begin, Goes
    <3> QED
      BY <2>b, <2>0, <3>1, <3>2 DEF Over
  <2>r. ASSUME req' = NoReq PROVE ReqOK'
    BY <2>r DEF NoReq, Over
  <2>g. ASSUME NEW s \in {"ok", "failed", "reload"}, Go(s), ~Over
        PROVE  ReqOK' /\ failed' \subseteq Key
    <3>0. req.endpoint \in Address
      BY <2>g, <2>0
    <3>1. req' = [step |-> s, key |-> req.key, endpoint |-> req.endpoint,
                  section |-> req.section]
          /\ failed' \in {failed, failed \ {req.key}, failed \cup {req.key}}
      BY <2>g, GoesOn
    <3> QED
      BY <2>0, <2>g, <3>0, <3>1 DEF Over
  <2>c. crashes \in Nat /\ MaxCrashes \in Nat
    BY <2>0, WGConfAssumption
  <2> HIDE DEF LinkOK, UciOK, LiveOK, ReqOK, PastOK
  <2>w. \A k, e : UpdateWGConf(k, e) => crashes' = crashes
    BY DEF UpdateWGConf
  <2>1. ASSUME NEW k \in Key, NEW e \in Address, ApplyWGConf(k, e) PROVE TypeOK'
    <3>1. link' = link /\ uci' = uci /\ live' = live
      BY <2>1 DEF ApplyWGConf, Begin, Refuse
    <3>2. crashes' = crashes
      BY <2>1, <2>w DEF ApplyWGConf, vars
    <3>3. ReqOK' /\ failed' \subseteq Key
      <4>1. CASE Begin("wg_conf", k, e, "store", 0)
        BY <4>1, <2>b
      <4>2. CASE Begin("wg_conf", k, e, AfterStore(FALSE), 0)
        BY <4>2, <2>b, <2>s
      <4>3. CASE Refuse("wg_conf")
        BY <4>3, <2>r, <2>0 DEF Refuse, PastOK
      <4> QED
        BY <2>1, <4>1, <4>2, <4>3 DEF ApplyWGConf
    <3>4. LinkOK' /\ UciOK' /\ LiveOK'
      BY <2>0, <3>1 DEF LinkOK, UciOK, LiveOK
    <3> QED
      BY <2>a, <2>c, <3>2, <3>3, <3>4 DEF PastOK
  <2>2. ASSUME NEW k \in Key, NEW e \in Address, UpdateOpenWrtUCI(k, e) PROVE TypeOK'
    <3>1. link' = link /\ uci' = uci /\ live' = live /\ crashes' = crashes
      BY <2>2 DEF UpdateOpenWrtUCI, Begin, Refuse, vars
    <3>2. ReqOK' /\ failed' \subseteq Key
      <4>1. CASE FindPeerSections(uci.staged, k) # {}
        <5>1. Min(FindPeerSections(uci.staged, k)) \in DOMAIN uci.staged
              /\ Min(FindPeerSections(uci.staged, k)) \in Nat
          BY <4>1, <2>0, FirstSection DEF UciOK
        <5>2. Begin("openwrt_uci", k, e, "host", Min(FindPeerSections(uci.staged, k)))
          BY <2>2, <4>1 DEF UpdateOpenWrtUCI
        <5> QED
          BY <5>1, <5>2, <2>b
      <4>2. CASE Refuse("openwrt_uci")
        BY <4>2, <2>r, <2>0 DEF Refuse, PastOK
      <4> QED
        BY <2>2, <4>1, <4>2 DEF UpdateOpenWrtUCI
    <3>3. LinkOK' /\ UciOK' /\ LiveOK'
      BY <2>0, <3>1 DEF LinkOK, UciOK, LiveOK
    <3> QED
      BY <2>a, <2>c, <3>1, <3>2, <3>3 DEF PastOK
  <2>3. ASSUME NEW k \in Key, NEW e \in Address, WGSetEndpoint(k, e) PROVE TypeOK'
    <3>1. link' = link /\ uci' = uci /\ crashes' = crashes
      BY <2>3 DEF WGSetEndpoint, Begin, Refuse, vars
    <3>2. ReqOK' /\ failed' \subseteq Key
      <4>1. CASE Begin("runtime", k, e, AfterStore(TRUE), 0)
        BY <4>1, <2>b, <2>s
      <4>2. CASE Refuse("runtime")
        BY <4>2, <2>r, <2>0 DEF Refuse, PastOK
      <4> QED
        BY <2>3, <4>1, <4>2 DEF WGSetEndpoint
    <3>3. LiveOK'
      <4>1. live' \in {live, [live EXCEPT !.set[k] = e]}
        BY <2>3 DEF WGSetEndpoint
      <4> QED
        BY <4>1, <2>0 DEF LiveOK
    <3>4. LinkOK' /\ UciOK'
      BY <2>0, <3>1 DEF LinkOK, UciOK
    <3> QED
      BY <2>a, <2>c, <3>1, <3>2, <3>3, <3>4 DEF PastOK
  <2>4. CASE Store
    <3>1. link' = link /\ uci' = uci /\ live' = live /\ ~Over
      BY <2>4 DEF Store, Over
    <3>2. crashes' \in {crashes, crashes + 1}
      BY <2>4 DEF Store, WriteBackup, OpenFile, WriteFile, Crash
    <3>3. ReqOK' /\ failed' \subseteq Key
      <4>1. CASE UNCHANGED <<req, failed>>
        BY <4>1, <2>0, <3>1 DEF ReqOK, PastOK, Over
      <4>2. CASE Go(AfterStore(TRUE))
        BY <4>2, <2>g, <2>s, <3>1
      <4>3. CASE Go("failed")
        BY <4>3, <2>g, <3>1
      <4> QED
        BY <2>4, <4>1, <4>2, <4>3 DEF Store
    <3>4. LinkOK' /\ UciOK' /\ LiveOK'
      BY <2>0, <3>1 DEF LinkOK, UciOK, LiveOK
    <3> QED
      BY <2>a, <2>c, <3>2, <3>3, <3>4 DEF PastOK
  <2>5. CASE RunUci
    <3>1. link' = link /\ live' = live /\ crashes' = crashes /\ ~Over
          /\ req.step \in {"host", "port", "commit"}
      BY <2>5 DEF RunUci, vars, Over
    <3>2. /\ uci.committed \in Seq(Section) /\ uci.staged \in Seq(Section)
          /\ req.section \in DOMAIN uci.staged
      BY <3>1 DEF TypeOK
    <3>3. UciOK'
      BY <2>5, <3>1, <3>2, UciSteps DEF UciOK
    <3>4. ReqOK' /\ failed' \subseteq Key
      <4>1. CASE req.step = "commit"
        <5>1. NextUci[req.step] = AfterStore(TRUE)
          BY <4>1 DEF NextUci
        <5>2. Go(AfterStore(TRUE))
          BY <2>5, <5>1 DEF RunUci
        <5> QED
          BY <5>2, <3>1, <2>s, <2>g
      <4>2. CASE req.step \in {"host", "port"}
        <5>1. DOMAIN uci'.staged = DOMAIN uci.staged /\ failed' = failed
              /\ req' \in {[req EXCEPT !.step = "port"], [req EXCEPT !.step = "commit"]}
          BY <4>2, <2>5, UciSteps
        <5> QED
          BY <5>1, <3>1, <3>2, <2>0 DEF ReqOK, PastOK
      <4> QED
        BY <3>1, <4>1, <4>2
    <3>5. LinkOK' /\ LiveOK'
      BY <2>0, <3>1 DEF LinkOK, LiveOK
    <3> QED
      BY <2>a, <2>c, <3>1, <3>3, <3>4, <3>5 DEF PastOK
  <2>6. CASE ReloadInterface
    <3>1. link' = link /\ uci' = uci /\ crashes' = crashes /\ ~Over /\ Go("ok")
          /\ live' = [up |-> TRUE, base |-> Stored, set |-> Unset]
      BY <2>6 DEF ReloadInterface, vars, Over
    <3>2. LinkOK' /\ UciOK'
      BY <2>0, <3>1 DEF LinkOK, UciOK
    <3>3. LiveOK'
      BY <3>1 DEF LiveOK, Unset
    <3> QED
      BY <2>a, <2>c, <2>g, <3>1, <3>2, <3>3 DEF PastOK
  <2>7. CASE Fail
    <3>1. link' = link /\ uci' = uci /\ crashes' = crashes + 1 /\ ~Over /\ Go("failed")
      BY <2>7 DEF Fail, Over
    <3>2. LinkOK' /\ UciOK'
      BY <2>0, <3>1 DEF LinkOK, UciOK
    <3>3. LiveOK'
      <4>1. live' \in {live, [live EXCEPT !.up = FALSE, !.set = Unset]}
        BY <2>7 DEF Fail
      <4>2. Unset \in [Key -> Address \cup {"none"}]
        BY DEF Unset
      <4>3. CASE live' = live
        BY <4>3, <2>0 DEF LiveOK
      <4>4. CASE live' = [live EXCEPT !.up = FALSE, !.set = Unset]
        <5>1. live' = [up |-> FALSE, base |-> live.base, set |-> Unset]
          BY <4>4, <2>0 DEF LiveOK
        <5> QED
          BY <5>1, <4>2 DEF LiveOK
      <4> QED
        BY <4>1, <4>3, <4>4
    <3> QED
      BY <2>a, <2>c, <2>g, <3>1, <3>2, <3>3 DEF PastOK
  <2>8. CASE Reboot
    <3>1. link' = link /\ crashes' = crashes + 1 /\ failed' = failed /\ req' = NoReq
          /\ live' = [up |-> TRUE, base |-> Stored, set |-> Unset]
          /\ uci' = [uci EXCEPT !.staged = uci.committed]
      BY <2>8 DEF Reboot
    <3>2. LinkOK' /\ UciOK' /\ LiveOK'
      BY <2>0, <3>1 DEF LinkOK, UciOK, LiveOK, Unset
    <3> QED
      BY <2>a, <2>c, <2>r, <2>0, <3>1, <3>2 DEF PastOK
  <2>9. CASE UNCHANGED applyVars
    BY <2>9 DEF applyVars, vars, TypeOK, Over
  <2> QED
    BY <2>1, <2>2, <2>3, <2>4, <2>5, <2>6, <2>7, <2>8, <2>9 DEF ApplyNext
<1> QED
  BY <1>1, <1>2, PTL DEF ApplySpec

(***************************************************************************)
(* Halves.  A section whose host and port differ is the first of its peer,  *)
(* because no other is ever written; and the peer's last endpoint.apply was *)
(* cut short, or is between its two "uci set".                             *)
(***************************************************************************)
Half(ss)  == {i \in DOMAIN ss : ss[i].host # ss[i].port}
First(ss) == {i \in DOMAIN ss : \A j \in FindPeerSections(ss, ss[i].key) : i <= j}

InUci == link.type = "openwrt_uci"
AtUci == InUci /\ req.step \in {"host", "port", "commit", "reload", "ok"}

SameSections ==
  /\ DOMAIN uci.committed = DOMAIN uci.staged
  /\ \A i \in DOMAIN uci.staged : uci.committed[i].key = uci.staged[i].key

WhereHalves ==
  /\ Half(uci.staged) \subseteq First(uci.staged)
  /\ Half(uci.committed) \subseteq First(uci.committed)
  /\ ~InUci => Half(uci.staged) = {} /\ Half(uci.committed) = {}

WhoseHalves ==
  /\ \A i \in Half(uci.committed) : uci.committed[i].key \in failed
  /\ \A i \in Half(uci.staged) :
       uci.staged[i].key \in failed \/ (req.step = "port" /\ i = req.section)

UciRequest ==
  /\ req.step = "store" => ~InUci
  /\ req.step \in {"host", "port", "commit"} => InUci
  /\ AtUci => /\ req.section \in First(uci.staged)
              /\ uci.staged[req.section].key = req.key
              /\ req.step = "port" => uci.staged[req.section].host = req.endpoint
              /\ req.step \in {"commit", "reload", "ok"} =>
                   /\ uci.staged[req.section].host = req.endpoint
                   /\ uci.staged[req.section].port = req.endpoint
              /\ req.step \in {"reload", "ok"} =>
                   /\ uci.committed[req.section].host = req.endpoint
                   /\ uci.committed[req.section].port = req.endpoint

UciInv == SameSections /\ WhereHalves /\ WhoseHalves /\ UciRequest

\* Which sections are first depends on the keys only.
LEMMA SameFirst ==
  ASSUME NEW ss \in Seq(Section), NEW tt \in Seq(Section), DOMAIN tt = DOMAIN ss,
         \A i \in DOMAIN ss : tt[i].key = ss[i].key
  PROVE  First(tt) = First(ss)
<1>1. \A k : FindPeerSections(tt, k) = FindPeerSections(ss, k)
  BY DEF FindPeerSections
<1> QED
  BY <1>1 DEF First

\* Two first sections of one peer are the same.
LEMMA OneFirst ==
  ASSUME NEW ss \in Seq(Section), NEW i \in First(ss), NEW j \in First(ss),
         ss[i].key = ss[j].key
  PROVE  i = j
<1>1. i \in FindPeerSections(ss, ss[j].key) /\ j \in FindPeerSections(ss, ss[i].key)
  BY DEF First, FindPeerSections
<1>2. i <= j /\ j <= i /\ i \in Nat /\ j \in Nat
  BY <1>1 DEF First
<1> QED
  BY <1>2

\* When a command has stored both parts, its peer can leave the history.
LEMMA SuccessHeals ==
  ASSUME TypeOK, UciInv, AtUci, NEW ss, ss \in {uci.staged, uci.committed},
         ss[req.section].host = ss[req.section].port
  PROVE  \A i \in Half(ss) : ss[i].key # req.key
<1>1. uci.staged \in Seq(Section) /\ uci.committed \in Seq(Section)
  BY DEF TypeOK
<1>2. First(uci.committed) = First(uci.staged)
  BY <1>1, SameFirst DEF UciInv, SameSections
<1>3. req.section \in First(ss) /\ ss[req.section].key = req.key /\ ss \in Seq(Section)
  <2>1. req.section \in DOMAIN uci.staged
    BY DEF UciInv, UciRequest, First
  <2> QED
    BY <1>1, <1>2, <2>1 DEF UciInv, UciRequest, SameSections
<1>4. Half(ss) \subseteq First(ss)
  BY DEF UciInv, WhereHalves
<1> SUFFICES ASSUME NEW i \in Half(ss), ss[i].key = req.key PROVE FALSE
  OBVIOUS
<1>5. i = req.section
  BY <1>3, <1>4, OneFirst
<1> QED
  BY <1>5 DEF Half

\* Nothing of it changes when the sections, the back end and the history stay and
\* no command is at work on the sections.
LEMMA UciIdle ==
  ASSUME UciInv, link' = link, uci' = uci, failed \subseteq failed',
         req.step # "port", ~AtUci',
         req'.step \notin {"store", "host", "port", "commit"}
  PROVE  UciInv'
<1>1. SameSections' /\ WhereHalves'
  BY DEF UciInv, SameSections, WhereHalves, InUci, Half, First, FindPeerSections
<1>2. WhoseHalves'
  <2>1. \A i \in Half(uci.committed) : uci.committed[i].key \in failed'
    BY DEF UciInv, WhoseHalves
  <2>2. \A i \in Half(uci.staged) : uci.staged[i].key \in failed'
    BY DEF UciInv, WhoseHalves
  <2> QED
    BY <2>1, <2>2 DEF WhoseHalves, Half
<1>3. UciRequest'
  BY DEF UciRequest
<1> QED
  BY <1>1, <1>2, <1>3 DEF UciInv

\* With another back end there are no halves to begin with.
LEMMA UciOther ==
  ASSUME UciInv, ~InUci, link' = link, uci' = uci,
         req'.step \notin {"host", "port", "commit"}
  PROVE  UciInv'
<1>1. SameSections' /\ WhereHalves'
  BY DEF UciInv, SameSections, WhereHalves, InUci, Half, First, FindPeerSections
<1>2. WhoseHalves' /\ UciRequest'
  BY DEF UciInv, WhereHalves, WhoseHalves, UciRequest, AtUci, InUci, Half
<1> QED
  BY <1>1, <1>2 DEF UciInv

\* "uci set" of the host, of the port, and the commit.
LEMMA RunUciKeeps ==
  ASSUME TypeOK, UciInv, RunUci
  PROVE  UciInv'
<1>1. /\ uci.committed \in Seq(Section) /\ uci.staged \in Seq(Section)
      /\ req.section \in DOMAIN uci.staged /\ link' = link /\ InUci /\ AtUci
      /\ req = [step |-> req.step, key |-> req.key, endpoint |-> req.endpoint,
                section |-> req.section]
  BY DEF TypeOK, RunUci, UciInv, UciRequest, AtUci
<1>2. req.section \in First(uci.staged) /\ uci.staged[req.section].key = req.key
  BY <1>1 DEF UciInv, UciRequest
<1>3. First(uci.committed) = First(uci.staged)
  BY <1>1, SameFirst DEF UciInv, SameSections
<1> DEFINE i0 == req.section
\* The two "uci set".
<1>4. ASSUME req.step \in {"host", "port"} PROVE UciInv'
  <2>1. /\ uci'.committed = uci.committed
        /\ uci'.staged \in Seq(Section) /\ DOMAIN uci'.staged = DOMAIN uci.staged
        /\ \A i \in DOMAIN uci.staged : i # i0 => uci'.staged[i] = uci.staged[i]
        /\ uci'.staged[i0].key = uci.staged[i0].key
        /\ failed' = failed
    BY <1>4, UciSteps
  <2>2. \A i \in DOMAIN uci.staged : uci'.staged[i].key = uci.staged[i].key
    BY <2>1
  <2>3. First(uci'.staged) = First(uci.staged)
    BY <1>1, <2>1, <2>2, SameFirst
  <2>4. SameSections'
    BY <2>1, <2>2 DEF UciInv, SameSections
  <2>5. WhereHalves'
    <3>1. Half(uci'.staged) \subseteq First(uci.staged)
      BY <1>2, <2>1 DEF Half, UciInv, WhereHalves
    <3>2. InUci'
      BY <1>1 DEF InUci
    <3> QED
      BY <2>1, <2>3, <3>1, <3>2 DEF UciInv, WhereHalves
  <2>6. \A i \in Half(uci'.committed) : uci'.committed[i].key \in failed'
    BY <2>1 DEF UciInv, WhoseHalves
  <2>7. \A i \in Half(uci'.staged) : i # i0 => uci'.staged[i].key \in failed'
    BY <2>1 DEF Half, UciInv, WhoseHalves
  <2>8. CASE req.step = "host"
    <3>1. req' = [step |-> "port", key |-> req.key, endpoint |-> req.endpoint,
                  section |-> i0] /\ uci'.staged[i0].host = req.endpoint
      BY <1>1, <2>8, UciSteps
    <3>2. WhoseHalves'
      BY <2>6, <2>7, <3>1 DEF WhoseHalves
    <3>3. UciRequest'
      BY <1>1, <1>2, <2>1, <2>3, <3>1 DEF UciRequest, AtUci, InUci
    <3> QED
      BY <2>4, <2>5, <3>2, <3>3 DEF UciInv
  <2>9. CASE req.step = "port"
    <3>1. req' = [step |-> "commit", key |-> req.key, endpoint |-> req.endpoint,
                  section |-> i0]
          /\ uci'.staged[i0].host = req.endpoint /\ uci'.staged[i0].port = req.endpoint
      BY <1>1, <2>9, UciSteps DEF UciInv, UciRequest
    <3>2. WhoseHalves'
      BY <2>6, <2>7, <3>1 DEF WhoseHalves, Half
    <3>3. UciRequest'
      BY <1>1, <1>2, <2>1, <2>3, <3>1 DEF UciRequest, AtUci, InUci
    <3> QED
      BY <2>4, <2>5, <3>2, <3>3 DEF UciInv
  <2> QED
    BY <1>4, <2>8, <2>9
\* The commit.
<1>5. ASSUME req.step = "commit" PROVE UciInv'
  <2>1. /\ uci'.committed = uci.staged /\ uci'.staged = uci.staged
        /\ req' = [step |-> AfterStore(TRUE), key |-> req.key, endpoint |-> req.endpoint,
                   section |-> i0]
        /\ failed' = IF link.reload THEN failed ELSE failed \ {req.key}
        /\ AfterStore(TRUE) = IF link.reload THEN "reload" ELSE "ok"
    BY <1>1, <1>5, UciSteps DEF AfterStore
  <2>2. uci.staged[i0].host = req.endpoint /\ uci.staged[i0].port = req.endpoint
    BY <1>1, <1>5 DEF UciInv, UciRequest
  <2>3. SameSections' /\ WhereHalves'
    BY <1>1, <2>1 DEF SameSections, WhereHalves, UciInv, InUci
  <2>4. \A i \in Half(uci.staged) : uci.staged[i].key # req.key
    BY <1>1, <2>2, SuccessHeals
  <2>5. \A i \in Half(uci.staged) : uci.staged[i].key \in failed'
    BY <1>5, <2>1, <2>4 DEF UciInv, WhoseHalves
  <2>6. WhoseHalves'
    BY <2>1, <2>5 DEF WhoseHalves
  <2>7. req'.step \in {"reload", "ok"} /\ req'.key = req.key
        /\ req'.endpoint = req.endpoint /\ req'.section = i0
    BY <2>1
  <2>8. UciRequest'
    BY <1>1, <1>2, <2>1, <2>2, <2>7 DEF UciRequest, AtUci, InUci
  <2> QED
    BY <2>3, <2>6, <2>8 DEF UciInv
<1> QED
  BY <1>4, <1>5 DEF RunUci

\* Every step keeps what is known of the sections.
LEMMA UciStep ==
  ASSUME TypeOK, UciInv, [ApplyNext]_applyVars
  PROVE  UciInv'
<1>s. AfterStore(TRUE) \in {"reload", "ok"} /\ AfterStore(FALSE) \in {"reload", "ok"}
  BY DEF AfterStore
<1>o. Over => req.step # "port"
  BY DEF Over
<1>r. NoReq.step = "idle"
  BY DEF NoReq
<1>1. ASSUME NEW k \in Key, NEW e \in Address, ApplyWGConf(k, e) PROVE UciInv'
  <2>1. ~InUci /\ link' = link /\ uci' = uci
    BY <1>1 DEF ApplyWGConf, Begin, Refuse, InUci
  <2>2. req'.step \in {"store", "reload", "ok", "idle"}
    <3>1. CASE Begin("wg_conf", k, e, "store", 0)
      BY <3>1 DEF Begin, Goes
    <3>2. CASE Begin("wg_conf", k, e, AfterStore(FALSE), 0)
      <4>1. req'.step = AfterStore(FALSE)
        BY <3>2 DEF Begin, Goes
      <4> QED
        BY <4>1, <1>s
    <3>3. CASE Refuse("wg_conf")
      BY <3>3, <1>r DEF Refuse
    <3> QED
      BY <1>1, <3>1, <3>2, <3>3 DEF ApplyWGConf
  <2> QED
    BY <2>1, <2>2, UciOther
<1>2. ASSUME NEW k \in Key, NEW e \in Address, UpdateOpenWrtUCI(k, e) PROVE UciInv'
  <2> DEFINE is == FindPeerSections(uci.staged, k)
  <2>1. CASE is # {}
    <3>1. Begin("openwrt_uci", k, e, "host", Min(is))
      BY <1>2, <2>1 DEF UpdateOpenWrtUCI
    <3>2. /\ link' = link /\ uci' = uci /\ InUci /\ Over
          /\ req' = [step |-> "host", key |-> k, endpoint |-> e, section |-> Min(is)]
          /\ failed' = failed
      BY <3>1 DEF Begin, Goes, InUci
    <3>3. Min(is) \in First(uci.staged) /\ uci.staged[Min(is)].key = k
      <4>1. uci.staged \in Seq(Section)
        BY DEF TypeOK
      <4>2. Min(is) \in is /\ Min(is) \in DOMAIN uci.staged /\ \A j \in is : Min(is) <= j
        BY <2>1, <4>1, FirstSection
      <4>3. uci.staged[Min(is)].key = k
        BY <4>2 DEF FindPeerSections
      <4> QED
        BY <4>2, <4>3 DEF First
    <3>4. SameSections' /\ WhereHalves'
      BY <3>2 DEF UciInv, SameSections, WhereHalves, InUci
    <3>5. WhoseHalves'
      BY <3>2, <1>o DEF UciInv, WhoseHalves
    <3> HIDE DEF is
    <3>6. UciRequest'
      BY <3>2, <3>3 DEF UciRequest, AtUci, InUci
    <3> QED
      BY <3>4, <3>5, <3>6 DEF UciInv
  <2>2. CASE is = {}
    <3>1. Refuse("openwrt_uci")
      BY <1>2, <2>2 DEF UpdateOpenWrtUCI
    <3>2. link' = link /\ uci' = uci /\ Over /\ req'.step = "idle" /\ failed' = failed
      BY <3>1, <1>r DEF Refuse
    <3>3. ~AtUci'
      BY <3>2 DEF AtUci
    <3> QED
      BY <3>2, <3>3, <1>o, UciIdle
  <2> QED
    BY <2>1, <2>2
<1>3. ASSUME NEW k \in Key, NEW e \in Address, WGSetEndpoint(k, e) PROVE UciInv'
  <2>1. ~InUci /\ link' = link /\ uci' = uci
    BY <1>3 DEF WGSetEndpoint, Begin, Refuse, InUci
  <2>2. req'.step \in {"reload", "ok", "idle"}
    <3>1. CASE Begin("runtime", k, e, AfterStore(TRUE), 0)
      <4>1. req'.step = AfterStore(TRUE)
        BY <3>1 DEF Begin, Goes
      <4> QED
        BY <4>1, <1>s
    <3>2. CASE Refuse("runtime")
      BY <3>2, <1>r DEF Refuse
    <3> QED
      BY <1>3, <3>1, <3>2 DEF WGSetEndpoint
  <2> QED
    BY <2>1, <2>2, UciOther
<1>4. CASE Store
  <2>1. ~InUci /\ link' = link /\ uci' = uci
    BY <1>4 DEF Store, UciInv, UciRequest
  <2>2. req'.step \in {"store", "reload", "ok", "failed"}
    <3>1. CASE UNCHANGED <<req, failed>>
      BY <3>1, <1>4 DEF Store
    <3>2. CASE Go(AfterStore(TRUE))
      BY <3>2, <1>s, GoesOn
    <3>3. CASE Go("failed")
      BY <3>3, GoesOn
    <3> QED
      BY <1>4, <3>1, <3>2, <3>3 DEF Store
  <2> QED
    BY <2>1, <2>2, UciOther
<1>5. CASE RunUci
  BY <1>5, RunUciKeeps
<1>6. CASE ReloadInterface
  <2>1. link' = link /\ uci' = uci /\ req.step = "reload" /\ Go("ok")
    BY <1>6 DEF ReloadInterface
  <2>2. /\ req' = [step |-> "ok", key |-> req.key, endpoint |-> req.endpoint,
                   section |-> req.section]
        /\ failed' = failed \ {req.key}
    BY <2>1, GoesOn
  <2>3. CASE ~InUci
    BY <2>1, <2>2, <2>3, UciOther
  <2>4. CASE InUci
    <3>1. AtUci
      BY <2>1, <2>4 DEF AtUci
    <3>2. /\ uci.staged[req.section].host = uci.staged[req.section].port
          /\ uci.committed[req.section].host = uci.committed[req.section].port
      BY <2>1, <3>1 DEF UciInv, UciRequest
    <3>3. \A i \in Half(uci.staged) : uci.staged[i].key # req.key
      BY <3>1, <3>2, SuccessHeals
    <3>4. \A i \in Half(uci.committed) : uci.committed[i].key # req.key
      BY <3>1, <3>2, SuccessHeals
    <3>5. WhoseHalves'
      BY <2>1, <2>2, <3>3, <3>4 DEF UciInv, WhoseHalves
    <3>6. SameSections' /\ WhereHalves'
      BY <2>1 DEF UciInv, SameSections, WhereHalves, InUci
    <3>7. UciRequest'
      BY <2>1, <2>2, <3>1 DEF UciInv, UciRequest, AtUci, InUci
    <3> QED
      BY <3>5, <3>6, <3>7 DEF UciInv
  <2> QED
    BY <2>3, <2>4
<1>7. CASE Fail
  <2>1. link' = link /\ uci' = uci /\ Go("failed")
    BY <1>7 DEF Fail
  <2>2. /\ req' = [step |-> "failed", key |-> req.key, endpoint |-> req.endpoint,
                   section |-> req.section]
        /\ failed' = failed \cup {req.key}
    BY <2>1, GoesOn
  <2>3. SameSections' /\ WhereHalves'
    BY <2>1 DEF UciInv, SameSections, WhereHalves, InUci
  <2>4. WhoseHalves'
    <3>1. req.step = "port" => uci.staged[req.section].key = req.key
      BY DEF UciInv, UciRequest, AtUci
    <3> QED
      BY <2>1, <2>2, <3>1 DEF UciInv, WhoseHalves
  <2>5. UciRequest'
    BY <2>2 DEF UciRequest, AtUci
  <2> QED
    BY <2>3, <2>4, <2>5 DEF UciInv
<1>8. CASE Reboot
  <2>1. /\ link' = link /\ failed' = failed /\ req'.step = "idle" /\ Over
        /\ uci'.committed = uci.committed /\ uci'.staged = uci.committed
    BY <1>8, <1>r DEF Reboot, TypeOK
  <2>2. SameSections' /\ WhereHalves'
    BY <2>1 DEF UciInv, SameSections, WhereHalves, InUci
  <2>3. WhoseHalves' /\ UciRequest'
    BY <2>1 DEF UciInv, WhoseHalves, UciRequest, AtUci
  <2> QED
    BY <2>2, <2>3 DEF UciInv
<1>9. CASE UNCHANGED applyVars
  <2>1. link' = link /\ uci' = uci /\ req' = req /\ failed' = failed
    BY <1>9 DEF applyVars
  <2> QED
    BY <2>1 DEF UciInv, SameSections, WhereHalves, WhoseHalves, UciRequest, AtUci, InUci
<1> QED
  BY <1>1, <1>2, <1>3, <1>4, <1>5, <1>6, <1>7, <1>8, <1>9 DEF ApplyNext

\* What is known of the sections is an invariant.
THEOREM SectionsAreSound == ApplySpec => []UciInv
<1>1. ApplyInit => UciInv
  <2> SUFFICES ASSUME ApplyInit PROVE UciInv
    OBVIOUS
  <2>1. PICK ss : uci = [committed |-> ss, staged |-> ss]
                  /\ \A i \in DOMAIN ss : ss[i].host = ss[i].port
    <3>1. CASE uci = [committed |-> <<>>, staged |-> <<>>]
      <4>1. \A i \in DOMAIN << >> : << >>[i].host = << >>[i].port
        OBVIOUS
      <4> QED
        BY <3>1, <4>1
    <3>2. CASE \E ss \in UciStart : uci = [committed |-> ss, staged |-> ss]
      BY <3>2, ApplyAssumption
    <3> QED
      BY <3>1, <3>2 DEF ApplyInit
  <2>2. Half(ss) = {}
    BY <2>1 DEF Half
  <2>3. req.step = "idle"
    BY DEF ApplyInit, NoReq
  <2> QED
    BY <2>1, <2>2, <2>3 DEF UciInv, SameSections, WhereHalves, WhoseHalves, UciRequest, AtUci
<1>2. TypeOK /\ UciInv /\ [ApplyNext]_applyVars => UciInv'
  BY UciStep
<1> QED
  BY <1>1, <1>2, TypeCorrect, PTL DEF ApplySpec

\* A committed section is whole unless its peer's last endpoint.apply was cut short
\* (UpdateOpenWrtUCI).
THEOREM HalvesAreCutShort == ApplySpec => []HalvesAreFailures
<1>1. UciInv => HalvesAreFailures
  BY DEF UciInv, WhoseHalves, Half, HalvesAreFailures
<1> QED
  BY <1>1, SectionsAreSound, PTL

(***************************************************************************)
(* The file.  The old contents are in the file until they are in a backup; *)
(* the new ones have the endpoint in place, in memory and then in the file. *)
(***************************************************************************)
OldInv ==
  /\ step = "prepared" => file = job.old
  /\ step \in {"backed", "opened"} => job.old \in backups
  /\ OldIsKept

FileInv ==
  /\ file \in Text
  /\ step \in {"prepared", "backed", "opened"} =>
       job.new \in Text /\ InPlace(job.new, job.key, job.endpoint)
  /\ RepeatChangesNothing

\* The steps of ApplyEndpoint are those of an update, or leave the file alone.
LEMMA FileSteps ==
  ASSUME [ApplyNext]_applyVars
  PROVE  \/ Next
         \/ UNCHANGED <<file, backups, step, job>>
<1>1. ASSUME NEW k \in Key, NEW e \in Address, ApplyWGConf(k, e)
      PROVE  Next \/ UNCHANGED <<file, backups, step, job>>
  BY <1>1 DEF ApplyWGConf, Next, vars
<1>2. CASE Store
  BY <1>2 DEF Store, Next
<1>3. ASSUME NEW k \in Key, NEW e \in Address,
             UpdateOpenWrtUCI(k, e) \/ WGSetEndpoint(k, e)
      PROVE  UNCHANGED <<file, backups, step, job>>
  BY <1>3 DEF UpdateOpenWrtUCI, WGSetEndpoint, vars
<1>4. CASE RunUci \/ ReloadInterface \/ Fail \/ Reboot
  BY <1>4 DEF RunUci, ReloadInterface, Fail, Reboot, vars
<1>5. CASE UNCHANGED applyVars
  BY <1>5 DEF applyVars, vars
<1> QED
  BY <1>1, <1>2, <1>3, <1>4, <1>5 DEF ApplyNext

\* Whenever the agent dies, what the file held before the update is in it or in a
\* backup (UpdateWGConf).
THEOREM OldStays == ApplySpec => []OldIsKept
<1>1. ApplyInit => OldInv
  <2>1. NoJob.key = ""
    BY DEF NoJob
  <2>2. ApplyInit => step = "idle" /\ job = NoJob
    BY DEF ApplyInit, Init
  <2> QED
    BY <2>1, <2>2 DEF OldInv, OldIsKept
<1>2. OldInv /\ [ApplyNext]_applyVars => OldInv'
  <2> SUFFICES ASSUME OldInv, [ApplyNext]_applyVars PROVE OldInv'
    OBVIOUS
  <2>1. ASSUME NEW k \in Key, NEW e \in Address, UpdateWGConf(k, e) PROVE OldInv'
    <3>1. step' = "prepared" /\ file' = file /\ job'.old = file
      BY <2>1 DEF UpdateWGConf
    <3> QED
      BY <3>1 DEF OldInv, OldIsKept
  <2>2. CASE WriteBackup
    BY <2>2 DEF WriteBackup, OldInv, OldIsKept
  <2>3. CASE OpenFile
    BY <2>3 DEF OpenFile, OldInv, OldIsKept
  <2>4. CASE WriteFile
    BY <2>4 DEF WriteFile, OldInv, OldIsKept
  <2>5. CASE Crash
    BY <2>5 DEF Crash, OldInv, OldIsKept
  <2>6. CASE UNCHANGED <<file, backups, step, job>>
    BY <2>6 DEF OldInv, OldIsKept
  <2> QED
    BY <2>1, <2>2, <2>3, <2>4, <2>5, <2>6, FileSteps DEF Next
<1>3. OldInv => OldIsKept
  BY DEF OldInv
<1> QED
  BY <1>1, <1>2, <1>3, PTL DEF ApplySpec

\* Files that end in a newline: a line that is inserted does not continue another.
ClosedStart == \A f \in Start : f.nl

LEMMA FileStep ==
  ASSUME FileInv, [ApplyNext]_applyVars
  PROVE  FileInv'
<1>1. ASSUME NEW k \in Key, NEW e \in Address, UpdateWGConf(k, e) PROVE FileInv'
  <2>1. k \in STRING /\ e \in STRING /\ file \in Text
    BY WGConfAssumption DEF FileInv
  <2> DEFINE p == Min(Sections(file.lines, k))
  <2>2. /\ step' = "prepared" /\ file' = file /\ Sections(file.lines, k) # {}
        /\ job' = [key |-> k, endpoint |-> e, old |-> file, new |-> Put(file, p, k, e)]
    BY <1>1 DEF UpdateWGConf
  <2>3. Put(file, p, k, e) \in Text /\ InPlace(Put(file, p, k, e), k, e)
    BY <2>1, <2>2, PutIsInPlace
  <2> HIDE DEF p
  <2>4. job'.key = k /\ job'.endpoint = e /\ job'.new = Put(file, p, k, e)
    BY <2>2
  <2> QED
    BY <2>1, <2>2, <2>3, <2>4 DEF FileInv, RepeatChangesNothing
<1>2. CASE WriteBackup
  BY <1>2 DEF WriteBackup, FileInv, RepeatChangesNothing
<1>3. CASE OpenFile
  <2>1. Blank \in Text
    <3>1. << >> \in Seq(Line)
      OBVIOUS
    <3> QED
      BY <3>1 DEF Blank, Text
  <2> QED
    BY <1>3, <2>1 DEF OpenFile, FileInv, RepeatChangesNothing
<1>4. CASE WriteFile
  BY <1>4 DEF WriteFile, FileInv, RepeatChangesNothing
<1>5. CASE Crash
  <2>1. step' = "crashed" /\ job' = job
    BY <1>5 DEF Crash
  <2>2. file' \in Text
    <3>1. CASE file' = file
      BY <3>1 DEF FileInv
    <3>2. CASE step = "opened" /\ \E i \in 1 .. Len(job.new.lines) :
                 file' = [lines |-> SubSeq(job.new.lines, 1, i), nl |-> TRUE]
      <4>1. job.new.lines \in Seq(Line)
        BY <3>2 DEF FileInv, Text
      <4>2. PICK i \in 1 .. Len(job.new.lines) :
              file' = [lines |-> SubSeq(job.new.lines, 1, i), nl |-> TRUE]
        BY <3>2
      <4>3. SubSeq(job.new.lines, 1, i) \in Seq(Line)
        BY <4>1
      <4> QED
        BY <4>2, <4>3 DEF Text
    <3> QED
      BY <1>5, <3>1, <3>2 DEF Crash
  <2> QED
    BY <2>1, <2>2 DEF FileInv, RepeatChangesNothing
<1>6. CASE UNCHANGED <<file, backups, step, job>>
  BY <1>6 DEF FileInv, RepeatChangesNothing
<1> QED
  BY <1>1, <1>2, <1>3, <1>4, <1>5, <1>6, FileSteps DEF Next

\* The start is closed, or the back end is not the file and the file is empty.
LEMMA FileStart ==
  ASSUME ClosedStart, ApplyInit
  PROVE  FileInv
<1>1. file \in Text
  BY WGConfAssumption DEF ClosedStart, ApplyInit, Init, Text
<1>2. step = "idle" /\ job.key = ""
  <2>1. NoJob.key = ""
    BY DEF NoJob
  <2> QED
    BY <2>1 DEF ApplyInit, Init
<1> QED
  BY <1>1, <1>2 DEF FileInv, RepeatChangesNothing

\* In files that end in a newline, a finished update finds its endpoint in place: a
\* second one changes nothing (UpdateWGConf).
THEOREM RepeatsChangeNothing ==
  ASSUME ClosedStart
  PROVE  ApplySpec => []RepeatChangesNothing
<1>1. ApplyInit => FileInv
  BY FileStart
<1>2. FileInv /\ [ApplyNext]_applyVars => FileInv'
  BY FileStep
<1>3. FileInv => RepeatChangesNothing
  BY DEF FileInv
<1> QED
  BY <1>1, <1>2, <1>3, PTL DEF ApplySpec

\* What is being written is what Put makes of the old contents.
PutInv ==
  step \in {"prepared", "backed", "opened"} =>
    /\ job.key \in STRING /\ job.endpoint \in STRING /\ job.old \in Text
    /\ Sections(job.old.lines, job.key) # {}
    /\ job.new = Put(job.old, Min(Sections(job.old.lines, job.key)), job.key, job.endpoint)

LEMMA PutStep ==
  ASSUME FileInv, PutInv, [ApplyNext]_applyVars
  PROVE  PutInv'
<1>1. ASSUME NEW k \in Key, NEW e \in Address, UpdateWGConf(k, e) PROVE PutInv'
  <2>1. k \in STRING /\ e \in STRING /\ file \in Text
    BY WGConfAssumption DEF FileInv
  <2>2. /\ Sections(file.lines, k) # {}
        /\ job' = [key |-> k, endpoint |-> e, old |-> file,
                   new |-> Put(file, Min(Sections(file.lines, k)), k, e)]
    BY <1>1 DEF UpdateWGConf
  <2>3. /\ job'.key = k /\ job'.endpoint = e /\ job'.old = file
        /\ job'.new = Put(file, Min(Sections(file.lines, k)), k, e)
    BY <2>2
  <2> QED
    BY <2>1, <2>2, <2>3 DEF PutInv
<1>2. CASE WriteBackup
  BY <1>2 DEF WriteBackup, PutInv
<1>3. CASE OpenFile
  BY <1>3 DEF OpenFile, PutInv
<1>4. CASE WriteFile
  BY <1>4 DEF WriteFile, PutInv
<1>5. CASE Crash
  BY <1>5 DEF Crash, PutInv
<1>6. CASE UNCHANGED <<file, backups, step, job>>
  BY <1>6 DEF PutInv
<1> QED
  BY <1>1, <1>2, <1>3, <1>4, <1>5, <1>6, FileSteps DEF Next

\* In files that end in a newline, an update changes the endpoint of the first section
\* of its peer and nothing else of what WireGuard reads (UpdateWGConf).
THEOREM UpdatesTakeEffect ==
  ASSUME ClosedStart
  PROVE  ApplySpec => EndpointTakesEffect
<1>1. ApplyInit => FileInv /\ PutInv
  <2> SUFFICES ASSUME ApplyInit PROVE FileInv /\ PutInv
    OBVIOUS
  <2>1. step = "idle"
    BY DEF ApplyInit, Init
  <2> QED
    BY <2>1, FileStart DEF PutInv
<1>2. FileInv /\ PutInv /\ [ApplyNext]_applyVars => FileInv' /\ PutInv'
  BY FileStep, PutStep
<1>3. PutInv /\ [ApplyNext]_applyVars =>
        [WriteFile => \E at \in DOMAIN file'.lines :
           ChangesEndpoint(job.old.lines, file'.lines, job.key, job.endpoint, at)]_vars
  <2> SUFFICES ASSUME PutInv, WriteFile
               PROVE  \E at \in DOMAIN file'.lines :
                        ChangesEndpoint(job.old.lines, file'.lines, job.key, job.endpoint, at)
    OBVIOUS
  <2>1. file' = Put(job.old, Min(Sections(job.old.lines, job.key)), job.key, job.endpoint)
        /\ job.key \in STRING /\ job.endpoint \in STRING /\ job.old \in Text
        /\ Sections(job.old.lines, job.key) # {}
    BY DEF WriteFile, PutInv
  <2> QED
    BY <2>1, PutChanges
<1> QED
  BY <1>1, <1>2, <1>3, PTL DEF ApplySpec, EndpointTakesEffect

(***************************************************************************)
(* The endpoint a success is about.                                        *)
(***************************************************************************)
Placed ==
  CASE link.type = "wg_conf"     -> InPlace(file, req.key, req.endpoint)
    [] link.type = "openwrt_uci" -> TRUE
    [] OTHER                     -> link.reload \/ live.set[req.key] = req.endpoint

EffectInv ==
  /\ req.step = "store" => /\ link.type = "wg_conf"
                           /\ step \in {"prepared", "backed", "opened"}
                           /\ job.key = req.key /\ job.endpoint = req.endpoint
  /\ req.step \in {"reload", "ok"} => Placed
  /\ req.step = "reload" => link.reload
  /\ req.step = "ok" /\ link.reload => live.up /\ live.base = Stored

LEMMA EffectStep ==
  ASSUME TypeOK, UciInv, FileInv, EffectInv, [ApplyNext]_applyVars
  PROVE  EffectInv'
<1>r. NoReq.step = "idle"
  BY DEF NoReq
<1>b. ASSUME NEW t, NEW k, NEW e, NEW s, NEW i, Begin(t, k, e, s, i)
      PROVE  req' = [step |-> s, key |-> k, endpoint |-> e, section |-> i] /\ link' = link
             /\ req'.step = s /\ req'.key = k /\ req'.endpoint = e /\ link.type = t
  <2>1. req' = [step |-> s, key |-> k, endpoint |-> e, section |-> i] /\ link' = link /\ link.type = t
    BY <1>b DEF Begin, Goes
  <2> QED
    BY <2>1
<1>i. ASSUME req'.step \in {"idle", "failed", "host", "port", "commit"} PROVE EffectInv'
  BY <1>i DEF EffectInv
<1>1. ASSUME NEW k \in Key, NEW e \in Address, ApplyWGConf(k, e) PROVE EffectInv'
  <2>1. CASE UpdateWGConf(k, e) /\ Begin("wg_conf", k, e, "store", 0)
    <3>1. step' = "prepared" /\ job'.key = k /\ job'.endpoint = e
      BY <2>1 DEF UpdateWGConf
    <3> QED
      BY <2>1, <3>1, <1>b DEF EffectInv
  <2>2. CASE InPlace(file, k, e) /\ Begin("wg_conf", k, e, AfterStore(FALSE), 0) /\ UNCHANGED vars
    <3>1. /\ req'.step = IF link.reload THEN "reload" ELSE "ok"
          /\ req'.key = k /\ req'.endpoint = e /\ link' = link /\ link.type = "wg_conf"
      BY <2>2, <1>b DEF AfterStore
    <3>2. file' = file
      BY <2>2 DEF vars
    <3>3. Placed'
      BY <2>2, <3>1, <3>2 DEF Placed
    <3> QED
      BY <3>1, <3>3 DEF EffectInv
  <2>3. CASE Refuse("wg_conf")
    BY <2>3, <1>r, <1>i DEF Refuse
  <2> QED
    BY <1>1, <2>1, <2>2, <2>3 DEF ApplyWGConf
<1>2. ASSUME NEW k \in Key, NEW e \in Address, UpdateOpenWrtUCI(k, e) PROVE EffectInv'
  <2> DEFINE is == FindPeerSections(uci.staged, k)
  <2>1. CASE Begin("openwrt_uci", k, e, "host", Min(is))
    <3>1. req'.step = "host"
      BY <2>1 DEF Begin, Goes
    <3> QED
      BY <3>1, <1>i
  <2>2. CASE Refuse("openwrt_uci")
    BY <2>2, <1>r, <1>i DEF Refuse
  <2> QED
    BY <1>2, <2>1, <2>2 DEF UpdateOpenWrtUCI
<1>3. ASSUME NEW k \in Key, NEW e \in Address, WGSetEndpoint(k, e) PROVE EffectInv'
  <2>1. CASE /\ Begin("runtime", k, e, AfterStore(TRUE), 0)
             /\ live' = [live EXCEPT !.set[k] = e]
    <3>1. /\ req'.step = IF link.reload THEN "reload" ELSE "ok"
          /\ req'.key = k /\ req'.endpoint = e /\ link' = link /\ link.type = "runtime"
      BY <2>1, <1>b DEF AfterStore
    <3>2. live'.set[k] = e
      BY <2>1 DEF TypeOK
    <3>3. Placed'
      BY <3>1, <3>2 DEF Placed
    <3> QED
      BY <3>1, <3>3 DEF EffectInv
  <2>2. CASE Refuse("runtime")
    BY <2>2, <1>r, <1>i DEF Refuse
  <2> QED
    BY <1>3, <2>1, <2>2 DEF WGSetEndpoint
<1>4. CASE Store
  <2>1. link' = link /\ live' = live /\ req.step = "store" /\ link.type = "wg_conf"
        /\ job.key = req.key /\ job.endpoint = req.endpoint
    BY <1>4 DEF Store, EffectInv
  <2>2. CASE (WriteBackup \/ OpenFile) /\ UNCHANGED <<req, failed>>
    BY <2>1, <2>2 DEF WriteBackup, OpenFile, EffectInv
  <2>3. CASE WriteFile /\ Go(AfterStore(TRUE))
    <3>1. InPlace(file', job.key, job.endpoint)
      BY <2>3 DEF WriteFile, FileInv
    <3>2. /\ req' = [step |-> AfterStore(TRUE), key |-> req.key,
                     endpoint |-> req.endpoint, section |-> req.section]
      BY <2>3, GoesOn
    <3>3. req'.step = (IF link.reload THEN "reload" ELSE "ok") /\ req'.key = req.key
          /\ req'.endpoint = req.endpoint
      BY <3>2 DEF AfterStore
    <3>4. Placed'
      BY <2>1, <3>1, <3>3 DEF Placed
    <3> QED
      BY <2>1, <3>3, <3>4 DEF EffectInv
  <2>4. CASE Go("failed")
    <3>1. req'.step = "failed"
      BY <2>4, GoesOn
    <3> QED
      BY <3>1, <1>i
  <2> QED
    BY <1>4, <2>2, <2>3, <2>4 DEF Store
<1>5. CASE RunUci
  <2>1. InUci /\ link' = link /\ live' = live
    BY <1>5 DEF RunUci, UciInv, UciRequest
  <2>2. CASE req.step \in {"host", "port"}
    <3>1. req'.step \in {"port", "commit"}
      BY <1>5, <2>2, UciSteps DEF TypeOK
    <3> QED
      BY <3>1, <1>i
  <2>3. CASE req.step = "commit"
    <3>1. req'.step = IF link.reload THEN "reload" ELSE "ok"
      <4>1. req' = [req EXCEPT !.step = AfterStore(TRUE)]
        BY <1>5, <2>3, UciSteps
      <4> QED
        BY <4>1 DEF AfterStore, TypeOK
    <3>2. Placed'
      BY <2>1 DEF Placed, InUci
    <3> QED
      BY <2>1, <3>1, <3>2 DEF EffectInv
  <2> QED
    BY <1>5, <2>2, <2>3 DEF RunUci
<1>6. CASE ReloadInterface
  <2>1. /\ link' = link /\ uci' = uci /\ file' = file /\ req.step = "reload" /\ Go("ok")
        /\ live' = [up |-> TRUE, base |-> Stored, set |-> Unset]
    BY <1>6 DEF ReloadInterface, vars
  <2>2. req' = [step |-> "ok", key |-> req.key, endpoint |-> req.endpoint,
                section |-> req.section]
    BY <2>1, GoesOn
  <2>3. Stored' = Stored
    BY <2>1 DEF Stored
  <2>4. link.reload /\ Placed
    BY <2>1 DEF EffectInv
  <2>5. Placed'
    BY <2>1, <2>2, <2>4 DEF Placed
  <2> QED
    BY <2>1, <2>2, <2>3, <2>5 DEF EffectInv
<1>7. CASE Fail
  <2>1. req'.step = "failed"
    BY <1>7, GoesOn DEF Fail
  <2> QED
    BY <2>1, <1>i
<1>8. CASE Reboot
  BY <1>8, <1>r, <1>i DEF Reboot
<1>9. CASE UNCHANGED applyVars
  BY <1>9 DEF applyVars, vars, EffectInv, Placed, Stored
<1> QED
  BY <1>1, <1>2, <1>3, <1>4, <1>5, <1>6, <1>7, <1>8, <1>9 DEF ApplyNext

\* A success means that the endpoint is stored, and that the interface runs on what is
\* stored, whatever earlier attempts left (ApplyEndpoint).
THEOREM SuccessIsInEffect ==
  ASSUME ClosedStart
  PROVE  ApplySpec => []AppliedIsInEffect
<1>1. ApplyInit => FileInv /\ EffectInv
  <2> SUFFICES ASSUME ApplyInit PROVE FileInv /\ EffectInv
    OBVIOUS
  <2>1. req.step = "idle"
    BY DEF ApplyInit, NoReq
  <2> QED
    BY <2>1, FileStart DEF EffectInv
<1>2. TypeOK /\ UciInv /\ FileInv /\ EffectInv /\ [ApplyNext]_applyVars
      => FileInv' /\ EffectInv'
  BY FileStep, EffectStep
<1>3. TypeOK /\ UciInv /\ EffectInv => AppliedIsInEffect
  <2> SUFFICES ASSUME TypeOK, UciInv, EffectInv, req.step = "ok",
                      ~(link.type = "runtime" /\ link.reload)
               PROVE  /\ Kept(req.key, req.endpoint)
                      /\ link.reload => live.up /\ live.base = Stored
    BY DEF AppliedIsInEffect
  <2>1. CASE link.type = "wg_conf"
    BY <2>1 DEF EffectInv, Placed, Kept
  <2>2. CASE link.type = "openwrt_uci"
    <3>1. AtUci
      BY <2>2 DEF AtUci, InUci
    <3>2. /\ uci.staged \in Seq(Section) /\ uci.committed \in Seq(Section)
          /\ req.section \in First(uci.staged)
      BY <3>1 DEF TypeOK, UciInv, UciRequest
    <3>3. req.section \in First(uci.committed)
      BY <3>2, SameFirst DEF UciInv, SameSections
    <3>4. uci.committed[req.section].key = req.key
      BY <3>1, <3>2 DEF UciInv, UciRequest, SameSections, First
    <3>5. req.section \in FindPeerSections(uci.committed, req.key)
          /\ \A j \in FindPeerSections(uci.committed, req.key) : req.section <= j
      BY <3>3, <3>4 DEF First, FindPeerSections
    <3>6. uci.committed[req.section].host = req.endpoint
          /\ uci.committed[req.section].port = req.endpoint
      BY <3>1 DEF UciInv, UciRequest
    <3>7. Kept(req.key, req.endpoint)
      BY <2>2, <3>5, <3>6 DEF Kept
    <3> QED
      BY <3>7 DEF EffectInv
  <2>3. CASE link.type = "runtime"
    BY <2>3 DEF EffectInv, Placed, Kept
  <2> QED
    BY <2>1, <2>2, <2>3 DEF TypeOK
<1> QED
  BY <1>1, <1>2, <1>3, TypeCorrect, SectionsAreSound, PTL DEF ApplySpec
=============================================================================
