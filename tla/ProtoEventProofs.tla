-------------------------- MODULE ProtoEventProofs --------------------------
(***************************************************************************)
(* Proofs about the connection that receives events (ProtoEvent) for any   *)
(* versions, sizes of the buffer and of the segments, and any number of    *)
(* messages and failures.                                                  *)
(***************************************************************************)
EXTENDS ProtoEvent, SequenceTheorems, WellFoundedInduction, TLAPS

----------------------------------------------------------------------------
(***************************************************************************)
(* The layouts of a program                                                *)
(***************************************************************************)
\* Two sequences, one behind the other.
LEMMA ConcatFacts ==
  ASSUME NEW X, NEW a \in Seq(X), NEW b \in Seq(X)
  PROVE  /\ a \o b \in Seq(X)
         /\ Len(a) \in Nat /\ Len(b) \in Nat
         /\ Len(a \o b) = Len(a) + Len(b)
         /\ \A k \in 1..Len(a) : (a \o b)[k] = a[k]
         /\ \A k \in 1..Len(b) : (a \o b)[Len(a) + k] = b[k]
OBVIOUS

\* A field put in front of place i.
LEMMA InsertAtFacts ==
  ASSUME NEW X, NEW s \in Seq(X), NEW i \in 1..Len(s), NEW e \in X
  PROVE  /\ InsertAt(s, i, e) \in Seq(X)
         /\ Len(InsertAt(s, i, e)) = Len(s) + 1
         /\ \A k \in 1..i - 1 : InsertAt(s, i, e)[k] = s[k]
         /\ InsertAt(s, i, e)[i] = e
         /\ \A k \in i..Len(s) : InsertAt(s, i, e)[k + 1] = s[k]
<1> DEFINE a == SubSeq(s, 1, i - 1)  b == SubSeq(s, i, Len(s))
<1>1. a \in Seq(X) /\ b \in Seq(X) /\ <<e>> \in Seq(X)
  OBVIOUS
<1>2. Len(a) = i - 1 /\ Len(b) = Len(s) - i + 1 /\ Len(<<e>>) = 1 /\ <<e>>[1] = e
  OBVIOUS
<1>3. \A k \in 1..i - 1 : a[k] = s[k]
  OBVIOUS
<1>4. \A k \in i..Len(s) : b[k - i + 1] = s[k]
  OBVIOUS
<1> HIDE DEF a, b
<1> DEFINE c == a \o <<e>>
<1>5. c \in Seq(X) /\ Len(c) = i /\ c[i] = e
  BY <1>1, <1>2
<1>6. \A k \in 1..i - 1 : c[k] = s[k]
  BY <1>1, <1>2, <1>3
<1> HIDE DEF c
<1> DEFINE r == c \o b
<1>7. r \in Seq(X) /\ Len(r) = Len(s) + 1
  BY <1>1, <1>2, <1>5
<1>8. \A k \in 1..i : r[k] = c[k]
  BY <1>1, <1>2, <1>5
<1>9. \A k \in i..Len(s) : r[k + 1] = b[k - i + 1]
  BY <1>1, <1>2, <1>5
<1> HIDE DEF r
<1>10. InsertAt(s, i, e) = r
  BY DEF InsertAt, a, b, c, r
<1>11. \A k \in 1..i - 1 : r[k] = s[k]
  BY <1>6, <1>8
<1>12. \A k \in i..Len(s) : r[k + 1] = s[k]
  BY <1>4, <1>9
<1>13. QED
  BY <1>5, <1>7, <1>8, <1>10, <1>11, <1>12

\* The fields of all versions, and those that every version has.
Names == Skipped \cup DOMAIN CType
Common == DOMAIN CType \ {"subProps", "catType", "recordedId"}

\* A layout s has the fields fs and fields that are skipped, and none else.
Covers(s, fs) ==
  /\ s \in Seq(Names) /\ Len(s) >= 42 /\ s[4] = "season"
  /\ \A k \in 1..Len(s) : s[k] \in Skipped \cup fs
  /\ \A f \in fs : \E k \in 1..Len(s) : s[k] = f

LEMMA Covers75 == Covers(RcvProgramInfo75, Common) /\ Len(RcvProgramInfo75) = 42
<1> DEFINE s == RcvProgramInfo75
<1>1. Len(s) = 42
  BY DEF RcvProgramInfo75
<1>2. s[4] = "season"
  BY DEF RcvProgramInfo75
<1>3. DOMAIN s = 1..42 /\ s = [k \in 1..42 |-> s[k]]
  BY DEF RcvProgramInfo75
<1>4. ASSUME NEW k \in 1..42 PROVE s[k] \in Skipped \cup Common
  BY DEF RcvProgramInfo75, Common, Skipped, CType
<1>5. ASSUME NEW f \in Common PROVE \E k \in 1..42 : s[k] = f
  BY DEF RcvProgramInfo75, Common, CType
<1> HIDE DEF s
<1>6. Common \subseteq DOMAIN CType
  BY DEF Common
<1>7. s \in Seq(Names)
  BY <1>3, <1>4, <1>6 DEF Names
<1>8. QED
  BY <1>1, <1>2, <1>4, <1>5, <1>7 DEF Covers, s

\* The layout that is made in version 75 has two fields more than is read.
LEMMA Make75 == MakeProgramInfo75 = RcvProgramInfo75 \o <<"subProps", "year">>
<1> DEFINE s == RcvProgramInfo75  m == MakeProgramInfo75  t == <<"subProps", "year">>
<1>1. Len(s) = 42 /\ s \in Seq(Names)
  BY Covers75 DEF Covers
<1>2. Len(m) = 44 /\ DOMAIN m = 1..44 /\ m = [k \in 1..44 |-> m[k]]
  BY DEF MakeProgramInfo75
<1>3. t \in Seq(Names) /\ Len(t) = 2 /\ t[1] = "subProps" /\ t[2] = "year"
  BY DEF Names, Skipped, CType
<1>4. ASSUME NEW k \in 1..42 PROVE m[k] = s[k]
  BY DEF MakeProgramInfo75, RcvProgramInfo75
<1>5. m[43] = "subProps" /\ m[44] = "year"
  BY DEF MakeProgramInfo75
<1> HIDE DEF s, m, t
<1> DEFINE r == s \o t
<1>6. /\ r \in Seq(Names) /\ Len(r) = Len(s) + Len(t)
      /\ \A k \in 1..Len(s) : r[k] = s[k]
      /\ \A k \in 1..Len(t) : r[Len(s) + k] = t[k]
  <2>1. s \in Seq(Names) /\ t \in Seq(Names)
    BY <1>1, <1>3
  <2>2. QED
    BY <2>1, ConcatFacts
<1> HIDE DEF r
<1>7. Len(r) = 44 /\ DOMAIN r = 1..44 /\ r = [k \in 1..44 |-> r[k]]
  BY <1>1, <1>3, <1>6
<1>8. r[43] = m[43] /\ r[44] = m[44]
  <2>1. r[42 + 1] = t[1] /\ r[42 + 2] = t[2]
    BY <1>1, <1>3, <1>6
  <2>2. QED
    BY <1>3, <1>5, <2>1
<1>9. ASSUME NEW k \in 1..44 PROVE r[k] = m[k]
  <2>1. CASE k \in 1..42
    BY <1>1, <1>4, <1>6, <2>1
  <2>2. CASE k \in {43, 44}
    BY <1>8, <2>2
  <2>3. QED
    BY <2>1, <2>2
<1>10. m = r
  BY <1>2, <1>7, <1>9
<1>11. QED
  BY <1>10 DEF m, s, t, r

\* A field put in a sequence that another one follows.
LEMMA InsertConcat ==
  ASSUME NEW X, NEW s \in Seq(X), NEW t \in Seq(X), NEW i \in 1..Len(s), NEW e \in X
  PROVE  InsertAt(s \o t, i, e) = InsertAt(s, i, e) \o t
<1> DEFINE c == s \o t  p == InsertAt(c, i, e)  q == InsertAt(s, i, e)  r == q \o t
<1>1. /\ c \in Seq(X) /\ Len(c) = Len(s) + Len(t)
      /\ \A k \in 1..Len(s) : c[k] = s[k]
      /\ \A k \in 1..Len(t) : c[Len(s) + k] = t[k]
  BY ConcatFacts
<1>2. i \in 1..Len(c)
  BY <1>1, ConcatFacts
<1> HIDE DEF c
<1>3. /\ p \in Seq(X) /\ Len(p) = Len(c) + 1 /\ p[i] = e
      /\ \A k \in 1..i - 1 : p[k] = c[k]
      /\ \A k \in i..Len(c) : p[k + 1] = c[k]
  <2>1. c \in Seq(X) /\ i \in 1..Len(c)
    BY <1>1, <1>2
  <2>2. p \in Seq(X) /\ Len(p) = Len(c) + 1
    BY ONLY e \in X, <2>1, InsertAtFacts
  <2>6. p[i] = e
    BY ONLY e \in X, <2>1, InsertAtFacts
  <2>3. \A k \in 1..i - 1 : p[k] = c[k]
    BY ONLY e \in X, <2>1, InsertAtFacts
  <2>4. \A k \in i..Len(c) : p[k + 1] = c[k]
    BY ONLY e \in X, <2>1, InsertAtFacts
  <2>5. QED
    BY <2>2, <2>3, <2>4, <2>6
<1>4. /\ q \in Seq(X) /\ Len(q) = Len(s) + 1 /\ q[i] = e
      /\ \A k \in 1..i - 1 : q[k] = s[k]
      /\ \A k \in i..Len(s) : q[k + 1] = s[k]
  BY ONLY s \in Seq(X), i \in 1..Len(s), e \in X, InsertAtFacts
<1> HIDE DEF p, q
<1>5. /\ r \in Seq(X) /\ Len(r) = Len(q) + Len(t)
      /\ \A k \in 1..Len(q) : r[k] = q[k]
      /\ \A k \in 1..Len(t) : r[Len(q) + k] = t[k]
  <2>1. q \in Seq(X) /\ t \in Seq(X)
    BY <1>4
  <2>2. QED
    BY ONLY <2>1, ConcatFacts
<1> HIDE DEF r
<1>6. Len(s) \in Nat /\ Len(t) \in Nat /\ Len(p) = Len(s) + Len(t) + 1 /\ Len(r) = Len(p)
  BY <1>1, <1>3, <1>4, <1>5
<1>7. ASSUME NEW k \in 1..Len(p) PROVE p[k] = r[k]
  <2>1. CASE k < i
    BY <1>1, <1>3, <1>4, <1>5, <1>6, <2>1
  <2>2. CASE k = i
    BY <1>3, <1>4, <1>5, <1>6, <2>2
  <2>3. CASE k > i /\ k <= Len(s) + 1
    <3>1. k - 1 \in i..Len(s) /\ k - 1 \in i..Len(c) /\ k - 1 \in 1..Len(s) /\ (k - 1) + 1 = k
      BY <1>1, <1>6, <2>3
    <3>2. p[k] = c[k - 1] /\ q[k] = s[k - 1] /\ c[k - 1] = s[k - 1]
      BY <1>1, <1>3, <1>4, <3>1
    <3>3. r[k] = q[k]
      BY <1>4, <1>5, <1>6, <2>3
    <3>4. QED
      BY <3>2, <3>3
  <2>4. CASE k > Len(s) + 1
    <3> DEFINE j == k - Len(s) - 1
    <3>1. j \in 1..Len(t) /\ Len(s) + j \in i..Len(c) /\ (Len(s) + j) + 1 = k /\ Len(q) + j = k
      BY <1>1, <1>4, <1>6, <2>4
    <3> HIDE DEF j
    <3>2. p[k] = c[Len(s) + j] /\ c[Len(s) + j] = t[j] /\ r[k] = t[j]
      BY <1>1, <1>3, <1>5, <3>1
    <3>3. QED
      BY <3>2
  <2>5. QED
    BY <1>6, <2>1, <2>2, <2>3, <2>4
<1>8. p = r
  BY <1>3, <1>5, <1>6, <1>7
<1>9. QED
  BY <1>8 DEF p, r, q, c

LEMMA Make76 == MakeProgramInfo76 = RcvProgramInfo76
<1> DEFINE s == RcvProgramInfo75  t == <<"subProps", "year">>  u == <<"partNumber", "partTotal">>
           e == "syndicatedEpisode"  q == InsertAt(s, 6, e)
<1>1. s \in Seq(Names) /\ 6 \in 1..Len(s)
  BY Covers75 DEF Covers
<1>2. t \in Seq(Names) /\ u \in Seq(Names) /\ e \in Names
  BY DEF Names, Skipped, CType
<1>3. t \o u = <<"subProps", "year", "partNumber", "partTotal">>
  <2> DEFINE w == <<"subProps", "year", "partNumber", "partTotal">>
  <2>1. /\ t \o u \in Seq(Names) /\ Len(t \o u) = Len(t) + Len(u)
        /\ \A k \in 1..Len(t) : (t \o u)[k] = t[k]
        /\ \A k \in 1..Len(u) : (t \o u)[Len(t) + k] = u[k]
    BY ONLY <1>2, ConcatFacts
  <2>2. /\ Len(t) = 2 /\ Len(u) = 2 /\ Len(w) = 4 /\ DOMAIN w = 1..4
        /\ w = [k \in 1..4 |-> w[k]]
        /\ t[1] = w[1] /\ t[2] = w[2] /\ u[1] = w[3] /\ u[2] = w[4]
    OBVIOUS
  <2> HIDE DEF t, u, w
  <2>3. \A k \in 1..4 : (t \o u)[k] = w[k]
    BY <2>1, <2>2
  <2> DEFINE r == t \o u
  <2>4. r \in Seq(Names) /\ Len(r) = 4 /\ \A k \in 1..4 : r[k] = w[k]
    BY <2>1, <2>2, <2>3
  <2> HIDE DEF r
  <2>5. r = [k \in 1..4 |-> r[k]]
    BY <2>4
  <2>6. r = w
    BY <2>2, <2>4, <2>5
  <2>7. QED
    BY <2>6 DEF w, r
<1>4. MakeProgramInfo76 = InsertAt(s \o t, 6, e) \o u
  BY Make75 DEF MakeProgramInfo76
<1>5. RcvProgramInfo76 = q \o (t \o u)
  BY <1>3 DEF RcvProgramInfo76
<1> HIDE DEF s, t, u, e
<1>6. InsertAt(s \o t, 6, e) = q \o t
  BY <1>1, <1>2, InsertConcat
<1>7. q \in Seq(Names)
  BY <1>1, <1>2, InsertAtFacts
<1> HIDE DEF q
<1>8. (q \o t) \o u = q \o (t \o u)
  BY <1>2, <1>7, ConcatAssociative
<1>9. QED
  BY <1>4, <1>5, <1>6, <1>8

\* Both are extended in the same way from there on.
LEMMA MakeLater ==
  /\ MakeProgramInfo79 = RcvProgramInfo79
  /\ MakeProgramInfo82 = RcvProgramInfo82
  /\ MakeProgramInfo86 = RcvProgramInfo86
BY Make76 DEF MakeProgramInfo79, RcvProgramInfo79, MakeProgramInfo82, RcvProgramInfo82,
              MakeProgramInfo86, RcvProgramInfo86

\* What is made begins with what is read, in every version.
LEMMA LayoutsAgree ==
  ASSUME NEW v \in Nat
  PROVE  \/ MakeProgramLayout(v) = RcvProgramInfo(v)
         \/ MakeProgramLayout(v) = RcvProgramInfo(v) \o <<"subProps", "year">>
<1>1. CASE v >= 86
  BY <1>1, MakeLater DEF MakeProgramLayout, RcvProgramInfo
<1>2. CASE v \in 82..85
  BY <1>2, MakeLater DEF MakeProgramLayout, RcvProgramInfo
<1>3. CASE v \in 79..81
  BY <1>3, MakeLater DEF MakeProgramLayout, RcvProgramInfo
<1>4. CASE v \in 76..78
  BY <1>4, Make76 DEF MakeProgramLayout, RcvProgramInfo
<1>5. CASE v < 76
  <2>1. MakeProgramLayout(v) = MakeProgramInfo75
    BY <1>5 DEF MakeProgramLayout
  <2>2. RcvProgramInfo(v) = RcvProgramInfo75
    BY <1>5 DEF RcvProgramInfo
  <2>3. QED
    BY <2>1, <2>2, Make75
<1>6. QED
  BY <1>1, <1>2, <1>3, <1>4, <1>5

LEMMA CoversInsert ==
  ASSUME NEW s, NEW fs, Covers(s, fs), NEW e \in Skipped
  PROVE  Covers(InsertAt(s, 6, e), fs)
<1> DEFINE q == InsertAt(s, 6, e)
<1>1. s \in Seq(Names) /\ 6 \in 1..Len(s) /\ e \in Names /\ Len(s) \in Nat
  BY DEF Covers, Names
<1>2. q \in Seq(Names) /\ Len(q) = Len(s) + 1
  BY ONLY <1>1, InsertAtFacts
<1>3. q[6] = e
  BY ONLY <1>1, InsertAtFacts
<1>4. \A k \in 1..6 - 1 : q[k] = s[k]
  BY ONLY <1>1, InsertAtFacts
<1>5. \A k \in 6..Len(s) : q[k + 1] = s[k]
  BY ONLY <1>1, InsertAtFacts
<1> HIDE DEF q
<1>6. Len(q) >= 42 /\ q[4] = "season"
  BY <1>1, <1>2, <1>4 DEF Covers
<1>7. ASSUME NEW k \in 1..Len(q) PROVE q[k] \in Skipped \cup fs
  <2>1. CASE k < 6
    BY <1>1, <1>4, <2>1 DEF Covers
  <2>2. CASE k = 6
    BY <1>3, <2>2
  <2>3. CASE k > 6
    <3>1. k - 1 \in 6..Len(s) /\ (k - 1) + 1 = k /\ k - 1 \in 1..Len(s)
      BY <1>1, <1>2, <2>3
    <3>2. q[k] = s[k - 1]
      BY <1>5, <3>1
    <3>3. QED
      BY <3>1, <3>2 DEF Covers
  <2>4. QED
    BY <1>1, <1>2, <2>1, <2>2, <2>3
<1>8. ASSUME NEW f \in fs PROVE \E k \in 1..Len(q) : q[k] = f
  <2>1. PICK k \in 1..Len(s) : s[k] = f
    BY DEF Covers
  <2>2. CASE k < 6
    BY <1>1, <1>2, <1>4, <2>1, <2>2
  <2>3. CASE k >= 6
    BY <1>1, <1>2, <1>5, <2>1, <2>3
  <2>4. QED
    BY <1>1, <2>2, <2>3
<1>9. QED
  BY <1>2, <1>6, <1>7, <1>8 DEF Covers, q

LEMMA CoversConcat ==
  ASSUME NEW s, NEW fs, Covers(s, fs), NEW t \in Seq(Names), NEW gs,
         \A k \in 1..Len(t) : t[k] \in Skipped \cup gs,
         \A g \in gs : \E k \in 1..Len(t) : t[k] = g
  PROVE  Covers(s \o t, fs \cup gs)
<1> DEFINE q == s \o t
<1>1. s \in Seq(Names) /\ t \in Seq(Names) /\ Len(s) \in Nat /\ Len(t) \in Nat
  BY DEF Covers
<1>2. q \in Seq(Names) /\ Len(q) = Len(s) + Len(t)
  BY ONLY <1>1, ConcatFacts
<1>3. \A k \in 1..Len(s) : q[k] = s[k]
  BY ONLY <1>1, ConcatFacts
<1>4. \A k \in 1..Len(t) : q[Len(s) + k] = t[k]
  BY ONLY <1>1, ConcatFacts
<1> HIDE DEF q
<1>5. Len(q) >= 42 /\ q[4] = "season"
  BY <1>1, <1>2, <1>3 DEF Covers
<1>6. ASSUME NEW k \in 1..Len(q) PROVE q[k] \in Skipped \cup (fs \cup gs)
  <2>1. CASE k <= Len(s)
    BY <1>1, <1>3, <2>1 DEF Covers
  <2>2. CASE k > Len(s)
    <3>1. k - Len(s) \in 1..Len(t) /\ Len(s) + (k - Len(s)) = k
      BY <1>1, <1>2, <2>2
    <3>2. q[k] = t[k - Len(s)]
      BY <1>4, <3>1
    <3>3. QED
      BY <3>1, <3>2
  <2>3. QED
    BY <1>1, <1>2, <2>1, <2>2
<1>7. ASSUME NEW f \in fs PROVE \E k \in 1..Len(q) : q[k] = f
  <2>1. PICK k \in 1..Len(s) : s[k] = f
    BY DEF Covers
  <2>2. QED
    BY <1>1, <1>2, <1>3, <2>1
<1>8. ASSUME NEW f \in gs PROVE \E k \in 1..Len(q) : q[k] = f
  <2>1. PICK k \in 1..Len(t) : t[k] = f
    OBVIOUS
  <2>2. Len(s) + k \in 1..Len(q) /\ q[Len(s) + k] = f
    BY <1>1, <1>2, <1>4, <2>1
  <2>3. QED
    BY <2>2
<1>9. QED
  BY <1>2, <1>5, <1>6, <1>7, <1>8 DEF Covers, q

LEMMA CoversAppend ==
  ASSUME NEW s, NEW fs, Covers(s, fs), NEW e \in DOMAIN CType
  PROVE  Covers(Append(s, e), fs \cup {e})
<1>1. s \in Seq(Names) /\ e \in Names
  BY DEF Covers, Names
<1>2. Append(s, e) = s \o <<e>>
  BY <1>1, AppendIsConcat
<1>3. <<e>> \in Seq(Names) /\ Len(<<e>>) = 1 /\ <<e>>[1] = e
  BY <1>1
<1>4. Covers(s \o <<e>>, fs \cup {e})
  <2> DEFINE t == <<e>>
  <2>1. t \in Seq(Names)
    BY <1>3
  <2>2. \A k \in 1..Len(t) : t[k] \in Skipped \cup {e}
    BY <1>3
  <2>3. \A g \in {e} : \E k \in 1..Len(t) : t[k] = g
    BY <1>3
  <2> HIDE DEF t
  <2>4. Covers(s \o t, fs \cup {e})
    BY ONLY Covers(s, fs), <2>1, <2>2, <2>3, CoversConcat
  <2>5. QED
    BY <2>4 DEF t
<1>5. QED
  BY <1>2, <1>4

\* Every layout has the fields that its version knows.
LEMMA LayoutCovers ==
  ASSUME NEW v \in Nat
  PROVE  Covers(RcvProgramInfo(v), {f \in DOMAIN CType : Known(v, f)})
<1>1. /\ "syndicatedEpisode" \in Skipped /\ "totalEpisodes" \in Skipped
      /\ "subProps" \in DOMAIN CType /\ "catType" \in DOMAIN CType
      /\ "recordedId" \in DOMAIN CType
  BY DEF Skipped, CType
<1>2. Covers(RcvProgramInfo76, Common \cup {"subProps"})
  <2> DEFINE t == <<"subProps", "year", "partNumber", "partTotal">>
  <2>1. /\ t \in Seq(Names) /\ Len(t) = 4 /\ t[1] = "subProps"
        /\ \A k \in 1..4 : t[k] \in Skipped \cup {"subProps"}
    BY DEF Names, Skipped, CType
  <2> HIDE DEF t
  <2>2. Covers(InsertAt(RcvProgramInfo75, 6, "syndicatedEpisode"), Common)
    BY <1>1, Covers75, CoversInsert
  <2>3. Covers(InsertAt(RcvProgramInfo75, 6, "syndicatedEpisode") \o t, Common \cup {"subProps"})
    <3>1. t \in Seq(Names)
      BY <2>1
    <3>2. \A k \in 1..Len(t) : t[k] \in Skipped \cup {"subProps"}
      BY <2>1
    <3>3. \A g \in {"subProps"} : \E k \in 1..Len(t) : t[k] = g
      BY <2>1
    <3>4. QED
      BY ONLY <2>2, <3>1, <3>2, <3>3, CoversConcat
  <2>4. QED
    BY <2>3 DEF RcvProgramInfo76, t
<1>3. Covers(RcvProgramInfo79, Common \cup {"subProps", "catType"})
  <2>1. Covers(InsertAt(RcvProgramInfo76, 6, "totalEpisodes"), Common \cup {"subProps"})
    BY <1>1, <1>2, CoversInsert
  <2>2. Covers(RcvProgramInfo79, (Common \cup {"subProps"}) \cup {"catType"})
    BY <1>1, <2>1, CoversAppend DEF RcvProgramInfo79
  <2>3. (Common \cup {"subProps"}) \cup {"catType"} = Common \cup {"subProps", "catType"}
    OBVIOUS
  <2>4. QED
    BY <2>2, <2>3
<1>4. Covers(RcvProgramInfo82, DOMAIN CType)
  <2>1. Covers(RcvProgramInfo82, (Common \cup {"subProps", "catType"}) \cup {"recordedId"})
    BY <1>1, <1>3, CoversAppend DEF RcvProgramInfo82
  <2>2. (Common \cup {"subProps", "catType"}) \cup {"recordedId"} = DOMAIN CType
    BY <1>1 DEF Common
  <2>3. QED
    BY <2>1, <2>2
<1>5. Covers(RcvProgramInfo86, DOMAIN CType)
  <2> DEFINE t == <<"inputName", "bookmarkUpdate">>
  <2>1. /\ t \in Seq(Names) /\ Len(t) = 2
        /\ \A k \in 1..2 : t[k] \in Skipped \cup {}
    BY DEF Names, Skipped
  <2> HIDE DEF t
  <2>2. Covers(RcvProgramInfo82 \o t, DOMAIN CType \cup {})
    BY <1>4, <2>1, CoversConcat
  <2>3. DOMAIN CType \cup {} = DOMAIN CType
    OBVIOUS
  <2>4. QED
    BY <2>2, <2>3 DEF RcvProgramInfo86, t
<1> DEFINE K == {f \in DOMAIN CType : Known(v, f)}
<1>6. CASE v >= 86
  <2>1. K = DOMAIN CType
    BY <1>6 DEF Known
  <2>2. RcvProgramInfo(v) = RcvProgramInfo86
    BY <1>6 DEF RcvProgramInfo
  <2>3. QED
    BY <1>5, <2>1, <2>2
<1>7. CASE v \in 82..85
  <2>1. K = DOMAIN CType
    BY <1>7 DEF Known
  <2>2. RcvProgramInfo(v) = RcvProgramInfo82
    BY <1>7 DEF RcvProgramInfo
  <2>3. QED
    BY <1>4, <2>1, <2>2
<1>8. CASE v \in 79..81
  <2>1. K = Common \cup {"subProps", "catType"}
    BY <1>1, <1>8 DEF Known, Common
  <2>2. RcvProgramInfo(v) = RcvProgramInfo79
    BY <1>8 DEF RcvProgramInfo
  <2>3. QED
    BY <1>3, <2>1, <2>2
<1>9. CASE v \in 76..78
  <2>1. K = Common \cup {"subProps"}
    BY <1>1, <1>9 DEF Known, Common
  <2>2. RcvProgramInfo(v) = RcvProgramInfo76
    BY <1>9 DEF RcvProgramInfo
  <2>3. QED
    BY <1>2, <2>1, <2>2
<1>10. CASE v < 76
  <2>1. K = Common
    BY <1>1, <1>10 DEF Known, Common
  <2>2. RcvProgramInfo(v) = RcvProgramInfo75
    BY <1>10 DEF RcvProgramInfo
  <2>3. QED
    BY <2>1, <2>2, Covers75
<1>11. QED
  BY <1>6, <1>7, <1>8, <1>9, <1>10

----------------------------------------------------------------------------
(***************************************************************************)
(* What is made of a field                                                 *)
(***************************************************************************)
Unsigned == {"uint8", "uint16", "uint32"}
Signed == {"int8", "int32", "int64"}

LEMMA CTypeFacts ==
  /\ \A f \in DOMAIN CType : CType[f] \in {"str", "double"} \cup Unsigned \cup Signed
  /\ CType["catType"] = "str" /\ "catType" \in DOMAIN CType
  /\ CType["season"] = "uint16" /\ "season" \in DOMAIN CType /\ "season" \notin Skipped
  /\ \A f \in DOMAIN CType : f \notin Skipped
<1>1. \A f \in DOMAIN CType : CType[f] \in {"str", "double"} \cup Unsigned \cup Signed
  BY DEF CType, Unsigned, Signed
<1>2. CType["catType"] = "str" /\ "catType" \in DOMAIN CType
  BY DEF CType
<1>3. CType["season"] = "uint16" /\ "season" \in DOMAIN CType
  BY DEF CType
<1>4. \A f \in DOMAIN CType : f \notin Skipped
  BY DEF CType, Skipped
<1>5. QED
  BY <1>1, <1>2, <1>3, <1>4

LEMMA WidthFacts == (\A t \in Unsigned \cup Signed : Width[t] \in Nat) /\ Width["int64"] = 63
BY DEF Width, Unsigned, Signed

\* The conversions take what fits and refuse a text.
LEMMA StringToText ==
  ASSUME NEW w
  PROVE  /\ StringTo("str", Text(w)) = {Text(w)}
         /\ w # "" => \A t \in Unsigned \cup Signed : StringTo(t, Text(w)) = {}
<1>1. StringTo("str", Text(w)) = {Text(w)}
  BY DEF StringTo
<1>2. ASSUME w # "", NEW t \in Unsigned \cup Signed PROVE StringTo(t, Text(w)) = {}
  <2>1. Text(w) # Text("") /\ Text(w).text = TRUE
    BY <1>2 DEF Text
  <2>2. StringTo(t, Text(w)) = {x \in {Text(w)} : ~x.text /\ Fits(t, x)}
    BY <2>1 DEF StringTo, Unsigned, Signed
  <2>3. QED
    BY <2>1, <2>2
<1>3. QED
  BY <1>1, <1>2

LEMMA StringToNumber ==
  ASSUME NEW d, NEW g \in BOOLEAN, NEW b \in Nat
  PROVE  /\ StringTo("double", Number(d, g, b)) = {Number(d, g, b)}
         /\ \A t \in Unsigned \cup Signed :
              b <= Width[t] /\ (t \in Unsigned => ~g)
                => StringTo(t, Number(d, g, b)) = {Number(d, g, b)}
<1> DEFINE u == Number(d, g, b)
<1>1. u.text = FALSE /\ u.neg = g /\ u.bits = b /\ u # Text("")
  BY DEF Number, Text
<1> HIDE DEF u
<1>2. StringTo("double", u) = {u}
  BY <1>1 DEF StringTo
<1>3. ASSUME NEW t \in Unsigned \cup Signed, b <= Width[t], t \in Unsigned => ~g
      PROVE  StringTo(t, u) = {u}
  <2>1. StringTo(t, u) = {x \in {u} : ~x.text /\ Fits(t, x)}
    BY <1>1 DEF StringTo, Unsigned, Signed
  <2>2. Fits(t, u)
    BY <1>1, <1>3 DEF Fits, Unsigned
  <2>3. QED
    BY <1>1, <2>1, <2>2
<1>4. QED
  BY <1>2, <1>3 DEF u

\* The two category types that are sent.
LEMMA CategoryFacts ==
  /\ CategoryTypeToNum("tvshow") = "4" /\ CategoryTypeToNum("unheard of") = "0"
  /\ CategoryTypeToString("4") = "tvshow" /\ CategoryTypeToString("0") = ""
<1>1. ASSUME NEW c \in categoryType
      PROVE  /\ c[2] # "unheard of"
             /\ c[2] = "tvshow" => c[1] = "4"
             /\ c[1] = "4" => c[2] = "tvshow"
             /\ c[1] = "0" => c[2] = ""
  <2>1. \A a, b : <<a, b>>[1] = a /\ <<a, b>>[2] = b
    OBVIOUS
  <2>2. CASE c = <<"0", "">>
    BY <2>1, <2>2
  <2>3. CASE c = <<"1", "movie">>
    BY <2>1, <2>3
  <2>4. CASE c = <<"2", "series">>
    BY <2>1, <2>4
  <2>5. CASE c = <<"3", "sports">>
    BY <2>1, <2>5
  <2>6. CASE c = <<"4", "tvshow">>
    BY <2>1, <2>6
  <2>7. QED
    BY <2>2, <2>3, <2>4, <2>5, <2>6 DEF categoryType
<1>2. (\E c \in categoryType : c[2] = "tvshow") /\ (\E c \in categoryType : c[1] = "4")
      /\ (\E c \in categoryType : c[1] = "0")
  BY DEF categoryType
<1>3. QED
  BY <1>1, <1>2 DEF CategoryTypeToNum, CategoryTypeToString

\* What is read of a field that was made is what it was made of, but for a category
\* type that is not in the table.
LEMMA FieldRead ==
  ASSUME NEW level \in {"high", "low"}, NEW f \in DOMAIN CType
  PROVE  ReadProgramField(f, MakeProgramField(ProgramOf(level), f))
           = {IF f = "catType" /\ level = "low" THEN Text("") ELSE ProgramOf(level)[f]}
<1> DEFINE p == ProgramOf(level)  n == Width[CType[f]]
<1>0. f \notin Skipped /\ f \notin Blank
  BY CTypeFacts DEF Blank, Skipped
<1>1. CASE f = "catType"
  <2>1. p["catType"] = Text(IF level = "high" THEN "tvshow" ELSE "unheard of")
    BY CTypeFacts DEF ProgramOf
  <2>2. p["catType"].val = IF level = "high" THEN "tvshow" ELSE "unheard of"
    <3>1. \A w : Text(w).val = w
      BY DEF Text
    <3>2. QED
      BY <2>1, <3>1
  <2>3. MakeProgramField(p, f) = LET digits == CategoryTypeToNum(p.catType.val)
                                 IN  IF digits = "0" THEN Zero ELSE Number(digits, FALSE, 3)
    BY <1>0, <1>1 DEF MakeProgramField
  <2>4. MakeProgramField(p, f) = IF level = "high" THEN Number("4", FALSE, 3)
                                                   ELSE Number("0", FALSE, 0)
    BY <2>2, <2>3, CategoryFacts DEF Zero
  <2>5. "int64" \in Unsigned \cup Signed /\ "int64" \notin Unsigned
    BY DEF Unsigned, Signed
  <2>6. StringTo("int64", MakeProgramField(p, f)) = {MakeProgramField(p, f)}
    <3>1. \A d : \A b \in Nat :
            b <= 63 => StringTo("int64", Number(d, FALSE, b)) = {Number(d, FALSE, b)}
      BY <2>5, StringToNumber, WidthFacts
    <3>2. /\ StringTo("int64", Number("4", FALSE, 3)) = {Number("4", FALSE, 3)}
          /\ StringTo("int64", Number("0", FALSE, 0)) = {Number("0", FALSE, 0)}
      <4>1. 3 \in Nat /\ 3 <= 63 /\ 0 \in Nat /\ 0 <= 63
        OBVIOUS
      <4>2. QED
        BY <3>1, <4>1, Zenon
    <3>3. QED
      BY <2>4, <3>2
  <2>7. MakeProgramField(p, f).val = IF level = "high" THEN "4" ELSE "0"
    BY <2>4 DEF Number
  <2>8. ReadProgramField(f, MakeProgramField(p, f))
          = {Text(CategoryTypeToString(x.val)) : x \in StringTo("int64", MakeProgramField(p, f))}
    BY <1>0, <1>1 DEF ReadProgramField
  <2>9. ReadProgramField(f, MakeProgramField(p, f))
          = {Text(IF level = "high" THEN "tvshow" ELSE "")}
    BY <2>6, <2>7, <2>8, CategoryFacts
  <2>10. QED
    BY <1>1, <2>1, <2>9
<1>2. CASE f # "catType"
  <2>1. MakeProgramField(p, f) = p[f]
    BY <1>0, <1>2 DEF MakeProgramField
  <2>2. \A u : ReadProgramField(f, u) = StringTo(CType[f], u)
    BY <1>0, <1>2 DEF ReadProgramField
  <2>3. StringTo(CType[f], p[f]) = {p[f]}
    <3>1. CASE CType[f] = "str"
      <4>1. p[f] = Text(IF level = "high" THEN f ELSE "")
        BY <1>2, <3>1 DEF ProgramOf
      <4>2. QED
        BY <3>1, <4>1, StringToText
    <3>2. CASE CType[f] = "double"
      <4>1. p[f] = Number(f, level = "low", 3)
        BY <1>2, <3>2 DEF ProgramOf
      <4>2. PICK g \in BOOLEAN : g = (level = "low")
        OBVIOUS
      <4>3. StringTo("double", Number(f, g, 3)) = {Number(f, g, 3)}
        BY StringToNumber
      <4>4. QED
        BY <3>2, <4>1, <4>2, <4>3
    <3>3. CASE CType[f] \in Signed
      <4>1. p[f] = Number(f, level = "low", n)
        BY <1>2, <3>3 DEF ProgramOf, Signed
      <4>2. n \in Nat /\ n <= n /\ CType[f] \notin Unsigned
        BY <3>3, WidthFacts DEF Signed, Unsigned
      <4>3. PICK g \in BOOLEAN : g = (level = "low")
        OBVIOUS
      <4>4. StringTo(CType[f], Number(f, g, n)) = {Number(f, g, n)}
        BY <3>3, <4>2, StringToNumber
      <4>5. QED
        BY <4>1, <4>3, <4>4
    <3>4. CASE CType[f] \in Unsigned
      <4>1. p[f] = IF level = "high" THEN Number(f, FALSE, n) ELSE Number("0", FALSE, 0)
        BY <1>2, <3>4 DEF ProgramOf, Unsigned, Zero
      <4>2. n \in Nat /\ n <= n /\ 0 <= n
        BY <3>4, WidthFacts
      <4>3. \A d : \A b \in Nat :
              b <= n => StringTo(CType[f], Number(d, FALSE, b)) = {Number(d, FALSE, b)}
        BY <3>4, StringToNumber
      <4>4. QED
        BY <4>1, <4>2, <4>3
    <3>5. QED
      BY <3>1, <3>2, <3>3, <3>4, CTypeFacts
  <2>4. QED
    BY <1>2, <2>1, <2>2, <2>3
<1>3. QED
  BY <1>1, <1>2

----------------------------------------------------------------------------
(***************************************************************************)
(* What is to be made of a message                                         *)
(***************************************************************************)
Signals == {"slock", "signal", "snr", "ber", "ucb"}

\* A program is in the fields of a message: as it was sent, or it is cut short or
\* has a field that is refused.
ProgramSent(v, fields, level) ==
  LET layout == RcvProgramInfo(v) IN
  /\ level = "none" =>
       \/ Len(fields) < 2 + Len(layout)
       \/ \E k \in 1..Len(layout) : ReadProgramField(layout[k], fields[2 + k]) = {}
  /\ level # "none" =>
       /\ Len(fields) >= 2 + Len(layout)
       /\ \A k \in 1..Len(layout) :
            layout[k] \notin Skipped =>
              ReadProgramField(layout[k], fields[2 + k]) = {Expected[v][level][layout[k]]}

\* The event, signal and program of a message m are those its fields say.
Meant(v, m) ==
  LET fields == m.fields  s == m.fields[2].val
      subject == fields[1].val = "BACKEND_MESSAGE" /\ Len(fields) > 1
  IN
  /\ fields \in Seq(Range(fields)) /\ Len(fields) > 0
  /\ m.level \in {"high", "low", "none"}
  /\ ~subject => m.event = "UNKNOWN"
  /\ subject => m.event = EventOf(s)
  /\ ~(subject /\ Behind(s) = "signal") => m.signal = {}
  /\ subject /\ Behind(s) = "signal" =>
       m.signal = {fields[j].val : j \in 3..Len(fields)} \cap Signals
  /\ ~(subject /\ Behind(s) = "program") => m.level = "none"
  /\ subject /\ Behind(s) = "program" => ProgramSent(v, fields, m.level)

\* A program that is made, read field by field.
LEMMA MadeFacts ==
  ASSUME NEW v \in Versions, NEW level \in {"high", "low"}
  PROVE  LET made == MakeProgramInfo(v, ProgramOf(level))  layout == RcvProgramInfo(v) IN
         /\ made \in Seq(Range(made)) /\ Len(layout) \in Nat /\ Len(layout) >= 42
         /\ Len(made) >= Len(layout) /\ layout[4] = "season"
         /\ \A k \in 1..Len(layout) :
              layout[k] \notin Skipped =>
                ReadProgramField(layout[k], made[k]) = {Expected[v][level][layout[k]]}
<1> DEFINE layout == RcvProgramInfo(v)  fields == MakeProgramLayout(v)
           made == MakeProgramInfo(v, ProgramOf(level))
<1>0. v \in Nat
  BY ProtoEventAssumption
<1>1. layout \in Seq(Names) /\ Len(layout) \in Nat /\ Len(layout) >= 42 /\ layout[4] = "season"
  BY <1>0, LayoutCovers DEF Covers
<1>2. fields \in Seq(Names) /\ Len(fields) >= Len(layout)
      /\ \A k \in 1..Len(layout) : fields[k] = layout[k]
  <2>1. CASE fields = layout
    BY <1>1, <2>1
  <2>2. CASE fields = layout \o <<"subProps", "year">>
    <3> DEFINE t == <<"subProps", "year">>
    <3>1. t \in Seq(Names) /\ Len(t) = 2
      BY DEF Names, Skipped, CType
    <3> HIDE DEF t
    <3>2. layout \in Seq(Names) /\ t \in Seq(Names)
      BY <1>1, <3>1
    <3> HIDE DEF layout
    <3>3. layout \o t \in Seq(Names) /\ Len(layout \o t) = Len(layout) + Len(t)
          /\ \A k \in 1..Len(layout) : (layout \o t)[k] = layout[k]
      BY ONLY <3>2, ConcatFacts
    <3>4. fields = layout \o t
      BY <2>2 DEF t, layout
    <3> HIDE DEF fields
    <3>5. QED
      BY <1>1, <3>1, <3>3, <3>4
  <2>3. QED
    BY <1>0, <2>1, <2>2, LayoutsAgree
<1>3. made = [i \in DOMAIN fields |-> MakeProgramField(ProgramOf(level), fields[i])]
  BY DEF MakeProgramInfo
<1> HIDE DEF layout, fields, made
<1>4. DOMAIN fields = 1..Len(fields) /\ Len(fields) \in Nat
  BY <1>2
<1>5. made \in [1..Len(fields) -> Range(made)] /\ Len(made) = Len(fields)
  BY <1>3, <1>4 DEF Range
<1>6. made \in Seq(Range(made))
  BY <1>4, <1>5
<1>7. ASSUME NEW k \in 1..Len(layout), layout[k] \notin Skipped
      PROVE  ReadProgramField(layout[k], made[k]) = {Expected[v][level][layout[k]]}
  <2> DEFINE f == layout[k]
  <2>1. made[k] = MakeProgramField(ProgramOf(level), f)
    BY <1>1, <1>2, <1>3, <1>4
  <2>2. f \in DOMAIN CType /\ Known(v, f)
    BY <1>0, <1>7, LayoutCovers DEF Covers, layout
  <2> HIDE DEF f
  <2>3. Expected[v][level][f]
          = IF f = "catType" /\ level = "low" THEN Text("") ELSE ProgramOf(level)[f]
    BY <2>2 DEF Expected
  <2>4. QED
    BY <2>1, <2>2, <2>3, FieldRead DEF f
<1>8. QED
  BY <1>1, <1>2, <1>5, <1>6, <1>7 DEF layout, made

\* The fields of a message with a subject s, and b behind it.
With(s, b) == <<Text("BACKEND_MESSAGE"), Text(s)>> \o b

LEMMA WithFacts ==
  ASSUME NEW s, NEW b, b \in Seq(Range(b))
  PROVE  /\ With(s, b) \in Seq(Range(With(s, b)))
         /\ Len(b) \in Nat /\ Len(With(s, b)) = 2 + Len(b)
         /\ With(s, b)[1] = Text("BACKEND_MESSAGE") /\ With(s, b)[2] = Text(s)
         /\ \A k \in 1..Len(b) : With(s, b)[2 + k] = b[k]
<1> DEFINE a == <<Text("BACKEND_MESSAGE"), Text(s)>>  r == a \o b
           X == Range(b) \cup {Text("BACKEND_MESSAGE"), Text(s)}
<1>1. a \in Seq(X) /\ Len(a) = 2 /\ a[1] = Text("BACKEND_MESSAGE") /\ a[2] = Text(s)
  OBVIOUS
<1>2. b \in Seq(X)
  BY SeqMonotonic
<1> HIDE DEF a, X
<1>3. a \in Seq(X) /\ b \in Seq(X)
  BY <1>1, <1>2
<1>4. r \in Seq(X) /\ Len(r) = Len(a) + Len(b) /\ Len(b) \in Nat
  BY ONLY <1>3, ConcatFacts
<1>5. \A k \in 1..Len(a) : r[k] = a[k]
  BY ONLY <1>3, ConcatFacts
<1>6. \A k \in 1..Len(b) : r[Len(a) + k] = b[k]
  BY ONLY <1>3, ConcatFacts
<1> HIDE DEF r
<1>7. r \in Seq(Range(r))
  BY <1>4, SeqOfRange
<1>8. With(s, b) = r
  BY DEF With, r, a
<1>9. QED
  BY <1>1, <1>4, <1>5, <1>6, <1>7, <1>8

LEMMA MeantWith ==
  ASSUME NEW v, NEW s, NEW b, b \in Seq(Range(b)), NEW level \in {"high", "low", "none"}, NEW signal,
         Behind(s) = "signal" => signal = {b[j].val : j \in 1..Len(b)} \cap Signals,
         Behind(s) # "signal" => signal = {},
         Behind(s) # "program" => level = "none",
         Behind(s) = "program" => ProgramSent(v, With(s, b), level),
         NEW m, m.fields = With(s, b), m.event = EventOf(s), m.level = level, m.signal = signal
  PROVE  Meant(v, m)
<1> DEFINE fields == With(s, b)
<1>1. /\ fields \in Seq(Range(fields)) /\ Len(b) \in Nat /\ Len(fields) = 2 + Len(b)
      /\ fields[1] = Text("BACKEND_MESSAGE") /\ fields[2] = Text(s)
  BY WithFacts
<1>2. \A k \in 1..Len(b) : fields[2 + k] = b[k]
  BY WithFacts
<1> HIDE DEF fields
<1>3. \A w : Text(w).val = w
  BY DEF Text
<1>4. fields[1].val = "BACKEND_MESSAGE" /\ fields[2].val = s /\ Len(fields) > 1
  BY <1>1, <1>3
<1>5. {fields[j].val : j \in 3..Len(fields)} = {b[j].val : j \in 1..Len(b)}
  <2>1. ASSUME NEW j \in 3..Len(fields) PROVE \E i \in 1..Len(b) : fields[j].val = b[i].val
    <3>1. j - 2 \in 1..Len(b) /\ 2 + (j - 2) = j
      BY <1>1
    <3>2. QED
      BY <1>2, <3>1
  <2>2. ASSUME NEW i \in 1..Len(b) PROVE \E j \in 3..Len(fields) : fields[j].val = b[i].val
    <3>1. 2 + i \in 3..Len(fields)
      BY <1>1
    <3>2. QED
      BY <1>2, <3>1
  <2> DEFINE A == {fields[j].val : j \in 3..Len(fields)}  B == {b[j].val : j \in 1..Len(b)}
  <2>3. A \subseteq B
    BY <2>1
  <2>4. B \subseteq A
    BY <2>2
  <2>5. QED
    BY <2>3, <2>4
<1>6. m.fields = fields
  BY DEF fields
<1>7. Behind(s) = "program" => ProgramSent(v, fields, level)
  BY DEF fields
<1>8. m.fields[1].val = "BACKEND_MESSAGE" /\ Len(m.fields) > 1 /\ m.fields[2].val = s
  BY <1>4, <1>6
<1>9. m.fields \in Seq(Range(m.fields)) /\ Len(m.fields) > 0
  BY <1>1, <1>6
<1>10. Behind(s) = "signal" => m.signal = {m.fields[j].val : j \in 3..Len(m.fields)} \cap Signals
  BY <1>5, <1>6
<1>11. Behind(s) = "program" => ProgramSent(v, m.fields, m.level)
  BY <1>6, <1>7
<1>12. QED
  BY ONLY <1>8, <1>9, <1>10, <1>11, m.event = EventOf(s), m.level = level, m.signal = signal,
          level \in {"high", "low", "none"}, Behind(s) # "signal" => signal = {},
          Behind(s) # "program" => level = "none" DEF Meant

\* A program behind the subject: b begins with it, is cut short or has another field 4.
LEMMA ProgramWith ==
  ASSUME NEW v \in Versions, NEW s, NEW b, b \in Seq(Range(b)), NEW level \in {"high", "low", "none"},
         level = "none" =>
           Len(b) < 42 \/ (Len(b) >= 4 /\ ReadProgramField("season", b[4]) = {}),
         level # "none" =>
           LET made == MakeProgramInfo(v, ProgramOf(level)) IN
           Len(b) >= Len(made) /\ \A k \in 1..Len(made) : b[k] = made[k]
  PROVE  ProgramSent(v, With(s, b), level)
<1> DEFINE layout == RcvProgramInfo(v)  fields == With(s, b)
<1>1. Len(b) \in Nat /\ Len(fields) = 2 + Len(b)
  BY WithFacts
<1>2. \A k \in 1..Len(b) : fields[2 + k] = b[k]
  BY WithFacts
<1>3. Len(layout) \in Nat /\ Len(layout) >= 42 /\ layout[4] = "season"
  BY MadeFacts
<1>4. CASE level = "none"
  <2>1. CASE Len(b) < 42
    <3>1. Len(fields) < 2 + Len(layout)
      BY <1>1, <1>3, <2>1
    <3>2. QED
      BY <1>4, <3>1 DEF ProgramSent
  <2>2. CASE Len(b) >= 4 /\ ReadProgramField("season", b[4]) = {}
    <3>1. 4 \in 1..Len(layout) /\ ReadProgramField(layout[4], fields[2 + 4]) = {}
      BY <1>1, <1>2, <1>3, <2>2
    <3>2. QED
      BY <1>4, <3>1 DEF ProgramSent
  <2>3. QED
    BY <1>4, <2>1, <2>2
<1>5. CASE level # "none"
  <2> DEFINE made == MakeProgramInfo(v, ProgramOf(level))
  <2>0. level \in {"high", "low"}
    BY <1>5
  <2>1. Len(made) \in Nat /\ Len(made) >= Len(layout)
    BY <2>0, MadeFacts
  <2>2. \A k \in 1..Len(layout) : layout[k] \notin Skipped =>
          ReadProgramField(layout[k], made[k]) = {Expected[v][level][layout[k]]}
    BY <2>0, MadeFacts
  <2>3. Len(b) >= Len(made) /\ \A k \in 1..Len(made) : b[k] = made[k]
    BY <1>5
  <2> HIDE DEF layout, fields, made
  <2>4. Len(fields) >= 2 + Len(layout)
    BY <1>1, <1>3, <2>1, <2>3
  <2>5. \A k \in 1..Len(layout) : fields[2 + k] = made[k]
    BY <1>1, <1>2, <1>3, <2>1, <2>3
  <2>6. QED
    BY <1>5, <2>2, <2>4, <2>5 DEF ProgramSent, layout, fields
<1>6. QED
  BY <1>4, <1>5

LEMMA SubjectFacts ==
  /\ Behind("DONE_RECORDING") = "flush" /\ EventOf("DONE_RECORDING") = "DONE_RECORDING"
  /\ Behind("NEWS") = "flush" /\ EventOf("NEWS") = "UNKNOWN"
  /\ Behind("SIGNAL") = "signal" /\ EventOf("SIGNAL") = "SIGNAL"
  /\ Behind("RECORDING_LIST_CHANGE") = "flush"
  /\ EventOf("RECORDING_LIST_CHANGE") = "RECORDING_LIST_CHANGE"
  /\ Behind("RECORDING_LIST_CHANGE UPDATE") = "program"
  /\ EventOf("RECORDING_LIST_CHANGE UPDATE") = "RECORDING_LIST_CHANGE"
  /\ Behind("ASK_RECORDING") = "program" /\ EventOf("ASK_RECORDING") = "ASK_RECORDING"
BY DEF Behind, EventOf, Events

LEMMA CarriesFacts ==
  ASSUME NEW s, NEW event, NEW b, NEW level
  PROVE  LET m == Carries(s, event, b, level) IN
         m.fields = With(s, b) /\ m.event = event /\ m.level = level /\ m.signal = {}
BY DEF Carries, Plain, With

\* A message whose head is another, or that has no subject.
LEMMA MeantNothing ==
  ASSUME NEW v, NEW m, m.fields \in Seq(Range(m.fields)), Len(m.fields) > 0,
         m.fields[1].val # "BACKEND_MESSAGE" \/ Len(m.fields) = 1,
         m.event = "UNKNOWN", m.level = "none", m.signal = {}
  PROVE  Meant(v, m)
BY DEF Meant

\* The event, signal and program of every message are those its fields say.
LEMMA MessagesMeant ==
  ASSUME NEW v \in Versions, NEW m \in Messages[v]
  PROVE  Meant(v, m)
<1> DEFINE high == MakeProgramInfo(v, ProgramOf("high"))
           low == MakeProgramInfo(v, ProgramOf("low"))
           zeros == [i \in 1..BufLen |-> Zero]
           cut == SubSeq(high, 1, 40)
           wrong == [high EXCEPT ![4] = Text("x")]
           noise == <<Text("slock"), Text("noise"), Text("ber")>>
           ask == "ASK_RECORDING"
           list == "RECORDING_LIST_CHANGE"
           change == "RECORDING_LIST_CHANGE UPDATE"
<1>1. /\ high \in Seq(Range(high)) /\ Len(high) \in Nat /\ Len(high) >= 42
      /\ low \in Seq(Range(low)) /\ Len(low) \in Nat
  <2>1. high \in Seq(Range(high)) /\ Len(high) >= Len(RcvProgramInfo(v))
        /\ Len(RcvProgramInfo(v)) >= 42 /\ Len(RcvProgramInfo(v)) \in Nat
    BY MadeFacts
  <2>2. low \in Seq(Range(low))
    BY MadeFacts
  <2> HIDE DEF high, low
  <2>3. QED
    BY <2>1, <2>2
<1>2. \/ m = Plain("DONE_RECORDING", "DONE_RECORDING")
      \/ m = Plain("NEWS", "UNKNOWN")
      \/ m = [Plain("", "UNKNOWN") EXCEPT !.fields = <<Text("BACKEND_MESSAGE")>>]
      \/ m = [Plain("", "UNKNOWN") EXCEPT !.fields = <<Text("OK"), Text("DONE_RECORDING")>>]
      \/ m = [Carries("SIGNAL", "SIGNAL", noise, "none") EXCEPT !.signal = {"slock", "ber"}]
      \/ m = Carries(list, list, high, "none")
      \/ m = Carries(change, list, low, "low")
      \/ m = Carries(ask, ask, high \o zeros, "high")
      \/ m = Carries(ask, ask, cut, "none")
      \/ m = Carries(ask, ask, wrong, "none")
  BY DEF Messages
<1> HIDE DEF high, low, zeros, cut, wrong, noise
<1>3. ASSUME NEW s, NEW event, m = Plain(s, event), EventOf(s) = event, Behind(s) = "flush"
      PROVE  Meant(v, m)
  <2> DEFINE b == <<>>
  <2>1. b \in Seq(Range(b)) /\ <<Text("BACKEND_MESSAGE"), Text(s)>> \o b
                               = <<Text("BACKEND_MESSAGE"), Text(s)>>
    OBVIOUS
  <2>2. m.fields = With(s, b) /\ m.event = event /\ m.level = "none" /\ m.signal = {}
    BY <1>3, <2>1 DEF Plain, With
  <2> HIDE DEF b
  <2>3. QED
    BY <1>3, <2>1, <2>2, MeantWith
<1>4. ASSUME m = [Plain("", "UNKNOWN") EXCEPT !.fields = <<Text("BACKEND_MESSAGE")>>]
      PROVE  Meant(v, m)
  <2> DEFINE fields == <<Text("BACKEND_MESSAGE")>>
  <2>1. m.fields = fields /\ m.event = "UNKNOWN" /\ m.level = "none" /\ m.signal = {}
    BY <1>4 DEF Plain
  <2>2. fields \in Seq({Text("BACKEND_MESSAGE")}) /\ Len(fields) = 1
    OBVIOUS
  <2> HIDE DEF fields
  <2>3. QED
    <3>1. fields \in Seq(Range(fields))
      BY <2>2, SeqOfRange
    <3>2. m.fields \in Seq(Range(m.fields)) /\ Len(m.fields) > 0 /\ Len(m.fields) = 1
      BY <2>1, <2>2, <3>1
    <3>3. QED
      BY <2>1, <3>2, MeantNothing
<1>5. ASSUME m = [Plain("", "UNKNOWN") EXCEPT !.fields = <<Text("OK"), Text("DONE_RECORDING")>>]
      PROVE  Meant(v, m)
  <2> DEFINE fields == <<Text("OK"), Text("DONE_RECORDING")>>
  <2>1. m.fields = fields /\ m.event = "UNKNOWN" /\ m.level = "none" /\ m.signal = {}
    BY <1>5 DEF Plain
  <2>2. fields \in Seq({Text("OK"), Text("DONE_RECORDING")}) /\ Len(fields) = 2
        /\ fields[1] = Text("OK")
    OBVIOUS
  <2>3. Text("OK").val # "BACKEND_MESSAGE"
    BY DEF Text
  <2> HIDE DEF fields
  <2>4. QED
    BY <2>1, <2>2, <2>3, SeqOfRange, MeantNothing
<1>6. ASSUME m = [Carries("SIGNAL", "SIGNAL", noise, "none") EXCEPT !.signal = {"slock", "ber"}]
      PROVE  Meant(v, m)
  <2>1. m.fields = With("SIGNAL", noise) /\ m.event = "SIGNAL" /\ m.level = "none"
        /\ m.signal = {"slock", "ber"}
    BY <1>6 DEF Carries, Plain, With
  <2>2. noise \in Seq({Text("slock"), Text("noise"), Text("ber")}) /\ Len(noise) = 3
        /\ noise[1] = Text("slock") /\ noise[2] = Text("noise") /\ noise[3] = Text("ber")
    BY DEF noise
  <2>3. \A w : Text(w).val = w
    BY DEF Text
  <2>4. {noise[j].val : j \in 1..Len(noise)} = {"slock", "noise", "ber"}
    BY <2>2, <2>3
  <2>5. {"slock", "noise", "ber"} \cap Signals = {"slock", "ber"}
    BY DEF Signals
  <2>6. noise \in Seq(Range(noise))
    BY <2>2, SeqOfRange
  <2>7. QED
    <3> DEFINE signal == {"slock", "ber"}
    <3>1. signal = {noise[j].val : j \in 1..Len(noise)} \cap Signals
      BY <2>4, <2>5
    <3>2. m.signal = signal
      BY <2>1
    <3> HIDE DEF signal
    <3>3. QED
      BY <2>1, <2>6, <3>1, <3>2, SubjectFacts, MeantWith
<1>7. ASSUME m = Carries(list, list, high, "none")
      PROVE  Meant(v, m)
  <2>1. m.fields = With(list, high) /\ m.event = list /\ m.level = "none" /\ m.signal = {}
    BY <1>7, CarriesFacts
  <2>2. QED
    BY <1>1, <2>1, SubjectFacts, MeantWith
<1>8. ASSUME NEW s, s \in {ask, change}, NEW event, EventOf(s) = event, NEW b, b \in Seq(Range(b)),
             NEW level \in {"high", "low", "none"}, m = Carries(s, event, b, level),
             ProgramSent(v, With(s, b), level)
      PROVE  Meant(v, m)
  <2>1. m.fields = With(s, b) /\ m.event = event /\ m.level = level /\ m.signal = {}
    <3>1. /\ Carries(s, event, b, level).fields = With(s, b)
          /\ Carries(s, event, b, level).event = event
          /\ Carries(s, event, b, level).level = level
          /\ Carries(s, event, b, level).signal = {}
      BY CarriesFacts
    <3>2. QED
      BY <1>8, <3>1
  <2>2. Behind(s) = "program"
    BY <1>8, SubjectFacts
  <2>3. QED
    BY <1>8, <2>1, <2>2, MeantWith
<1>9. ASSUME m = Carries(change, list, low, "low") PROVE Meant(v, m)
  <2>1. ProgramSent(v, With(change, low), "low")
    <3>1. Len(low) >= Len(low) /\ \A k \in 1..Len(low) : low[k] = low[k]
      BY <1>1
    <3>2. QED
      BY <1>1, <3>1, ProgramWith DEF low
  <2>2. QED
    BY <1>1, <1>8, <1>9, <2>1, SubjectFacts
<1>10. ASSUME m = Carries(ask, ask, high \o zeros, "high") PROVE Meant(v, m)
  <2> DEFINE b == high \o zeros  X == Range(high) \cup {Zero}
  <2>1. zeros \in Seq({Zero}) /\ Len(zeros) \in Nat
    BY ProtoEventAssumption DEF zeros
  <2>2. high \in Seq(X) /\ zeros \in Seq(X)
    BY <1>1, <2>1, SeqMonotonic
  <2> HIDE DEF X
  <2>3. b \in Seq(X) /\ Len(b) = Len(high) + Len(zeros)
    BY ONLY <2>2, ConcatFacts
  <2>4. \A k \in 1..Len(high) : b[k] = high[k]
    BY ONLY <2>2, ConcatFacts
  <2> HIDE DEF b
  <2>5. b \in Seq(Range(b)) /\ Len(b) >= Len(high)
    BY <1>1, <2>1, <2>3, SeqOfRange
  <2>6. ProgramSent(v, With(ask, b), "high")
    BY <2>4, <2>5, ProgramWith DEF high
  <2>7. QED
    BY <1>8, <1>10, <2>5, <2>6, SubjectFacts DEF b
<1>11. ASSUME m = Carries(ask, ask, cut, "none") PROVE Meant(v, m)
  <2>1. cut \in Seq(Range(high)) /\ Len(cut) = 40
    <3>1. ASSUME NEW X, NEW h \in Seq(X), Len(h) >= 42
          PROVE  SubSeq(h, 1, 40) \in Seq(X) /\ Len(SubSeq(h, 1, 40)) = 40
      <4>1. \A i \in 1..40 : h[i] \in X
        BY <3>1
      <4>2. SubSeq(h, 1, 40) \in Seq(X)
        BY <4>1, SubSeqProperties
      <4>3. Len(SubSeq(h, 1, 40)) = IF 1 <= 40 THEN 40 - 1 + 1 ELSE 0
        BY <4>1, SubSeqProperties
      <4>4. QED
        BY <4>2, <4>3
    <3>2. QED
      BY <1>1, <3>1 DEF cut
  <2>2. cut \in Seq(Range(cut)) /\ Len(cut) < 42
    BY <2>1, SeqOfRange
  <2>3. ProgramSent(v, With(ask, cut), "none")
    BY <2>2, ProgramWith
  <2>4. QED
    BY <1>8, <1>11, <2>2, <2>3, SubjectFacts
<1>12. ASSUME m = Carries(ask, ask, wrong, "none") PROVE Meant(v, m)
  <2> DEFINE X == Range(high) \cup {Text("x")}
  <2>1. high \in Seq(X) /\ 4 \in 1..Len(high)
    BY <1>1, SeqMonotonic
  <2>2. wrong \in Seq(X) /\ Len(wrong) = Len(high) /\ wrong[4] = Text("x")
    BY <2>1 DEF wrong
  <2>3. wrong \in Seq(Range(wrong))
    BY <2>2, SeqOfRange
  <2>4. ReadProgramField("season", Text("x")) = StringTo("uint16", Text("x"))
    BY CTypeFacts DEF ReadProgramField
  <2>5. "uint16" \in Unsigned \cup Signed /\ "x" # ""
    BY DEF Unsigned
  <2>6. ReadProgramField("season", wrong[4]) = {}
    BY <2>2, <2>4, <2>5, StringToText
  <2>7. Len(wrong) >= 4
    BY <1>1, <2>2
  <2>8. ProgramSent(v, With(ask, wrong), "none")
    BY <2>3, <2>6, <2>7, ProgramWith
  <2>9. QED
    BY <1>8, <1>12, <2>3, <2>8, SubjectFacts
<1>13. QED
  BY <1>2, <1>3, <1>4, <1>5, <1>6, <1>7, <1>9, <1>10, <1>11, <1>12, SubjectFacts

----------------------------------------------------------------------------
(***************************************************************************)
(* The inductive invariant                                                 *)
(***************************************************************************)
\* The units of the stream, and the stream itself: what is sent and not yet read.
Units ==
  {Header(n) : n \in Nat} \cup {Text("OK"), Text("REFUSED")}
    \cup UNION {UNION {Range(m.fields) : m \in Messages[v]} : v \in Versions}
Stream == (m_buffer \o wire) \o net

InMessage == {"head", "subject", "program", "signal", "flush"}
Reading == {"answer", "ok", "idle", "length"} \cup InMessage
Places == Reading \cup {"closed", "connect", "announce", "refused", "lost"}

Socket ==
  /\ net \in Seq(Units) /\ wire \in Seq(Units) /\ m_buffer \in Seq(Units)
  /\ Len(m_buffer) < BufLen
  /\ m_socket \in {"none", "open", "ended"}

Connection ==
  /\ m_isOpen \in BOOLEAN /\ m_hang \in BOOLEAN
  /\ m_protoVersion \in {0} \cup Versions
  /\ m_msgLength \in Nat
  /\ task \in [pc : Places, i : Nat, msg : [event : {task.msg.event}, program : {task.msg.program},
                                            signal : {task.msg.signal}]]
  /\ budget \in [send : Nat, fault : Nat]

\* Nothing is left of an earlier connection when one is opened; a version is agreed
\* on before anything is sent.
Quiet ==
  /\ task.pc \in {"closed", "connect", "announce"} =>
       net = <<>> /\ wire = <<>> /\ m_buffer = <<>>
  /\ task.pc \notin {"ok"} \cup InMessage => m_msgLength = 0
  /\ task.pc = "announce" => sent = <<>> /\ got.n = 0
  /\ task.pc \notin {"closed", "connect"} \/ sent # <<>> => m_protoVersion \in Versions

\* msgs are the messages that were sent on this connection.
Story(msgs) ==
  /\ msgs \in Seq(Messages[m_protoVersion])
  /\ Len(sent) = Len(msgs) /\ sent \in Seq(Range(sent)) /\ Len(sent) + budget.send <= MaxSent
  /\ \A k \in 1..Len(msgs) :
       sent[k] = [event |-> msgs[k].event, level |-> msgs[k].level, signal |-> msgs[k].signal]

\* r is what is to be made of message m.
Right(m, r) ==
  r.event = m.event /\ r.signal = m.signal /\ r.program = Expected[m_protoVersion][m.level]

Result(msgs) ==
  /\ got.n \in 0..Len(msgs)
  /\ got.n > 0 => Right(msgs[got.n], got.last)

\* full is all that the backend has sent: its answer, which is two units, and the
\* messages, the k-th behind off[k].
Laid(msgs, off, full) ==
  /\ off \in [1..Len(msgs) + 1 -> Nat] /\ off[1] = 2
  /\ \A j, k \in 1..Len(msgs) + 1 : j <= k => off[j] <= off[k]
  /\ full \in Seq(Units) /\ Len(full) = off[Len(msgs) + 1] /\ full[1] = Header(1)
  /\ \A k \in 1..Len(msgs) :
       /\ off[k + 1] = off[k] + 1 + Len(msgs[k].fields)
       /\ full[off[k] + 1] = Header(Len(msgs[k].fields))
       /\ \A j \in 1..Len(msgs[k].fields) : full[off[k] + 1 + j] = msgs[k].fields[j]

\* pos units were read; the stream has the next ones, all of them while the
\* connection is open.
Flow(full, pos) ==
  /\ pos \in Nat /\ pos + Len(Stream) <= Len(full)
  /\ m_socket = "open" => pos + Len(Stream) = Len(full)
  /\ \A x \in 1..Len(Stream) : Stream[x] = full[pos + x]

Subject(m, place) ==
  /\ Len(m.fields) > 1 /\ m.fields[1].val = "BACKEND_MESSAGE"
  /\ Behind(m.fields[2].val) = place

\* What the thread has made of the first used fields of message m.
Decoded(m, used) ==
  LET layout == RcvProgramInfo(m_protoVersion) IN
  /\ task.pc = "head" => used = 0 /\ task.msg = NewMessage
  /\ task.pc = "subject" =>
       used = 1 /\ task.msg = NewMessage /\ m.fields[1].val = "BACKEND_MESSAGE"
  /\ task.pc = "signal" =>
       /\ used >= 2 /\ Subject(m, "signal")
       /\ task.msg.event = m.event /\ task.msg.program = None
       /\ task.msg.signal = {m.fields[j].val : j \in 3..used} \cap Signals
  /\ task.pc = "program" =>
       /\ used = 1 + task.i /\ task.i \in 1..Len(layout) /\ Subject(m, "program")
       /\ task.msg.event = m.event /\ task.msg.signal = {}
       /\ \A k \in 1..task.i - 1 : ReadProgramField(layout[k], m.fields[2 + k]) # {}
       /\ m.level # "none" =>
            task.msg.program =
              [f \in DOMAIN CType |->
                 IF \E k \in 1..task.i - 1 : layout[k] = f
                   THEN Expected[m_protoVersion][m.level][f] ELSE NewProgram[f]]
  /\ task.pc = "flush" => Right(m, task.msg)

\* Where the thread is in the stream.
Progress(msgs, off, pos) ==
  /\ task.pc = "answer" => pos = 0 /\ got.n = 0
  /\ task.pc = "ok" => pos = 1 /\ m_msgLength = 1 /\ got.n = 0
  /\ task.pc \in {"idle", "length"} => pos = off[got.n + 1]
  /\ task.pc = "length" => task.msg = NewMessage
  /\ task.pc \in InMessage =>
       /\ got.n < Len(msgs) /\ off[got.n + 1] + 1 <= pos
       /\ pos + m_msgLength = off[got.n + 2]
       /\ Decoded(msgs[got.n + 1], pos - off[got.n + 1] - 1)

Followed(msgs) ==
  task.pc \in Reading =>
    \E off, full, pos : Laid(msgs, off, full) /\ Flow(full, pos) /\ Progress(msgs, off, pos)

IInv ==
  /\ Socket /\ Connection /\ Quiet
  /\ \E msgs : Story(msgs) /\ Result(msgs) /\ Followed(msgs)

----------------------------------------------------------------------------
(***************************************************************************)
(* The stream                                                              *)
(***************************************************************************)
\* The fields of the messages are units.
LEMMA FieldsUnits ==
  ASSUME NEW v \in Versions, NEW m \in Messages[v]
  PROVE  m.fields \in Seq(Units) /\ Len(m.fields) \in Nat \ {0}
<1>1. m.fields \in Seq(Range(m.fields)) /\ Len(m.fields) > 0
  BY MessagesMeant DEF Meant
<1>2. Range(m.fields) \subseteq Units
  BY DEF Units
<1> DEFINE s == m.fields
<1>3. s \in Seq(Range(s)) /\ Range(s) \subseteq Units
  BY <1>1, <1>2
<1> HIDE DEF s
<1>4. s \in Seq(Units)
  <2>1. s \in [1..Len(s) -> Range(s)] /\ Len(s) \in Nat
    BY <1>3
  <2>2. s \in [1..Len(s) -> Units]
    BY <1>3, <2>1
  <2>3. QED
    BY <2>1, <2>2
<1>5. QED
  BY <1>1, <1>4 DEF s

\* A length, and the answers to the announcement.
LEMMA UnitFacts ==
  /\ \A n \in Nat : Header(n) \in Units /\ Header(n).val = "length" /\ Header(n).bits = n
  /\ \A a \in {"OK", "REFUSED"} : Text(a) \in Units
<1>1. \A n : Header(n).val = "length" /\ Header(n).bits = n
  BY DEF Header
<1>2. QED
  BY <1>1 DEF Units

\* The elements of the stream.
LEMMA StreamFacts ==
  ASSUME NEW X, NEW a \in Seq(X), NEW b \in Seq(X), NEW c \in Seq(X)
  PROVE  /\ (a \o b) \o c \in Seq(X)
         /\ Len((a \o b) \o c) = Len(a) + Len(b) + Len(c)
         /\ \A k \in 1..Len(a) : ((a \o b) \o c)[k] = a[k]
         /\ \A k \in 1..Len(b) : ((a \o b) \o c)[Len(a) + k] = b[k]
         /\ \A k \in 1..Len(c) : ((a \o b) \o c)[Len(a) + Len(b) + k] = c[k]
<1> DEFINE d == a \o b
<1>1. /\ d \in Seq(X) /\ Len(d) = Len(a) + Len(b) /\ Len(a) \in Nat /\ Len(b) \in Nat
      /\ \A k \in 1..Len(a) : d[k] = a[k]
      /\ \A k \in 1..Len(b) : d[Len(a) + k] = b[k]
  BY ConcatFacts
<1> HIDE DEF d
<1>2. /\ d \o c \in Seq(X) /\ Len(d \o c) = Len(d) + Len(c) /\ Len(c) \in Nat
      /\ \A k \in 1..Len(d) : (d \o c)[k] = d[k]
      /\ \A k \in 1..Len(c) : (d \o c)[Len(d) + k] = c[k]
  <2>1. d \in Seq(X) /\ c \in Seq(X)
    BY <1>1
  <2>2. QED
    BY ONLY <2>1, ConcatFacts
<1>3. \A k \in 1..Len(a) : k \in 1..Len(d)
  BY <1>1
<1>4. \A k \in 1..Len(b) : Len(a) + k \in 1..Len(d)
  BY <1>1
<1>5. QED
  BY <1>1, <1>2, <1>3, <1>4 DEF d

\* What is left of a sequence.
LEMMA RestFacts ==
  ASSUME NEW X, NEW s \in Seq(X), NEW n \in Nat, n <= Len(s)
  PROVE  /\ SubSeq(s, n + 1, Len(s)) \in Seq(X)
         /\ Len(SubSeq(s, n + 1, Len(s))) = Len(s) - n
         /\ \A k \in 1..Len(s) - n : SubSeq(s, n + 1, Len(s))[k] = s[k + n]
OBVIOUS

LEMMA FrontFacts ==
  ASSUME NEW X, NEW s \in Seq(X), NEW n \in Nat, n <= Len(s)
  PROVE  /\ SubSeq(s, 1, n) \in Seq(X)
         /\ Len(SubSeq(s, 1, n)) = n
         /\ \A k \in 1..n : SubSeq(s, 1, n)[k] = s[k]
OBVIOUS

\* What is there at once is the beginning of the stream.
LEMMA AtOnceFacts ==
  ASSUME Socket, Readable
  PROVE  /\ Stream \in Seq(Units) /\ AtOnce \in Seq(Units)
         /\ Len(AtOnce) \in 1..BufLen /\ Len(AtOnce) <= Len(Stream)
         /\ \A x \in 1..Len(AtOnce) : AtOnce[x] = Stream[x]
         /\ First = Stream[1] /\ First = AtOnce[1]
<1>1. m_buffer \in Seq(Units) /\ wire \in Seq(Units) /\ net \in Seq(Units)
  BY DEF Socket
<1>2. BufLen \in Nat \ {0} /\ Len(m_buffer) < BufLen
  BY ProtoEventAssumption DEF Socket
<1>3. /\ Stream \in Seq(Units)
      /\ Len(Stream) = Len(m_buffer) + Len(wire) + Len(net)
      /\ \A k \in 1..Len(m_buffer) : Stream[k] = m_buffer[k]
      /\ \A k \in 1..Len(wire) : Stream[Len(m_buffer) + k] = wire[k]
  BY ONLY <1>1, StreamFacts DEF Stream
<1>4. Len(m_buffer) \in Nat /\ Len(wire) \in Nat /\ Len(net) \in Nat
  BY <1>1
<1>5. CASE m_buffer # <<>>
  <2>1. AtOnce = m_buffer /\ First = m_buffer[1] /\ Len(m_buffer) > 0
    BY <1>1, <1>5 DEF AtOnce, First
  <2>2. QED
    BY <1>1, <1>2, <1>3, <1>4, <2>1
<1>6. CASE m_buffer = <<>>
  <2> DEFINE k == Smaller(BufLen, Len(wire))
  <2>1. wire # <<>> /\ Len(wire) > 0 /\ Len(m_buffer) = 0
    BY <1>1, <1>6 DEF Readable
  <2>2. k \in 1..BufLen /\ k <= Len(wire)
    BY <1>2, <1>4, <2>1 DEF Smaller
  <2>3. AtOnce = SubSeq(wire, 1, k) /\ First = wire[1]
    BY <1>1, <1>6, <2>1 DEF AtOnce, First
  <2> HIDE DEF k
  <2>4. k \in Nat
    BY <1>2, <2>2
  <2>5. /\ AtOnce \in Seq(Units) /\ Len(AtOnce) = k
        /\ \A x \in 1..k : AtOnce[x] = wire[x]
    BY <1>1, <2>2, <2>3, <2>4, FrontFacts
  <2>6. \A x \in 1..Len(wire) : Stream[x] = wire[x]
    BY <1>3, <1>4, <2>1
  <2>7. 1 \in 1..k /\ \A x \in 1..k : x \in 1..Len(wire)
    BY <1>4, <2>2, <2>4
  <2>8. QED
    BY <1>3, <1>4, <2>1, <2>2, <2>3, <2>5, <2>6, <2>7
<1>7. QED
  BY <1>5, <1>6

\* Sequence t is s without its first n units.
Ends(s, t, n) ==
  Len(t) = Len(s) - n /\ \A x \in 1..Len(s) - n : t[x] = s[x + n]

\* n units of the stream were read.
Shifted(n) == m_socket' = m_socket /\ n <= Len(Stream) /\ Ends(Stream, Stream', n)

\* Units that are taken from the first part are taken from the whole.
LEMMA ShiftBuffer ==
  ASSUME NEW X, NEW a \in Seq(X), NEW b \in Seq(X), NEW c \in Seq(X),
         NEW n \in Nat, n <= Len(a)
  PROVE  Ends((a \o b) \o c, (SubSeq(a, n + 1, Len(a)) \o b) \o c, n)
<1> DEFINE d == SubSeq(a, n + 1, Len(a))
           s == (a \o b) \o c
           t == (d \o b) \o c
<1>1. /\ d \in Seq(X) /\ Len(d) = Len(a) - n
      /\ \A k \in 1..Len(a) - n : d[k] = a[k + n]
  BY RestFacts
<1>2. Len(a) \in Nat /\ Len(b) \in Nat /\ Len(c) \in Nat /\ Len(d) \in Nat
  BY <1>1
<1>3. /\ Len(s) = Len(a) + Len(b) + Len(c)
      /\ \A k \in 1..Len(a) : s[k] = a[k]
      /\ \A k \in 1..Len(b) : s[Len(a) + k] = b[k]
      /\ \A k \in 1..Len(c) : s[Len(a) + Len(b) + k] = c[k]
  BY StreamFacts
<1> HIDE DEF d
<1>4. /\ Len(t) = Len(d) + Len(b) + Len(c)
      /\ \A k \in 1..Len(d) : t[k] = d[k]
      /\ \A k \in 1..Len(b) : t[Len(d) + k] = b[k]
      /\ \A k \in 1..Len(c) : t[Len(d) + Len(b) + k] = c[k]
  <2>1. d \in Seq(X) /\ b \in Seq(X) /\ c \in Seq(X)
    BY <1>1
  <2>2. QED
    BY ONLY <2>1, StreamFacts
<1> HIDE DEF s, t
<1>5. ASSUME NEW x \in 1..Len(s) - n PROVE t[x] = s[x + n]
  <2>1. CASE x <= Len(d)
    BY <1>1, <1>2, <1>3, <1>4, <2>1
  <2>2. CASE x > Len(d) /\ x <= Len(d) + Len(b)
    <3>1. x - Len(d) \in 1..Len(b)
      BY <1>2, <2>2
    <3>2. t[Len(d) + (x - Len(d))] = b[x - Len(d)] /\ s[Len(a) + (x - Len(d))] = b[x - Len(d)]
      BY <1>3, <1>4, <3>1
    <3>3. Len(d) + (x - Len(d)) = x /\ Len(a) + (x - Len(d)) = x + n
      BY <1>1, <1>2
    <3>4. QED
      BY <3>2, <3>3
  <2>3. CASE x > Len(d) + Len(b)
    <3> DEFINE y == x - Len(d) - Len(b)
    <3>1. y \in 1..Len(c)
      BY <1>1, <1>2, <1>3, <2>3
    <3>2. t[Len(d) + Len(b) + y] = c[y] /\ s[Len(a) + Len(b) + y] = c[y]
      BY <1>3, <1>4, <3>1
    <3>3. Len(d) + Len(b) + y = x /\ Len(a) + Len(b) + y = x + n
      BY <1>1, <1>2
    <3>4. QED
      BY <3>2, <3>3
  <2>4. QED
    BY <1>2, <2>1, <2>2, <2>3
<1>6. Len(t) = Len(s) - n
  BY <1>1, <1>2, <1>3, <1>4
<1>7. QED
  BY <1>5, <1>6 DEF s, t, d, Ends

LEMMA Halves ==
  ASSUME NEW X, NEW s \in Seq(X), NEW n \in Nat, n <= Len(s)
  PROVE  SubSeq(s, 1, n) \o SubSeq(s, n + 1, Len(s)) = s
<1>1. Len(s) \in Nat /\ 1 \in 1..Len(s) + 1 /\ n \in 1 - 1..Len(s) /\ Len(s) \in n..Len(s)
  OBVIOUS
<1>2. SubSeq(s, 1, n) \o SubSeq(s, n + 1, Len(s)) = SubSeq(s, 1, Len(s))
  BY <1>1, ConcatAdjacentSubSeq, Zenon
<1>3. SubSeq(s, 1, Len(s)) = s
  OBVIOUS
<1>4. QED
  BY <1>2, <1>3

LEMMA EmptyFacts ==
  ASSUME NEW X, NEW s \in Seq(X)
  PROVE  <<>> \o s = s /\ s \o <<>> = s /\ <<>> \in Seq(X) /\ Len(<<>>) = 0
OBVIOUS

\* ReceiveData takes the beginning of the stream.
LEMMA Received ==
  ASSUME Socket, Readable, NEW n \in 1..Len(AtOnce), ReceiveData(n)
  PROVE  Socket' /\ Shifted(n)
<1>1. m_buffer \in Seq(Units) /\ wire \in Seq(Units) /\ net \in Seq(Units)
  BY DEF Socket
<1>2. BufLen \in Nat \ {0} /\ Len(m_buffer) < BufLen
  BY ProtoEventAssumption DEF Socket
<1>3. /\ Stream \in Seq(Units) /\ AtOnce \in Seq(Units)
      /\ Len(AtOnce) \in 1..BufLen /\ Len(AtOnce) <= Len(Stream)
  BY AtOnceFacts
<1>4. n \in Nat /\ n >= 1 /\ n <= Len(AtOnce) /\ n <= Len(Stream)
  BY <1>3
<1>5. m_buffer' \in Seq(Units) /\ Len(m_buffer') = Len(AtOnce) - n
  BY <1>3, <1>4, RestFacts DEF ReceiveData
<1> DEFINE b == IF m_buffer # <<>> THEN wire ELSE SubSeq(wire, Len(AtOnce) + 1, Len(wire))
<1>6. Stream = (AtOnce \o b) \o net /\ b \in Seq(Units)
  <2>1. CASE m_buffer # <<>>
    BY <1>1, <2>1 DEF Stream, AtOnce
  <2>2. CASE m_buffer = <<>>
    <3> DEFINE k == Smaller(BufLen, Len(wire))
    <3>1. k \in Nat /\ k <= Len(wire)
      BY <1>1, <1>2 DEF Smaller
    <3>2. AtOnce = SubSeq(wire, 1, k)
      BY <2>2 DEF AtOnce
    <3> HIDE DEF k
    <3>3. Len(AtOnce) = k
      BY <1>1, <3>1, <3>2, FrontFacts
    <3>4. AtOnce \o b = wire
      BY <1>1, <2>2, <3>1, <3>2, <3>3, Halves
    <3>5. <<>> \o wire = wire
      BY <1>1, EmptyFacts
    <3>6. b \in Seq(Units)
      BY <1>1, <2>2, <3>1, <3>3, RestFacts
    <3>7. QED
      BY <2>2, <3>4, <3>5, <3>6 DEF Stream
  <2>3. QED
    BY <2>1, <2>2
<1>7. wire' = b /\ net' = net /\ m_socket' = m_socket
      /\ m_buffer' = SubSeq(AtOnce, n + 1, Len(AtOnce))
  BY DEF ReceiveData
<1> HIDE DEF b
<1>8. Stream' = (SubSeq(AtOnce, n + 1, Len(AtOnce)) \o b) \o net
  BY <1>7 DEF Stream
<1>9. Ends(Stream, Stream', n)
  <2>1. AtOnce \in Seq(Units) /\ b \in Seq(Units) /\ net \in Seq(Units) /\ n \in Nat
        /\ n <= Len(AtOnce)
    BY <1>1, <1>3, <1>4, <1>6
  <2>2. QED
    BY ONLY <1>6, <1>8, <2>1, ShiftBuffer
<1>10. Socket'
  <2>1. Len(m_buffer') < BufLen
    BY <1>2, <1>3, <1>4, <1>5
  <2>2. QED
    BY <1>1, <1>5, <1>6, <1>7, <2>1 DEF Socket
<1>11. QED
  BY <1>4, <1>7, <1>9, <1>10 DEF Shifted

\* So does what is received straight from the system.
LEMMA ReceivedStraight ==
  ASSUME Socket, m_buffer = <<>>, NEW n \in 1..Len(wire), ReceiveStraight(n)
  PROVE  Socket' /\ Shifted(n)
<1>1. m_buffer \in Seq(Units) /\ wire \in Seq(Units) /\ net \in Seq(Units)
  BY DEF Socket
<1>2. wire' \in Seq(Units) /\ n \in Nat /\ n <= Len(wire)
  BY <1>1, RestFacts DEF ReceiveStraight
<1>3. /\ wire' = SubSeq(wire, n + 1, Len(wire)) /\ net' = net /\ m_socket' = m_socket
      /\ m_buffer' = <<>>
  BY DEF ReceiveStraight
<1>4. Stream = (wire \o <<>>) \o net
  BY <1>1, EmptyFacts DEF Stream
<1>5. Stream' = (SubSeq(wire, n + 1, Len(wire)) \o <<>>) \o net
  <2>1. <<>> \o wire' = wire' /\ wire' \o <<>> = wire'
    BY <1>2, EmptyFacts
  <2>2. QED
    BY <1>3, <2>1 DEF Stream
<1>6. Ends(Stream, Stream', n)
  <2>1. wire \in Seq(Units) /\ <<>> \in Seq(Units) /\ net \in Seq(Units) /\ n \in Nat
        /\ n <= Len(wire)
    BY <1>1, <1>2, EmptyFacts
  <2>2. QED
    BY ONLY <1>4, <1>5, <2>1, ShiftBuffer
<1>7. Socket'
  BY <1>1, <1>2, <1>3 DEF Socket
<1>8. n <= Len(Stream)
  <2>1. Len(Stream) = Len(wire) + Len(<<>>) + Len(net)
    BY ONLY <1>1, <1>4, EmptyFacts, StreamFacts
  <2>2. QED
    BY <1>1, <1>2, <2>1
<1>9. QED
  BY <1>3, <1>6, <1>7, <1>8 DEF Shifted

\* What the network delivers stays in the stream.
LEMMA Delivered ==
  ASSUME Socket, Deliver
  PROVE  Socket' /\ Stream' = Stream
<1>1. m_buffer \in Seq(Units) /\ wire \in Seq(Units) /\ net \in Seq(Units)
  BY DEF Socket
<1>2. PICK n \in {Smaller(k, Len(net)) : k \in Segments} :
        /\ wire' = wire \o SubSeq(net, 1, n)
        /\ net' = SubSeq(net, n + 1, Len(net))
  BY DEF Deliver
<1>3. n \in Nat /\ n <= Len(net)
  BY <1>1, <1>2, ProtoEventAssumption DEF Smaller
<1> DEFINE f == SubSeq(net, 1, n)  r == SubSeq(net, n + 1, Len(net))
<1>4. f \in Seq(Units) /\ r \in Seq(Units) /\ f \o r = net
  BY <1>1, <1>3, FrontFacts, RestFacts, Halves
<1>5. m_buffer' = m_buffer /\ m_socket' = m_socket /\ wire' = wire \o f /\ net' = r
  BY <1>2 DEF Deliver
<1> HIDE DEF f, r
<1>6. (m_buffer \o (wire \o f)) \o r = (m_buffer \o wire) \o (f \o r)
  <2>1. m_buffer \in Seq(Units) /\ wire \in Seq(Units) /\ f \in Seq(Units) /\ r \in Seq(Units)
    BY <1>1, <1>4
  <2>2. (m_buffer \o wire) \o f = m_buffer \o (wire \o f)
    BY ONLY <2>1, ConcatAssociative
  <2>3. m_buffer \o wire \in Seq(Units)
    BY ONLY <2>1, ConcatProperties
  <2>4. ((m_buffer \o wire) \o f) \o r = (m_buffer \o wire) \o (f \o r)
    BY ONLY <2>1, <2>3, ConcatAssociative
  <2>5. QED
    BY <2>2, <2>4
<1>7. wire \o f \in Seq(Units)
  BY <1>1, <1>4, ConcatProperties
<1>8. QED
  BY <1>1, <1>4, <1>5, <1>6, <1>7 DEF Socket, Stream

\* The first n units of the stream are those of s behind p.
Begins(s, p, n) == \A x \in 1..n : Stream[x] = s[p + x]

\* The stream follows what was sent when its beginning is read.
LEMMA FlowMoves ==
  ASSUME Socket, NEW full \in Seq(Units), NEW pos, Flow(full, pos), NEW n \in Nat, Shifted(n)
  PROVE  /\ Flow(full, pos + n)'
         /\ pos \in Nat /\ pos + n <= Len(full)
         /\ Begins(full, pos, n)
<1>1. Stream \in Seq(Units) /\ Len(Stream) \in Nat /\ Len(full) \in Nat
  <2>1. m_buffer \in Seq(Units) /\ wire \in Seq(Units) /\ net \in Seq(Units)
    BY DEF Socket
  <2>2. Stream \in Seq(Units)
    BY ONLY <2>1, StreamFacts DEF Stream
  <2>3. QED
    BY <2>2
<1>2. /\ pos \in Nat /\ pos + Len(Stream) <= Len(full)
      /\ m_socket = "open" => pos + Len(Stream) = Len(full)
  BY DEF Flow
<1>3. \A x \in 1..Len(Stream) : Stream[x] = full[pos + x]
  BY DEF Flow
<1>4. n <= Len(Stream) /\ Len(Stream') = Len(Stream) - n /\ m_socket' = m_socket
  BY DEF Shifted, Ends
<1>5. \A x \in 1..Len(Stream) - n : Stream'[x] = Stream[x + n]
  BY DEF Shifted, Ends
<1>6. ASSUME NEW x \in 1..Len(Stream') PROVE Stream'[x] = full[(pos + n) + x]
  <2>1. x \in 1..Len(Stream) - n /\ x + n \in 1..Len(Stream)
    BY <1>1, <1>4
  <2>2. Stream'[x] = full[pos + (x + n)]
    BY <1>3, <1>5, <2>1
  <2>3. pos + (x + n) = (pos + n) + x
    BY <1>2, <2>1
  <2>4. QED
    BY <2>2, <2>3
<1>7. /\ pos + n \in Nat /\ (pos + n) + Len(Stream') <= Len(full)
      /\ m_socket' = "open" => (pos + n) + Len(Stream') = Len(full)
  BY <1>1, <1>2, <1>4
<1>8. Flow(full, pos + n)'
  BY <1>6, <1>7 DEF Flow
<1>9. Begins(full, pos, n)
  BY <1>1, <1>3, <1>4 DEF Begins
<1>10. QED
  BY <1>1, <1>2, <1>4, <1>8, <1>9

\* A socket that is left alone.
LEMMA Unread ==
  ASSUME Socket, UNCHANGED socket
  PROVE  Socket' /\ Shifted(0)
<1>1. Stream' = Stream /\ m_socket' = m_socket /\ Socket'
  BY DEF Socket, Stream, socket
<1>2. Stream \in Seq(Units)
  <2>1. m_buffer \in Seq(Units) /\ wire \in Seq(Units) /\ net \in Seq(Units)
    BY DEF Socket
  <2>2. QED
    BY ONLY <2>1, StreamFacts DEF Stream
<1>3. QED
  BY <1>1, <1>2 DEF Shifted, Ends

----------------------------------------------------------------------------
(***************************************************************************)
(* The thread reads a message                                              *)
(***************************************************************************)
\* What was sent, and in what version, is not changed by the thread.
LEMMA StoryKept ==
  ASSUME NEW msgs, Story(msgs), UNCHANGED <<m_protoVersion, sent>>,
         budget'.send = budget.send
  PROVE  Story(msgs)'
BY DEF Story

LEMMA ResultKept ==
  ASSUME NEW msgs, Result(msgs), UNCHANGED <<m_protoVersion, got>>
  PROVE  Result(msgs)'
BY DEF Result, Right

\* n fields of a message are read.
Reads(n) ==
  /\ Socket' /\ Shifted(n)
  /\ m_msgLength' = m_msgLength - n
  /\ UNCHANGED <<m_isOpen, m_hang, m_protoVersion, sent, got, budget>>

\* A place p within a message of l fields behind o.
LEMMA Within ==
  ASSUME NEW o \in Nat, NEW p \in Nat, NEW n \in Nat, NEW l \in Nat,
         o + 1 <= p, p + n <= o + 1 + l
  PROVE  /\ p - o - 1 \in Nat /\ p = o + 1 + (p - o - 1) /\ (p - o - 1) + n <= l
         /\ (p + n) - o - 1 = (p - o - 1) + n
         /\ p + n = o + 1 + l => (p - o - 1) + n = l
OBVIOUS

\* Message m lies between o and e, and n of its fields are next in the stream.
Located(v, m, o, e, pos, n) ==
  LET used == pos - o - 1 IN
  /\ m \in Messages[v] /\ m.fields \in Seq(Units) /\ used \in Nat
  /\ o \in Nat /\ e = o + 1 + Len(m.fields)
  /\ Begins(m.fields, used, n)

LEMMA InStream ==
  ASSUME NEW msgs, NEW off, NEW full, NEW pos, NEW v \in Versions,
         msgs \in Seq(Messages[v]), Laid(msgs, off, full),
         NEW c \in Nat, c < Len(msgs), pos \in Nat, off[c + 1] + 1 <= pos,
         NEW n \in Nat, pos + n <= off[c + 2],
         Begins(full, pos, n)
  PROVE  Located(v, msgs[c + 1], off[c + 1], off[c + 2], pos, n)
<1> DEFINE m == msgs[c + 1]  o == off[c + 1]  used == pos - o - 1
<1>1. Len(msgs) \in Nat /\ c + 1 \in 1..Len(msgs) /\ c + 1 \in 1..Len(msgs) + 1
  OBVIOUS
<1>2. m \in Messages[v]
  BY <1>1
<1>3. m.fields \in Seq(Units) /\ Len(m.fields) \in Nat
  BY <1>2, FieldsUnits
<1>4. o \in Nat
  BY <1>1 DEF Laid
<1>5. off[(c + 1) + 1] = o + 1 + Len(m.fields) /\ (c + 1) + 1 = c + 2
  BY <1>1 DEF Laid
<1>6. \A j \in 1..Len(m.fields) : full[o + 1 + j] = m.fields[j]
  BY <1>1 DEF Laid
<1> HIDE DEF m, o
<1>7. o + 1 <= pos /\ pos \in Nat /\ off[c + 2] = o + 1 + Len(m.fields)
      /\ pos + n <= off[c + 2] /\ n \in Nat
  BY <1>5 DEF o
<1>10. used \in Nat /\ pos = o + 1 + used /\ used + n <= Len(m.fields)
  <2>1. pos + n <= o + 1 + Len(m.fields)
    BY <1>7
  <2>2. Len(m.fields) \in Nat /\ pos \in Nat /\ o + 1 <= pos /\ n \in Nat
    BY <1>3, <1>7
  <2>3. QED
    BY ONLY <1>4, <2>1, <2>2, Within
<1> HIDE DEF used
<1>8. ASSUME NEW x \in 1..n PROVE Stream[x] = m.fields[used + x]
  <2>1. used + x \in 1..Len(m.fields) /\ o + 1 + (used + x) = pos + x
    BY ONLY <1>3, <1>4, <1>7, <1>10, x \in 1..n
  <2>2. full[o + 1 + (used + x)] = m.fields[used + x]
    BY <1>6, <2>1
  <2>3. Stream[x] = full[pos + x]
    BY DEF Begins
  <2>4. QED
    BY <2>1, <2>2, <2>3
<1>9. QED
  BY <1>2, <1>3, <1>4, <1>7, <1>8, <1>10 DEF m, o, used, Begins, Located

\* A message in progress: the fields that are used and those that are not.
LEMMA MessageFacts ==
  ASSUME IInv, task.pc \in InMessage
  PROVE  \E msgs, off, full, pos :
           /\ Story(msgs) /\ Result(msgs)
           /\ Laid(msgs, off, full) /\ Flow(full, pos)
           /\ got.n \in Nat /\ got.n < Len(msgs) /\ off[got.n + 1] + 1 <= pos
           /\ pos + m_msgLength = off[got.n + 2]
           /\ Decoded(msgs[got.n + 1], pos - off[got.n + 1] - 1)
<1>1. PICK msgs : Story(msgs) /\ Result(msgs) /\ Followed(msgs)
  BY DEF IInv
<1>2. PICK off, full, pos : Laid(msgs, off, full) /\ Flow(full, pos) /\ Progress(msgs, off, pos)
  BY <1>1 DEF Followed, Reading
<1>3. got.n \in Nat
  BY <1>1 DEF Result
<1>4. QED
  BY <1>1, <1>2, <1>3 DEF Progress

\* A step within a message: it is right when what it makes of the fields is.
LEMMA MessageStep ==
  ASSUME IInv, task.pc \in InMessage, NEW n \in Nat, n <= m_msgLength, Reads(n),
         Connection', task'.pc \in InMessage,
         \A m \in Messages[m_protoVersion] : \A used \in Nat :
           /\ used + m_msgLength = Len(m.fields) /\ Decoded(m, used)
           /\ Begins(m.fields, used, n)
           => Decoded(m, used + n)'
  PROVE  IInv'
<1>1. PICK msgs, off, full, pos :
           /\ Story(msgs) /\ Result(msgs)
           /\ Laid(msgs, off, full) /\ Flow(full, pos)
           /\ got.n \in Nat /\ got.n < Len(msgs) /\ off[got.n + 1] + 1 <= pos
           /\ pos + m_msgLength = off[got.n + 2]
           /\ Decoded(msgs[got.n + 1], pos - off[got.n + 1] - 1)
  BY MessageFacts
<1>0. PICK c : c = got.n
  OBVIOUS
<1> DEFINE m == msgs[c + 1]  o == off[c + 1]  used == pos - o - 1
<1>2. m_protoVersion \in Versions /\ m_msgLength \in Nat /\ Socket
  BY DEF IInv, Quiet, Connection, InMessage
<1>3. msgs \in Seq(Messages[m_protoVersion]) /\ full \in Seq(Units)
  BY <1>1 DEF Story, Laid
<1>4. /\ Flow(full, pos + n)' /\ pos \in Nat
      /\ Begins(full, pos, n)
  BY <1>1, <1>2, <1>3, FlowMoves DEF Reads
<1>5. c \in Nat /\ c < Len(msgs) /\ o + 1 <= pos /\ got'.n = c
  BY <1>0, <1>1 DEF Reads
<1>6. pos + m_msgLength = off[c + 2] /\ pos + n <= off[c + 2]
  <2>1. pos + n <= pos + m_msgLength
    BY <1>2, <1>4
  <2>2. QED
    BY <1>0, <1>1, <2>1
<1>7. /\ m \in Messages[m_protoVersion] /\ m.fields \in Seq(Units) /\ used \in Nat
      /\ o \in Nat /\ off[c + 2] = o + 1 + Len(m.fields)
      /\ Begins(m.fields, used, n)
  <2>1. n \in Nat
    OBVIOUS
  <2>2. Laid(msgs, off, full)
    BY <1>1
  <2>3. Located(m_protoVersion, msgs[c + 1], off[c + 1], off[c + 2], pos, n)
    BY ONLY <1>2, <1>3, <1>4, <1>5, <1>6, <2>1, <2>2, InStream
  <2>4. QED
    BY ONLY <2>3 DEF Located
<1>8. Decoded(m, used)
  BY <1>0, <1>1
<1> HIDE DEF m, o
<1>9. used + m_msgLength = Len(m.fields) /\ (pos + n) - o - 1 = used + n
  <2>1. Len(m.fields) \in Nat /\ o \in Nat /\ n \in Nat
    BY <1>7
  <2>2. pos + m_msgLength = o + 1 + Len(m.fields)
    BY <1>6, <1>7
  <2>3. pos \in Nat /\ m_msgLength \in Nat
    BY <1>2, <1>4
  <2>4. o + 1 <= pos /\ pos + n <= o + 1 + Len(m.fields)
    BY <1>5, <1>6, <1>7
  <2>5. (pos - o - 1) + m_msgLength = Len(m.fields)
    <3>1. PICK l, k, q : l = Len(m.fields) /\ k = m_msgLength /\ q = o
      OBVIOUS
    <3>2. l \in Nat /\ k \in Nat /\ q \in Nat /\ pos \in Nat /\ pos + k = q + 1 + l
      BY ONLY <2>1, <2>2, <2>3, <3>1
    <3>3. (pos - q - 1) + k = l
      BY ONLY <3>2
    <3>4. QED
      BY ONLY <3>1, <3>3
  <2>6. (pos + n) - o - 1 = (pos - o - 1) + n
    BY ONLY <2>1, <2>3, <2>4, Within
  <2>7. QED
    BY <2>5, <2>6
<1> HIDE DEF used
<1>10. Decoded(m, used + n)'
  BY <1>7, <1>8, <1>9
<1>11. Decoded(m, (pos + n) - o - 1)'
  BY <1>9, <1>10
<1>12. Progress(msgs, off, pos + n)'
  <2>1. o + 1 <= pos + n /\ (pos + n) + (m_msgLength - n) = off[c + 2]
    <3>1. n \in Nat /\ m_msgLength \in Nat /\ pos \in Nat /\ o \in Nat /\ o + 1 <= pos
      BY <1>2, <1>4, <1>5, <1>7
    <3>2. (pos + n) + (m_msgLength - n) = pos + m_msgLength /\ o + 1 <= pos + n
      BY ONLY <3>1
    <3>3. QED
      BY <1>6, <3>2
  <2>2. m_msgLength' = m_msgLength - n
    BY DEF Reads
  <2>3. task'.pc \notin {"answer", "ok", "idle", "length"}
    BY DEF InMessage
  <2>4. /\ got'.n < Len(msgs) /\ off[got'.n + 1] + 1 <= pos + n
        /\ (pos + n) + m_msgLength' = off[got'.n + 2]
        /\ Decoded(msgs[got.n + 1], (pos + n) - off[got.n + 1] - 1)'
    BY <1>5, <1>11, <2>1, <2>2 DEF m, o
  <2>5. QED
    BY <2>3, <2>4 DEF Progress
<1>13. Followed(msgs)'
  <2>1. Laid(msgs, off, full)'
    BY <1>1 DEF Laid
  <2>2. QED
    BY <1>4, <1>12, <2>1 DEF Followed
<1>14. Story(msgs)' /\ Result(msgs)'
  <2>1. UNCHANGED <<m_protoVersion, sent, got>> /\ budget'.send = budget.send
    BY DEF Reads
  <2>2. QED
    BY <1>1, <2>1, StoryKept, ResultKept
<1>15. Quiet' /\ Socket'
  BY <1>2 DEF Reads, Quiet, InMessage
<1>16. QED
  BY <1>13, <1>14, <1>15 DEF IInv

LEMMA FieldsReads ==
  ASSUME Socket, Readable, NEW n \in 1..Len(AtOnce), ReadFields(n)
  PROVE  Reads(n)
BY Received DEF ReadFields, Reads

LEMMA NothingReads ==
  ASSUME IInv, UNCHANGED <<socket, proto, sent, got, budget>>
  PROVE  Reads(0) /\ 0 <= m_msgLength
<1>1. m_msgLength \in Nat /\ Socket
  BY DEF IInv, Connection
<1>2. Socket' /\ Shifted(0)
  <2>1. UNCHANGED socket
    OBVIOUS
  <2>2. QED
    BY <1>1, <2>1, Unread
<1>3. m_msgLength' = m_msgLength - 0 /\ UNCHANGED <<m_isOpen, m_hang, m_protoVersion>>
  BY <1>1 DEF proto
<1>4. QED
  BY <1>1, <1>2, <1>3 DEF Reads

\* A field of a message is read.
LEMMA FieldRead1 ==
  ASSUME IInv, ReadField
  PROVE  /\ Reads(1) /\ 1 <= m_msgLength
         /\ \A m, used : Begins(m.fields, used, 1) => First = m.fields[used + 1]
<1>1. Socket /\ m_msgLength \in Nat
  BY DEF IInv, Connection
<1>2. Readable /\ m_msgLength > 0 /\ ReadFields(1)
  BY DEF ReadField
<1>3. Len(AtOnce) \in 1..BufLen /\ First = Stream[1] /\ BufLen \in Nat
  BY <1>1, <1>2, AtOnceFacts, ProtoEventAssumption
<1>4. 1 \in 1..Len(AtOnce)
  BY <1>3
<1>5. Reads(1)
  BY <1>1, <1>2, <1>4, FieldsReads
<1>6. ASSUME NEW m, NEW used, Begins(m.fields, used, 1) PROVE First = m.fields[used + 1]
  BY <1>3, <1>6 DEF Begins
<1>7. QED
  BY <1>1, <1>2, <1>5, <1>6

LEMMA ExpectedNone == \A v \in Versions : Expected[v]["none"] = None
BY DEF Expected

\* The thread goes to another place.
LEMMA GotoTyped ==
  ASSUME IInv, NEW place, place \in Places, Goto(place), m_msgLength' \in Nat,
         UNCHANGED <<m_isOpen, m_hang, m_protoVersion, budget>>
  PROVE  Connection' /\ task'.pc = place /\ task'.msg = task.msg /\ task'.i = task.i
<1>1. Connection
  BY DEF IInv
<1>2. task'.pc = place /\ task'.msg = task.msg /\ task'.i = task.i
  BY <1>1 DEF Goto, Connection
<1>3. task' \in [pc : Places, i : Nat, msg : [event : {task.msg.event},
                   program : {task.msg.program}, signal : {task.msg.signal}]]
  BY <1>1 DEF Goto, Connection
<1>4. QED
  BY <1>1, <1>2, <1>3 DEF Connection

LEMMA ReadsTyped ==
  ASSUME IInv, NEW n \in Nat, n <= m_msgLength, Reads(n)
  PROVE  m_msgLength' \in Nat /\ UNCHANGED <<m_isOpen, m_hang, m_protoVersion, sent, got, budget>>
<1>1. m_msgLength \in Nat
  BY DEF IInv, Connection
<1>2. QED
  BY <1>1 DEF Reads

\* A message without a subject.
LEMMA Subjectless ==
  ASSUME NEW v \in Versions, NEW m \in Messages[v],
         m.fields[1].val # "BACKEND_MESSAGE" \/ Len(m.fields) = 1
  PROVE  m.event = "UNKNOWN" /\ m.signal = {} /\ Expected[v][m.level] = None
<1>1. Meant(v, m)
  BY MessagesMeant
<1>2. ~(m.fields[1].val = "BACKEND_MESSAGE" /\ Len(m.fields) > 1)
  <2>1. CASE Len(m.fields) = 1
    BY ONLY <2>1
  <2>2. QED
    BY <2>1
<1>3. m.level = "none" /\ m.event = "UNKNOWN" /\ m.signal = {}
  BY <1>1, <1>2 DEF Meant
<1>4. QED
  BY <1>3, ExpectedNone

LEMMA ReadHeadKeeps ==
  ASSUME IInv, ReadHead
  PROVE  IInv'
<1>1. Reads(1) /\ 1 <= m_msgLength
      /\ \A m, used : Begins(m.fields, used, 1) => First = m.fields[used + 1]
  BY FieldRead1 DEF ReadHead
<1> DEFINE place == IF First.val = "BACKEND_MESSAGE" THEN "subject" ELSE "flush"
<1>2. task.pc = "head" /\ place \in InMessage /\ place \in Places /\ Goto(place)
  BY DEF ReadHead, InMessage, Places, Reading
<1>3. /\ m_msgLength' \in Nat
      /\ UNCHANGED <<m_isOpen, m_hang, m_protoVersion, sent, got, budget>>
  BY <1>1, ReadsTyped
<1>4. Connection' /\ task'.pc = place /\ task'.msg = task.msg
  <2> HIDE DEF place
  <2>1. QED
    BY <1>2, <1>3, GotoTyped
<1>5. m_protoVersion \in Versions
  BY <1>2 DEF IInv, Quiet
<1>6. ASSUME NEW m \in Messages[m_protoVersion], NEW used \in Nat,
             Decoded(m, used), Begins(m.fields, used, 1)
      PROVE  Decoded(m, used + 1)'
  <2>1. used = 0 /\ task.msg = NewMessage
    BY <1>2, <1>6 DEF Decoded
  <2>2. First = m.fields[1] /\ used + 1 = 1
    BY <1>1, <1>6, <2>1
  <2>3. CASE First.val = "BACKEND_MESSAGE"
    <3>1. task'.pc = "subject" /\ task'.msg = NewMessage /\ m.fields[1].val = "BACKEND_MESSAGE"
      BY <1>4, <2>1, <2>2, <2>3
    <3>2. QED
      BY <2>2, <3>1 DEF Decoded
  <2>4. CASE First.val # "BACKEND_MESSAGE"
    <3>1. task'.pc = "flush" /\ task'.msg = NewMessage /\ m.fields[1].val # "BACKEND_MESSAGE"
      BY <1>4, <2>1, <2>2, <2>4
    <3>2. m.event = "UNKNOWN" /\ m.signal = {} /\ Expected[m_protoVersion][m.level] = None
      BY <1>5, <3>1, Subjectless
    <3>3. Right(m, task.msg)'
      BY <1>3, <3>1, <3>2 DEF Right, NewMessage
    <3>4. QED
      BY <3>1, <3>3 DEF Decoded
  <2>5. QED
    BY <2>3, <2>4
<1>7. QED
  <2>1. task.pc \in InMessage /\ task'.pc \in InMessage
    BY <1>2, <1>4 DEF InMessage
  <2>2. QED
    BY <1>1, <1>4, <1>6, <2>1, MessageStep

\* What a subject announces.
LEMMA SubjectMeans ==
  ASSUME NEW v \in Versions, NEW m \in Messages[v], NEW place, Subject(m, place)
  PROVE  /\ m.event = EventOf(m.fields[2].val)
         /\ place = "signal" => m.signal = {m.fields[j].val : j \in 3..Len(m.fields)} \cap Signals
         /\ place # "signal" => m.signal = {}
         /\ place = "program" => ProgramSent(v, m.fields, m.level)
         /\ place # "program" => Expected[v][m.level] = None
<1>1. Meant(v, m)
  BY MessagesMeant
<1>2. /\ m.fields[1].val = "BACKEND_MESSAGE" /\ Len(m.fields) > 1
      /\ Behind(m.fields[2].val) = place
  BY DEF Subject
<1>3. /\ m.event = EventOf(m.fields[2].val)
      /\ place = "signal" => m.signal = {m.fields[j].val : j \in 3..Len(m.fields)} \cap Signals
      /\ place # "signal" => m.signal = {}
      /\ place = "program" => ProgramSent(v, m.fields, m.level)
      /\ place # "program" => m.level = "none"
  BY <1>1, <1>2 DEF Meant
<1>4. QED
  BY <1>3, ExpectedNone

LEMMA ReadSubjectKeeps ==
  ASSUME IInv, ReadSubject
  PROVE  IInv'
<1>1. task.pc = "subject" /\ task.pc \in InMessage
  BY DEF ReadSubject, InMessage
<1>2. m_protoVersion \in Versions
  BY <1>1 DEF IInv, Quiet
<1>3. CASE /\ m_msgLength = 0
           /\ Goto("flush")
           /\ UNCHANGED <<socket, proto, sent, got, budget>>
  <2>1. Reads(0) /\ 0 <= m_msgLength
    BY <1>3, NothingReads
  <2>2. m_msgLength' \in Nat /\ UNCHANGED <<m_isOpen, m_hang, m_protoVersion, sent, got, budget>>
    BY <2>1, ReadsTyped
  <2>3. "flush" \in Places /\ "flush" \in InMessage
    BY DEF Places, Reading, InMessage
  <2>4. Connection' /\ task'.pc = "flush" /\ task'.msg = task.msg
    BY <1>3, <2>2, <2>3, GotoTyped
  <2>5. ASSUME NEW m \in Messages[m_protoVersion], NEW used \in Nat,
               used + m_msgLength = Len(m.fields), Decoded(m, used)
        PROVE  Decoded(m, used + 0)'
    <3>1. used = 1 /\ task.msg = NewMessage
      BY <1>1, <2>5 DEF Decoded
    <3>2. Len(m.fields) = 1
      BY <1>3, <2>5, <3>1
    <3>3. m.event = "UNKNOWN" /\ m.signal = {} /\ Expected[m_protoVersion][m.level] = None
      BY <1>2, <3>2, Subjectless
    <3>4. Right(m, task.msg)'
      BY <2>2, <2>4, <3>1, <3>3 DEF Right, NewMessage
    <3>5. QED
      BY <2>4, <3>4 DEF Decoded
  <2>6. QED
    BY <1>1, <2>1, <2>3, <2>4, <2>5, MessageStep
<1>4. CASE ReadField /\ m_msgLength > 0
  <2>1. Reads(1) /\ 1 <= m_msgLength
        /\ \A m, used : Begins(m.fields, used, 1) => First = m.fields[used + 1]
    BY <1>4, FieldRead1
  <2>2. m_msgLength' \in Nat /\ UNCHANGED <<m_isOpen, m_hang, m_protoVersion, sent, got, budget>>
    BY <2>1, ReadsTyped
  <2>3. PICK s : s = First.val
    OBVIOUS
  <2>4. /\ task' = [pc |-> Behind(s), i |-> 1,
                    msg |-> [NewMessage EXCEPT !.event = EventOf(s),
                               !.program = IF Behind(s) = "program" THEN NewProgram ELSE None]]
    BY <1>4, <2>3 DEF ReadSubject
  <2>5. Behind(s) \in {"signal", "program", "flush"}
    BY DEF Behind
  <2>6. /\ task'.pc = Behind(s) /\ task'.i = 1
        /\ task'.msg = [event |-> EventOf(s),
                        program |-> IF Behind(s) = "program" THEN NewProgram ELSE None,
                        signal |-> {}]
    BY <2>4 DEF NewMessage
  <2>7. Connection' /\ task'.pc \in InMessage
    <3>1. Connection
      BY DEF IInv
    <3>2. Behind(s) \in Places /\ Behind(s) \in InMessage
      BY <2>5 DEF Places, Reading, InMessage
    <3>3. task' \in [pc : Places, i : Nat, msg : [event : {task'.msg.event},
                   program : {task'.msg.program}, signal : {task'.msg.signal}]]
      BY <2>4, <3>2 DEF NewMessage
    <3>4. QED
      BY <2>2, <2>6, <3>1, <3>2, <3>3 DEF Connection
  <2>8. ASSUME NEW m \in Messages[m_protoVersion], NEW used \in Nat,
               used + m_msgLength = Len(m.fields), Decoded(m, used),
               Begins(m.fields, used, 1)
        PROVE  Decoded(m, used + 1)'
    <3>1. used = 1 /\ m.fields[1].val = "BACKEND_MESSAGE"
      BY <1>1, <2>8 DEF Decoded
    <3>2. First = m.fields[2] /\ used + 1 = 2
      BY <2>1, <2>8, <3>1
    <3>3. Len(m.fields) > 1
      <4>1. m_msgLength \in Nat
        BY DEF IInv, Connection
      <4>2. QED
        BY <2>1, <2>8, <3>1, <4>1
    <3>4. Subject(m, Behind(s)) /\ s = m.fields[2].val
      BY <2>3, <3>1, <3>2, <3>3 DEF Subject
    <3>5. /\ m.event = EventOf(s)
          /\ Behind(s) # "signal" => m.signal = {}
          /\ Behind(s) # "program" => Expected[m_protoVersion][m.level] = None
      BY <1>2, <3>4, SubjectMeans
    <3>6. CASE Behind(s) = "signal"
      <4>1. task'.pc = "signal" /\ task'.msg.event = m.event /\ task'.msg.program = None
            /\ task'.msg.signal = {}
        BY <2>6, <3>5, <3>6
      <4>2. {m.fields[j].val : j \in 3..2} = {}
        OBVIOUS
      <4>3. QED
        BY <3>2, <3>4, <3>6, <4>1, <4>2 DEF Decoded
    <3>7. CASE Behind(s) = "program"
      <4>1. task'.pc = "program" /\ task'.msg.event = m.event /\ task'.msg.program = NewProgram
            /\ task'.msg.signal = {} /\ task'.i = 1
        BY <2>6, <3>5, <3>7
      <4> DEFINE layout == RcvProgramInfo(m_protoVersion')
      <4>2. layout = RcvProgramInfo(m_protoVersion) /\ m_protoVersion \in Nat
        BY <1>2, <2>2, ProtoEventAssumption
      <4>3. Len(layout) >= 42 /\ Len(layout) \in Nat
        BY <4>2, LayoutCovers DEF Covers
      <4>4. NewProgram = [f \in DOMAIN CType |-> NewProgram[f]]
        BY DEF NewProgram
      <4>5. 1..1 - 1 = {} /\ 1 \in 1..Len(layout)
        BY <4>3
      <4>6. \A e : NewProgram = [f \in DOMAIN CType |->
                     IF \E k \in 1..1 - 1 : layout[k] = f THEN e[f] ELSE NewProgram[f]]
        BY <4>4, <4>5
      <4> HIDE DEF layout
      <4>7. /\ used + 1 = 1 + task'.i /\ task'.i \in 1..Len(layout) /\ Subject(m, "program")
            /\ task'.msg.event = m.event /\ task'.msg.signal = {}
            /\ \A k \in 1..task'.i - 1 : ReadProgramField(layout[k], m.fields[2 + k]) # {}
            /\ m.level # "none" =>
                 task'.msg.program =
                   [f \in DOMAIN CType |->
                      IF \E k \in 1..task'.i - 1 : layout[k] = f
                        THEN Expected[m_protoVersion'][m.level][f] ELSE NewProgram[f]]
        BY <3>2, <3>4, <3>7, <4>1, <4>5, <4>6
      <4>8. QED
        BY <4>1, <4>7 DEF Decoded, layout
    <3>8. CASE Behind(s) = "flush"
      <4>1. task'.pc = "flush" /\ task'.msg.event = m.event /\ task'.msg.program = None
            /\ task'.msg.signal = {}
        BY <2>6, <3>5, <3>8
      <4>2. Right(m, task.msg)'
        BY <2>2, <3>5, <3>8, <4>1 DEF Right
      <4>3. QED
        BY <4>1, <4>2 DEF Decoded
    <3>9. QED
      BY <2>5, <3>6, <3>7, <3>8
  <2>9. QED
    BY <1>1, <2>1, <2>7, <2>8, MessageStep
<1>5. QED
  BY <1>3, <1>4 DEF ReadSubject, ReadField

LEMMA RcvSignalStatusKeeps ==
  ASSUME IInv, RcvSignalStatus
  PROVE  IInv'
<1>1. task.pc = "signal" /\ task.pc \in InMessage
  BY DEF RcvSignalStatus, InMessage
<1>2. m_protoVersion \in Versions /\ Connection
  BY <1>1 DEF IInv, Quiet
<1>3. CASE /\ m_msgLength = 0
           /\ Goto("flush")
           /\ UNCHANGED <<socket, proto, sent, got, budget>>
  <2>1. Reads(0) /\ 0 <= m_msgLength
    BY <1>3, NothingReads
  <2>2. m_msgLength' \in Nat /\ UNCHANGED <<m_isOpen, m_hang, m_protoVersion, sent, got, budget>>
    BY <2>1, ReadsTyped
  <2>3. "flush" \in Places /\ "flush" \in InMessage
    BY DEF Places, Reading, InMessage
  <2>4. Connection' /\ task'.pc = "flush" /\ task'.msg = task.msg
    BY <1>3, <2>2, <2>3, GotoTyped
  <2>5. ASSUME NEW m \in Messages[m_protoVersion], NEW used \in Nat,
               used + m_msgLength = Len(m.fields), Decoded(m, used)
        PROVE  Decoded(m, used + 0)'
    <3>1. /\ Subject(m, "signal") /\ task.msg.event = m.event /\ task.msg.program = None
          /\ task.msg.signal = {m.fields[j].val : j \in 3..used} \cap Signals
      BY <1>1, <2>5 DEF Decoded
    <3>2. Len(m.fields) = used
      BY <1>3, <2>5
    <3>3. m.signal = task.msg.signal /\ Expected[m_protoVersion][m.level] = None
      BY <1>2, <3>1, <3>2, SubjectMeans
    <3>4. Right(m, task.msg)'
      BY <2>2, <2>4, <3>1, <3>3 DEF Right
    <3>5. QED
      BY <2>4, <3>4 DEF Decoded
  <2>6. QED
    BY <1>1, <2>1, <2>3, <2>4, <2>5, MessageStep
<1>4. CASE ReadField /\ m_msgLength > 0
  <2>1. Reads(1) /\ 1 <= m_msgLength
        /\ \A m, used : Begins(m.fields, used, 1) => First = m.fields[used + 1]
    BY <1>4, FieldRead1
  <2>2. m_msgLength' \in Nat /\ UNCHANGED <<m_isOpen, m_hang, m_protoVersion, sent, got, budget>>
    BY <2>1, ReadsTyped
  <2>3. task' = [task EXCEPT !.msg.signal = @ \cup ({First.val} \cap Signals)]
    BY <1>4 DEF RcvSignalStatus, Signals
  <2>4. /\ task'.pc = "signal" /\ task'.msg.event = task.msg.event
        /\ task'.msg.program = task.msg.program
        /\ task'.msg.signal = task.msg.signal \cup ({First.val} \cap Signals)
    BY <1>1, <1>2, <2>3 DEF Connection
  <2>5. Connection' /\ task'.pc \in InMessage
    <3>1. task' \in [pc : Places, i : Nat, msg : [event : {task'.msg.event},
                   program : {task'.msg.program}, signal : {task'.msg.signal}]]
      BY <1>2, <2>3, <2>4 DEF Connection
    <3>2. QED
      BY <1>1, <1>2, <2>2, <2>4, <3>1 DEF Connection
  <2>6. ASSUME NEW m \in Messages[m_protoVersion], NEW used \in Nat,
               Decoded(m, used), Begins(m.fields, used, 1)
        PROVE  Decoded(m, used + 1)'
    <3>1. /\ used >= 2 /\ Subject(m, "signal") /\ task.msg.event = m.event
          /\ task.msg.program = None
          /\ task.msg.signal = {m.fields[j].val : j \in 3..used} \cap Signals
      BY <1>1, <2>6 DEF Decoded
    <3>2. First = m.fields[used + 1]
      BY <2>1, <2>6
    <3>3. 3..used + 1 = 3..used \cup {used + 1} /\ used + 1 >= 2
      BY <3>1
    <3>4. task'.msg.signal = {m.fields[j].val : j \in 3..used + 1} \cap Signals
      <4>1. {m.fields[j].val : j \in 3..used + 1}
              = {m.fields[j].val : j \in 3..used} \cup {First.val}
        BY <3>2, <3>3
      <4>2. QED
        BY <2>4, <3>1, <4>1
    <3>5. QED
      BY <2>4, <3>1, <3>3, <3>4 DEF Decoded
  <2>7. QED
    BY <1>1, <2>1, <2>5, <2>6, MessageStep
<1>5. QED
  BY <1>3, <1>4 DEF RcvSignalStatus, ReadField

LEMMA FlushMessageKeeps ==
  ASSUME IInv, FlushMessage
  PROVE  IInv'
<1> DEFINE straight == m_buffer = <<>> /\ m_msgLength >= BufLen
           n == Smaller(m_msgLength, Len(IF straight THEN wire ELSE AtOnce))
<1>1. task.pc = "flush" /\ task.pc \in InMessage /\ m_msgLength > 0 /\ Readable
  BY DEF FlushMessage, InMessage
<1>2. m_protoVersion \in Versions /\ Connection /\ Socket /\ m_msgLength \in Nat
  BY <1>1 DEF IInv, Quiet, Connection
<1>3. /\ m_msgLength' = m_msgLength - n
      /\ IF straight THEN ReceiveStraight(n) ELSE ReceiveData(n)
      /\ UNCHANGED <<m_isOpen, m_hang, m_protoVersion, task, sent, got, budget>>
  BY DEF FlushMessage
<1>4. n \in Nat /\ n <= m_msgLength /\ Socket' /\ Shifted(n)
  <2>1. CASE straight
    <3>1. wire \in Seq(Units) /\ wire # <<>>
      BY <1>1, <1>2, <2>1 DEF Socket, Readable
    <3>2. Len(wire) \in Nat \ {0}
      BY <3>1
    <3>3. n = Smaller(m_msgLength, Len(wire))
      BY <2>1
    <3> HIDE DEF n
    <3>4. n \in 1..Len(wire) /\ n <= m_msgLength /\ n \in Nat
      BY <1>1, <1>2, <3>2, <3>3 DEF Smaller
    <3>5. ReceiveStraight(n) /\ m_buffer = <<>>
      BY <1>3, <2>1
    <3>6. QED
      BY <1>2, <3>4, <3>5, ReceivedStraight
  <2>2. CASE ~straight
    <3>1. Len(AtOnce) \in Nat \ {0}
      BY <1>1, <1>2, AtOnceFacts, ProtoEventAssumption
    <3>2. n = Smaller(m_msgLength, Len(AtOnce)) /\ ReceiveData(n)
      BY <1>3, <2>2
    <3> HIDE DEF n
    <3>3. n \in 1..Len(AtOnce) /\ n <= m_msgLength /\ n \in Nat
      BY <1>1, <1>2, <3>1, <3>2 DEF Smaller
    <3>4. QED
      BY <1>1, <1>2, <3>2, <3>3, Received
  <2>3. QED
    BY <2>1, <2>2
<1> HIDE DEF n, straight
<1>5. PICK k \in Nat : k = n
  BY <1>4
<1>6. Reads(k) /\ k <= m_msgLength
  BY <1>3, <1>4, <1>5 DEF Reads
<1>7. Connection' /\ task'.pc \in InMessage
  BY <1>1, <1>2, <1>3, <1>4 DEF Connection
<1>8. ASSUME NEW m \in Messages[m_protoVersion], NEW used \in Nat, Decoded(m, used)
      PROVE  Decoded(m, used + k)'
  <2>1. Right(m, task.msg)
    BY <1>1, <1>8 DEF Decoded
  <2>2. Right(m, task.msg)' /\ task'.pc = "flush"
    BY <1>1, <1>3, <2>1 DEF Right
  <2>3. QED
    BY <2>2 DEF Decoded
<1>9. QED
  BY <1>1, <1>6, <1>7, <1>8, MessageStep

\* A set of natural numbers has a least one.
LEMMA Least ==
  ASSUME NEW S, S \subseteq Nat, S # {}
  PROVE  \E k \in S : \A j \in S : k <= j
<1>1. PICK k \in S : \A j \in S : ~(<<j, k>> \in OpToRel(<, Nat))
  BY NatLessThanWellFounded, WFMin
<1>2. ASSUME NEW j \in S PROVE k <= j
  <2>1. j \in Nat /\ k \in Nat
    OBVIOUS
  <2>2. ~(j < k)
    BY <1>1, <2>1, Zenon DEF OpToRel
  <2>3. QED
    BY <2>1, <2>2
<1>3. QED
  BY <1>2

\* A program that was sent has no field that is refused.
LEMMA SentRead ==
  ASSUME NEW v, NEW fields, NEW level, ProgramSent(v, fields, level), level # "none",
         NEW k \in 1..Len(RcvProgramInfo(v))
  PROVE  ReadProgramField(RcvProgramInfo(v)[k], fields[2 + k]) # {}
<1> DEFINE f == RcvProgramInfo(v)[k]
<1>1. CASE f \in Skipped
  <2>1. \A u : ReadProgramField(f, u) = {u}
    BY <1>1, CTypeFacts DEF ReadProgramField, Skipped
  <2>2. QED
    BY <2>1
<1>2. CASE f \notin Skipped
  BY <1>2 DEF ProgramSent
<1>3. QED
  BY <1>1, <1>2

\* The whole of a program that was sent is what is expected of it.
LEMMA WholeProgram ==
  ASSUME NEW v \in Versions, NEW level, level \in {"high", "low"}, NEW p,
         p = [f \in DOMAIN CType |->
                IF \E k \in 1..Len(RcvProgramInfo(v)) : RcvProgramInfo(v)[k] = f
                  THEN Expected[v][level][f] ELSE NewProgram[f]]
  PROVE  p = Expected[v][level]
<1> DEFINE layout == RcvProgramInfo(v)  e == Expected[v][level]
<1>1. Covers(layout, {f \in DOMAIN CType : Known(v, f)})
  BY LayoutCovers, ProtoEventAssumption
<1>2. e = [f \in DOMAIN CType |->
             IF ~Known(v, f) THEN NewProgram[f]
             ELSE IF f = "catType" /\ level = "low" THEN Text("") ELSE ProgramOf(level)[f]]
  BY DEF Expected
<1>3. \A f \in DOMAIN CType : ~Known(v, f) => e[f] = NewProgram[f]
  BY <1>2
<1>4. \A f \in DOMAIN CType : Known(v, f) => \E k \in 1..Len(layout) : layout[k] = f
  BY <1>1 DEF Covers
<1>5. \A f \in DOMAIN CType : p[f] = e[f]
  BY <1>3, <1>4
<1>6. e = [f \in DOMAIN CType |-> e[f]] /\ p = [f \in DOMAIN CType |-> p[f]]
  BY <1>2
<1> HIDE DEF e
<1>7. p = e
  BY <1>5, <1>6
<1>8. QED
  BY <1>7 DEF e

\* The program is given up.
LEMMA NoProgramFacts ==
  ASSUME IInv, NoProgram, m_msgLength' \in Nat,
         UNCHANGED <<m_isOpen, m_hang, m_protoVersion, budget>>
  PROVE  /\ Connection' /\ task'.pc = "flush" /\ task'.pc \in InMessage
         /\ task'.msg.event = task.msg.event /\ task'.msg.signal = task.msg.signal
         /\ task'.msg.program = None
<1>1. Connection
  BY DEF IInv
<1>2. /\ task'.pc = "flush" /\ task'.msg.event = task.msg.event
      /\ task'.msg.signal = task.msg.signal /\ task'.msg.program = None
  BY <1>1 DEF NoProgram, Connection
<1>3. "flush" \in Places /\ "flush" \in InMessage
  BY DEF Places, Reading, InMessage
<1>4. task' \in [pc : Places, i : Nat, msg : [event : {task'.msg.event},
                   program : {task'.msg.program}, signal : {task'.msg.signal}]]
  BY <1>1, <1>2, <1>3 DEF NoProgram, Connection
<1>5. QED
  BY <1>1, <1>2, <1>3, <1>4 DEF Connection

\* It is right to give it up when the message is to have none.
LEMMA NoProgramRight ==
  ASSUME NEW m, NEW used, NEW later, Decoded(m, used), task.pc = "program",
         task'.pc = "flush", task'.msg.event = task.msg.event,
         task'.msg.signal = task.msg.signal, task'.msg.program = None,
         m_protoVersion' = m_protoVersion, m_protoVersion \in Versions,
         m \in Messages[m_protoVersion], m.level = "none"
  PROVE  Decoded(m, later)'
<1>1. task.msg.event = m.event /\ task.msg.signal = {} /\ Subject(m, "program")
  BY DEF Decoded
<1>2. m.signal = {}
  BY <1>1, SubjectMeans
<1>3. Right(m, task.msg)'
  BY <1>1, <1>2, ExpectedNone DEF Right
<1>4. QED
  BY <1>3 DEF Decoded

LEMMA ReadProgramEnds ==
  ASSUME IInv, task.pc = "program", m_msgLength = 0, NoProgram,
         UNCHANGED <<socket, proto, sent, got, budget>>
  PROVE  IInv'
<1>1. Reads(0) /\ 0 <= m_msgLength
  BY NothingReads
<1>2. m_msgLength' \in Nat /\ UNCHANGED <<m_isOpen, m_hang, m_protoVersion, sent, got, budget>>
  BY <1>1, ReadsTyped
<1>3. /\ Connection' /\ task'.pc = "flush" /\ task'.pc \in InMessage
      /\ task'.msg.event = task.msg.event /\ task'.msg.signal = task.msg.signal
      /\ task'.msg.program = None
  BY <1>2, NoProgramFacts
<1>4. task.pc \in InMessage /\ m_protoVersion \in Versions
  BY DEF InMessage, IInv, Quiet
<1>5. ASSUME NEW m \in Messages[m_protoVersion], NEW used \in Nat,
             used + m_msgLength = Len(m.fields), Decoded(m, used)
      PROVE  Decoded(m, used + 0)'
  <2> DEFINE layout == RcvProgramInfo(m_protoVersion)
  <2>1. used = 1 + task.i /\ task.i \in 1..Len(layout) /\ Subject(m, "program")
    BY <1>5 DEF Decoded
  <2>2. ProgramSent(m_protoVersion, m.fields, m.level)
    BY <1>4, <2>1, SubjectMeans
  <2>3. Len(layout) \in Nat
    BY <1>4, LayoutCovers, ProtoEventAssumption DEF Covers
  <2>4. ~(Len(m.fields) >= 2 + Len(layout))
    <3>1. Len(m.fields) = 1 + task.i
      BY <1>5, <2>1
    <3>2. QED
      BY <2>1, <2>3, <3>1
  <2>5. m.level = "none"
    BY <2>2, <2>4 DEF ProgramSent
  <2>6. QED
    BY <1>2, <1>3, <1>4, <1>5, <2>5, NoProgramRight
<1>6. QED
  BY <1>1, <1>3, <1>4, <1>5, MessageStep

\* The fields that are refused of the n that are there, field i of the layout first;
\* and the program that is read of them.
RefusedOf(v, i, n) ==
  {k \in 1..n : ReadProgramField(RcvProgramInfo(v)[i + k - 1], AtOnce[k]) = {}}
ReadOf(v, i, n) ==
  [f \in DOMAIN CType |->
     LET at == {k \in 1..n : RcvProgramInfo(v)[i + k - 1] = f} IN
     IF at = {} THEN task.msg.program[f]
     ELSE CHOOSE x \in ReadProgramField(RcvProgramInfo(v)[i + (CHOOSE k \in at : TRUE) - 1],
                                        AtOnce[CHOOSE k \in at : TRUE]) : TRUE]
LeastOf(S) == CHOOSE k \in S : \A j \in S : k <= j

LEMMA ReadProgramKeeps ==
  ASSUME IInv, ReadProgram, m_msgLength > 0
  PROVE  IInv'
<1>1. task.pc = "program" /\ task.pc \in InMessage /\ Readable
  BY DEF ReadProgram, InMessage
<1>2. PICK v \in Versions : v = m_protoVersion
  BY <1>1 DEF IInv, Quiet
<1> DEFINE layout == RcvProgramInfo(v)
<1>3. Connection /\ Socket /\ m_msgLength \in Nat
  BY DEF IInv, Connection
<1>4. PICK i \in 1..Len(layout) : i = task.i
  <2>1. PICK m, used : Decoded(m, used)
    BY <1>1, MessageFacts
  <2>2. QED
    BY <1>1, <1>2, <2>1 DEF Decoded
<1>5. Len(layout) \in Nat
  BY LayoutCovers, ProtoEventAssumption DEF Covers
<1> DEFINE q == Smaller(Smaller(Len(AtOnce), m_msgLength), Len(layout) - i + 1)
<1>6. q \in Nat \ {0} /\ q <= Len(AtOnce) /\ q <= m_msgLength /\ i + q <= Len(layout) + 1
  <2>1. Len(AtOnce) \in Nat \ {0}
    BY <1>1, <1>3, AtOnceFacts, ProtoEventAssumption
  <2>2. Len(layout) - i + 1 \in Nat \ {0} /\ i \in Nat
    BY <1>5
  <2>3. m_msgLength \in Nat \ {0}
    BY <1>3
  <2>4. q <= Len(layout) - i + 1 /\ q \in Nat \ {0} /\ q <= Len(AtOnce) /\ q <= m_msgLength
    BY <2>1, <2>2, <2>3 DEF Smaller
  <2> HIDE DEF q
  <2>5. QED
    BY <1>5, <2>2, <2>4
<1> HIDE DEF layout
<1>7. PICK n \in Nat \ {0} : n = q
  BY <1>6
<1> DEFINE F(k) == layout[i + k - 1]
           Value(k) == ReadProgramField(F(k), AtOnce[k])
           refused == {k \in 1..n : Value(k) = {}}
           read == [f \in DOMAIN CType |->
                      LET at == {k \in 1..n : F(k) = f} IN
                      IF at = {} THEN task.msg.program[f]
                      ELSE CHOOSE x \in Value(CHOOSE k \in at : TRUE) : TRUE]
<1>8. \/ /\ refused # {}
         /\ ReadFields(CHOOSE k \in refused : \A j \in refused : k <= j)
         /\ NoProgram
      \/ /\ refused = {}
         /\ ReadFields(n)
         /\ task' = [pc |-> IF i + n > Len(layout) THEN "flush" ELSE "program",
                     i |-> i + n, msg |-> [task.msg EXCEPT !.program = read]]
  <2> DEFINE w == m_protoVersion  j == task.i
             z == Smaller(Smaller(Len(AtOnce), m_msgLength), Len(RcvProgramInfo(w)) - j + 1)
  <2>1. \/ /\ RefusedOf(w, j, z) # {}
           /\ ReadFields(LeastOf(RefusedOf(w, j, z)))
           /\ NoProgram
        \/ /\ RefusedOf(w, j, z) = {}
           /\ ReadFields(z)
           /\ task' = [pc |-> IF j + z > Len(RcvProgramInfo(w)) THEN "flush" ELSE "program",
                       i |-> j + z, msg |-> [task.msg EXCEPT !.program = ReadOf(w, j, z)]]
    <3>1. m_msgLength # 0
      BY <1>3
    <3>2. QED
      BY <3>1, Zenon DEF ReadProgram, RefusedOf, ReadOf, LeastOf
  <2>2. w = v /\ j = i /\ z = n
    BY <1>2, <1>4, <1>7 DEF layout
  <2> HIDE DEF w, j, z
  <2>3. \/ /\ RefusedOf(v, i, n) # {}
           /\ ReadFields(LeastOf(RefusedOf(v, i, n)))
           /\ NoProgram
        \/ /\ RefusedOf(v, i, n) = {}
           /\ ReadFields(n)
           /\ task' = [pc |-> IF i + n > Len(RcvProgramInfo(v)) THEN "flush" ELSE "program",
                       i |-> i + n, msg |-> [task.msg EXCEPT !.program = ReadOf(v, i, n)]]
    BY <2>1, <2>2
  <2>4. QED
    BY <2>3 DEF RefusedOf, ReadOf, LeastOf, layout
<1>9. /\ n <= Len(AtOnce) /\ n <= m_msgLength /\ i + n <= Len(layout) + 1
      /\ Len(AtOnce) \in Nat /\ i \in Nat
  BY <1>1, <1>3, <1>5, <1>6, <1>7, AtOnceFacts, ProtoEventAssumption
<1>10. ASSUME NEW m, NEW used, Decoded(m, used), NEW k \in 1..n, Begins(m.fields, used, k)
       PROVE  Value(k) = ReadProgramField(layout[i + k - 1], m.fields[2 + (i + k - 1)])
  <2>1. used = 1 + i
    BY <1>1, <1>4, <1>10 DEF Decoded
  <2>2. k \in 1..Len(AtOnce) /\ k \in 1..k /\ used + k = 2 + (i + k - 1)
    BY <1>9, <2>1
  <2>3. AtOnce[k] = Stream[k]
    BY <1>1, <1>3, <2>2, AtOnceFacts
  <2>4. Stream[k] = m.fields[used + k]
    BY <1>10, <2>2 DEF Begins
  <2>5. QED
    BY <2>2, <2>3, <2>4
<1> HIDE DEF q
<1>11. CASE refused # {} /\ NoProgram
                /\ ReadFields(CHOOSE k \in refused : \A j \in refused : k <= j)
  <2>1. PICK r \in refused : r = CHOOSE k \in refused : \A j \in refused : k <= j
    <3>1. refused \subseteq Nat
      OBVIOUS
    <3>2. \E k \in refused : \A j \in refused : k <= j
      <4> HIDE DEF refused
      <4>1. QED
        BY <1>11, <3>1, Least
    <3>3. QED
      BY <3>2
  <2>2. r \in 1..n /\ Value(r) = {} /\ r \in Nat /\ r \in 1..Len(AtOnce) /\ r <= m_msgLength
    <3>1. r \in 1..n /\ Value(r) = {}
      BY <2>1
    <3> HIDE DEF Value, refused
    <3>2. QED
      BY <1>3, <1>9, <3>1
  <2>3. ReadFields(r)
    BY <1>11, <2>1
  <2>4. Reads(r)
    BY <1>1, <1>3, <2>2, <2>3, FieldsReads
  <2>5. m_msgLength' \in Nat /\ UNCHANGED <<m_isOpen, m_hang, m_protoVersion, sent, got, budget>>
    BY <2>2, <2>4, ReadsTyped
  <2>6. /\ Connection' /\ task'.pc = "flush" /\ task'.pc \in InMessage
        /\ task'.msg.event = task.msg.event /\ task'.msg.signal = task.msg.signal
        /\ task'.msg.program = None
    BY <1>11, <2>5, NoProgramFacts
  <2>7. ASSUME NEW m \in Messages[m_protoVersion], NEW used \in Nat,
               Decoded(m, used), Begins(m.fields, used, r)
        PROVE  Decoded(m, used + r)'
    <3>1. ReadProgramField(layout[i + r - 1], m.fields[2 + (i + r - 1)]) = {}
      BY <1>10, <2>2, <2>7
    <3>2. Subject(m, "program")
      BY <1>1, <2>7 DEF Decoded
    <3>3. ProgramSent(v, m.fields, m.level)
      BY <1>2, <2>7, <3>2, SubjectMeans
    <3>4. i + r - 1 \in 1..Len(layout)
      <4>1. r <= n /\ r >= 1 /\ r \in Nat
        BY <2>2
      <4>2. QED
        BY <1>5, <1>9, <4>1
    <3>5. m.level = "none"
      BY <3>1, <3>3, <3>4, SentRead DEF layout
    <3>6. QED
      BY <1>1, <1>2, <2>5, <2>6, <2>7, <3>5, NoProgramRight
  <2>8. QED
    BY <1>1, <2>2, <2>4, <2>6, <2>7, MessageStep
<1>12. CASE /\ refused = {}
            /\ ReadFields(n)
            /\ task' = [pc |-> IF i + n > Len(layout) THEN "flush" ELSE "program",
                        i |-> i + n, msg |-> [task.msg EXCEPT !.program = read]]
  <2>1. Reads(n) /\ n \in Nat /\ n <= m_msgLength
    <3>1. n \in 1..Len(AtOnce)
      BY <1>9
    <3>2. QED
      BY <1>1, <1>3, <1>9, <1>12, <3>1, FieldsReads
  <2>2. m_msgLength' \in Nat /\ UNCHANGED <<m_isOpen, m_hang, m_protoVersion, sent, got, budget>>
    BY <2>1, ReadsTyped
  <2>3. PICK p : p = read
    OBVIOUS
  <2>4. task' = [pc |-> IF i + n > Len(layout) THEN "flush" ELSE "program",
                 i |-> i + n, msg |-> [task.msg EXCEPT !.program = p]]
    BY <1>12, <2>3
  <2> HIDE DEF read
  <2>5. /\ task'.pc = IF i + n > Len(layout) THEN "flush" ELSE "program"
        /\ task'.i = i + n /\ task'.msg.event = task.msg.event
        /\ task'.msg.signal = task.msg.signal /\ task'.msg.program = p
    BY <1>3, <2>4 DEF Connection
  <2>6. Connection' /\ task'.pc \in InMessage
    <3>1. task'.pc \in Places /\ task'.pc \in InMessage
      BY <2>5 DEF Places, Reading, InMessage
    <3>2. i + n \in Nat
      BY <1>9
    <3>3. task' \in [pc : Places, i : Nat, msg : [event : {task'.msg.event},
                   program : {task'.msg.program}, signal : {task'.msg.signal}]]
      BY <1>3, <2>4, <2>5, <3>1, <3>2 DEF Connection
    <3>4. QED
      BY <1>3, <2>2, <3>1, <3>3 DEF Connection
  <2>7. ASSUME NEW m \in Messages[m_protoVersion], NEW used \in Nat,
               used + m_msgLength = Len(m.fields),
               Decoded(m, used), Begins(m.fields, used, n)
        PROVE  Decoded(m, used + n)'
    <3>1. /\ used = 1 + i /\ Subject(m, "program")
          /\ task.msg.event = m.event /\ task.msg.signal = {}
          /\ \A k \in 1..i - 1 : ReadProgramField(layout[k], m.fields[2 + k]) # {}
          /\ m.level # "none" =>
               task.msg.program =
                 [f \in DOMAIN CType |->
                    IF \E k \in 1..i - 1 : layout[k] = f
                      THEN Expected[v][m.level][f] ELSE NewProgram[f]]
      BY <1>1, <1>2, <1>4, <2>7 DEF Decoded, layout
    <3>2. ProgramSent(v, m.fields, m.level) /\ m.signal = {}
      BY <1>2, <2>7, <3>1, SubjectMeans
    <3>3. ASSUME NEW k \in 1..n
          PROVE  Value(k) = ReadProgramField(layout[i + k - 1], m.fields[2 + (i + k - 1)])
      <4>1. Begins(m.fields, used, k)
        BY <2>7 DEF Begins
      <4>2. QED
        BY <1>10, <2>7, <4>1
    <3>4. \A k \in 1..n : Value(k) # {}
      BY <1>12
    <3>5. ASSUME NEW k \in 1..(i + n) - 1
          PROVE  ReadProgramField(layout[k], m.fields[2 + k]) # {}
      <4>1. CASE k \in 1..i - 1
        BY <3>1, <4>1
      <4>2. CASE k \notin 1..i - 1
        <5>1. k - i + 1 \in 1..n /\ i + (k - i + 1) - 1 = k
          BY <1>9, <4>2
        <5>2. QED
          BY <3>3, <3>4, <5>1
      <4>3. QED
        BY <4>1, <4>2
    <3>6. ASSUME m.level # "none"
          PROVE  p = [f \in DOMAIN CType |->
                        IF \E k \in 1..(i + n) - 1 : layout[k] = f
                          THEN Expected[v][m.level][f] ELSE NewProgram[f]]
      <4>1. ASSUME NEW f \in DOMAIN CType
            PROVE  p[f] = IF \E k \in 1..(i + n) - 1 : layout[k] = f
                            THEN Expected[v][m.level][f] ELSE NewProgram[f]
        <5> DEFINE at == {k \in 1..n : F(k) = f}
        <5>1. p[f] = IF at = {} THEN task.msg.program[f]
                     ELSE CHOOSE x \in Value(CHOOSE k \in at : TRUE) : TRUE
          BY <2>3 DEF read
        <5>2. task.msg.program[f] = IF \E k \in 1..i - 1 : layout[k] = f
                                      THEN Expected[v][m.level][f] ELSE NewProgram[f]
          BY <3>1, <3>6
        <5>3. CASE at = {}
          <6>1. (\E k \in 1..(i + n) - 1 : layout[k] = f) <=> (\E k \in 1..i - 1 : layout[k] = f)
            <7>1. ASSUME NEW k \in 1..(i + n) - 1, layout[k] = f PROVE k \in 1..i - 1
              <8>1. SUFFICES ASSUME k \notin 1..i - 1 PROVE FALSE
                OBVIOUS
              <8>2. k - i + 1 \in 1..n /\ i + (k - i + 1) - 1 = k
                BY <1>9, <8>1
              <8>3. k - i + 1 \in at
                BY <7>1, <8>2
              <8>4. QED
                BY <5>3, <8>3
            <7>2. \A k \in 1..i - 1 : k \in 1..(i + n) - 1
              BY <1>9
            <7>3. QED
              BY <7>1, <7>2
          <6>2. QED
            BY <5>1, <5>2, <5>3, <6>1
        <5>4. CASE at # {}
          <6>1. PICK k \in at : k = CHOOSE j \in at : TRUE
            BY <5>4
          <6>2. k \in 1..n /\ layout[i + k - 1] = f /\ i + k - 1 \in 1..(i + n) - 1
                /\ i + k - 1 \in 1..Len(layout)
            <7>1. k \in 1..n /\ layout[i + k - 1] = f
              BY <6>1
            <7>2. k \in Nat /\ k >= 1 /\ k <= n
              BY <7>1
            <7>3. QED
              BY <1>5, <1>9, <7>1, <7>2
          <6>3. f \notin Skipped
            BY CTypeFacts
          <6>4. ReadProgramField(layout[i + k - 1], m.fields[2 + (i + k - 1)])
                  = {Expected[v][m.level][layout[i + k - 1]]}
            BY <3>2, <3>6, <6>2, <6>3 DEF ProgramSent, layout
          <6>5. Value(k) = {Expected[v][m.level][f]}
            BY <3>3, <6>2, <6>4
          <6>6. p[f] = CHOOSE x \in Value(k) : TRUE
            BY <5>1, <5>4, <6>1
          <6>7. p[f] = Expected[v][m.level][f]
            BY <6>5, <6>6
          <6>8. QED
            BY <6>2, <6>7
        <5>5. QED
          BY <5>3, <5>4
      <4>2. p = [f \in DOMAIN CType |-> p[f]]
        BY <2>3 DEF read
      <4>3. QED
        BY <4>1, <4>2
    <3> HIDE DEF Value, F, refused
    <3>7. CASE i + n <= Len(layout)
      <4>1. task'.pc = "program" /\ task'.i = i + n
        BY <1>5, <1>9, <2>5, <3>7
      <4>2. used + n = 1 + (i + n) /\ i + n \in 1..Len(layout)
        BY <1>5, <1>9, <3>1, <3>7
      <4>3. m_protoVersion' = v
        BY <1>2, <2>2
      <4>4. /\ used + n = 1 + task'.i /\ task'.i \in 1..Len(layout) /\ Subject(m, "program")
            /\ task'.msg.event = m.event /\ task'.msg.signal = {}
        BY <2>5, <3>1, <4>1, <4>2
      <4>5. \A k \in 1..task'.i - 1 : ReadProgramField(layout[k], m.fields[2 + k]) # {}
        BY <3>5, <4>1
      <4>6. m.level # "none" =>
              task'.msg.program =
                [f \in DOMAIN CType |->
                   IF \E k \in 1..task'.i - 1 : layout[k] = f
                     THEN Expected[v][m.level][f] ELSE NewProgram[f]]
        BY <2>5, <3>6, <4>1
      <4>7. QED
        BY <4>1, <4>3, <4>4, <4>5, <4>6 DEF Decoded, layout
    <3>8. CASE i + n > Len(layout)
      <4>1. task'.pc = "flush" /\ i + n = Len(layout) + 1 /\ (i + n) - 1 = Len(layout)
        BY <1>5, <1>9, <2>5, <3>8
      <4>2. Len(m.fields) >= 2 + Len(layout)
        <5>1. Len(m.fields) = 1 + i + m_msgLength
          BY <2>7, <3>1
        <5>2. QED
          BY <1>3, <1>5, <1>9, <4>1, <5>1
      <4>3. m.level # "none"
        <5>1. ~(Len(m.fields) < 2 + Len(layout))
          <6>1. Len(m.fields) \in Nat
            BY <1>2, <2>7, FieldsUnits
          <6>2. QED
            BY <1>5, <4>2, <6>1
        <5>2. \A k \in 1..Len(layout) : ReadProgramField(layout[k], m.fields[2 + k]) # {}
          BY <3>5, <4>1
        <5>3. QED
          BY <3>2, <5>1, <5>2 DEF ProgramSent, layout
      <4>4. m.level \in {"high", "low"}
        <5>1. Meant(v, m)
          BY <1>2, <2>7, MessagesMeant
        <5>2. QED
          BY <4>3, <5>1 DEF Meant
      <4>5. p = Expected[v][m.level]
        BY <3>6, <4>1, <4>3, <4>4, WholeProgram DEF layout
      <4>6. Right(m, task.msg)'
        BY <1>2, <2>2, <2>5, <3>1, <3>2, <4>5 DEF Right
      <4>7. QED
        BY <4>1, <4>6 DEF Decoded
    <3>9. QED
      BY <1>5, <1>9, <3>7, <3>8
  <2>8. QED
    BY <1>1, <2>1, <2>6, <2>7, MessageStep
<1>13. QED
  BY <1>8, <1>11, <1>12

----------------------------------------------------------------------------
(***************************************************************************)
(* The other steps                                                         *)
(***************************************************************************)
\* A step that reads n units of the stream is right when it keeps the place.
LEMMA Moved ==
  ASSUME IInv, task.pc \in Reading, NEW n \in Nat, Socket', Shifted(n), Connection', Quiet',
         UNCHANGED <<m_protoVersion, sent, got>>, budget'.send = budget.send,
         \A msgs, off, full, pos :
           /\ Story(msgs) /\ Result(msgs) /\ Laid(msgs, off, full) /\ Flow(full, pos)
           /\ Progress(msgs, off, pos) /\ Begins(full, pos, n) /\ pos \in Nat
           /\ pos + n <= Len(full)
           => Progress(msgs, off, pos + n)'
  PROVE  IInv'
<1>1. PICK msgs : Story(msgs) /\ Result(msgs) /\ Followed(msgs)
  BY DEF IInv
<1>2. PICK off, full, pos : Laid(msgs, off, full) /\ Flow(full, pos) /\ Progress(msgs, off, pos)
  BY <1>1 DEF Followed
<1>3. Flow(full, pos + n)' /\ pos \in Nat /\ pos + n <= Len(full) /\ Begins(full, pos, n)
  <2>1. Socket /\ full \in Seq(Units)
    BY <1>2 DEF IInv, Laid
  <2>2. QED
    BY <1>2, <2>1, FlowMoves
<1>4. Progress(msgs, off, pos + n)'
  BY <1>1, <1>2, <1>3
<1>5. Laid(msgs, off, full)'
  BY <1>2 DEF Laid
<1>6. Followed(msgs)'
  BY <1>3, <1>4, <1>5 DEF Followed
<1>7. Story(msgs)' /\ Result(msgs)'
  BY <1>1, StoryKept, ResultKept
<1>8. QED
  BY <1>6, <1>7 DEF IInv

\* A step that leaves the stream for good.
LEMMA Left ==
  ASSUME IInv, task'.pc \notin Reading, Socket', Connection', Quiet',
         UNCHANGED <<m_protoVersion, sent, got>>, budget'.send = budget.send
  PROVE  IInv'
<1>1. PICK msgs : Story(msgs) /\ Result(msgs)
  BY DEF IInv
<1>2. Story(msgs)' /\ Result(msgs)'
  BY <1>1, StoryKept, ResultKept
<1>3. QED
  BY <1>2 DEF IInv, Followed

LEMMA SpendFacts ==
  ASSUME IInv, NEW b, b \in {"send", "fault"}, Spend(b)
  PROVE  /\ budget' \in [send : Nat, fault : Nat]
         /\ b = "fault" => budget'.send = budget.send
         /\ b = "send" => budget'.send + 1 = budget.send
<1>1. budget \in [send : Nat, fault : Nat]
  BY DEF IInv, Connection
<1>2. CASE b = "send"
  BY <1>1, <1>2 DEF Spend
<1>3. CASE b = "fault"
  BY <1>1, <1>3 DEF Spend
<1>4. QED
  BY <1>2, <1>3

LEMMA TaskFacts ==
  ASSUME NEW place, place \in Places, NEW i \in Nat
  PROVE  /\ Task(place, i) \in [pc : Places, i : Nat, msg : [event : {Task(place, i).msg.event},
                     program : {Task(place, i).msg.program}, signal : {Task(place, i).msg.signal}]]
         /\ Task(place, i).pc = place /\ Task(place, i).msg = NewMessage /\ Task(place, i).i = i
BY DEF Task, NewMessage

LEMMA DisconnectFacts ==
  ASSUME Disconnect
  PROVE  Socket' /\ net' = <<>> /\ wire' = <<>> /\ m_buffer' = <<>>
<1>1. <<>> \in Seq(Units) /\ Len(<<>>) = 0 /\ 0 < BufLen
  BY ProtoEventAssumption
<1>2. QED
  BY <1>1 DEF Disconnect, Socket

LEMMA HangKeeps ==
  ASSUME IInv, task.pc \notin {"closed", "connect"}, Hang,
         budget' = budget \/ Spend("fault")
  PROVE  IInv'
<1>1. Connection /\ Quiet
  BY DEF IInv
<1>2. Socket' /\ net' = <<>> /\ wire' = <<>> /\ m_buffer' = <<>>
  BY DisconnectFacts DEF Hang
<1>3. budget' \in [send : Nat, fault : Nat] /\ budget'.send = budget.send
  BY <1>1, SpendFacts DEF Connection
<1>4. /\ task' \in [pc : Places, i : Nat, msg : [event : {task.msg.event},
                   program : {task.msg.program}, signal : {task.msg.signal}]]
      /\ task'.pc = "lost" /\ task'.msg = task.msg
  BY <1>1 DEF Hang, Goto, Connection, Places
<1>5. /\ m_isOpen' = FALSE /\ m_hang' = TRUE /\ m_msgLength' = 0
      /\ UNCHANGED <<m_protoVersion, sent, got>>
  BY DEF Hang
<1>6. Connection'
  BY <1>1, <1>3, <1>4, <1>5 DEF Connection
<1>7. Quiet'
  BY <1>1, <1>4, <1>5 DEF Quiet, InMessage
<1>8. QED
  BY <1>2, <1>3, <1>4, <1>5, <1>6, <1>7, Left DEF Reading, InMessage

LEMMA CloseKeeps ==
  ASSUME IInv, CloseConnection, budget' = budget \/ Spend("fault")
  PROVE  IInv'
<1>1. Connection /\ Quiet
  BY DEF IInv
<1>2. Socket' /\ net' = <<>> /\ wire' = <<>> /\ m_buffer' = <<>>
  BY DisconnectFacts DEF CloseConnection
<1>3. budget' \in [send : Nat, fault : Nat] /\ budget'.send = budget.send
  BY <1>1, SpendFacts DEF Connection
<1>4. task' = Task("closed", 0) /\ "closed" \in Places /\ 0 \in Nat
  BY DEF CloseConnection, Places
<1>5. /\ m_isOpen' = FALSE /\ m_hang' = FALSE /\ m_msgLength' = 0
      /\ UNCHANGED <<m_protoVersion, sent, got>>
  BY DEF CloseConnection
<1>6. Connection' /\ task'.pc = "closed"
  BY <1>1, <1>3, <1>4, <1>5, TaskFacts DEF Connection
<1>7. Quiet'
  <2>1. sent # <<>> => m_protoVersion \in Versions
    BY <1>1 DEF Quiet
  <2>2. QED
    BY <1>2, <1>5, <1>6, <2>1 DEF Quiet, InMessage
<1>8. QED
  BY <1>2, <1>3, <1>5, <1>6, <1>7, Left DEF Reading, InMessage

LEMMA OpenKeeps ==
  ASSUME IInv, Open \/ Connect
  PROVE  IInv'
<1>1. Connection /\ Quiet /\ Socket
  BY DEF IInv
<1>2. PICK place, i : task' = Task(place, i) /\ place \in {"closed", "connect"} /\ i \in Nat
  <2>1. CASE Open
    BY <2>1, ProtoEventAssumption DEF Open
  <2>2. CASE Connect
    <3>1. task.i \in Nat
      BY <1>1 DEF Connection
    <3>2. task.i > 1 => task.i - 1 \in Nat
      BY <3>1
    <3>3. QED
      BY <2>2, <3>2 DEF Connect
  <2>3. QED
    BY <2>1, <2>2
<1>3. /\ UNCHANGED <<socket, proto, sent, got>> /\ task.pc \in {"closed", "connect"}
      /\ budget' = budget \/ Spend("fault")
  BY DEF Open, Connect
<1>4. budget' \in [send : Nat, fault : Nat] /\ budget'.send = budget.send
  BY <1>1, <1>3, SpendFacts DEF Connection
<1>5. place \in Places /\ task'.pc = place
  BY <1>2, TaskFacts DEF Places
<1>6. Connection'
  BY <1>1, <1>2, <1>3, <1>4, <1>5, TaskFacts DEF Connection, proto
<1>7. Socket' /\ Quiet'
  BY <1>1, <1>2, <1>3, <1>5 DEF Socket, Quiet, socket, proto, InMessage
<1>8. task'.pc \notin Reading /\ UNCHANGED <<m_protoVersion, sent, got>>
  BY <1>2, <1>3, <1>5 DEF Reading, InMessage, proto
<1>9. QED
  BY <1>4, <1>6, <1>7, <1>8, Left

LEMMA ConnectAddrKeeps ==
  ASSUME IInv, ConnectAddr
  PROVE  IInv'
<1>1. Connection /\ Quiet /\ Socket
  BY DEF IInv
<1>2. /\ task' \in [pc : Places, i : Nat, msg : [event : {task.msg.event},
                   program : {task.msg.program}, signal : {task.msg.signal}]]
      /\ task'.pc = "announce" /\ task'.msg = task.msg
  BY <1>1 DEF ConnectAddr, Goto, Connection, Places
<1>3. Connection'
  BY <1>1, <1>2 DEF ConnectAddr, Connection
<1>4. Socket' /\ Quiet'
  BY <1>1, <1>2 DEF ConnectAddr, Socket, Quiet, InMessage
<1>5. Story(<<>>)'
  <2>1. budget.send \in Nat /\ MaxSent \in Nat /\ budget' = budget
    BY <1>1, ProtoEventAssumption DEF Connection, ConnectAddr
  <2>2. budget.send <= MaxSent
    <3>1. PICK msgs : Story(msgs)
      BY DEF IInv
    <3>2. sent \in Seq(Range(sent)) /\ Len(sent) + budget.send <= MaxSent
      BY <3>1 DEF Story
    <3>3. Len(sent) \in Nat
      BY <3>2
    <3>4. QED
      BY <2>1, <3>2, <3>3
  <2>3. \A X : <<>> \in Seq(X) /\ Len(<<>>) = 0
    OBVIOUS
  <2>4. sent' = <<>>
    BY DEF ConnectAddr
  <2>5. QED
    BY <2>1, <2>2, <2>3, <2>4 DEF Story
<1>6. Result(<<>>)'
  BY DEF Result, ConnectAddr
<1>7. Followed(<<>>)'
  BY <1>2 DEF Followed, Reading, InMessage
<1>8. QED
  BY <1>3, <1>4, <1>5, <1>6, <1>7 DEF IInv

\* The answer to the announcement is the first in the stream.
LEMMA AnnouncedKeeps ==
  ASSUME IInv, task.pc = "announce", m_socket = "open", NEW answer \in {"OK", "REFUSED"},
         budget' = budget \/ Spend("fault"), net' = net \o Framed(<<Text(answer)>>),
         Goto("answer"), UNCHANGED <<wire, m_buffer, m_socket, proto, sent, got>>
  PROVE  IInv'
<1>1. Connection /\ Quiet /\ Socket
  BY DEF IInv
<1>2. /\ net = <<>> /\ wire = <<>> /\ m_buffer = <<>> /\ sent = <<>> /\ got.n = 0
      /\ m_msgLength = 0 /\ m_protoVersion \in Versions
  BY <1>1 DEF Quiet, InMessage
<1>3. /\ task' \in [pc : Places, i : Nat, msg : [event : {task.msg.event},
                   program : {task.msg.program}, signal : {task.msg.signal}]]
      /\ task'.pc = "answer" /\ task'.msg = task.msg
  BY <1>1 DEF Goto, Connection, Places, Reading
<1>4. budget' \in [send : Nat, fault : Nat] /\ budget'.send = budget.send
  BY <1>1, SpendFacts DEF Connection
<1>5. Connection' /\ Quiet'
  BY <1>1, <1>2, <1>3, <1>4 DEF Connection, Quiet, InMessage, proto
<1> DEFINE full == <<Header(1), Text(answer)>>
<1>6. full \in Seq(Units) /\ Len(full) = 2 /\ full[1] = Header(1)
  BY UnitFacts
<1>7. net' = full
  <2>1. ASSUME NEW a, NEW b
        PROVE  <<a>> \o <<b>> = <<a, b>> /\ <<>> \o <<a, b>> = <<a, b>> /\ Len(<<b>>) = 1
    <3>1. <<a, b>> \in Seq({a, b}) /\ Len(<<b>>) = 1
      OBVIOUS
    <3>2. <<>> \o <<a, b>> = <<a, b>>
      BY <3>1, EmptyFacts
    <3>3. <<a>> \o <<b>> = <<a, b>>
      <4> DEFINE s == <<a>>  t == <<b>>
      <4>1. /\ s \in Seq({a, b}) /\ t \in Seq({a, b}) /\ Len(s) = 1 /\ Len(t) = 1
            /\ s[1] = a /\ t[1] = b
        OBVIOUS
      <4> HIDE DEF s, t
      <4>2. /\ s \o t \in Seq({a, b}) /\ Len(s \o t) = Len(s) + Len(t)
            /\ \A k \in 1..Len(s) : (s \o t)[k] = s[k]
            /\ \A k \in 1..Len(t) : (s \o t)[Len(s) + k] = t[k]
        BY ONLY <4>1, ConcatFacts
      <4> DEFINE r == s \o t  u == <<a, b>>
      <4>3. r \in Seq({a, b}) /\ Len(r) = 2 /\ r[1] = a /\ r[2] = b
        BY <4>1, <4>2
      <4>5. u \in Seq({a, b}) /\ Len(u) = 2 /\ u[1] = a /\ u[2] = b
        OBVIOUS
      <4> HIDE DEF r, u
      <4>6. \A k \in 1..2 : r[k] = u[k]
        BY <4>3, <4>5
      <4>7. r = u
        <5>1. r = [k \in 1..2 |-> r[k]] /\ u = [k \in 1..2 |-> u[k]]
          BY <4>3, <4>5
        <5>2. QED
          BY <4>6, <5>1
      <4>4. QED
        BY <4>7 DEF r, u, s, t
    <3>4. QED
      BY <3>1, <3>2, <3>3
  <2>2. Framed(<<Text(answer)>>) = full
    BY <2>1 DEF Framed
  <2>3. QED
    BY <1>2, <2>1, <2>2
<1> HIDE DEF full
<1>8. Socket'
  BY <1>1, <1>6, <1>7 DEF Socket
<1>9. Stream' = full
  <2>1. <<>> \o <<>> = <<>> /\ <<>> \o full = full
    BY <1>6
  <2>2. QED
    BY <1>2, <1>7, <2>1 DEF Stream
<1>10. PICK msgs : Story(msgs) /\ Result(msgs)
  BY DEF IInv
<1>11. Len(msgs) = 0
  BY <1>2, <1>10 DEF Story
<1>12. Story(msgs)' /\ Result(msgs)'
  BY <1>4, <1>10, StoryKept, ResultKept DEF proto
<1> DEFINE off == [k \in 1..Len(msgs) + 1 |-> 2]
<1>13. Laid(msgs, off, full)'
  <2>1. off \in [1..Len(msgs) + 1 -> Nat] /\ off[1] = 2 /\ off[Len(msgs) + 1] = 2
    BY <1>11
  <2>2. \A j, k \in 1..Len(msgs) + 1 : j <= k => off[j] <= off[k]
    BY <1>11
  <2> HIDE DEF off
  <2>3. QED
    BY <1>6, <1>11, <2>1, <2>2 DEF Laid
<1>14. Flow(full, 0)'
  <2>1. 0 + Len(full) = Len(full) /\ 0 + Len(full) <= Len(full)
    BY <1>6
  <2>2. \A x \in 1..Len(full) : full[x] = full[0 + x]
    OBVIOUS
  <2>3. QED
    BY <1>9, <2>1, <2>2 DEF Flow
<1> HIDE DEF off
<1>15. Progress(msgs, off, 0)'
  BY <1>2, <1>3 DEF Progress, InMessage
<1>16. Followed(msgs)'
  BY <1>13, <1>14, <1>15 DEF Followed
<1>17. QED
  BY <1>5, <1>8, <1>12, <1>16 DEF IInv

LEMMA Announce75Keeps ==
  ASSUME IInv, Announce75
  PROVE  IInv'
<1>1. CASE m_socket = "ended" /\ CloseConnection /\ UNCHANGED budget
  BY <1>1, CloseKeeps
<1>2. CASE /\ m_socket = "open"
           /\ \E answer \in {"OK", "REFUSED"} :
                /\ IF answer = "OK" THEN UNCHANGED budget ELSE Spend("fault")
                /\ net' = net \o Framed(<<Text(answer)>>)
           /\ Goto("answer")
           /\ UNCHANGED <<wire, m_buffer, m_socket, proto, sent, got>>
  <2>1. PICK answer \in {"OK", "REFUSED"} :
             /\ IF answer = "OK" THEN UNCHANGED budget ELSE Spend("fault")
             /\ net' = net \o Framed(<<Text(answer)>>)
    BY <1>2
  <2>2. budget' = budget \/ Spend("fault")
    BY <2>1
  <2>3. QED
    BY <1>2, <2>1, <2>2, AnnouncedKeeps DEF Announce75
<1>3. QED
  BY <1>1, <1>2 DEF Announce75

LEMMA ListenKeeps ==
  ASSUME IInv, Listen
  PROVE  IInv'
<1>1. Connection /\ Quiet /\ Socket /\ task.pc = "idle"
  BY DEF IInv, Listen
<1>2. m_protoVersion \in Versions /\ m_msgLength = 0
  BY <1>1 DEF Quiet, InMessage
<1>3. Socket' /\ Shifted(0) /\ UNCHANGED proto /\ UNCHANGED <<sent, got>>
  BY <1>1, Unread DEF Listen
<1>4. CASE task' = Task("length", 0) /\ UNCHANGED budget
  <2>1. Connection' /\ task'.pc = "length" /\ task'.msg = NewMessage
    <3>1. "length" \in Places /\ 0 \in Nat
      BY DEF Places, Reading
    <3>2. QED
      BY <1>1, <1>3, <1>4, <3>1, TaskFacts DEF Connection, proto
  <2>2. Quiet'
    BY <1>2, <1>3, <2>1 DEF Quiet, InMessage, proto
  <2>3. ASSUME NEW msgs, NEW off, NEW full, NEW pos, Progress(msgs, off, pos), pos \in Nat
        PROVE  Progress(msgs, off, pos + 0)'
    <3>1. pos = off[got.n + 1]
      BY <1>1, <2>3 DEF Progress
    <3>2. QED
      BY <1>3, <2>1, <2>3, <3>1 DEF Progress, InMessage
  <2>4. QED
    <3>1. task.pc \in Reading /\ UNCHANGED <<m_protoVersion, sent, got>>
      BY <1>1, <1>3 DEF Reading, proto
    <3>2. QED
      BY <1>3, <1>4, <2>1, <2>2, <2>3, <3>1, Moved
<1>5. CASE Spend("fault") /\ Goto("lost")
  <2>1. budget' \in [send : Nat, fault : Nat] /\ budget'.send = budget.send
    BY <1>5, SpendFacts
  <2>2. /\ task' \in [pc : Places, i : Nat, msg : [event : {task.msg.event},
                   program : {task.msg.program}, signal : {task.msg.signal}]]
        /\ task'.pc = "lost" /\ task'.msg = task.msg
    BY <1>1, <1>5 DEF Goto, Connection, Places
  <2>3. Connection' /\ Quiet'
    BY <1>1, <1>2, <1>3, <2>1, <2>2 DEF Connection, Quiet, InMessage, proto
  <2>4. task'.pc \notin Reading /\ UNCHANGED <<m_protoVersion, sent, got>>
    BY <1>3, <2>2 DEF Reading, InMessage, proto
  <2>5. QED
    BY <1>3, <2>1, <2>3, <2>4, Left
<1>6. QED
  BY <1>4, <1>5 DEF Listen

\* The thread reads a length where there is one.
LEMMA RcvMessageLengthKeeps ==
  ASSUME IInv, RcvMessageLength
  PROVE  IInv'
<1>1. /\ Connection /\ Quiet /\ Socket /\ task.pc \in {"answer", "length"} /\ Readable
      /\ budget' = budget
  BY DEF IInv, RcvMessageLength
<1>2. m_protoVersion \in Versions /\ m_msgLength = 0
  BY <1>1 DEF Quiet, InMessage
<1>3. PICK msgs : Story(msgs) /\ Result(msgs) /\ Followed(msgs)
  BY DEF IInv
<1>4. PICK off, full, pos : Laid(msgs, off, full) /\ Flow(full, pos) /\ Progress(msgs, off, pos)
  BY <1>1, <1>3 DEF Followed, Reading
<1>5. PICK c : c = got.n /\ c \in Nat /\ c <= Len(msgs) /\ Len(msgs) \in Nat
  BY <1>3 DEF Result, Story
<1>6. /\ Len(AtOnce) \in Nat \ {0} /\ Len(Stream) \in Nat \ {0}
      /\ First = Stream[1] /\ First = full[pos + 1]
  <2>1. /\ Stream \in Seq(Units) /\ Len(AtOnce) \in 1..BufLen /\ Len(AtOnce) <= Len(Stream)
        /\ First = Stream[1] /\ BufLen \in Nat
    BY <1>1, AtOnceFacts, ProtoEventAssumption
  <2>2. Len(Stream) \in Nat \ {0} /\ Len(AtOnce) \in Nat \ {0}
    BY <2>1
  <2>3. 1 \in 1..Len(Stream)
    BY <2>2
  <2>4. Stream[1] = full[pos + 1]
    BY <1>4, <2>3 DEF Flow
  <2>5. QED
    BY <2>1, <2>2, <2>4
<1>7. pos \in Nat /\ pos + Len(Stream) <= Len(full)
  BY <1>4 DEF Flow
<1>8. /\ off \in [1..Len(msgs) + 1 -> Nat] /\ full \in Seq(Units)
      /\ Len(full) = off[Len(msgs) + 1] /\ full[1] = Header(1)
  BY <1>4 DEF Laid
<1>9. task.pc = "length" => pos = off[c + 1] /\ c < Len(msgs) /\ task.msg = NewMessage
  <2>1. SUFFICES ASSUME task.pc = "length" PROVE pos = off[c + 1] /\ c < Len(msgs)
    BY <1>4 DEF Progress
  <2>2. pos = off[c + 1]
    BY <1>4, <1>5, <2>1 DEF Progress
  <2>3. c # Len(msgs)
    <3>1. SUFFICES ASSUME c = Len(msgs) PROVE FALSE
      OBVIOUS
    <3>2. pos = Len(full)
      BY <1>8, <2>2, <3>1
    <3>3. QED
      BY <1>6, <1>7, <3>2
  <2>4. QED
    BY <1>5, <2>2, <2>3
<1> DEFINE l == IF task.pc = "answer" THEN 1 ELSE Len(msgs[c + 1].fields)
<1>10. First = Header(l) /\ l \in Nat
  <2>1. CASE task.pc = "answer"
    <3>1. pos = 0
      BY <1>4, <2>1 DEF Progress
    <3>2. QED
      BY <1>6, <1>8, <2>1, <3>1
  <2>2. CASE task.pc = "length"
    <3>1. c + 1 \in 1..Len(msgs) /\ pos = off[c + 1]
      BY <1>5, <1>9, <2>2
    <3>2. full[off[c + 1] + 1] = Header(Len(msgs[c + 1].fields))
      BY <1>4, <3>1 DEF Laid
    <3>3. msgs[c + 1] \in Messages[m_protoVersion]
      BY <1>3, <3>1 DEF Story
    <3>4. Len(msgs[c + 1].fields) \in Nat
      BY <1>2, <3>3, FieldsUnits
    <3>5. QED
      BY <1>6, <2>2, <3>1, <3>2, <3>4
  <2>3. QED
    BY <1>1, <2>1, <2>2
<1> HIDE DEF l
<1>11. First.val = "length" /\ First.bits = l
  BY <1>10, UnitFacts
<1>12. /\ ReceiveData(1) /\ m_msgLength' = l
       /\ Goto(IF task.pc = "answer" THEN "ok" ELSE "head")
       /\ UNCHANGED <<m_isOpen, m_hang, m_protoVersion, sent, got>>
  BY <1>11 DEF RcvMessageLength
<1>13. Socket' /\ Shifted(1)
  <2>1. 1 \in 1..Len(AtOnce)
    BY <1>6
  <2>2. QED
    BY <1>1, <1>12, <2>1, Received
<1>14. Flow(full, pos + 1)'
  BY <1>1, <1>4, <1>8, <1>13, FlowMoves
<1> DEFINE place == IF task.pc = "answer" THEN "ok" ELSE "head"
<1>15. Connection' /\ task'.pc = place /\ task'.msg = task.msg
  <2>1. place \in Places /\ Goto(place) /\ m_msgLength' \in Nat
    BY <1>10, <1>12 DEF Places, Reading, InMessage
  <2> HIDE DEF place
  <2>2. QED
    BY <1>1, <1>12, <2>1, GotoTyped
<1>16. Quiet'
  BY <1>2, <1>12, <1>15 DEF Quiet, InMessage
<1>17. Progress(msgs, off, pos + 1)'
  <2>1. CASE task.pc = "answer"
    <3>1. pos = 0 /\ got.n = 0 /\ l = 1
      BY <1>4, <2>1 DEF Progress, l
    <3>2. task'.pc = "ok" /\ pos + 1 = 1 /\ m_msgLength' = 1 /\ got'.n = 0
      BY <1>12, <1>15, <2>1, <3>1
    <3>3. QED
      BY <3>2 DEF Progress, InMessage
  <2>2. CASE task.pc = "length"
    <3> DEFINE m == msgs[c + 1]  o == off[c + 1]
    <3>1. pos = o /\ c < Len(msgs) /\ task'.msg = NewMessage /\ task'.pc = "head"
          /\ m_msgLength' = Len(m.fields) /\ got'.n = c
      BY <1>5, <1>9, <1>12, <1>15, <2>2 DEF l
    <3>2. c + 1 \in 1..Len(msgs)
      BY <1>5, <3>1
    <3>3. off[(c + 1) + 1] = o + 1 + Len(m.fields)
      BY <1>4, <3>2 DEF Laid
    <3>4. (c + 1) + 1 = c + 2
      BY <1>5
    <3>5. Decoded(m, 0)'
      BY <3>1 DEF Decoded
    <3>6. (pos + 1) - o - 1 = 0 /\ o + 1 <= pos + 1
      BY <1>7, <3>1
    <3> HIDE DEF m, o
    <3>7. /\ c < Len(msgs) /\ o + 1 <= pos + 1 /\ (pos + 1) + m_msgLength' = off[c + 2]
          /\ Decoded(m, (pos + 1) - o - 1)'
      BY <3>1, <3>3, <3>4, <3>5, <3>6
    <3>8. QED
      BY <3>1, <3>7 DEF Progress, InMessage, m, o
  <2>3. QED
    BY <1>1, <2>1, <2>2
<1>18. Laid(msgs, off, full)'
  BY <1>4 DEF Laid
<1>19. Story(msgs)' /\ Result(msgs)'
  BY <1>1, <1>3, <1>12, StoryKept, ResultKept
<1>20. QED
  BY <1>13, <1>14, <1>15, <1>16, <1>17, <1>18, <1>19 DEF IInv, Followed

LEMMA IsMessageOKKeeps ==
  ASSUME IInv, IsMessageOK
  PROVE  IInv'
<1>1. Connection /\ Quiet /\ Socket /\ task.pc = "ok" /\ ReadField
  BY DEF IInv, IsMessageOK
<1>2. Reads(1) /\ 1 <= m_msgLength
  BY <1>1, FieldRead1
<1>3. /\ m_msgLength' \in Nat
      /\ UNCHANGED <<m_isOpen, m_hang, m_protoVersion, sent, got, budget>>
  BY <1>2, ReadsTyped
<1>4. m_protoVersion \in Versions
  BY <1>1 DEF Quiet
<1>5. m_msgLength' = 0
  <2>1. PICK msgs, off, pos : Progress(msgs, off, pos)
    BY <1>1 DEF IInv, Followed, Reading
  <2>2. m_msgLength = 1
    BY <1>1, <2>1 DEF Progress
  <2>3. QED
    BY <1>2, <2>2 DEF Reads
<1> DEFINE place == IF First.val = "OK" THEN "idle" ELSE "refused"
<1>6. Connection' /\ task'.pc = place
  <2>1. place \in Places /\ Goto(place)
    BY DEF Places, Reading, IsMessageOK
  <2> HIDE DEF place
  <2>2. QED
    BY <1>3, <2>1, GotoTyped
<1>7. Quiet'
  BY <1>3, <1>4, <1>5, <1>6 DEF Quiet, InMessage
<1>8. CASE place = "refused"
  <2>1. task'.pc \notin Reading
    BY <1>6, <1>8 DEF Reading, InMessage
  <2>2. QED
    BY <1>2, <1>3, <1>6, <1>7, <2>1, Left DEF Reads
<1>9. CASE place = "idle"
  <2>1. ASSUME NEW msgs, NEW off, NEW full, NEW pos, Progress(msgs, off, pos),
               Laid(msgs, off, full)
        PROVE  Progress(msgs, off, pos + 1)'
    <3>1. pos = 1 /\ got.n = 0 /\ off[1] = 2
      BY <1>1, <2>1 DEF Progress, Laid
    <3>2. pos + 1 = off[got'.n + 1] /\ task'.pc = "idle"
      BY <1>3, <1>6, <1>9, <3>1
    <3>3. QED
      BY <3>2 DEF Progress, InMessage
  <2>2. task.pc \in Reading /\ Socket' /\ Shifted(1) /\ budget'.send = budget.send
    BY <1>1, <1>2, <1>3 DEF Reading, Reads
  <2>3. QED
    BY <1>3, <1>6, <1>7, <2>1, <2>2, Moved
<1>10. QED
  BY <1>8, <1>9

\* A message is returned: the next one is behind it.
LEMMA ReturnKeeps ==
  ASSUME IInv, Return
  PROVE  IInv'
<1>1. Connection /\ Quiet /\ Socket /\ task.pc = "flush" /\ task.pc \in InMessage
  BY DEF IInv, Return, InMessage
<1>2. m_protoVersion \in Versions
  BY <1>1 DEF Quiet
<1>3. PICK msgs, off, full, pos :
           /\ Story(msgs) /\ Result(msgs)
           /\ Laid(msgs, off, full) /\ Flow(full, pos)
           /\ got.n \in Nat /\ got.n < Len(msgs) /\ off[got.n + 1] + 1 <= pos
           /\ pos + m_msgLength = off[got.n + 2]
           /\ Decoded(msgs[got.n + 1], pos - off[got.n + 1] - 1)
  BY <1>1, MessageFacts
<1>4. /\ m_msgLength = 0 /\ got'.n = got.n + 1 /\ got'.last = task.msg /\ task' = Task("idle", 0)
      /\ UNCHANGED <<socket, proto, sent, budget>>
  BY DEF Return
<1>5. Connection' /\ task'.pc = "idle"
  <2>1. "idle" \in Places /\ 0 \in Nat
    BY DEF Places, Reading
  <2>2. QED
    BY <1>1, <1>4, <2>1, TaskFacts DEF Connection, proto
<1>6. Socket' /\ Quiet' /\ m_protoVersion' = m_protoVersion
  BY <1>1, <1>2, <1>4, <1>5 DEF Socket, Quiet, socket, proto, InMessage
<1>7. Story(msgs)'
  BY <1>3, <1>4, <1>6, StoryKept
<1>8. Result(msgs)'
  <2>0. PICK m : m = msgs[got.n + 1]
    OBVIOUS
  <2>1. Right(m, task.msg)
    BY <1>1, <1>3, <2>0 DEF Decoded
  <2>2. Right(m, got.last)' /\ m = msgs[got'.n]
    BY <1>4, <1>6, <2>0, <2>1 DEF Right
  <2>3. got'.n \in 0..Len(msgs)
    <3>1. Len(msgs) \in Nat
      BY <1>3 DEF Story
    <3>2. QED
      BY <1>3, <1>4, <3>1
  <2>4. QED
    BY <1>4, <2>2, <2>3 DEF Result
<1>9. Progress(msgs, off, pos)'
  <2>1. pos \in Nat
    BY <1>3 DEF Flow
  <2>2. pos = off[got.n + 2] /\ got.n + 2 = (got.n + 1) + 1
    BY <1>3, <1>4, <2>1
  <2>3. pos = off[got'.n + 1]
    BY <1>4, <2>2
  <2>4. QED
    BY <1>5, <2>3 DEF Progress, InMessage
<1>10. Flow(full, pos)' /\ Laid(msgs, off, full)'
  <2>1. Stream' = Stream /\ m_socket' = m_socket
    BY <1>4 DEF Stream, socket
  <2>2. QED
    BY <1>3, <2>1 DEF Flow, Laid
<1>11. QED
  BY <1>5, <1>6, <1>7, <1>8, <1>9, <1>10 DEF IInv, Followed

LEMMA DeliverKeeps ==
  ASSUME IInv, Deliver
  PROVE  IInv'
<1>1. Connection /\ Quiet /\ Socket
  BY DEF IInv
<1>2. Socket' /\ Stream' = Stream
  BY <1>1, Delivered
<1>3. UNCHANGED <<m_buffer, m_socket, proto, task, sent, got, budget>> /\ net # <<>>
  BY DEF Deliver
<1>4. Connection' /\ Quiet'
  BY <1>1, <1>3 DEF Connection, Quiet, proto
<1>5. PICK msgs : Story(msgs) /\ Result(msgs) /\ Followed(msgs)
  BY DEF IInv
<1>6. Story(msgs)' /\ Result(msgs)'
  BY <1>3, <1>5, StoryKept, ResultKept DEF proto
<1>7. ASSUME NEW off, NEW full, NEW pos, Flow(full, pos), Progress(msgs, off, pos),
             Laid(msgs, off, full)
      PROVE  Flow(full, pos)' /\ Progress(msgs, off, pos)' /\ Laid(msgs, off, full)'
  <2>1. Flow(full, pos)'
    BY <1>2, <1>3, <1>7 DEF Flow
  <2>2. Progress(msgs, off, pos)'
    BY <1>3, <1>7 DEF Progress, Decoded, Right, proto
  <2>3. QED
    BY <1>7, <2>1, <2>2 DEF Laid
<1>8. Followed(msgs)'
  BY <1>3, <1>5, <1>7 DEF Followed
<1>9. QED
  BY <1>2, <1>4, <1>6, <1>8 DEF IInv

\* What has arrived stays when the backend closes.
LEMMA BackendClosesKeeps ==
  ASSUME IInv, BackendCloses
  PROVE  IInv'
<1>1. Connection /\ Quiet /\ Socket
  BY DEF IInv
<1>2. /\ m_socket = "open" /\ m_socket' = "ended" /\ net' = <<>> /\ Spend("fault")
      /\ UNCHANGED <<wire, m_buffer, proto, task, sent, got>>
  BY DEF BackendCloses
<1>3. budget' \in [send : Nat, fault : Nat] /\ budget'.send = budget.send
  BY <1>2, SpendFacts
<1>4. Connection' /\ Quiet' /\ Socket'
  BY <1>1, <1>2, <1>3 DEF Connection, Quiet, Socket, proto
<1>5. PICK msgs : Story(msgs) /\ Result(msgs) /\ Followed(msgs)
  BY DEF IInv
<1>6. Story(msgs)' /\ Result(msgs)'
  BY <1>2, <1>3, <1>5, StoryKept, ResultKept DEF proto
<1>7. /\ Len(Stream) \in Nat /\ Len(Stream') \in Nat /\ Len(Stream') <= Len(Stream)
      /\ \A x \in 1..Len(Stream') : Stream'[x] = Stream[x]
  <2> DEFINE d == m_buffer \o wire
  <2>1. d \in Seq(Units) /\ net \in Seq(Units)
    BY <1>1 DEF Socket
  <2>2. Stream = d \o net /\ Stream' = d \o <<>>
    BY <1>2 DEF Stream
  <2> HIDE DEF d
  <2>3. d \o <<>> = d
    BY <2>1, EmptyFacts
  <2>4. Len(d \o net) = Len(d) + Len(net) /\ \A k \in 1..Len(d) : (d \o net)[k] = d[k]
    BY ONLY <2>1, ConcatFacts
  <2>5. Len(d) \in Nat /\ Len(net) \in Nat
    BY <2>1
  <2>6. QED
    BY <2>2, <2>3, <2>4, <2>5
<1>8. ASSUME NEW off, NEW full, NEW pos, Flow(full, pos), Progress(msgs, off, pos),
             Laid(msgs, off, full)
      PROVE  Flow(full, pos)' /\ Progress(msgs, off, pos)' /\ Laid(msgs, off, full)'
  <2>1. pos \in Nat /\ pos + Len(Stream) <= Len(full) /\ Len(full) \in Nat
    BY <1>8 DEF Flow, Laid
  <2>2. pos + Len(Stream') <= Len(full)
    BY <1>7, <2>1
  <2>3. \A x \in 1..Len(Stream') : Stream'[x] = full[pos + x]
    <3>1. \A x \in 1..Len(Stream') : x \in 1..Len(Stream)
      BY <1>7
    <3>2. \A x \in 1..Len(Stream) : Stream[x] = full[pos + x]
      BY <1>8 DEF Flow
    <3>3. QED
      BY <1>7, <3>1, <3>2
  <2>4. Flow(full, pos)'
    BY <1>2, <2>1, <2>2, <2>3 DEF Flow
  <2>5. Progress(msgs, off, pos)'
    BY <1>2, <1>8 DEF Progress, Decoded, Right, proto
  <2>6. QED
    BY <1>8, <2>4, <2>5 DEF Laid
<1>9. Followed(msgs)'
  BY <1>2, <1>5, <1>8 DEF Followed
<1>10. QED
  BY <1>4, <1>6, <1>9 DEF IInv

LEMMA InitHolds ==
  ASSUME Init
  PROVE  IInv
<1>1. \A X : <<>> \in Seq(X) /\ Len(<<>>) = 0
  OBVIOUS
<1>2. Socket
  BY <1>1, ProtoEventAssumption DEF Init, Socket
<1>3. Connection /\ task.pc = "closed"
  <2>1. "closed" \in Places /\ 0 \in Nat
    BY DEF Places
  <2>2. budget \in [send : Nat, fault : Nat]
    BY ProtoEventAssumption DEF Init
  <2>3. task = Task("closed", 0)
    BY DEF Init
  <2>4. QED
    <3>1. /\ task \in [pc : Places, i : Nat, msg : [event : {task.msg.event},
                         program : {task.msg.program}, signal : {task.msg.signal}]]
          /\ task.pc = "closed"
      BY ONLY <2>1, <2>3, TaskFacts
    <3>2. m_isOpen = FALSE /\ m_hang = FALSE /\ m_protoVersion = 0 /\ m_msgLength = 0
      BY DEF Init
    <3>3. QED
      BY <2>2, <3>1, <3>2 DEF Connection
<1>4. Quiet
  BY <1>3 DEF Init, Quiet, InMessage
<1>5. Story(<<>>)
  BY <1>1, ProtoEventAssumption DEF Init, Story
<1>6. Result(<<>>)
  BY DEF Init, Result
<1>7. Followed(<<>>)
  BY <1>3 DEF Followed, Reading, InMessage
<1>8. QED
  BY <1>2, <1>3, <1>4, <1>5, <1>6, <1>7 DEF IInv

\* The messages of the network follow those that are there: any first, then some.
LEMMA SentMessages ==
  ASSUME Send, m_protoVersion \in Versions
  PROVE  \E m \in Messages[m_protoVersion] :
           /\ net' = net \o Framed(m.fields)
           /\ sent' = Append(sent, [event |-> m.event, level |-> m.level, signal |-> m.signal])
<1>1. Following[m_protoVersion] \subseteq Messages[m_protoVersion]
  BY DEF Following
<1>2. QED
  BY <1>1 DEF Send

\* A message and the length in front of it.
LEMMA FramedFacts ==
  ASSUME NEW s, s \in Seq(Units)
  PROVE  /\ Framed(s) \in Seq(Units) /\ Len(Framed(s)) = 1 + Len(s)
         /\ Framed(s)[1] = Header(Len(s))
         /\ \A j \in 1..Len(s) : Framed(s)[1 + j] = s[j]
<1> DEFINE h == <<Header(Len(s))>>
<1>1. Len(s) \in Nat
  OBVIOUS
<1>2. h \in Seq(Units) /\ Len(h) = 1 /\ h[1] = Header(Len(s))
  BY <1>1, UnitFacts
<1> HIDE DEF h
<1>3. /\ h \o s \in Seq(Units) /\ Len(h \o s) = Len(h) + Len(s)
      /\ \A k \in 1..Len(h) : (h \o s)[k] = h[k]
      /\ \A k \in 1..Len(s) : (h \o s)[Len(h) + k] = s[k]
  BY <1>2, ConcatFacts
<1>4. Framed(s) = h \o s
  BY DEF Framed, h
<1>5. QED
  BY <1>2, <1>3, <1>4

\* The stream grows by what is sent.
LEMMA SentFlow ==
  ASSUME Socket, NEW fr, fr \in Seq(Units), NEW full, full \in Seq(Units), NEW pos,
         Flow(full, pos), m_socket = "open", net' = net \o fr,
         UNCHANGED <<wire, m_buffer, m_socket>>
  PROVE  Flow(full \o fr, pos)'
<1>1. m_buffer \in Seq(Units) /\ wire \in Seq(Units) /\ net \in Seq(Units)
  BY DEF Socket
<1> DEFINE d == m_buffer \o wire
<1>2. d \in Seq(Units)
  BY <1>1, ConcatProperties
<1>3. Stream = d \o net /\ Stream' = d \o (net \o fr)
  BY DEF Stream
<1> HIDE DEF d
<1>4. (d \o net) \o fr = d \o (net \o fr)
  <2>1. d \in Seq(Units) /\ net \in Seq(Units) /\ fr \in Seq(Units)
    BY <1>1, <1>2
  <2>2. QED
    BY ONLY <2>1, ConcatAssociative
<1>5. Stream' = Stream \o fr /\ Stream \in Seq(Units)
  BY <1>1, <1>2, <1>3, <1>4, ConcatProperties
<1>6. PICK s \in Seq(Units) : s = Stream
  BY <1>5
<1>7. /\ Len(s \o fr) = Len(s) + Len(fr) /\ Len(s) \in Nat /\ Len(fr) \in Nat
      /\ \A k \in 1..Len(s) : (s \o fr)[k] = s[k]
      /\ \A k \in 1..Len(fr) : (s \o fr)[Len(s) + k] = fr[k]
  <2>1. s \in Seq(Units) /\ fr \in Seq(Units)
    OBVIOUS
  <2>2. QED
    BY ONLY <2>1, ConcatFacts
<1>8. /\ Len(full \o fr) = Len(full) + Len(fr) /\ Len(full) \in Nat
      /\ \A k \in 1..Len(full) : (full \o fr)[k] = full[k]
      /\ \A k \in 1..Len(fr) : (full \o fr)[Len(full) + k] = fr[k]
  <2>1. full \in Seq(Units) /\ fr \in Seq(Units)
    OBVIOUS
  <2>2. QED
    BY ONLY <2>1, ConcatFacts
<1>9. pos \in Nat /\ pos + Len(s) = Len(full)
  BY <1>6 DEF Flow
<1>10. \A x \in 1..Len(s) : s[x] = full[pos + x]
  BY <1>6 DEF Flow
<1> DEFINE a == s \o fr  b == full \o fr
<1> HIDE DEF a, b
<1>16. /\ Len(s) \in Nat /\ Len(fr) \in Nat /\ Len(full) \in Nat /\ pos \in Nat
       /\ pos + Len(s) = Len(full) /\ Len(a) = Len(s) + Len(fr) /\ Len(b) = Len(full) + Len(fr)
  BY <1>7, <1>8, <1>9 DEF a, b
<1>11. ASSUME NEW x \in 1..Len(a) PROVE a[x] = b[pos + x]
  <2>1. CASE x \in 1..Len(s)
    <3>1. pos + x \in 1..Len(full)
      BY <1>7, <1>8, <1>9, <2>1
    <3>2. QED
      BY <1>7, <1>8, <1>10, <2>1, <3>1 DEF a, b
  <2>2. CASE x \notin 1..Len(s)
    <3>1. x - Len(s) \in 1..Len(fr)
      BY <1>7, <2>2 DEF a
    <3>2. a[Len(s) + (x - Len(s))] = fr[x - Len(s)]
          /\ b[Len(full) + (x - Len(s))] = fr[x - Len(s)]
      BY <1>7, <1>8, <3>1 DEF a, b
    <3>3. Len(s) + (x - Len(s)) = x /\ Len(full) + (x - Len(s)) = pos + x
      <4>1. x \in Nat
        BY <1>16
      <4>2. QED
        BY ONLY <1>16, <4>1
    <3>4. QED
      BY <3>2, <3>3
  <2>3. QED
    BY <2>1, <2>2
<1>12. pos + Len(a) = Len(b) /\ pos + Len(a) <= Len(b)
  BY ONLY <1>16
<1>13. Stream' = a
  BY <1>5, <1>6 DEF a
<1>14. Flow(b, pos)'
  BY <1>9, <1>11, <1>12, <1>13 DEF Flow
<1>15. QED
  BY <1>14 DEF b

\* Where the messages lie when one more of l fields is sent behind the first c.
Further(off, c, l) ==
  [k \in 1..c + 2 |-> IF k <= c + 1 THEN off[k] ELSE off[c + 1] + 1 + l]

LEMMA LaidGrows ==
  ASSUME NEW X, NEW msgs, msgs \in Seq(X), NEW off, NEW full, Laid(msgs, off, full),
         NEW m \in X, m.fields \in Seq(Units),
         \A k \in 1..Len(msgs) : Len(msgs[k].fields) \in Nat
  PROVE  Laid(Append(msgs, m), Further(off, Len(msgs), Len(m.fields)), full \o Framed(m.fields))
<1>1. PICK c \in Nat : c = Len(msgs)
  OBVIOUS
<1>2. PICK l \in Nat : l = Len(m.fields)
  OBVIOUS
<1> DEFINE more == Append(msgs, m)  o == Further(off, c, l)  fr == Framed(m.fields)
<1>3. Len(more) = c + 1 /\ more[c + 1] = m /\ \A k \in 1..c : more[k] = msgs[k]
  BY <1>1
<1>4. /\ off \in [1..c + 1 -> Nat] /\ off[1] = 2
      /\ \A j, k \in 1..c + 1 : j <= k => off[j] <= off[k]
  BY <1>1 DEF Laid
<1>5. full \in Seq(Units) /\ Len(full) = off[c + 1] /\ full[1] = Header(1)
  BY <1>1 DEF Laid
<1>6. off[c + 1] \in Nat /\ off[c + 1] >= 2
  <2>1. 1 \in 1..c + 1 /\ c + 1 \in 1..c + 1 /\ 1 <= c + 1
    OBVIOUS
  <2>2. QED
    BY <1>4, <2>1
<1>7. \A k \in 1..c : /\ off[k + 1] = off[k] + 1 + Len(msgs[k].fields)
                      /\ full[off[k] + 1] = Header(Len(msgs[k].fields))
  BY <1>1 DEF Laid
<1>8. \A k \in 1..c : \A j \in 1..Len(msgs[k].fields) : full[off[k] + 1 + j] = msgs[k].fields[j]
  BY <1>1 DEF Laid
<1>9. /\ fr \in Seq(Units) /\ Len(fr) = 1 + l /\ fr[1] = Header(l)
      /\ \A j \in 1..l : fr[1 + j] = m.fields[j]
  BY <1>2, FramedFacts
<1> HIDE DEF fr
<1> DEFINE b == full \o fr
<1>10. /\ b \in Seq(Units) /\ Len(b) = Len(full) + Len(fr) /\ Len(full) \in Nat
       /\ \A k \in 1..Len(full) : b[k] = full[k]
       /\ \A k \in 1..Len(fr) : b[Len(full) + k] = fr[k]
  <2>1. full \in Seq(Units) /\ fr \in Seq(Units)
    BY <1>5, <1>9
  <2>2. QED
    BY ONLY <2>1, ConcatFacts
<1> HIDE DEF b
<1>11. /\ \A k \in 1..c + 1 : o[k] = off[k]
       /\ o[c + 2] = off[c + 1] + 1 + l
  BY DEF Further
<1>12. o \in [1..(c + 1) + 1 -> Nat] /\ o[1] = 2
  <2>1. 1..(c + 1) + 1 = 1..c + 2
    OBVIOUS
  <2>2. \A k \in 1..c + 1 : off[k] \in Nat
    BY <1>4
  <2>3. off[c + 1] + 1 + l \in Nat
    BY <1>6
  <2>4. o \in [1..c + 2 -> Nat]
    BY <2>2, <2>3 DEF Further
  <2>5. 1 \in 1..c + 1
    OBVIOUS
  <2>6. QED
    BY <1>4, <1>11, <2>1, <2>4, <2>5
<1> HIDE DEF o
<1>13. ASSUME NEW j \in 1..(c + 1) + 1, NEW k \in 1..(c + 1) + 1, j <= k
       PROVE  o[j] <= o[k]
  <2>1. CASE k <= c + 1
    <3>1. j \in 1..c + 1 /\ k \in 1..c + 1
      BY <1>13, <2>1
    <3>2. QED
      BY <1>4, <1>11, <1>13, <3>1
  <2>2. CASE k = c + 2 /\ j <= c + 1
    <3>1. j \in 1..c + 1 /\ c + 1 \in 1..c + 1 /\ j <= c + 1
      BY <2>2
    <3>2. off[j] <= off[c + 1] /\ off[j] \in Nat
      BY <1>4, <3>1
    <3>3. o[j] = off[j] /\ o[k] = off[c + 1] + 1 + l
      BY <1>11, <2>2, <3>1
    <3>4. QED
      BY <1>6, <3>2, <3>3
  <2>3. CASE k = c + 2 /\ j = c + 2
    <3>1. o[j] = o[k] /\ o[k] \in Nat
      BY <1>12, <2>3
    <3>2. QED
      BY <3>1
  <2>4. QED
    BY <1>13, <2>1, <2>2, <2>3
<1>14. Len(b) = o[(c + 1) + 1] /\ b[1] = Header(1)
  <2>1. o[(c + 1) + 1] = off[c + 1] + 1 + l
    BY <1>11
  <2>2. Len(b) = off[c + 1] + (1 + l)
    BY <1>5, <1>9, <1>10
  <2>3. 1 \in 1..Len(full)
    BY <1>5, <1>6
  <2>4. b[1] = Header(1)
    BY <1>5, <1>10, <2>3
  <2>5. off[c + 1] + (1 + l) = off[c + 1] + 1 + l
    <3>1. \A x, y \in Nat : x + (1 + y) = x + 1 + y
      OBVIOUS
    <3>2. off[c + 1] \in Nat /\ l \in Nat
      BY <1>6
    <3>3. QED
      BY ONLY <3>1, <3>2
  <2>6. QED
    BY <2>1, <2>2, <2>4, <2>5
<1>15. ASSUME NEW k \in 1..c + 1
       PROVE  /\ o[k + 1] = o[k] + 1 + Len(more[k].fields)
              /\ b[o[k] + 1] = Header(Len(more[k].fields))
              /\ \A j \in 1..Len(more[k].fields) : b[o[k] + 1 + j] = more[k].fields[j]
  <2>1. CASE k \in 1..c
    <3>1. k \in 1..c + 1 /\ k + 1 \in 1..c + 1
      BY <2>1
    <3>2. more[k] = msgs[k] /\ o[k] = off[k] /\ o[k + 1] = off[k + 1]
      BY <1>3, <1>11, <2>1, <3>1
    <3>3. PICK h \in Nat : h = Len(msgs[k].fields)
      BY <1>1, <2>1
    <3>4. off[k + 1] = off[k] + 1 + h /\ full[off[k] + 1] = Header(h)
      BY <1>7, <2>1, <3>3
    <3>5. off[k] \in Nat /\ off[k + 1] <= Len(full)
      <4>1. c + 1 \in 1..c + 1 /\ k + 1 <= c + 1
        BY <2>1
      <4>2. QED
        BY <1>4, <1>5, <3>1, <4>1
    <3>6. off[k] + 1 \in 1..Len(full)
      <4>1. PICK q \in Nat : q = off[k]
        BY <3>5
      <4>2. q + 1 + h <= Len(full) /\ h \in Nat /\ Len(full) \in Nat
        BY <1>10, <3>4, <3>5, <4>1
      <4>3. q + 1 \in 1..Len(full)
        BY ONLY q \in Nat, <4>2
      <4>4. QED
        BY <4>1, <4>3
    <3>7. ASSUME NEW j \in 1..h PROVE b[off[k] + 1 + j] = msgs[k].fields[j]
      <4>1. off[k] + 1 + j \in 1..Len(full)
        BY <1>10, <3>4, <3>5
      <4>2. b[off[k] + 1 + j] = full[off[k] + 1 + j]
        BY <1>10, <4>1
      <4>3. full[off[k] + 1 + j] = msgs[k].fields[j]
        BY <1>8, <2>1, <3>3
      <4>4. QED
        BY <4>2, <4>3
    <3>8. b[off[k] + 1] = Header(h)
      BY <1>10, <3>4, <3>6
    <3>9. QED
      BY <3>2, <3>3, <3>4, <3>7, <3>8
  <2>2. CASE k = c + 1
    <3>1. more[k] = m /\ Len(more[k].fields) = l
      BY <1>2, <1>3, <2>2
    <3>2. c + 1 \in 1..c + 1 /\ (c + 1) + 1 = c + 2
      OBVIOUS
    <3>3. o[k] = Len(full) /\ o[k + 1] = off[c + 1] + 1 + l
      BY <1>5, <1>11, <2>2, <3>2
    <3>4. b[Len(full) + 1] = Header(l)
      <4>1. 1 \in 1..Len(fr)
        BY <1>9
      <4>2. QED
        BY <1>9, <1>10, <4>1
    <3>5. ASSUME NEW j \in 1..l PROVE b[Len(full) + 1 + j] = m.fields[j]
      <4>1. 1 + j \in 1..Len(fr) /\ Len(full) + (1 + j) = Len(full) + 1 + j
        BY <1>9, <1>10
      <4>2. QED
        BY <1>9, <1>10, <4>1
    <3>6. QED
      BY <1>5, <3>1, <3>3, <3>4, <3>5
  <2>3. k \in 1..c \/ k = c + 1
    OBVIOUS
  <2> HIDE DEF more
  <2>4. QED
    BY <2>1, <2>2, <2>3
<1>16. Laid(more, o, b)
  <2>1. /\ o \in [1..Len(more) + 1 -> Nat] /\ o[1] = 2
        /\ \A j, k \in 1..Len(more) + 1 : j <= k => o[j] <= o[k]
    BY <1>3, <1>12, <1>13
  <2>2. b \in Seq(Units) /\ Len(b) = o[Len(more) + 1] /\ b[1] = Header(1)
    BY <1>3, <1>10, <1>14
  <2>3. \A k \in 1..Len(more) :
              /\ o[k + 1] = o[k] + 1 + Len(more[k].fields)
              /\ b[o[k] + 1] = Header(Len(more[k].fields))
              /\ \A j \in 1..Len(more[k].fields) : b[o[k] + 1 + j] = more[k].fields[j]
    BY <1>3, <1>15
  <2> HIDE DEF more
  <2>4. QED
    BY <2>1, <2>2, <2>3 DEF Laid
<1>17. QED
  BY <1>1, <1>2, <1>16 DEF o, b, fr

LEMMA SendKeeps ==
  ASSUME IInv, Send
  PROVE  IInv'
<1>1. /\ Connection /\ Quiet /\ Socket /\ m_socket = "open" /\ Spend("send")
      /\ task.pc \notin {"closed", "connect", "announce", "lost"}
      /\ UNCHANGED <<wire, m_buffer, m_socket, proto, task, got>>
  BY DEF IInv, Send, Announced
<1>2. PICK v \in Versions : v = m_protoVersion /\ m_protoVersion' = v
  BY <1>1 DEF Quiet, proto
<1>3. PICK m \in Messages[v] :
           /\ net' = net \o Framed(m.fields)
           /\ sent' = Append(sent, [event |-> m.event, level |-> m.level, signal |-> m.signal])
  BY <1>2, SentMessages
<1>4. m.fields \in Seq(Units) /\ Framed(m.fields) \in Seq(Units)
  BY FieldsUnits, FramedFacts
<1>5. budget' \in [send : Nat, fault : Nat] /\ budget'.send + 1 = budget.send
  BY <1>1, SpendFacts
<1>6. Connection' /\ Quiet'
  BY <1>1, <1>2, <1>5 DEF Connection, Quiet, proto
<1>7. Socket'
  BY <1>1, <1>3, <1>4, ConcatProperties DEF Socket
<1>8. PICK msgs : Story(msgs) /\ Result(msgs) /\ Followed(msgs)
  BY DEF IInv
<1> DEFINE more == Append(msgs, m)
<1>9. msgs \in Seq(Messages[v]) /\ Len(msgs) \in Nat
  BY <1>2, <1>8 DEF Story
<1>10. /\ more \in Seq(Messages[v]) /\ Len(more) = Len(msgs) + 1 /\ more[Len(msgs) + 1] = m
       /\ \A k \in 1..Len(msgs) : more[k] = msgs[k]
  BY <1>9
<1>11. Story(more)'
  <2> DEFINE e == [event |-> m.event, level |-> m.level, signal |-> m.signal]
  <2>1. /\ sent \in Seq(Range(sent)) /\ Len(sent) = Len(msgs)
        /\ Len(sent) + budget.send <= MaxSent
    BY <1>8 DEF Story
  <2>2. \A k \in 1..Len(msgs) :
          sent[k] = [event |-> msgs[k].event, level |-> msgs[k].level, signal |-> msgs[k].signal]
    BY <1>8 DEF Story
  <2>3. PICK s : s = sent /\ s \in Seq(Range(s))
    BY <2>1
  <2>4. PICK t : t = sent' /\ t = Append(s, e)
    BY <1>3, <2>3
  <2> HIDE DEF e
  <2>5. Len(t) = Len(s) + 1 /\ t[Len(s) + 1] = e /\ \A k \in 1..Len(s) : t[k] = s[k]
    BY <2>3, <2>4
  <2>6. t \in Seq(Range(t))
    <3>1. t \in Seq(Range(s) \cup {e})
      <4>1. s \in Seq(Range(s) \cup {e})
        <5>1. s \in [1..Len(s) -> Range(s)] /\ Len(s) \in Nat
          BY <2>3
        <5>2. s \in [1..Len(s) -> Range(s) \cup {e}]
          BY <5>1
        <5>3. QED
          BY <5>1, <5>2
      <4>2. QED
        BY <2>4, <4>1
    <3>2. t = [k \in 1..Len(t) |-> t[k]] /\ Len(t) \in Nat /\ DOMAIN t = 1..Len(t)
      BY <3>1
    <3>3. t \in [1..Len(t) -> Range(t)]
      BY <3>2 DEF Range
    <3>4. QED
      BY <3>2, <3>3
  <2>7. Len(t) = Len(more) /\ Len(t) + budget'.send <= MaxSent
    <3>1. budget'.send \in Nat /\ MaxSent \in Nat
      BY <1>5, ProtoEventAssumption
    <3>2. QED
      BY <1>5, <1>9, <1>10, <2>1, <2>3, <2>5, <3>1
  <2>8. ASSUME NEW k \in 1..Len(more)
        PROVE  t[k] = [event |-> more[k].event, level |-> more[k].level, signal |-> more[k].signal]
    <3>1. CASE k \in 1..Len(msgs)
      BY <1>10, <2>1, <2>2, <2>3, <2>5, <3>1
    <3>2. CASE k = Len(msgs) + 1
      BY <1>10, <2>1, <2>3, <2>5, <3>2 DEF e
    <3>3. QED
      BY <1>9, <1>10, <3>1, <3>2
  <2> HIDE DEF more
  <2>9. QED
    BY <1>2, <1>10, <2>4, <2>6, <2>7, <2>8 DEF Story
<1>12. Result(more)'
  <2>1. got.n \in 0..Len(msgs) /\ (got.n > 0 => Right(msgs[got.n], got.last))
    BY <1>8 DEF Result
  <2>2. got' = got /\ got.n \in 0..Len(more) /\ (got.n > 0 => more[got.n] = msgs[got.n])
    BY <1>1, <1>9, <1>10, <2>1
  <2> HIDE DEF more
  <2>3. QED
    BY <1>2, <2>1, <2>2 DEF Result, Right
<1>13. Followed(more)'
  <2>1. SUFFICES ASSUME task.pc \in Reading PROVE Followed(more)'
    BY <1>1 DEF Followed
  <2>2. PICK off, full, pos :
          Laid(msgs, off, full) /\ Flow(full, pos) /\ Progress(msgs, off, pos)
    BY <1>8, <2>1 DEF Followed
  <2> DEFINE o == Further(off, Len(msgs), Len(m.fields))  b == full \o Framed(m.fields)
  <2>3. Laid(more, o, b)
    <3>1. \A k \in 1..Len(msgs) : Len(msgs[k].fields) \in Nat
      BY <1>9, FieldsUnits
    <3>2. QED
      BY <1>4, <1>9, <2>2, <3>1, LaidGrows
  <2>4. Flow(b, pos)'
    <3>1. full \in Seq(Units)
      BY <2>2 DEF Laid
    <3>2. QED
      BY <1>1, <1>3, <1>4, <2>2, <3>1, SentFlow
  <2>5. \A k \in 1..Len(msgs) + 1 : o[k] = off[k]
    BY <1>9 DEF Further
  <2> HIDE DEF o, b, more
  <2>6. Laid(more, o, b)'
    BY <2>3 DEF Laid
  <2>7. PICK c : c = got.n /\ c \in 0..Len(msgs)
    BY <1>8 DEF Result
  <2>8. /\ c + 1 \in 1..Len(msgs) + 1 /\ o[c + 1] = off[c + 1]
        /\ c < Len(msgs) => /\ o[c + 2] = off[c + 2] /\ more[c + 1] = msgs[c + 1]
                            /\ c < Len(more)
    <3>1. c + 1 \in 1..Len(msgs) + 1
      BY <1>9, <2>7
    <3>2. c < Len(msgs) =>
            c + 2 \in 1..Len(msgs) + 1 /\ c + 1 \in 1..Len(msgs) /\ c < Len(more)
      BY <1>9, <1>10, <2>7
    <3>3. QED
      BY <1>10, <2>5, <3>1, <3>2
  <2>9. Progress(more, o, pos)'
    <3>1. UNCHANGED <<task, got, m_msgLength, m_protoVersion>> /\ got'.n = c
      BY <1>1, <2>7 DEF proto
    <3>2. CASE task.pc \notin InMessage
      BY <2>2, <2>7, <2>8, <3>1, <3>2 DEF Progress
    <3>3. CASE task.pc \in InMessage
      <4>1. /\ c < Len(msgs) /\ off[c + 1] + 1 <= pos
            /\ pos + m_msgLength = off[c + 2]
            /\ Decoded(msgs[c + 1], pos - off[c + 1] - 1)
        BY <2>2, <2>7, <3>3 DEF Progress
      <4>2. Decoded(msgs[c + 1], pos - off[c + 1] - 1)'
        BY <3>1, <4>1 DEF Decoded, Right
      <4>3. /\ got'.n < Len(more) /\ o[got'.n + 1] + 1 <= pos
            /\ pos + m_msgLength' = o[got'.n + 2]
            /\ Decoded(more[got.n + 1], pos - o[got.n + 1] - 1)'
        BY <2>8, <3>1, <4>1, <4>2
      <4>4. task'.pc \notin {"answer", "ok", "idle", "length"}
        BY <3>1, <3>3 DEF InMessage
      <4>5. QED
        BY <4>3, <4>4 DEF Progress
    <3>4. QED
      BY <3>2, <3>3
  <2>10. QED
    BY <2>4, <2>6, <2>9 DEF Followed
<1>14. QED
  BY <1>6, <1>7, <1>11, <1>12, <1>13 DEF IInv

----------------------------------------------------------------------------
(***************************************************************************)
(* Theorems                                                                *)
(***************************************************************************)
LEMMA StutterKeeps ==
  ASSUME IInv, UNCHANGED vars
  PROVE  IInv'
<1>1. UNCHANGED <<net, wire, m_buffer, m_socket, m_isOpen, m_hang, m_protoVersion, m_msgLength,
                  task, sent, got, budget>>
  BY DEF vars, socket, proto
<1>2. Socket' /\ Connection' /\ Quiet' /\ Stream' = Stream
  BY <1>1 DEF IInv, Socket, Connection, Quiet, Stream
<1>3. PICK msgs : Story(msgs) /\ Result(msgs) /\ Followed(msgs)
  BY DEF IInv
<1>4. Story(msgs)' /\ Result(msgs)'
  BY <1>1, <1>3, StoryKept, ResultKept
<1>5. ASSUME NEW off, NEW full, NEW pos, Flow(full, pos), Progress(msgs, off, pos),
             Laid(msgs, off, full)
      PROVE  Flow(full, pos)' /\ Progress(msgs, off, pos)' /\ Laid(msgs, off, full)'
  BY <1>1, <1>2, <1>5 DEF Flow, Progress, Decoded, Right, Laid
<1>6. Followed(msgs)'
  BY <1>1, <1>3, <1>5 DEF Followed
<1>7. QED
  BY <1>2, <1>4, <1>6 DEF IInv

\* Every state of the connection keeps what is left of the stream in step with what
\* the backend has sent, and the message in progress with the fields that were read
\* (ReceiveData in socket.cpp, RcvMessageLength, ReadField and FlushMessage in
\* mythprotobase.cpp, RcvBackendMessage in mythprotoevent.cpp).
THEOREM InductiveInvariant == Spec => []IInv
<1>1. Init => IInv
  BY InitHolds
<1>2. IInv /\ [Next]_vars => IInv'
  <2>1. SUFFICES ASSUME IInv, [Next]_vars PROVE IInv'
    OBVIOUS
  <2>2. CASE Open \/ Connect
    BY <2>1, <2>2, OpenKeeps
  <2>3. CASE ConnectAddr
    BY <2>1, <2>3, ConnectAddrKeeps
  <2>4. CASE Announce75
    BY <2>1, <2>4, Announce75Keeps
  <2>5. CASE Refused \/ Close \/ CloseLost
    BY <2>1, <2>5, CloseKeeps DEF Refused, Close, CloseLost
  <2>6. CASE Listen
    BY <2>1, <2>6, ListenKeeps
  <2>7. CASE ReceiveFails
    <3>1. task.pc \notin {"closed", "connect"} /\ Hang /\ (budget' = budget \/ Spend("fault"))
      BY <2>7 DEF ReceiveFails, Waiting
    <3>2. QED
      BY <2>1, <3>1, HangKeeps
  <2>8. CASE RcvMessageLength
    BY <2>1, <2>8, RcvMessageLengthKeeps
  <2>9. CASE IsMessageOK
    BY <2>1, <2>9, IsMessageOKKeeps
  <2>10. CASE ReadHead
    BY <2>1, <2>10, ReadHeadKeeps
  <2>11. CASE ReadSubject
    BY <2>1, <2>11, ReadSubjectKeeps
  <2>12. CASE ReadProgram
    <3>1. m_msgLength \in Nat
      BY <2>1 DEF IInv, Connection
    <3>2. CASE m_msgLength > 0
      BY <2>1, <2>12, <3>2, ReadProgramKeeps
    <3>3. CASE m_msgLength = 0
      <4>1. task.pc = "program" /\ NoProgram /\ UNCHANGED <<socket, proto, sent, got, budget>>
        <5>1. ~(m_msgLength > 0)
          BY <3>3
        <5>2. QED
          BY <2>12, <5>1, Zenon DEF ReadProgram
      <4>2. QED
        BY <2>1, <3>3, <4>1, ReadProgramEnds
    <3>4. QED
      BY <3>1, <3>2, <3>3
  <2>13. CASE RcvSignalStatus
    BY <2>1, <2>13, RcvSignalStatusKeeps
  <2>14. CASE FlushMessage
    BY <2>1, <2>14, FlushMessageKeeps
  <2>15. CASE Return
    BY <2>1, <2>15, ReturnKeeps
  <2>16. CASE Send
    BY <2>1, <2>16, SendKeeps
  <2>17. CASE Deliver
    BY <2>1, <2>17, DeliverKeeps
  <2>18. CASE BackendCloses
    BY <2>1, <2>18, BackendClosesKeeps
  <2>19. CASE UNCHANGED vars
    BY <2>1, <2>19, StutterKeeps
  <2>20. QED
    BY <2>1, <2>2, <2>3, <2>4, <2>5, <2>6, <2>7, <2>8, <2>9, <2>10, <2>11, <2>12, <2>13, <2>14,
       <2>15, <2>16, <2>17, <2>18, <2>19 DEF Next
<1>3. QED
  BY <1>1, <1>2, PTL DEF Spec

\* The invariants that the run of this module checks.
LEMMA InvariantMeans ==
  ASSUME IInv
  PROVE  TypeOK /\ EventsInOrder /\ ProgramDecoded
<1>1. PICK msgs : Story(msgs) /\ Result(msgs) /\ Followed(msgs)
  BY DEF IInv
<1>2. /\ msgs \in Seq(Messages[m_protoVersion]) /\ Len(sent) = Len(msgs) /\ Len(msgs) \in Nat
      /\ Len(sent) + budget.send <= MaxSent
  BY <1>1 DEF Story
<1>3. \A k \in 1..Len(msgs) :
        sent[k] = [event |-> msgs[k].event, level |-> msgs[k].level, signal |-> msgs[k].signal]
  BY <1>1 DEF Story
<1>4. got.n \in 0..Len(msgs) /\ got.n \in Nat /\ got.n <= Len(msgs)
  BY <1>1, <1>2 DEF Result
<1>5. got.n > 0 => /\ sent[got.n].event = msgs[got.n].event
                   /\ sent[got.n].signal = msgs[got.n].signal
                   /\ sent[got.n].level = msgs[got.n].level
                   /\ Right(msgs[got.n], got.last)
  <2>1. SUFFICES ASSUME got.n > 0
                 PROVE  /\ sent[got.n].event = msgs[got.n].event
                        /\ sent[got.n].signal = msgs[got.n].signal
                        /\ sent[got.n].level = msgs[got.n].level
    BY <1>1 DEF Result
  <2>2. got.n \in 1..Len(msgs)
    BY <1>2, <1>4, <2>1
  <2>3. PICK n \in 1..Len(msgs) : n = got.n
    BY <2>2
  <2>4. sent[n] = [event |-> msgs[n].event, level |-> msgs[n].level, signal |-> msgs[n].signal]
    BY <1>3
  <2>5. /\ sent[n].event = msgs[n].event /\ sent[n].signal = msgs[n].signal
        /\ sent[n].level = msgs[n].level
    BY ONLY <2>4
  <2>6. QED
    BY <2>3, <2>5
<1>6. EventsInOrder
  BY <1>2, <1>4, <1>5 DEF EventsInOrder, Right
<1>7. ProgramDecoded
  BY <1>2, <1>5 DEF ProgramDecoded, Right
<1>8. m_socket = "open" => m_msgLength <= Len((m_buffer \o wire) \o net)
  <2>1. SUFFICES ASSUME m_socket = "open" PROVE m_msgLength <= Len(Stream)
    BY DEF Stream
  <2>2. Len(Stream) \in Nat /\ m_msgLength \in Nat
    <3>1. m_buffer \in Seq(Units) /\ wire \in Seq(Units) /\ net \in Seq(Units)
      BY DEF IInv, Socket
    <3>2. Stream \in Seq(Units)
      BY ONLY <3>1, StreamFacts DEF Stream
    <3>3. QED
      BY <3>2 DEF IInv, Connection
  <2>3. CASE task.pc \notin {"ok"} \cup InMessage
    BY <2>2, <2>3 DEF IInv, Quiet
  <2>4. CASE task.pc \in {"ok"} \cup InMessage
    <3>1. PICK off, full, pos :
            Laid(msgs, off, full) /\ Flow(full, pos) /\ Progress(msgs, off, pos)
      BY <1>1, <2>4 DEF Followed, Reading
    <3>2. pos \in Nat /\ pos + Len(Stream) = Len(full)
      BY <2>1, <3>1 DEF Flow
    <3>3. /\ off \in [1..Len(msgs) + 1 -> Nat] /\ off[1] = 2 /\ Len(full) = off[Len(msgs) + 1]
          /\ \A j, k \in 1..Len(msgs) + 1 : j <= k => off[j] <= off[k]
      BY <3>1 DEF Laid
    <3>4. Len(msgs) + 1 \in 1..Len(msgs) + 1 /\ 1 \in 1..Len(msgs) + 1
      BY <1>2
    <3>5. \A j \in 1..Len(msgs) + 1 : off[j] <= Len(full)
      <4>1. \A j \in 1..Len(msgs) + 1 : j <= Len(msgs) + 1
        BY <1>2
      <4>2. QED
        BY <3>3, <3>4, <4>1
    <3>6. CASE task.pc = "ok"
      <4>1. pos = 1 /\ m_msgLength = 1 /\ 2 <= Len(full)
        BY <3>1, <3>3, <3>4, <3>5, <3>6 DEF Progress
      <4>2. QED
        BY <2>2, <3>2, <4>1
    <3>7. CASE task.pc \in InMessage
      <4>1. got.n < Len(msgs) /\ pos + m_msgLength = off[got.n + 2]
        BY <3>1, <3>7 DEF Progress
      <4>2. got.n + 2 \in 1..Len(msgs) + 1
        BY <1>2, <1>4, <4>1
      <4>3. pos + m_msgLength <= pos + Len(Stream)
        BY <3>2, <3>5, <4>1, <4>2
      <4>4. QED
        BY <2>2, <3>2, <4>3
    <3>8. QED
      BY <2>4, <3>6, <3>7
  <2>5. QED
    BY <2>3, <2>4
<1>9. got.n <= MaxSent
  <2>1. budget.send \in Nat /\ MaxSent \in Nat
    BY ProtoEventAssumption DEF IInv, Connection
  <2>2. QED
    BY <1>2, <1>4, <2>1
<1>10. TypeOK
  BY <1>8, <1>9 DEF TypeOK, IInv, Socket, Connection
<1>11. QED
  BY <1>6, <1>7, <1>10

\* The buffer of the socket never holds more than its length, and a message in
\* progress never claims more fields than are on their way (socket.cpp:394).
THEOREM TypeCorrect == Spec => []TypeOK
BY InductiveInvariant, InvariantMeans, PTL

\* The messages that RcvBackendMessage returns are those the backend sent, in this
\* order, each with its event and signal, however the network cuts the stream
\* (mythprotoevent.cpp:190).
THEOREM EventsAlwaysInOrder == Spec => []EventsInOrder
BY InductiveInvariant, InvariantMeans, PTL

\* A program that comes with an event is the one that was sent, field by field, in
\* every version of the protocol (mythprotobase.cpp:419 to 1627).
THEOREM ProgramAlwaysDecoded == Spec => []ProgramDecoded
BY InductiveInvariant, InvariantMeans, PTL

=============================================================================
