--------------------------- MODULE FileSinkProofs ---------------------------
(***************************************************************************)
(* Rotation loses only the oldest entries and keeps the rest in order, for *)
(* any rotation size and numbers of backups, whatever fails and wherever a *)
(* process dies.                                                           *)
(***************************************************************************)
EXTENDS FileSink, SequenceTheorems, FiniteSetTheorems, TLAPS

(* Files, what is buffered and what has reached a file, as they belong     *)
(* together: everything ascends, from the largest suffix to the buffer.    *)
Core(d, b, r) ==
  /\ d \in [Index -> Seq(Nat)]
  /\ b \in Seq(Nat)
  /\ r \subseteq Nat
  /\ Ascending(b)
  /\ \A n \in Index : Ascending(d[n]) /\ Elements(d[n]) \subseteq r
  /\ \A m, n \in Index : m > n => Before(d[m], d[n])
  /\ \A x \in r, y \in Elements(b) : x < y

Held(d, x) == \E n \in Index : x \in Elements(d[n])

(* What is gone is older than what is held. *)
OldestGone(d, r) ==
  \A x \in r, y \in Nat : ~Held(d, x) /\ Held(d, y) => x < y

(* The suffixes, and the loop variable of Rotate outside its loop. *)
LEMMA IndexFacts ==
  Index \subseteq Nat /\ 0 \in Index /\ 1 \in Index /\ 0 \in -1..(MaxIndex - 1)
BY ConstantsAssumption DEF Index

(* A function changed in two places. *)
LEMMA TwoUpdates ==
  ASSUME NEW S, NEW T, NEW g \in [S -> T], NEW a \in S, NEW b \in S, a # b, NEW u \in T, NEW v \in T
  PROVE  LET h == [g EXCEPT ![a] = u, ![b] = v]
         IN  h \in [S -> T] /\ h[a] = u /\ h[b] = v /\ \A n \in S \ {a, b} : h[n] = g[n]
OBVIOUS

(* The empty file. *)
LEMMA ElementsOfEmpty == Elements(<<>>) = {} /\ Ascending(<<>>) /\ <<>> \in Seq(Nat)
BY DEF Elements, Ascending

(* Entries are numbers. *)
LEMMA ElementsInNat ==
  ASSUME NEW s \in Seq(Nat)
  PROVE  Elements(s) \subseteq Nat
<1>1. \A k \in DOMAIN s : s[k] \in Nat
  BY ElementOfSeq, LenProperties
<1> QED
  BY <1>1 DEF Elements

(* An entry of a concatenation is one of either part. *)
LEMMA ConcatAscends ==
  ASSUME NEW s \in Seq(Nat), NEW t \in Seq(Nat), Ascending(s), Ascending(t), Before(s, t)
  PROVE  /\ s \o t \in Seq(Nat)
         /\ Elements(s \o t) = Elements(s) \cup Elements(t)
         /\ Ascending(s \o t)
<1> DEFINE m == Len(s)
           n == Len(t)
           c == s \o t
<1>1. /\ c \in Seq(Nat) /\ Len(c) = m + n /\ m \in Nat /\ n \in Nat
      /\ \A k \in 1..(m + n) : c[k] = IF k <= m THEN s[k] ELSE t[k - m]
  BY ConcatProperties
<1>2. DOMAIN c = 1..(m + n) /\ DOMAIN s = 1..m /\ DOMAIN t = 1..n
  BY <1>1, LenProperties
<1> HIDE DEF c, m, n
<1>3. \A k \in 1..m : k \in 1..(m + n) /\ c[k] = s[k]
  BY <1>1
<1>4. \A k \in 1..n : m + k \in 1..(m + n) /\ c[m + k] = t[k]
  <2>1. ASSUME NEW k \in 1..n PROVE m + k \in 1..(m + n) /\ ~(m + k <= m) /\ (m + k) - m = k
    BY <1>1
  <2> QED
    BY <1>1, <2>1
<1>5. \A k \in 1..(m + n) : k \in 1..m \/ k - m \in 1..n
  BY <1>1
<1>6. \A k \in 1..(m + n) : k \notin 1..m => k - m \in 1..n /\ c[k] = t[k - m]
  BY <1>1, <1>5
<1>7. Elements(c) = Elements(s) \cup Elements(t)
  <2>1. ASSUME NEW x \in Elements(c) PROVE x \in Elements(s) \cup Elements(t)
    <3>1. PICK k \in 1..(m + n) : x = c[k]
      BY <1>2, <2>1 DEF Elements
    <3>2. CASE k \in 1..m
      BY <1>2, <1>3, <3>1, <3>2 DEF Elements
    <3>3. CASE k \notin 1..m
      BY <1>2, <1>6, <3>1, <3>3 DEF Elements
    <3> QED
      BY <3>2, <3>3
  <2>2. ASSUME NEW x \in Elements(s) PROVE x \in Elements(c)
    BY <1>2, <1>3, <2>2 DEF Elements
  <2>3. ASSUME NEW x \in Elements(t) PROVE x \in Elements(c)
    <3>1. PICK k \in 1..n : x = t[k]
      BY <1>2, <2>3 DEF Elements
    <3>2. m + k \in DOMAIN c /\ c[m + k] = x
      BY <1>2, <1>4, <3>1
    <3> QED
      BY <3>2 DEF Elements
  <2> QED
    BY <2>1, <2>2, <2>3
<1>8. ASSUME NEW j \in 1..(m + n), NEW k \in 1..(m + n), j < k PROVE c[j] < c[k]
  <2>1. CASE k \in 1..m
    <3>1. j \in 1..m
      BY <1>1, <1>8, <2>1
    <3> QED
      BY <1>2, <1>3, <1>8, <2>1, <3>1 DEF Ascending
  <2>2. CASE k \notin 1..m /\ j \in 1..m
    <3>1. c[k] = t[k - m] /\ k - m \in 1..n /\ c[j] = s[j]
      BY <1>3, <1>6, <2>2
    <3>2. c[k] \in Elements(t) /\ c[j] \in Elements(s)
      BY <1>2, <2>2, <3>1 DEF Elements
    <3> QED
      BY <3>2 DEF Before
  <2>3. CASE k \notin 1..m /\ j \notin 1..m
    <3>1. /\ c[k] = t[k - m] /\ k - m \in 1..n
          /\ c[j] = t[j - m] /\ j - m \in 1..n
      BY <1>6, <2>3
    <3>2. j - m < k - m
      BY <1>1, <1>8
    <3> QED
      BY <1>2, <3>1, <3>2 DEF Ascending
  <2> QED
    BY <2>1, <2>2, <2>3
<1>9. Ascending(c)
  BY <1>2, <1>8 DEF Ascending
<1> QED
  BY <1>1, <1>7, <1>9 DEF c

(* A buffer cut in two: what is written out and what is not. *)
LEMMA CutAscends ==
  ASSUME NEW s \in Seq(Nat), Ascending(s), NEW k \in 0..Len(s)
  PROVE  LET a == SubSeq(s, 1, k)
             b == SubSeq(s, k + 1, Len(s))
         IN  /\ a \in Seq(Nat) /\ b \in Seq(Nat)
             /\ Ascending(a) /\ Ascending(b) /\ Before(a, b)
             /\ Elements(a) \subseteq Elements(s) /\ Elements(b) \subseteq Elements(s)
             /\ Elements(a) \cup Elements(b) = Elements(s)
<1> DEFINE n == Len(s)
           a == SubSeq(s, 1, k)
           b == SubSeq(s, k + 1, n)
<1>1. n \in Nat /\ k \in Nat /\ k <= n /\ DOMAIN s = 1..n
  BY LenProperties
<1> HIDE DEF n
<1>2. \A j \in 1..n : s[j] \in Nat
  BY ElementOfSeq DEF n
<1>3. (\A j \in 1..k : s[j] \in Nat) /\ (\A j \in (k + 1)..n : s[j] \in Nat)
  BY <1>1, <1>2
<1>4. /\ a \in Seq(Nat) /\ Len(a) = (IF 1 <= k THEN k - 1 + 1 ELSE 0)
      /\ \A j \in 1..(k - 1 + 1) : a[j] = s[1 + j - 1]
  BY <1>1, <1>3, SubSeqProperties
<1>5. /\ b \in Seq(Nat) /\ Len(b) = (IF k + 1 <= n THEN n - (k + 1) + 1 ELSE 0)
      /\ \A j \in 1..(n - (k + 1) + 1) : b[j] = s[(k + 1) + j - 1]
  BY <1>1, <1>3, SubSeqProperties
<1> HIDE DEF a, b
<1>6. Len(a) = k /\ Len(b) = n - k
  BY <1>1, <1>4, <1>5
<1>7. DOMAIN a = 1..k /\ DOMAIN b = 1..(n - k)
  BY <1>4, <1>5, <1>6, LenProperties
<1>8. \A j \in 1..k : j \in 1..n /\ a[j] = s[j]
  <2>1. ASSUME NEW j \in 1..k PROVE j \in 1..n /\ j \in 1..(k - 1 + 1) /\ 1 + j - 1 = j
    BY <1>1
  <2> QED
    BY <1>4, <2>1
<1>9. \A j \in 1..(n - k) : k + j \in 1..n /\ b[j] = s[k + j]
  <2>1. ASSUME NEW j \in 1..(n - k)
        PROVE  k + j \in 1..n /\ j \in 1..(n - (k + 1) + 1) /\ (k + 1) + j - 1 = k + j
    BY <1>1
  <2> QED
    BY <1>5, <2>1
<1>10. Ascending(a)
  BY <1>1, <1>7, <1>8 DEF Ascending
<1>11. Ascending(b)
  <2>1. ASSUME NEW j \in 1..(n - k), NEW l \in 1..(n - k), j < l PROVE b[j] < b[l]
    <3>1. k + j < k + l
      BY <1>1, <2>1
    <3> QED
      BY <1>1, <1>9, <3>1 DEF Ascending
  <2> QED
    BY <1>7, <2>1 DEF Ascending
<1>12. Before(a, b)
  <2>1. ASSUME NEW j \in 1..k, NEW l \in 1..(n - k) PROVE a[j] < b[l]
    <3>1. j < k + l
      BY <1>1
    <3> QED
      BY <1>1, <1>8, <1>9, <3>1 DEF Ascending
  <2> QED
    BY <1>7, <2>1 DEF Before, Elements
<1>13. Elements(a) \subseteq Elements(s)
  BY <1>1, <1>7, <1>8 DEF Elements
<1>14. Elements(b) \subseteq Elements(s)
  BY <1>1, <1>7, <1>9 DEF Elements
<1>15. ASSUME NEW x \in Elements(s) PROVE x \in Elements(a) \cup Elements(b)
  <2>1. PICK j \in 1..n : x = s[j]
    BY <1>1, <1>15 DEF Elements
  <2>2. CASE j <= k
    <3>1. j \in 1..k
      BY <1>1, <2>2
    <3> QED
      BY <1>7, <1>8, <2>1, <3>1 DEF Elements
  <2>3. CASE ~(j <= k)
    <3>1. j - k \in 1..(n - k) /\ k + (j - k) = j
      BY <1>1, <2>3
    <3> QED
      BY <1>7, <1>9, <2>1, <3>1 DEF Elements
  <2> QED
    BY <2>2, <2>3
<1>16. Elements(a) \cup Elements(b) = Elements(s)
  BY <1>13, <1>14, <1>15
<1> QED
  BY <1>4, <1>5, <1>10, <1>11, <1>12, <1>13, <1>14, <1>16 DEF a, b, n
----------------------------------------------------------------------------
(* A new entry is newer than everything else. *)
LEMMA AppendKeeps ==
  ASSUME NEW d, NEW b, NEW r, Core(d, b, r), NEW e \in Nat,
         r \cup Elements(b) \subseteq 1..e
  PROVE  /\ Core(d, Append(b, e + 1), r)
         /\ Elements(Append(b, e + 1)) = Elements(b) \cup {e + 1}
         /\ r \cup Elements(Append(b, e + 1)) \subseteq 1..(e + 1)
<1> DEFINE t == <<e + 1>>
<1>1. b \in Seq(Nat) /\ Ascending(b) /\ r \subseteq Nat
  BY DEF Core
<1>2. t \in Seq(Nat) /\ Elements(t) = {e + 1} /\ Ascending(t)
  BY DEF Elements, Ascending
<1>3. Append(b, e + 1) = b \o t
  BY <1>1, AppendIsConcat
<1> HIDE DEF t
<1>4. Elements(b) \subseteq Nat
  BY <1>1, ElementsInNat
<1>5. Before(b, t)
  BY <1>2, <1>4 DEF Before
<1>6. /\ b \o t \in Seq(Nat) /\ Ascending(b \o t)
      /\ Elements(b \o t) = Elements(b) \cup {e + 1}
  BY <1>1, <1>2, <1>5, ConcatAscends
<1> DEFINE c == b \o t
<1>7. c \in Seq(Nat) /\ Ascending(c) /\ Elements(c) = Elements(b) \cup {e + 1}
  BY <1>6
<1> HIDE DEF c
<1>8. \A x \in r, y \in Elements(c) : x < y
  BY <1>1, <1>7 DEF Core
<1>9. Core(d, c, r)
  BY <1>7, <1>8 DEF Core
<1>10. r \cup Elements(c) \subseteq 1..(e + 1)
  BY <1>7
<1> QED
  BY <1>3, <1>7, <1>9, <1>10 DEF c

(* Writing out buffered entries. *)
LEMMA PutKeeps ==
  ASSUME NEW d, NEW s, NEW r, Core(d, s, r), NEW k \in 0..Len(s)
  PROVE  LET d2 == [d EXCEPT ![0] = @ \o SubSeq(s, 1, k)]
             r2 == r \cup Elements(SubSeq(s, 1, k))
             b2 == SubSeq(s, k + 1, Len(s))
         IN  /\ Core(d2, b2, r2)
             /\ OldestGone(d, r) => OldestGone(d2, r2)
             /\ \A n \in Index \ {0} : d2[n] = d[n]
             /\ r2 \subseteq r \cup Elements(s)
             /\ Elements(b2) \subseteq Elements(s)
             /\ Elements(d2[0]) \cup Elements(b2) = Elements(d[0]) \cup Elements(s)
<1> DEFINE a == SubSeq(s, 1, k)
           b == SubSeq(s, k + 1, Len(s))
           r2 == r \cup Elements(a)
           d2 == [d EXCEPT ![0] = d[0] \o a]
           c == d[0] \o a
<1>1. /\ d \in [Index -> Seq(Nat)] /\ s \in Seq(Nat) /\ r \subseteq Nat /\ Ascending(s)
      /\ \A n \in Index : Ascending(d[n]) /\ Elements(d[n]) \subseteq r
      /\ \A m, n \in Index : m > n => Before(d[m], d[n])
      /\ \A x \in r, y \in Elements(s) : x < y
  BY DEF Core
<1>2. /\ a \in Seq(Nat) /\ b \in Seq(Nat) /\ Ascending(a) /\ Ascending(b) /\ Before(a, b)
      /\ Elements(a) \subseteq Elements(s) /\ Elements(b) \subseteq Elements(s)
      /\ Elements(a) \cup Elements(b) = Elements(s)
  BY <1>1, CutAscends
<1> HIDE DEF a, b
<1>3. Before(d[0], a) /\ d[0] \in Seq(Nat) /\ Ascending(d[0])
  BY <1>1, <1>2, IndexFacts DEF Before
<1>4. c \in Seq(Nat) /\ Elements(c) = Elements(d[0]) \cup Elements(a) /\ Ascending(c)
  BY <1>2, <1>3, ConcatAscends
<1> HIDE DEF c
<1>5. d2 \in [Index -> Seq(Nat)] /\ d2[0] = c /\ \A n \in Index \ {0} : d2[n] = d[n]
  BY <1>1, <1>4, IndexFacts DEF c
<1> HIDE DEF d2
<1>6. Elements(a) \subseteq Nat /\ Elements(b) \subseteq Nat
  BY <1>2, ElementsInNat
<1>7. \A x \in r2, y \in Elements(b) : x < y
  BY <1>1, <1>2 DEF Before
<1>8. \A n \in Index : Ascending(d2[n]) /\ Elements(d2[n]) \subseteq r2
  BY <1>1, <1>4, <1>5, IndexFacts
<1>9. ASSUME NEW m \in Index, NEW n \in Index, m > n PROVE Before(d2[m], d2[n])
  <2>1. m # 0 /\ d2[m] = d[m]
    BY <1>5, <1>9, IndexFacts
  <2>2. CASE n # 0
    BY <1>1, <1>5, <1>9, <2>1, <2>2
  <2>3. CASE n = 0
    <3>1. Before(d[m], d[0])
      BY <1>1, <1>9, <2>3
    <3>2. Before(d[m], a)
      BY <1>1, <1>2 DEF Before
    <3> QED
      BY <1>4, <1>5, <2>1, <2>3, <3>1, <3>2 DEF Before
  <2> QED
    BY <2>2, <2>3
<1>10. Core(d2, b, r2)
  BY <1>1, <1>2, <1>5, <1>6, <1>7, <1>8, <1>9 DEF Core
<1>11. ASSUME OldestGone(d, r) PROVE OldestGone(d2, r2)
  <2>1. \A x : Held(d2, x) <=> Held(d, x) \/ x \in Elements(a)
    BY <1>4, <1>5, IndexFacts DEF Held
  <2>2. ASSUME NEW x \in r2, NEW y \in Nat, ~Held(d2, x), Held(d2, y) PROVE x < y
    <3>1. x \in r /\ ~Held(d, x)
      BY <2>1, <2>2
    <3>2. CASE Held(d, y)
      BY <1>11, <3>1, <3>2 DEF OldestGone
    <3>3. CASE y \in Elements(a)
      BY <1>1, <1>2, <3>1, <3>3
    <3> QED
      BY <2>1, <2>2, <3>2, <3>3
  <2> QED
    BY <2>2 DEF OldestGone
<1>12. Elements(d2[0]) \cup Elements(b) = Elements(d[0]) \cup Elements(s)
  BY <1>2, <1>4, <1>5
<1> QED
  BY <1>2, <1>5, <1>10, <1>11, <1>12 DEF a, b, d2

(* Removing a file, of which none is older. *)
LEMMA RemoveKeeps ==
  ASSUME NEW d, NEW b, NEW r, Core(d, b, r), NEW n \in Index
  PROVE  LET d2 == [d EXCEPT ![n] = <<>>]
         IN  /\ Core(d2, b, r)
             /\ OldestGone(d, r) /\ (\A m \in Index : m > n => d[m] = <<>>) => OldestGone(d2, r)
<1> DEFINE e == <<>>
           d2 == [d EXCEPT ![n] = e]
<1>1. /\ d \in [Index -> Seq(Nat)] /\ b \in Seq(Nat) /\ r \subseteq Nat /\ Ascending(b)
      /\ \A m \in Index : Ascending(d[m]) /\ Elements(d[m]) \subseteq r
      /\ \A l, m \in Index : l > m => Before(d[l], d[m])
      /\ \A x \in r, y \in Elements(b) : x < y
  BY DEF Core
<1>2. Elements(e) = {} /\ Ascending(e) /\ e \in Seq(Nat)
  BY ElementsOfEmpty
<1> HIDE DEF e
<1>3. d2 \in [Index -> Seq(Nat)] /\ d2[n] = e /\ \A m \in Index \ {n} : d2[m] = d[m]
  BY <1>1, <1>2
<1> HIDE DEF d2
<1>4. \A m \in Index : Ascending(d2[m]) /\ Elements(d2[m]) \subseteq r
  BY <1>1, <1>2, <1>3
<1>5. \A l, m \in Index : l > m => Before(d2[l], d2[m])
  BY <1>1, <1>2, <1>3 DEF Before
<1>6. Core(d2, b, r)
  BY <1>1, <1>3, <1>4, <1>5 DEF Core
<1>7. ASSUME OldestGone(d, r), \A m \in Index : m > n => d[m] = e PROVE OldestGone(d2, r)
  <2>1. ASSUME NEW x \in r, NEW y \in Nat, ~Held(d2, x), Held(d2, y) PROVE x < y
    <3>1. PICK m \in Index : m # n /\ y \in Elements(d[m])
      BY <1>2, <1>3, <2>1 DEF Held
    <3>2. CASE Held(d, x)
      <4>1. PICK l \in Index : x \in Elements(d[l])
        BY <3>2 DEF Held
      <4>2. l = n
        BY <1>3, <2>1, <4>1 DEF Held
      <4>3. ~(m > n)
        BY <1>2, <1>7, <3>1
      <4>4. n > m
        BY <3>1, <4>3, IndexFacts
      <4>5. Before(d[n], d[m])
        BY <1>1, <4>4
      <4> QED
        BY <3>1, <4>1, <4>2, <4>5 DEF Before
    <3>3. CASE ~Held(d, x)
      BY <1>7, <2>1, <3>1, <3>3 DEF OldestGone, Held
    <3> QED
      BY <3>2, <3>3
  <2> QED
    BY <2>1 DEF OldestGone
<1> QED
  BY <1>6, <1>7 DEF d2, e

(* Renaming a file to the next suffix: nothing is there, or the oldest. *)
LEMMA RenameKeeps ==
  ASSUME NEW d, NEW b, NEW r, Core(d, b, r), NEW n \in Index, n + 1 \in Index,
         d[n + 1] = <<>>
  PROVE  LET d2 == [d EXCEPT ![n + 1] = d[n], ![n] = <<>>]
         IN  Core(d2, b, r) /\ (OldestGone(d, r) => OldestGone(d2, r))
<1> DEFINE e == <<>>
           k == n + 1
           d2 == [d EXCEPT ![k] = d[n], ![n] = e]
<1>1. /\ d \in [Index -> Seq(Nat)] /\ b \in Seq(Nat) /\ r \subseteq Nat /\ Ascending(b)
      /\ \A m \in Index : Ascending(d[m]) /\ Elements(d[m]) \subseteq r
      /\ \A l, m \in Index : l > m => Before(d[l], d[m])
      /\ \A x \in r, y \in Elements(b) : x < y
  BY DEF Core
<1>2. Elements(e) = {} /\ Ascending(e) /\ e \in Seq(Nat) /\ d[k] = e
  BY ElementsOfEmpty
<1>3. k \in Index /\ k # n /\ k > n /\ \A m \in Index : m > n => m = k \/ m > k
  BY IndexFacts
<1> HIDE DEF e, k
<1>4. /\ d2 \in [Index -> Seq(Nat)] /\ d2[n] = e /\ d2[k] = d[n]
      /\ \A m \in Index \ {n, k} : d2[m] = d[m]
  BY <1>1, <1>2, <1>3
<1> HIDE DEF d2
<1>5. \A m \in Index : Ascending(d2[m]) /\ Elements(d2[m]) \subseteq r
  BY <1>1, <1>2, <1>4
<1>6. ASSUME NEW l \in Index, NEW m \in Index, l > m PROVE Before(d2[l], d2[m])
  <2>1. CASE l = n \/ m = n
    BY <1>2, <1>4, <2>1 DEF Before
  <2>2. CASE l = k /\ m # n
    <3>1. n > m
      BY <1>3, <1>6, <2>2, IndexFacts
    <3>2. m # k
      BY <1>6, <2>2, IndexFacts
    <3> QED
      BY <1>1, <1>4, <2>2, <3>1, <3>2
  <2>3. CASE m = k /\ l # n
    <3>1. l > n /\ l # k
      BY <1>3, <1>6, <2>3, IndexFacts
    <3> QED
      BY <1>1, <1>4, <2>3, <3>1
  <2>4. CASE l \notin {n, k} /\ m \notin {n, k}
    BY <1>1, <1>4, <1>6, <2>4
  <2> QED
    BY <2>1, <2>2, <2>3, <2>4
<1>7. Core(d2, b, r)
  BY <1>1, <1>4, <1>5, <1>6 DEF Core
<1>8. \A x : Held(d2, x) <=> Held(d, x)
  <2>1. ASSUME NEW x, Held(d2, x) PROVE Held(d, x)
    BY <1>2, <1>3, <1>4, <2>1 DEF Held
  <2>2. ASSUME NEW x, Held(d, x) PROVE Held(d2, x)
    BY <1>2, <1>3, <1>4, <2>2 DEF Held
  <2> QED
    BY <2>1, <2>2
<1>9. OldestGone(d, r) => OldestGone(d2, r)
  BY <1>8 DEF OldestGone
<1> QED
  BY <1>7, <1>9 DEF d2, e, k
----------------------------------------------------------------------------
(* The entries there are have been handed to Write. *)
Bounded == reached \cup Elements(buffered) \subseteq 1..entries

(* What the next rename of a rotation goes to is not there. *)
Vacated ==
  sink = "shift" =>
    \/ max_backups_ = 0 /\ i = -1
    \/ max_backups_ > 0 /\ i \in 0..(max_backups_ - 1) /\ disk[i + 1] = <<>>

(* Rotate knows of all backups. *)
NoneAbove == ~lowered => \A n \in Index : n > max_backups_ /\ n > 1 => disk[n] = <<>>

Gone == ~lowered => OldestGone(disk, reached)

Inv ==
  /\ TypeOK
  /\ Core(disk, buffered, reached)
  /\ Bounded
  /\ Vacated
  /\ NoneAbove
  /\ Gone

(* What writing to the file does to the invariant. *)
LEMMA PutStep ==
  ASSUME NEW s, Core(disk, s, reached), NEW k \in 0..Len(s), Put(s, k)
  PROVE  /\ Core(disk', buffered', reached')
         /\ OldestGone(disk, reached) => OldestGone(disk', reached')
         /\ \A n \in Index \ {0} : disk'[n] = disk[n]
         /\ reached' \cup Elements(buffered') \subseteq reached \cup Elements(s)
         /\ Written' = Elements(disk[0]) \cup Elements(s)
         /\ k = Len(s) => buffered' = <<>>
<1> DEFINE d2 == [disk EXCEPT ![0] = @ \o SubSeq(s, 1, k)]
           r2 == reached \cup Elements(SubSeq(s, 1, k))
           b2 == SubSeq(s, k + 1, Len(s))
<1>1. disk' = d2 /\ reached' = r2 /\ buffered' = b2
  BY DEF Put
<1>2. /\ Core(d2, b2, r2)
      /\ OldestGone(disk, reached) => OldestGone(d2, r2)
      /\ \A n \in Index \ {0} : d2[n] = disk[n]
      /\ r2 \subseteq reached \cup Elements(s)
      /\ Elements(b2) \subseteq Elements(s)
      /\ Elements(d2[0]) \cup Elements(b2) = Elements(disk[0]) \cup Elements(s)
  BY PutKeeps
<1>3. ASSUME k = Len(s) PROVE b2 = <<>>
  <2>1. s \in Seq(Nat) /\ Len(s) \in Nat
    BY DEF Core
  <2>2. b2 \in Seq(Nat) /\ Len(b2) = 0
    BY <1>3, <2>1
  <2> QED
    BY <2>2, EmptySeq
<1> HIDE DEF d2, r2, b2
<1> QED
  BY <1>1, <1>2, <1>3 DEF Written

(* An ascending sequence ends with its newest entry. *)
LEMMA NewestOfSequence ==
  ASSUME NEW s \in Seq(Nat), Ascending(s), Elements(s) # {}
  PROVE  \E x \in Elements(s) : \A y \in Elements(s) : y <= x
<1>1. Len(s) \in Nat /\ DOMAIN s = 1..Len(s)
  BY LenProperties
<1>2. Len(s) \in DOMAIN s
  BY <1>1 DEF Elements
<1>3. Elements(s) \subseteq Nat
  BY ElementsInNat
<1>4. \A k \in DOMAIN s : s[k] \in Elements(s) /\ s[k] <= s[Len(s)]
  <2>1. ASSUME NEW k \in DOMAIN s PROVE s[k] \in Elements(s) /\ s[k] <= s[Len(s)]
    <3>1. s[k] \in Elements(s) /\ s[Len(s)] \in Elements(s)
      BY <1>2, <2>1 DEF Elements
    <3>2. k = Len(s) \/ k < Len(s)
      BY <1>1, <2>1
    <3> QED
      BY <1>2, <1>3, <2>1, <3>1, <3>2 DEF Ascending
  <2> QED
    BY <2>1
<1> QED
  BY <1>2, <1>4 DEF Elements

(* path_ has a newest entry, with and without what is buffered. *)
LEMMA NewestExists ==
  ASSUME Core(disk, buffered, reached), Bounded
  PROVE  /\ Elements(disk[0]) \subseteq 1..entries /\ Written \subseteq 1..entries
         /\ \A n \in Index : Elements(disk[n]) \subseteq 1..entries
         /\ Elements(disk[0]) # {} => \E x \in Elements(disk[0]) : \A y \in Elements(disk[0]) : y <= x
         /\ Written # {} => \E x \in Written : \A y \in Written : y <= x
<1>1. /\ disk[0] \in Seq(Nat) /\ buffered \in Seq(Nat) /\ Ascending(disk[0]) /\ Ascending(buffered)
      /\ \A n \in Index : Elements(disk[n]) \subseteq reached
      /\ Elements(disk[0]) \subseteq reached /\ reached \subseteq Nat
      /\ \A x \in reached, y \in Elements(buffered) : x < y
  BY IndexFacts DEF Core
<1>2. \A n \in Index : Elements(disk[n]) \subseteq 1..entries
  BY <1>1 DEF Bounded
<1>3. Written \subseteq 1..entries
  BY <1>1 DEF Bounded, Written
<1>4. Elements(disk[0]) # {} => \E x \in Elements(disk[0]) : \A y \in Elements(disk[0]) : y <= x
  BY <1>1, NewestOfSequence
<1>5. ASSUME Written # {} PROVE \E x \in Written : \A y \in Written : y <= x
  <2>1. CASE Elements(buffered) = {}
    BY <1>4, <1>5, <2>1 DEF Written
  <2>2. CASE Elements(buffered) # {}
    <3>1. PICK x \in Elements(buffered) : \A y \in Elements(buffered) : y <= x
      BY <1>1, <2>2, NewestOfSequence
    <3>2. Elements(buffered) \subseteq Nat
      BY <1>1, ElementsInNat
    <3>3. ASSUME NEW y \in Elements(disk[0]) PROVE y <= x
      <4>1. y \in reached /\ y \in Nat /\ x \in Nat
        BY <1>1, <3>1, <3>2
      <4>2. y < x
        BY <1>1, <3>1, <4>1
      <4> QED
        BY <4>1, <4>2
    <3> QED
      BY <3>1, <3>3 DEF Written
  <2> QED
    BY <2>1, <2>2
<1> QED
  BY <1>2, <1>3, <1>4, <1>5, IndexFacts

(* A file ends where its newest entry ends. *)
LEMMA EndIs ==
  ASSUME NEW S \in SUBSET Nat, NEW x \in S, \A y \in S : y <= x
  PROVE  End(S) = ends[x]
<1> DEFINE c == CHOOSE z \in S : \A y \in S : y <= z
<1>1. c \in S /\ \A y \in S : y <= c
  OBVIOUS
<1>2. End(S) = ends[c]
  BY DEF End
<1> HIDE DEF c
<1>3. c = x
  BY <1>1
<1> QED
  BY <1>2, <1>3

(* The lengths of files are numbers. *)
LEMMA EndIsNat ==
  ASSUME Core(disk, buffered, reached), Bounded, ends \in Seq(Nat), Len(ends) = entries
  PROVE  End(Elements(disk[0])) \in Nat /\ End(Written) \in Nat
<1>1. \A x \in 1..entries : ends[x] \in Nat
  BY ElementOfSeq
<1>2. ASSUME NEW S, S \subseteq 1..entries, S # {} => \E x \in S : \A y \in S : y <= x
      PROVE  End(S) \in Nat
  <2>1. CASE S = {}
    BY <2>1 DEF End
  <2>2. CASE S # {}
    <3>1. PICK x \in S : \A y \in S : y <= x
      BY <1>2, <2>2
    <3>2. S \in SUBSET Nat
      <4>1. 1..entries \subseteq Nat
        BY LenProperties
      <4> QED
        BY <1>2, <4>1
    <3>3. End(S) = ends[x]
      BY <3>1, <3>2, EndIs
    <3> QED
      BY <1>1, <1>2, <3>3
  <2> QED
    BY <2>1, <2>2
<1> QED
  BY <1>2, NewestExists

(* What the end of Write does to it, whether or not the stream is open. *)
LEMMA WriteStep ==
  ASSUME Core(disk, buffered, reached), Bounded, entries \in Nat, NEW open \in BOOLEAN,
         NEW size \in Nat, WriteEntry(open, size), ends \in Seq(Nat), Len(ends) = entries
  PROVE  /\ Core(disk', buffered', reached')
         /\ OldestGone(disk, reached) => OldestGone(disk', reached')
         /\ \A n \in Index \ {0} : disk'[n] = disk[n]
         /\ Bounded' /\ entries' \in Nat /\ current_size_' \in Nat
         /\ ends' \in Seq(Nat) /\ Len(ends') = entries'
         /\ open => Written' = Written \cup {entries + 1}
         /\ ~open => disk' = disk /\ buffered' = buffered
<1>1. entries' = entries + 1 /\ entries' \in Nat
  BY DEF WriteEntry
<1>2. current_size_' \in Nat /\ ends' \in Seq(Nat) /\ Len(ends') = entries'
  <2>1. PICK z \in Sizes : /\ current_size_' = size + z
                           /\ ends' = Append(ends, IF open THEN End(Written) + z ELSE 0)
    BY DEF WriteEntry
  <2>2. z \in Nat /\ End(Written) \in Nat
    BY EndIsNat, ConstantsAssumption
  <2> DEFINE e == IF open THEN End(Written) + z ELSE 0
  <2>3. e \in Nat /\ ends' = Append(ends, e)
    BY <2>1, <2>2
  <2> HIDE DEF e
  <2>4. ends' \in Seq(Nat) /\ Len(ends') = Len(ends) + 1
    BY <2>3, AppendProperties
  <2> QED
    BY <1>1, <2>1, <2>2, <2>4
<1>3. CASE open
  <2> DEFINE s == Append(buffered, entries + 1)
  <2>1. PICK k \in 0..Len(s) : Put(s, k)
    BY <1>3 DEF WriteEntry
  <2>2. /\ Core(disk, s, reached) /\ Elements(s) = Elements(buffered) \cup {entries + 1}
        /\ reached \cup Elements(s) \subseteq 1..(entries + 1)
    BY AppendKeeps DEF Bounded
  <2> HIDE DEF s
  <2>3. /\ Core(disk', buffered', reached')
        /\ OldestGone(disk, reached) => OldestGone(disk', reached')
        /\ \A n \in Index \ {0} : disk'[n] = disk[n]
        /\ reached' \cup Elements(buffered') \subseteq reached \cup Elements(s)
        /\ Written' = Elements(disk[0]) \cup Elements(s)
    BY <2>1, <2>2, PutStep
  <2>4. Bounded'
    BY <1>1, <2>2, <2>3 DEF Bounded
  <2>5. Written' = Written \cup {entries + 1}
    BY <2>2, <2>3 DEF Written
  <2> QED
    BY <1>1, <1>2, <1>3, <2>3, <2>4, <2>5
<1>4. CASE ~open
  <2>1. disk' = disk /\ reached' = reached /\ buffered' = buffered
    BY <1>4 DEF WriteEntry
  <2>2. Bounded'
    BY <1>1, <2>1 DEF Bounded
  <2> QED
    BY <1>1, <1>2, <1>4, <2>1, <2>2
<1> QED
  BY <1>3, <1>4

(* Closing the stream, if it is open. *)
LEMMA CloseStep ==
  ASSUME Core(disk, buffered, reached), Bounded, entries' = entries, ~is_open => buffered = <<>>,
         IF is_open THEN Put(buffered, Len(buffered)) ELSE UNCHANGED <<disk, reached, buffered>>
  PROVE  /\ Core(disk', buffered', reached')
         /\ OldestGone(disk, reached) => OldestGone(disk', reached')
         /\ \A n \in Index \ {0} : disk'[n] = disk[n]
         /\ Bounded' /\ buffered' = <<>> /\ Written' = Written
         /\ ~is_open => disk' = disk
<1>1. CASE is_open
  <2>1. buffered \in Seq(Nat) /\ Len(buffered) \in 0..Len(buffered)
    BY DEF Core
  <2>2. Put(buffered, Len(buffered))
    BY <1>1
  <2>3. /\ Core(disk', buffered', reached')
        /\ OldestGone(disk, reached) => OldestGone(disk', reached')
        /\ \A n \in Index \ {0} : disk'[n] = disk[n]
        /\ reached' \cup Elements(buffered') \subseteq reached \cup Elements(buffered)
        /\ buffered' = <<>> /\ Written' = Written
    BY <2>1, <2>2, PutStep DEF Written
  <2>4. Bounded'
    BY <2>3 DEF Bounded
  <2> QED
    BY <1>1, <2>3, <2>4
<1>2. CASE ~is_open
  <2>1. disk' = disk /\ reached' = reached /\ buffered' = buffered
    BY <1>2
  <2> QED
    BY <1>2, <2>1 DEF Bounded, Written
<1> QED
  BY <1>1, <1>2
----------------------------------------------------------------------------
(* Steps that touch no backup. *)
LEMMA OthersStay ==
  ASSUME NoneAbove, lowered' = lowered, max_backups_' = max_backups_,
         \A n \in Index \ {0} : disk'[n] = disk[n]
  PROVE  NoneAbove'
<1>1. \A n \in Index : n > 1 => n # 0
  BY IndexFacts
<1> QED
  BY <1>1 DEF NoneAbove

(* The inductive invariant: order, and that only the oldest is gone, with  *)
(* what a rotation under way and the numbering of entries contribute.      *)
THEOREM Invariance == Spec => []Inv
<1>1. Init => Inv
  <2> SUFFICES ASSUME Init PROVE Inv
    OBVIOUS
  <2>1. \A n \in Index : disk[n] = <<>>
    BY DEF Init
  <2>7. ends \in Seq(Nat) /\ Len(ends) = entries
    BY ElementsOfEmpty DEF Init
  <2>8. disk \in [Index -> Seq(Nat)] /\ buffered \in Seq(Nat) /\ i \in -1..(MaxIndex - 1)
    BY ElementsOfEmpty, IndexFacts DEF Init
  <2>2. TypeOK
    <3>1. \A n \in Index \ exists : disk[n] = <<>>
      BY <2>1
    <3>2. /\ exists \subseteq Index /\ sink = "none" /\ is_open = FALSE /\ buffered = <<>>
          /\ current_size_ \in Nat /\ max_backups_ \in BackupSettings /\ entries \in Nat
          /\ reached \subseteq Nat /\ failed = FALSE /\ crashes \in Nat /\ rotations \in Nat
          /\ lowered = FALSE
      BY DEF Init
    <3> QED
      BY <2>7, <2>8, <3>1, <3>2 DEF TypeOK
  <2>3. \A n \in Index : Elements(disk[n]) = {} /\ Ascending(disk[n])
    BY <2>1, ElementsOfEmpty
  <2>4. Core(disk, buffered, reached)
    BY <2>2, <2>3, ElementsOfEmpty DEF Core, TypeOK, Init, Before
  <2>5. Bounded
    BY ElementsOfEmpty DEF Init, Bounded
  <2>6. Vacated /\ NoneAbove /\ Gone
    BY <2>1 DEF Init, Vacated, NoneAbove, Gone, OldestGone
  <2> QED
    BY <2>2, <2>4, <2>5, <2>6 DEF Inv
<1>2. ASSUME Inv, [Next]_vars PROVE Inv'
  <2>0. /\ TypeOK /\ Core(disk, buffered, reached) /\ Bounded /\ Vacated /\ NoneAbove /\ Gone
        /\ max_backups_ \in 0..MaxIndex /\ MaxIndex \in Nat /\ 0 \in Index /\ 1 \in Index
        /\ 0 \in -1..(MaxIndex - 1)
    BY <1>2, ConstantsAssumption, IndexFacts DEF Inv, TypeOK
  <2>1. ASSUME NEW n \in BackupSettings, NEW ok \in BOOLEAN, Construct(n, ok) PROVE Inv'
    <3>1. /\ disk' = disk /\ buffered' = buffered /\ reached' = reached /\ entries' = entries
          /\ ends' = ends /\ i' = i /\ crashes' = crashes /\ sink' = "idle" /\ sink = "none"
          /\ max_backups_' = n /\ lowered' = (lowered \/ n < max_backups_)
          /\ rotations' = (IF n = max_backups_ THEN rotations ELSE 0)
          /\ current_size_' = (IF ok THEN FileSize ELSE 0)
          /\ exists' = (IF ok THEN exists \cup {0} ELSE exists)
          /\ is_open' = ok /\ failed' \in BOOLEAN
      BY <2>1 DEF Construct, Opened
    <3>2. ~is_open /\ buffered = <<>> /\ current_size_' \in Nat
      <4>1. FileSize \in Nat
        BY <2>0, EndIsNat DEF TypeOK, FileSize
      <4> QED
        BY <2>0, <3>1, <4>1 DEF TypeOK
    <3>3. TypeOK'
      <4>1. ends' \in Seq(Nat) /\ Len(ends') = entries'
        <5>1. ends \in Seq(Nat) /\ Len(ends) = entries
          BY <2>0 DEF TypeOK
        <5>2. ends' = ends /\ entries' = entries
          BY <3>1
        <5> QED
          BY <5>1, <5>2
      <4>2. /\ disk' \in [Index -> Seq(Nat)] /\ exists' \subseteq Index
            /\ \A k \in Index \ exists' : disk'[k] = <<>>
        BY <2>0, <3>1 DEF TypeOK
      <4>3. /\ i' \in -1..(MaxIndex - 1) /\ buffered' = <<>> /\ buffered' \in Seq(Nat)
            /\ entries' \in Nat /\ reached' \subseteq Nat /\ crashes' \in Nat
        BY <2>0, <3>1, <3>2 DEF TypeOK
      <4>4. rotations' \in Nat /\ lowered' \in BOOLEAN
        BY <2>0, <3>1 DEF TypeOK
      <4>5. is_open' => sink' = "idle" /\ 0 \in exists'
        BY <3>1
      <4> QED
        BY <3>1, <3>2, <4>1, <4>2, <4>3, <4>4, <4>5 DEF TypeOK
    <3>4. Core(disk, buffered, reached)' /\ Bounded' /\ Vacated'
      BY <2>0, <3>1 DEF Bounded, Vacated
    <3>5. n \in Nat
      BY ConstantsAssumption
    <3>6. NoneAbove'
      <4>1. ASSUME ~lowered' PROVE ~lowered /\ n >= max_backups_
        <5>1. lowered' = (lowered \/ n < max_backups_)
          BY <3>1
        <5>2. ~lowered /\ ~(n < max_backups_)
          BY <4>1, <5>1, Zenon
        <5> QED
          BY <2>0, <3>5, <5>2
      <4>2. ASSUME ~lowered', NEW m \in Index, m > n, m > 1 PROVE disk'[m] = <<>>
        <5>1. m > max_backups_
          BY <2>0, <3>5, <4>1, <4>2, IndexFacts
        <5> QED
          BY <2>0, <3>1, <4>1, <4>2, <5>1 DEF NoneAbove
      <4> QED
        BY <3>1, <4>2 DEF NoneAbove
    <3>7. Gone'
      BY <2>0, <3>1 DEF Gone
    <3> QED
      BY <3>3, <3>4, <3>6, <3>7 DEF Inv
  <2>2. ASSUME Destroy PROVE Inv'
    <3>1. /\ sink' = "none" /\ is_open' = FALSE /\ current_size_' = 0 /\ exists' = exists /\ i' = i
          /\ max_backups_' = max_backups_ /\ entries' = entries /\ ends' = ends /\ failed' = failed
          /\ crashes' = crashes /\ rotations' = rotations /\ lowered' = lowered
          /\ IF is_open THEN Put(buffered, Len(buffered)) ELSE UNCHANGED <<disk, reached, buffered>>
      BY <2>2 DEF Destroy, history
    <3>2. ~is_open => buffered = <<>>
      BY <2>0 DEF TypeOK
    <3>3. /\ Core(disk', buffered', reached')
          /\ OldestGone(disk, reached) => OldestGone(disk', reached')
          /\ \A n \in Index \ {0} : disk'[n] = disk[n]
          /\ Bounded' /\ buffered' = <<>>
          /\ ~is_open => disk' = disk
      BY <2>0, <3>1, <3>2, CloseStep
    <3>4. \A n \in Index \ exists : disk'[n] = <<>>
      BY <2>0, <3>3 DEF TypeOK
    <3>5. TypeOK'
      BY <2>0, <3>1, <3>3, <3>4 DEF TypeOK, Core
    <3>6. NoneAbove'
      BY <2>0, <3>1, <3>3, OthersStay
    <3>7. Vacated' /\ Gone'
      BY <2>0, <3>1, <3>3 DEF Vacated, Gone
    <3> QED
      BY <3>3, <3>5, <3>6, <3>7 DEF Inv
  <2>3. ASSUME Flush PROVE Inv'
    <3>1. /\ sink' = sink /\ is_open' = is_open /\ current_size_' = current_size_ /\ exists' = exists
          /\ i' = i /\ sink = "idle" /\ is_open
          /\ max_backups_' = max_backups_ /\ entries' = entries /\ ends' = ends /\ failed' = failed
          /\ crashes' = crashes /\ rotations' = rotations /\ lowered' = lowered
          /\ IF is_open THEN Put(buffered, Len(buffered)) ELSE UNCHANGED <<disk, reached, buffered>>
      BY <2>3 DEF Flush, history
    <3>2. ~is_open => buffered = <<>>
      BY <2>0 DEF TypeOK
    <3>3. /\ Core(disk', buffered', reached')
          /\ OldestGone(disk, reached) => OldestGone(disk', reached')
          /\ \A n \in Index \ {0} : disk'[n] = disk[n]
          /\ Bounded' /\ buffered' = <<>>
      BY <2>0, <3>1, <3>2, CloseStep
    <3>4. \A n \in Index \ exists : disk'[n] = <<>>
      BY <2>0, <3>1, <3>3 DEF TypeOK
    <3>5. TypeOK'
      BY <2>0, <3>1, <3>3, <3>4 DEF TypeOK, Core
    <3>6. NoneAbove'
      BY <2>0, <3>1, <3>3, OthersStay
    <3>7. Vacated' /\ Gone'
      BY <2>0, <3>1, <3>3 DEF Vacated, Gone
    <3> QED
      BY <3>3, <3>5, <3>6, <3>7 DEF Inv
  <2>4. ASSUME Write PROVE Inv'
    <3>1. /\ sink' = sink /\ is_open' = is_open /\ exists' = exists /\ i' = i /\ sink = "idle"
          /\ max_backups_' = max_backups_ /\ failed' = failed
          /\ crashes' = crashes /\ rotations' = rotations /\ lowered' = lowered
          /\ WriteEntry(is_open, current_size_)
      BY <2>4 DEF Write, history
    <3>2. /\ is_open \in BOOLEAN /\ current_size_ \in Nat /\ entries \in Nat
          /\ ends \in Seq(Nat) /\ Len(ends) = entries
      BY <2>0 DEF TypeOK
    <3>3. /\ Core(disk', buffered', reached')
          /\ OldestGone(disk, reached) => OldestGone(disk', reached')
          /\ \A n \in Index \ {0} : disk'[n] = disk[n]
          /\ Bounded' /\ entries' \in Nat /\ current_size_' \in Nat
          /\ ends' \in Seq(Nat) /\ Len(ends') = entries'
          /\ ~is_open => disk' = disk /\ buffered' = buffered
      BY <2>0, <3>1, <3>2, WriteStep
    <3>4. \A n \in Index \ exists : disk'[n] = <<>>
      BY <2>0, <3>3 DEF TypeOK
    <3>5. TypeOK'
      BY <2>0, <3>1, <3>3, <3>4 DEF TypeOK, Core
    <3>6. NoneAbove'
      BY <2>0, <3>1, <3>3, OthersStay
    <3>7. Vacated' /\ Gone'
      BY <2>0, <3>1, <3>3 DEF Vacated, Gone
    <3> QED
      BY <3>3, <3>5, <3>6, <3>7 DEF Inv
  <2>5. ASSUME Rotate PROVE Inv'
    <3>1. /\ sink' = "remove" /\ is_open' = FALSE /\ current_size_' = current_size_ /\ exists' = exists
          /\ i' = i /\ max_backups_' = max_backups_ /\ entries' = entries /\ ends' = ends /\ failed' = failed
          /\ crashes' = crashes /\ rotations' = rotations /\ lowered' = lowered
          /\ IF is_open THEN Put(buffered, Len(buffered)) ELSE UNCHANGED <<disk, reached, buffered>>
      BY <2>5 DEF Rotate, history
    <3>2. ~is_open => buffered = <<>>
      BY <2>0 DEF TypeOK
    <3>3. /\ Core(disk', buffered', reached')
          /\ OldestGone(disk, reached) => OldestGone(disk', reached')
          /\ \A n \in Index \ {0} : disk'[n] = disk[n]
          /\ Bounded' /\ buffered' = <<>>
          /\ ~is_open => disk' = disk
      BY <2>0, <3>1, <3>2, CloseStep
    <3>4. \A n \in Index \ exists : disk'[n] = <<>>
      BY <2>0, <3>3 DEF TypeOK
    <3>5. TypeOK'
      BY <2>0, <3>1, <3>3, <3>4 DEF TypeOK, Core
    <3>6. NoneAbove'
      BY <2>0, <3>1, <3>3, OthersStay
    <3>7. Vacated' /\ Gone'
      BY <2>0, <3>1, <3>3 DEF Vacated, Gone
    <3> QED
      BY <3>3, <3>5, <3>6, <3>7 DEF Inv
  <2>6. ASSUME RemoveOldest PROVE Inv'
    <3>0. /\ sink = "remove" /\ sink' = "shift" /\ i' = max_backups_ - 1
          /\ is_open' = is_open /\ buffered' = buffered /\ current_size_' = current_size_
          /\ max_backups_' = max_backups_ /\ entries' = entries /\ ends' = ends /\ reached' = reached
          /\ failed' = failed /\ crashes' = crashes /\ rotations' = rotations /\ lowered' = lowered
      BY <2>6 DEF RemoveOldest, stream, history
    <3>1. CASE max_backups_ > 0
      <4>1. exists' = exists \ {max_backups_} /\ disk' = [disk EXCEPT ![max_backups_] = <<>>]
        BY <2>6, <3>1 DEF RemoveOldest
      <4>2. max_backups_ \in Index
        BY <2>0 DEF Index
      <4> DEFINE d2 == [disk EXCEPT ![max_backups_] = <<>>]
      <4>3. /\ Core(d2, buffered, reached)
            /\ OldestGone(disk, reached) /\ (\A m \in Index : m > max_backups_ => disk[m] = <<>>)
                 => OldestGone(d2, reached)
        BY <2>0, <4>2, RemoveKeeps
      <4>4. /\ disk' \in [Index -> Seq(Nat)] /\ disk'[max_backups_] = <<>>
            /\ \A n \in Index \ {max_backups_} : disk'[n] = disk[n]
        BY <2>0, <4>1, <4>2, <4>3 DEF TypeOK, Core
      <4>5. \A n \in Index \ exists' : disk'[n] = <<>>
        BY <2>0, <4>1, <4>4 DEF TypeOK
      <4>6. TypeOK'
        BY <2>0, <3>0, <3>1, <4>1, <4>4, <4>5 DEF TypeOK
      <4>7. Core(disk', buffered', reached') /\ Bounded'
        BY <2>0, <3>0, <4>1, <4>3 DEF Bounded
      <4>8. max_backups_ - 1 \in 0..(max_backups_ - 1) /\ (max_backups_ - 1) + 1 = max_backups_
        BY <2>0, <3>1
      <4>9. Vacated'
        BY <3>0, <3>1, <4>4, <4>8 DEF Vacated
      <4>10. NoneAbove'
        BY <2>0, <3>0, <4>4 DEF NoneAbove
      <4>11. ~lowered => \A m \in Index : m > max_backups_ => disk[m] = <<>>
        BY <2>0, <3>1, IndexFacts DEF NoneAbove
      <4>12. Gone'
        BY <2>0, <3>0, <4>1, <4>3, <4>11 DEF Gone
      <4> QED
        BY <4>6, <4>7, <4>9, <4>10, <4>12 DEF Inv
    <3>2. CASE ~(max_backups_ > 0)
      <4>1. exists' = exists /\ disk' = disk
        BY <2>6, <3>2 DEF RemoveOldest, files
      <4>2. max_backups_ = 0 /\ i' = -1
        BY <2>0, <3>0, <3>2
      <4>3. TypeOK'
        BY <2>0, <3>0, <4>1, <4>2 DEF TypeOK
      <4> QED
        BY <2>0, <3>0, <4>1, <4>2, <4>3 DEF Inv, Bounded, Vacated, NoneAbove, Gone
    <3> QED
      BY <3>1, <3>2
  <2>7. ASSUME Throws, sink \in {"remove", "shift"} PROVE Inv'
    <3>1. /\ sink' = "open" /\ failed' = TRUE /\ i' = 0 /\ exists' = exists /\ disk' = disk
          /\ is_open' = is_open /\ buffered' = buffered /\ current_size_' = current_size_
          /\ max_backups_' = max_backups_ /\ entries' = entries /\ ends' = ends /\ reached' = reached
          /\ crashes' = crashes /\ rotations' = rotations /\ lowered' = lowered
      BY <2>7 DEF Throws, files, stream
    <3>2. TypeOK'
      BY <2>0, <2>7, <3>1 DEF TypeOK
    <3> QED
      BY <2>0, <3>1, <3>2 DEF Inv, Bounded, Vacated, NoneAbove, Gone
  <2>8. ASSUME Shift PROVE Inv'
    <3>0. /\ sink = "shift" /\ sink' = "shift" /\ i >= 1 /\ i' = i - 1
          /\ is_open' = is_open /\ buffered' = buffered /\ current_size_' = current_size_
          /\ max_backups_' = max_backups_ /\ entries' = entries /\ ends' = ends /\ reached' = reached
          /\ failed' = failed /\ crashes' = crashes /\ rotations' = rotations /\ lowered' = lowered
      BY <2>8 DEF Shift, stream, history
    <3>1. /\ max_backups_ > 0 /\ i \in 0..(max_backups_ - 1) /\ disk[i + 1] = <<>>
          /\ i \in Index /\ i + 1 \in Index /\ i \in Nat /\ i + 1 <= max_backups_
      BY <2>0, <3>0 DEF Vacated, Index
    <3>2. i - 1 \in 0..(max_backups_ - 1) /\ i - 1 \in -1..(MaxIndex - 1) /\ (i - 1) + 1 = i
      BY <2>0, <3>0, <3>1
    <3>3. CASE i \in exists
      <4>1. exists' = (exists \ {i}) \cup {i + 1} /\ disk' = [disk EXCEPT ![i + 1] = disk[i], ![i] = <<>>]
        BY <2>8, <3>3 DEF Shift, Rename
      <4> DEFINE d2 == [disk EXCEPT ![i + 1] = disk[i], ![i] = <<>>]
      <4>2. Core(d2, buffered, reached) /\ (OldestGone(disk, reached) => OldestGone(d2, reached))
        BY <2>0, <3>1, RenameKeeps
      <4>3. i # i + 1
        BY <3>1
      <4>4. /\ disk' \in [Index -> Seq(Nat)] /\ disk'[i] = <<>> /\ disk'[i + 1] = disk[i]
            /\ \A n \in Index \ {i, i + 1} : disk'[n] = disk[n]
        BY <2>0, <3>1, <4>1, <4>2, <4>3 DEF TypeOK, Core
      <4>5. \A n \in Index \ exists' : disk'[n] = <<>>
        BY <2>0, <3>1, <4>1, <4>4 DEF TypeOK
      <4>6. TypeOK'
        BY <2>0, <3>0, <3>1, <3>2, <4>1, <4>4, <4>5 DEF TypeOK
      <4>7. Vacated'
        BY <3>0, <3>1, <3>2, <4>4 DEF Vacated
      <4>8. NoneAbove'
        <5>1. \A n \in Index : n > max_backups_ => n # i /\ n # i + 1
          BY <2>0, <3>1, IndexFacts
        <5> QED
          BY <2>0, <3>0, <4>4, <5>1 DEF NoneAbove
      <4>9. Core(disk', buffered', reached') /\ Bounded' /\ Gone'
        BY <2>0, <3>0, <4>1, <4>2 DEF Bounded, Gone
      <4> QED
        BY <4>6, <4>7, <4>8, <4>9 DEF Inv
    <3>4. CASE i \notin exists
      <4>1. exists' = exists /\ disk' = disk
        BY <2>8, <3>4 DEF Shift, files
      <4>2. disk[i] = <<>>
        BY <2>0, <3>1, <3>4 DEF TypeOK
      <4>3. TypeOK'
        BY <2>0, <3>0, <3>2, <4>1 DEF TypeOK
      <4>4. Vacated'
        BY <3>0, <3>1, <3>2, <4>1, <4>2 DEF Vacated
      <4> QED
        BY <2>0, <3>0, <4>1, <4>3, <4>4 DEF Inv, Bounded, NoneAbove, Gone
    <3> QED
      BY <3>3, <3>4
  <2>9. ASSUME RenameCurrent PROVE Inv'
    <3>0. /\ sink = "shift" /\ sink' = "open" /\ i < 1 /\ i' = 0 /\ 0 \in exists
          /\ rotations' = Min2(rotations + 1, MaxIndex)
          /\ is_open' = is_open /\ buffered' = buffered /\ current_size_' = current_size_
          /\ max_backups_' = max_backups_ /\ entries' = entries /\ ends' = ends /\ reached' = reached
          /\ failed' = failed /\ crashes' = crashes /\ lowered' = lowered
          /\ exists' = (exists \ {0}) \cup {1} /\ disk' = [disk EXCEPT ![1] = disk[0], ![0] = <<>>]
      BY <2>9 DEF RenameCurrent, Rename, stream
    <3> DEFINE c == [disk EXCEPT ![1] = <<>>]
               d2 == [c EXCEPT ![1] = c[0], ![0] = <<>>]
    <3>1. disk \in [Index -> Seq(Nat)] /\ rotations' \in Nat
      BY <2>0, <3>0 DEF TypeOK, Min2
    <3>2. disk' = d2
      BY <2>0, <3>0, <3>1
    <3>3. ~lowered => disk[1] = <<>> \/ \A m \in Index : m > 1 => disk[m] = <<>>
      <4>1. CASE max_backups_ = 0
        BY <2>0, <4>1, IndexFacts DEF NoneAbove
      <4>2. CASE max_backups_ > 0
        <5>1. i \in 0..(max_backups_ - 1) /\ disk[i + 1] = <<>>
          BY <2>0, <3>0, <4>2 DEF Vacated
        <5>2. i = 0
          BY <3>0, <5>1
        <5> QED
          BY <5>1, <5>2
      <4> QED
        BY <2>0, <4>1, <4>2
    <3>4. /\ Core(c, buffered, reached)
          /\ OldestGone(disk, reached) /\ (\A m \in Index : m > 1 => disk[m] = <<>>)
               => OldestGone(c, reached)
      BY <2>0, RemoveKeeps
    <3>5. ASSUME disk[1] = <<>> PROVE c = disk
      BY <2>0, <3>1, <3>5
    <3>6. ~lowered => OldestGone(c, reached)
      BY <2>0, <3>3, <3>4, <3>5 DEF Gone
    <3>7. c[1] = <<>>
      BY <2>0, <3>1
    <3> HIDE DEF c
    <3>8. 0 + 1 \in Index /\ c[0 + 1] = <<>> /\ 0 + 1 = 1
      BY <2>0, <3>7
    <3>9. Core(d2, buffered, reached) /\ (OldestGone(c, reached) => OldestGone(d2, reached))
      <4>1. LET d3 == [c EXCEPT ![0 + 1] = c[0], ![0] = <<>>]
            IN  Core(d3, buffered, reached) /\ (OldestGone(c, reached) => OldestGone(d3, reached))
        BY <2>0, <3>4, <3>8, RenameKeeps
      <4> QED
        BY <3>8, <4>1
    <3>10. /\ disk' \in [Index -> Seq(Nat)] /\ disk'[0] = <<>> /\ disk'[1] = disk[0]
           /\ \A n \in Index \ {0, 1} : disk'[n] = disk[n]
      <4>1. disk[0] \in Seq(Nat) /\ <<>> \in Seq(Nat)
        BY <2>0, <3>1
      <4>2. disk' = [disk EXCEPT ![1] = disk[0], ![0] = <<>>] /\ 0 \in Index /\ 1 \in Index
        BY <2>0, <3>0
      <4> DEFINE e == <<>>
                 f == disk[0]
      <4>3. e \in Seq(Nat) /\ f \in Seq(Nat) /\ disk' = [disk EXCEPT ![1] = f, ![0] = e]
        BY <4>1, <4>2
      <4> HIDE DEF e, f
      <4>4. /\ disk' \in [Index -> Seq(Nat)] /\ disk'[0] = e /\ disk'[1] = f
            /\ \A n \in Index \ {0, 1} : disk'[n] = disk[n]
        <5>1. 0 \in Index /\ 1 \in Index /\ 1 # 0
          BY <4>2
        <5> QED
          BY <3>1, <4>3, <5>1, TwoUpdates
      <4> QED
        BY <4>4 DEF e, f
    <3>11. \A n \in Index \ exists' : disk'[n] = <<>>
      BY <2>0, <3>0, <3>10 DEF TypeOK
    <3>12. TypeOK'
      BY <2>0, <3>0, <3>1, <3>10, <3>11 DEF TypeOK
    <3>13. NoneAbove'
      <4>1. \A n \in Index : n > max_backups_ /\ n > 1 => n \notin {0, 1}
        BY IndexFacts
      <4> QED
        BY <2>0, <3>0, <3>10, <4>1 DEF NoneAbove
    <3>14. Core(disk', buffered', reached') /\ Bounded' /\ Gone' /\ Vacated'
      BY <2>0, <3>0, <3>2, <3>6, <3>9 DEF Bounded, Gone, Vacated
    <3> QED
      BY <3>12, <3>13, <3>14 DEF Inv
  <2>10. ASSUME NEW ok \in BOOLEAN, Reopen(ok) PROVE Inv'
    <3> DEFINE size == IF ok THEN FileSize ELSE current_size_
    <3>1. /\ sink = "open" /\ sink' = "idle" /\ i' = i
          /\ exists' = (IF ok THEN exists \cup {0} ELSE exists) /\ is_open' = ok /\ failed' \in BOOLEAN
          /\ max_backups_' = max_backups_ /\ crashes' = crashes /\ rotations' = rotations
          /\ lowered' = lowered /\ WriteEntry(ok, size)
      BY <2>10 DEF Reopen, Opened
    <3>2. /\ size \in Nat /\ entries \in Nat /\ ~is_open /\ buffered = <<>>
          /\ ends \in Seq(Nat) /\ Len(ends) = entries
      <4>1. FileSize \in Nat
        BY <2>0, EndIsNat DEF TypeOK, FileSize
      <4> QED
        BY <2>0, <3>1, <4>1 DEF TypeOK
    <3> HIDE DEF size
    <3>3. /\ Core(disk', buffered', reached')
          /\ OldestGone(disk, reached) => OldestGone(disk', reached')
          /\ \A n \in Index \ {0} : disk'[n] = disk[n]
          /\ Bounded' /\ entries' \in Nat /\ current_size_' \in Nat
          /\ ends' \in Seq(Nat) /\ Len(ends') = entries'
          /\ ~ok => disk' = disk /\ buffered' = buffered
      BY <2>0, <3>1, <3>2, WriteStep
    <3>4. \A n \in Index \ exists' : disk'[n] = <<>>
      BY <2>0, <3>1, <3>3 DEF TypeOK
    <3>5. TypeOK'
      BY <2>0, <3>1, <3>2, <3>3, <3>4 DEF TypeOK, Core
    <3>6. NoneAbove'
      BY <2>0, <3>1, <3>3, OthersStay
    <3>7. Vacated' /\ Gone'
      BY <2>0, <3>1, <3>3 DEF Vacated, Gone
    <3> QED
      BY <3>3, <3>5, <3>6, <3>7 DEF Inv
  <2>11. ASSUME ReopenThrows PROVE Inv'
    <3>1. /\ sink' = "idle" /\ exists' = exists \cup {0} /\ is_open' = TRUE /\ failed' \in BOOLEAN
          /\ disk' = disk /\ buffered' = buffered /\ current_size_' = current_size_ /\ reached' = reached
          /\ entries' = entries + 1 /\ ends' = Append(ends, 0) /\ i' = i /\ max_backups_' = max_backups_
          /\ crashes' = crashes /\ rotations' = rotations /\ lowered' = lowered
      BY <2>11 DEF ReopenThrows, Opened
    <3>2. entries \in Nat /\ ends' \in Seq(Nat) /\ Len(ends') = entries'
      BY <2>0, <3>1, AppendProperties DEF TypeOK
    <3>3. TypeOK'
      BY <2>0, <3>1, <3>2 DEF TypeOK
    <3>4. Bounded'
      BY <2>0, <3>1, <3>2 DEF Bounded
    <3> QED
      BY <2>0, <3>1, <3>3, <3>4 DEF Inv, Vacated, NoneAbove, Gone
  <2>12. ASSUME Crash PROVE Inv'
    <3>1. /\ sink' = "none" /\ is_open' = FALSE /\ buffered' = <<>> /\ current_size_' = 0 /\ i' = 0
          /\ crashes' = (IF sink = "idle" THEN crashes ELSE crashes + 1)
          /\ exists' = exists /\ disk' = disk /\ reached' = reached /\ failed' = failed
          /\ max_backups_' = max_backups_ /\ entries' = entries /\ ends' = ends
          /\ rotations' = rotations /\ lowered' = lowered
      BY <2>12 DEF Crash, files
    <3>5. crashes' \in Nat /\ buffered' \in Seq(Nat) /\ i' \in -1..(MaxIndex - 1)
      BY <2>0, <3>1, ElementsOfEmpty DEF TypeOK
    <3>6. /\ exists' = exists /\ disk' = disk /\ reached' = reached /\ failed' = failed
          /\ max_backups_' = max_backups_ /\ entries' = entries /\ ends' = ends
          /\ rotations' = rotations /\ lowered' = lowered
          /\ sink' = "none" /\ is_open' = FALSE /\ buffered' = <<>> /\ current_size_' = 0
      BY <3>1
    <3>2. TypeOK'
      BY <2>0, <3>5, <3>6 DEF TypeOK
    <3>3. Core(disk', buffered', reached')
      BY <2>0, <3>1, ElementsOfEmpty DEF Core
    <3>4. Bounded'
      BY <2>0, <3>1, ElementsOfEmpty DEF Bounded
    <3> QED
      BY <2>0, <3>1, <3>2, <3>3, <3>4 DEF Inv, Vacated, NoneAbove, Gone
  <2>14. ASSUME ConstructThrows PROVE Inv'
    <3>1. /\ sink = "none" /\ sink' = sink /\ exists' = exists \cup {0} /\ failed' = TRUE
          /\ disk' = disk /\ buffered' = buffered /\ current_size_' = current_size_ /\ reached' = reached
          /\ entries' = entries /\ ends' = ends /\ i' = i /\ max_backups_' = max_backups_ /\ is_open' = is_open
          /\ crashes' = crashes /\ rotations' = rotations /\ lowered' = lowered
      BY <2>14 DEF ConstructThrows, stream
    <3>2. TypeOK'
      BY <2>0, <3>1 DEF TypeOK
    <3> QED
      BY <2>0, <3>1, <3>2 DEF Inv, Bounded, Vacated, NoneAbove, Gone
  <2>13. ASSUME UNCHANGED vars PROVE Inv'
    BY <2>0, <2>13 DEF vars, Inv, TypeOK, Bounded, Vacated, NoneAbove, Gone
  <2> QED
    BY <1>2, <2>1, <2>2, <2>3, <2>4, <2>5, <2>6, <2>7, <2>8, <2>9, <2>10, <2>11, <2>12, <2>13,
       <2>14
    DEF Next, RemoveFails, ShiftFails, RenameCurrentFails
<1> QED
  BY <1>1, <1>2, PTL DEF Spec

(* Types of every reachable state. *)
THEOREM TypeCorrect == Spec => []TypeOK
<1>1. Inv => TypeOK
  BY DEF Inv
<1> QED
  BY <1>1, Invariance, PTL

(* The files hold entries in the order they were logged, whatever fails.   *)
THEOREM AlwaysInOrder == Spec => []BackupsInOrder
<1>1. Inv => BackupsInOrder
  BY DEF Inv, Core, BackupsInOrder, Before
<1> QED
  BY <1>1, Invariance, PTL

(* Rotation removes only the oldest entries, whatever fails. *)
THEOREM OldestLostFirst == Spec => []OnlyOldestLost
<1>1. ASSUME Inv PROVE OnlyOldestLost
  <2>1. \A n \in Index : Elements(disk[n]) \subseteq Nat
    BY <1>1 DEF Inv, Core
  <2>2. \A x : x \in Kept <=> Held(disk, x)
    BY DEF Kept, Held
  <2>3. \A y \in Kept : y \in Nat
    BY <2>1, <2>2 DEF Held
  <2> QED
    BY <1>1, <2>2, <2>3 DEF Inv, Gone, OldestGone, OnlyOldestLost
<1> QED
  BY <1>1, Invariance, PTL
----------------------------------------------------------------------------
(* As long as nothing fails, current_size_ is how long path_ will be with  *)
(* what is buffered, and of two entries of it the newer ends later.        *)
Sized ==
  rotation_size_ > 0 /\ ~failed =>
    /\ \A n \in Index : \A x, y \in Entries(n) : x < y => ends[x] < rotation_size_
    /\ \A x, y \in Written : x <= y => ends[x] <= ends[y]
    /\ sink = "idle" => is_open /\ current_size_ = End(Written)
    /\ sink = "open" => Elements(disk[0]) = {}

(* Entries have been handed to Write and have an end. *)
LEMMA EntriesFacts ==
  ASSUME Inv
  PROVE  /\ 1..entries \subseteq Nat /\ entries \in Nat /\ End(Written) \in Nat
         /\ \A x \in 1..entries : ends[x] \in Nat
         /\ \A n \in Index : Entries(n) \subseteq 1..entries
         /\ Elements(disk[0]) \subseteq Written /\ Written \subseteq 1..entries
         /\ Entries(0) = Written /\ \A n \in Index \ {0} : Entries(n) = Elements(disk[n])
<1>1. Core(disk, buffered, reached) /\ Bounded /\ ends \in Seq(Nat) /\ Len(ends) = entries
  BY DEF Inv, TypeOK
<1>2. Entries(0) = Written /\ \A n \in Index \ {0} : Entries(n) = Elements(disk[n])
  BY DEF Entries
<1>3. /\ \A n \in Index : Elements(disk[n]) \subseteq 1..entries
      /\ Written \subseteq 1..entries
  BY <1>1, NewestExists
<1>4. \A x \in 1..entries : ends[x] \in Nat
  BY <1>1, ElementOfSeq
<1>5. entries \in Nat /\ 1..entries \subseteq Nat
  BY <1>1, LenProperties
<1> QED
  BY <1>1, <1>2, <1>3, <1>4, <1>5, EndIsNat DEF Written

(* No entry ends later than the file, if the newer ends later. *)
LEMMA NoneEndsLater ==
  ASSUME Inv, \A x, y \in Written : x <= y => ends[x] <= ends[y]
  PROVE  \A S \in {Elements(disk[0]), Written} : \A x \in S : ends[x] <= End(S)
<1>1. /\ Core(disk, buffered, reached) /\ Bounded
      /\ Elements(disk[0]) \subseteq Written /\ Written \subseteq Nat
  BY EntriesFacts DEF Inv
<1>2. ASSUME NEW S \in {Elements(disk[0]), Written}, NEW x \in S PROVE ends[x] <= End(S)
  <2>1. S \in SUBSET Nat /\ S \subseteq Written
    BY <1>1
  <2>2. PICK z \in S : \A y \in S : y <= z
    BY <1>1, <1>2, NewestExists
  <2>3. End(S) = ends[z]
    BY <2>1, <2>2, EndIs
  <2>4. x \in Written /\ z \in Written /\ x <= z
    BY <1>2, <2>1, <2>2
  <2> QED
    BY <2>3, <2>4
<1> QED
  BY <1>2

(* Closing or flushing moves entries from the buffer to the file. *)
LEMMA CloseKeepsWritten ==
  ASSUME Inv, IF is_open THEN Put(buffered, Len(buffered)) ELSE UNCHANGED <<disk, reached, buffered>>
  PROVE  Written' = Written /\ \A n \in Index \ {0} : disk'[n] = disk[n]
<1>1. /\ Core(disk, buffered, reached) /\ buffered \in Seq(Nat)
      /\ Len(buffered) \in 0..Len(buffered)
  BY LenProperties DEF Inv, TypeOK
<1>2. CASE is_open
  BY <1>1, <1>2, PutStep DEF Written
<1>3. CASE ~is_open
  BY <1>3 DEF Written
<1> QED
  BY <1>2, <1>3

(* What is not written to keeps its sizes. *)
LEMMA SizesStay ==
  ASSUME Inv, ends' = ends,
         \A n \in Index : \A x, y \in Entries(n) : x < y => ends[x] < rotation_size_,
         \A x, y \in Written : x <= y => ends[x] <= ends[y],
         \A n \in Index : \E m \in Index : Entries(n)' \subseteq Entries(m),
         Written' \subseteq Written
  PROVE  /\ \A n \in Index : \A x, y \in Entries(n)' : x < y => ends'[x] < rotation_size_
         /\ \A x, y \in Written' : x <= y => ends'[x] <= ends'[y]
OBVIOUS

(* An entry that is written to a file below its rotation size ends where   *)
(* current_size_ says, and touches no backup.                              *)
LEMMA WriteGrows ==
  ASSUME Inv, NEW size \in Nat, WriteEntry(TRUE, size), size = End(Written),
         size < rotation_size_ \/ Written = {}, rotation_size_ > 0,
         \A n \in Index : \A x, y \in Entries(n) : x < y => ends[x] < rotation_size_,
         \A x, y \in Written : x <= y => ends[x] <= ends[y]
  PROVE  /\ \A n \in Index : \A x, y \in Entries(n)' : x < y => ends'[x] < rotation_size_
         /\ \A x, y \in Written' : x <= y => ends'[x] <= ends'[y]
         /\ current_size_' = End(Written)'
<1> DEFINE e == entries + 1
<1>1. /\ Core(disk, buffered, reached) /\ Bounded /\ entries \in Nat
      /\ ends \in Seq(Nat) /\ Len(ends) = entries
  BY DEF Inv, TypeOK
<1>2. Written' = Written \cup {e} /\ \A n \in Index \ {0} : disk'[n] = disk[n]
  BY <1>1, WriteStep
<1>3. /\ 1..entries \subseteq Nat /\ size \in Nat /\ Written \subseteq 1..entries
      /\ \A x \in 1..entries : ends[x] \in Nat
      /\ \A n \in Index : Entries(n) \subseteq 1..entries
      /\ Entries(0) = Written /\ \A n \in Index \ {0} : Entries(n) = Elements(disk[n])
  BY EntriesFacts
<1>4. PICK z \in Sizes : current_size_' = size + z /\ ends' = Append(ends, size + z)
  BY DEF WriteEntry
<1>5. z \in Nat /\ size + z \in Nat /\ size + z >= size
  BY ConstantsAssumption
<1>6. ends'[e] = size + z /\ \A x \in 1..entries : ends'[x] = ends[x]
  BY <1>1, <1>4, <1>5, AppendProperties
<1>7. \A x \in Written : ends[x] <= size
  BY NoneEndsLater
<1>8. \A n \in Index : Entries(n)' = IF n = 0 THEN Written \cup {e} ELSE Entries(n)
  BY <1>2, <1>3 DEF Entries
<1>9. e \in Nat /\ \A x \in 1..entries : x < e
  BY <1>1
<1> HIDE DEF e
<1>10. \A x \in Written : ends[x] < rotation_size_
  <2>1. rotation_size_ \in Nat
    BY ConstantsAssumption
  <2> QED
    BY <1>3, <1>7, <2>1
<1>11. ASSUME NEW n \in Index, NEW x \in Entries(n)', NEW y \in Entries(n)', x < y
       PROVE  ends'[x] < rotation_size_
  <2>1. CASE n = 0
    <3>1. x # e
      BY <1>3, <1>8, <1>9, <1>11, <2>1
    <3>2. x \in Written
      BY <1>8, <1>11, <2>1, <3>1
    <3> QED
      BY <1>3, <1>6, <1>10, <3>2
  <2>2. CASE n # 0
    <3>1. x \in Entries(n) /\ y \in Entries(n)
      BY <1>8, <1>11, <2>2
    <3> QED
      BY <1>3, <1>6, <1>11, <3>1
  <2> QED
    BY <2>1, <2>2
<1>12. ASSUME NEW x \in Written', NEW y \in Written', x <= y PROVE ends'[x] <= ends'[y]
  <2>1. CASE x = e
    <3>1. y = e
      BY <1>2, <1>3, <1>9, <1>12, <2>1
    <3> QED
      BY <1>5, <1>6, <2>1, <3>1
  <2>2. CASE x # e /\ y = e
    <3>1. x \in Written /\ ends'[x] = ends[x] /\ ends[x] \in Nat /\ ends[x] <= size
      BY <1>2, <1>3, <1>6, <1>7, <1>12, <2>2
    <3> QED
      BY <1>5, <1>6, <2>2, <3>1
  <2>3. CASE x # e /\ y # e
    <3>1. x \in Written /\ y \in Written
      BY <1>2, <1>12, <2>3
    <3> QED
      BY <1>3, <1>6, <1>12, <3>1
  <2> QED
    BY <2>1, <2>2, <2>3
<1>13. End(Written)' = ends'[e]
  <2> DEFINE S == Written \cup {e}
             c == CHOOSE x \in S : \A y \in S : y <= x
  <2>1. e \in S /\ \A y \in S : y <= e
    BY <1>3, <1>9
  <2>2. c \in S /\ \A y \in S : y <= c
    BY <2>1
  <2>3. S # {} /\ S \subseteq Nat
    BY <1>3, <1>9
  <2>4. End(Written)' = ends'[c]
    BY <1>2, <2>3 DEF End
  <2> HIDE DEF c, S
  <2>5. c = e
    BY <2>1, <2>2, <2>3
  <2> QED
    BY <2>4, <2>5
<1> QED
  BY <1>4, <1>6, <1>11, <1>12, <1>13

(* The backups that are there. *)
Backups == Cardinality(exists \ {0})

(* How a rename or a removal changes their number. *)
LEMMA CountBackups ==
  ASSUME NEW e \in SUBSET Index
  PROVE  /\ Cardinality(e \ {0}) \in Nat
         /\ (e \cup {0}) \ {0} = e \ {0}
         /\ \A n \in Index \ {0} : Cardinality((e \ {n}) \ {0}) =
                                     Cardinality(e \ {0}) - IF n \in e THEN 1 ELSE 0
         /\ \A n \in Index \ {0} : n \in e /\ n + 1 \in Index /\ n + 1 \notin e =>
              Cardinality(((e \ {n}) \cup {n + 1}) \ {0}) = Cardinality(e \ {0})
         /\ Cardinality(((e \ {0}) \cup {1}) \ {0}) =
              Cardinality(e \ {0}) + IF 1 \in e THEN 0 ELSE 1
<1> DEFINE f == e \ {0}
<1>1. IsFiniteSet(Index)
  BY ConstantsAssumption, FS_Interval DEF Index
<1>2. f \in SUBSET Index /\ IsFiniteSet(f)
  BY <1>1, FS_Subset
<1>3. Cardinality(f) \in Nat
  BY <1>2, FS_CardinalityType
<1>4. ASSUME NEW n \in Index \ {0}
      PROVE  Cardinality((e \ {n}) \ {0}) = Cardinality(f) - IF n \in e THEN 1 ELSE 0
  <2>1. (e \ {n}) \ {0} = f \ {n} /\ (n \in e <=> n \in f)
    OBVIOUS
  <2>2. Cardinality(f \ {n}) = IF n \in f THEN Cardinality(f) - 1 ELSE Cardinality(f)
    BY <1>2, FS_RemoveElement
  <2> HIDE DEF f
  <2> QED
    BY <1>3, <2>1, <2>2
<1>5. ASSUME NEW n \in Index \ {0}, n \in e, n + 1 \in Index, n + 1 \notin e
      PROVE  Cardinality(((e \ {n}) \cup {n + 1}) \ {0}) = Cardinality(f)
  <2> DEFINE g == f \ {n}
             m == n + 1
  <2>1. m # 0 /\ m # n
    BY IndexFacts
  <2>2. ((e \ {n}) \cup {m}) \ {0} = g \cup {m} /\ n \in f /\ m \notin g
    BY <1>5, <2>1
  <2>3. IsFiniteSet(g) /\ Cardinality(g) = Cardinality(f) - 1
    <3>1. n \in f
      BY <2>2
    <3> HIDE DEF f
    <3>2. IsFiniteSet(f \ {n})
          /\ Cardinality(f \ {n}) = IF n \in f THEN Cardinality(f) - 1 ELSE Cardinality(f)
      BY <1>2, FS_RemoveElement
    <3> QED
      BY <3>1, <3>2
  <2> HIDE DEF g, m, f
  <2>4. Cardinality(g \cup {m}) = Cardinality(g) + 1
    BY <2>2, <2>3, FS_AddElement
  <2>5. Cardinality(((e \ {n}) \cup {m}) \ {0}) = Cardinality(f)
    <3>1. Cardinality(g \cup {m}) = Cardinality(f)
      BY <1>3, <2>3, <2>4
    <3> QED
      BY <2>2, <3>1
  <2> QED
    BY <2>5 DEF m
<1>6. Cardinality(((e \ {0}) \cup {1}) \ {0}) = Cardinality(f) + IF 1 \in e THEN 0 ELSE 1
  <2>1. ((e \ {0}) \cup {1}) \ {0} = f \cup {1} /\ (1 \in e <=> 1 \in f)
    OBVIOUS
  <2>2. Cardinality(f \cup {1}) = IF 1 \in f THEN Cardinality(f) ELSE Cardinality(f) + 1
    BY <1>2, FS_AddElement
  <2> HIDE DEF f
  <2> QED
    BY <1>3, <2>1, <2>2
<1>7. (e \cup {0}) \ {0} = f
  OBVIOUS
<1> QED
  BY <1>3, <1>4, <1>5, <1>6, <1>7

(* Sizes over a step. *)
LEMMA SizedNext ==
  ASSUME Inv, Sized, [Next]_vars
  PROVE  Sized'
<1> DEFINE Below == \A n \in Index : \A x, y \in Entries(n) : x < y => ends[x] < rotation_size_
           Rising == \A x, y \in Written : x <= y => ends[x] <= ends[y]
<1> SUFFICES ASSUME rotation_size_ > 0, ~failed' PROVE Sized'
  BY DEF Sized
<1>0. /\ rotation_size_ \in Nat /\ 0 \in Index /\ 1 \in Index
      /\ disk \in [Index -> Seq(Nat)] /\ Elements(<<>>) = {}
      /\ Elements(disk[0]) \subseteq Written
      /\ Entries(0) = Written /\ \A n \in Index \ {0} : Entries(n) = Elements(disk[n])
  BY EntriesFacts, ConstantsAssumption, IndexFacts, ElementsOfEmpty DEF Inv, TypeOK
<1>1. ASSUME ~failed
      PROVE  /\ Below /\ Rising
             /\ sink = "idle" => is_open /\ current_size_ = End(Written)
             /\ sink = "open" => Elements(disk[0]) = {}
  BY <1>1 DEF Sized
<1>2. ASSUME ~failed, ends' = ends, Written' \subseteq Written,
             \A n \in Index : \E m \in Index : Entries(n)' \subseteq Entries(m),
             sink' = "idle" => is_open' /\ current_size_' = End(Written)',
             sink' = "open" => Elements(disk'[0]) = {}
      PROVE  Sized'
  <2>1. Below /\ Rising
    BY <1>1, <1>2
  <2>2. /\ \A n \in Index : \A x, y \in Entries(n)' : x < y => ends'[x] < rotation_size_
        /\ \A x, y \in Written' : x <= y => ends'[x] <= ends'[y]
    BY <1>2, <2>1, SizesStay
  <2> QED
    BY <1>2, <2>2 DEF Sized
<1> HIDE DEF Below, Rising
<1>3. ASSUME \A n \in Index \ {0} : \E m \in Index : Elements(disk'[n]) \subseteq Entries(m),
             Written' \subseteq Written
      PROVE  \A n \in Index : \E m \in Index : Entries(n)' \subseteq Entries(m)
  BY <1>0, <1>3 DEF Entries
<1>4. ASSUME NEW n \in BackupSettings, NEW ok \in BOOLEAN, Construct(n, ok)
      PROVE  Sized'
  <2>1. /\ disk' = disk /\ buffered' = buffered /\ sink' = "idle" /\ sink = "none" /\ ends' = ends
        /\ failed' = (failed \/ ~ok \/ ~TRUE) /\ is_open' = ok
        /\ current_size_' = IF ok THEN FileSize ELSE 0
    BY <1>4 DEF Construct, Opened
  <2>2. ~failed /\ ok
    BY <2>1, Zenon
  <2>3. Written = Elements(disk[0])
    <3>1. buffered = <<>>
      BY <2>1 DEF Inv, TypeOK
    <3> QED
      BY <1>0, <3>1 DEF Written
  <2>4. Written' = Written /\ \A m \in Index : Entries(m)' = Entries(m)
    BY <2>1 DEF Written, Entries
  <2>5. current_size_' = End(Written)'
    BY <2>1, <2>2, <2>3, <2>4 DEF FileSize, End
  <2> QED
    BY <1>2, <2>1, <2>2, <2>4, <2>5
<1>5. ASSUME Destroy \/ Flush \/ Rotate PROVE Sized'
  <2>1. /\ IF is_open THEN Put(buffered, Len(buffered)) ELSE UNCHANGED <<disk, reached, buffered>>
        /\ failed' = failed /\ sink = "idle" /\ ends' = ends
        /\ sink' = "idle" => is_open' = is_open /\ current_size_' = current_size_
        /\ sink' # "open"
    BY <1>5 DEF Destroy, Flush, Rotate, history
  <2>2. Written' = Written /\ \A n \in Index \ {0} : disk'[n] = disk[n]
    BY <2>1, CloseKeepsWritten
  <2>3. ~failed /\ is_open /\ current_size_ = End(Written)
    BY <1>1, <2>1
  <2>4. sink' = "idle" => is_open' /\ current_size_' = End(Written)'
    BY <2>1, <2>2, <2>3 DEF End
  <2>5. \A n \in Index : \E m \in Index : Entries(n)' \subseteq Entries(m)
    BY <1>0, <1>3, <2>2
  <2> QED
    BY <1>2, <2>1, <2>2, <2>3, <2>4, <2>5
<1>6. ASSUME Write PROVE Sized'
  <2>1. /\ sink = "idle" /\ sink' = sink /\ failed' = failed /\ is_open' = is_open
        /\ WriteEntry(is_open, current_size_)
        /\ ~(rotation_size_ > 0 /\ current_size_ >= rotation_size_)
    BY <1>6 DEF Write, history, NeedsRotation
  <2>2. /\ ~failed /\ is_open = TRUE /\ current_size_ = End(Written) /\ current_size_ \in Nat
        /\ Below /\ Rising
    BY <1>1, <2>1 DEF Inv, TypeOK
  <2>3. WriteEntry(TRUE, current_size_)
    BY <2>1, <2>2
  <2>4. current_size_ < rotation_size_
    BY <1>0, <2>1, <2>2
  <2>5. /\ \A n \in Index : \A x, y \in Entries(n)' : x < y => ends'[x] < rotation_size_
        /\ \A x, y \in Written' : x <= y => ends'[x] <= ends'[y]
        /\ current_size_' = End(Written)'
    BY <2>2, <2>3, <2>4, WriteGrows DEF Below, Rising
  <2> QED
    BY <2>1, <2>2, <2>5 DEF Sized
<1>7. ASSUME RemoveOldest PROVE Sized'
  <2>1. /\ sink' = "shift" /\ failed' = failed /\ buffered' = buffered /\ ends' = ends
        /\ IF max_backups_ > 0 THEN disk' = [disk EXCEPT ![max_backups_] = <<>>] ELSE disk' = disk
    BY <1>7 DEF RemoveOldest, history, stream, files
  <2>2. \A n \in Index : disk'[n] = disk[n] \/ disk'[n] = <<>>
    BY <1>0, <2>1
  <2>3. Written' \subseteq Written
    BY <1>0, <2>1, <2>2 DEF Written
  <2>4. \A n \in Index \ {0} : Elements(disk'[n]) \subseteq Entries(n)
    BY <1>0, <2>2
  <2>5. \A n \in Index : \E m \in Index : Entries(n)' \subseteq Entries(m)
    BY <1>3, <2>3, <2>4
  <2> QED
    BY <1>2, <2>1, <2>3, <2>5
<1>8. ASSUME Throws \/ ConstructThrows \/ ReopenThrows PROVE Sized'
  BY <1>8 DEF Throws, ConstructThrows, ReopenThrows, Opened
<1>9. ASSUME Shift PROVE Sized'
  <2>1. /\ sink = "shift" /\ sink' = "shift" /\ failed' = failed /\ buffered' = buffered /\ i >= 1
        /\ ends' = ends
        /\ IF i \in exists THEN disk' = [disk EXCEPT ![i + 1] = disk[i], ![i] = <<>>]
                           ELSE disk' = disk
    BY <1>9 DEF Shift, Rename, history, stream, files
  <2>2. i \in Index /\ i + 1 \in Index /\ i # 0 /\ i + 1 # 0 /\ i # i + 1
    BY <2>1, ConstantsAssumption DEF Inv, TypeOK, Index
  <2>3. /\ disk'[0] = disk[0]
        /\ \A n \in Index \ {0} : disk'[n] \in {disk[n], disk[i], <<>>}
    BY <1>0, <2>1, <2>2
  <2>4. Written' \subseteq Written
    BY <2>1, <2>3 DEF Written
  <2>5. \A n \in Index \ {0} : \/ Elements(disk'[n]) \subseteq Entries(n)
                               \/ Elements(disk'[n]) \subseteq Entries(i)
    BY <1>0, <2>2, <2>3
  <2>6. \A n \in Index : \E m \in Index : Entries(n)' \subseteq Entries(m)
    BY <1>3, <2>2, <2>4, <2>5
  <2> QED
    BY <1>2, <2>1, <2>4, <2>6
<1>10. ASSUME RenameCurrent PROVE Sized'
  <2>1. /\ sink' = "open" /\ failed' = failed /\ buffered' = buffered /\ ends' = ends
        /\ disk' = [disk EXCEPT ![1] = disk[0], ![0] = <<>>]
    BY <1>10 DEF RenameCurrent, Rename, stream
  <2>2. disk'[0] = <<>> /\ \A n \in Index \ {0} : disk'[n] \in {disk[n], disk[0]}
    BY <1>0, <2>1
  <2>3. Written' \subseteq Written
    BY <1>0, <2>1, <2>2 DEF Written
  <2>4. \A n \in Index \ {0} : \/ Elements(disk'[n]) \subseteq Entries(n)
                               \/ Elements(disk'[n]) \subseteq Entries(0)
    BY <1>0, <2>2
  <2>5. \A n \in Index : \E m \in Index : Entries(n)' \subseteq Entries(m)
    BY <1>0, <1>3, <2>3, <2>4
  <2> QED
    BY <1>0, <1>2, <2>1, <2>2, <2>3, <2>5
<1>11. ASSUME NEW ok \in BOOLEAN, Reopen(ok) PROVE Sized'
  <2>1. /\ sink = "open" /\ sink' = "idle" /\ is_open' = ok
        /\ failed' = (failed \/ ~ok \/ ~TRUE)
        /\ WriteEntry(ok, IF ok THEN FileSize ELSE current_size_)
    BY <1>11 DEF Reopen, Opened
  <2>2. ~failed /\ ok = TRUE
    BY <2>1, Zenon
  <2>3. Elements(disk[0]) = {} /\ buffered = <<>> /\ Below /\ Rising
    BY <1>1, <2>1, <2>2 DEF Inv, TypeOK
  <2>4. Written = {} /\ FileSize = 0 /\ End(Written) = 0
    BY <1>0, <2>3 DEF Written, FileSize, End
  <2>5. 0 \in Nat /\ 0 = End(Written)
    BY <2>4
  <2>6. WriteEntry(TRUE, 0)
    <3>1. (IF ok THEN FileSize ELSE current_size_) = 0
      BY <2>2, <2>4
    <3> QED
      BY <2>1, <2>2, <3>1
  <2>7. /\ \A n \in Index : \A x, y \in Entries(n)' : x < y => ends'[x] < rotation_size_
        /\ \A x, y \in Written' : x <= y => ends'[x] <= ends'[y]
        /\ current_size_' = End(Written)'
    BY <2>3, <2>4, <2>6, <2>5, WriteGrows DEF Below, Rising
  <2> QED
    BY <2>1, <2>2, <2>7 DEF Sized
<1>12. ASSUME Crash PROVE Sized'
  <2>1. sink' = "none" /\ failed' = failed /\ buffered' = <<>> /\ disk' = disk /\ ends' = ends
    BY <1>12 DEF Crash, files
  <2>2. Written' \subseteq Written
    BY <1>0, <2>1 DEF Written
  <2>3. \A n \in Index \ {0} : Elements(disk'[n]) \subseteq Entries(n)
    BY <1>0, <2>1
  <2>4. \A n \in Index : \E m \in Index : Entries(n)' \subseteq Entries(m)
    BY <1>3, <2>2, <2>3
  <2> QED
    BY <1>2, <2>1, <2>2, <2>4
<1>13. ASSUME UNCHANGED vars PROVE Sized'
  BY <1>13 DEF vars, Sized, Written, Entries, End
<1> QED
  BY <1>4, <1>5, <1>6, <1>7, <1>8, <1>9, <1>10, <1>11, <1>12, <1>13
  DEF Next, RemoveFails, ShiftFails, RenameCurrentFails

(* Rotate has removed the oldest backup and is renaming the others. *)
Rotating == sink = "shift" /\ max_backups_ > 0

(* As long as nothing fails, suffixes are no larger than the backups there *)
(* are, but for the gaps that crashes and a rotation under way leave; so   *)
(* the one a rotation removes is one too many.                             *)
Counted ==
  ~failed =>
    /\ Rotating => i + 1 \notin exists
    /\ \A n \in exists \ {0} : n <= Backups + crashes + (IF Rotating /\ n > i THEN 1 ELSE 0)
    /\ IF Rotating THEN Backups + crashes + 1 >= Min2(rotations + 1, max_backups_)
                   ELSE Backups + crashes >= Min2(rotations, max_backups_)

(* Steps outside the renames, which may create path_. *)
LEMMA CountedStays ==
  ASSUME Inv, Counted, exists' \in {exists, exists \cup {0}}, ~Rotating, ~Rotating', ~failed,
         crashes' \in Nat, crashes' >= crashes, rotations' \in Nat, max_backups_' \in Nat,
         Min2(rotations', max_backups_') <= Min2(rotations, max_backups_) \/ rotations' = 0
  PROVE  Counted'
<1>1. /\ exists \in SUBSET Index /\ crashes \in Nat /\ rotations \in Nat
      /\ max_backups_ \in Nat
  BY ConstantsAssumption DEF Inv, TypeOK
<1>2. exists' \ {0} = exists \ {0} /\ Backups \in Nat /\ Backups' = Backups
  BY <1>1, CountBackups DEF Backups
<1>3. /\ \A n \in exists \ {0} : n \in Nat /\ n <= Backups + crashes
      /\ Backups + crashes >= Min2(rotations, max_backups_)
  BY <1>1, <1>2, IndexFacts DEF Counted
<1>4. \A n \in exists' \ {0} : n <= Backups' + crashes'
  BY <1>1, <1>2, <1>3
<1>5. Min2(rotations, max_backups_) \in Nat
  BY <1>1 DEF Min2
<1>6. Backups' + crashes' >= Min2(rotations', max_backups_')
  <2> DEFINE m == Min2(rotations, max_backups_)
             n == Min2(rotations', max_backups_')
  <2>1. n \in Nat /\ (rotations' = 0 => n = 0)
    BY DEF Min2
  <2>2. n <= m \/ n = 0
    BY <2>1
  <2>3. m \in Nat /\ m <= Backups + crashes
    BY <1>1, <1>2, <1>3, <1>5
  <2> HIDE DEF m, n
  <2>4. n <= Backups' + crashes'
    <3> DEFINE k == Backups
               k2 == Backups'
               c2 == crashes'
    <3>1. k \in Nat /\ k2 = k
      BY <1>2
    <3>2. c2 \in Nat /\ c2 >= crashes
      OBVIOUS
    <3> HIDE DEF k, k2, c2
    <3>3. m <= k + crashes
      BY <2>3 DEF k
    <3>4. n <= k2 + c2
      BY <1>1, <2>1, <2>2, <2>3, <3>1, <3>2, <3>3
    <3> QED
      BY <3>4 DEF k2, c2
  <2>5. Backups' + crashes' >= n
    BY <1>1, <1>2, <2>1, <2>4
  <2> QED
    BY <2>5 DEF n
<1>7. \A n \in exists' \ {0} : n <= Backups' + crashes' + 0
  BY <1>2, <1>4
<1> QED
  BY <1>6, <1>7 DEF Counted

(* What there is to count, and how many of the backups a rotation keeps. *)
LEMMA CountFacts ==
  ASSUME Inv
  PROVE  /\ exists \in SUBSET Index /\ exists \subseteq Nat /\ Backups \in Nat
         /\ crashes \in Nat /\ rotations \in Nat
         /\ max_backups_ \in Nat /\ max_backups_ <= MaxIndex /\ MaxIndex \in Nat
         /\ \A n \in Nat : n > 0 /\ n <= MaxIndex => n \in Index \ {0}
<1>1. exists \in SUBSET Index /\ crashes \in Nat /\ rotations \in Nat /\ max_backups_ \in BackupSettings
  BY DEF Inv, TypeOK
<1>2. Backups \in Nat
  BY <1>1, CountBackups DEF Backups
<1> QED
  BY <1>1, <1>2, ConstantsAssumption, IndexFacts DEF Index

(* The oldest of max_backups_ goes: there are as many, or one fewer and    *)
(* max_backups_ - 1 are left.                                              *)
LEMMA RemoveCounts ==
  ASSUME Inv, Counted, ~failed, RemoveOldest
  PROVE  Counted'
<1> DEFINE mb == max_backups_
           k == Backups
           k2 == Backups'
<1>1. /\ sink = "remove" /\ sink' = "shift" /\ i' = mb - 1 /\ max_backups_' = mb
      /\ crashes' = crashes /\ rotations' = rotations
      /\ IF mb > 0 THEN exists' = exists \ {mb} ELSE exists' = exists
  BY DEF RemoveOldest, history, files
<1>2. /\ exists \in SUBSET Index /\ exists \subseteq Nat /\ k \in Nat
      /\ crashes \in Nat /\ rotations \in Nat /\ mb \in Nat
      /\ mb > 0 => mb \in Index \ {0}
  BY CountFacts
<1>3. CASE ~(mb > 0)
  <2>1. ~Rotating /\ ~Rotating' /\ exists' \in {exists, exists \cup {0}}
    BY <1>1, <1>3 DEF Rotating
  <2>2. Min2(rotations', max_backups_') <= Min2(rotations, max_backups_)
    BY <1>1, <1>2 DEF Min2
  <2> HIDE DEF mb
  <2>3. crashes' \in Nat /\ crashes' >= crashes /\ rotations' \in Nat /\ max_backups_' \in Nat
    BY <1>1, <1>2
  <2> QED
    BY <2>1, <2>2, <2>3, CountedStays
<1>4. CASE mb > 0
  <2>1. /\ \A n \in exists \ {0} : n <= k + crashes
        /\ k + crashes >= Min2(rotations, mb)
    <3>1. ~Rotating
      BY <1>1 DEF Rotating
    <3> QED
      BY <1>2, <3>1 DEF Counted
  <2>2. exists' = exists \ {mb} /\ Rotating'
    BY <1>1, <1>4 DEF Rotating
  <2>3. k2 = k - IF mb \in exists THEN 1 ELSE 0
    BY <1>2, <1>4, <2>2, CountBackups DEF Backups
  <2>4. mb \in exists => mb <= k + crashes
    BY <1>2, <1>4, <2>1
  <2> HIDE DEF mb, k, k2
  <2>5. (i + 1)' \notin exists'
    BY <1>1, <1>2, <2>2
  <2>6. ASSUME NEW n \in exists' \ {0}
        PROVE  n <= k2 + crashes + (IF n > mb - 1 THEN 1 ELSE 0)
    <3>1. n \in Nat /\ n \in exists \ {0} /\ n # mb /\ n <= k + crashes
      BY <1>2, <2>1, <2>2, <2>6
    <3> QED
      BY <1>2, <1>4, <2>3, <2>4, <3>1
  <2>7. k2 + crashes + 1 >= Min2(rotations + 1, mb)
    BY <1>2, <1>4, <2>1, <2>3, <2>4 DEF Min2
  <2>8. /\ Rotating' => (i + 1)' \notin exists'
        /\ \A n \in exists' \ {0} : n <= k2 + crashes' + (IF Rotating' /\ n > i' THEN 1 ELSE 0)
        /\ IF Rotating' THEN k2 + crashes' + 1 >= Min2(rotations' + 1, max_backups_')
                        ELSE k2 + crashes' >= Min2(rotations', max_backups_')
    BY <1>1, <2>2, <2>5, <2>6, <2>7 DEF mb
  <2> QED
    BY <2>8 DEF Counted, k2
<1> QED
  BY <1>3, <1>4

(* A backup gets the next suffix, or there is a gap. *)
LEMMA ShiftCounts ==
  ASSUME Inv, Counted, ~failed, Shift
  PROVE  Counted'
<1> DEFINE k == Backups
           k2 == Backups'
           r == Min2(rotations + 1, max_backups_)
<1>1. /\ sink = "shift" /\ sink' = "shift" /\ i' = i - 1 /\ max_backups_' = max_backups_
      /\ crashes' = crashes /\ rotations' = rotations /\ i >= 1
      /\ IF i \in exists THEN exists' = (exists \ {i}) \cup {i + 1} ELSE exists' = exists
  BY DEF Shift, Rename, history, files
<1>2. /\ exists \in SUBSET Index /\ exists \subseteq Nat /\ k \in Nat
      /\ crashes \in Nat /\ rotations \in Nat /\ max_backups_ \in Nat
  BY CountFacts
<1>3. /\ max_backups_ > 0 /\ i \in Nat /\ i \in Index \ {0} /\ i + 1 \in Index
      /\ (i - 1) + 1 = i /\ i + 1 # 0 /\ i # i + 1
  <2>1. max_backups_ > 0 /\ i \in 0..(max_backups_ - 1)
    BY <1>1 DEF Inv, Vacated
  <2> QED
    BY <1>1, <1>2, <2>1, CountFacts
<1>4. Rotating /\ Rotating'
  BY <1>1, <1>3 DEF Rotating
<1>5. /\ i + 1 \notin exists
      /\ \A n \in exists \ {0} : n <= k + crashes + (IF n > i THEN 1 ELSE 0)
      /\ k + crashes + 1 >= r
  BY <1>4 DEF Counted
<1>6. k2 = k
  <2>1. CASE i \in exists
    <3>1. Cardinality(((exists \ {i}) \cup {i + 1}) \ {0}) = Cardinality(exists \ {0})
      BY <1>2, <1>3, <1>5, <2>1, CountBackups
    <3> QED
      BY <1>1, <2>1, <3>1 DEF Backups
  <2>2. CASE i \notin exists
    BY <1>1, <2>2 DEF Backups
  <2> QED
    BY <2>1, <2>2
<1> HIDE DEF k, k2, r
<1>7. i \notin exists'
  BY <1>1, <1>3
<1>8. ASSUME NEW n \in exists' \ {0}
      PROVE  n <= k + crashes + (IF n > i - 1 THEN 1 ELSE 0)
  <2>1. CASE n = i + 1 /\ i \in exists
    <3>1. i <= k + crashes + (IF i > i THEN 1 ELSE 0)
      BY <1>3, <1>5, <2>1
    <3> QED
      BY <1>2, <1>3, <2>1, <3>1
  <2>2. CASE ~(n = i + 1 /\ i \in exists)
    <3>1. n \in exists \ {0} /\ n # i /\ n \in Nat
      BY <1>1, <1>2, <1>7, <1>8, <2>2
    <3>2. n <= k + crashes + (IF n > i THEN 1 ELSE 0)
      BY <1>5, <3>1
    <3> QED
      BY <1>2, <1>3, <3>1, <3>2
  <2> QED
    BY <2>1, <2>2
<1>9. /\ Rotating' => (i + 1)' \notin exists'
      /\ \A n \in exists' \ {0} : n <= k2 + crashes' + (IF Rotating' /\ n > i' THEN 1 ELSE 0)
      /\ IF Rotating' THEN k2 + crashes' + 1 >= r
                      ELSE k2 + crashes' >= Min2(rotations', max_backups_')
  BY <1>1, <1>3, <1>4, <1>5, <1>6, <1>7, <1>8
<1>10. r = Min2(rotations' + 1, max_backups_')
  BY <1>1 DEF r
<1> QED
  BY <1>9, <1>10 DEF Counted, k2

(* The current file becomes backup 1: there is one more, unless no backups *)
(* are asked for and it replaces the one that is there.                    *)
LEMMA RenameCounts ==
  ASSUME Inv, Counted, ~failed, RenameCurrent
  PROVE  Counted'
<1> DEFINE mb == max_backups_
           k == Backups
           k2 == Backups'
<1>1. /\ sink = "shift" /\ sink' = "open" /\ max_backups_' = mb /\ i < 1
      /\ crashes' = crashes /\ rotations' = Min2(rotations + 1, MaxIndex)
      /\ exists' = (exists \ {0}) \cup {1}
  BY DEF RenameCurrent, Rename
<1>2. /\ exists \in SUBSET Index /\ exists \subseteq Nat /\ k \in Nat
      /\ crashes \in Nat /\ rotations \in Nat /\ mb \in Nat /\ mb <= MaxIndex /\ MaxIndex \in Nat
  BY CountFacts
<1>3. k2 = k + IF 1 \in exists THEN 0 ELSE 1
  BY <1>1, <1>2, CountBackups DEF Backups
<1>4. ~Rotating' /\ (Rotating <=> mb > 0)
  BY <1>1 DEF Rotating
<1>5. 1 \in exists => k >= 1
  <2>1. Cardinality((exists \ {1}) \ {0}) = k - (IF 1 \in exists THEN 1 ELSE 0)
    <3>1. 1 \in Index \ {0}
      BY IndexFacts
    <3>2. \A n \in Index \ {0} : Cardinality((exists \ {n}) \ {0}) =
                                   Cardinality(exists \ {0}) - IF n \in exists THEN 1 ELSE 0
      BY <1>2, CountBackups
    <3> QED
      BY <3>1, <3>2 DEF Backups
  <2>2. exists \ {1} \in SUBSET Index
    BY <1>2
  <2>3. Cardinality((exists \ {1}) \ {0}) \in Nat
    BY <2>2, CountBackups
  <2> HIDE DEF k
  <2> QED
    BY <1>2, <2>1, <2>3
<1>6. mb > 0 => i = 0
  BY <1>1 DEF Inv, Vacated
<1>7. /\ mb > 0 => 1 \notin exists
      /\ \A n \in exists \ {0} : n <= k + crashes + (IF mb > 0 THEN 1 ELSE 0)
      /\ mb > 0 => k + crashes + 1 >= Min2(rotations + 1, mb)
  <2>1. CASE mb > 0
    <3>1. i + 1 = 1 /\ \A n \in exists \ {0} : n > i
      BY <1>2, <1>6, <2>1
    <3> QED
      BY <1>4, <2>1, <3>1 DEF Counted
  <2>2. CASE ~(mb > 0)
    BY <1>4, <2>2 DEF Counted
  <2> QED
    BY <2>1, <2>2
<1> HIDE DEF mb, k, k2
<1>8. ASSUME NEW n \in exists' \ {0} PROVE n <= k2 + crashes
  <2>1. CASE n = 1
    BY <1>2, <1>3, <1>5, <2>1
  <2>2. CASE n # 1
    <3>1. n \in exists \ {0} /\ n \in Nat
      BY <1>1, <1>2, <1>8, <2>2
    <3> QED
      BY <1>2, <1>3, <1>7, <3>1
  <2> QED
    BY <2>1, <2>2
<1>9. k2 + crashes >= Min2(Min2(rotations + 1, MaxIndex), mb)
  <2>1. CASE mb > 0
    <3>1. k2 + crashes >= Min2(rotations + 1, mb) /\ k2 \in Nat
      BY <1>2, <1>3, <1>7, <2>1
    <3> QED
      BY <1>2, <3>1 DEF Min2
  <2>2. CASE ~(mb > 0)
    BY <1>2, <1>3, <2>2 DEF Min2
  <2> QED
    BY <2>1, <2>2
<1>10. \A n \in exists' \ {0} : n <= k2 + crashes + 0
  BY <1>2, <1>3, <1>8
<1>11. /\ Rotating' => (i + 1)' \notin exists'
       /\ \A n \in exists' \ {0} : n <= k2 + crashes' + (IF Rotating' /\ n > i' THEN 1 ELSE 0)
       /\ IF Rotating' THEN k2 + crashes' + 1 >= Min2(rotations' + 1, max_backups_')
                       ELSE k2 + crashes' >= Min2(rotations', max_backups_')
  BY <1>1, <1>4, <1>9, <1>10
<1> QED
  BY <1>11 DEF Counted, k2

(* The count over a step. *)
LEMMA CountedNext ==
  ASSUME Inv, Counted, [Next]_vars
  PROVE  Counted'
<1> SUFFICES ASSUME ~failed' PROVE Counted'
  BY DEF Counted
<1>0. /\ crashes \in Nat /\ rotations \in Nat /\ max_backups_ \in Nat
      /\ Min2(rotations, max_backups_) \in Nat
  BY CountFacts DEF Min2
<1>1. ASSUME ~failed, exists' \in {exists, exists \cup {0}}, sink # "shift", sink' # "shift",
             crashes' = crashes, rotations' = rotations, max_backups_' = max_backups_
      PROVE  Counted'
  <2>1. ~Rotating /\ ~Rotating'
    BY <1>1 DEF Rotating
  <2>2. /\ crashes' \in Nat /\ crashes' >= crashes /\ rotations' \in Nat /\ max_backups_' \in Nat
        /\ Min2(rotations', max_backups_') <= Min2(rotations, max_backups_)
    BY <1>0, <1>1
  <2> QED
    BY <1>1, <2>1, <2>2, CountedStays
<1>2. ASSUME NEW n \in BackupSettings, NEW ok \in BOOLEAN, Construct(n, ok) PROVE Counted'
  <2>1. /\ failed' = (failed \/ ~ok \/ ~TRUE)
        /\ exists' \in {exists, exists \cup {0}} /\ sink = "none" /\ sink' = "idle"
        /\ crashes' = crashes /\ max_backups_' = n
        /\ rotations' = IF n = max_backups_ THEN rotations ELSE 0
    BY <1>2 DEF Construct, Opened
  <2>2. ~failed
    BY <2>1, Zenon
  <2>3. ~Rotating /\ ~Rotating'
    BY <2>1 DEF Rotating
  <2>4. n \in Nat
    BY ConstantsAssumption
  <2>5. Min2(rotations', max_backups_') <= Min2(rotations, max_backups_) \/ rotations' = 0
    BY <1>0, <2>1
  <2>6. crashes' \in Nat /\ crashes' >= crashes /\ rotations' \in Nat /\ max_backups_' \in Nat
    BY <1>0, <2>1, <2>4
  <2> QED
    BY <2>1, <2>2, <2>3, <2>5, <2>6, CountedStays
<1>3. ASSUME Destroy \/ Flush \/ Write \/ Rotate PROVE Counted'
  <2>1. /\ failed' = failed /\ exists' = exists /\ sink = "idle" /\ sink' # "shift"
        /\ crashes' = crashes /\ rotations' = rotations /\ max_backups_' = max_backups_
    BY <1>3 DEF Destroy, Flush, Write, Rotate, history
  <2> QED
    BY <1>1, <2>1
<1>4. ASSUME RemoveOldest \/ Shift \/ RenameCurrent PROVE Counted'
  <2>1. failed' = failed
    BY <1>4 DEF RemoveOldest, Shift, RenameCurrent, history
  <2> QED
    BY <1>4, <2>1, RemoveCounts, ShiftCounts, RenameCounts
<1>5. ASSUME Throws \/ ConstructThrows \/ ReopenThrows PROVE Counted'
  BY <1>5 DEF Throws, ConstructThrows, ReopenThrows, Opened
<1>6. ASSUME NEW ok \in BOOLEAN, Reopen(ok) PROVE Counted'
  <2>1. /\ failed' = (failed \/ ~ok \/ ~TRUE)
        /\ exists' \in {exists, exists \cup {0}} /\ sink = "open" /\ sink' = "idle"
        /\ crashes' = crashes /\ rotations' = rotations /\ max_backups_' = max_backups_
    BY <1>6 DEF Reopen, Opened
  <2>2. ~failed
    BY <2>1, Zenon
  <2> QED
    BY <1>1, <2>1, <2>2
<1>7. ASSUME Crash PROVE Counted'
  <2>1. /\ failed' = failed /\ exists' = exists /\ sink' = "none" /\ ~Rotating'
        /\ crashes' = (IF sink = "idle" THEN crashes ELSE crashes + 1)
        /\ rotations' = rotations /\ max_backups_' = max_backups_
    BY <1>7 DEF Crash, files, Rotating
  <2>2. CASE ~Rotating
    <3>1. /\ crashes' \in Nat /\ crashes' >= crashes /\ rotations' \in Nat /\ max_backups_' \in Nat
          /\ Min2(rotations', max_backups_') <= Min2(rotations, max_backups_)
      BY <1>0, <2>1
    <3>2. ~failed /\ exists' \in {exists, exists \cup {0}}
      BY <2>1
    <3> QED
      BY <2>1, <2>2, <3>1, <3>2, CountedStays
  <2>3. CASE Rotating
    <3> DEFINE k == Backups
    <3>1. k \in Nat /\ exists \subseteq Nat
      BY CountFacts
    <3>2. /\ \A n \in exists \ {0} : n <= k + crashes + (IF n > i THEN 1 ELSE 0)
          /\ k + crashes + 1 >= Min2(rotations + 1, max_backups_)
      BY <2>1, <2>3 DEF Counted
    <3>3. crashes' = crashes + 1 /\ Backups' = k
      BY <2>1, <2>3 DEF Rotating, Backups
    <3> HIDE DEF k
    <3>4. \A n \in exists \ {0} : n <= k + (crashes + 1) + 0
      BY <1>0, <3>1, <3>2
    <3>5. k + (crashes + 1) >= Min2(rotations, max_backups_)
      BY <1>0, <3>1, <3>2 DEF Min2
    <3> QED
      BY <2>1, <3>3, <3>4, <3>5 DEF Counted
  <2> QED
    BY <2>2, <2>3
<1>8. ASSUME UNCHANGED vars PROVE Counted'
  BY <1>8 DEF vars, Counted, Rotating, Backups
<1> QED
  BY <1>2, <1>3, <1>4, <1>5, <1>6, <1>7, <1>8
  DEF Next, RemoveFails, ShiftFails, RenameCurrentFails

(* As long as no call fails, no entry is written to a file that has        *)
(* reached rotation_size_, and between rotations there are as many backups *)
(* as asked for or as there were rotations, less one for each process that *)
(* died while it rotated: whatever the sizes and numbers, the lengths of   *)
(* the entries, and over any restarts.                                     *)
THEOREM RetentionIsHeld == Spec => []RetentionHeld
<1>1. Init => Sized /\ Counted
  <2> SUFFICES ASSUME Init PROVE Sized /\ Counted
    OBVIOUS
  <2>1. \A n \in Index : disk[n] = <<>>
    BY DEF Init
  <2>2. Elements(<<>>) = {}
    BY ElementsOfEmpty
  <2>3. Written = {} /\ \A n \in Index : Entries(n) = {}
    BY <2>1, <2>2, IndexFacts DEF Init, Written, Entries
  <2>4. Sized
    BY <2>3 DEF Init, Sized
  <2>5. exists \ {0} = {} /\ Backups = 0
    BY FS_EmptySet DEF Init, Backups
  <2>6. max_backups_ \in Nat /\ Min2(0, max_backups_) = 0
    BY ConstantsAssumption DEF Init, Min2
  <2>7. Counted
    BY <2>5, <2>6 DEF Init, Counted, Rotating
  <2> QED
    BY <2>4, <2>7
<1>2. Inv /\ Sized /\ Counted /\ [Next]_vars => Sized' /\ Counted'
  BY SizedNext, CountedNext
<1>3. Inv /\ Sized /\ Counted => RetentionHeld
  <2> SUFFICES ASSUME Inv, Sized, Counted PROVE RetentionHeld
    OBVIOUS
  <2>1. FilesBounded
    BY DEF Sized, FilesBounded
  <2>2. BackupsKept
    BY DEF Counted, Rotating, BackupsKept, Backups
  <2> QED
    BY <2>1, <2>2 DEF RetentionHeld
<1> QED
  BY <1>1, <1>2, <1>3, Invariance, PTL DEF Spec
=============================================================================
