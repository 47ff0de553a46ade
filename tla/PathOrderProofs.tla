-------------------------- MODULE PathOrderProofs ---------------------------
(***************************************************************************)
(* The orders of an indexing, for paths of any length and every tree: the  *)
(* index sorts its rows in the order of a walk, and diff compares in that  *)
(* order but for the names it names.                                       *)
(***************************************************************************)
EXTENDS PathOrder, TLAPS, WellFoundedInduction

\* The prover of the steps that do not name one.
USE ZenonT(30)

\* The files are paths, and none is a directory.
TreeInv ==
  /\ files \subseteq Paths
  /\ \A p, q \in files : ~IsDirOf(p, q)

Char == Byte \cup {Slash}

\* i is the first position at which two sequences differ.
Differ(s, t, i) ==
  /\ i \in 1 .. Len(s) + 1 /\ i \in 1 .. Len(t) + 1
  /\ \A j \in 1 .. i - 1 : s[j] = t[j]
  /\ i <= Len(s) \/ i <= Len(t)
  /\ i <= Len(s) /\ i <= Len(t) => s[i] # t[i]

\* n is the name in p between the positions d and e.
IsName(p, d, e, n) ==
  /\ e \in d + 1 .. Len(p) + 1 /\ (e = Len(p) + 1 \/ p[e] = Slash)
  /\ \A k \in d + 1 .. e - 1 : p[k] # Slash
  /\ Len(n) = e - 1 - d /\ \A k \in 1 .. e - 1 - d : n[k] = p[d + k]
-----------------------------------------------------------------------------
(* Bytes and sequences.                                                    *)

\* A set of numbers has a least member.
LEMMA LeastOf ==
  ASSUME NEW S, S \subseteq Nat, S # {}
  PROVE  \E m \in S : \A l \in S : m <= l
<1>1. PICK m \in S : \A l \in S : ~(<<l, m>> \in OpToRel(<, Nat))
  BY NatLessThanWellFounded, WFMin
<1>2. \A l \in S : ~(l < m)  BY <1>1 DEF OpToRel
<1> QED  BY <1>2, SMT

\* No name has the byte 1 that stands for a slash.
LEMMA Bytes == \A c \in Char : c \in Nat /\ 1 < c /\ (c # Slash => c \in Byte)
BY PathOrderAssumption, SMT DEF Char, Slash

\* A path is a sequence of bytes, at least one.
LEMMA PathsAreSeqs == \A p \in Paths : p \in Seq(Char) /\ Len(p) \in Nat
<1> SUFFICES ASSUME NEW p \in Paths PROVE p \in Seq(Char) /\ Len(p) \in Nat
  OBVIOUS
<1>1. PICK n \in 1 .. MaxLen : p \in [1 .. n -> Char]  BY DEF Paths, Char
<1>2. n \in Nat  BY PathOrderAssumption, SMT
<1> QED  BY <1>1, <1>2, SMT

\* The sortable path differs from the path in its slashes.
LEMMA Sortable ==
  ASSUME NEW p \in Seq(Char)
  PROVE  /\ Len(SortablePath(p)) = Len(p)
         /\ \A i \in 1 .. Len(p) : SortablePath(p)[i] = IF p[i] = Slash THEN 1 ELSE p[i]
<1>1. DOMAIN p = 1 .. Len(p) /\ Len(p) \in Nat  BY SMT
<1> QED  BY <1>1, SMT DEF SortablePath

\* Two sequences differ somewhere.
LEMMA FirstDifference ==
  ASSUME NEW p \in Seq(Char), NEW q \in Seq(Char), p # q
  PROVE  \E i : Differ(p, q, i)
<1> DEFINE S == {i \in Nat : /\ i >= 1 /\ i <= Len(p) + 1 /\ i <= Len(q) + 1
                             /\ i <= Len(p) \/ i <= Len(q)
                             /\ i <= Len(p) /\ i <= Len(q) => p[i] # q[i]}
<1>1. Len(p) \in Nat /\ Len(q) \in Nat  BY SMT
<1>2. S # {}
  <2> SUFFICES ASSUME S = {} PROVE p = q
    OBVIOUS
  <2>1. \A i \in Nat : i >= 1 /\ i <= Len(p) /\ i <= Len(q) => p[i] = q[i]
    BY <1>1, SMT
  <2>2. Len(p) = Len(q)
    <3>1. CASE Len(p) < Len(q)
      <4>1. Len(p) + 1 \in S  BY <1>1, <3>1, SMT
      <4> QED  BY <4>1
    <3>2. CASE Len(q) < Len(p)
      <4>1. Len(q) + 1 \in S  BY <1>1, <3>2, SMT
      <4> QED  BY <4>1
    <3> QED  BY <1>1, <3>1, <3>2, SMT
  <2> QED  BY <2>1, <2>2, SMT
<1>3. PICK i \in S : \A l \in S : i <= l  BY <1>2, LeastOf
<1>4. \A j \in 1 .. i - 1 : p[j] = q[j]
  <2> SUFFICES ASSUME NEW j \in 1 .. i - 1, p[j] # q[j] PROVE FALSE
    OBVIOUS
  <2>1. j \in S /\ j < i  BY <1>1, SMT
  <2>2. i <= j  BY <1>3, <2>1
  <2> QED  BY <2>1, <2>2, SMT
<1> QED  BY <1>1, <1>4, SMT DEF Differ

\* Where two sequences differ tells which one is less.
LEMMA LessAt ==
  ASSUME NEW s, NEW t, NEW i, Len(s) \in Nat, Len(t) \in Nat, Differ(s, t, i),
         \A j \in 1 .. Len(s) : s[j] \in Nat, \A j \in 1 .. Len(t) : t[j] \in Nat
  PROVE  Less(s, t) <=> i > Len(s) \/ (i <= Len(t) /\ s[i] < t[i])
<1>1. ASSUME i > Len(s) \/ (i <= Len(t) /\ s[i] < t[i]) PROVE Less(s, t)
  <2>1. i \in 1 .. Len(t)  BY <1>1, SMT DEF Differ
  <2>2. \A j \in 1 .. i - 1 : j <= Len(s) /\ s[j] = t[j]  BY SMT DEF Differ
  <2> QED  BY <1>1, <2>1, <2>2 DEF Less
<1>2. ASSUME Less(s, t) PROVE i > Len(s) \/ (i <= Len(t) /\ s[i] < t[i])
  <2>1. PICK k \in 1 .. Len(t) : /\ \A j \in 1 .. k - 1 : j <= Len(s) /\ s[j] = t[j]
                                 /\ k > Len(s) \/ s[k] < t[k]
    BY <1>2 DEF Less
  <2>2. ~(i < k)  BY <2>1, SMT DEF Differ
  <2>3. ~(k < i)  BY <2>1, SMT DEF Differ
  <2>4. i = k  BY <2>1, <2>2, <2>3, SMT DEF Differ
  <2> QED  BY <2>1, <2>4, SMT
<1> QED  BY <1>1, <1>2


\* Paths and their sortable forms differ at the same position.
LEMMA SortableDiffer ==
  ASSUME NEW p \in Seq(Char), NEW q \in Seq(Char), NEW i, Differ(p, q, i)
  PROVE  Differ(SortablePath(p), SortablePath(q), i)
<1>1. Len(p) \in Nat /\ Len(q) \in Nat  BY SMT
<1>2. /\ Len(SortablePath(p)) = Len(p) /\ Len(SortablePath(q)) = Len(q)
      /\ \A j \in 1 .. Len(p) : SortablePath(p)[j] = IF p[j] = Slash THEN 1 ELSE p[j]
      /\ \A j \in 1 .. Len(q) : SortablePath(q)[j] = IF q[j] = Slash THEN 1 ELSE q[j]
  BY Sortable
<1>3. \A j \in 1 .. i - 1 : SortablePath(p)[j] = SortablePath(q)[j]
  BY <1>1, <1>2, SMT DEF Differ
<1>4. ASSUME i <= Len(p), i <= Len(q) PROVE SortablePath(p)[i] # SortablePath(q)[i]
  <2>1. i \in 1 .. Len(p) /\ i \in 1 .. Len(q) /\ p[i] # q[i]  BY <1>1, <1>4, SMT DEF Differ
  <2>2. p[i] \in Char /\ q[i] \in Char  BY <2>1, SMT
  <2>3. 1 < p[i] /\ 1 < q[i] /\ p[i] \in Nat /\ q[i] \in Nat  BY <2>2, Bytes
  <2> QED  BY <1>2, <2>1, <2>3, SMT
<1> QED  BY <1>2, <1>3, <1>4 DEF Differ

\* The order of the index, where two paths differ.
LEMMA SortedAt ==
  ASSUME NEW p \in Seq(Char), NEW q \in Seq(Char), NEW i, Differ(p, q, i)
  PROVE  SortedBefore(p, q) <=>
           \/ i > Len(p)
           \/ i <= Len(q) /\ p[i] = Slash
           \/ i <= Len(q) /\ p[i] # Slash /\ q[i] # Slash /\ p[i] < q[i]
<1> DEFINE s == SortablePath(p)
           t == SortablePath(q)
<1>1. Len(p) \in Nat /\ Len(q) \in Nat  BY SMT
<1>2. /\ Len(s) = Len(p) /\ Len(t) = Len(q)
      /\ \A j \in 1 .. Len(p) : s[j] = IF p[j] = Slash THEN 1 ELSE p[j]
      /\ \A j \in 1 .. Len(q) : t[j] = IF q[j] = Slash THEN 1 ELSE q[j]
  BY Sortable
<1>3. Differ(s, t, i)  BY SortableDiffer
<1> HIDE DEF s, t
<1>4. \A j \in 1 .. Len(p) : p[j] \in Nat /\ 1 < p[j]
  <2>1. \A j \in 1 .. Len(p) : p[j] \in Char  BY SMT
  <2> QED  BY <2>1, Bytes
<1>5. \A j \in 1 .. Len(q) : q[j] \in Nat /\ 1 < q[j]
  <2>1. \A j \in 1 .. Len(q) : q[j] \in Char  BY SMT
  <2> QED  BY <2>1, Bytes
<1>6. (\A j \in 1 .. Len(s) : s[j] \in Nat) /\ (\A j \in 1 .. Len(t) : t[j] \in Nat)
  BY <1>2, <1>4, <1>5, SMT
<1>7. Less(s, t) <=> i > Len(s) \/ (i <= Len(t) /\ s[i] < t[i])
  BY <1>1, <1>2, <1>3, <1>6, LessAt
<1>8. SortedBefore(p, q) <=> Less(s, t)  BY DEF SortedBefore, s, t
<1>9. CASE i > Len(p)  BY <1>2, <1>7, <1>8, <1>9
<1>10. CASE i <= Len(p) /\ i > Len(q)  BY <1>1, <1>2, <1>7, <1>8, <1>10, SMT DEF Differ
<1>11. CASE i <= Len(p) /\ i <= Len(q)
  <2>1. i \in 1 .. Len(p) /\ i \in 1 .. Len(q) /\ p[i] # q[i]  BY <1>1, <1>11, SMT DEF Differ
  <2>2. Less(s, t) <=> s[i] < t[i]  BY <1>1, <1>2, <1>7, <1>11, SMT DEF Differ
  <2>3. s[i] = (IF p[i] = Slash THEN 1 ELSE p[i]) /\ t[i] = (IF q[i] = Slash THEN 1 ELSE q[i])
    BY <1>2, <2>1
  <2>4. p[i] \in Nat /\ 1 < p[i] /\ q[i] \in Nat /\ 1 < q[i]  BY <1>4, <1>5, <2>1
  <2>5. s[i] < t[i] <=> p[i] = Slash \/ (p[i] # Slash /\ q[i] # Slash /\ p[i] < q[i])
    BY <2>1, <2>3, <2>4, SMT
  <2>6. ~(i > Len(p))  BY <1>1, <2>1, SMT
  <2> QED  BY <1>8, <1>11, <2>2, <2>5, <2>6
<1>12. i \in Nat  BY <1>1, SMT DEF Differ
<1> QED  BY <1>1, <1>9, <1>10, <1>11, <1>12, SMT

\* The order of diff, where two paths differ.
LEMMA DiffAt ==
  ASSUME NEW p \in Seq(Char), NEW q \in Seq(Char), NEW i, Differ(p, q, i)
  PROVE  DiffLess(p, q) <=> i > Len(p) \/ (i <= Len(q) /\ p[i] < q[i])
<1>1. Len(p) \in Nat /\ Len(q) \in Nat  BY SMT
<1>2. (\A j \in 1 .. Len(p) : p[j] \in Char) /\ (\A j \in 1 .. Len(q) : q[j] \in Char)  BY SMT
<1>3. (\A j \in 1 .. Len(p) : p[j] \in Nat) /\ (\A j \in 1 .. Len(q) : q[j] \in Nat)
  BY <1>2, Bytes
<1> QED  BY <1>1, <1>3, LessAt DEF DiffLess

\* A path is shadowed where it differs from the other one, or not at all.
LEMMA ShadowsAt ==
  ASSUME NEW p \in Seq(Char), NEW q \in Seq(Char), NEW i, Differ(p, q, i)
  PROVE  Shadows(p, q) <=> i <= Len(p) /\ i <= Len(q) /\ p[i] = Slash /\ q[i] < Slash
<1>1. Len(p) \in Nat /\ Len(q) \in Nat /\ DOMAIN p = 1 .. Len(p)  BY SMT
<1>2. ASSUME Shadows(p, q)
      PROVE  i <= Len(p) /\ i <= Len(q) /\ p[i] = Slash /\ q[i] < Slash
  <2>1. PICK k \in 1 .. Len(p) : /\ p[k] = Slash /\ k <= Len(q) /\ q[k] < Slash
                                 /\ \A j \in 1 .. k - 1 : p[j] = q[j]
    BY <1>1, <1>2 DEF Shadows, Slashes
  <2>2. ~(k < i)  BY <1>1, <2>1, SMT DEF Differ, Slash
  <2>3. ~(i < k)  BY <1>1, <2>1, SMT DEF Differ
  <2>4. i = k  BY <1>1, <2>2, <2>3, SMT DEF Differ
  <2> QED  BY <1>1, <2>1, <2>4, SMT
<1>3. ASSUME i <= Len(p), i <= Len(q), p[i] = Slash, q[i] < Slash PROVE Shadows(p, q)
  <2>1. i \in DOMAIN p /\ \A j \in 1 .. i - 1 : p[j] = q[j]  BY <1>1, <1>3, SMT DEF Differ
  <2> QED  BY <1>3, <2>1 DEF Shadows, Slashes
<1> QED  BY <1>2, <1>3

\* diff compares two paths as the index sorts them, unless one shadows the other.
LEMMA DiffAgrees ==
  ASSUME NEW p \in Seq(Char), NEW q \in Seq(Char), p # q, SortedBefore(p, q)
  PROVE  DiffLess(p, q) <=> ~Shadows(p, q)
<1>1. PICK i : Differ(p, q, i)  BY FirstDifference
<1>2. Len(p) \in Nat /\ Len(q) \in Nat /\ i \in Nat  BY <1>1, SMT DEF Differ
<1>3. \/ i > Len(p)
      \/ i <= Len(q) /\ p[i] = Slash
      \/ i <= Len(q) /\ p[i] # Slash /\ q[i] # Slash /\ p[i] < q[i]
  BY <1>1, SortedAt
<1>4. DiffLess(p, q) <=> i > Len(p) \/ (i <= Len(q) /\ p[i] < q[i])  BY <1>1, DiffAt
<1>5. Shadows(p, q) <=> i <= Len(p) /\ i <= Len(q) /\ p[i] = Slash /\ q[i] < Slash
  BY <1>1, ShadowsAt
<1>6. CASE i > Len(p)  BY <1>2, <1>4, <1>5, <1>6, SMT
<1>7. CASE i <= Len(p) /\ i <= Len(q)
  <2>1. i \in 1 .. Len(p) /\ i \in 1 .. Len(q) /\ p[i] # q[i]  BY <1>1, <1>2, <1>7, SMT DEF Differ
  <2>2. p[i] \in Char /\ q[i] \in Char  BY <2>1, SMT
  <2>3. p[i] \in Nat /\ q[i] \in Nat  BY <2>2, Bytes
  <2> QED  BY <1>2, <1>3, <1>4, <1>5, <1>7, <2>1, <2>3, SMT DEF Slash
<1> QED  BY <1>1, <1>2, <1>3, <1>6, <1>7, SMT DEF Differ

-----------------------------------------------------------------------------
(* Names.                                                                  *)

\* A name goes up to the next slash, or to the end of the path.
LEMMA Named ==
  ASSUME NEW p \in Seq(Char), NEW d \in 0 .. Len(p)
  PROVE  \E e : IsName(p, d, e, Name(p, d))
<1>1. Len(p) \in Nat  BY SMT
<1>2. Len(p) + 1 \in Ends(p, d) /\ Ends(p, d) \subseteq Nat  BY <1>1, SMT DEF Ends
<1>3. \E m \in Ends(p, d) : \A f \in Ends(p, d) : m <= f  BY <1>2, LeastOf
<1> DEFINE e == CHOOSE m \in Ends(p, d) : \A f \in Ends(p, d) : m <= f
<1>4. e \in Ends(p, d) /\ \A f \in Ends(p, d) : e <= f  BY <1>3
<1>5. Name(p, d) = SubSeq(p, d + 1, e - 1)  BY DEF Name
<1> HIDE DEF e
<1>6. e \in d + 1 .. Len(p) + 1 /\ (e = Len(p) + 1 \/ p[e] = Slash)  BY <1>4 DEF Ends
<1>7. \A k \in d + 1 .. e - 1 : p[k] # Slash
  <2> SUFFICES ASSUME NEW k \in d + 1 .. e - 1, p[k] = Slash PROVE FALSE
    OBVIOUS
  <2>1. k \in d + 1 .. Len(p) + 1 /\ ~(e <= k)  BY <1>1, <1>6, SMT
  <2>2. k \in Ends(p, d)  BY <2>1 DEF Ends
  <2> QED  BY <1>4, <2>1, <2>2
<1>8. /\ Len(SubSeq(p, d + 1, e - 1)) = e - 1 - d
      /\ \A k \in 1 .. e - 1 - d : SubSeq(p, d + 1, e - 1)[k] = p[d + k]
  <2>1. e \in d + 1 .. Len(p) + 1  BY <1>6
  <2> QED  BY <1>1, <2>1, SMT
<1> QED  BY <1>5, <1>6, <1>7, <1>8 DEF IsName

\* A file that is walked before another one is sorted before it.
LEMMA WalkedSorted ==
  ASSUME NEW p \in Seq(Char), NEW q \in Seq(Char), WalkedBefore(p, q)
  PROVE  SortedBefore(p, q)
<1>1. Len(p) \in Nat /\ Len(q) \in Nat /\ DOMAIN p = 1 .. Len(p)  BY SMT
<1>2. PICK d \in {0} \cup Slashes(p) : /\ d <= Len(q) /\ \A j \in 1 .. d : p[j] = q[j]
                                      /\ Less(Name(p, d), Name(q, d))
  BY DEF WalkedBefore
<1>3. d \in 0 .. Len(p) /\ d \in 0 .. Len(q)  BY <1>1, <1>2, SMT DEF Slashes
<1>4. PICK e : IsName(p, d, e, Name(p, d))  BY <1>3, Named
<1>5. PICK f : IsName(q, d, f, Name(q, d))  BY <1>3, Named
<1> DEFINE m == Name(p, d)
           n == Name(q, d)
<1>6. PICK k \in 1 .. Len(n) : /\ \A j \in 1 .. k - 1 : j <= Len(m) /\ m[j] = n[j]
                               /\ k > Len(m) \/ m[k] < n[k]
  BY <1>2 DEF Less
<1> HIDE DEF m, n
<1>7. /\ e \in d + 1 .. Len(p) + 1 /\ (e = Len(p) + 1 \/ p[e] = Slash)
      /\ \A j \in d + 1 .. e - 1 : p[j] # Slash
      /\ Len(m) = e - 1 - d /\ \A j \in 1 .. e - 1 - d : m[j] = p[d + j]
  BY <1>4 DEF IsName, m
<1>8. /\ f \in d + 1 .. Len(q) + 1
      /\ \A j \in d + 1 .. f - 1 : q[j] # Slash
      /\ Len(n) = f - 1 - d /\ \A j \in 1 .. f - 1 - d : n[j] = q[d + j]
  BY <1>5 DEF IsName, n
<1> DEFINE i == d + k
<1>9. /\ i \in 1 .. Len(q) /\ i \in d + 1 .. f - 1 /\ i <= e /\ i <= Len(p) + 1 /\ i \in Nat
      /\ k <= Len(m) + 1 /\ k \in 1 .. f - 1 - d
  <2>1. k <= Len(m) + 1
    <3>1. CASE k = 1  BY <1>1, <1>3, <1>7, <3>1, SMT
    <3>2. CASE k # 1
      <4>1. k - 1 \in 1 .. k - 1  BY <1>3, <1>6, <1>8, <3>2, SMT
      <4>2. k - 1 <= Len(m)  BY <1>6, <4>1
      <4> QED  BY <1>3, <1>7, <1>8, <4>2, SMT
    <3> QED  BY <3>1, <3>2
  <2> QED  BY <1>1, <1>3, <1>6, <1>7, <1>8, <2>1, SMT
<1>10. q[i] # Slash /\ q[i] = n[k]  BY <1>8, <1>9
<1>11. \A j \in 1 .. i - 1 : p[j] = q[j]
  <2> SUFFICES ASSUME NEW j \in 1 .. i - 1 PROVE p[j] = q[j]
    OBVIOUS
  <2>1. CASE j <= d  BY <1>2, <1>3, <2>1, SMT
  <2>2. CASE j > d
    <3> DEFINE l == j - d
    <3>1. l \in 1 .. k - 1 /\ l \in 1 .. f - 1 - d /\ d + l = j
      BY <1>3, <1>8, <1>9, <2>2, SMT
    <3>2. l <= Len(m) /\ m[l] = n[l]  BY <1>6, <3>1
    <3>3. l \in 1 .. e - 1 - d  BY <1>3, <1>7, <3>1, <3>2, SMT
    <3>4. m[l] = p[d + l] /\ n[l] = q[d + l]  BY <1>7, <1>8, <3>1, <3>3
    <3> QED  BY <3>1, <3>2, <3>4
  <2> QED  BY <1>3, <2>1, <2>2, SMT
<1>12. CASE k > Len(m)
  <2>1. i = e  BY <1>3, <1>7, <1>9, <1>12, SMT
  <2>2. i > Len(p) \/ (i <= Len(q) /\ p[i] = Slash)  BY <1>1, <1>7, <1>9, <2>1, SMT
  <2>3. Differ(p, q, i)  BY <1>1, <1>9, <1>10, <1>11, <2>2, SMT DEF Differ
  <2> QED  BY <2>2, <2>3, SortedAt
<1>13. CASE k <= Len(m) /\ m[k] < n[k]
  <2>1. k \in 1 .. e - 1 - d /\ i \in d + 1 .. e - 1 /\ i \in 1 .. Len(p)
    BY <1>1, <1>3, <1>7, <1>9, <1>13, SMT
  <2>2. p[i] = m[k] /\ p[i] # Slash  BY <1>7, <2>1
  <2>3. p[i] < q[i] /\ i <= Len(q)  BY <1>9, <1>10, <1>13, <2>2, SMT
  <2>4. p[i] \in Char /\ q[i] \in Char  BY <1>9, <2>1, SMT
  <2>5. p[i] # q[i]  BY <2>3, <2>4, Bytes, SMT
  <2>6. Differ(p, q, i)  BY <1>1, <1>9, <1>11, <2>1, <2>5, SMT DEF Differ
  <2> QED  BY <1>10, <2>2, <2>3, <2>6, SortedAt
<1>14. Len(m) \in Nat /\ k \in Nat  BY <1>3, <1>7, <1>9, SMT
<1> QED  BY <1>6, <1>12, <1>13, <1>14, SMT


\* The last directory before a position.
LEMMA LastSlash ==
  ASSUME NEW p \in Seq(Char), NEW i \in 1 .. Len(p) + 1
  PROVE  \E d \in {0} \cup Slashes(p) : d < i /\ \A j \in d + 1 .. i - 1 : p[j] # Slash
<1>1. Len(p) \in Nat /\ DOMAIN p = 1 .. Len(p)  BY SMT
<1> DEFINE D == {d \in {0} \cup Slashes(p) : d < i}
           S == {i - d : d \in D}
<1>2. 0 \in D /\ \A d \in D : i - d \in Nat /\ d \in Nat  BY <1>1, SMT DEF Slashes
<1>3. S # {} /\ S \subseteq Nat  BY <1>2
<1>4. PICK m \in S : \A l \in S : m <= l  BY <1>3, LeastOf
<1>5. PICK d \in D : m = i - d  BY <1>4
<1>6. ASSUME NEW j \in d + 1 .. i - 1, p[j] = Slash PROVE FALSE
  <2>1. j \in 1 .. Len(p) /\ j < i /\ d < j  BY <1>1, <1>2, <1>5, SMT
  <2>2. j \in D  BY <1>1, <1>6, <2>1 DEF Slashes
  <2>3. i - d <= i - j  BY <1>4, <1>5, <2>2
  <2> QED  BY <1>2, <2>1, <2>3, SMT
<1> QED  BY <1>5, <1>6

\* A file that is sorted before another one is walked before it, unless it is
\* a directory.
LEMMA SortedWalked ==
  ASSUME NEW p \in Seq(Char), NEW q \in Seq(Char), p # q, ~IsDirOf(p, q), SortedBefore(p, q)
  PROVE  WalkedBefore(p, q)
<1>1. Len(p) \in Nat /\ Len(q) \in Nat /\ DOMAIN p = 1 .. Len(p)  BY SMT
<1>2. PICK i : Differ(p, q, i)  BY FirstDifference
<1>3. /\ i \in 1 .. Len(p) + 1 /\ i \in 1 .. Len(q) + 1 /\ (i <= Len(p) \/ i <= Len(q))
      /\ \A j \in 1 .. i - 1 : p[j] = q[j]
      /\ i <= Len(p) /\ i <= Len(q) => p[i] # q[i]
  BY <1>2 DEF Differ
<1>4. \/ i > Len(p)
      \/ i <= Len(q) /\ p[i] = Slash
      \/ i <= Len(q) /\ p[i] # Slash /\ q[i] # Slash /\ p[i] < q[i]
  BY <1>2, SortedAt
<1>5. PICK d \in {0} \cup Slashes(p) : d < i /\ \A j \in d + 1 .. i - 1 : p[j] # Slash
  BY <1>3, LastSlash
<1>6. d \in 0 .. Len(p) /\ d \in 0 .. Len(q) /\ \A j \in 1 .. d : p[j] = q[j]
  BY <1>1, <1>3, <1>5, SMT DEF Slashes
<1>7. PICK e : IsName(p, d, e, Name(p, d))  BY <1>6, Named
<1>8. PICK f : IsName(q, d, f, Name(q, d))  BY <1>6, Named
<1> DEFINE m == Name(p, d)
           n == Name(q, d)
           k == i - d
<1>9. /\ e \in d + 1 .. Len(p) + 1 /\ (e = Len(p) + 1 \/ p[e] = Slash)
      /\ \A j \in d + 1 .. e - 1 : p[j] # Slash
      /\ Len(m) = e - 1 - d /\ \A j \in 1 .. e - 1 - d : m[j] = p[d + j]
  BY <1>7 DEF IsName
<1>10. /\ f \in d + 1 .. Len(q) + 1 /\ (f = Len(q) + 1 \/ q[f] = Slash)
       /\ Len(n) = f - 1 - d /\ \A j \in 1 .. f - 1 - d : n[j] = q[d + j]
  BY <1>8 DEF IsName
<1> HIDE DEF m, n
<1>11. i <= e
  <2>0. i \in 1 .. Len(p) + 1 /\ d \in 0 .. Len(p) /\ e \in d + 1 .. Len(p) + 1  BY <1>3, <1>6, <1>9
  <2> SUFFICES ASSUME e < i PROVE FALSE
    BY <1>1, <2>0, SMT
  <2>1. e \in d + 1 .. i - 1 /\ e # Len(p) + 1  BY <1>1, <2>0, SMT
  <2> QED  BY <1>5, <1>9, <2>1
<1>12. i <= f
  <2>0. i \in 1 .. Len(q) + 1 /\ d \in 0 .. Len(q) /\ f \in d + 1 .. Len(q) + 1  BY <1>3, <1>6, <1>10
  <2> SUFFICES ASSUME f < i PROVE FALSE
    BY <1>1, <2>0, SMT
  <2>1. f \in d + 1 .. i - 1 /\ f \in 1 .. i - 1 /\ f # Len(q) + 1  BY <1>1, <2>0, SMT
  <2> QED  BY <1>3, <1>5, <1>10, <2>1
<1>13. q[i] # Slash /\ i <= Len(q)
  <2>1. CASE i > Len(p)
    <3>1. i = Len(p) + 1 /\ i <= Len(q) /\ Len(p) < Len(q)  BY <1>1, <1>3, <2>1, SMT
    <3>2. \A j \in 1 .. Len(p) : p[j] = q[j]  BY <1>1, <1>3, <3>1, SMT
    <3> QED  BY <3>1, <3>2 DEF IsDirOf
  <2>2. CASE i <= Len(q) /\ p[i] = Slash
    <3>1. CASE i > Len(p)  BY <2>1, <3>1
    <3>2. CASE i <= Len(p)  BY <1>3, <2>2, <3>2
    <3> QED  BY <1>1, <1>3, <3>1, <3>2, SMT
  <2> QED  BY <1>4, <2>1, <2>2
<1>14. i # f  BY <1>1, <1>3, <1>10, <1>13, SMT
<1>15. k \in 1 .. Len(n) /\ k \in 1 .. f - 1 - d /\ d + k = i
  BY <1>1, <1>3, <1>5, <1>6, <1>10, <1>12, <1>14, SMT
<1>16. \A j \in 1 .. k - 1 : j <= Len(m) /\ m[j] = n[j]
  <2> SUFFICES ASSUME NEW j \in 1 .. k - 1 PROVE j <= Len(m) /\ m[j] = n[j]
    OBVIOUS
  <2>1. j \in 1 .. e - 1 - d /\ j \in 1 .. f - 1 - d /\ d + j \in 1 .. i - 1
    BY <1>3, <1>6, <1>9, <1>10, <1>11, <1>12, SMT
  <2>2. m[j] = n[j]  BY <1>3, <1>9, <1>10, <2>1
  <2> QED  BY <1>6, <1>9, <2>1, <2>2, SMT
<1>17. k > Len(m) \/ m[k] < n[k]
  <2>1. CASE i = e  BY <1>3, <1>6, <1>9, <2>1, SMT
  <2>2. CASE i # e
    <3>1. i \in d + 1 .. e - 1 /\ k \in 1 .. e - 1 - d /\ ~(i > Len(p))
      BY <1>1, <1>3, <1>5, <1>6, <1>9, <1>11, <2>2, SMT
    <3>2. p[i] # Slash  BY <1>9, <3>1
    <3>3. p[i] < q[i]  BY <1>4, <3>1, <3>2
    <3>4. m[k] = p[i] /\ n[k] = q[i]  BY <1>9, <1>10, <1>15, <3>1
    <3> QED  BY <3>3, <3>4
  <2> QED  BY <2>1, <2>2
<1> HIDE DEF k
<1>18. Less(m, n)  BY <1>15, <1>16, <1>17 DEF Less
<1>19. d <= Len(q)  BY <1>1, <1>6, SMT
<1> QED  BY <1>6, <1>18, <1>19 DEF WalkedBefore, m, n
-----------------------------------------------------------------------------
(* The trees.                                                              *)

\* No path is sorted before itself.
LEMMA SortedIrreflexive ==
  ASSUME NEW p \in Seq(Char)
  PROVE  ~SortedBefore(p, p)
<1> DEFINE s == SortablePath(p)
<1>1. Len(p) \in Nat /\ Len(s) = Len(p)
      /\ \A i \in 1 .. Len(p) : s[i] = IF p[i] = Slash THEN 1 ELSE p[i]
  BY Sortable, SMT
<1>2. \A i \in 1 .. Len(p) : p[i] \in Char  BY SMT
<1>3. \A i \in 1 .. Len(p) : p[i] \in Nat  BY <1>2, Bytes
<1> HIDE DEF s
<1>4. \A i \in 1 .. Len(s) : s[i] \in Nat  BY <1>1, <1>3, SMT
<1>5. ~Less(s, s)  BY <1>1, <1>4, SMT DEF Less
<1> QED  BY <1>5 DEF SortedBefore, s

\* No file is a directory in any tree.
LEMMA TreeInvariant == Spec => []TreeInv
<1>1. Init => TreeInv  BY DEF Init, TreeInv
<1>2. TreeInv /\ [Next]_files => TreeInv'
  <2> SUFFICES ASSUME TreeInv, [Next]_files PROVE TreeInv'
    OBVIOUS
  <2>1. CASE Create
    <3>1. PICK p \in Paths : /\ \A q \in files : ~IsDirOf(p, q) /\ ~IsDirOf(q, p)
                             /\ files' = files \cup {p}
      BY <2>1 DEF Create
    <3>2. ~IsDirOf(p, p)
      <4>1. Len(p) \in Nat  BY PathsAreSeqs
      <4>2. ~(Len(p) < Len(p))  BY <4>1, SMT
      <4> QED  BY <4>2 DEF IsDirOf
    <3> QED  BY <3>1, <3>2 DEF TreeInv
  <2>2. CASE Delete  BY <2>2 DEF Delete, TreeInv
  <2>3. CASE UNCHANGED files  BY <2>3 DEF TreeInv
  <2> QED  BY <2>1, <2>2, <2>3 DEF Next
<1> QED  BY <1>1, <1>2, PTL DEF Spec

\* In every tree, the comparison of diffPair.diff agrees with the order in which
\* both streams come exactly when neither path is shadowed by the other.
THEOREM DiffOrderTheorem == Spec => []DiffOrderUnlessShadowed
<1>1. TreeInv => DiffOrderUnlessShadowed
  <2> SUFFICES ASSUME TreeInv, NEW p \in files, NEW q \in files, SortedBefore(p, q)
               PROVE  DiffLess(p, q) <=> ~Shadows(p, q)
    BY DEF DiffOrderUnlessShadowed
  <2>1. p \in Seq(Char) /\ q \in Seq(Char)  BY PathsAreSeqs DEF TreeInv
  <2>2. p # q  BY <2>1, SortedIrreflexive
  <2> QED  BY <2>1, <2>2, DiffAgrees
<1> QED  BY <1>1, TreeInvariant, PTL

\* In every tree, NoteDAO.Add gives the notes sortable paths that order them as
\* filepath.Walk visits them.
THEOREM SortedAsWalkedTheorem == Spec => []SortedAsWalked
<1>1. TreeInv => SortedAsWalked
  <2> SUFFICES ASSUME TreeInv, NEW p \in files, NEW q \in files, p # q
               PROVE  SortedBefore(p, q) <=> WalkedBefore(p, q)
    BY DEF SortedAsWalked
  <2>1. p \in Seq(Char) /\ q \in Seq(Char) /\ ~IsDirOf(p, q)  BY PathsAreSeqs DEF TreeInv
  <2> QED  BY <2>1, WalkedSorted, SortedWalked
<1> QED  BY <1>1, TreeInvariant, PTL

=============================================================================
