-------------------------- MODULE DirCacheProofs --------------------------
(***************************************************************************)
(* One task at a time keeps the listing cache coherent, whatever the tree  *)
(* of paths: the cache that the reply of the request under way will leave  *)
(* has the listings of the server.                                         *)
(***************************************************************************)
EXTENDS DirCache, SequenceTheorems, WellFoundedInduction, TLAPS

-----------------------------------------------------------------------------
(* Paths as sequences of names.                                             *)

Names == UNION {{p[i] : i \in DOMAIN p} : p \in Paths}

LEMMA PathsOfNames == \A p \in Paths : p \in Seq(Names)
<1> SUFFICES ASSUME NEW p \in Paths PROVE p \in Seq(Names)
  OBVIOUS
<1>1. p \in Seq({p[i] : i \in DOMAIN p})
  BY PathsAreSequences
<1>2. {p[i] : i \in DOMAIN p} \subseteq Names
  BY DEF Names
<1> QED
  BY <1>1, <1>2, SeqMonotonic

LEMMA BeginsWith ==
  ASSUME NEW p \in Seq(Names), NEW q \in Seq(Names)
  PROVE  IsPrefix(p, q) <=> Len(p) <= Len(q) /\ \A i \in 1..Len(p) : p[i] = q[i]
<1>1. CASE Len(p) <= Len(q)
  <2>1. SubSeq(p, 1, Len(p)) = p
    OBVIOUS
  <2>2. \A i \in 1..Len(p) : q[i] \in Names
    BY <1>1
  <2>3. /\ SubSeq(q, 1, Len(p)) \in Seq(Names) /\ Len(SubSeq(q, 1, Len(p))) = Len(p)
        /\ \A i \in 1..Len(p) : SubSeq(q, 1, Len(p))[i] = q[i]
    BY <1>1
  <2> QED
    BY <1>1, <2>1, <2>3, SeqEqual DEF IsPrefix
<1>2. CASE ~(Len(p) <= Len(q))
  BY <1>2 DEF IsPrefix
<1> QED
  BY <1>1, <1>2

LEMMA Fronts ==
  ASSUME NEW p \in Seq(Names), p # <<>>
  PROVE  /\ Front(p) \in Seq(Names) /\ Len(p) \in Nat \ {0} /\ Len(Front(p)) = Len(p) - 1
         /\ \A i \in 1..Len(p) - 1 : Front(p)[i] = p[i]
<1> DEFINE n == Len(p) - 1
<1>1. n \in Nat /\ \A i \in 1..n : p[i] \in Names
  OBVIOUS
<1> HIDE DEF n
<1>2. /\ SubSeq(p, 1, n) \in Seq(Names) /\ Len(SubSeq(p, 1, n)) = n
      /\ \A i \in 1..n : SubSeq(p, 1, n)[i] = p[i]
  BY <1>1
<1> QED
  BY <1>1, <1>2 DEF Front, n

\* A path that begins with p is p or has its parent begin with p.
LEMMA FrontBegins ==
  ASSUME NEW p \in Seq(Names), NEW c \in Seq(Names), c # <<>>
  PROVE  IsStrictPrefix(p, c) <=> IsPrefix(p, Front(c))
<1>1. /\ Front(c) \in Seq(Names) /\ Len(c) \in Nat \ {0} /\ Len(Front(c)) = Len(c) - 1
      /\ \A i \in 1..Len(c) - 1 : Front(c)[i] = c[i]
  BY Fronts
<1>2. ASSUME IsStrictPrefix(p, c) PROVE IsPrefix(p, Front(c))
  <2>1. Len(p) <= Len(c) /\ (\A i \in 1..Len(p) : p[i] = c[i]) /\ p # c
    BY <1>2, BeginsWith DEF IsStrictPrefix
  <2>2. Len(p) # Len(c)
    BY <2>1, SeqEqual
  <2>3. Len(p) <= Len(Front(c))
    BY <1>1, <2>1, <2>2
  <2>4. \A i \in 1..Len(p) : p[i] = Front(c)[i]
    BY <1>1, <2>1, <2>3
  <2> QED
    BY <1>1, <2>3, <2>4, BeginsWith
<1>3. ASSUME IsPrefix(p, Front(c)) PROVE IsStrictPrefix(p, c)
  <2>1. Len(p) <= Len(Front(c)) /\ \A i \in 1..Len(p) : p[i] = Front(c)[i]
    BY <1>1, <1>3, BeginsWith
  <2>2. Len(p) <= Len(c) /\ (\A i \in 1..Len(p) : p[i] = c[i]) /\ Len(p) # Len(c)
    BY <1>1, <2>1
  <2> QED
    BY <2>2, BeginsWith DEF IsStrictPrefix
<1> QED
  BY <1>2, <1>3

LEMMA BeginsWithItself == \A p \in Seq(Names) : IsPrefix(p, p) /\ ~IsStrictPrefix(p, p)
BY BeginsWith DEF IsStrictPrefix

LEMMA PrefixOrSame ==
  ASSUME NEW p \in Seq(Names), NEW q \in Seq(Names)
  PROVE  IsPrefix(p, q) <=> p = q \/ IsStrictPrefix(p, q)
BY BeginsWithItself DEF IsStrictPrefix

-----------------------------------------------------------------------------
(* The tree of paths.                                                       *)

LEMMA FrontsArePaths == \A c \in Paths : c # Bucket => Front(c) \in Paths
BY PathsClosed

LEMMA ChildMeans ==
  ASSUME NEW c \in Paths, NEW d \in Paths
  PROVE  c \in Children(d) <=> c # Bucket /\ Front(c) = d
<1>1. c \in Seq(Names) /\ d \in Seq(Names)
  BY PathsOfNames
<1>2. CASE c = <<>>
  <2>1. Len(c) = 0 /\ Len(d) \in Nat
    BY <1>1, <1>2
  <2> QED
    BY <1>2, <2>1 DEF Children, Bucket
<1>3. CASE c # <<>>
  <2>1. /\ Front(c) \in Seq(Names) /\ Len(c) \in Nat \ {0} /\ Len(Front(c)) = Len(c) - 1
    BY <1>1, <1>3, Fronts
  <2>2. IsStrictPrefix(d, c) <=> IsPrefix(d, Front(c))
    BY <1>1, <1>3, FrontBegins
  <2>3. ASSUME c \in Children(d) PROVE Front(c) = d
    <3>1. IsPrefix(d, Front(c)) /\ Len(c) = Len(d) + 1
      BY <2>2, <2>3 DEF Children, Below
    <3>2. Len(d) = Len(Front(c)) /\ \A i \in 1..Len(d) : d[i] = Front(c)[i]
      BY <1>1, <2>1, <3>1, BeginsWith
    <3> QED
      BY <1>1, <2>1, <3>2, SeqEqual
  <2>4. ASSUME Front(c) = d PROVE c \in Children(d)
    <3>1. IsStrictPrefix(d, c)
      BY <1>1, <2>2, <2>4, BeginsWithItself
    <3>2. Len(c) = Len(d) + 1
      BY <2>1, <2>4
    <3> QED
      BY <3>1, <3>2 DEF Children, Below
  <2> QED
    BY <1>3, <2>3, <2>4 DEF Bucket
<1> QED
  BY <1>2, <1>3

LEMMA BelowMeans ==
  ASSUME NEW c \in Paths, NEW p \in Paths
  PROVE  c \in Below(p) <=> c # Bucket /\ (Front(c) = p \/ Front(c) \in Below(p))
<1>1. c \in Seq(Names) /\ p \in Seq(Names)
  BY PathsOfNames
<1>2. CASE c = <<>>
  <2>1. ASSUME IsPrefix(p, c) PROVE p = c
    <3>0. Len(c) = 0 /\ Len(p) \in Nat
      BY <1>1, <1>2
    <3>1. Len(p) <= Len(c)
      BY <1>1, <2>1, BeginsWith
    <3>2. Len(p) = 0
      BY <3>0, <3>1
    <3> QED
      BY <1>1, <1>2, <3>2, EmptySeq
  <2> QED
    BY <1>2, <2>1 DEF Below, Bucket, IsStrictPrefix
<1>3. CASE c # <<>>
  <2>1. Front(c) \in Paths /\ Front(c) \in Seq(Names)
    BY <1>3, FrontsArePaths, PathsOfNames DEF Bucket
  <2>2. IsStrictPrefix(p, c) <=> IsPrefix(p, Front(c))
    BY <1>1, <1>3, FrontBegins
  <2>3. IsPrefix(p, Front(c)) <=> p = Front(c) \/ IsStrictPrefix(p, Front(c))
    BY <1>1, <2>1, PrefixOrSame
  <2> QED
    BY <1>3, <2>1, <2>2, <2>3 DEF Below, Bucket
<1> QED
  BY <1>2, <1>3

LEMMA BelowInPaths == \A p : Below(p) \subseteq Paths
BY DEF Below

LEMMA NotBelowItself == \A p \in Paths : p \notin Below(p)
BY PathsOfNames, BeginsWithItself DEF Below

LEMMA BelowBelow ==
  ASSUME NEW p \in Paths, NEW q \in Below(p), NEW r \in Below(q)
  PROVE  r \in Below(p)
<1>1. q \in Paths /\ r \in Paths /\ IsStrictPrefix(p, q) /\ IsStrictPrefix(q, r)
  BY DEF Below
<1>2. p \in Seq(Names) /\ q \in Seq(Names) /\ r \in Seq(Names)
  BY <1>1, PathsOfNames
<1>3. Len(p) <= Len(q) /\ (\A i \in 1..Len(p) : p[i] = q[i]) /\ p # q
  BY <1>1, <1>2, BeginsWith DEF IsStrictPrefix
<1>4. Len(q) <= Len(r) /\ (\A i \in 1..Len(q) : q[i] = r[i]) /\ q # r
  BY <1>1, <1>2, BeginsWith DEF IsStrictPrefix
<1>5. Len(p) # Len(q)
  BY <1>2, <1>3, SeqEqual
<1>6. Len(p) <= Len(r) /\ (\A i \in 1..Len(p) : p[i] = r[i]) /\ Len(p) # Len(r)
  BY <1>2, <1>3, <1>4, <1>5
<1>7. IsPrefix(p, r)
  BY <1>2, <1>6, BeginsWith
<1> QED
  BY <1>1, <1>6, <1>7 DEF Below, IsStrictPrefix

\* Two directories above one path are one above the other.
LEMMA AboveOneAnother ==
  ASSUME NEW a \in Paths, NEW b \in Paths, NEW c \in Paths, c \in Below(a), c \in Below(b)
  PROVE  a = b \/ a \in Below(b) \/ b \in Below(a)
<1>1. a \in Seq(Names) /\ b \in Seq(Names) /\ c \in Seq(Names)
  BY PathsOfNames
<1>2. Len(a) <= Len(c) /\ (\A i \in 1..Len(a) : a[i] = c[i])
  BY <1>1, BeginsWith DEF Below, IsStrictPrefix
<1>3. Len(b) <= Len(c) /\ (\A i \in 1..Len(b) : b[i] = c[i])
  BY <1>1, BeginsWith DEF Below, IsStrictPrefix
<1>4. CASE Len(a) <= Len(b)
  <2>1. \A i \in 1..Len(a) : a[i] = b[i]
    BY <1>1, <1>2, <1>3, <1>4
  <2>2. IsPrefix(a, b)
    BY <1>1, <1>4, <2>1, BeginsWith
  <2> QED
    BY <2>2 DEF Below, IsStrictPrefix
<1>5. CASE Len(b) <= Len(a)
  <2>1. \A i \in 1..Len(b) : b[i] = a[i]
    BY <1>1, <1>2, <1>3, <1>5
  <2>2. IsPrefix(b, a)
    BY <1>1, <1>5, <2>1, BeginsWith
  <2> QED
    BY <2>2 DEF Below, IsStrictPrefix
<1> QED
  BY <1>1, <1>4, <1>5

LEMMA LeastNat ==
  ASSUME NEW T \in SUBSET Nat, T # {}
  PROVE  \E x \in T : \A y \in T : x <= y
<1> DEFINE R == {ss \in Nat \X Nat : ss[1] < ss[2]}
<1>0. IsWellFoundedOn(R, Nat)
  BY NatLessThanWellFounded DEF OpToRel
<1>1. PICK x \in T : \A y \in T : <<y, x>> \notin R
  <2> HIDE DEF R
  <2> QED
    BY <1>0, WFMin
<1>2. \A y \in T : ~(y < x)
  BY <1>1
<1> QED
  BY <1>2

\* A set of paths that a path leaves with its parent, or is the root's, has no shortest.
LEMMA ShortestPath ==
  ASSUME NEW S \in SUBSET Paths, S # {}
  PROVE  \E p \in S : p # Bucket => Front(p) \notin S
<1> DEFINE T == {Len(p) : p \in S}
<1>1. \A p \in S : p \in Seq(Names) /\ Len(p) \in Nat
  BY PathsOfNames
<1>2. T \in SUBSET Nat /\ T # {}
  BY <1>1
<1>3. PICK n \in T : \A m \in T : n <= m
  <2> HIDE DEF T
  <2> QED
    BY <1>2, LeastNat
<1>4. PICK p \in S : Len(p) = n
  OBVIOUS
<1>5. ASSUME p # Bucket, Front(p) \in S PROVE FALSE
  <2>1. Len(p) \in Nat \ {0} /\ Len(Front(p)) = Len(p) - 1
    BY <1>1, <1>5, Fronts DEF Bucket
  <2>2. n <= Len(Front(p))
    BY <1>3, <1>5
  <2> QED
    BY <1>4, <2>1, <2>2
<1> QED
  BY <1>5

LEMMA AncestorMeans ==
  ASSUME NEW p \in Seq(Names)
  PROVE  \A q : q \in Ancestors(p) <=> q \in Seq(Names) /\ IsStrictPrefix(q, p)
<1> SUFFICES ASSUME NEW q PROVE q \in Ancestors(p) <=> q \in Seq(Names) /\ IsStrictPrefix(q, p)
  OBVIOUS
<1>1. ASSUME NEW n \in 0..Len(p) - 1
      PROVE  /\ SubSeq(p, 1, n) \in Seq(Names) /\ Len(SubSeq(p, 1, n)) = n
             /\ \A i \in 1..n : SubSeq(p, 1, n)[i] = p[i]
  <2>1. \A i \in 1..n : p[i] \in Names
    OBVIOUS
  <2> QED
    BY <2>1
<1>2. ASSUME q \in Ancestors(p) PROVE q \in Seq(Names) /\ IsStrictPrefix(q, p)
  <2>1. PICK n \in 0..Len(p) - 1 : q = SubSeq(p, 1, n)
    BY <1>2 DEF Ancestors
  <2>2. q \in Seq(Names) /\ Len(q) = n /\ \A i \in 1..n : q[i] = p[i]
    BY <1>1, <2>1
  <2>3. IsPrefix(q, p) /\ q # p
    BY <2>2, BeginsWith
  <2> QED
    BY <2>2, <2>3 DEF IsStrictPrefix
<1>3. ASSUME q \in Seq(Names), IsStrictPrefix(q, p) PROVE q \in Ancestors(p)
  <2>1. Len(q) <= Len(p) /\ (\A i \in 1..Len(q) : q[i] = p[i]) /\ q # p
    BY <1>3, BeginsWith DEF IsStrictPrefix
  <2>2. Len(q) # Len(p)
    BY <1>3, <2>1, SeqEqual
  <2>3. Len(q) \in 0..Len(p) - 1
    BY <1>3, <2>1, <2>2
  <2>4. q = SubSeq(p, 1, Len(q))
    BY <1>1, <1>3, <2>1, <2>3, SeqEqual
  <2> QED
    BY <2>3, <2>4 DEF Ancestors
<1> QED
  BY <1>2, <1>3

\* The ancestors of a path are the paths above it.
LEMMA AncestorsAbove ==
  ASSUME NEW p \in Paths
  PROVE  Ancestors(p) = {q \in Paths : p \in Below(q)}
<1>0. p \in Seq(Names)
  BY PathsOfNames
<1>1. \A q \in Paths : p \in Below(q) => q \in Ancestors(p)
  BY <1>0, AncestorMeans, PathsOfNames DEF Below
<1>2. \A q \in Ancestors(p) : q \in Paths
  <2> DEFINE S == {r \in Paths : \E q \in Ancestors(r) : q \notin Paths}
  <2>1. S = {}
    <3> SUFFICES ASSUME S # {} PROVE FALSE
      OBVIOUS
    <3>1. PICK r \in S : r # Bucket => Front(r) \notin S
      <4> HIDE DEF S
      <4> QED
        BY ShortestPath DEF S
    <3>2. PICK q \in Ancestors(r) : q \notin Paths
      BY <3>1
    <3>3. r \in Seq(Names) /\ q \in Seq(Names) /\ IsStrictPrefix(q, r)
      BY <3>1, <3>2, PathsOfNames, AncestorMeans
    <3>4. r # Bucket
      <4>1. SUFFICES ASSUME r = Bucket PROVE FALSE
        OBVIOUS
      <4>2. Ancestors(Bucket) = {}
        BY DEF Ancestors, Bucket
      <4> QED
        BY <3>2, <4>1, <4>2
    <3>5. Front(r) \in Paths /\ Front(r) \in Seq(Names)
      BY <3>1, <3>4, FrontsArePaths, PathsOfNames
    <3>6. q = Front(r) \/ IsStrictPrefix(q, Front(r))
      BY <3>3, <3>4, <3>5, FrontBegins, PrefixOrSame DEF Bucket
    <3>7. q \in Ancestors(Front(r))
      BY <3>2, <3>3, <3>5, <3>6, AncestorMeans
    <3> QED
      BY <3>1, <3>2, <3>4, <3>5, <3>7
  <2> QED
    BY <2>1
<1>3. \A q \in Ancestors(p) : p \in Below(q)
  BY <1>0, AncestorMeans DEF Below
<1> QED
  BY <1>1, <1>2, <1>3

-----------------------------------------------------------------------------
(* What a rename does to a path.                                            *)

LEMMA RenamedSequence ==
  ASSUME NEW p \in Seq(Names), NEW q \in Seq(Names), NEW r \in Seq(Names), IsPrefix(p, r)
  PROVE  /\ Renamed(r, p, q) \in Seq(Names)
         /\ Len(Renamed(r, p, q)) = Len(q) + (Len(r) - Len(p)) /\ Len(p) <= Len(r)
         /\ \A i \in 1..Len(q) : Renamed(r, p, q)[i] = q[i]
         /\ \A i \in 1..Len(r) - Len(p) : Renamed(r, p, q)[Len(q) + i] = r[Len(p) + i]
<1> DEFINE s == SubSeq(r, Len(p) + 1, Len(r))
           k == Len(r) - Len(p)
<1>1. Len(p) \in Nat /\ Len(q) \in Nat /\ Len(r) \in Nat /\ Len(p) <= Len(r) /\ k \in Nat
  <2>1. Len(p) <= Len(r)
    BY BeginsWith
  <2> QED
    BY <2>1
<1>2. s \in Seq(Names) /\ Len(s) = k /\ \A i \in 1..k : s[i] = r[Len(p) + i]
  <2>1. \A i \in Len(p) + 1..Len(r) : r[i] \in Names
    BY <1>1
  <2>2. /\ s \in Seq(Names) /\ Len(s) = IF Len(p) + 1 <= Len(r) THEN Len(r) - (Len(p) + 1) + 1 ELSE 0
        /\ \A i \in 1..Len(r) - (Len(p) + 1) + 1 : s[i] = r[Len(p) + 1 + i - 1]
    BY <1>1, <2>1, SubSeqProperties
  <2>3. Len(s) = k
    BY <1>1, <2>2
  <2>4. \A i \in 1..k : s[i] = r[Len(p) + i]
    <3> SUFFICES ASSUME NEW i \in 1..k PROVE s[i] = r[Len(p) + i]
      OBVIOUS
    <3>1. i \in 1..Len(r) - (Len(p) + 1) + 1 /\ Len(p) + 1 + i - 1 = Len(p) + i
      BY <1>1
    <3> HIDE DEF s
    <3> QED
      BY <2>2, <3>1
  <2> QED
    BY <2>2, <2>3, <2>4
<1> HIDE DEF s
<1>3. /\ q \o s \in Seq(Names) /\ Len(q \o s) = Len(q) + Len(s)
      /\ \A i \in 1..Len(q) + Len(s) : (q \o s)[i] = IF i <= Len(q) THEN q[i] ELSE s[i - Len(q)]
  BY <1>2, ConcatProperties
<1>4. Renamed(r, p, q) = q \o s
  BY DEF Renamed, s
<1> DEFINE w == q \o s
<1>5. \A i \in 1..Len(q) : w[i] = q[i]
  <2> SUFFICES ASSUME NEW i \in 1..Len(q) PROVE w[i] = q[i]
    OBVIOUS
  <2>1. i \in 1..Len(q) + Len(s) /\ i <= Len(q)
    BY <1>1, <1>2
  <2> QED
    BY <2>1, <1>3
<1>6. \A i \in 1..k : w[Len(q) + i] = r[Len(p) + i]
  <2> SUFFICES ASSUME NEW i \in 1..k PROVE w[Len(q) + i] = r[Len(p) + i]
    OBVIOUS
  <2>1. Len(q) + i \in 1..Len(q) + Len(s) /\ ~(Len(q) + i <= Len(q)) /\ Len(q) + i - Len(q) = i
    BY <1>1, <1>2
  <2>2. w[Len(q) + i] = s[i]
    BY <2>1, <1>3
  <2> QED
    BY <2>2, <1>2
<1> QED
  BY <1>1, <1>2, <1>3, <1>4, <1>5, <1>6

\* A path below p is renamed to one below q.
LEMMA RenamedBelow ==
  ASSUME NEW p \in Paths, NEW q \in Paths, NEW r \in Below(p)
  PROVE  Renamed(r, p, q) \in Seq(Names) /\ IsStrictPrefix(q, Renamed(r, p, q))
<1>1. p \in Seq(Names) /\ q \in Seq(Names) /\ r \in Seq(Names) /\ IsPrefix(p, r) /\ p # r
  BY PathsOfNames DEF Below, IsStrictPrefix
<1> DEFINE w == Renamed(r, p, q)
<1>2. w \in Seq(Names) /\ Len(w) = Len(q) + (Len(r) - Len(p)) /\ Len(p) <= Len(r) /\ \A i \in 1..Len(q) : w[i] = q[i]
  BY <1>1, RenamedSequence
<1> HIDE DEF w
<1>3. Len(p) # Len(r)
  <2>1. \A i \in 1..Len(p) : p[i] = r[i]
    BY <1>1, BeginsWith
  <2> QED
    BY <1>1, <2>1, SeqEqual
<1>4. Len(q) <= Len(w) /\ Len(q) # Len(w)
  BY <1>1, <1>2, <1>3
<1>5. IsPrefix(q, w)
  BY <1>1, <1>2, <1>4, BeginsWith
<1> QED
  BY <1>2, <1>4, <1>5 DEF IsStrictPrefix, w

\* Back again.
LEMMA RenamedBack ==
  ASSUME NEW p \in Paths, NEW q \in Paths, NEW r \in Below(p)
  PROVE  Renamed(Renamed(r, p, q), q, p) = r
<1>1. p \in Seq(Names) /\ q \in Seq(Names) /\ r \in Seq(Names) /\ IsPrefix(p, r)
  BY PathsOfNames DEF Below, IsStrictPrefix
<1> DEFINE w == Renamed(r, p, q)
           v == Renamed(w, q, p)
<1>2. /\ w \in Seq(Names) /\ Len(w) = Len(q) + (Len(r) - Len(p)) /\ Len(p) <= Len(r)
      /\ \A i \in 1..Len(r) - Len(p) : w[Len(q) + i] = r[Len(p) + i]
  BY <1>1, RenamedSequence
<1>3. IsPrefix(q, w)
  BY RenamedBelow DEF IsStrictPrefix
<1> HIDE DEF w
<1>4. /\ v \in Seq(Names) /\ Len(v) = Len(p) + (Len(w) - Len(q))
      /\ \A i \in 1..Len(p) : v[i] = p[i]
      /\ \A i \in 1..Len(w) - Len(q) : v[Len(p) + i] = w[Len(q) + i]
  BY <1>1, <1>2, <1>3, RenamedSequence
<1> HIDE DEF v
<1>5. Len(v) = Len(r)
  BY <1>1, <1>2, <1>4
<1>6. ASSUME NEW i \in 1..Len(r) PROVE v[i] = r[i]
  <2>1. CASE i <= Len(p)
    BY <2>1, <1>1, <1>4, BeginsWith
  <2>2. CASE ~(i <= Len(p))
    <3>1. i - Len(p) \in 1..Len(r) - Len(p) /\ i - Len(p) \in 1..Len(w) - Len(q) /\ Len(p) + (i - Len(p)) = i
      BY <1>1, <1>2, <2>2
    <3> DEFINE j == i - Len(p)
    <3>2. v[Len(p) + j] = w[Len(q) + j] /\ w[Len(q) + j] = r[Len(p) + j]
      BY <1>2, <1>4, <3>1
    <3> QED
      BY <3>1, <3>2
  <2> QED
    BY <2>1, <2>2
<1> QED
  BY <1>1, <1>4, <1>5, <1>6, SeqEqual DEF v, w

\* The parent goes with it.
LEMMA RenamedFront ==
  ASSUME NEW p \in Paths, NEW q \in Paths, NEW r \in Below(p)
  PROVE  Front(Renamed(r, p, q)) = IF Front(r) = p THEN q ELSE Renamed(Front(r), p, q)
<1>1. p \in Seq(Names) /\ q \in Seq(Names) /\ r \in Seq(Names) /\ IsPrefix(p, r) /\ r # <<>>
  BY PathsOfNames, BelowMeans, BelowInPaths DEF Below, IsStrictPrefix, Bucket
<1> DEFINE w == Renamed(r, p, q)
           f == Front(r)
           v == Renamed(f, p, q)
<1>2. /\ w \in Seq(Names) /\ Len(w) = Len(q) + (Len(r) - Len(p)) /\ Len(p) <= Len(r)
      /\ \A i \in 1..Len(q) : w[i] = q[i]
      /\ \A i \in 1..Len(r) - Len(p) : w[Len(q) + i] = r[Len(p) + i]
  BY <1>1, RenamedSequence
<1>3. IsStrictPrefix(q, w)
  BY RenamedBelow
<1>4. w # <<>>
  <2>1. IsPrefix(q, w) /\ q # w
    BY <1>3 DEF IsStrictPrefix
  <2>2. Len(q) <= Len(w) /\ \A i \in 1..Len(q) : q[i] = w[i]
    BY <1>1, <1>2, <2>1, BeginsWith
  <2> HIDE DEF w
  <2>3. Len(w) = 0 => Len(q) = Len(w)
    BY <1>1, <1>2, <2>2
  <2> QED
    BY <1>1, <1>2, <2>1, <2>2, <2>3, SeqEqual
<1> HIDE DEF w
<1>5. /\ Front(w) \in Seq(Names) /\ Len(w) \in Nat \ {0} /\ Len(Front(w)) = Len(w) - 1
      /\ \A i \in 1..Len(w) - 1 : Front(w)[i] = w[i]
  BY <1>2, <1>4, Fronts
<1>6. /\ f \in Seq(Names) /\ Len(r) \in Nat \ {0} /\ Len(f) = Len(r) - 1
      /\ \A i \in 1..Len(r) - 1 : f[i] = r[i]
  BY <1>1, Fronts
<1>7. IsPrefix(p, f)
  <2>1. IsStrictPrefix(p, r)
    BY DEF Below
  <2> QED
    BY <1>1, <2>1, FrontBegins
<1> HIDE DEF f
<1>8. /\ v \in Seq(Names) /\ Len(v) = Len(q) + (Len(f) - Len(p)) /\ Len(p) <= Len(f)
      /\ \A i \in 1..Len(q) : v[i] = q[i]
      /\ \A i \in 1..Len(f) - Len(p) : v[Len(q) + i] = f[Len(p) + i]
  <2>1. p \in Seq(Names) /\ q \in Seq(Names) /\ f \in Seq(Names) /\ IsPrefix(p, f)
    BY <1>1, <1>6, <1>7
  <2> QED
    BY <2>1, RenamedSequence
<1> HIDE DEF v
<1>9. Len(v) = Len(Front(w))
  BY <1>1, <1>2, <1>5, <1>6, <1>8
<1>10. ASSUME NEW i \in 1..Len(v) PROVE v[i] = Front(w)[i]
  <2>0. i \in 1..Len(w) - 1
    BY <1>5, <1>9
  <2>1. CASE i <= Len(q)
    <3>1. i \in 1..Len(q)
      BY <1>1, <2>1, <1>8
    <3> QED
      BY <3>1, <2>0, <1>2, <1>5, <1>8
  <2>2. CASE ~(i <= Len(q))
    <3> DEFINE j == i - Len(q)
    <3>1. j \in 1..Len(f) - Len(p) /\ j \in 1..Len(r) - Len(p) /\ Len(p) + j \in 1..Len(r) - 1 /\ Len(q) + j = i
      BY <1>1, <1>6, <1>8, <2>2
    <3> HIDE DEF j
    <3>2. v[Len(q) + j] = f[Len(p) + j] /\ f[Len(p) + j] = r[Len(p) + j] /\ w[Len(q) + j] = r[Len(p) + j]
      BY <1>2, <1>6, <1>8, <3>1
    <3> QED
      BY <3>1, <3>2, <2>0, <1>5
  <2> QED
    BY <2>1, <2>2
<1>11. v = Front(w)
  BY <1>5, <1>8, <1>9, <1>10, SeqEqual
<1>12. ASSUME f = p PROVE v = q
  <2>1. Len(v) = Len(q)
    BY <1>1, <1>8, <1>12
  <2> QED
    BY <1>1, <1>8, <2>1, SeqEqual
<1> QED
  BY <1>11, <1>12 DEF v, w, f

-----------------------------------------------------------------------------
(* Listings, entry by entry.                                                *)

\* What listing L says of y.
Said(L, y) == {e \in L : e.name = y}

\* What a listing should say of y, with the objects f and the directories E.
Truth(f, E, y) ==
  (IF f[y] # Absent THEN {Entry(y, "file", f[y])} ELSE {})
    \cup (IF y \in E THEN {DirEntry(y)} ELSE {})

\* The cache c is right outside the doubtful paths D, which may have listings
\* of directories that no longer exist.
Right(c, D, f, E) ==
  \A d \in DOMAIN c :
    /\ d \in Paths /\ d \in {Bucket} \cup E \cup D
    /\ \A e \in c[d] : e \in Entries /\ e.name \in Children(d)
    /\ \A y \in Children(d) \ D : Said(c[d], y) = Truth(f, E, y)

LEMMA TruthMeans ==
  ASSUME NEW f, NEW E, NEW y, NEW e
  PROVE  e \in Truth(f, E, y) <=> \/ f[y] # Absent /\ e = Entry(y, "file", f[y])
                                  \/ y \in E /\ e = DirEntry(y)
BY DEF Truth

LEMMA EntriesDiffer ==
  ASSUME NEW n, NEW type, NEW v
  PROVE  Entry(n, type, v).name = n /\ Entry(n, type, v).type = type
         /\ DirEntry(n).name = n /\ DirEntry(n).type = "directory"
BY DEF Entry, DirEntry

\* The other entries of listing L.
Other(L, p, type) == {e \in L : ~(e.name = p /\ e.type = type)}

LEMMA ListingSays ==
  ASSUME NEW d
  PROVE  /\ \A e \in Listing(d) : e.name \in Children(d)
         /\ \A y \in Children(d) : Said(Listing(d), y) = Truth(file, Dirs, y)
<1>1. \A e : e \in Listing(d) <=> \E y \in Children(d) : e \in Truth(file, Dirs, y)
  <2>1. \A y \in Children(d) : y \in Objects <=> file[y] # Absent
    BY DEF Children, Below, Objects
  <2> QED
    BY <2>1, TruthMeans DEF Listing, FileEntry
<1>2. \A y, e : e \in Truth(file, Dirs, y) => e.name = y
  BY TruthMeans, EntriesDiffer
<1> QED
  BY <1>1, <1>2 DEF Said

-----------------------------------------------------------------------------
(* Changes of a cache that is right.                                        *)

LEMMA DropMeans ==
  ASSUME NEW c, NEW p, NEW type
  PROVE  DropEntry(c, p, type) = [d \in DOMAIN c |-> IF d = Front(p) THEN Other(c[d], p, type) ELSE c[d]]
BY DEF DropEntry, Other

LEMMA UpsertMeans ==
  ASSUME NEW c, NEW e
  PROVE  UpsertEntry(c, e) =
           [d \in DOMAIN c |-> IF d = Front(e.name) THEN Other(c[d], e.name, e.type) \cup {e} ELSE c[d]]
BY DEF UpsertEntry, Other

LEMMA DropFile ==
  ASSUME NEW f, NEW g, NEW D, NEW E, NEW L, NEW p, NEW y, Said(L, y) = Truth(f, D, y),
         y = p => g[y] = Absent, y # p => g[y] = f[y], y \in D <=> y \in E
  PROVE  Said(Other(L, p, "file"), y) = Truth(g, E, y)
<1>1. \A e : e \in Said(Other(L, p, "file"), y) <=> e \in Truth(f, D, y) /\ ~(e.name = p /\ e.type = "file")
  BY DEF Said, Other
<1>2. ASSUME NEW e PROVE e \in Said(Other(L, p, "file"), y) <=> e \in Truth(g, E, y)
  <2>0. e \in Truth(f, D, y) <=> (f[y] # Absent /\ e = Entry(y, "file", f[y])) \/ (y \in D /\ e = DirEntry(y))
    BY TruthMeans
  <2>1. e \in Truth(g, E, y) <=> (g[y] # Absent /\ e = Entry(y, "file", g[y])) \/ (y \in E /\ e = DirEntry(y))
    BY TruthMeans
  <2>2. /\ Entry(y, "file", f[y]).name = y /\ Entry(y, "file", f[y]).type = "file"
        /\ Entry(y, "file", g[y]).name = y /\ Entry(y, "file", g[y]).type = "file"
        /\ DirEntry(y).name = y /\ DirEntry(y).type = "directory"
    BY EntriesDiffer
  <2> QED
    BY <1>1, <2>0, <2>1, <2>2
<1> QED
  BY <1>2

LEMMA DropDir ==
  ASSUME NEW f, NEW g, NEW D, NEW E, NEW L, NEW p, NEW y, Said(L, y) = Truth(f, D, y),
         y = p => y \notin E, y # p => (y \in D <=> y \in E), f[y] = g[y]
  PROVE  Said(Other(L, p, "directory"), y) = Truth(g, E, y)
<1>1. \A e : e \in Said(Other(L, p, "directory"), y)
               <=> e \in Truth(f, D, y) /\ ~(e.name = p /\ e.type = "directory")
  BY DEF Said, Other
<1>2. \A e : e \in Said(Other(L, p, "directory"), y) <=> e \in Truth(g, E, y)
  BY <1>1, TruthMeans, EntriesDiffer
<1> QED
  BY <1>2

LEMMA UpsertFile ==
  ASSUME NEW f, NEW g, NEW D, NEW E, NEW L, NEW q, NEW v, NEW y, Said(L, y) = Truth(f, D, y),
         y = q => g[y] = v /\ v # Absent, y # q => g[y] = f[y], y \in D <=> y \in E
  PROVE  Said(Other(L, q, "file") \cup {Entry(q, "file", v)}, y) = Truth(g, E, y)
<1> DEFINE new == Entry(q, "file", v)
<1>1. \A e : e \in Said(Other(L, q, "file") \cup {new}, y)
               <=> \/ e \in Truth(f, D, y) /\ ~(e.name = q /\ e.type = "file")
                   \/ e.name = y /\ e = new
  BY DEF Said, Other
<1>2. ASSUME NEW e PROVE e \in Said(Other(L, q, "file") \cup {new}, y) <=> e \in Truth(g, E, y)
  <2>0. e \in Truth(f, D, y) <=> (f[y] # Absent /\ e = Entry(y, "file", f[y])) \/ (y \in D /\ e = DirEntry(y))
    BY TruthMeans
  <2>1. e \in Truth(g, E, y) <=> (g[y] # Absent /\ e = Entry(y, "file", g[y])) \/ (y \in E /\ e = DirEntry(y))
    BY TruthMeans
  <2>2. /\ Entry(y, "file", f[y]).name = y /\ Entry(y, "file", f[y]).type = "file"
        /\ Entry(y, "file", g[y]).name = y /\ Entry(y, "file", g[y]).type = "file"
        /\ DirEntry(y).name = y /\ DirEntry(y).type = "directory"
    BY EntriesDiffer
  <2>3. new.name = q /\ new.type = "file" /\ (y = q => new = Entry(y, "file", g[y]))
    BY EntriesDiffer
  <2> HIDE DEF new
  <2>4. CASE y = q
    BY <1>1, <2>0, <2>1, <2>2, <2>3, <2>4
  <2>5. CASE y # q
    <3>1. f[y] = g[y] /\ (y \in D <=> y \in E)
      BY <2>5
    <3> QED
      BY <1>1, <2>0, <2>1, <2>2, <2>3, <2>5, <3>1
  <2> QED
    BY <2>4, <2>5
<1> QED
  BY <1>2

LEMMA UpsertDir ==
  ASSUME NEW f, NEW g, NEW D, NEW E, NEW L, NEW q, NEW y, Said(L, y) = Truth(f, D, y),
         y = q => y \in E, y # q => (y \in D <=> y \in E), f[y] = g[y]
  PROVE  Said(Other(L, q, "directory") \cup {DirEntry(q)}, y) = Truth(g, E, y)
<1> DEFINE new == DirEntry(q)
<1>1. \A e : e \in Said(Other(L, q, "directory") \cup {new}, y)
               <=> \/ e \in Truth(f, D, y) /\ ~(e.name = q /\ e.type = "directory")
                   \/ e.name = y /\ e = new
  BY DEF Said, Other
<1>2. ASSUME NEW e PROVE e \in Said(Other(L, q, "directory") \cup {new}, y) <=> e \in Truth(g, E, y)
  <2>0. e \in Truth(f, D, y) <=> (f[y] # Absent /\ e = Entry(y, "file", f[y])) \/ (y \in D /\ e = DirEntry(y))
    BY TruthMeans
  <2>1. e \in Truth(g, E, y) <=> (g[y] # Absent /\ e = Entry(y, "file", g[y])) \/ (y \in E /\ e = DirEntry(y))
    BY TruthMeans
  <2>2. /\ Entry(y, "file", f[y]).name = y /\ Entry(y, "file", f[y]).type = "file"
        /\ Entry(y, "file", g[y]).name = y /\ Entry(y, "file", g[y]).type = "file"
        /\ DirEntry(y).name = y /\ DirEntry(y).type = "directory"
    BY EntriesDiffer
  <2>3. new.name = q /\ new.type = "directory"
    BY EntriesDiffer
  <2> QED
    BY <1>1, <2>0, <2>1, <2>2, <2>3
<1> QED
  BY <1>2

LEMMA AddDirs ==
  ASSUME NEW f, NEW g, NEW D, NEW E, NEW L, NEW M, NEW y, Said(L, y) = Truth(f, D, y),
         y \in E <=> y \in D \/ y \in M, f[y] = g[y]
  PROVE  Said(L \cup {DirEntry(m) : m \in M}, y) = Truth(g, E, y)
<1>1. \A e : e \in Said(L \cup {DirEntry(m) : m \in M}, y)
               <=> e \in Truth(f, D, y) \/ (e.name = y /\ \E m \in M : e = DirEntry(m))
  BY DEF Said
<1>2. \A e : e \in Said(L \cup {DirEntry(m) : m \in M}, y) <=> e \in Truth(g, E, y)
  BY <1>1, TruthMeans, EntriesDiffer
<1> QED
  BY <1>2

LEMMA ParentOf ==
  ASSUME NEW d \in Paths, NEW y \in Children(d)
  PROVE  y \in Paths /\ y # Bucket /\ Front(y) = d /\ y \in Below(d)
BY ChildMeans DEF Children, Below

\* The server changed nothing that the cache shows outside the doubts.
LEMMA SameRight ==
  ASSUME NEW c, NEW D, NEW f, NEW E, NEW g, NEW G, Right(c, D, f, E),
         \A y \in Paths \ D : y # Bucket /\ Front(y) \in DOMAIN c => g[y] = f[y] /\ (y \in E <=> y \in G),
         \A d \in DOMAIN c : d \in E => d \in {Bucket} \cup G \cup D
  PROVE  Right(c, D, g, G)
<1> SUFFICES ASSUME NEW d \in DOMAIN c
             PROVE  /\ d \in Paths /\ d \in {Bucket} \cup G \cup D
                    /\ \A e \in c[d] : e \in Entries /\ e.name \in Children(d)
                    /\ \A y \in Children(d) \ D : Said(c[d], y) = Truth(g, G, y)
  BY DEF Right
<1>1. /\ d \in Paths /\ d \in {Bucket} \cup E \cup D
      /\ \A e \in c[d] : e \in Entries /\ e.name \in Children(d)
      /\ \A y \in Children(d) \ D : Said(c[d], y) = Truth(f, E, y)
  BY DEF Right
<1>2. ASSUME NEW y \in Children(d) \ D PROVE Said(c[d], y) = Truth(g, G, y)
  <2>1. y \in Paths \ D /\ y # Bucket /\ Front(y) = d
    BY <1>1, ParentOf
  <2>2. g[y] = f[y] /\ (y \in E <=> y \in G)
    BY <2>1
  <2>3. Truth(g, G, y) = Truth(f, E, y)
    BY <2>2 DEF Truth
  <2> QED
    BY <1>1, <2>3
<1> QED
  BY <1>1, <1>2

LEMMA DropFileRight ==
  ASSUME NEW c, NEW D, NEW f, NEW E, NEW g, NEW G, NEW p, Right(c, D, f, E),
         \A y \in Paths \ D : y # Bucket /\ Front(y) \in DOMAIN c =>
           /\ (y = p => g[y] = Absent) /\ (y # p => g[y] = f[y]) /\ (y \in E <=> y \in G),
         \A d \in DOMAIN c : d \in E => d \in {Bucket} \cup G \cup D
  PROVE  Right(DropEntry(c, p, "file"), D, g, G)
<1> DEFINE b == DropEntry(c, p, "file")
<1>0. DOMAIN b = DOMAIN c /\ \A d \in DOMAIN c : b[d] = IF d = Front(p) THEN Other(c[d], p, "file") ELSE c[d]
  BY DropMeans
<1> HIDE DEF b
<1> SUFFICES ASSUME NEW d \in DOMAIN c
             PROVE  /\ d \in Paths /\ d \in {Bucket} \cup G \cup D
                    /\ \A e \in b[d] : e \in Entries /\ e.name \in Children(d)
                    /\ \A y \in Children(d) \ D : Said(b[d], y) = Truth(g, G, y)
  BY <1>0 DEF Right, b
<1>1. /\ d \in Paths /\ d \in {Bucket} \cup E \cup D
      /\ \A e \in c[d] : e \in Entries /\ e.name \in Children(d)
      /\ \A y \in Children(d) \ D : Said(c[d], y) = Truth(f, E, y)
  BY DEF Right
<1>2. ASSUME NEW y \in Children(d) \ D PROVE Said(b[d], y) = Truth(g, G, y)
  <2>1. y \in Paths \ D /\ y # Bucket /\ Front(y) = d /\ Said(c[d], y) = Truth(f, E, y)
    BY <1>1, ParentOf
  <2>2. (y = p => g[y] = Absent) /\ (y # p => g[y] = f[y]) /\ (y \in E <=> y \in G)
    BY <2>1
  <2>3. CASE d = Front(p)
    BY <1>0, <2>1, <2>2, <2>3, DropFile
  <2>4. CASE d # Front(p)
    <3>1. y # p
      BY <2>1, <2>4
    <3>2. Truth(g, G, y) = Truth(f, E, y)
      BY <2>2, <3>1 DEF Truth
    <3> QED
      BY <1>0, <2>1, <2>4, <3>2
  <2> QED
    BY <2>3, <2>4
<1>3. \A e \in b[d] : e \in c[d]
  BY <1>0 DEF Other
<1> QED
  BY <1>1, <1>2, <1>3

LEMMA DropDirRight ==
  ASSUME NEW c, NEW D, NEW f, NEW E, NEW G, NEW p, Right(c, D, f, E),
         \A y \in Paths \ D : y # Bucket /\ Front(y) \in DOMAIN c =>
           (y = p => y \notin G) /\ (y # p => (y \in E <=> y \in G)),
         \A d \in DOMAIN c : d \in E => d \in {Bucket} \cup G \cup D
  PROVE  Right(DropEntry(c, p, "directory"), D, f, G)
<1> DEFINE b == DropEntry(c, p, "directory")
<1>0. DOMAIN b = DOMAIN c /\ \A d \in DOMAIN c : b[d] = IF d = Front(p) THEN Other(c[d], p, "directory") ELSE c[d]
  BY DropMeans
<1> HIDE DEF b
<1> SUFFICES ASSUME NEW d \in DOMAIN c
             PROVE  /\ d \in Paths /\ d \in {Bucket} \cup G \cup D
                    /\ \A e \in b[d] : e \in Entries /\ e.name \in Children(d)
                    /\ \A y \in Children(d) \ D : Said(b[d], y) = Truth(f, G, y)
  BY <1>0 DEF Right, b
<1>1. /\ d \in Paths /\ d \in {Bucket} \cup E \cup D
      /\ \A e \in c[d] : e \in Entries /\ e.name \in Children(d)
      /\ \A y \in Children(d) \ D : Said(c[d], y) = Truth(f, E, y)
  BY DEF Right
<1>2. ASSUME NEW y \in Children(d) \ D PROVE Said(b[d], y) = Truth(f, G, y)
  <2>1. y \in Paths \ D /\ y # Bucket /\ Front(y) = d /\ Said(c[d], y) = Truth(f, E, y)
    BY <1>1, ParentOf
  <2>2. (y = p => y \notin G) /\ (y # p => (y \in E <=> y \in G))
    BY <2>1
  <2>3. CASE d = Front(p)
    BY <1>0, <2>1, <2>2, <2>3, DropDir
  <2>4. CASE d # Front(p)
    <3>1. y # p
      BY <2>1, <2>4
    <3>2. Truth(f, G, y) = Truth(f, E, y)
      BY <2>2, <3>1 DEF Truth
    <3> QED
      BY <1>0, <2>1, <2>4, <3>2
  <2> QED
    BY <2>3, <2>4
<1>3. \A e \in b[d] : e \in c[d]
  BY <1>0 DEF Other
<1> QED
  BY <1>1, <1>2, <1>3

LEMMA UpsertFileRight ==
  ASSUME NEW c, NEW D, NEW f, NEW E, NEW g, NEW G, NEW q \in Paths, q # Bucket, Right(c, D, f, E),
         g[q] \in Versions,
         \A y \in Paths \ D : y # Bucket /\ Front(y) \in DOMAIN c =>
           (y # q => g[y] = f[y]) /\ (y \in E <=> y \in G),
         \A d \in DOMAIN c : d \in E => d \in {Bucket} \cup G \cup D
  PROVE  Right(UpsertEntry(c, Entry(q, "file", g[q])), D, g, G)
<1> DEFINE new == Entry(q, "file", g[q])
           b   == UpsertEntry(c, new)
<1>n. new.name = q /\ new.type = "file" /\ new \in Entries
  <2>1. new \in Entries
    BY DEF Entry, Entries
  <2> QED
    BY <2>1, EntriesDiffer
<1>0. /\ DOMAIN b = DOMAIN c
      /\ \A d \in DOMAIN c : b[d] = IF d = Front(q) THEN Other(c[d], q, "file") \cup {new} ELSE c[d]
  <2> HIDE DEF new
  <2> QED
    BY <1>n, UpsertMeans
<1> HIDE DEF b
<1> SUFFICES ASSUME NEW d \in DOMAIN c
             PROVE  /\ d \in Paths /\ d \in {Bucket} \cup G \cup D
                    /\ \A e \in b[d] : e \in Entries /\ e.name \in Children(d)
                    /\ \A y \in Children(d) \ D : Said(b[d], y) = Truth(g, G, y)
  BY <1>0 DEF Right, b
<1>1. /\ d \in Paths /\ d \in {Bucket} \cup E \cup D
      /\ \A e \in c[d] : e \in Entries /\ e.name \in Children(d)
      /\ \A y \in Children(d) \ D : Said(c[d], y) = Truth(f, E, y)
  BY DEF Right
<1>2. ASSUME NEW y \in Children(d) \ D PROVE Said(b[d], y) = Truth(g, G, y)
  <2>1. y \in Paths \ D /\ y # Bucket /\ Front(y) = d /\ Said(c[d], y) = Truth(f, E, y)
    BY <1>1, ParentOf
  <2>2. (y = q => g[y] # Absent) /\ (y # q => g[y] = f[y]) /\ (y \in E <=> y \in G)
    BY <2>1, AbsentIsNoVersion
  <2>3. CASE d = Front(q)
    <3> DEFINE L == c[d]
    <3>1. Said(L, y) = Truth(f, E, y)
      BY <2>1
    <3> HIDE DEF L
    <3> DEFINE v == g[q]
    <3>2. y = q => g[y] = v /\ v # Absent
      BY <2>2
    <3>3. new = Entry(q, "file", v)
      OBVIOUS
    <3> HIDE DEF v
    <3>4. Said(Other(L, q, "file") \cup {Entry(q, "file", v)}, y) = Truth(g, G, y)
      BY <2>2, <3>1, <3>2, UpsertFile
    <3> QED
      BY <1>0, <2>3, <3>3, <3>4 DEF L
  <2>4. CASE d # Front(q)
    <3>1. y # q
      BY <2>1, <2>4
    <3>2. Truth(g, G, y) = Truth(f, E, y)
      BY <2>2, <3>1 DEF Truth
    <3> QED
      BY <1>0, <2>1, <2>4, <3>2
  <2> QED
    BY <2>3, <2>4
<1>3. \A e \in b[d] : e \in c[d] \/ (e = new /\ d = Front(q))
  BY <1>0 DEF Other
<1>4. d = Front(q) => q \in Children(d)
  BY <1>1, ChildMeans
<1> HIDE DEF new
<1> QED
  BY <1>n, <1>1, <1>2, <1>3, <1>4

LEMMA UpsertDirRight ==
  ASSUME NEW c, NEW D, NEW f, NEW E, NEW g, NEW G, NEW q \in Paths, q # Bucket, Right(c, D, f, E),
         q \in G,
         \A y \in Paths \ D : y # Bucket /\ Front(y) \in DOMAIN c =>
           (y # q => (y \in E <=> y \in G)) /\ g[y] = f[y],
         \A d \in DOMAIN c : d \in E => d \in {Bucket} \cup G \cup D
  PROVE  Right(UpsertEntry(c, DirEntry(q)), D, g, G)
<1> DEFINE new == DirEntry(q)
           b   == UpsertEntry(c, new)
<1>n. new.name = q /\ new.type = "directory" /\ new \in Entries
  <2>1. new \in Entries
    BY DEF DirEntry, Entry, Entries
  <2> QED
    BY <2>1, EntriesDiffer
<1>0. /\ DOMAIN b = DOMAIN c
      /\ \A d \in DOMAIN c : b[d] = IF d = Front(q) THEN Other(c[d], q, "directory") \cup {new} ELSE c[d]
  <2> HIDE DEF new
  <2> QED
    BY <1>n, UpsertMeans
<1> HIDE DEF b
<1> SUFFICES ASSUME NEW d \in DOMAIN c
             PROVE  /\ d \in Paths /\ d \in {Bucket} \cup G \cup D
                    /\ \A e \in b[d] : e \in Entries /\ e.name \in Children(d)
                    /\ \A y \in Children(d) \ D : Said(b[d], y) = Truth(g, G, y)
  BY <1>0 DEF Right, b
<1>1. /\ d \in Paths /\ d \in {Bucket} \cup E \cup D
      /\ \A e \in c[d] : e \in Entries /\ e.name \in Children(d)
      /\ \A y \in Children(d) \ D : Said(c[d], y) = Truth(f, E, y)
  BY DEF Right
<1>2. ASSUME NEW y \in Children(d) \ D PROVE Said(b[d], y) = Truth(g, G, y)
  <2>1. y \in Paths \ D /\ y # Bucket /\ Front(y) = d /\ Said(c[d], y) = Truth(f, E, y)
    BY <1>1, ParentOf
  <2>2. (y = q => y \in G) /\ (y # q => (y \in E <=> y \in G)) /\ f[y] = g[y]
    BY <2>1
  <2>3. CASE d = Front(q)
    BY <1>0, <2>1, <2>2, <2>3, UpsertDir
  <2>4. CASE d # Front(q)
    <3>1. y # q
      BY <2>1, <2>4
    <3>2. Truth(g, G, y) = Truth(f, E, y)
      BY <2>2, <3>1 DEF Truth
    <3> QED
      BY <1>0, <2>1, <2>4, <3>2
  <2> QED
    BY <2>3, <2>4
<1>3. \A e \in b[d] : e \in c[d] \/ (e = new /\ d = Front(q))
  BY <1>0 DEF Other
<1>4. d = Front(q) => q \in Children(d)
  BY <1>1, ChildMeans
<1> HIDE DEF new
<1> QED
  BY <1>n, <1>1, <1>2, <1>3, <1>4

\* New listings of what exists.
LEMMA StoreRight ==
  ASSUME NEW c, NEW D, NEW f, NEW E, NEW r, Right(c, D, f, E), Right(r, {}, f, E)
  PROVE  Right(Store(c, r), D, f, E)
<1> DEFINE b == Store(c, r)
<1>1. /\ DOMAIN b = DOMAIN c \cup DOMAIN r
      /\ (\A d \in DOMAIN r : b[d] = r[d]) /\ (\A d \in DOMAIN c \ DOMAIN r : b[d] = c[d])
  BY DEF Store
<1> HIDE DEF b
<1>2. ASSUME NEW d \in DOMAIN b
      PROVE  /\ d \in Paths /\ d \in {Bucket} \cup E \cup D
             /\ \A e \in b[d] : e \in Entries /\ e.name \in Children(d)
             /\ \A y \in Children(d) \ D : Said(b[d], y) = Truth(f, E, y)
  <2>1. CASE d \in DOMAIN r
    BY <1>1, <2>1 DEF Right
  <2>2. CASE d \notin DOMAIN r
    BY <1>1, <2>2 DEF Right, Store, b
  <2> QED
    BY <2>1, <2>2
<1> QED
  BY <1>2 DEF Right, b

\* The cache b is c without some directories.
Restricts(b, c) == DOMAIN b \subseteq DOMAIN c /\ \A d \in DOMAIN b : b[d] = c[d]

LEMMA RestrictRight ==
  ASSUME NEW b, NEW c, NEW D, NEW f, NEW E, Restricts(b, c), Right(c, D, f, E)
  PROVE  Right(b, D, f, E)
BY DEF Restricts, Right

LEMMA WithoutRestricts ==
  ASSUME NEW c, NEW S
  PROVE  DOMAIN Without(c, S) = DOMAIN c \ S /\ Restricts(Without(c, S), c)
BY DEF Without, Restricts

\* More doubts.
LEMMA WiderRight ==
  ASSUME NEW c, NEW C, NEW D, NEW f, NEW E, C \subseteq D, Right(c, C, f, E)
  PROVE  Right(c, D, f, E)
BY DEF Right

\* A doubt that does not last is about nothing in the cache c but its new listings.
LEMMA LastingRight ==
  ASSUME NEW c, NEW D \in SUBSET Paths, NEW X, NEW f, NEW E, NEW K, NEW fresh, Right(c, D \cup X, f, E),
         DOMAIN c \ fresh \subseteq K,
         \A d \in fresh \cap DOMAIN c :
           d \in {Bucket} \cup E /\ \A y \in Children(d) : Said(c[d], y) = Truth(f, E, y)
  PROVE  Right(c, Lasting(D, K) \cup X, f, E)
<1> SUFFICES ASSUME NEW d \in DOMAIN c
             PROVE  /\ d \in Paths /\ d \in {Bucket} \cup E \cup (Lasting(D, K) \cup X)
                    /\ \A e \in c[d] : e \in Entries /\ e.name \in Children(d)
                    /\ \A y \in Children(d) \ (Lasting(D, K) \cup X) : Said(c[d], y) = Truth(f, E, y)
  BY DEF Right
<1>1. /\ d \in Paths /\ d \in {Bucket} \cup E \cup (D \cup X)
      /\ \A e \in c[d] : e \in Entries /\ e.name \in Children(d)
      /\ \A y \in Children(d) \ (D \cup X) : Said(c[d], y) = Truth(f, E, y)
  BY DEF Right
<1>2. CASE d \in fresh
  BY <1>1, <1>2
<1>3. CASE d \notin fresh
  <2>1. d \in K
    BY <1>3
  <2>2. d \in D => d \in Lasting(D, K)
    BY <2>1 DEF Lasting
  <2>3. ASSUME NEW y \in Children(d), y \in D PROVE y \in Lasting(D, K)
    <3>1. Front(y) = d
      BY <1>1, <2>3, ParentOf
    <3> QED
      BY <2>1, <2>3, <3>1 DEF Lasting
  <2> QED
    BY <1>1, <2>2, <2>3
<1> QED
  BY <1>2, <1>3

-----------------------------------------------------------------------------
(* The invariant.                                                           *)

Exists(d) == d = Bucket \/ d \in Dirs

World ==
  /\ hns \in BOOLEAN /\ file \in [Paths -> Versions \cup {Absent}] /\ file[Bucket] = Absent
  /\ folders \subseteq Paths \ {Bucket} /\ (~hns => folders = {})
  /\ hns => \A x \in Objects \cup folders : Front(x) \in folders \cup {Bucket}
  /\ NoClash

\* The cache c once the reply to request o has come.
After(c, o) ==
  CASE o.kind = "write"  -> WriteUpdate(c, o.path)
    [] o.kind = "delete" -> DeleteUpdate(c, o.path)
    [] o.kind = "move"   -> MoveUpdate(c, o.path, o.entry)
    [] o.kind = "mkdir"  -> MkdirUpdate(c, o.made)
    [] o.kind = "rmdir"  -> RmdirUpdate(c, o.path)
    [] o.kind = "rename" -> RenameUpdate(c, o.path, o.to)
    [] o.kind = "list"   -> Store(c, o.reply)
    [] OTHER -> c

\* A doubt about a path is a doubt about the directories above it.
Upward(D) == \A x \in D : \A a \in Paths \ {Bucket} : x \in Below(a) => a \in D

\* The cache is right if the reply comes, and if it does not.
Kept(t) ==
  /\ DOMAIN op = Tasks /\ World
  /\ doubtful \subseteq Paths /\ Upward(doubtful) /\ Touched(op[t]) \subseteq Paths
  /\ Right(After(cache, op[t]), doubtful, file, Dirs)
  /\ Right(cache, doubtful \cup Doubts(op[t]), file, Dirs)
  /\ op[t].kind = "list" => Right(op[t].reply, {}, file, Dirs)

LEMMA AfterIs ==
  ASSUME NEW c, NEW o
  PROVE  /\ o.kind = "write" => After(c, o) = WriteUpdate(c, o.path)
         /\ o.kind = "delete" => After(c, o) = DeleteUpdate(c, o.path)
         /\ o.kind = "move" => After(c, o) = MoveUpdate(c, o.path, o.entry)
         /\ o.kind = "mkdir" => After(c, o) = MkdirUpdate(c, o.made)
         /\ o.kind = "rmdir" => After(c, o) = RmdirUpdate(c, o.path)
         /\ o.kind = "rename" => After(c, o) = RenameUpdate(c, o.path, o.to)
         /\ o.kind = "list" => After(c, o) = Store(c, o.reply)
         /\ o.kind \notin {"write", "delete", "move", "mkdir", "rmdir", "rename", "list"} => After(c, o) = c
<1>1. o.kind = "write" => After(c, o) = WriteUpdate(c, o.path)
  BY DEF After
<1>2. o.kind = "delete" => After(c, o) = DeleteUpdate(c, o.path)
  BY DEF After
<1>3. o.kind = "move" => After(c, o) = MoveUpdate(c, o.path, o.entry)
  BY DEF After
<1>4. o.kind = "mkdir" => After(c, o) = MkdirUpdate(c, o.made)
  BY DEF After
<1>5. o.kind = "rmdir" => After(c, o) = RmdirUpdate(c, o.path)
  BY DEF After
<1>6. o.kind = "rename" => After(c, o) = RenameUpdate(c, o.path, o.to)
  BY DEF After
<1>7. o.kind = "list" => After(c, o) = Store(c, o.reply)
  BY DEF After
<1>8. o.kind \notin {"write", "delete", "move", "mkdir", "rmdir", "rename", "list"} => After(c, o) = c
  BY DEF After
<1> QED
  BY <1>1, <1>2, <1>3, <1>4, <1>5, <1>6, <1>7, <1>8

LEMMA DirsMean ==
  /\ hns => Dirs = folders
  /\ ~hns => \A d : d \in Dirs <=> d \in Paths \ {Bucket} /\ \E x \in Below(d) : file[x] # Absent
BY DEF Dirs, Objects, Below

LEMMA DirsMeanNext ==
  /\ hns' => Dirs' = folders'
  /\ ~hns' => \A d : d \in Dirs' <=> d \in Paths \ {Bucket} /\ \E x \in Below(d) : file'[x] # Absent
BY DEF Dirs, Objects, Below

LEMMA DirsArePaths == World => Dirs \subseteq Paths \ {Bucket}
BY DirsMean DEF World

\* Nothing is above the root, and what is above an existing directory exists.
LEMMA ExistsUp ==
  ASSUME World, NEW d \in Paths, Exists(d), NEW a \in Paths, d \in Below(a)
  PROVE  Exists(a)
<1>0. d # Bucket /\ d \in Dirs
  BY BelowMeans DEF Exists
<1>1. CASE ~hns
  <2>1. PICK x \in Below(d) : file[x] # Absent
    BY <1>0, <1>1, DirsMean
  <2>2. x \in Below(a)
    BY <2>1, BelowBelow
  <2> QED
    BY <1>1, <2>1, <2>2, DirsMean DEF Exists
<1>2. CASE hns
  <2> DEFINE S == {x \in folders : \E b \in Paths : x \in Below(b) /\ ~Exists(b)}
  <2>1. S = {}
    <3> SUFFICES ASSUME S # {} PROVE FALSE
      OBVIOUS
    <3>1. S \in SUBSET Paths
      BY DEF World
    <3>2. PICK x \in S : x # Bucket => Front(x) \notin S
      <4> HIDE DEF S
      <4> QED
        BY <3>1, ShortestPath
    <3>3. PICK b \in Paths : x \in Below(b) /\ ~Exists(b)
      BY <3>2
    <3>4. x \in Paths /\ x # Bucket /\ (Front(x) = b \/ Front(x) \in Below(b))
      BY <3>1, <3>3, BelowMeans
    <3>5. Front(x) \in folders \cup {Bucket}
      BY <1>2, <3>2 DEF World
    <3>6. Front(x) # b
      BY <1>2, <3>3, <3>5, DirsMean DEF Exists
    <3>7. Front(x) \in Below(b) /\ Front(x) \in Paths /\ Front(x) # Bucket
      BY <3>3, <3>4, <3>6, FrontsArePaths, BelowMeans
    <3> QED
      BY <3>2, <3>3, <3>4, <3>5, <3>7
  <2> QED
    BY <1>0, <1>2, <2>1, DirsMean
<1> QED
  BY <1>1, <1>2

LEMMA ListedExist ==
  ASSUME World, NEW d \in Paths, NEW c \in Children(d), c \in Objects \cup Dirs
  PROVE  Exists(d)
<1>1. c \in Paths /\ c # Bucket /\ Front(c) = d /\ c \in Below(d)
  BY ChildMeans DEF Children, Below
<1>2. CASE hns
  <2>1. c \in Objects \cup folders
    BY <1>2, DirsMean
  <2>2. Front(c) \in folders \cup {Bucket}
    BY <1>2, <2>1 DEF World
  <2> QED
    BY <1>1, <1>2, <2>2, DirsMean DEF Exists
<1>3. CASE ~hns
  <2>1. CASE c \in Objects
    BY <1>1, <1>3, <2>1, DirsMean DEF Exists, Objects
  <2>2. CASE c \in Dirs
    BY <1>1, <2>2, ExistsUp DEF Exists
  <2> QED
    BY <2>1, <2>2
<1> QED
  BY <1>2, <1>3

LEMMA MakesMean ==
  ASSUME NEW p \in Paths, p # Bucket
  PROVE  /\ Makes(p) = IF hns THEN {x \in Paths \ {Bucket} : p \in Below(x)} ELSE {}
         /\ hns => \A x \in {p} \cup Makes(p) : Front(x) \in Makes(p) \cup {Bucket}
<1>1. Makes(p) = IF hns THEN {x \in Paths \ {Bucket} : p \in Below(x)} ELSE {}
  BY AncestorsAbove DEF Makes
<1>2. Front(p) \in Paths /\ p \in Below(Front(p))
  BY FrontsArePaths, BelowMeans
<1>3. ASSUME hns, NEW x \in Makes(p) PROVE Front(x) \in Makes(p) \cup {Bucket}
  <2>1. x \in Paths \ {Bucket} /\ p \in Below(x)
    BY <1>1, <1>3
  <2>2. Front(x) \in Paths /\ x \in Below(Front(x))
    BY <2>1, FrontsArePaths, BelowMeans
  <2>3. p \in Below(Front(x))
    BY <2>1, <2>2, BelowBelow
  <2> QED
    BY <1>1, <1>3, <2>2, <2>3
<1> QED
  BY <1>1, <1>2, <1>3

LEMMA FlatDirs ==
  ASSUME ~hns, hns' = hns, NEW S, \A x \in Paths \ S : file'[x] = file[x]
  PROVE  \A x \in Paths : Below(x) \cap S = {} => (x \in Dirs <=> x \in Dirs')
<1> SUFFICES ASSUME NEW x \in Paths, Below(x) \cap S = {} PROVE x \in Dirs <=> x \in Dirs'
  OBVIOUS
<1>1. \A y \in Below(x) : file'[y] = file[y]
  BY BelowInPaths
<1> QED
  BY <1>1, DirsMean, DirsMeanNext

\* Reads leave the server alone.
LEMMA SameWorld ==
  ASSUME World, UNCHANGED server
  PROVE  World' /\ Dirs' = Dirs /\ \A d : (Exists(d)' <=> Exists(d))
<1>1. Dirs' = Dirs /\ Objects' = Objects
  BY DEF Dirs, Objects, Below, server
<1> QED
  BY <1>1 DEF World, NoClash, Exists, server


LEMMA TouchedIs ==
  ASSUME NEW o
  PROVE  /\ o.kind \in {"write", "delete", "rmdir"} => Touched(o) = {o.path}
         /\ o.kind = "move" => Touched(o) = {o.path, o.entry.name}
         /\ o.kind = "mkdir" => Touched(o) = o.made
         /\ o.kind = "rename" => Touched(o) = {o.path, o.to} \cup Below(o.path) \cup Below(o.to)
         /\ o.kind \in {"list", "idle"} => Touched(o) = {}
<1>1. o.kind \in {"write", "delete", "rmdir"} => Touched(o) = {o.path}
  BY DEF Touched
<1>2. o.kind = "move" => Touched(o) = {o.path, o.entry.name}
  BY DEF Touched
<1>3. o.kind = "mkdir" => Touched(o) = o.made
  BY DEF Touched
<1>4. o.kind = "rename" => Touched(o) = {o.path, o.to} \cup Below(o.path) \cup Below(o.to)
  BY DEF Touched
<1>5. o.kind \in {"list", "idle"} => Touched(o) = {}
  BY DEF Touched
<1> QED
  BY <1>1, <1>2, <1>3, <1>4, <1>5

LEMMA DoubtsMean ==
  ASSUME NEW o, Touched(o) \subseteq Paths
  PROVE  /\ Doubts(o) = {x \in Paths \ {Bucket} : \E p \in Touched(o) : x = p \/ p \in Below(x)}
         /\ Doubts(o) \subseteq Paths /\ Upward(Doubts(o))
<1>1. \A p \in Touched(o) : Ancestors(p) = {q \in Paths : p \in Below(q)}
  BY AncestorsAbove
<1> DEFINE T == Touched(o)
<1> HIDE DEF T
<1>2. \A x : x \in Doubts(o) <=> x # Bucket /\ \E p \in T : x = p \/ x \in Ancestors(p)
  <2>1. Doubts(o) = (UNION {{p} \cup Ancestors(p) : p \in T}) \ {Bucket}
    BY DEF Doubts, T
  <2>2. \A x : x \in UNION {{p} \cup Ancestors(p) : p \in T} <=> \E p \in T : x \in {p} \cup Ancestors(p)
    OBVIOUS
  <2> QED
    BY <2>1, <2>2
<1>3. Doubts(o) = {x \in Paths \ {Bucket} : \E p \in Touched(o) : x = p \/ p \in Below(x)}
  BY <1>1, <1>2 DEF T
<1>4. Upward(Doubts(o))
  BY <1>3, BelowBelow DEF Upward
<1> QED
  BY <1>3, <1>4

LEMMA LastingUpward ==
  ASSUME NEW D \in SUBSET Paths, Upward(D), NEW K
  PROVE  Lasting(D, K) \subseteq Paths /\ Upward(Lasting(D, K))
<1> SUFFICES ASSUME NEW x \in Lasting(D, K), NEW a \in Paths \ {Bucket}, x \in Below(a)
             PROVE  a \in Lasting(D, K)
  BY DEF Lasting, Upward
<1>1. x \in D /\ ({x, Front(x)} \cup Below(x)) \cap K # {}
  BY DEF Lasting
<1>2. a \in D
  BY <1>1 DEF Upward
<1>3. {x, Front(x)} \cup Below(x) \subseteq {a} \cup Below(a)
  <2>1. x \in Paths /\ (Front(x) = a \/ Front(x) \in Below(a))
    BY <1>1, BelowMeans
  <2>2. Below(x) \subseteq Below(a)
    BY <2>1, BelowBelow
  <2> QED
    BY <2>1, <2>2
<1> QED
  BY <1>1, <1>2, <1>3 DEF Lasting

-----------------------------------------------------------------------------
(* Requests: what the server does is what the reply will do to the cache.   *)

LEMMA Sending ==
  ASSUME NEW t \in Tasks, NEW what, Kept(t), Sent(t, what)
  PROVE  /\ Right(cache, doubtful, file, Dirs) /\ doubtful \subseteq Paths /\ Upward(doubtful)
         /\ World /\ op' = [op EXCEPT ![t] = what] /\ op'[t] = what /\ hns' = hns /\ cache' = cache
         /\ DOMAIN op' = Tasks /\ doubtful' = doubtful /\ (~Clashes => NoClash')
<1>1. op[t] = Idle /\ Right(After(cache, op[t]), doubtful, file, Dirs) /\ DOMAIN op = Tasks /\ World
  BY DEF Kept, Sent
<1>2. After(cache, op[t]) = cache
  BY <1>1, AfterIs DEF Idle
<1>3. Right(cache, doubtful, file, Dirs)
  BY <1>1, <1>2
<1>4. /\ op' = [op EXCEPT ![t] = what] /\ hns' = hns /\ cache' = cache /\ doubtful' = doubtful
      /\ (~Clashes => NoClash')
  BY DEF Sent
<1>5. op'[t] = what /\ DOMAIN op' = Tasks
  BY <1>1, <1>4
<1> QED
  BY <1>1, <1>3, <1>4, <1>5 DEF Kept

\* What a request leaves alone is not in doubt if it fails.
LEMMA SentKept ==
  ASSUME NEW t \in Tasks, NEW what, Kept(t), Sent(t, what), World', Touched(what) \subseteq Paths,
         Right(After(cache, what), doubtful, file', Dirs'),
         \A x \in Paths \ Touched(what) : file'[x] = file[x],
         \A x \in Paths : ({x} \cup Below(x)) \cap Touched(what) = {} => (x \in Dirs <=> x \in Dirs'),
         what.kind = "list" => Right(what.reply, {}, file', Dirs')
  PROVE  Kept(t)'
<1>1. /\ op'[t] = what /\ hns' = hns /\ cache' = cache /\ DOMAIN op' = Tasks /\ doubtful' = doubtful
      /\ Right(cache, doubtful, file, Dirs) /\ doubtful \subseteq Paths /\ Upward(doubtful) /\ World
  BY Sending
<1> DEFINE D == doubtful \cup Doubts(what)
           E == Dirs
           G == Dirs'
           g == file'
<1>2. Doubts(what) = {x \in Paths \ {Bucket} : \E p \in Touched(what) : x = p \/ p \in Below(x)}
  BY DoubtsMean
<1>3. ASSUME NEW y \in Paths \ D, y # Bucket PROVE g[y] = file[y] /\ (y \in E <=> y \in G)
  <2>1. ({y} \cup Below(y)) \cap Touched(what) = {}
    BY <1>2, <1>3
  <2> QED
    BY <1>3, <2>1
<1>4. Right(cache, D, file, E)
  <2> HIDE DEF E
  <2>1. Right(cache, doubtful, file, E)
    BY <1>1 DEF E
  <2> QED
    BY <2>1, WiderRight
<1>5. \A d \in DOMAIN cache : d \in E => d \in {Bucket} \cup G \cup D
  <2>1. \A d \in DOMAIN cache : d \in Paths
    BY <1>4 DEF Right
  <2> QED
    BY <1>3, <2>1
<1>6. Right(cache, D, g, G)
  <2> HIDE DEF D, E, G, g
  <2> QED
    BY <1>3, <1>4, <1>5, SameRight
<1>7. /\ After(cache, op[t])' = After(cache, what) /\ Doubts(op[t])' = Doubts(what)
      /\ Touched(op[t])' = Touched(what)
  <2>1. Doubts(op[t])' = Doubts(op'[t]) /\ Touched(op[t])' = Touched(op'[t])
    BY DEF Doubts, Touched, Below, Ancestors
  <2>2. After(cache, op[t])' = After(cache, what)
    BY <1>1 DEF After, WriteUpdate, DeleteUpdate, MoveUpdate, MkdirUpdate, RmdirUpdate, RenameUpdate
  <2> QED
    BY <1>1, <2>1, <2>2
<1> QED
  <2>1. Right(After(cache, op[t]), doubtful, file, Dirs)'
    BY <1>1, <1>7 DEF Right, Said, Truth, Children, Below, Entries, Entry, DirEntry
  <2>2. Right(cache, doubtful \cup Doubts(op[t]), file, Dirs)'
    BY <1>1, <1>6, <1>7 DEF Right, Said, Truth, Children, Below, Entries, Entry, DirEntry
  <2>3. (op[t].kind = "list" => Right(op[t].reply, {}, file, Dirs))'
    BY <1>1 DEF Right, Said, Truth, Children, Below, Entries, Entry, DirEntry
  <2>4. (doubtful \subseteq Paths /\ Upward(doubtful) /\ Touched(op[t]) \subseteq Paths)'
    BY <1>1, <1>7 DEF Upward, Below
  <2> QED
    BY <1>1, <2>1, <2>2, <2>3, <2>4 DEF Kept

LEMMA ListingsTyped ==
  ASSUME World, NEW d \in Paths
  PROVE  \A e \in Listing(d) : e \in Entries
<1> SUFFICES ASSUME NEW e \in Listing(d) PROVE e \in Entries
  OBVIOUS
<1>1. \/ \E c \in Children(d) \cap Objects : e = Entry(c, "file", file[c])
      \/ \E c \in Children(d) \cap Dirs : e = DirEntry(c)
  BY DEF Listing, FileEntry
<1>2. \A c \in Children(d) : c \in Paths /\ file[c] \in Versions \cup {Absent}
  BY DEF Children, Below, World
<1> QED
  BY <1>1, <1>2 DEF Entry, DirEntry, Entries

\* The server's listing of a directory that exists.
LEMMA ListingRight ==
  ASSUME World, NEW d \in Paths, Exists(d)
  PROVE  Right([x \in {d} |-> Listing(d)], {}, file, Dirs)
BY ListingSays, ListingsTyped DEF Right, Exists

LEMMA ListKept ==
  ASSUME NEW t \in Tasks, Kept(t), NEW d \in Paths, List(t, d)
  PROVE  Kept(t)'
<1> DEFINE reply == [x \in {d} |-> Listing(d)]
           what  == [kind |-> "list", reply |-> reply]
<1>1. Sent(t, what) /\ Listing(d) # {} /\ UNCHANGED server
  BY DEF List
<1>2. what.kind = "list" /\ what.reply = reply
  OBVIOUS
<1> HIDE DEF what
<1>3. World /\ Right(cache, doubtful, file, Dirs)
  BY <1>1, Sending
<1>4. World' /\ Dirs' = Dirs /\ file' = file
  BY <1>1, <1>3, SameWorld DEF server
<1>5. Exists(d)
  <2>1. PICK e : e \in Listing(d)
    BY <1>1
  <2>2. e.name \in Children(d) /\ e.name \in Objects \cup Dirs
    <3>1. \/ \E x \in Children(d) \cap Objects : e = Entry(x, "file", file[x])
          \/ \E x \in Children(d) \cap Dirs : e = DirEntry(x)
      BY <2>1 DEF Listing, FileEntry
    <3> QED
      BY <3>1, EntriesDiffer
  <2> QED
    BY <1>3, <2>2, ListedExist
<1>6. Right(reply, {}, file, Dirs)
  BY <1>3, <1>5, ListingRight
<1>7. Right(After(cache, what), doubtful, file', Dirs')
  <2> HIDE DEF reply
  <2> QED
    BY <1>2, <1>3, <1>4, <1>6, AfterIs, StoreRight
<1>8. Touched(what) = {}
  BY <1>2, TouchedIs
<1> HIDE DEF reply
<1> QED
  BY <1>1, <1>2, <1>4, <1>6, <1>7, <1>8, SentKept

LEMMA FindKept ==
  ASSUME NEW t \in Tasks, Kept(t), NEW d \in Paths, Find(t, d)
  PROVE  Kept(t)'
<1> DEFINE found == {x \in {d} \cup Below(d) : x \in Dirs \/ (x = Bucket /\ Listing(x) # {})}
           reply == [x \in found |-> FoundListing(x)]
           what  == [kind |-> "list", reply |-> reply]
<1>1. Sent(t, what) /\ UNCHANGED server
  BY DEF Find
<1>2. what.kind = "list" /\ what.reply = reply
  OBVIOUS
<1> HIDE DEF what
<1>3. World /\ Right(cache, doubtful, file, Dirs)
  BY <1>1, Sending
<1>4. World' /\ Dirs' = Dirs /\ file' = file
  BY <1>1, <1>3, SameWorld DEF server
<1>5. \A x \in found : x \in Paths /\ Exists(x)
  BY BelowInPaths DEF Exists
<1>6. ASSUME NEW x \in Paths PROVE FoundListing(x) = Listing(x)
  <2>1. ASSUME NEW e \in Listing(x) PROVE e.type = "file" \/ file[e.name] = Absent
    <3>1. \/ \E y \in Children(x) \cap Objects : e = Entry(y, "file", file[y])
          \/ \E y \in Children(x) \cap Dirs : e = DirEntry(y)
      BY DEF Listing, FileEntry
    <3>2. \A y \in Children(x) \cap Dirs : y \in Paths /\ file[y] = Absent
      BY <1>3 DEF World, NoClash, Objects, Children, Below
    <3> QED
      BY <3>1, <3>2, EntriesDiffer
  <2> QED
    BY <2>1 DEF FoundListing
<1> HIDE DEF found
<1>7. Right(reply, {}, file, Dirs)
  <2> SUFFICES ASSUME NEW x \in found
               PROVE  /\ x \in Paths /\ Exists(x)
                      /\ \A e \in Listing(x) : e \in Entries /\ e.name \in Children(x)
                      /\ \A y \in Children(x) : Said(Listing(x), y) = Truth(file, Dirs, y)
    BY <1>5, <1>6 DEF Right, Exists
  <2> QED
    BY <1>3, <1>5, ListingSays, ListingsTyped
<1> HIDE DEF reply
<1>8. Right(After(cache, what), doubtful, file', Dirs')
  BY <1>2, <1>3, <1>4, <1>7, AfterIs, StoreRight
<1>9. Touched(what) = {}
  BY <1>2, TouchedIs
<1> QED
  BY <1>1, <1>2, <1>4, <1>7, <1>8, <1>9, SentKept

LEMMA DeleteKept ==
  ASSUME ~Clashes, NEW t \in Tasks, Kept(t), NEW p \in Paths, Delete(t, p)
  PROVE  Kept(t)'
<1> DEFINE what == [kind |-> "delete", path |-> p]
<1>1. Sent(t, what) /\ file' = [file EXCEPT ![p] = Absent] /\ folders' = folders /\ p # Bucket
  BY DEF Delete
<1>2. what.kind = "delete" /\ what.path = p
  OBVIOUS
<1> HIDE DEF what
<1>3. /\ World /\ hns' = hns /\ NoClash' /\ Right(cache, doubtful, file, Dirs)
      /\ After(cache, what) = DeleteUpdate(cache, p) /\ Touched(what) = {p}
  BY <1>1, <1>2, Sending, AfterIs, TouchedIs
<1>4. /\ file \in [Paths -> Versions \cup {Absent}] /\ file'[p] = Absent
      /\ \A x \in Paths : x # p => file'[x] = file[x]
  BY <1>1, <1>3 DEF World
<1>5. World'
  <2>1. Objects' \subseteq Objects
    BY <1>4 DEF Objects
  <2>2. file' \in [Paths -> Versions \cup {Absent}] /\ file'[Bucket] = Absent
    BY <1>1, <1>3, <1>4, PathsClosed DEF World
  <2>3. hns' => \A x \in Objects' \cup folders' : Front(x) \in folders' \cup {Bucket}
    BY <1>1, <1>3, <2>1 DEF World
  <2> QED
    BY <1>1, <1>3, <2>2, <2>3 DEF World
<1>6. \A x \in Paths : Below(x) \cap {p} = {} => (x \in Dirs <=> x \in Dirs')
  <2>1. CASE hns
    BY <1>1, <1>3, <2>1, DirsMean, DirsMeanNext
  <2>2. CASE ~hns
    BY <1>3, <1>4, <2>2, FlatDirs
  <2> QED
    BY <2>1, <2>2
<1> DEFINE D == Dirs
           E == Dirs'
           g == file'
<1>7. ASSUME hns PROVE Right(DeleteUpdate(cache, p), doubtful, g, E)
  <2>1. D = E
    BY <1>1, <1>3, <1>7, DirsMean, DirsMeanNext
  <2>2. g[p] = Absent /\ (\A y \in Paths : y # p => g[y] = file[y]) /\ Right(cache, doubtful, file, D)
    BY <1>3, <1>4
  <2> HIDE DEF D, E, g
  <2>3. Right(DropEntry(cache, p, "file"), doubtful, g, E)
    BY <2>1, <2>2, DropFileRight
  <2> QED
    BY <1>7, <2>3 DEF DeleteUpdate
<1>8. ASSUME ~hns PROVE Right(DeleteUpdate(cache, p), doubtful, g, E)
  <2> DEFINE S == {p, Front(p)} \cup UNION {Ancestors(x) : x \in {p, Front(p)}}
             c == Without(cache, S)
  <2>1. DeleteUpdate(cache, p) = c /\ Ancestors(p) \subseteq S
    BY <1>8 DEF DeleteUpdate, InvalidateAll
  <2>2. DOMAIN c = DOMAIN cache \ S /\ Restricts(c, cache)
    BY WithoutRestricts
  <2> HIDE DEF S, c
  <2>3. Right(c, doubtful, file, D)
    BY <1>3, <2>2, RestrictRight
  <2>4. ASSUME NEW d \in DOMAIN c PROVE d \in Paths /\ Below(d) \cap {p} = {}
    <3>1. d \in Paths /\ d \notin Ancestors(p)
      BY <2>1, <2>2, <2>3 DEF Right
    <3> QED
      BY <3>1, AncestorsAbove
  <2>5. ASSUME NEW y \in Paths, y # Bucket, Front(y) \in DOMAIN c
        PROVE  g[y] = file[y] /\ (y \in D <=> y \in E)
    <3>1. y \in Below(Front(y)) /\ Front(y) \in Paths
      BY <2>5, FrontsArePaths, BelowMeans
    <3>2. y # p /\ Below(y) \cap {p} = {}
      BY <2>4, <2>5, <3>1, BelowBelow
    <3> QED
      BY <1>4, <1>6, <3>2
  <2>6. \A d \in DOMAIN c : d \in D => d \in E
    BY <1>6, <2>4
  <2> HIDE DEF D, E, g
  <2> QED
    BY <2>1, <2>3, <2>5, <2>6, SameRight
<1>9. Right(After(cache, what), doubtful, file', Dirs')
  BY <1>3, <1>7, <1>8
<1>10. Touched(what) \subseteq Paths /\ what.kind # "list"
  BY <1>2, <1>3
<1> HIDE DEF D, E, g
<1>11. /\ \A x \in Paths \ Touched(what) : file'[x] = file[x]
       /\ \A x \in Paths : ({x} \cup Below(x)) \cap Touched(what) = {} => (x \in Dirs <=> x \in Dirs')
  BY <1>3, <1>4, <1>6
<1> QED
  BY <1>1, <1>5, <1>9, <1>10, <1>11, SentKept

\* An object at p, and the folders this makes.
LEMMA MakesWorld ==
  ASSUME World, NEW p \in Paths, p # Bucket, hns' = hns, folders' = folders \cup Makes(p), NoClash',
         file' \in [Paths -> Versions \cup {Absent}], file'[Bucket] = Absent,
         \A x \in Paths : x # p /\ file'[x] # Absent => file[x] # Absent
  PROVE  World'
<1>1. Objects' \subseteq Objects \cup {p}
  BY DEF Objects
<1>2. folders' \subseteq Paths \ {Bucket} /\ (~hns' => folders' = {})
  BY MakesMean DEF World
<1>3. ASSUME hns', NEW x \in Objects' \cup folders' PROVE Front(x) \in folders' \cup {Bucket}
  <2>1. CASE x \in Objects \cup folders
    BY <1>3, <2>1 DEF World
  <2>2. CASE x \in {p} \cup Makes(p)
    BY <1>3, <2>2, MakesMean
  <2> QED
    BY <1>1, <1>3, <2>1, <2>2
<1> QED
  BY <1>2, <1>3 DEF World

LEMMA MakesAbove ==
  ASSUME World, NEW p \in Paths, p # Bucket, hns' = hns, folders' = folders \cup Makes(p),
         NEW S, p \in S, \A x \in Paths \ S : file'[x] = file[x]
  PROVE  \A x \in Paths : Below(x) \cap S = {} => (x \in Dirs <=> x \in Dirs')
<1>1. CASE ~hns
  BY <1>1, FlatDirs
<1>2. CASE hns
  <2>1. Dirs = folders /\ Dirs' = folders \cup Makes(p) /\ Makes(p) = {x \in Paths \ {Bucket} : p \in Below(x)}
    BY <1>2, DirsMean, DirsMeanNext, MakesMean
  <2> QED
    BY <2>1
<1> QED
  BY <1>1, <1>2 DEF World

\* In a directory that exists an object makes no other.
LEMMA NoNewDirs ==
  ASSUME World, NEW p \in Paths, p # Bucket, hns' = hns, folders' = folders \cup Makes(p),
         file'[p] # Absent, \A x \in Paths \ {p} : file'[x] = file[x], Exists(Front(p)), NEW x \in Paths
  PROVE  x \in Dirs <=> x \in Dirs'
<1>1. \A y \in Paths : Below(y) \cap {p} = {} => (y \in Dirs <=> y \in Dirs')
  BY MakesAbove
<1>2. CASE p \in Below(x)
  <2>1. Front(p) \in Paths /\ (Front(p) = x \/ Front(p) \in Below(x))
    BY <1>2, FrontsArePaths, BelowMeans
  <2>2. Exists(x)
    BY <2>1, ExistsUp
  <2>3. Bucket \notin Dirs /\ Bucket \notin Dirs'
    <3>1. Bucket \notin folders'
      BY MakesMean DEF World
    <3> QED
      BY <3>1, DirsArePaths, DirsMeanNext
  <2>4. x \in Dirs => x \in Dirs'
    <3>1. CASE hns
      BY <3>1, DirsMean, DirsMeanNext
    <3>2. CASE ~hns
      BY <1>2, <3>2, DirsMean, DirsMeanNext
    <3> QED
      BY <3>1, <3>2
  <2> QED
    BY <2>2, <2>3, <2>4 DEF Exists
<1>3. CASE p \notin Below(x)
  BY <1>1, <1>3
<1> QED
  BY <1>2, <1>3

\* Where the listing of the parent of p is kept, outside the doubts an object at p makes no directory.
LEMMA NoDoubtedDirs ==
  ASSUME World, NEW p \in Paths, p # Bucket, hns' = hns, folders' = folders \cup Makes(p),
         NEW D, Upward(D), Exists(Front(p)) \/ Front(p) \in D, NEW S, p \in S,
         \A x \in Paths \ S : file'[x] = file[x], NEW y \in Paths \ D, y # Bucket, p \in Below(y),
         file'[p] # Absent
  PROVE  y \in Dirs /\ y \in Dirs'
<1>1. Front(p) \in Paths /\ (Front(p) = y \/ Front(p) \in Below(y))
  BY FrontsArePaths, BelowMeans
<1>2. Front(p) \notin D
  BY <1>1 DEF Upward
<1>3. Exists(y)
  BY <1>1, <1>2, ExistsUp
<1>4. y \in Dirs
  BY <1>3 DEF Exists
<1>5. CASE hns
  BY <1>4, <1>5, DirsMean, DirsMeanNext
<1>6. CASE ~hns
  <2>1. ~hns' /\ y \in Paths \ {Bucket} /\ \E x \in Below(y) : file'[x] # Absent
    BY <1>6
  <2> QED
    BY <1>4, <2>1, DirsMeanNext
<1> QED
  BY <1>4, <1>5, <1>6 DEF World

LEMMA WriteKept ==
  ASSUME ~Clashes, NEW t \in Tasks, Kept(t), NEW p \in Paths, Write(t, p)
  PROVE  Kept(t)'
<1> DEFINE what == [kind |-> "write", path |-> p]
           c == WriteUpdate(cache, p)
<1>1. Sent(t, what) /\ folders' = folders \cup Makes(p) /\ p # Bucket
  BY DEF Write
<1>2. PICK v \in Versions : file' = [file EXCEPT ![p] = v]
  BY DEF Write
<1>3. what.kind = "write" /\ what.path = p
  OBVIOUS
<1> HIDE DEF what
<1>4. /\ World /\ hns' = hns /\ NoClash' /\ Right(cache, doubtful, file, Dirs) /\ Upward(doubtful)
      /\ After(cache, what) = c /\ Touched(what) = {p}
  BY <1>1, <1>3, Sending, AfterIs, TouchedIs
<1>5. /\ file' \in [Paths -> Versions \cup {Absent}] /\ file'[p] # Absent /\ file'[Bucket] = Absent
      /\ \A x \in Paths \ {p} : file'[x] = file[x]
  BY <1>1, <1>2, <1>4, PathsClosed, AbsentIsNoVersion DEF World
<1>6. World'
  BY <1>1, <1>4, <1>5, MakesWorld
<1>7. \A x \in Paths : Below(x) \cap {p} = {} => (x \in Dirs <=> x \in Dirs')
  BY <1>1, <1>4, <1>5, MakesAbove
<1>8. Front(p) \in Paths
  BY <1>1, FrontsArePaths
<1>9. /\ Restricts(c, cache) /\ Front(p) \notin DOMAIN c
      /\ Front(p) \notin DOMAIN cache => DOMAIN c \cap Ancestors(Front(p)) = {}
  <2> DEFINE f == Front(p)
  <2>1. CASE f \in DOMAIN cache
    <3>1. c = Without(cache, {f})
      BY <2>1 DEF WriteUpdate
    <3>2. DOMAIN Without(cache, {f}) = DOMAIN cache \ {f} /\ Restricts(Without(cache, {f}), cache)
      BY WithoutRestricts
    <3> HIDE DEF c, f
    <3>3. DOMAIN c = DOMAIN cache \ {f} /\ Restricts(c, cache)
      BY <3>1, <3>2
    <3> QED
      BY <2>1, <3>3 DEF f
  <2>2. CASE f \notin DOMAIN cache
    <3>1. c = Without(cache, {f} \cup Ancestors(f))
      BY <2>2 DEF WriteUpdate, Invalidate
    <3> DEFINE S == {f} \cup Ancestors(f)
    <3>2. DOMAIN Without(cache, S) = DOMAIN cache \ S /\ Restricts(Without(cache, S), cache)
      BY WithoutRestricts
    <3> HIDE DEF c
    <3>3. DOMAIN c = DOMAIN cache \ S /\ Restricts(c, cache)
      BY <3>1, <3>2
    <3> QED
      BY <3>3
  <2> QED
    BY <2>1, <2>2
<1> HIDE DEF c
<1> DEFINE D == Dirs
           E == Dirs'
           g == file'
<1>10. Right(c, doubtful, file, D)
  BY <1>4, <1>9, RestrictRight
<1>11. ASSUME NEW y \in Paths \ doubtful, y # Bucket, Front(y) \in DOMAIN c
       PROVE  g[y] = file[y] /\ (y \in D <=> y \in E)
  <2>1. y # p
    BY <1>9, <1>11
  <2>2. CASE p \notin Below(y)
    BY <1>5, <1>7, <2>1, <2>2
  <2>3. CASE p \in Below(y)
    <3>1. y \in Below(Front(y)) /\ Front(y) \in Paths
      BY <1>11, FrontsArePaths, BelowMeans
    <3>2. Front(p) = y \/ Front(p) \in Below(y)
      BY <2>3, BelowMeans
    <3>3. Front(p) \in Below(Front(y))
      BY <3>1, <3>2, BelowBelow
    <3>4. Front(y) \in Ancestors(Front(p))
      BY <1>8, <3>1, <3>3, AncestorsAbove
    <3>5. Front(p) \in DOMAIN cache
      BY <1>9, <1>11, <3>4
    <3>6. Exists(Front(p)) \/ Front(p) \in doubtful
      BY <1>4, <3>5 DEF Right, Exists
    <3>7. y \in Dirs /\ y \in Dirs'
      <4>1. p \in {p}
        OBVIOUS
      <4> QED
        BY <1>1, <1>4, <1>5, <1>11, <2>3, <3>6, <4>1, NoDoubtedDirs
    <3> QED
      BY <1>5, <2>1, <3>7
  <2> QED
    BY <2>2, <2>3
<1>12. ASSUME NEW d \in DOMAIN c, d \in D PROVE d \in E
  <2>1. d \in Paths /\ d \in Dirs
    BY <1>10, <1>12 DEF Right
  <2>2. CASE hns
    BY <1>1, <1>4, <2>1, <2>2, DirsMean, DirsMeanNext
  <2>3. CASE ~hns
    <3>1. d # Bucket /\ \E x \in Below(d) : file[x] # Absent
      BY <2>1, <2>3, DirsMean
    <3>2. \E x \in Below(d) : file'[x] # Absent
      BY <1>5, <3>1, BelowInPaths
    <3> QED
      BY <1>4, <2>1, <2>3, <3>1, <3>2, DirsMeanNext
  <2> QED
    BY <2>2, <2>3
<1>13. Right(c, doubtful, g, E)
  <2> HIDE DEF D, E, g
  <2> QED
    BY <1>10, <1>11, <1>12, SameRight
<1>14. Touched(what) \subseteq Paths /\ what.kind # "list" /\ Right(After(cache, what), doubtful, file', Dirs')
  BY <1>3, <1>4, <1>13
<1> HIDE DEF D, E, g
<1>15. /\ \A x \in Paths \ Touched(what) : file'[x] = file[x]
       /\ \A x \in Paths : ({x} \cup Below(x)) \cap Touched(what) = {} => (x \in Dirs <=> x \in Dirs')
  BY <1>4, <1>5, <1>7
<1> QED
  BY <1>1, <1>6, <1>14, <1>15, SentKept

LEMMA MkdirKept ==
  ASSUME ~Clashes, NEW t \in Tasks, Kept(t), NEW p \in Paths, NEW parents \in BOOLEAN, Mkdir(t, p, parents)
  PROVE  Kept(t)'
<1> DEFINE made == {p} \cup IF parents THEN Makes(p) ELSE {}
           what == [kind |-> "mkdir", made |-> made]
           c == MkdirUpdate(cache, made)
<1>1. /\ Sent(t, what) /\ folders' = folders \cup made /\ file' = file /\ hns /\ p # Bucket
      /\ Front(p) \in folders \cup made \cup {Bucket}
  BY DEF Mkdir
<1>2. made \subseteq Paths \ {Bucket} /\ \A x \in made : x # p => Front(x) \in made \cup {Bucket}
  <2>1. CASE parents
    BY <1>1, <2>1, MakesMean
  <2>2. CASE ~parents
    BY <1>1, <2>2
  <2> QED
    BY <2>1, <2>2
<1>3. what.kind = "mkdir" /\ what.made = made
  OBVIOUS
<1> HIDE DEF what, made
<1>4. /\ World /\ hns' = hns /\ NoClash' /\ Right(cache, doubtful, file, Dirs)
      /\ After(cache, what) = c /\ Touched(what) = made
  BY <1>1, <1>3, Sending, AfterIs, TouchedIs
<1>5. Objects' = Objects
  BY <1>1 DEF Objects
<1>6. World'
  <2>1. \A x \in Objects' \cup folders' : Front(x) \in folders' \cup {Bucket}
    BY <1>1, <1>2, <1>4, <1>5 DEF World
  <2>2. folders' \subseteq Paths \ {Bucket}
    BY <1>1, <1>2, <1>4 DEF World
  <2> QED
    BY <1>1, <1>4, <2>1, <2>2 DEF World
<1>7. Dirs = folders /\ Dirs' = Dirs \cup made
  BY <1>1, <1>4, DirsMean, DirsMeanNext
<1> DEFINE D == Dirs
           E == Dirs'
<1>8. ASSUME NEW d \in DOMAIN c
      PROVE  /\ d \in Paths /\ d \in {Bucket} \cup E \cup doubtful
             /\ \A e \in c[d] : e \in Entries /\ e.name \in Children(d)
             /\ \A y \in Children(d) \ doubtful : Said(c[d], y) = Truth(file, E, y)
  <2> DEFINE M == {m \in made : Front(m) = d}
             L == cache[d]
  <2>1. d \in DOMAIN cache /\ c[d] = L \cup {DirEntry(m) : m \in M}
    BY <1>8 DEF MkdirUpdate
  <2>2. /\ d \in Paths /\ d \in {Bucket} \cup D \cup doubtful
        /\ \A e \in L : e \in Entries /\ e.name \in Children(d)
        /\ \A y \in Children(d) \ doubtful : Said(L, y) = Truth(file, D, y)
    BY <1>4, <2>1 DEF Right
  <2>3. \A m \in M : m \in Children(d) /\ DirEntry(m) \in Entries /\ DirEntry(m).name = m
    <3>1. \A m \in M : m \in Paths /\ DirEntry(m) \in Entries
      BY <1>2 DEF DirEntry, Entry, Entries
    <3> QED
      BY <1>2, <2>2, <3>1, ChildMeans, EntriesDiffer
  <2>4. ASSUME NEW y \in Children(d) PROVE y \in E <=> y \in D \/ y \in M
    BY <1>7, <2>2, <2>4, ParentOf
  <2> HIDE DEF D, E, M, L
  <2>5. ASSUME NEW y \in Children(d) \ doubtful
        PROVE  Said(L \cup {DirEntry(m) : m \in M}, y) = Truth(file, E, y)
    BY <2>2, <2>4, AddDirs
  <2>6. d \in {Bucket} \cup E \cup doubtful
    BY <1>7, <2>2 DEF D, E
  <2> QED
    BY <2>1, <2>2, <2>3, <2>5, <2>6
<1>9. Right(After(cache, what), doubtful, file', Dirs')
  BY <1>1, <1>4, <1>8 DEF Right
<1>10. Touched(what) \subseteq Paths /\ what.kind # "list"
  BY <1>2, <1>3, <1>4
<1> HIDE DEF c
<1>11. /\ \A x \in Paths \ Touched(what) : file'[x] = file[x]
       /\ \A x \in Paths : ({x} \cup Below(x)) \cap Touched(what) = {} => (x \in Dirs <=> x \in Dirs')
  BY <1>1, <1>4, <1>7
<1> QED
  BY <1>1, <1>6, <1>9, <1>10, <1>11, SentKept

LEMMA RmdirKept ==
  ASSUME ~Clashes, NEW t \in Tasks, Kept(t), NEW p \in Paths, Rmdir(t, p)
  PROVE  Kept(t)'
<1> DEFINE what == [kind |-> "rmdir", path |-> p]
           left == Without(cache, {p})
           c == DropEntry(left, p, "directory")
<1>1. /\ Sent(t, what) /\ folders' = folders \ {p} /\ file' = file
      /\ p \in folders /\ Below(p) \cap (Objects \cup folders) = {}
  BY DEF Rmdir
<1>2. what.kind = "rmdir" /\ what.path = p
  OBVIOUS
<1> HIDE DEF what
<1>3. /\ World /\ hns' = hns /\ NoClash' /\ Right(cache, doubtful, file, Dirs)
      /\ After(cache, what) = c /\ Touched(what) = {p}
  BY <1>1, <1>2, Sending, AfterIs, TouchedIs DEF RmdirUpdate
<1>4. hns /\ p # Bucket /\ Objects' = Objects
  BY <1>1, <1>3 DEF World, Objects
<1>5. World'
  <2>1. ASSUME NEW x \in Objects \cup folders PROVE Front(x) # p
    <3>1. x \in Paths /\ x # Bucket
      BY <1>3 DEF World, Objects
    <3> QED
      BY <1>1, <3>1, <2>1, BelowMeans
  <2>2. \A x \in Objects' \cup folders' : Front(x) \in folders' \cup {Bucket}
    BY <1>1, <1>3, <1>4, <2>1 DEF World
  <2> QED
    BY <1>1, <1>3, <1>4, <2>2 DEF World
<1>6. Dirs = folders /\ Dirs' = Dirs \ {p}
  BY <1>1, <1>3, <1>4, DirsMean, DirsMeanNext
<1>7. DOMAIN left = DOMAIN cache \ {p} /\ Restricts(left, cache)
  BY WithoutRestricts
<1> HIDE DEF left
<1> DEFINE D == Dirs
           E == Dirs'
<1>8. E = D \ {p} /\ Right(left, doubtful, file, D) /\ p \notin DOMAIN left
  BY <1>3, <1>6, <1>7, RestrictRight
<1>9. Right(c, doubtful, file, E)
  <2> HIDE DEF D, E
  <2>1. \A d \in DOMAIN left : d \in D => d \in E
    BY <1>8
  <2> QED
    BY <1>8, <2>1, DropDirRight
<1>10. Touched(what) \subseteq Paths /\ what.kind # "list" /\ Right(After(cache, what), doubtful, file', Dirs')
  BY <1>1, <1>2, <1>3, <1>9
<1> HIDE DEF c
<1>11. /\ \A x \in Paths \ Touched(what) : file'[x] = file[x]
       /\ \A x \in Paths : ({x} \cup Below(x)) \cap Touched(what) = {} => (x \in Dirs <=> x \in Dirs')
  BY <1>1, <1>3, <1>6
<1> QED
  BY <1>1, <1>5, <1>10, <1>11, SentKept

LEMMA MoveKept ==
  ASSUME ~Clashes, NEW t \in Tasks, Kept(t), NEW p \in Paths, NEW q \in Paths, Move(t, p, q)
  PROVE  Kept(t)'
<1> DEFINE new  == Entry(q, "file", file[p])
           what == [kind |-> "move", path |-> p, entry |-> new]
           c    == MoveUpdate(cache, p, new)
           gone == [file EXCEPT ![p] = Absent]
           left == DropEntry(cache, p, "file")
<1>1. /\ Sent(t, what) /\ folders' = folders \cup Makes(q) /\ file[p] # Absent /\ q # p /\ q # Bucket
      /\ file' = [file EXCEPT ![p] = Absent, ![q] = file[p]]
  BY DEF Move, Objects
<1>2. new.name = q /\ new.type = "file" /\ what.kind = "move" /\ what.path = p /\ what.entry = new
  BY EntriesDiffer
<1> HIDE DEF what, new
<1>3. /\ World /\ hns' = hns /\ NoClash' /\ Right(cache, doubtful, file, Dirs) /\ Upward(doubtful)
      /\ After(cache, what) = c /\ Touched(what) = {p, q}
  BY <1>1, <1>2, Sending, AfterIs, TouchedIs
<1>4. /\ file' \in [Paths -> Versions \cup {Absent}] /\ file'[q] = file[p] /\ file'[p] = Absent
      /\ p # Bucket /\ file'[Bucket] = Absent /\ file[p] \in Versions
      /\ \A x \in Paths \ {p, q} : file'[x] = file[x]
      /\ gone[p] = Absent /\ \A x \in Paths : x # p => gone[x] = file[x]
  BY <1>1, <1>3, PathsClosed, AbsentIsNoVersion DEF World
<1>5. World'
  <2>1. \A x \in Paths : x # q /\ file'[x] # Absent => file[x] # Absent
    BY <1>4
  <2> QED
    BY <1>1, <1>3, <1>4, <2>1, MakesWorld
<1>6. \A x \in Paths : Below(x) \cap {p, q} = {} => (x \in Dirs <=> x \in Dirs')
  <2>1. q \in {p, q} /\ \A x \in Paths \ {p, q} : file'[x] = file[x]
    BY <1>4
  <2> QED
    BY <1>1, <1>3, <2>1, MakesAbove
<1>7. /\ Front(p) \in Paths /\ p \in Below(Front(p))
      /\ Front(q) \in Paths /\ q \in Below(Front(q)) /\ q \in Children(Front(q))
  BY <1>1, <1>4, FrontsArePaths, BelowMeans, ChildMeans
<1> HIDE DEF gone
<1> DEFINE D == Dirs
           E == Dirs'
           g == file'
<1>8. ASSUME ~hns PROVE Right(c, doubtful, g, E)
  <2> DEFINE T == {Front(p), Front(q)}
             S == T \cup UNION {Ancestors(x) : x \in T}
             b == Without(cache, S)
  <2>1. c = b /\ T \cup Ancestors(Front(p)) \cup Ancestors(Front(q)) \subseteq S
    BY <1>2, <1>8 DEF MoveUpdate, InvalidateAll
  <2>2. DOMAIN b = DOMAIN cache \ S /\ Restricts(b, cache)
    BY WithoutRestricts
  <2> HIDE DEF S, b
  <2>3. Right(b, doubtful, file, D)
    BY <1>3, <2>2, RestrictRight
  <2>4. ASSUME NEW d \in DOMAIN b PROVE d \in Paths /\ Below(d) \cap {p, q} = {}
    <3>1. d \in Paths /\ d \notin {Front(p), Front(q)} \cup Ancestors(Front(p)) \cup Ancestors(Front(q))
      BY <2>1, <2>2, <2>3 DEF Right
    <3> QED
      BY <1>7, <3>1, AncestorsAbove, BelowMeans
  <2>5. ASSUME NEW y \in Paths, y # Bucket, Front(y) \in DOMAIN b
        PROVE  g[y] = file[y] /\ (y \in D <=> y \in E)
    <3>1. y \in Below(Front(y)) /\ Front(y) \in Paths
      BY <2>5, FrontsArePaths, BelowMeans
    <3>2. y \notin {p, q} /\ Below(y) \cap {p, q} = {}
      BY <2>4, <2>5, <3>1, BelowBelow
    <3> QED
      BY <1>4, <1>6, <3>2
  <2>6. \A d \in DOMAIN b : d \in D => d \in E
    BY <1>6, <2>4
  <2> HIDE DEF D, E, g, c
  <2> QED
    BY <2>1, <2>3, <2>5, <2>6, SameRight
<1>9. ASSUME hns PROVE D \subseteq E /\ E \ D \subseteq {x \in Paths \ {Bucket} : q \in Below(x)}
  BY <1>1, <1>3, <1>9, DirsMean, DirsMeanNext, MakesMean
<1>10. Right(left, doubtful, gone, D) /\ DOMAIN left = DOMAIN cache
  <2>1. \A y \in Paths \ doubtful : y # Bucket /\ Front(y) \in DOMAIN cache =>
          (y = p => gone[y] = Absent) /\ (y # p => gone[y] = file[y]) /\ (y \in D <=> y \in D)
    BY <1>4
  <2>2. Right(cache, doubtful, file, D)
    BY <1>3
  <2>3. DOMAIN left = DOMAIN cache
    BY DropMeans
  <2> HIDE DEF D, left
  <2>4. \A d \in DOMAIN cache : d \in D => d \in {Bucket} \cup D \cup doubtful
    OBVIOUS
  <2>5. Right(DropEntry(cache, p, "file"), doubtful, gone, D)
    BY <2>1, <2>2, <2>4, DropFileRight
  <2> QED
    BY <2>3, <2>5 DEF left
<1>11. c = IF ~hns THEN InvalidateAll(cache, {Front(p), Front(q)})
           ELSE IF Front(q) \in DOMAIN left THEN UpsertEntry(left, new) ELSE Invalidate(left, Front(q))
  BY <1>2 DEF MoveUpdate
<1> HIDE DEF left, c
<1>12. ASSUME hns, Front(q) \in DOMAIN left PROVE Right(c, doubtful, g, E)
  <2>1. Exists(Front(q)) \/ Front(q) \in doubtful
    BY <1>3, <1>10, <1>12 DEF Right, Exists
  <2>2. ASSUME NEW y \in Paths \ doubtful, y # Bucket
        PROVE  (y # q => g[y] = gone[y]) /\ (y \in D <=> y \in E)
    <3>1. y # q => g[y] = gone[y]
      BY <1>4
    <3>2. CASE q \notin Below(y)
      BY <1>9, <1>12, <3>1, <3>2
    <3>3. CASE q \in Below(y)
      <4>1. q \in {p, q} /\ (\A x \in Paths \ {p, q} : file'[x] = file[x]) /\ file'[q] # Absent
        BY <1>1, <1>4
      <4>2. y \in Dirs /\ y \in Dirs'
        BY <1>1, <1>3, <2>1, <2>2, <3>3, <4>1, NoDoubtedDirs
      <4> QED
        BY <3>1, <4>2
    <3> QED
      BY <3>2, <3>3
  <2>3. \A d \in DOMAIN left : d \in D => d \in {Bucket} \cup E \cup doubtful
    BY <1>9, <1>12
  <2>4. g[q] \in Versions /\ new = Entry(q, "file", g[q])
    BY <1>4 DEF new
  <2> HIDE DEF D, E, g
  <2>5. Right(UpsertEntry(left, Entry(q, "file", g[q])), doubtful, g, E)
    BY <1>1, <1>10, <2>2, <2>3, <2>4, UpsertFileRight
  <2> QED
    BY <1>11, <1>12, <2>4, <2>5
<1>13. ASSUME hns, Front(q) \notin DOMAIN left PROVE Right(c, doubtful, g, E)
  <2>1. c = Without(left, {Front(q)} \cup Ancestors(Front(q)))
    BY <1>11, <1>13 DEF Invalidate
  <2>2. DOMAIN c = DOMAIN left \ ({Front(q)} \cup Ancestors(Front(q))) /\ Restricts(c, left)
    BY <2>1, WithoutRestricts
  <2>3. Right(c, doubtful, gone, D)
    BY <1>10, <2>2, RestrictRight
  <2>4. ASSUME NEW d \in DOMAIN c PROVE d \in Paths /\ q \notin Below(d)
    <3>1. d \in Paths /\ d \notin {Front(q)} \cup Ancestors(Front(q))
      BY <2>2, <2>3 DEF Right
    <3> QED
      BY <1>7, <3>1, AncestorsAbove, BelowMeans
  <2>5. ASSUME NEW y \in Paths, y # Bucket, Front(y) \in DOMAIN c
        PROVE  g[y] = gone[y] /\ (y \in D <=> y \in E)
    <3>1. y \in Below(Front(y)) /\ Front(y) \in Paths
      BY <2>5, FrontsArePaths, BelowMeans
    <3>2. y # q /\ q \notin Below(y)
      BY <2>4, <2>5, <3>1, BelowBelow
    <3> QED
      BY <1>4, <1>9, <1>13, <3>2
  <2>6. \A d \in DOMAIN c : d \in D => d \in E
    BY <1>9, <1>13
  <2> HIDE DEF D, E, g
  <2> QED
    BY <2>3, <2>5, <2>6, SameRight
<1>14. Right(After(cache, what), doubtful, file', Dirs')
  BY <1>3, <1>8, <1>12, <1>13
<1>15. Touched(what) \subseteq Paths /\ what.kind # "list"
  BY <1>2, <1>3
<1> HIDE DEF D, E, g
<1>16. /\ \A x \in Paths \ Touched(what) : file'[x] = file[x]
       /\ \A x \in Paths : ({x} \cup Below(x)) \cap Touched(what) = {} => (x \in Dirs <=> x \in Dirs')
  BY <1>3, <1>4, <1>6
<1> QED
  BY <1>1, <1>5, <1>14, <1>15, <1>16, SentKept

\* What a rename of p to q does to the objects and the folders.
LEMMA RenamedWorld ==
  ASSUME ~Clashes, NEW t \in Tasks, World, NEW p \in Paths, NEW q \in Paths, Rename(t, p, q)
  PROVE  /\ hns /\ hns' = hns /\ p \in folders /\ q # Bucket /\ q \notin folders /\ q \notin Below(p)
         /\ p \notin Below(q)
         /\ \A x \in Paths : x \notin Below(p) \cup Below(q) => file'[x] = file[x]
         /\ \A x \in Paths : x \notin {p, q} \cup Below(p) \cup Below(q) => (x \in folders' <=> x \in folders)
         /\ p \notin folders' /\ q \in folders' /\ World'
<1> DEFINE moving == {r \in Below(p) : r \in Objects \cup folders}
           came   == {Renamed(r, p, q) : r \in moving}
<1>1. /\ p \in folders /\ q \notin folders \cup {Bucket} /\ ~IsPrefix(p, q)
      /\ Front(q) \in folders \cup {Bucket} /\ came \subseteq Paths
  BY DEF Rename
<1>2. /\ file' = [r \in Paths |-> IF r \in Below(p) THEN Absent
                                  ELSE IF r \in came THEN file[Renamed(r, q, p)] ELSE file[r]]
      /\ folders' = (folders \ ({p} \cup Below(p)))
                      \cup {q} \cup {Renamed(r, p, q) : r \in folders \cap Below(p)}
  BY DEF Rename
<1>3. hns' = hns /\ NoClash'
  BY DEF Rename, Sent
<1>4. hns /\ p # Bucket
  BY <1>1 DEF World
<1>5. q \notin Below(p) /\ q # p
  BY <1>1 DEF Below, IsStrictPrefix
<1>6. p \notin Below(q)
  <2>1. Dirs = folders
    BY <1>4, DirsMean
  <2> QED
    BY <1>1, <2>1, ExistsUp DEF Exists
<1>7. came \subseteq Below(q)
  <2> SUFFICES ASSUME NEW r \in moving PROVE Renamed(r, p, q) \in Below(q)
    OBVIOUS
  <2>1. r \in Below(p) /\ Renamed(r, p, q) \in Paths
    BY <1>1
  <2> QED
    BY <2>1, RenamedBelow DEF Below
<1>8. {Renamed(r, p, q) : r \in folders \cap Below(p)} \subseteq came
  OBVIOUS
<1>9. \A x \in Below(p) : x \notin Below(q)
  BY <1>5, <1>6, AboveOneAnother, BelowInPaths
<1>10. q \notin Below(q) /\ p \notin Below(p)
  BY NotBelowItself
<1> HIDE DEF came
<1>11. \A x \in Paths : x \notin Below(p) \cup Below(q) => file'[x] = file[x]
  BY <1>2, <1>7
<1>12. \A x \in Paths : x \notin {p, q} \cup Below(p) \cup Below(q) => (x \in folders' <=> x \in folders)
  BY <1>2, <1>7, <1>8
<1>13. p \notin folders' /\ q \in folders'
  BY <1>2, <1>5, <1>6, <1>7, <1>8
<1>14. file' \in [Paths -> Versions \cup {Absent}] /\ file'[Bucket] = Absent
  <2>1. \A r \in came : Renamed(r, q, p) \in Paths
    <3> SUFFICES ASSUME NEW r \in moving PROVE Renamed(Renamed(r, p, q), q, p) \in Paths
      BY DEF came
    <3> QED
      BY RenamedBack, BelowInPaths
  <2>2. Bucket \notin Below(p) /\ Bucket \notin Below(q) /\ Bucket \in Paths
    BY BelowMeans, PathsClosed
  <2> QED
    BY <1>2, <1>11, <2>1, <2>2 DEF World
<1>15. folders' \subseteq Paths \ {Bucket}
  <2>1. came \subseteq Paths \ {Bucket}
    BY <1>7, BelowMeans, BelowInPaths
  <2> QED
    BY <1>1, <1>2, <1>8, <2>1 DEF World
\* What came brought its folders along.
<1>16. ASSUME NEW x \in came PROVE Front(x) \in folders'
  <2>1. PICK r \in moving : x = Renamed(r, p, q)
    BY DEF came
  <2>2. r \in Paths /\ r # Bucket /\ (Front(r) = p \/ Front(r) \in Below(p))
    BY BelowInPaths, BelowMeans
  <2>3. Front(x) = IF Front(r) = p THEN q ELSE Renamed(Front(r), p, q)
    BY <2>1, RenamedFront
  <2>4. CASE Front(r) = p
    BY <1>13, <2>3, <2>4
  <2>5. CASE Front(r) # p
    <3>1. Front(r) \in Below(p) /\ Front(r) \in folders \cup {Bucket}
      BY <1>4, <2>2, <2>5 DEF World
    <3>2. Front(r) # Bucket
      BY <3>1, BelowMeans, PathsClosed
    <3> QED
      BY <1>2, <2>3, <2>5, <3>1, <3>2
  <2> QED
    BY <2>4, <2>5
\* What stayed is not below p, and neither is its parent.
<1>17. ASSUME NEW x \in Objects \cup folders, x \notin Below(p) PROVE Front(x) \in folders' \cup {Bucket}
  <2>1. x \in Paths /\ x # Bucket /\ Front(x) \in folders \cup {Bucket}
    BY <1>4 DEF World, Objects
  <2>2. Front(x) # p /\ Front(x) \notin Below(p)
    BY <1>17, <2>1, BelowMeans
  <2> QED
    BY <1>2, <2>1, <2>2
<1>18. \A x \in Objects' \cup folders' : Front(x) \in folders' \cup {Bucket}
  <2>1. ASSUME NEW x \in Objects' PROVE Front(x) \in folders' \cup {Bucket}
    <3>1. x \in Paths /\ file'[x] # Absent
      BY DEF Objects
    <3>2. CASE x \in came
      BY <1>16, <3>2
    <3>3. CASE x \notin came
      <4>1. x \notin Below(p) /\ file[x] # Absent
        BY <1>2, <3>1, <3>3
      <4> QED
        BY <1>17, <3>1, <4>1 DEF Objects
    <3> QED
      BY <3>2, <3>3
  <2>2. ASSUME NEW x \in folders' PROVE Front(x) \in folders' \cup {Bucket}
    <3>1. CASE x \in folders \ ({p} \cup Below(p))
      BY <1>17, <3>1
    <3>2. CASE x = q
      <4>1. Front(q) # p /\ Front(q) \notin Below(p)
        BY <1>1, <1>5, BelowMeans
      <4> QED
        BY <1>1, <1>2, <3>2, <4>1
    <3>3. CASE x \in came
      BY <1>16, <3>3
    <3> QED
      BY <1>2, <1>8, <3>1, <3>2, <3>3
  <2> QED
    BY <2>1, <2>2
<1>19. World'
  BY <1>3, <1>4, <1>14, <1>15, <1>18 DEF World
<1> QED
  BY <1>1, <1>3, <1>4, <1>5, <1>6, <1>11, <1>12, <1>13, <1>19

LEMMA RenameKept ==
  ASSUME ~Clashes, NEW t \in Tasks, Kept(t), NEW p \in Paths, NEW q \in Paths, Rename(t, p, q)
  PROVE  Kept(t)'
<1> DEFINE what == [kind |-> "rename", path |-> p, to |-> q]
           gone == {p, q} \cup Below(p) \cup Below(q)
           kept == Without(cache, gone)
           left == DropEntry(kept, p, "directory")
           new  == DirEntry(q)
           c    == UpsertEntry(left, new)
<1>1. Sent(t, what)
  BY DEF Rename
<1>2. what.kind = "rename" /\ what.path = p /\ what.to = q
  OBVIOUS
<1> HIDE DEF what
<1>3. /\ World /\ Right(cache, doubtful, file, Dirs)
      /\ After(cache, what) = c /\ Touched(what) = gone
  BY <1>1, <1>2, Sending, AfterIs, TouchedIs DEF RenameUpdate
<1>4. /\ hns /\ hns' = hns /\ p \in folders /\ q # Bucket /\ q \notin folders /\ q \notin Below(p)
      /\ p \notin Below(q)
      /\ \A x \in Paths : x \notin Below(p) \cup Below(q) => file'[x] = file[x]
      /\ \A x \in Paths : x \notin gone => (x \in folders' <=> x \in folders)
      /\ p \notin folders' /\ q \in folders' /\ World'
  BY <1>3, RenamedWorld
<1>5. Dirs = folders /\ Dirs' = folders' /\ p # Bucket /\ p # q
  BY <1>3, <1>4, DirsMean, DirsMeanNext DEF World
<1>6. DOMAIN kept = DOMAIN cache \ gone /\ Restricts(kept, cache)
  BY WithoutRestricts
<1> HIDE DEF gone, kept
<1> DEFINE D == Dirs
           M == D \ {p}
           E == Dirs'
           g == file'
<1>7. Right(kept, doubtful, file, D)
  BY <1>3, <1>6, RestrictRight
<1>8. \A d \in DOMAIN kept : d \in Paths /\ d \notin gone
  BY <1>6, <1>7 DEF Right
<1>9. Right(left, doubtful, file, M) /\ DOMAIN left = DOMAIN kept
  <2>1. \A d \in DOMAIN kept : d \in D => d \in {Bucket} \cup M \cup doubtful
    BY <1>8 DEF gone
  <2>2. DOMAIN left = DOMAIN kept
    BY DropMeans
  <2>3. p \notin M /\ \A y : y # p => (y \in D <=> y \in M)
    OBVIOUS
  <2> HIDE DEF D, M
  <2>4. Right(DropEntry(kept, p, "directory"), doubtful, file, M)
    BY <1>7, <2>1, <2>3, DropDirRight
  <2> QED
    BY <2>2, <2>4
<1>10. ASSUME NEW y \in Paths, y # Bucket, Front(y) \in DOMAIN left
       PROVE  (y # q => (y \in M <=> y \in E)) /\ g[y] = file[y]
  <2>1. Front(y) \notin gone
    BY <1>8, <1>9, <1>10
  <2>2. y \notin Below(p) \cup Below(q)
    BY <1>10, <2>1, BelowMeans DEF gone
  <2>3. y \notin {p, q} => (y \in folders' <=> y \in folders)
    BY <1>4, <2>2 DEF gone
  <2> QED
    BY <1>4, <1>5, <2>2, <2>3
<1>11. \A d \in DOMAIN left : d \in M => d \in {Bucket} \cup E \cup doubtful
  BY <1>4, <1>5, <1>8, <1>9
<1>12. Right(c, doubtful, g, E)
  <2>1. q \in E
    BY <1>4, <1>5
  <2> HIDE DEF D, M, E, g, left
  <2> QED
    BY <1>4, <1>9, <1>10, <1>11, <2>1, UpsertDirRight
<1>13. Right(After(cache, what), doubtful, file', Dirs') /\ Touched(what) \subseteq Paths /\ what.kind # "list"
  BY <1>2, <1>3, <1>12, BelowInPaths DEF gone
<1> HIDE DEF c
<1>14. /\ \A x \in Paths \ Touched(what) : file'[x] = file[x]
       /\ \A x \in Paths : ({x} \cup Below(x)) \cap Touched(what) = {} => (x \in Dirs <=> x \in Dirs')
  <2>1. \A x \in Paths \ gone : file'[x] = file[x]
    BY <1>4 DEF gone
  <2>2. \A x \in Paths \ gone : x \in Dirs <=> x \in Dirs'
    BY <1>4, <1>5
  <2> QED
    BY <1>3, <2>1, <2>2
<1> QED
  BY <1>1, <1>4, <1>13, <1>14, SentKept

-----------------------------------------------------------------------------
(* Replies, requests that fail, and entries dropped at any time.            *)

LEMMA DropsRestrict ==
  ASSUME NEW b, NEW c, Restricts(b, c), NEW p, NEW type
  PROVE  Restricts(DropEntry(b, p, type), DropEntry(c, p, type))
BY DropMeans DEF Restricts

LEMMA UpsertsRestrict ==
  ASSUME NEW b, NEW c, Restricts(b, c), NEW e
  PROVE  Restricts(UpsertEntry(b, e), UpsertEntry(c, e))
BY UpsertMeans DEF Restricts

LEMMA WithoutsRestrict ==
  ASSUME NEW b, NEW c, Restricts(b, c), NEW S
  PROVE  /\ Restricts(Without(b, S), c) /\ Restricts(Without(b, S), Without(c, S))
         /\ \A q : q \in S => Restricts(Without(b, S), Without(c, {q}))
<1>1. DOMAIN Without(b, S) = DOMAIN b \ S /\ \A d \in DOMAIN b \ S : Without(b, S)[d] = b[d]
  BY DEF Without
<1>2. DOMAIN Without(c, S) = DOMAIN c \ S /\ \A d \in DOMAIN c \ S : Without(c, S)[d] = c[d]
  BY DEF Without
<1>3. \A q : DOMAIN Without(c, {q}) = DOMAIN c \ {q} /\ \A d \in DOMAIN c \ {q} : Without(c, {q})[d] = c[d]
  BY DEF Without
<1> QED
  BY <1>1, <1>2, <1>3 DEF Restricts

\* A reply finds less in a smaller cache, and leaves less.
LEMMA RepliesRestrict ==
  ASSUME NEW b, NEW c, Restricts(b, c), NEW o
  PROVE  Restricts(After(b, o), After(c, o))
<1>1. CASE o.kind = "write"
  <2> DEFINE f == Front(o.path)
  <2>1. Restricts(Without(b, {f}), Without(c, {f})) /\ (f \in DOMAIN b => f \in DOMAIN c)
    BY WithoutsRestrict DEF Restricts
  <2>2. Restricts(Invalidate(b, f), Invalidate(c, f)) /\ Restricts(Invalidate(b, f), Without(c, {f}))
    BY WithoutsRestrict DEF Invalidate
  <2>3. Restricts(WriteUpdate(b, o.path), WriteUpdate(c, o.path))
    BY <2>1, <2>2 DEF WriteUpdate
  <2> QED
    BY <1>1, <2>3, AfterIs
<1>2. CASE o.kind = "delete"
  <2>1. Restricts(DeleteUpdate(b, o.path), DeleteUpdate(c, o.path))
    BY DropsRestrict, WithoutsRestrict DEF DeleteUpdate, InvalidateAll
  <2> QED
    BY <1>2, <2>1, AfterIs
<1>3. CASE o.kind = "move"
  <2> DEFINE e  == o.entry
             f  == Front(e.name)
             lb == DropEntry(b, o.path, "file")
             lc == DropEntry(c, o.path, "file")
  <2>1. Restricts(lb, lc)
    BY DropsRestrict
  <2> HIDE DEF lb, lc, e
  <2>2. /\ Restricts(UpsertEntry(lb, e), UpsertEntry(lc, e)) /\ (f \in DOMAIN lb => f \in DOMAIN lc)
        /\ Restricts(Invalidate(lb, f), Invalidate(lc, f))
    <3>1. Restricts(UpsertEntry(lb, e), UpsertEntry(lc, e))
      BY <2>1, UpsertsRestrict
    <3>2. f \in DOMAIN lb => f \in DOMAIN lc
      BY <2>1 DEF Restricts
    <3>3. Restricts(Invalidate(lb, f), Invalidate(lc, f))
      BY <2>1, WithoutsRestrict DEF Invalidate
    <3> QED
      BY <3>1, <3>2, <3>3
  <2>3. Restricts(Invalidate(lb, f), UpsertEntry(lc, e))
    <3>1. /\ DOMAIN Invalidate(lb, f) \subseteq DOMAIN lb \ {f}
          /\ \A d \in DOMAIN Invalidate(lb, f) : Invalidate(lb, f)[d] = lb[d]
      BY DEF Invalidate, Without
    <3>2. DOMAIN UpsertEntry(lc, e) = DOMAIN lc /\ \A d \in DOMAIN lc : d # f => UpsertEntry(lc, e)[d] = lc[d]
      BY UpsertMeans
    <3> QED
      BY <2>1, <3>1, <3>2 DEF Restricts
  <2>4. Restricts(InvalidateAll(b, {Front(o.path), f}), InvalidateAll(c, {Front(o.path), f}))
    BY WithoutsRestrict DEF InvalidateAll
  <2>5. Restricts(MoveUpdate(b, o.path, e), MoveUpdate(c, o.path, e))
    BY <2>2, <2>3, <2>4 DEF MoveUpdate, lb, lc
  <2> QED
    BY <1>3, <2>5, AfterIs DEF e
<1>4. CASE o.kind = "mkdir"
  <2>1. Restricts(MkdirUpdate(b, o.made), MkdirUpdate(c, o.made))
    BY DEF MkdirUpdate, Restricts
  <2> QED
    BY <1>4, <2>1, AfterIs
<1>5. CASE o.kind = "rmdir"
  <2>1. Restricts(RmdirUpdate(b, o.path), RmdirUpdate(c, o.path))
    BY DropsRestrict, WithoutsRestrict DEF RmdirUpdate
  <2> QED
    BY <1>5, <2>1, AfterIs
<1>6. CASE o.kind = "rename"
  <2> DEFINE gone == {o.path, o.to} \cup Below(o.path) \cup Below(o.to)
  <2>1. Restricts(Without(b, gone), Without(c, gone))
    BY WithoutsRestrict
  <2>2. Restricts(RenameUpdate(b, o.path, o.to), RenameUpdate(c, o.path, o.to))
    BY <2>1, DropsRestrict, UpsertsRestrict DEF RenameUpdate
  <2> QED
    BY <1>6, <2>2, AfterIs
<1>7. CASE o.kind = "list"
  <2>1. Restricts(Store(b, o.reply), Store(c, o.reply))
    BY DEF Store, Restricts
  <2> QED
    BY <1>7, <2>1, AfterIs
<1>8. CASE o.kind \notin {"write", "delete", "move", "mkdir", "rmdir", "rename", "list"}
  BY <1>8, AfterIs
<1> QED
  BY <1>1, <1>2, <1>3, <1>4, <1>5, <1>6, <1>7, <1>8

\* Only a list brings new directories into the cache, with its own listings.
LEMMA RepliesBring ==
  ASSUME NEW c, NEW o
  PROVE  /\ o.kind # "list" => DOMAIN After(c, o) \subseteq DOMAIN c
         /\ o.kind = "list" => /\ DOMAIN After(c, o) = DOMAIN c \cup DOMAIN o.reply
                               /\ \A d \in DOMAIN o.reply : After(c, o)[d] = o.reply[d]
<1>1. \A b, p, type : DOMAIN DropEntry(b, p, type) = DOMAIN b
  BY DropMeans
<1>2. \A b, e : DOMAIN UpsertEntry(b, e) = DOMAIN b
  BY UpsertMeans
<1>3. \A b, S : DOMAIN Without(b, S) \subseteq DOMAIN b
  BY DEF Without
<1>4. CASE o.kind = "write"
  BY <1>3, <1>4, AfterIs DEF WriteUpdate, Invalidate
<1>5. CASE o.kind = "delete"
  <2> DEFINE S == {o.path, Front(o.path)} \cup UNION {Ancestors(r) : r \in {o.path, Front(o.path)}}
  <2>1. DOMAIN DropEntry(c, o.path, "file") = DOMAIN c /\ DOMAIN Without(c, S) \subseteq DOMAIN c
    BY <1>1, <1>3
  <2>2. DeleteUpdate(c, o.path) = IF hns THEN DropEntry(c, o.path, "file") ELSE Without(c, S)
    BY DEF DeleteUpdate, InvalidateAll
  <2> HIDE DEF S
  <2>3. After(c, o) = DeleteUpdate(c, o.path)
    BY <1>5, AfterIs
  <2> QED
    BY <1>5, <2>1, <2>2, <2>3
<1>6. CASE o.kind = "move"
  <2>1. DOMAIN MoveUpdate(c, o.path, o.entry) \subseteq DOMAIN c
    BY <1>1, <1>2, <1>3 DEF MoveUpdate, Invalidate, InvalidateAll
  <2> QED
    BY <1>6, <2>1, AfterIs
<1>7. CASE o.kind = "mkdir"
  BY <1>7, AfterIs DEF MkdirUpdate
<1>8. CASE o.kind = "rmdir"
  <2> DEFINE b == Without(c, {o.path})
  <2>1. DOMAIN DropEntry(b, o.path, "directory") = DOMAIN b /\ DOMAIN b \subseteq DOMAIN c
    BY <1>1, <1>3
  <2>2. After(c, o) = DropEntry(b, o.path, "directory")
    BY <1>8, AfterIs DEF RmdirUpdate
  <2> HIDE DEF b
  <2> QED
    BY <1>8, <2>1, <2>2
<1>9. CASE o.kind = "rename"
  <2>1. DOMAIN RenameUpdate(c, o.path, o.to) \subseteq DOMAIN c
    BY <1>1, <1>2, <1>3 DEF RenameUpdate
  <2> QED
    BY <1>9, <2>1, AfterIs
<1>10. CASE o.kind = "list"
  <2>1. /\ DOMAIN Store(c, o.reply) = DOMAIN c \cup DOMAIN o.reply
        /\ \A d \in DOMAIN o.reply : Store(c, o.reply)[d] = o.reply[d]
    BY DEF Store
  <2> QED
    BY <1>10, <2>1, AfterIs
<1>11. CASE o.kind \notin {"write", "delete", "move", "mkdir", "rmdir", "rename", "list"}
  BY <1>11, AfterIs
<1> QED
  BY <1>4, <1>5, <1>6, <1>7, <1>8, <1>9, <1>10, <1>11

\* The directories of which a reply brings a new listing.
Fresh(o) == IF o.kind = "list" THEN DOMAIN o.reply ELSE {}

\* What the reply to request o leaves is right with the doubts that last beyond
\* the reply, or already beyond a smaller cache b.
LEMMA RepliesRight ==
  ASSUME NEW b, NEW o, NEW D \in SUBSET Paths, NEW f, NEW E, Right(After(b, o), D, f, E),
         o.kind = "list" => Right(o.reply, {}, f, E),
         NEW K, DOMAIN After(b, o) \ Fresh(o) \subseteq K
  PROVE  Right(After(b, o), Lasting(D, K), f, E)
<1> DEFINE c == After(b, o)
           X == {}
<1>1. \A d \in Fresh(o) \cap DOMAIN c :
        d \in {Bucket} \cup E /\ \A y \in Children(d) : Said(c[d], y) = Truth(f, E, y)
  <2> SUFFICES ASSUME NEW d \in Fresh(o) \cap DOMAIN c
               PROVE  d \in {Bucket} \cup E /\ \A y \in Children(d) : Said(c[d], y) = Truth(f, E, y)
    OBVIOUS
  <2>1. o.kind = "list" /\ d \in DOMAIN o.reply
    BY DEF Fresh
  <2>2. c[d] = o.reply[d]
    BY <2>1, RepliesBring
  <2>3. Right(o.reply, {}, f, E)
    BY <2>1
  <2> HIDE DEF c
  <2> QED
    BY <2>1, <2>2, <2>3 DEF Right
<1> HIDE DEF c
<1>2. Right(c, D \cup X, f, E) /\ DOMAIN c \ Fresh(o) \subseteq K
  BY DEF c
<1> HIDE DEF X
<1>3. Right(c, Lasting(D, K) \cup X, f, E)
  BY <1>1, <1>2, LastingRight
<1> QED
  BY <1>3 DEF X, c

\* An idle task keeps a cache that is right.
LEMMA IdleKept ==
  ASSUME NEW t \in Tasks, Kept(t), op' = [op EXCEPT ![t] = Idle], UNCHANGED server,
         Right(cache', doubtful', file, Dirs), doubtful' \subseteq Paths, Upward(doubtful')
  PROVE  Kept(t)'
<1>1. DOMAIN op' = Tasks /\ op'[t] = Idle
  BY DEF Kept
<1>2. World' /\ Dirs' = Dirs /\ file' = file
  BY SameWorld DEF Kept, server
<1>3. After(cache, op[t])' = cache'
  BY <1>1 DEF After, Idle
<1>4. Touched(Idle) = {} /\ Doubts(Idle) = {}
  <2>1. Touched(Idle) = {}
    BY TouchedIs DEF Idle
  <2> QED
    BY <2>1, DoubtsMean
<1>5. Doubts(op[t])' = {} /\ Touched(op[t])' = {}
  <2>1. Doubts(op[t])' = Doubts(op'[t]) /\ Touched(op[t])' = Touched(op'[t])
    BY DEF Doubts, Touched, Below, Ancestors
  <2> QED
    BY <1>1, <1>4, <2>1
<1>6. Right(cache, doubtful, file, Dirs)'
  BY <1>2 DEF Right, Said, Truth, Children, Below, Entries, Entry, DirEntry
<1>7. Right(After(cache, op[t]), doubtful, file, Dirs)'
  BY <1>3, <1>6 DEF Right
<1>8. Right(cache, doubtful \cup Doubts(op[t]), file, Dirs)'
  BY <1>5, <1>6 DEF Right
<1>9. op'[t].kind # "list"
  BY <1>1 DEF Idle
<1>10. Upward(doubtful)'
  BY DEF Upward, Below
<1> QED
  BY <1>1, <1>2, <1>5, <1>7, <1>8, <1>9, <1>10 DEF Kept

LEMMA ReplyKept ==
  ASSUME NEW t \in Tasks, Kept(t), op' = [op EXCEPT ![t] = Idle], UNCHANGED server,
         NEW c, c = After(cache, op[t]), Caches(c, Fresh(op[t]))
  PROVE  Kept(t)'
<1> DEFINE K == DOMAIN c \ Fresh(op[t])
           E == Dirs
           o == op[t]
<1>1. cache' = c /\ doubtful' = Lasting(doubtful, K) /\ doubtful \subseteq Paths /\ Upward(doubtful)
  BY DEF Caches, Kept
<1>2. Right(After(cache, o), doubtful, file, E) /\ (o.kind = "list" => Right(o.reply, {}, file, E))
  BY DEF Kept
<1>3. DOMAIN After(cache, o) \ Fresh(o) \subseteq K
  OBVIOUS
<1> HIDE DEF K, E, o
<1>4. Right(After(cache, o), Lasting(doubtful, K), file, E)
  BY <1>1, <1>2, <1>3, RepliesRight
<1>5. Right(cache', doubtful', file, Dirs)
  BY <1>1, <1>4 DEF E, o
<1>6. doubtful' \subseteq Paths /\ Upward(doubtful')
  BY <1>1, LastingUpward
<1> QED
  BY <1>5, <1>6, IdleKept

LEMMA FailedKept ==
  ASSUME NEW t \in Tasks, Kept(t), Failed(t)
  PROVE  Kept(t)'
<1> DEFINE o == op[t]
           c == IF o.kind = "rename" THEN InvalidateAll(cache, {o.path, o.to}) ELSE cache
           D == doubtful \cup Doubts(o)
           X == {}
           E == Dirs
<1>1. /\ op' = [op EXCEPT ![t] = Idle] /\ UNCHANGED server
      /\ cache' = c /\ doubtful' = Lasting(D, DOMAIN c)
  BY DEF Failed
<1>2. Restricts(c, cache)
  <2> DEFINE S == {o.path, o.to} \cup UNION {Ancestors(r) : r \in {o.path, o.to}}
  <2>1. Restricts(Without(cache, S), cache)
    BY WithoutRestricts
  <2>2. c = IF o.kind = "rename" THEN Without(cache, S) ELSE cache
    BY DEF InvalidateAll
  <2>3. Restricts(cache, cache)
    BY DEF Restricts
  <2> HIDE DEF S, c
  <2> QED
    BY <2>1, <2>2, <2>3
<1>3. Right(cache, D, file, E) /\ D \in SUBSET Paths /\ Upward(D)
  <2>1. Doubts(o) \subseteq Paths /\ Upward(Doubts(o))
    BY DoubtsMean DEF Kept
  <2> QED
    BY <2>1 DEF Kept, Upward
<1> HIDE DEF o, c, D, E
<1>4. Right(c, D \cup X, file, E)
  BY <1>2, <1>3, RestrictRight
<1> HIDE DEF X
<1>5. Right(c, Lasting(D, DOMAIN c) \cup X, file, E)
  <2> DEFINE fresh == {}
  <2>1. DOMAIN c \ fresh \subseteq DOMAIN c /\ \A d \in fresh \cap DOMAIN c : FALSE
    OBVIOUS
  <2> HIDE DEF fresh
  <2> QED
    BY <1>3, <1>4, <2>1, LastingRight
<1>6. Right(cache', doubtful', file, Dirs)
  BY <1>1, <1>5 DEF X, E
<1>7. doubtful' \subseteq Paths /\ Upward(doubtful')
  BY <1>1, <1>3, LastingUpward
<1> QED
  BY <1>1, <1>6, <1>7, IdleKept

\* Fewer listings are as right.
LEMMA DropKept ==
  ASSUME NEW t \in Tasks, Kept(t), UNCHANGED <<server, op>>, NEW b, cache' = b, Restricts(b, cache),
         doubtful' = doubtful \/ doubtful' = Lasting(doubtful, DOMAIN b)
  PROVE  Kept(t)'
<1>1. World' /\ Dirs' = Dirs /\ file' = file /\ hns' = hns /\ op' = op
  BY SameWorld DEF Kept, server
<1> DEFINE o == op[t]
           E == Dirs
           X == Doubts(o)
           D == doubtful'
<1>2. /\ doubtful \in SUBSET Paths /\ Upward(doubtful) /\ Touched(o) \subseteq Paths
      /\ Right(After(cache, o), doubtful, file, E) /\ Right(cache, doubtful \cup X, file, E)
      /\ o.kind = "list" => Right(o.reply, {}, file, E)
  BY DEF Kept
<1>3. D \subseteq Paths /\ Upward(D)
  BY <1>2, LastingUpward
<1> HIDE DEF o, E, X
<1>4. Right(After(b, o), doubtful, file, E) /\ Right(b, doubtful \cup X, file, E)
  BY <1>2, RepliesRestrict, RestrictRight
<1>5. Right(After(b, o), D, file, E)
  <2>1. DOMAIN After(b, o) \ Fresh(o) \subseteq DOMAIN b
    BY RepliesBring DEF Fresh
  <2>2. Right(After(b, o), Lasting(doubtful, DOMAIN b), file, E)
    BY <1>2, <1>4, <2>1, RepliesRight
  <2> QED
    BY <1>4, <2>2
<1>6. Right(b, D \cup X, file, E)
  <2> DEFINE fresh == {}
  <2>1. DOMAIN b \ fresh \subseteq DOMAIN b /\ \A d \in fresh \cap DOMAIN b : FALSE
    OBVIOUS
  <2> HIDE DEF fresh
  <2>2. Right(b, Lasting(doubtful, DOMAIN b) \cup X, file, E)
    BY <1>2, <1>4, <2>1, LastingRight
  <2> QED
    BY <1>4, <2>2
<1>7. /\ After(cache, op[t])' = After(b, o) /\ Doubts(op[t])' = X /\ Touched(op[t])' = Touched(o)
  <2>1. Doubts(op[t])' = Doubts(op'[t]) /\ Touched(op[t])' = Touched(op'[t])
    BY DEF Doubts, Touched, Below, Ancestors
  <2>2. After(cache, op[t])' = After(b, o)
    BY <1>1 DEF After, WriteUpdate, DeleteUpdate, MoveUpdate, MkdirUpdate, RmdirUpdate, RenameUpdate, o
  <2> QED
    BY <1>1, <2>1, <2>2 DEF o, X
<1> HIDE DEF D
<1>8. Right(After(cache, op[t]), doubtful, file, Dirs)'
  BY <1>1, <1>5, <1>7 DEF Right, Said, Truth, Children, Below, Entries, Entry, DirEntry, D, E
<1>9. Right(cache, doubtful \cup Doubts(op[t]), file, Dirs)'
  BY <1>1, <1>6, <1>7 DEF Right, Said, Truth, Children, Below, Entries, Entry, DirEntry, D, E
<1>10. (op[t].kind = "list" => Right(op[t].reply, {}, file, Dirs))'
  BY <1>1, <1>2 DEF Right, Said, Truth, Children, Below, Entries, Entry, DirEntry, E, o
<1>11. (doubtful \subseteq Paths /\ Upward(doubtful) /\ Touched(op[t]) \subseteq Paths)'
  BY <1>2, <1>3, <1>7 DEF Upward, Below, D
<1>12. DOMAIN op' = Tasks
  BY <1>1 DEF Kept
<1> QED
  BY <1>1, <1>8, <1>9, <1>10, <1>11, <1>12 DEF Kept

LEMMA InitKept ==
  ASSUME NEW t \in Tasks, Init
  PROVE  Kept(t)
<1>1. Objects = {} /\ folders = {} /\ Bucket \in Paths
  BY PathsClosed DEF Init, Objects
<1>2. Dirs = {}
  BY <1>1 DEF Dirs
<1>3. World
  BY <1>1, <1>2 DEF Init, World, NoClash
<1>4. DOMAIN cache = {} /\ op[t] = Idle /\ DOMAIN op = Tasks /\ doubtful = {}
  BY DEF Init
<1>5. After(cache, op[t]) = cache /\ Touched(op[t]) = {} /\ op[t].kind # "list"
  BY <1>4, AfterIs, TouchedIs DEF Idle
<1>6. \A D : Right(cache, D, file, Dirs)
  BY <1>4 DEF Right
<1> QED
  BY <1>3, <1>4, <1>5, <1>6 DEF Kept, Upward

LEMMA NextKept ==
  ASSUME NEW t, Tasks = {t}, ~Clashes, Kept(t), [Next]_vars
  PROVE  Kept(t)'
<1>0. t \in Tasks
  OBVIOUS
<1>1. ASSUME NEW p \in Paths, Write(t, p) \/ Delete(t, p) \/ Rmdir(t, p) \/ List(t, p) \/ Find(t, p)
      PROVE  Kept(t)'
  BY <1>0, <1>1, WriteKept, DeleteKept, RmdirKept, ListKept, FindKept
<1>2. ASSUME NEW p \in Paths, NEW parents \in BOOLEAN, Mkdir(t, p, parents) PROVE Kept(t)'
  BY <1>0, <1>2, MkdirKept
<1>3. ASSUME NEW p \in Paths, NEW q \in Paths, Move(t, p, q) \/ Rename(t, p, q) PROVE Kept(t)'
  BY <1>0, <1>3, MoveKept, RenameKept
<1>4. Restricts(cache, cache) /\ \A b : DOMAIN b \ {} = DOMAIN b
  BY DEF Restricts
<1>5. ASSUME NEW p \in Paths, NEW q \in Paths, RenameRefused(t, p, q) PROVE Kept(t)'
  <2> DEFINE b == InvalidateAll(cache, {p, q})
  <2>1. UNCHANGED <<server, op>> /\ cache' = b /\ doubtful' = Lasting(doubtful, DOMAIN b)
    BY <1>4, <1>5 DEF RenameRefused, Caches
  <2>2. Restricts(b, cache)
    BY WithoutRestricts DEF InvalidateAll
  <2> HIDE DEF b
  <2> QED
    BY <1>0, <2>1, <2>2, DropKept
<1>6. ASSUME NEW p \in Paths, Refresh(p) PROVE Kept(t)'
  <2> DEFINE b == Invalidate(cache, p)
  <2>1. UNCHANGED <<server, op>> /\ cache' = b /\ doubtful' = Lasting(doubtful, DOMAIN b)
    BY <1>4, <1>6 DEF Refresh, Caches
  <2>2. Restricts(b, cache)
    BY WithoutRestricts DEF Invalidate
  <2> HIDE DEF b
  <2> QED
    BY <1>0, <2>1, <2>2, DropKept
<1>7. ASSUME WriteDone(t) \/ DeleteDone(t) \/ MoveDone(t) \/ MkdirDone(t)
               \/ RmdirDone(t) \/ RenameDone(t) \/ ListDone(t)
      PROVE  Kept(t)'
  <2> DEFINE c == After(cache, op[t])
  <2>1. op' = [op EXCEPT ![t] = Idle] /\ UNCHANGED server
    BY <1>7 DEF WriteDone, DeleteDone, MoveDone, MkdirDone, RmdirDone, RenameDone, ListDone, Received
  <2>2. Caches(c, Fresh(op[t]))
    BY <1>7, AfterIs
       DEF WriteDone, DeleteDone, MoveDone, MkdirDone, RmdirDone, RenameDone, ListDone, Received, Fresh
  <2> HIDE DEF c
  <2> QED
    BY <1>0, <2>1, <2>2, ReplyKept DEF c
<1>8. ASSUME Failed(t) PROVE Kept(t)'
  BY <1>0, <1>8, FailedKept
<1>9. ASSUME UNCHANGED vars PROVE Kept(t)'
  <2>1. UNCHANGED <<server, op>> /\ cache' = cache /\ doubtful' = doubtful
    BY <1>9 DEF vars, server
  <2> QED
    BY <1>0, <1>4, <2>1, DropKept
<1> QED
  BY <1>1, <1>2, <1>3, <1>5, <1>6, <1>7, <1>8, <1>9 DEF Next

LEMMA KeptMeansCoherent ==
  ASSUME NEW t, Tasks = {t}, Kept(t)
  PROVE  Coherent
<1>1. TypeOK
  BY DEF Kept, World, Right, TypeOK
<1>2. ASSUME op[t] = Idle, NEW d \in DOMAIN cache PROVE OutsideDoubt(cache[d]) = OutsideDoubt(Listing(d))
  <2>1. Right(cache, doubtful, file, Dirs)
    BY <1>2, AfterIs DEF Kept, Idle
  <2>2. /\ \A e \in cache[d] : e.name \in Children(d)
        /\ \A y \in Children(d) \ doubtful : Said(cache[d], y) = Truth(file, Dirs, y)
    BY <2>1 DEF Right
  <2>3. /\ \A e \in Listing(d) : e.name \in Children(d)
        /\ \A y \in Children(d) : Said(Listing(d), y) = Truth(file, Dirs, y)
    BY ListingSays
  <2>4. \A e : e.name \in Children(d) \ doubtful => (e \in cache[d] <=> e \in Listing(d))
    BY <2>2, <2>3 DEF Said
  <2> QED
    BY <2>2, <2>3, <2>4 DEF OutsideDoubt
<1> QED
  BY <1>1, <1>2 DEF Coherent

\* "After any mutating operation that cache must be kept consistent with the
\* bucket" (_dircache.py), for a client that waits for each operation before the
\* next, on a bucket where no object has the name of a directory: whenever no
\* operation is under way, each cached listing is what the server lists, but for
\* the entries that a request which raised after the server had acted left behind.
THEOREM CachesAreCoherent ==
  ASSUME NEW t, Tasks = {t}, ~Clashes
  PROVE  Spec => []Coherent
<1>1. Init => Kept(t)
  BY InitKept
<1>2. Kept(t) /\ [Next]_vars => Kept(t)'
  BY NextKept
<1>3. Kept(t) => Coherent
  BY KeptMeansCoherent
<1> QED
  BY <1>1, <1>2, <1>3, PTL DEF Spec
=============================================================================
