--------------------------- MODULE PortScanProofs ---------------------------
(***************************************************************************)
(* Features and scans, for any flows, addresses, ports and thresholds: the *)
(* two views of a contact agree, letters tell of the whole history, the    *)
(* detector keeps its promises, and no horizontal scan is missed.          *)
(***************************************************************************)
EXTENDS PortScan, SequenceTheorems, FunctionTheorems, FiniteSetTheorems, TLAPS

-----------------------------------------------------------------------------
(* Minima, sums, and the elements of a sequence that are in a set *)

LEMMA HasLeast ==
    ASSUME NEW P \in SUBSET Nat, P # {}
    PROVE  \E p \in P : \A q \in P : p <= q
<1>1. PICK p \in P : \A q \in P : <<q, p>> \notin OpToRel(<, Nat)
  BY NatLessThanWellFounded, WFMin
<1>2. \A q \in P : ~ (q < p)
  BY <1>1 DEF OpToRel
<1> QED
  BY <1>2

Step(s, T, i, before) ==
    IF i = 0 THEN <<>> ELSE before \o IF s[i] \in T THEN <<s[i]>> ELSE <<>>

Collects(g, s, T, n) == g = [i \in 0..n |-> Step(s, T, i, g[i-1])]

LEMMA CollectsExists ==
    ASSUME NEW s, NEW T, NEW n \in Nat
    PROVE  \E g : Collects(g, s, T, n)
<1> DEFINE P == {m \in Nat : ~ \E g : Collects(g, s, T, m)}
<1> SUFFICES P = {}
  OBVIOUS
<1>1. SUFFICES ASSUME P # {} PROVE FALSE
  OBVIOUS
<1>2. PICK m \in P : \A q \in P : m <= q
  <2> HIDE DEF P
  <2>1. P \subseteq Nat
    BY DEF P
  <2> QED
    BY <1>1, <2>1, HasLeast
<1>3. CASE m = 0
  <2> DEFINE g == [i \in 0..0 |-> <<>>]
  <2>1. g = [i \in 0..0 |-> Step(s, T, i, g[i-1])]
    BY DEF Step
  <2> QED
    BY <1>2, <1>3, <2>1 DEF Collects
<1>4. CASE m # 0
  <2>1. m - 1 \in Nat /\ m - 1 \notin P
    BY <1>2, <1>4
  <2>2. PICK g : Collects(g, s, T, m - 1)
    BY <2>1
  <2> DEFINE h == [i \in 0..m |-> IF i = m THEN Step(s, T, m, g[m-1]) ELSE g[i]]
  <2>3. ASSUME NEW i \in 0..m PROVE h[i] = Step(s, T, i, h[i-1])
    <3>1. CASE i = m
      <4>1. m - 1 \in 0..m /\ m - 1 # m
        BY <2>1
      <4>2. h[m-1] = g[m-1]
        BY <4>1
      <4> QED
        BY <3>1, <4>2
    <3>2. CASE i # m /\ i # 0
      <4>1. i \in 0..(m-1) /\ i - 1 \in 0..m /\ i - 1 # m
        BY <1>2, <3>2
      <4>2. h[i] = g[i] /\ h[i-1] = g[i-1]
        BY <3>2, <4>1
      <4>3. g[i] = Step(s, T, i, g[i-1])
        BY <2>2, <4>1 DEF Collects
      <4> QED
        BY <4>2, <4>3
    <3>3. CASE i = 0
      <4>1. 0 \in 0..(m-1) /\ h[0] = g[0]
        BY <1>2, <1>4, <3>3
      <4>2. g[0] = Step(s, T, 0, g[0-1])
        BY <2>2, <4>1 DEF Collects
      <4> QED
        BY <3>3, <4>1, <4>2 DEF Step
    <3> QED
      BY <3>1, <3>2, <3>3
  <2>4. h = [i \in 0..m |-> Step(s, T, i, h[i-1])]
    <3>1. DOMAIN h = 0..m /\ h = [i \in DOMAIN h |-> h[i]]
      OBVIOUS
    <3> HIDE DEF h
    <3> QED
      BY <2>3, <3>1
  <2>5. Collects(h, s, T, m)
    <3> HIDE DEF h
    <3> QED
      BY <2>4 DEF Collects
  <2> QED
    BY <1>2, <2>5
<1> QED
  BY <1>3, <1>4

(* Those(s, T) is the last value of a function that collects them.         *)
LEMMA ThoseIs ==
    ASSUME NEW S, NEW s \in Seq(S), NEW T
    PROVE  \E g : Collects(g, s, T, Len(s)) /\ Those(s, T) = g[Len(s)]
<1> DEFINE g == CHOOSE g : g = [i \in 0..Len(s) |->
                    IF i = 0 THEN <<>>
                    ELSE g[i-1] \o IF s[i] \in T THEN <<s[i]>> ELSE <<>>]
<1>1. Those(s, T) = g[Len(s)]
  BY DEF Those
<1>2. Len(s) \in Nat
  OBVIOUS
<1>3. \E h : Collects(h, s, T, Len(s))
  BY <1>2, CollectsExists
<1>4. Collects(g, s, T, Len(s))
  BY <1>3 DEF Collects, Step
<1> QED
  BY <1>1, <1>4

LEMMA CollectsType ==
    ASSUME NEW S, NEW s \in Seq(S), NEW T, NEW g, NEW n \in 0..Len(s), Collects(g, s, T, n)
    PROVE  \A i \in 0..n : g[i] \in Seq(S \cap T)
<1> DEFINE P == {i \in 0..n : g[i] \notin Seq(S \cap T)}
<1>1. SUFFICES ASSUME P # {} PROVE FALSE
  OBVIOUS
<1>2. PICK m \in P : \A q \in P : m <= q
  <2>1. P \subseteq Nat
    OBVIOUS
  <2> HIDE DEF P
  <2> QED
    BY <1>1, <2>1, HasLeast
<1>3. g[m] = Step(s, T, m, g[m-1])
  BY <1>2 DEF Collects
<1>4. CASE m = 0
  <2>1. g[m] = <<>>
    BY <1>3, <1>4 DEF Step
  <2>2. <<>> \in Seq(S \cap T)
    OBVIOUS
  <2> QED
    BY <1>2, <2>1, <2>2
<1>5. CASE m # 0
  <2>1. m - 1 \in 0..n /\ m - 1 \notin P /\ m \in 1..Len(s)
    BY <1>2, <1>5
  <2>2. g[m-1] \in Seq(S \cap T) /\ s[m] \in S
    BY <2>1
  <2>3. (s[m] \in T => <<s[m]>> \in Seq(S \cap T)) /\ <<>> \in Seq(S \cap T)
    BY <2>2
  <2>4. g[m] \in Seq(S \cap T)
    BY <1>3, <1>5, <2>2, <2>3, ConcatProperties DEF Step
  <2> QED
    BY <1>2, <2>4
<1> QED
  BY <1>4, <1>5

LEMMA ThoseType ==
    ASSUME NEW S, NEW s \in Seq(S), NEW T
    PROVE  Those(s, T) \in Seq(S \cap T) /\ Those(s, T) \in Seq(S)
<1>1. PICK g : Collects(g, s, T, Len(s)) /\ Those(s, T) = g[Len(s)]
  BY ThoseIs
<1>2. Len(s) \in 0..Len(s)
  OBVIOUS
<1>3. \A i \in 0..Len(s) : g[i] \in Seq(S \cap T)
  BY <1>1, <1>2, CollectsType
<1>4. g[Len(s)] \in Seq(S \cap T)
  BY <1>2, <1>3
<1>5. g[Len(s)] \in Seq(S)
  BY <1>4
<1> QED
  BY <1>1, <1>4, <1>5

(* An element that is appended to s is appended to those in T, or left out.*)
LEMMA ThoseAppend ==
    ASSUME NEW S, NEW s \in Seq(S), NEW T, NEW e \in S
    PROVE  Those(Append(s, e), T) =
             IF e \in T THEN Append(Those(s, T), e) ELSE Those(s, T)
<1> DEFINE t == Append(s, e)
           n == Len(s)
<1>1. /\ t \in Seq(S) /\ Len(t) = n + 1 /\ n \in Nat
      /\ t[n+1] = e /\ \A i \in 1..n : t[i] = s[i]
  OBVIOUS
<1> HIDE DEF t
<1>2. PICK g : Collects(g, s, T, n) /\ Those(s, T) = g[n]
  BY ThoseIs
<1>3. PICK h : Collects(h, t, T, n + 1) /\ Those(t, T) = h[n + 1]
  BY <1>1, ThoseIs
<1>4. h[n] = g[n]
  <2> DEFINE P == {i \in 0..n : h[i] # g[i]}
  <2>1. SUFFICES ASSUME P # {} PROVE FALSE
    BY <1>1
  <2>2. PICK m \in P : \A q \in P : m <= q
    <3>1. P \subseteq Nat
      OBVIOUS
    <3> HIDE DEF P
    <3> QED
      BY <2>1, <3>1, HasLeast
  <2>3. m \in 0..n /\ m \in 0..(n+1)
    BY <1>1, <2>2
  <2>4. g[m] = Step(s, T, m, g[m-1]) /\ h[m] = Step(t, T, m, h[m-1])
    BY <1>2, <1>3, <2>3 DEF Collects
  <2>5. CASE m = 0
    BY <2>2, <2>4, <2>5 DEF Step
  <2>6. CASE m # 0
    <3>1. m - 1 \in 0..n /\ m - 1 \notin P /\ m \in 1..n
      BY <1>1, <2>2, <2>6
    <3>2. h[m-1] = g[m-1] /\ t[m] = s[m]
      BY <1>1, <3>1
    <3> QED
      BY <2>2, <2>4, <3>2 DEF Step
  <2> QED
    BY <2>5, <2>6
<1>5. h[n+1] = g[n] \o IF e \in T THEN <<e>> ELSE <<>>
  <2>1. h[n+1] = Step(t, T, n + 1, h[n+1-1])
    <3>1. n + 1 \in 0..(n+1)
      BY <1>1
    <3> QED
      BY <1>3, <3>1 DEF Collects
  <2>2. n + 1 - 1 = n /\ n + 1 # 0
    BY <1>1
  <2> QED
    BY <1>1, <1>4, <2>1, <2>2 DEF Step
<1>6. g[n] \in Seq(S)
  BY <1>2, ThoseType
<1>7. g[n] \o <<>> = g[n] /\ g[n] \o <<e>> = Append(g[n], e)
  BY <1>6
<1> QED
  BY <1>2, <1>3, <1>5, <1>7 DEF t

LEMMA ThoseOfNone ==
    ASSUME NEW T
    PROVE  Those(<<>>, T) = <<>>
<1>1. <<>> \in Seq({}) /\ Len(<<>>) = 0
  OBVIOUS
<1>2. PICK g : Collects(g, <<>>, T, 0) /\ Those(<<>>, T) = g[0]
  BY <1>1, ThoseIs
<1>3. 0 \in 0..0
  OBVIOUS
<1> QED
  BY <1>2, <1>3 DEF Collects, Step

(* iter sums f over the subsets of a set, an element CHOOSE takes at a time*)
Sums(iter, f, D, n) ==
    iter = [s \in {s \in SUBSET D : Cardinality(s) <= n} |->
               IF s = {} THEN 0
               ELSE LET x == CHOOSE x \in s : TRUE IN f[x] + iter[s \ {x}]]

LEMMA SumsExists ==
    ASSUME NEW f, NEW D, IsFiniteSet(D), NEW n \in Nat
    PROVE  \E g : Sums(g, f, D, n)
<1> DEFINE P == {m \in Nat : ~ \E g : Sums(g, f, D, m)}
           Small(m) == {s \in SUBSET D : Cardinality(s) <= m}
           Of(g, s) == IF s = {} THEN 0
                       ELSE LET x == CHOOSE x \in s : TRUE IN f[x] + g[s \ {x}]
<1>0. ASSUME NEW s \in SUBSET D
      PROVE  /\ IsFiniteSet(s) /\ Cardinality(s) \in Nat
             /\ Cardinality(s) = 0 <=> s = {}
             /\ \A x \in s : Cardinality(s \ {x}) = Cardinality(s) - 1
  <2>1. IsFiniteSet(s)
    BY FS_Subset
  <2> QED
    BY <2>1, FS_CardinalityType, FS_EmptySet, FS_RemoveElement
<1> SUFFICES P = {}
  OBVIOUS
<1>1. SUFFICES ASSUME P # {} PROVE FALSE
  OBVIOUS
<1>2. PICK m \in P : \A q \in P : m <= q
  <2> HIDE DEF P
  <2>1. P \subseteq Nat
    BY DEF P
  <2> QED
    BY <1>1, <2>1, HasLeast
<1>3. CASE m = 0
  <2> DEFINE g == [s \in Small(0) |-> 0]
  <2>1. \A s \in Small(0) : s = {}
    BY <1>0
  <2>2. \A s \in Small(0) : Of(g, s) = 0
    BY <2>1
  <2>3. g = [s \in Small(0) |-> Of(g, s)]
    <3> HIDE DEF Of
    <3> QED
      BY <2>2
  <2>4. Sums(g, f, D, 0)
    BY <2>3 DEF Sums
  <2> QED
    BY <1>2, <1>3, <2>4
<1>4. CASE m # 0
  <2>1. m - 1 \in Nat /\ m - 1 \notin P
    BY <1>2, <1>4
  <2>2. PICK g : Sums(g, f, D, m - 1)
    BY <2>1
  <2> DEFINE h == [s \in Small(m) |-> Of(g, s)]
  <2>3. ASSUME NEW s \in Small(m) PROVE Of(g, s) = Of(h, s)
    <3>1. CASE s = {}
      BY <3>1
    <3>2. CASE s # {}
      <4> DEFINE x == CHOOSE x \in s : TRUE
                 r == s \ {x}
      <4>1. x \in s
        BY <3>2
      <4>2. r \in SUBSET D /\ Cardinality(r) = Cardinality(s) - 1 /\ Cardinality(s) \in Nat
        BY <4>1, <1>0
      <4>3. Cardinality(r) <= m - 1 /\ Cardinality(r) <= m
        BY <1>2, <4>2
      <4>4. r \in Small(m - 1) /\ r \in Small(m)
        BY <4>2, <4>3
      <4>5. g[r] = Of(g, r)
        <5> HIDE DEF r
        <5> QED
          BY <2>2, <4>4 DEF Sums
      <4>6. h[r] = Of(g, r)
        <5> HIDE DEF r, Of
        <5> QED
          BY <4>4
      <4>7. Of(g, s) = f[x] + g[r] /\ Of(h, s) = f[x] + h[r]
        <5> HIDE DEF h
        <5> QED
          BY <3>2
      <4> HIDE DEF Of, h, x, r
      <4> QED
        BY <4>5, <4>6, <4>7
    <3> QED
      BY <3>1, <3>2
  <2>4. h = [s \in Small(m) |-> Of(h, s)]
    <3> HIDE DEF Of
    <3> QED
      BY <2>3
  <2>5. Sums(h, f, D, m)
    <3> HIDE DEF h
    <3> QED
      BY <2>4 DEF Sums
  <2> QED
    BY <1>2, <2>5
<1> QED
  BY <1>3, <1>4

LEMMA SumType ==
    ASSUME NEW D, IsFiniteSet(D), NEW f \in [D -> Nat]
    PROVE  SumFunction(f) \in Nat
<1> DEFINE Of(g, s) == IF s = {} THEN 0
                       ELSE LET x == CHOOSE x \in s : TRUE IN f[x] + g[s \ {x}]
           iter == CHOOSE iter : iter = [s \in SUBSET D |-> Of(iter, s)]
<1>1. SumFunction(f) = iter[D]
  BY DEF SumFunction, SumFunctionOnSet, FoldFunctionOnSet, MapThenFoldSet
<1>0. ASSUME NEW s \in SUBSET D
      PROVE  /\ IsFiniteSet(s) /\ Cardinality(s) \in Nat /\ Cardinality(s) <= Cardinality(D)
             /\ \A x \in s : Cardinality(s \ {x}) = Cardinality(s) - 1
  <2>1. IsFiniteSet(s)
    BY FS_Subset
  <2>2. Cardinality(s) <= Cardinality(D)
    BY FS_Subset
  <2> QED
    BY <2>1, <2>2, FS_CardinalityType, FS_EmptySet, FS_RemoveElement
<1>2. Cardinality(D) \in Nat
  BY FS_CardinalityType
<1>3. PICK g : Sums(g, f, D, Cardinality(D))
  BY <1>2, SumsExists
<1>4. {s \in SUBSET D : Cardinality(s) <= Cardinality(D)} = SUBSET D
  BY <1>0
<1>5. g = [s \in SUBSET D |-> Of(g, s)]
  BY <1>3, <1>4 DEF Sums
<1>6. iter = [s \in SUBSET D |-> Of(iter, s)]
  <2> HIDE DEF Of
  <2> QED
    BY <1>5
<1> HIDE DEF iter
<1>7. \A s \in SUBSET D : iter[s] \in Nat
  <2> DEFINE P == {Cardinality(s) : s \in {s \in SUBSET D : iter[s] \notin Nat}}
  <2>1. SUFFICES ASSUME P # {} PROVE FALSE
    OBVIOUS
  <2>2. PICK m \in P : \A q \in P : m <= q
    <3>1. P \subseteq Nat
      BY <1>0
    <3> HIDE DEF P
    <3> QED
      BY <2>1, <3>1, HasLeast
  <2>3. PICK s \in SUBSET D : iter[s] \notin Nat /\ m = Cardinality(s)
    BY <2>2
  <2>4. iter[s] = Of(iter, s)
    BY <1>6, <2>3
  <2>5. s # {}
    BY <2>3, <2>4
  <2> DEFINE x == CHOOSE x \in s : TRUE
  <2>6. x \in s /\ iter[s] = f[x] + iter[s \ {x}]
    BY <2>4, <2>5
  <2> HIDE DEF x
  <2>7. Cardinality(s \ {x}) = m - 1 /\ m \in Nat /\ s \ {x} \in SUBSET D
    BY <1>0, <2>3, <2>6
  <2>8. m - 1 \notin P
    BY <2>2, <2>7
  <2>9. iter[s \ {x}] \in Nat
    BY <2>7, <2>8
  <2>10. f[x] \in Nat
    BY <2>3, <2>6
  <2> QED
    BY <2>3, <2>6, <2>9, <2>10
<1> QED
  BY <1>1, <1>7

-----------------------------------------------------------------------------
(* Hashes *)

LEMMA PutIs ==
    ASSUME NEW hash, NEW k, NEW v
    PROVE  /\ DOMAIN Put(hash, k, v) = DOMAIN hash \cup {k}
           /\ Put(hash, k, v)[k] = v
           /\ \A j \in DOMAIN hash : j # k => Put(hash, k, v)[j] = hash[j]
           /\ Put(hash, k, v) = [j \in DOMAIN hash \cup {k} |-> IF j = k THEN v ELSE hash[j]]
BY DEF Put

(* A hash of dictionaries that holds the pairs S of a key and an entry     *)
Holds(hash, S) ==
    /\ \A k \in DOMAIN hash : /\ hash[k] \in [DOMAIN hash[k] -> Nat]
                              /\ DOMAIN hash[k] # {}
                              /\ \A x \in DOMAIN hash[k] : <<k, x>> \in S
    /\ \A p \in S : p[1] \in DOMAIN hash /\ p[2] \in DOMAIN hash[p[1]]

LEMMA HoldsOneMore ==
    ASSUME NEW hash, NEW S, Holds(hash, S), NEW k, NEW x, NEW n \in Nat
    PROVE  Holds(Put(hash, k, Counted(At(hash, k, Nothing), x, n)), S \cup {<<k, x>>})
<1> DEFINE inner == At(hash, k, Nothing)
           m == At(inner, x, 0) + n
           more == Put(inner, x, m)
           anew == Put(hash, k, more)
<1>1. inner \in [DOMAIN inner -> Nat]
  BY DEF Holds, At, Nothing
<1>2. \A y \in DOMAIN inner : <<k, y>> \in S
  BY DEF Holds, At, Nothing
<1>3. k \in DOMAIN hash => inner = hash[k]
  BY DEF At
<1> HIDE DEF inner
<1>4. m \in Nat
  BY <1>1 DEF At
<1> HIDE DEF m
<1>5. /\ DOMAIN more = DOMAIN inner \cup {x}
      /\ more = [y \in DOMAIN inner \cup {x} |-> IF y = x THEN m ELSE inner[y]]
  BY DEF Put
<1>6. more \in [DOMAIN more -> Nat]
  BY <1>1, <1>4, <1>5
<1>7. /\ DOMAIN anew = DOMAIN hash \cup {k} /\ anew[k] = more
      /\ \A j \in DOMAIN hash : j # k => anew[j] = hash[j]
  <2> HIDE DEF more
  <2> QED
    BY DEF Put
<1> HIDE DEF more, anew
<1>8. ASSUME NEW j \in DOMAIN anew
      PROVE  /\ anew[j] \in [DOMAIN anew[j] -> Nat]
             /\ DOMAIN anew[j] # {}
             /\ \A y \in DOMAIN anew[j] : <<j, y>> \in S \cup {<<k, x>>}
  <2>1. CASE j = k
    BY <1>2, <1>5, <1>6, <1>7, <2>1
  <2>2. CASE j # k
    BY <1>7, <2>2 DEF Holds
  <2> QED
    BY <2>1, <2>2
<1>9. ASSUME NEW p \in S \cup {<<k, x>>}
      PROVE  p[1] \in DOMAIN anew /\ p[2] \in DOMAIN anew[p[1]]
  <2>1. CASE p = <<k, x>>
    BY <1>5, <1>7, <2>1
  <2>2. CASE p \in S /\ p[1] = k
    BY <1>3, <1>5, <1>7, <2>2 DEF Holds
  <2>3. CASE p \in S /\ p[1] # k
    BY <1>7, <2>3 DEF Holds
  <2> QED
    BY <2>1, <2>2, <2>3
<1>10. Holds(anew, S \cup {<<k, x>>})
  BY <1>8, <1>9 DEF Holds
<1> QED
  BY <1>10 DEF anew, more, m, inner, Counted

-----------------------------------------------------------------------------
(* Flows read and features to store *)

Active == {"Client"} \cup IF analysis_direction = "all" THEN {"Server"} ELSE {}
Feature == {"tuple", "ips", "dport", "sport", "flow"}

SomeFeatures(s) ==
    /\ s \in Seq(Active \X Feature)
    /\ \A i, j \in 1..Len(s) : s[i] = s[j] => i = j

TodoOK ==
    /\ seen \in Seq(Flow)
    /\ SomeFeatures(todo)
    /\ todo # <<>> => seen # <<>>

(* The flows whose feature has been stored for a role *)
Done(role, feature) ==
    1..(Len(seen) - IF <<role, feature>> \in Range(todo) THEN 1 ELSE 0)

LEMMA FeaturesOfRole ==
    ASSUME NEW role
    PROVE  /\ Features(role) \in Seq({role} \X Feature)
           /\ Len(Features(role)) = 5
           /\ \A i, j \in 1..5 : Features(role)[i] = Features(role)[j] => i = j
           /\ \A f \in Feature : \E i \in 1..5 : Features(role)[i] = <<role, f>>
<1> DEFINE names == <<"tuple", "ips", "dport", "sport", "flow">>
<1>1. /\ names \in [1..5 -> Feature]
      /\ names[1] = "tuple" /\ names[2] = "ips" /\ names[3] = "dport"
      /\ names[4] = "sport" /\ names[5] = "flow"
  BY DEF Feature
<1>2. Features(role) = [i \in 1..5 |-> <<role, names[i]>>]
  BY DEF Features
<1> HIDE DEF names
<1>3. Features(role) \in [1..5 -> {role} \X Feature]
  BY <1>1, <1>2
<1>4. Features(role) \in Seq({role} \X Feature) /\ Len(Features(role)) = 5
  <2> DEFINE g == Features(role)
             E == {role} \X Feature
  <2>1. g \in [1..5 -> E]
    BY <1>3
  <2> HIDE DEF g, E
  <2>2. g \in Seq(E)
    BY <2>1, SeqDef
  <2>3. Len(g) \in Nat /\ 1..Len(g) = 1..5
    BY <2>1, <2>2, LenProperties
  <2>4. \A n \in Nat : 1..n = 1..5 => n = 5
    <3>1. ASSUME NEW n \in Nat, 1..n = 1..5 PROVE n = 5
      <4>1. 5 \in 1..n /\ (n >= 1 => n \in 1..n)
        BY <3>1
      <4>2. 5 <= n
        BY <4>1
      <4>3. n \in 1..5
        BY <3>1, <4>1, <4>2
      <4> QED
        BY <4>2, <4>3
    <3> QED
      BY <3>1
  <2>5. Len(g) = 5
    BY <2>3, <2>4
  <2> QED
    BY <2>2, <2>5 DEF g, E
<1>5. \A i, j \in 1..5 : names[i] = names[j] => i = j
  BY <1>1
<1>6. \A i, j \in 1..5 : Features(role)[i] = Features(role)[j] => i = j
  BY <1>2, <1>5
<1>7. ASSUME NEW f \in Feature PROVE \E i \in 1..5 : names[i] = f
  BY <1>1 DEF Feature
<1>8. \A f \in Feature : \E i \in 1..5 : Features(role)[i] = <<role, f>>
  BY <1>2, <1>7
<1> QED
  BY <1>4, <1>6, <1>8

LEMMA AllFeaturesIs ==
    /\ SomeFeatures(AllFeatures)
    /\ AllFeatures # <<>>
    /\ Range(AllFeatures) = Active \X Feature
<1> DEFINE c == Features("Client")
           s == Features("Server")
<1>1. /\ c \in Seq({"Client"} \X Feature) /\ Len(c) = 5
      /\ \A i, j \in 1..5 : c[i] = c[j] => i = j
      /\ \A f \in Feature : \E i \in 1..5 : c[i] = <<"Client", f>>
  BY FeaturesOfRole
<1>2. /\ s \in Seq({"Server"} \X Feature) /\ Len(s) = 5
      /\ \A i, j \in 1..5 : s[i] = s[j] => i = j
      /\ \A f \in Feature : \E i \in 1..5 : s[i] = <<"Server", f>>
  BY FeaturesOfRole
<1>3. /\ \A i \in 1..5 : c[i] \in {"Client"} \X Feature
      /\ \A i \in 1..5 : s[i] \in {"Server"} \X Feature
  BY <1>1, <1>2
<1>4. AllFeatures = c \o IF analysis_direction = "all" THEN s ELSE <<>>
  BY DEF AllFeatures
<1> HIDE DEF c, s
<1>5. CASE analysis_direction = "all"
  <2> DEFINE a == c \o s
  <2>1. AllFeatures = a
    BY <1>4, <1>5
  <2>2. Active = {"Client", "Server"}
    BY <1>5 DEF Active
  <2>3. c \in Seq(Active \X Feature) /\ s \in Seq(Active \X Feature)
    <3>1. ({"Client"} \X Feature) \subseteq Active \X Feature
      BY <2>2
    <3>2. ({"Server"} \X Feature) \subseteq Active \X Feature
      BY <2>2
    <3> QED
      BY <1>1, <1>2, <3>1, <3>2
  <2>4. /\ a \in Seq(Active \X Feature) /\ Len(a) = 10
        /\ \A i \in 1..10 : a[i] = IF i <= 5 THEN c[i] ELSE s[i - 5]
    <3>1. Len(c) = 5 /\ Len(s) = 5
      BY <1>1, <1>2
    <3> DEFINE E == Active \X Feature
    <3>2. c \in Seq(E) /\ s \in Seq(E)
      BY <2>3
    <3> HIDE DEF E
    <3>3. /\ a \in Seq(E) /\ Len(a) = Len(c) + Len(s)
          /\ \A i \in 1..(Len(c) + Len(s)) : a[i] = IF i <= Len(c) THEN c[i] ELSE s[i - Len(c)]
      BY <3>2, ConcatProperties
    <3> HIDE DEF a
    <3>4. Len(c) + Len(s) = 10
      BY <3>1
    <3> QED
      BY <3>1, <3>3, <3>4 DEF E
  <2> HIDE DEF a
  <2>5. ASSUME NEW i \in 1..10, NEW j \in 1..10, a[i] = a[j] PROVE i = j
    <3>1. CASE i <= 5 /\ j <= 5
      BY <1>1, <2>4, <2>5, <3>1
    <3>2. CASE i > 5 /\ j > 5
      <4>1. i - 5 \in 1..5 /\ j - 5 \in 1..5 /\ s[i - 5] = s[j - 5]
        BY <2>4, <2>5, <3>2
      <4>2. i - 5 = j - 5
        BY <1>2, <4>1
      <4> QED
        BY <4>2
    <3>3. CASE i <= 5 /\ j > 5
      <4>1. j - 5 \in 1..5 /\ i \in 1..5 /\ c[i] = s[j - 5]
        BY <2>4, <2>5, <3>3
      <4> QED
        BY <1>3, <4>1
    <3>4. CASE i > 5 /\ j <= 5
      <4>1. i - 5 \in 1..5 /\ j \in 1..5 /\ c[j] = s[i - 5]
        BY <2>4, <2>5, <3>4
      <4> QED
        BY <1>3, <4>1
    <3> QED
      BY <3>1, <3>2, <3>3, <3>4
  <2>6. ASSUME NEW f \in Feature
        PROVE  <<"Client", f>> \in Range(a) /\ <<"Server", f>> \in Range(a)
    <3>1. PICK i \in 1..5 : c[i] = <<"Client", f>>
      BY <1>1
    <3>2. PICK j \in 1..5 : s[j] = <<"Server", f>>
      BY <1>2
    <3>3. i \in 1..10 /\ a[i] = c[i]
      BY <2>4, <3>1
    <3>4. j + 5 \in 1..10 /\ j + 5 - 5 = j /\ a[j + 5] = s[j]
      <4>1. j + 5 \in 1..10 /\ ~ (j + 5 <= 5) /\ j + 5 - 5 = j
        OBVIOUS
      <4> QED
        BY <2>4, <4>1
    <3>5. DOMAIN a = 1..10
      BY <2>4
    <3> QED
      BY <3>1, <3>2, <3>3, <3>4, <3>5 DEF Range
  <2>7. Range(a) \subseteq Active \X Feature
    BY <2>4, RangeOfSeq
  <2>8. a # <<>>
    <3>1. Len(a) = 10
      BY <2>4
    <3> QED
      BY <3>1
  <2>9. SomeFeatures(a)
    <3>1. 1..Len(a) = 1..10 /\ a \in Seq(Active \X Feature)
      BY <2>4
    <3> QED
      BY <2>5, <3>1 DEF SomeFeatures
  <2>10. Range(a) = Active \X Feature
    <3>1. \A r \in Active, f \in Feature : <<r, f>> \in Range(a)
      BY <2>2, <2>6
    <3>2. (Active \X Feature) \subseteq Range(a)
      BY <3>1
    <3> QED
      BY <2>7, <3>2
  <2> QED
    BY <2>1, <2>8, <2>9, <2>10
<1>6. CASE analysis_direction # "all"
  <2>1. AllFeatures = c
    BY <1>1, <1>4, <1>6
  <2>2. Active = {"Client"}
    BY <1>6 DEF Active
  <2>3. Range(c) = Active \X Feature
    <3>1. DOMAIN c = 1..5
      BY <1>1
    <3>2. Range(c) \subseteq Active \X Feature
      BY <1>3, <2>2, <3>1 DEF Range
    <3>3. ASSUME NEW f \in Feature PROVE <<"Client", f>> \in Range(c)
      BY <1>1, <3>1, <3>3 DEF Range
    <3> QED
      BY <2>2, <3>2, <3>3
  <2>4. c # <<>>
    BY <1>1, EmptySeq
  <2> QED
    BY <1>1, <2>1, <2>2, <2>3, <2>4 DEF SomeFeatures
<1> QED
  BY <1>5, <1>6

(* The first of different elements goes, the others stay.                  *)
LEMMA StoringIs ==
    ASSUME TodoOK, NEW role, NEW feature, Storing(role, feature)
    PROVE  /\ TodoOK'
           /\ role \in Active /\ feature \in Feature
           /\ <<role, feature>> \in Range(todo)
           /\ \A x : x \in Range(todo') <=> x \in Range(todo) /\ x # <<role, feature>>
           /\ Len(seen) \in Nat \ {0} /\ seen' = seen
           /\ Current = seen[Len(seen)] /\ Current \in Flow
<1>1. /\ todo \in Seq(Active \X Feature) /\ todo # <<>> /\ todo' = Tail(todo)
      /\ \A i, j \in 1..Len(todo) : todo[i] = todo[j] => i = j
      /\ todo[1] = <<role, feature>>
      /\ seen' = seen /\ seen \in Seq(Flow) /\ seen # <<>>
  BY DEF Storing, TodoOK, SomeFeatures
<1> DEFINE n == Len(todo)
<1>2. n \in Nat /\ n >= 1 /\ 1 \in 1..n /\ DOMAIN todo = 1..n
  BY <1>1
<1>3. /\ todo' \in Seq(Active \X Feature) /\ Len(todo') = n - 1
      /\ \A i \in 1..(n-1) : todo'[i] = todo[i+1]
      /\ DOMAIN todo' = 1..(n-1)
  BY <1>1
<1>4. todo[1] \in Active \X Feature
  BY <1>1, <1>2
<1> HIDE DEF n
<1>5. ASSUME NEW i \in 1..(n-1), NEW j \in 1..(n-1), todo'[i] = todo'[j] PROVE i = j
  <2>1. i + 1 \in 1..n /\ j + 1 \in 1..n
    BY <1>2
  <2>2. todo[i+1] = todo[j+1]
    BY <1>3, <1>5
  <2>3. i + 1 = j + 1
    BY <1>1, <2>1, <2>2 DEF n
  <2> QED
    BY <2>3
<1>6. ASSUME NEW x
      PROVE  x \in Range(todo') <=> x \in Range(todo) /\ x # <<role, feature>>
  <2>1. ASSUME x \in Range(todo')
        PROVE  x \in Range(todo) /\ x # <<role, feature>>
    <3>1. PICK i \in 1..(n-1) : x = todo'[i]
      BY <1>3, <2>1 DEF Range
    <3>2. i + 1 \in 1..n /\ i + 1 # 1 /\ x = todo[i+1]
      BY <1>2, <1>3, <3>1
    <3>3. todo[i+1] # todo[1]
      BY <1>1, <1>2, <3>2 DEF n
    <3> QED
      BY <1>1, <1>2, <3>2, <3>3 DEF Range
  <2>2. ASSUME x \in Range(todo), x # <<role, feature>>
        PROVE  x \in Range(todo')
    <3>1. PICK i \in 1..n : x = todo[i]
      BY <1>2, <2>2 DEF Range
    <3>2. i # 1
      BY <1>1, <2>2, <3>1
    <3>3. i - 1 \in 1..(n-1) /\ i - 1 + 1 = i
      BY <1>2, <3>2
    <3>4. todo'[i-1] = x
      BY <1>3, <3>1, <3>3
    <3> QED
      BY <1>3, <3>3, <3>4 DEF Range
  <2> QED
    BY <2>1, <2>2
<1>7. TodoOK'
  <2>1. SomeFeatures(todo')
    BY <1>3, <1>5 DEF SomeFeatures
  <2> QED
    BY <1>1, <2>1 DEF TodoOK
<1>8. Len(seen) \in Nat \ {0} /\ seen[Len(seen)] \in Flow /\ Current = seen[Len(seen)]
  BY <1>1 DEF Current, Last
<1>9. <<role, feature>> \in Range(todo)
  BY <1>1, <1>2 DEF Range
<1> QED
  BY <1>1, <1>4, <1>6, <1>7, <1>8, <1>9

LEMMA StoringDone ==
    ASSUME TodoOK, NEW role, NEW feature, Storing(role, feature)
    PROVE  /\ Done(role, feature)' = Done(role, feature) \cup {Len(seen)}
           /\ \A r, f : <<r, f>> # <<role, feature>> => Done(r, f)' = Done(r, f)
BY StoringIs DEF Done

LEMMA ReadFlowDone ==
    ASSUME TodoOK, NEW f \in Flow, ReadFlow(f)
    PROVE  /\ TodoOK'
           /\ \A r \in Active, g \in Feature : Done(r, g)' = Done(r, g)
           /\ \A r \in Active, g \in Feature : \A i \in Done(r, g) : seen'[i] = seen[i]
           /\ Range(todo) = {} /\ Len(seen') = Len(seen) + 1
           /\ \A r \in Active, g \in Feature : <<r, g>> \in Range(todo')
<1>1. /\ todo = <<>> /\ todo' = AllFeatures /\ seen' = Append(seen, f)
      /\ seen \in Seq(Flow)
  BY DEF ReadFlow, TodoOK
<1>2. /\ seen' \in Seq(Flow) /\ Len(seen') = Len(seen) + 1 /\ Len(seen) \in Nat
      /\ seen' # <<>> /\ \A i \in 1..Len(seen) : seen'[i] = seen[i]
  BY <1>1, AppendProperties
<1>3. Range(todo) = {}
  BY <1>1 DEF Range
<1>4. TodoOK'
  BY <1>1, <1>2, AllFeaturesIs DEF TodoOK
<1>5. \A r \in Active, g \in Feature : <<r, g>> \in Range(todo')
  BY <1>1, AllFeaturesIs
<1>6. ASSUME NEW r \in Active, NEW g \in Feature
      PROVE  Done(r, g) = 1..Len(seen) /\ Done(r, g)' = 1..Len(seen)
  <2>1. <<r, g>> \notin Range(todo) /\ <<r, g>> \in Range(todo')
    BY <1>3, <1>5
  <2>2. Done(r, g) = 1..(Len(seen) - 0) /\ Done(r, g)' = 1..(Len(seen') - 1)
    BY <2>1 DEF Done
  <2> QED
    BY <1>2, <2>2
<1> QED
  BY <1>2, <1>3, <1>4, <1>5, <1>6

-----------------------------------------------------------------------------
(* The two views of a contact *)

IpKey(f, role) ==
    [window |-> WindowOf(f, role), role |-> role, proto |-> f.proto,
     state |-> StateOf(f), ip |-> PeerOf(f, role)]

PortKeyOf(f, role, type) ==
    [window |-> WindowOf(f, role), role |-> role, type |-> type, proto |-> f.proto,
     state |-> StateOf(f), port |-> IF type = "Dst" THEN f.dport ELSE f.sport]

FeatureOf(type) == IF type = "Dst" THEN "dport" ELSE "sport"
Types == {"Dst", "Src"}

(* The contacts stored by address and by port: those of the flows read, as *)
(* far as the feature has been stored                                      *)
IpContacts ==
    UNION {{<<IpKey(seen[i], r), seen[i].dport>> : i \in Done(r, "ips")} : r \in Active}

PortContacts ==
    UNION {UNION {{<<PortKeyOf(seen[i], r, t), seen[i].daddr>> :
                       i \in Done(r, FeatureOf(t))} : t \in Types} : r \in Active}

(* The two hashes hold the contacts of the flows read, no less, no more.   *)
FeatureInv ==
    /\ TodoOK
    /\ Holds(ips, IpContacts)
    /\ Holds(ports, PortContacts)

LEMMA InIpContacts ==
    \A p : p \in IpContacts <=>
        \E r \in Active : \E i \in Done(r, "ips") : p = <<IpKey(seen[i], r), seen[i].dport>>
BY DEF IpContacts

LEMMA InIpContactsNext ==
    \A p : p \in IpContacts' <=>
        \E r \in Active : \E i \in Done(r, "ips")' : p = <<IpKey(seen'[i], r), seen'[i].dport>>
BY DEF IpContacts

LEMMA InPortContacts ==
    \A p : p \in PortContacts <=>
        \E r \in Active, t \in Types : \E i \in Done(r, FeatureOf(t)) :
            p = <<PortKeyOf(seen[i], r, t), seen[i].daddr>>
BY DEF PortContacts

LEMMA InPortContactsNext ==
    \A p : p \in PortContacts' <=>
        \E r \in Active, t \in Types : \E i \in Done(r, FeatureOf(t))' :
            p = <<PortKeyOf(seen'[i], r, t), seen'[i].daddr>>
BY DEF PortContacts

LEMMA ReadFlowContacts ==
    ASSUME TodoOK, NEW f \in Flow, ReadFlow(f)
    PROVE  IpContacts' = IpContacts /\ PortContacts' = PortContacts
<1>1. /\ \A r \in Active, g \in Feature : Done(r, g)' = Done(r, g)
      /\ \A r \in Active, g \in Feature : \A i \in Done(r, g) : seen'[i] = seen[i]
  BY ReadFlowDone
<1>2. "ips" \in Feature /\ \A t \in Types : FeatureOf(t) \in Feature
  BY DEF Feature, Types, FeatureOf
<1>3. \A p : p \in IpContacts' <=> p \in IpContacts
  BY <1>1, <1>2, InIpContacts, InIpContactsNext
<1>4. \A p : p \in PortContacts' <=> p \in PortContacts
  BY <1>1, <1>2, InPortContacts, InPortContactsNext
<1> QED
  BY <1>3, <1>4

LEMMA StoringContacts ==
    ASSUME TodoOK, NEW role, NEW feature, Storing(role, feature)
    PROVE  /\ IpContacts' = IF feature = "ips"
                            THEN IpContacts \cup {<<IpKey(Current, role), Current.dport>>}
                            ELSE IpContacts
           /\ feature \notin {"dport", "sport"} => PortContacts' = PortContacts
           /\ \A t \in Types : feature = FeatureOf(t) =>
                 PortContacts' = PortContacts \cup {<<PortKeyOf(Current, role, t), Current.daddr>>}
<1>1. /\ Done(role, feature)' = Done(role, feature) \cup {Len(seen)}
      /\ \A r, f : <<r, f>> # <<role, feature>> => Done(r, f)' = Done(r, f)
  BY StoringDone
<1>2. role \in Active /\ seen' = seen /\ Current = seen[Len(seen)]
  BY StoringIs
<1>3. ASSUME feature = "ips"
      PROVE  IpContacts' = IpContacts \cup {<<IpKey(Current, role), Current.dport>>}
  <2>1. \A p : p \in IpContacts' <=>
                 p \in IpContacts \/ p = <<IpKey(Current, role), Current.dport>>
    BY <1>1, <1>2, <1>3, InIpContacts, InIpContactsNext
  <2> QED
    BY <2>1
<1>4. ASSUME feature # "ips" PROVE IpContacts' = IpContacts
  <2>1. \A p : p \in IpContacts' <=> p \in IpContacts
    BY <1>1, <1>2, <1>4, InIpContacts, InIpContactsNext
  <2> QED
    BY <2>1
<1>5. ASSUME feature \notin {"dport", "sport"} PROVE PortContacts' = PortContacts
  <2>1. \A t \in Types : FeatureOf(t) # feature
    BY <1>5 DEF Types, FeatureOf
  <2>2. \A p : p \in PortContacts' <=> p \in PortContacts
    BY <1>1, <1>2, <2>1, InPortContacts, InPortContactsNext
  <2> QED
    BY <2>2
<1>6. ASSUME NEW t \in Types, feature = FeatureOf(t)
      PROVE  PortContacts' = PortContacts \cup {<<PortKeyOf(Current, role, t), Current.daddr>>}
  <2>1. \A u \in Types : FeatureOf(u) = feature <=> u = t
    BY <1>6 DEF Types, FeatureOf
  <2>2. \A p : p \in PortContacts' <=>
                 p \in PortContacts \/ p = <<PortKeyOf(Current, role, t), Current.daddr>>
    BY <1>1, <1>2, <1>6, <2>1, InPortContacts, InPortContactsNext
  <2> QED
    BY <2>2
<1> QED
  BY <1>3, <1>4, <1>5, <1>6

LEMMA FeatureInit ==
    FeaturesInit => FeatureInv
<1> SUFFICES ASSUME FeaturesInit PROVE FeatureInv
  OBVIOUS
<1>1. seen = <<>> /\ todo = <<>> /\ ips = Nothing /\ ports = Nothing
  BY DEF FeaturesInit
<1>2. SomeFeatures(todo) /\ seen \in Seq(Flow)
  BY <1>1 DEF SomeFeatures
<1>3. \A r, f : Done(r, f) = {}
  BY <1>1 DEF Done
<1>4. IpContacts = {} /\ PortContacts = {}
  BY <1>3, InIpContacts, InPortContacts
<1>5. DOMAIN Nothing = {}
  BY DEF Nothing
<1>6. Holds(ips, IpContacts) /\ Holds(ports, PortContacts)
  BY <1>1, <1>4, <1>5 DEF Holds
<1> QED
  BY <1>1, <1>2, <1>6 DEF FeatureInv, TodoOK

LEMMA StoreFeatureKeeps ==
    ASSUME FeatureInv, StoreFeature
    PROVE  FeatureInv'
<1>1. TodoOK
  BY DEF FeatureInv
<1>2. ASSUME NEW role, NEW feature, Storing(role, feature), UNCHANGED <<ips, ports>>,
             feature \in {"tuple", "flow"}
      PROVE  FeatureInv'
  <2>1. IpContacts' = IpContacts /\ PortContacts' = PortContacts /\ TodoOK'
    BY <1>1, <1>2, StoringContacts, StoringIs
  <2> QED
    BY <1>2, <2>1 DEF FeatureInv, Holds
<1>3. ASSUME NEW role, add_ips(role) PROVE FeatureInv'
  <2>1. Storing(role, "ips") /\ ports' = ports
    BY <1>3 DEF add_ips
  <2>2. /\ IpContacts' = IpContacts \cup {<<IpKey(Current, role), Current.dport>>}
        /\ PortContacts' = PortContacts /\ TodoOK'
    BY <1>1, <2>1, StoringContacts, StoringIs
  <2>3. ips' = Put(ips, IpKey(Current, role),
                   Counted(At(ips, IpKey(Current, role), Nothing), Current.dport, Current.dpkts))
    BY <1>3 DEF add_ips, IpKey
  <2>4. Current.dpkts \in Nat
    BY <1>1, <2>1, StoringIs, FlowFeaturesAssumption
  <2>5. Holds(ips', IpContacts')
    BY <2>2, <2>3, <2>4, HoldsOneMore DEF FeatureInv
  <2> QED
    BY <2>1, <2>2, <2>5 DEF FeatureInv, Holds
<1>4. ASSUME NEW role, NEW t \in Types, add_port(role, t) PROVE FeatureInv'
  <2>1. Storing(role, FeatureOf(t)) /\ ips' = ips
    BY <1>4 DEF add_port, FeatureOf
  <2>2. FeatureOf(t) # "ips"
    BY DEF FeatureOf
  <2>3. /\ PortContacts' = PortContacts \cup {<<PortKeyOf(Current, role, t), Current.daddr>>}
        /\ IpContacts' = IpContacts /\ TodoOK'
    <3>1. TodoOK'
      BY <1>1, <2>1, StoringIs
    <3>2. IpContacts' = IpContacts
      BY <1>1, <2>1, <2>2, StoringContacts
    <3>3. PortContacts' = PortContacts \cup {<<PortKeyOf(Current, role, t), Current.daddr>>}
      BY <1>1, <2>1, StoringContacts
    <3> QED
      BY <3>1, <3>2, <3>3
  <2>4. ports' = Put(ports, PortKeyOf(Current, role, t),
                     Counted(At(ports, PortKeyOf(Current, role, t), Nothing),
                             Current.daddr, Current.pkts))
    BY <1>4 DEF add_port, PortKeyOf
  <2>5. Current.pkts \in Nat
    BY <1>1, <2>1, StoringIs, FlowFeaturesAssumption
  <2>6. Holds(ports', PortContacts')
    BY <2>3, <2>4, <2>5, HoldsOneMore DEF FeatureInv
  <2> QED
    BY <2>1, <2>3, <2>6 DEF FeatureInv, Holds
<1>5. ASSUME NEW role, add_tuple(role) PROVE FeatureInv'
  BY <1>2, <1>5 DEF add_tuple
<1>6. ASSUME NEW role, add_flow(role) PROVE FeatureInv'
  BY <1>2, <1>6 DEF add_flow, tables
<1> QED
  BY <1>3, <1>4, <1>5, <1>6 DEF StoreFeature, Types

LEMMA FeatureNext ==
    ASSUME FeatureInv, [Next]_vars
    PROVE  FeatureInv'
<1>1. ASSUME NEW f \in Flow, ReadFlow(f) PROVE FeatureInv'
  <2>1. IpContacts' = IpContacts /\ PortContacts' = PortContacts /\ TodoOK'
    BY <1>1, ReadFlowContacts, ReadFlowDone DEF FeatureInv
  <2>2. ips' = ips /\ ports' = ports
    BY <1>1 DEF ReadFlow, tables
  <2> QED
    BY <2>1, <2>2 DEF FeatureInv, Holds
<1>2. ASSUME UNCHANGED <<seen, todo, ips, ports>> PROVE FeatureInv'
  <2>1. TodoOK'
    BY <1>2 DEF FeatureInv, TodoOK
  <2>2. IpContacts' = IpContacts /\ PortContacts' = PortContacts
    BY <1>2 DEF IpContacts, PortContacts, Done
  <2> QED
    BY <1>2, <2>1, <2>2 DEF FeatureInv, Holds
<1>3. CASE Detector
  BY <1>2, <1>3 DEF Detector, Message, Read, Check, featureVars, tables
<1>4. CASE \E ip \in Ip : Resolve(ip)
  BY <1>2, <1>4 DEF Resolve, featureVars, tables
<1>5. CASE UNCHANGED vars
  BY <1>2, <1>5 DEF vars, featureVars, tables
<1> QED
  BY <1>1, <1>3, <1>4, <1>5, StoreFeatureKeeps DEF Next

LEMMA FeatureInvariance == Spec => []FeatureInv
<1>1. Init => FeatureInv
  BY FeatureInit DEF Init
<1>2. FeatureInv /\ [Next]_vars => FeatureInv'
  BY FeatureNext
<1> QED
  BY <1>1, <1>2, PTL DEF Spec

LEMMA AllDone ==
    ASSUME todo = <<>>
    PROVE  \A r, f : Done(r, f) = 1..Len(seen)
<1>1. Range(todo) = {}
  BY DEF Range
<1> QED
  BY <1>1 DEF Done

LEMMA InPairs ==
    ASSUME NEW hash, NEW K
    PROVE  \A x : x \in Pairs(hash, K) <=> \E k \in K : \E y \in DOMAIN hash[k] : x = <<k, y>>
BY DEF Pairs

(* Once all features of a flow are stored, the contacts of clients are the *)
(* same by port and by address (see ViewsAgree), for any flows.            *)
THEOREM ViewsAreTheSame == Spec => []ViewsAgree
<1>1. FeatureInv => ViewsAgree
  <2> SUFFICES ASSUME FeatureInv, todo = <<>> PROVE ViewsAgree
    BY DEF ViewsAgree
  <2> DEFINE contact(f) == <<WindowOf(f, "Client"), f.proto, StateOf(f), f.dport, f.daddr>>
             all == {contact(seen[i]) : i \in 1..Len(seen)}
             K == {k \in DOMAIN ports : k.role = "Client" /\ k.type = "Dst"}
             J == {k \in DOMAIN ips : k.role = "Client"}
             byPort == {<<x[1].window, x[1].proto, x[1].state, x[1].port, x[2]>> :
                            x \in Pairs(ports, K)}
             byIp == {<<x[1].window, x[1].proto, x[1].state, x[2], x[1].ip>> :
                            x \in Pairs(ips, J)}
  <2>1. \A r, f : Done(r, f) = 1..Len(seen)
    BY AllDone
  <2>2. "Client" \in Active /\ "Dst" \in Types
    BY DEF Active, Types
  <2>3. byPort = all
    <3>1. ASSUME NEW x \in Pairs(ports, K)
          PROVE  <<x[1].window, x[1].proto, x[1].state, x[1].port, x[2]>> \in all
      <4>1. PICK k \in K : \E y \in DOMAIN ports[k] : x = <<k, y>>
        BY InPairs
      <4>2. PICK y \in DOMAIN ports[k] : x = <<k, y>>
        BY <4>1
      <4>3. <<k, y>> \in PortContacts
        BY <4>1, <4>2 DEF FeatureInv, Holds
      <4>4. PICK r \in Active, t \in Types, i \in 1..Len(seen) :
                 <<k, y>> = <<PortKeyOf(seen[i], r, t), seen[i].daddr>>
        BY <2>1, <4>3, InPortContacts
      <4>5. r = "Client" /\ t = "Dst"
        BY <4>1, <4>4 DEF PortKeyOf
      <4>6. /\ k.window = WindowOf(seen[i], "Client") /\ k.proto = seen[i].proto
            /\ k.state = StateOf(seen[i]) /\ k.port = seen[i].dport /\ y = seen[i].daddr
        BY <4>4, <4>5 DEF PortKeyOf
      <4>7. <<x[1].window, x[1].proto, x[1].state, x[1].port, x[2]>> = contact(seen[i])
        BY <4>2, <4>6
      <4> QED
        BY <4>7
    <3>2. ASSUME NEW i \in 1..Len(seen)
          PROVE  contact(seen[i]) \in byPort
      <4> DEFINE k == PortKeyOf(seen[i], "Client", "Dst")
                 x == <<k, seen[i].daddr>>
      <4>1. x \in PortContacts
        BY <2>1, <2>2, InPortContacts
      <4>2. k \in DOMAIN ports /\ seen[i].daddr \in DOMAIN ports[k]
        BY <4>1 DEF FeatureInv, Holds
      <4>3. k \in K
        BY <4>2 DEF PortKeyOf
      <4>4. /\ k.window = WindowOf(seen[i], "Client") /\ k.proto = seen[i].proto
            /\ k.state = StateOf(seen[i]) /\ k.port = seen[i].dport
        BY DEF PortKeyOf
      <4> HIDE DEF K, k
      <4>5. x \in Pairs(ports, K)
        BY <4>2, <4>3, InPairs
      <4>6. contact(seen[i]) = <<x[1].window, x[1].proto, x[1].state, x[1].port, x[2]>>
        BY <4>4
      <4> QED
        BY <4>5, <4>6
    <3> HIDE DEF K, contact
    <3> QED
      BY <3>1, <3>2
  <2>4. byIp = all
    <3>1. ASSUME NEW x \in Pairs(ips, J)
          PROVE  <<x[1].window, x[1].proto, x[1].state, x[2], x[1].ip>> \in all
      <4>1. PICK k \in J : \E y \in DOMAIN ips[k] : x = <<k, y>>
        BY InPairs
      <4>2. PICK y \in DOMAIN ips[k] : x = <<k, y>>
        BY <4>1
      <4>3. <<k, y>> \in IpContacts
        BY <4>1, <4>2 DEF FeatureInv, Holds
      <4>4. PICK r \in Active, i \in 1..Len(seen) :
                 <<k, y>> = <<IpKey(seen[i], r), seen[i].dport>>
        BY <2>1, <4>3, InIpContacts
      <4>5. r = "Client"
        BY <4>1, <4>4 DEF IpKey
      <4>6. /\ k.window = WindowOf(seen[i], "Client") /\ k.proto = seen[i].proto
            /\ k.state = StateOf(seen[i]) /\ k.ip = seen[i].daddr /\ y = seen[i].dport
        BY <4>4, <4>5 DEF IpKey, PeerOf
      <4>7. <<x[1].window, x[1].proto, x[1].state, x[2], x[1].ip>> = contact(seen[i])
        BY <4>2, <4>6
      <4> QED
        BY <4>7
    <3>2. ASSUME NEW i \in 1..Len(seen)
          PROVE  contact(seen[i]) \in byIp
      <4> DEFINE k == IpKey(seen[i], "Client")
                 x == <<k, seen[i].dport>>
      <4>1. x \in IpContacts
        BY <2>1, <2>2, InIpContacts
      <4>2. k \in DOMAIN ips /\ seen[i].dport \in DOMAIN ips[k]
        BY <4>1 DEF FeatureInv, Holds
      <4>3. k \in J
        BY <4>2 DEF IpKey
      <4>4. /\ k.window = WindowOf(seen[i], "Client") /\ k.proto = seen[i].proto
            /\ k.state = StateOf(seen[i]) /\ k.ip = seen[i].daddr
        BY DEF IpKey, PeerOf
      <4> HIDE DEF J, k
      <4>5. x \in Pairs(ips, J)
        BY <4>2, <4>3, InPairs
      <4>6. contact(seen[i]) = <<x[1].window, x[1].proto, x[1].state, x[2], x[1].ip>>
        BY <4>4
      <4> QED
        BY <4>5, <4>6
    <3> HIDE DEF J, contact
    <3> QED
      BY <3>1, <3>2
  <2> HIDE DEF all
  <2> QED
    BY <2>3, <2>4 DEF ViewsAgree
<1> QED
  BY <1>1, FeatureInvariance, PTL

-----------------------------------------------------------------------------
(* Letters *)

(* What LettersMatchHistory says of one letter                             *)
Matches(s, h, i) ==
    /\ s.letter = <<Regularity(h, i), h[i].bytes, h[i].dur>>
    /\ s.zeros > 0 => i > 2 /\ h[i].ts - h[i-1].ts >= tto
    /\ s.timechar = "" <=> (i = 1 \/ h[i].ts - h[i-1].ts > tto)

(* The two timestamps that are kept of a history                           *)
TimesOf(h) == <<IF Len(h) > 1 THEN h[Len(h)-1].ts ELSE 0, IF Len(h) > 0 THEN h[Len(h)].ts ELSE 0>>

Symbols == {compute_symbol(f, t) : f \in Flow, t \in Nat \X Nat}

LEMMA PeriodicityIs ==
    ASSUME NEW a \in Int, NEW b \in Int
    PROVE  LET Within(percent) == 100 * a <= percent * b /\ 100 * b <= percent * a
           IN  compute_periodicity(a, b) =
                 IF a <= 0 \/ b <= 0 \/ Within(105) THEN 1
                 ELSE IF Within(130) THEN 2 ELSE IF Within(500) THEN 3 ELSE 4
<1>1. CASE b >= a
  BY <1>1 DEF compute_periodicity
<1>2. CASE b < a
  BY <1>2 DEF compute_periodicity
<1> QED
  BY <1>1, <1>2

LEMMA TimecharIs ==
    ASSUME NEW t \in Int
    PROVE  compute_timechar(t) = "" <=> t > tto
BY DEF compute_timechar, tto

(* The letter of a flow, from no more than two timestamps                  *)
LEMMA SymbolMatches ==
    ASSUME NEW h \in Seq(Flow), NEW f \in Flow
    PROVE  /\ Matches(compute_symbol(f, TimesOf(h)), Append(h, f), Len(h) + 1)
           /\ TimesOf(h) \in Nat \X Nat
           /\ TimesOf(Append(h, f)) = NewTimes(TimesOf(h), f.ts)
<1> DEFINE n == Len(h)
           g == Append(h, f)
<1>1. n \in Nat /\ g[n+1] = f /\ Len(g) = n + 1 /\ \A i \in 1..n : g[i] = h[i] /\ h[i] \in Flow
  BY AppendProperties
<1>2. f.ts \in Nat \ {0} /\ \A i \in 1..n : h[i].ts \in Nat \ {0}
  BY <1>1, FlowFeaturesAssumption
<1> HIDE DEF g
<1> DEFINE s == compute_symbol(f, TimesOf(h))
<1>3. CASE n = 0
  <2>1. TimesOf(h) = <<0, 0>>
    BY <1>3 DEF TimesOf
  <2>2. s.zeros = 0 /\ s.letter = <<-1, f.bytes, f.dur>> /\ s.timechar = ""
    BY <2>1 DEF compute_symbol
  <2> HIDE DEF s
  <2>3. Regularity(g, 1) = -1
    BY DEF Regularity
  <2>4. g[1] = f
    BY <1>1, <1>3
  <2>5. Matches(s, g, 1)
    <3>1. s.letter = <<Regularity(g, 1), g[1].bytes, g[1].dur>>
      BY <2>2, <2>3, <2>4
    <3>0. s.zeros = 0
      BY <2>2
    <3>2. s.zeros > 0 => 1 > 2 /\ g[1].ts - g[1-1].ts >= tto
      BY <3>0
    <3>3. s.timechar = "" <=> (1 = 1 \/ g[1].ts - g[1-1].ts > tto)
      BY <2>2
    <3> QED
      BY <3>1, <3>2, <3>3 DEF Matches
  <2>6. TimesOf(g) = <<0, f.ts>>
    BY <1>1, <1>3, <2>4 DEF TimesOf
  <2> QED
    BY <1>3, <2>1, <2>5, <2>6 DEF NewTimes, g, s
<1>4. CASE n = 1
  <2>0. n \in 1..n
    BY <1>4
  <2>1. TimesOf(h) = <<0, h[1].ts>> /\ h[1].ts \in Nat \ {0} /\ g[1] = h[1]
    BY <1>1, <1>2, <1>4, <2>0 DEF TimesOf
  <2> DEFINE b == f.ts - h[1].ts
  <2>2. s.zeros = 0 /\ s.letter = <<-1, f.bytes, f.dur>> /\ s.timechar = compute_timechar(b)
    <3>1. TimesOf(h)[1] = 0 /\ TimesOf(h)[2] = h[1].ts /\ h[1].ts # 0
      BY <2>1
    <3> QED
      BY <3>1 DEF compute_symbol
  <2> HIDE DEF s
  <2>3. Regularity(g, 2) = -1
    BY DEF Regularity
  <2>4. b \in Int
    BY <1>2, <2>1
  <2>5. compute_timechar(b) = "" <=> b > tto
    BY <2>4, TimecharIs
  <2>6. Matches(s, g, 2)
    <3>1. g[2] = f /\ g[2 - 1] = h[1] /\ g[2].ts - g[2 - 1].ts = b
      BY <1>1, <1>4, <2>1
    <3> HIDE DEF b
    <3>2. s.letter = <<Regularity(g, 2), g[2].bytes, g[2].dur>>
      BY <2>2, <2>3, <3>1
    <3>0. s.zeros = 0
      BY <2>2
    <3>3. s.zeros > 0 => 2 > 2 /\ g[2].ts - g[2-1].ts >= tto
      BY <3>0
    <3>5. s.timechar = "" <=> b > tto
      BY <2>2, <2>5
    <3>6. (g[2].ts - g[2-1].ts > tto) = (b > tto)
      BY <3>1
    <3>7. 2 # 1
      OBVIOUS
    <3>4. s.timechar = "" <=> (2 = 1 \/ g[2].ts - g[2-1].ts > tto)
      BY <3>5, <3>6, <3>7
    <3> QED
      BY <3>2, <3>3, <3>4 DEF Matches
  <2>7. TimesOf(g) = <<h[1].ts, f.ts>>
    BY <1>1, <1>4, <2>1 DEF TimesOf
  <2> QED
    BY <1>4, <2>1, <2>6, <2>7 DEF NewTimes, g, s
<1>5. CASE n > 1
  <2>0. n \in 1..n /\ n - 1 \in 1..n /\ (n + 1) - 1 = n /\ (n + 1) - 2 = n - 1
    BY <1>1, <1>5
  <2> DEFINE p == h[n-1].ts
             q == h[n].ts
             a == q - p
             b == f.ts - q
  <2>1. p \in Nat \ {0} /\ q \in Nat \ {0} /\ g[n] = h[n] /\ g[n-1] = h[n-1]
    BY <1>1, <1>2, <2>0
  <2>2. TimesOf(h) = <<p, q>>
    BY <1>1, <1>5 DEF TimesOf
  <2> HIDE DEF p, q
  <2>3. a \in Int /\ b \in Int
    BY <1>2, <2>1
  <2>4. /\ g[n+1] = f /\ g[(n+1)-1] = h[n] /\ g[(n+1)-2] = h[n-1]
        /\ g[(n+1)-1].ts - g[(n+1)-2].ts = a /\ g[n+1].ts - g[(n+1)-1].ts = b
    BY <1>1, <2>0, <2>1 DEF p, q
  <2>5. /\ s.zeros > 0 => b >= tto
        /\ s.letter = <<compute_periodicity(a, b), f.bytes, f.dur>>
        /\ s.timechar = compute_timechar(b)
    <3>1. TimesOf(h)[1] = p /\ TimesOf(h)[2] = q /\ p # 0 /\ q # 0
      BY <2>1, <2>2
    <3> QED
      BY <3>1 DEF compute_symbol
  <2> HIDE DEF s
  <2>6. Regularity(g, n+1) = compute_periodicity(a, b)
    <3>1. ~ (n + 1 <= 2)
      BY <1>1, <1>5
    <3> DEFINE Within(percent) == 100 * a <= percent * b /\ 100 * b <= percent * a
               class == IF a <= 0 \/ b <= 0 \/ Within(105) THEN 1
                        ELSE IF Within(130) THEN 2 ELSE IF Within(500) THEN 3 ELSE 4
    <3> HIDE DEF a, b
    <3>2. Regularity(g, n+1) = class
      BY <2>4, <3>1 DEF Regularity
    <3>3. compute_periodicity(a, b) = class
      BY <2>3, PeriodicityIs
    <3> QED
      BY <3>2, <3>3
  <2>7. compute_timechar(b) = "" <=> b > tto
    BY <2>3, TimecharIs
  <2>8. Matches(s, g, n + 1)
    <3>1. n + 1 > 2 /\ n + 1 # 1
      BY <1>1, <1>5
    <3> HIDE DEF a, b
    <3>2. s.letter = <<Regularity(g, n+1), g[n+1].bytes, g[n+1].dur>>
      BY <2>4, <2>5, <2>6
    <3>3. s.zeros > 0 => n + 1 > 2 /\ g[n+1].ts - g[(n+1)-1].ts >= tto
      BY <2>4, <2>5, <3>1
    <3>4. s.timechar = "" <=> (n + 1 = 1 \/ g[n+1].ts - g[(n+1)-1].ts > tto)
      BY <2>4, <2>5, <2>7, <3>1
    <3> HIDE DEF n
    <3> QED
      BY <3>2, <3>3, <3>4 DEF Matches
  <2>9. TimesOf(g) = <<q, f.ts>>
    <3>1. Len(g) > 1 /\ Len(g) > 0 /\ Len(g) - 1 = n /\ Len(g) = n + 1
      BY <1>1, <1>5
    <3> QED
      BY <1>1, <2>1, <3>1 DEF TimesOf, q
  <2>10. TimesOf(h) \in Nat \X Nat /\ NewTimes(TimesOf(h), f.ts) = <<q, f.ts>>
    BY <2>1, <2>2 DEF NewTimes
  <2>11. TimesOf(g) = NewTimes(TimesOf(h), f.ts) /\ TimesOf(h) \in Nat \X Nat
    BY <2>9, <2>10
  <2> QED
    BY <2>8, <2>11 DEF g, s
<1>6. n = 0 \/ n = 1 \/ n > 1
  <2>1. n \in Nat
    BY <1>1
  <2> HIDE DEF n
  <2> QED
    BY <2>1
<1> QED
  BY <1>3, <1>4, <1>5, <1>6

LEMMA FrontIs ==
    ASSUME NEW S, NEW s \in Seq(S), s # <<>>
    PROVE  Front(s) \in Seq(S) /\ s = Append(Front(s), s[Len(s)])
<1> DEFINE n == Len(s)
           g == Front(s)
<1>1. n \in Nat /\ n >= 1 /\ s[n] \in S
  OBVIOUS
<1>2. g \in Seq(S) /\ Len(g) = n - 1 /\ \A i \in 1..(n-1) : g[i] = s[i]
  <2>1. g = SubSeq(s, 1, n - 1) /\ n - 1 \in Int /\ 1 \in Int
    BY <1>1 DEF Front
  <2>2. \A i \in 1..(n-1) : s[i] \in S
    BY <1>1
  <2> HIDE DEF g, n
  <2>3. /\ g \in Seq(S) /\ Len(g) = IF 1 <= n - 1 THEN (n - 1) - 1 + 1 ELSE 0
        /\ \A i \in 1..(n - 1) - 1 + 1 : g[i] = s[1 + i - 1]
    BY <2>1, <2>2, SubSeqProperties
  <2>4. (n - 1) - 1 + 1 = n - 1 /\ (~ (1 <= n - 1) => n - 1 = 0)
    BY <1>1
  <2>5. \A i \in 1..(n-1) : 1 + i - 1 = i
    BY <1>1
  <2> QED
    BY <2>3, <2>4, <2>5
<1> HIDE DEF g
<1> DEFINE t == Append(g, s[n])
<1>4. t \in Seq(S) /\ Len(t) = n /\ \A i \in 1..n : t[i] = s[i]
  BY <1>1, <1>2
<1> HIDE DEF t
<1>5. t = s
  BY <1>4, SeqEqual
<1> QED
  BY <1>2, <1>5 DEF g, t

LEMMA FrontOfAppend ==
    ASSUME NEW S, NEW s \in Seq(S), NEW e \in S
    PROVE  Front(Append(s, e)) = s
<1> DEFINE t == Append(s, e)
<1>1. t \in Seq(S) /\ Len(t) = Len(s) + 1 /\ \A i \in 1..Len(s) : t[i] = s[i]
  BY AppendProperties
<1> HIDE DEF t
<1>2. Front(t) = SubSeq(t, 1, Len(s))
  BY <1>1 DEF Front
<1>3. SubSeq(t, 1, Len(s)) \in Seq(S) /\ Len(SubSeq(t, 1, Len(s))) = Len(s)
      /\ \A i \in 1..Len(s) : SubSeq(t, 1, Len(s))[i] = s[i]
  BY <1>1
<1>4. SubSeq(t, 1, Len(s)) = s
  BY <1>3, SeqEqual
<1> QED
  BY <1>2, <1>4 DEF t

SameTuple(k) == {f \in Flow : TupleKey(f, k.role) = k}

(* Letters and timestamps of a tuple are those of its history, and only    *)
(* tuples without a history are not stored.                                *)
LettersOf(k) ==
    LET h == HistoryOf(k)
        letters == tuples[k].letters
    IN  /\ k.role \in Active
        /\ letters \in Seq(Symbols) /\ letters # <<>>
        /\ Len(letters) = Len(h)
        /\ tuples[k].times = TimesOf(h)
        /\ \A i \in 1..Len(h) : Matches(letters[i], h, i)

LettersInv ==
    /\ \A k \in DOMAIN tuples : LettersOf(k)
    /\ \A f \in Flow, r \in Active :
          TupleKey(f, r) \notin DOMAIN tuples => HistoryOf(TupleKey(f, r)) = <<>>

LEMMA HistoryIs ==
    ASSUME TodoOK, NEW k
    PROVE  /\ HistoryOf(k) \in Seq(Flow)
           /\ <<k.role, "tuple">> \notin Range(todo) => HistoryOf(k) = Those(seen, SameTuple(k))
           /\ <<k.role, "tuple">> \in Range(todo) => HistoryOf(k) = Those(Front(seen), SameTuple(k))
<1> DEFINE done == IF <<k.role, "tuple">> \in Range(todo) THEN Front(seen) ELSE seen
<1>1. seen \in Seq(Flow)
  BY DEF TodoOK
<1>2. <<k.role, "tuple">> \in Range(todo) => seen # <<>>
  BY DEF TodoOK, Range
<1>3. HistoryOf(k) = Those(done, SameTuple(k))
  BY DEF HistoryOf, SameTuple
<1>4. done \in Seq(Flow)
  BY <1>1, <1>2, FrontIs
<1>5. HistoryOf(k) \in Seq(Flow)
  <2> HIDE DEF done
  <2> QED
    BY <1>3, <1>4, ThoseType
<1> QED
  BY <1>3, <1>5

LEMMA ReadFlowHistory ==
    ASSUME TodoOK, NEW f \in Flow, ReadFlow(f), NEW k, k.role \in Active
    PROVE  HistoryOf(k)' = HistoryOf(k)
<1>1. seen' = Append(seen, f) /\ seen \in Seq(Flow)
  BY DEF ReadFlow, TodoOK
<1>2. "tuple" \in Feature
  BY DEF Feature
<1>3. <<k.role, "tuple">> \notin Range(todo) /\ <<k.role, "tuple">> \in Range(todo')
  BY <1>2, ReadFlowDone
<1>4. Front(seen') = seen
  BY <1>1, FrontOfAppend
<1>5. HistoryOf(k)' = Those(Front(seen'), SameTuple(k))
  BY <1>3 DEF HistoryOf, SameTuple
<1> QED
  BY <1>3, <1>4, <1>5, HistoryIs

LEMMA StoringHistory ==
    ASSUME TodoOK, NEW role, NEW feature, Storing(role, feature), NEW k
    PROVE  HistoryOf(k)' = IF feature = "tuple" /\ k = TupleKey(Current, role)
                           THEN Append(HistoryOf(k), Current) ELSE HistoryOf(k)
<1>1. /\ <<role, feature>> \in Range(todo) /\ seen' = seen
      /\ \A x : x \in Range(todo') <=> x \in Range(todo) /\ x # <<role, feature>>
      /\ seen \in Seq(Flow) /\ Len(seen) \in Nat \ {0}
      /\ Current = seen[Len(seen)] /\ Current \in Flow
  BY StoringIs DEF TodoOK
<1>2. TupleKey(Current, role).role = role
  BY DEF TupleKey
<1>3. CASE ~ (feature = "tuple" /\ k.role = role)
  <2>1. <<k.role, "tuple">> \in Range(todo') <=> <<k.role, "tuple">> \in Range(todo)
    BY <1>1, <1>3
  <2>2. HistoryOf(k)' = HistoryOf(k)
    BY <1>1, <2>1 DEF HistoryOf
  <2> QED
    BY <1>2, <1>3, <2>2
<1>4. CASE feature = "tuple" /\ k.role = role
  <2>1. <<k.role, "tuple">> \in Range(todo) /\ <<k.role, "tuple">> \notin Range(todo')
    BY <1>1, <1>4
  <2>2. HistoryOf(k) = Those(Front(seen), SameTuple(k))
    BY <2>1, HistoryIs
  <2>3. HistoryOf(k)' = Those(seen, SameTuple(k))
    BY <1>1, <2>1 DEF HistoryOf, SameTuple
  <2>4. Front(seen) \in Seq(Flow) /\ seen = Append(Front(seen), Current)
    <3>1. seen # <<>>
      BY <1>1
    <3>2. Front(seen) \in Seq(Flow)
      BY <1>1, <3>1, FrontIs
    <3> QED
      BY <1>1, <3>1, <3>2, FrontIs
  <2>5. Those(seen, SameTuple(k)) =
           IF Current \in SameTuple(k) THEN Append(HistoryOf(k), Current) ELSE HistoryOf(k)
    <3> DEFINE d == Front(seen)
               c == Current
    <3>1. Those(Append(d, c), SameTuple(k)) =
             IF c \in SameTuple(k) THEN Append(Those(d, SameTuple(k)), c)
             ELSE Those(d, SameTuple(k))
      <4>1. d \in Seq(Flow) /\ c \in Flow
        BY <1>1, <2>4
      <4> HIDE DEF d, c
      <4> QED
        BY <4>1, ThoseAppend
    <3> QED
      BY <2>2, <2>4, <3>1
  <2>6. Current \in SameTuple(k) <=> k = TupleKey(Current, role)
    BY <1>1, <1>4 DEF SameTuple
  <2> QED
    BY <1>4, <2>3, <2>5, <2>6
<1> QED
  BY <1>3, <1>4

LEMMA LettersStay ==
    ASSUME NEW k \in DOMAIN tuples, LettersOf(k), HistoryOf(k)' = HistoryOf(k),
           tuples'[k] = tuples[k]
    PROVE  LettersOf(k)'
BY DEF LettersOf

(* A letter is added to what a history has.                                *)
LEMMA LetterAdded ==
    ASSUME NEW h \in Seq(Flow), NEW f \in Flow, NEW letters \in Seq(Symbols),
           Len(letters) = Len(h), \A i \in 1..Len(h) : Matches(letters[i], h, i)
    PROVE  LET new == Append(letters, compute_symbol(f, TimesOf(h)))
               g == Append(h, f)
           IN  /\ new \in Seq(Symbols) /\ new # <<>>
               /\ Len(new) = Len(g)
               /\ \A i \in 1..Len(g) : Matches(new[i], g, i)
<1> DEFINE s == compute_symbol(f, TimesOf(h))
           new == Append(letters, s)
           g == Append(h, f)
           n == Len(h)
<1>1. s \in Symbols /\ Matches(s, g, n + 1)
  BY SymbolMatches DEF Symbols
<1> HIDE DEF s
<1>2. /\ new \in Seq(Symbols) /\ Len(new) = n + 1 /\ new # <<>>
      /\ new[n+1] = s /\ \A i \in 1..n : new[i] = letters[i]
  BY <1>1, AppendProperties
<1>3. /\ g \in Seq(Flow) /\ Len(g) = n + 1 /\ n \in Nat
      /\ \A i \in 1..n : g[i] = h[i]
  BY AppendProperties
<1> HIDE DEF new, g
<1>4. ASSUME NEW i \in 1..Len(g) PROVE Matches(new[i], g, i)
  <2>1. CASE i = n + 1
    BY <1>1, <1>2, <2>1
  <2>2. CASE i # n + 1
    <3>1. i \in 1..n
      BY <1>3, <2>2
    <3>2. new[i] = letters[i] /\ g[i] = h[i] /\ Matches(letters[i], h, i)
      BY <1>2, <1>3, <3>1
    <3>3. i > 1 => g[i-1] = h[i-1]
      BY <1>3, <3>1
    <3>4. i > 2 => g[i-2] = h[i-2]
      BY <1>3, <3>1
    <3> HIDE DEF n
    <3>5. Regularity(g, i) = Regularity(h, i)
      <4>1. CASE i <= 2
        BY <4>1 DEF Regularity
      <4>2. CASE i > 2
        <5>1. g[i-1] = h[i-1] /\ g[i-2] = h[i-2]
          BY <3>1, <3>3, <3>4, <4>2
        <5> QED
          BY <3>2, <5>1 DEF Regularity
      <4> QED
        BY <3>1, <4>1, <4>2
    <3>6. i = 1 \/ i > 1
      BY <3>1
    <3>7. CASE i = 1
      <4>1. ~ (i > 2)
        BY <3>7
      <4> QED
        BY <3>2, <3>5, <3>7, <4>1 DEF Matches
    <3>8. CASE i > 1
      <4>1. g[i].ts - g[i-1].ts = h[i].ts - h[i-1].ts
        BY <3>2, <3>3, <3>8
      <4> QED
        BY <3>2, <3>5, <4>1 DEF Matches
    <3> QED
      BY <3>6, <3>7, <3>8
  <2> QED
    BY <2>1, <2>2
<1> QED
  BY <1>2, <1>3, <1>4 DEF new, g, s

LEMMA AddTupleLetters ==
    ASSUME TodoOK, LettersInv, NEW role, add_tuple(role)
    PROVE  LettersInv'
<1>0. PICK k0 : k0 = TupleKey(Current, role)
  OBVIOUS
<1> DEFINE none == [letters |-> <<>>, times |-> <<0, 0>>]
           old == At(tuples, k0, none)
           new == Append(old.letters, compute_symbol(Current, old.times))
           rec == [letters |-> new, times |-> NewTimes(old.times, Current.ts)]
           h == HistoryOf(k0)
<1>1. /\ Storing(role, "tuple")
      /\ tuples' = Put(tuples, k0, rec)
  BY <1>0 DEF add_tuple
<1>2. role \in Active /\ Current \in Flow
  BY <1>1, StoringIs
<1>3. \A k : HistoryOf(k)' = IF k = k0 THEN Append(HistoryOf(k), Current) ELSE HistoryOf(k)
  BY <1>0, <1>1, StoringHistory
<1>4. h \in Seq(Flow) /\ k0.role = role
  BY <1>0, HistoryIs DEF TupleKey
<1>5. /\ old.letters \in Seq(Symbols) /\ Len(old.letters) = Len(h)
      /\ old.times = TimesOf(h)
      /\ \A i \in 1..Len(h) : Matches(old.letters[i], h, i)
  <2>1. CASE k0 \in DOMAIN tuples
    <3>1. LettersOf(k0) /\ old = tuples[k0]
      BY <2>1 DEF LettersInv, At
    <3> QED
      BY <3>1 DEF LettersOf
  <2>2. CASE k0 \notin DOMAIN tuples
    <3>1. h = <<>> /\ old = none
      BY <1>0, <1>2, <2>2 DEF LettersInv, At
    <3>2. none.letters = <<>> /\ none.times = <<0, 0>>
      OBVIOUS
    <3>3. TimesOf(<<>>) = <<0, 0>> /\ Len(<<>>) = 0 /\ <<>> \in Seq(Symbols)
      BY DEF TimesOf
    <3>4. old.letters = <<>> /\ old.times = <<0, 0>> /\ Len(h) = 0
      BY <3>1, <3>2, <3>3
    <3>5. \A i \in 1..Len(h) : FALSE
      BY <3>4
    <3> HIDE DEF none, old, h
    <3> QED
      BY <3>1, <3>3, <3>4, <3>5
  <2> QED
    BY <2>1, <2>2
<1> HIDE DEF old, h
<1>6. LET s == Append(old.letters, compute_symbol(Current, TimesOf(h)))
          g == Append(h, Current)
      IN  /\ s \in Seq(Symbols) /\ s # <<>> /\ Len(s) = Len(g)
          /\ \A i \in 1..Len(g) : Matches(s[i], g, i)
  BY <1>2, <1>4, <1>5, LetterAdded
<1>7. /\ rec.letters \in Seq(Symbols) /\ rec.letters # <<>>
      /\ Len(rec.letters) = Len(Append(h, Current))
      /\ \A i \in 1..Len(Append(h, Current)) : Matches(rec.letters[i], Append(h, Current), i)
      /\ rec.times = TimesOf(Append(h, Current))
  BY <1>2, <1>4, <1>5, <1>6, SymbolMatches
<1> HIDE DEF rec
<1>8. /\ DOMAIN tuples' = DOMAIN tuples \cup {k0} /\ tuples'[k0] = rec
      /\ \A k \in DOMAIN tuples : k # k0 => tuples'[k] = tuples[k]
  BY <1>1 DEF Put
<1>9. ASSUME NEW k \in DOMAIN tuples' PROVE LettersOf(k)'
  <2>1. CASE k = k0
    <3>1. HistoryOf(k0)' = Append(h, Current)
      BY <1>3 DEF h
    <3> QED
      BY <1>2, <1>4, <1>7, <1>8, <2>1, <3>1 DEF LettersOf
  <2>2. CASE k # k0
    <3>1. k \in DOMAIN tuples /\ tuples'[k] = tuples[k] /\ HistoryOf(k)' = HistoryOf(k)
      BY <1>3, <1>8, <2>2
    <3>2. LettersOf(k)
      BY <3>1 DEF LettersInv
    <3> QED
      BY <3>1, <3>2, LettersStay
  <2> QED
    BY <2>1, <2>2
<1>10. ASSUME NEW f \in Flow, NEW r \in Active, TupleKey(f, r) \notin DOMAIN tuples'
       PROVE  HistoryOf(TupleKey(f, r))' = <<>>
  <2>1. TupleKey(f, r) \notin DOMAIN tuples /\ TupleKey(f, r) # k0
    BY <1>8, <1>10
  <2>2. HistoryOf(TupleKey(f, r)) = <<>>
    BY <2>1 DEF LettersInv
  <2> QED
    BY <1>3, <2>1, <2>2
<1> QED
  BY <1>9, <1>10 DEF LettersInv

LEMMA LettersInit ==
    FeaturesInit => LettersInv
<1> SUFFICES ASSUME FeaturesInit PROVE LettersInv
  OBVIOUS
<1>1. seen = <<>> /\ todo = <<>> /\ tuples = Nothing
  BY DEF FeaturesInit
<1>2. DOMAIN tuples = {}
  BY <1>1 DEF Nothing
<1>3. \A k : <<k.role, "tuple">> \notin Range(todo)
  BY <1>1 DEF Range
<1>4. TodoOK
  BY FeatureInit DEF FeatureInv
<1>5. ASSUME NEW k PROVE HistoryOf(k) = <<>>
  <2>1. HistoryOf(k) = Those(seen, SameTuple(k))
    BY <1>3, <1>4, HistoryIs
  <2> QED
    BY <1>1, <2>1, ThoseOfNone
<1> QED
  BY <1>2, <1>5 DEF LettersInv

LEMMA LettersNext ==
    ASSUME TodoOK, LettersInv, [Next]_vars
    PROVE  LettersInv'
<1>1. ASSUME tuples' = tuples,
             \A k : k.role \in Active => HistoryOf(k)' = HistoryOf(k)
      PROVE  LettersInv'
  <2>1. ASSUME NEW k \in DOMAIN tuples' PROVE LettersOf(k)'
    <3>1. k \in DOMAIN tuples /\ LettersOf(k) /\ tuples'[k] = tuples[k]
      BY <1>1, <2>1 DEF LettersInv
    <3>2. HistoryOf(k)' = HistoryOf(k)
      BY <1>1, <3>1 DEF LettersOf
    <3> QED
      BY <3>1, <3>2, LettersStay
  <2>2. ASSUME NEW f \in Flow, NEW r \in Active, TupleKey(f, r) \notin DOMAIN tuples'
        PROVE  HistoryOf(TupleKey(f, r))' = <<>>
    <3>1. TupleKey(f, r).role \in Active
      BY DEF TupleKey
    <3> QED
      BY <1>1, <2>2, <3>1 DEF LettersInv
  <2> QED
    BY <2>1, <2>2 DEF LettersInv
<1>2. ASSUME NEW role, NEW feature, Storing(role, feature), feature # "tuple", tuples' = tuples
      PROVE  LettersInv'
  <2>1. \A k : HistoryOf(k)' = HistoryOf(k)
    BY <1>2, StoringHistory
  <2> QED
    BY <1>1, <1>2, <2>1
<1>3. ASSUME UNCHANGED <<seen, todo, tuples>> PROVE LettersInv'
  <2>1. \A k : HistoryOf(k)' = HistoryOf(k)
    BY <1>3 DEF HistoryOf
  <2> QED
    BY <1>1, <1>3, <2>1
<1>4. ASSUME NEW f \in Flow, ReadFlow(f) PROVE LettersInv'
  <2>1. tuples' = tuples
    BY <1>4 DEF ReadFlow, tables
  <2>2. \A k : k.role \in Active => HistoryOf(k)' = HistoryOf(k)
    BY <1>4, ReadFlowHistory
  <2> QED
    BY <1>1, <2>1, <2>2
<1>5. ASSUME NEW role, add_ips(role) PROVE LettersInv'
  BY <1>2, <1>5 DEF add_ips
<1>6. ASSUME NEW role, NEW t \in {"Dst", "Src"}, add_port(role, t) PROVE LettersInv'
  <2>1. Storing(role, FeatureOf(t)) /\ FeatureOf(t) # "tuple" /\ tuples' = tuples
    BY <1>6 DEF add_port, FeatureOf
  <2> QED
    BY <1>2, <2>1
<1>7. ASSUME NEW role, add_flow(role) PROVE LettersInv'
  BY <1>2, <1>7 DEF add_flow, tables
<1>8. CASE StoreFeature
  BY <1>5, <1>6, <1>7, <1>8, AddTupleLetters DEF StoreFeature
<1>9. CASE Detector
  BY <1>3, <1>9 DEF Detector, Message, Read, Check, featureVars, tables
<1>10. CASE \E ip \in Ip : Resolve(ip)
  BY <1>3, <1>10 DEF Resolve, featureVars, tables
<1>11. CASE UNCHANGED vars
  BY <1>3, <1>11 DEF vars, featureVars, tables
<1> QED
  BY <1>4, <1>8, <1>9, <1>10, <1>11 DEF Next

LEMMA LettersInvariance == Spec => []LettersInv
<1>1. Init => LettersInv
  BY LettersInit DEF Init
<1>2. TodoOK /\ LettersInv /\ [Next]_vars => LettersInv'
  BY LettersNext
<1>3. FeatureInv => TodoOK
  BY DEF FeatureInv
<1> QED
  BY <1>1, <1>2, <1>3, FeatureInvariance, PTL DEF Spec

(* The letters of a tuple tell of its whole history in its window (see     *)
(* LettersMatchHistory), for any flows in any order, although no more than *)
(* two timestamps are carried from flow to flow.                           *)
THEOREM LettersTellTheHistory == Spec => []LettersMatchHistory
<1>1. LettersInv => LettersMatchHistory
  BY DEF LettersInv, LettersOf, LettersMatchHistory, Matches
<1> QED
  BY <1>1, LettersInvariance, PTL

-----------------------------------------------------------------------------
(* What has been tried *)

LEMMA PortKeyIs ==
    ASSUME FeatureInv, NEW k \in DOMAIN ports
    PROVE  /\ \E f \in Flow, r \in Active, t \in Types : k = PortKeyOf(f, r, t)
           /\ k.port \in Port
           /\ k.role = "Client" => k.window \in Windows
           /\ DOMAIN ports[k] \subseteq Ip /\ DOMAIN ports[k] # {}
           /\ ports[k] \in [DOMAIN ports[k] -> Nat]
<1>1. /\ DOMAIN ports[k] # {} /\ ports[k] \in [DOMAIN ports[k] -> Nat]
      /\ \A x \in DOMAIN ports[k] : <<k, x>> \in PortContacts
  BY DEF FeatureInv, Holds
<1>2. ASSUME NEW x \in DOMAIN ports[k]
      PROVE  \E f \in Flow, r \in Active, t \in Types : k = PortKeyOf(f, r, t) /\ x = f.daddr
  <2>0. PICK r \in Active, t \in Types : \E i \in Done(r, FeatureOf(t)) :
             <<k, x>> = <<PortKeyOf(seen[i], r, t), seen[i].daddr>>
    BY <1>1, InPortContacts
  <2>1. PICK i \in Done(r, FeatureOf(t)) :
             <<k, x>> = <<PortKeyOf(seen[i], r, t), seen[i].daddr>>
    BY <2>0
  <2>2. i \in 1..Len(seen) /\ seen \in Seq(Flow)
    BY DEF Done, FeatureInv, TodoOK
  <2> QED
    BY <2>1, <2>2
<1>3. PICK f \in Flow, r \in Active, t \in Types : k = PortKeyOf(f, r, t)
  BY <1>1, <1>2
<1>4. f.sport \in Port /\ f.dport \in Port
  BY PortScanAssumption
<1>5. k.port \in Port
  BY <1>3, <1>4 DEF PortKeyOf
<1>6. k.role = "Client" => k.window \in Windows
  <2>1. k.role = r /\ k.window = WindowOf(f, r)
    BY <1>3 DEF PortKeyOf
  <2> QED
    BY <2>1 DEF WindowOf, Windows
<1>7. \A x \in DOMAIN ports[k] : x \in Ip
  BY <1>2, PortScanAssumption
<1> QED
  BY <1>1, <1>3, <1>5, <1>6, <1>7

LEMMA IpKeyIs ==
    ASSUME FeatureInv, NEW k \in DOMAIN ips
    PROVE  /\ \E f \in Flow, r \in Active : k = IpKey(f, r)
           /\ k.ip \in Ip
           /\ k.role = "Client" => k.window \in Windows
           /\ DOMAIN ips[k] \subseteq Port /\ DOMAIN ips[k] # {}
           /\ ips[k] \in [DOMAIN ips[k] -> Nat]
<1>1. /\ DOMAIN ips[k] # {} /\ ips[k] \in [DOMAIN ips[k] -> Nat]
      /\ \A x \in DOMAIN ips[k] : <<k, x>> \in IpContacts
  BY DEF FeatureInv, Holds
<1>2. ASSUME NEW x \in DOMAIN ips[k]
      PROVE  \E f \in Flow, r \in Active : k = IpKey(f, r) /\ x = f.dport
  <2>0. PICK r \in Active : \E i \in Done(r, "ips") :
             <<k, x>> = <<IpKey(seen[i], r), seen[i].dport>>
    BY <1>1, InIpContacts
  <2>1. PICK i \in Done(r, "ips") : <<k, x>> = <<IpKey(seen[i], r), seen[i].dport>>
    BY <2>0
  <2>2. i \in 1..Len(seen) /\ seen \in Seq(Flow)
    BY DEF Done, FeatureInv, TodoOK
  <2> QED
    BY <2>1, <2>2
<1>3. PICK f \in Flow, r \in Active : k = IpKey(f, r)
  BY <1>1, <1>2
<1>4. f.saddr \in Ip /\ f.daddr \in Ip
  BY PortScanAssumption
<1>5. k.ip \in Ip
  BY <1>3, <1>4 DEF IpKey, PeerOf
<1>6. k.role = "Client" => k.window \in Windows
  <2>1. k.role = r /\ k.window = WindowOf(f, r)
    BY <1>3 DEF IpKey
  <2> QED
    BY <2>1 DEF WindowOf, Windows
<1>7. \A x \in DOMAIN ips[k] : x \in Port
  BY <1>2, PortScanAssumption
<1> QED
  BY <1>1, <1>3, <1>5, <1>6, <1>7

InScan(j, w, port) ==
    /\ j.role = "Client" /\ j.type = "Dst" /\ j.state = "NotEstablished"
    /\ j.window = w /\ j.port = port

InVertical(j, w, ip) ==
    j.role = "Client" /\ j.state = "NotEstablished" /\ j.window = w /\ j.ip = ip

LEMMA InTriedAddresses ==
    ASSUME NEW k
    PROVE  \A x : x \in TriedAddresses(k) <=>
              \E j \in DOMAIN ports : InScan(j, k[1], k[2]) /\ x \in DOMAIN ports[j]
BY DEF TriedAddresses, InScan

LEMMA InTriedAddressesNext ==
    ASSUME NEW CONSTANT k
    PROVE  \A x : x \in TriedAddresses(k)' <=>
              \E j \in DOMAIN ports' : InScan(j, k[1], k[2]) /\ x \in DOMAIN ports'[j]
BY DEF TriedAddresses, InScan

LEMMA InTriedPorts ==
    ASSUME NEW k
    PROVE  \A x : x \in TriedPorts(k) <=>
              \E j \in DOMAIN ips : InVertical(j, k[1], k[2]) /\ x \in DOMAIN ips[j]
BY DEF TriedPorts, InVertical

LEMMA InTriedPortsNext ==
    ASSUME NEW CONSTANT k
    PROVE  \A x : x \in TriedPorts(k)' <=>
              \E j \in DOMAIN ips' : InVertical(j, k[1], k[2]) /\ x \in DOMAIN ips'[j]
BY DEF TriedPorts, InVertical

(* What has been tried is a finite set of addresses, or of ports.          *)
LEMMA TriedType ==
    ASSUME FeatureInv, NEW k
    PROVE  /\ TriedAddresses(k) \subseteq Ip /\ IsFiniteSet(TriedAddresses(k))
           /\ TriedPorts(k) \subseteq Port /\ IsFiniteSet(TriedPorts(k))
<1>1. TriedAddresses(k) \subseteq Ip
  BY InTriedAddresses, PortKeyIs
<1>2. TriedPorts(k) \subseteq Port
  BY InTriedPorts, IpKeyIs
<1>3. IsFiniteSet(Ip) /\ IsFiniteSet(Port)
  BY PortScanAssumption
<1>4. IsFiniteSet(TriedAddresses(k))
  BY <1>1, <1>3, FS_Subset
<1>5. IsFiniteSet(TriedPorts(k))
  BY <1>2, <1>3, FS_Subset
<1> QED
  BY <1>1, <1>2, <1>4, <1>5

(* A port that is stored is an address tried of a scan, or of none.        *)
LEMMA AddPortTries ==
    ASSUME NEW role, NEW t \in Types, add_port(role, t), NEW CONSTANT k
    PROVE  TriedAddresses(k)' =
             IF InScan(PortKeyOf(Current, role, t), k[1], k[2])
             THEN TriedAddresses(k) \cup {Current.daddr} ELSE TriedAddresses(k)
<1>1. PICK K, d, n : K = PortKeyOf(Current, role, t) /\ d = Current.daddr /\ n = Current.pkts
  OBVIOUS
<1>2. ports' = Put(ports, K, Counted(At(ports, K, Nothing), d, n))
  BY <1>1 DEF add_port, PortKeyOf
<1>3. /\ DOMAIN ports' = DOMAIN ports \cup {K}
      /\ DOMAIN ports'[K] = (IF K \in DOMAIN ports THEN DOMAIN ports[K] ELSE {}) \cup {d}
      /\ \A j \in DOMAIN ports : j # K => ports'[j] = ports[j]
  <2>1. PICK old, anew : old = ports /\ anew = ports'
    OBVIOUS
  <2>2. anew = Put(old, K, Counted(At(old, K, Nothing), d, n))
    BY <1>2, <2>1
  <2>3. /\ DOMAIN anew = DOMAIN old \cup {K}
        /\ DOMAIN anew[K] = (IF K \in DOMAIN old THEN DOMAIN old[K] ELSE {}) \cup {d}
        /\ \A j \in DOMAIN old : j # K => anew[j] = old[j]
    <3> DEFINE more == Counted(At(old, K, Nothing), d, n)
    <3>1. DOMAIN more = (IF K \in DOMAIN old THEN DOMAIN old[K] ELSE {}) \cup {d}
      BY DEF Counted, Put, At, Nothing
    <3>2. anew = Put(old, K, more)
      BY <2>2
    <3> HIDE DEF more
    <3>3. /\ DOMAIN anew = DOMAIN old \cup {K} /\ anew[K] = more
          /\ \A j \in DOMAIN old : j # K => anew[j] = old[j]
      BY <3>2 DEF Put
    <3> QED
      BY <3>1, <3>3
  <2> QED
    BY <2>1, <2>3
<1>4. ASSUME NEW x
      PROVE  x \in TriedAddresses(k)' <=>
                x \in TriedAddresses(k) \/ (InScan(K, k[1], k[2]) /\ x = d)
  BY <1>3, InTriedAddresses, InTriedAddressesNext
<1>5. CASE InScan(K, k[1], k[2])
  <2>1. TriedAddresses(k)' = TriedAddresses(k) \cup {d}
    BY <1>4, <1>5
  <2> QED
    BY <1>1, <1>5, <2>1
<1>6. CASE ~ InScan(K, k[1], k[2])
  <2>1. TriedAddresses(k)' = TriedAddresses(k)
    BY <1>4, <1>6
  <2> QED
    BY <1>1, <1>6, <2>1
<1> QED
  BY <1>5, <1>6

LEMMA AddIpsTries ==
    ASSUME NEW role, add_ips(role), NEW CONSTANT k
    PROVE  TriedPorts(k)' =
             IF InVertical(IpKey(Current, role), k[1], k[2])
             THEN TriedPorts(k) \cup {Current.dport} ELSE TriedPorts(k)
<1>1. PICK K, d, n : K = IpKey(Current, role) /\ d = Current.dport /\ n = Current.dpkts
  OBVIOUS
<1>2. ips' = Put(ips, K, Counted(At(ips, K, Nothing), d, n))
  BY <1>1 DEF add_ips, IpKey
<1>3. /\ DOMAIN ips' = DOMAIN ips \cup {K}
      /\ DOMAIN ips'[K] = (IF K \in DOMAIN ips THEN DOMAIN ips[K] ELSE {}) \cup {d}
      /\ \A j \in DOMAIN ips : j # K => ips'[j] = ips[j]
  <2>1. PICK old, anew : old = ips /\ anew = ips'
    OBVIOUS
  <2>2. anew = Put(old, K, Counted(At(old, K, Nothing), d, n))
    BY <1>2, <2>1
  <2>3. /\ DOMAIN anew = DOMAIN old \cup {K}
        /\ DOMAIN anew[K] = (IF K \in DOMAIN old THEN DOMAIN old[K] ELSE {}) \cup {d}
        /\ \A j \in DOMAIN old : j # K => anew[j] = old[j]
    <3> DEFINE more == Counted(At(old, K, Nothing), d, n)
    <3>1. DOMAIN more = (IF K \in DOMAIN old THEN DOMAIN old[K] ELSE {}) \cup {d}
      BY DEF Counted, Put, At, Nothing
    <3>2. anew = Put(old, K, more)
      BY <2>2
    <3> HIDE DEF more
    <3>3. /\ DOMAIN anew = DOMAIN old \cup {K} /\ anew[K] = more
          /\ \A j \in DOMAIN old : j # K => anew[j] = old[j]
      BY <3>2 DEF Put
    <3> QED
      BY <3>1, <3>3
  <2> QED
    BY <2>1, <2>3
<1>4. ASSUME NEW x
      PROVE  x \in TriedPorts(k)' <=>
                x \in TriedPorts(k) \/ (InVertical(K, k[1], k[2]) /\ x = d)
  BY <1>3, InTriedPorts, InTriedPortsNext
<1>5. CASE InVertical(K, k[1], k[2])
  <2>1. TriedPorts(k)' = TriedPorts(k) \cup {d}
    BY <1>4, <1>5
  <2> QED
    BY <1>1, <1>5, <2>1
<1>6. CASE ~ InVertical(K, k[1], k[2])
  <2>1. TriedPorts(k)' = TriedPorts(k)
    BY <1>4, <1>6
  <2> QED
    BY <1>1, <1>6, <2>1
<1> QED
  BY <1>5, <1>6

(* Nothing that was tried is forgotten.                                    *)
LEMMA TriedGrows ==
    ASSUME [Next]_vars, NEW CONSTANT k
    PROVE  /\ TriedAddresses(k) \subseteq TriedAddresses(k)'
           /\ TriedPorts(k) \subseteq TriedPorts(k)'
<1>1. ASSUME ports' = ports PROVE TriedAddresses(k)' = TriedAddresses(k)
  BY <1>1 DEF TriedAddresses
<1>2. ASSUME ips' = ips PROVE TriedPorts(k)' = TriedPorts(k)
  BY <1>2 DEF TriedPorts
<1>3. CASE UNCHANGED <<ips, ports>>
  BY <1>1, <1>2, <1>3
<1>4. ASSUME NEW role, add_ips(role)
      PROVE  /\ TriedAddresses(k) \subseteq TriedAddresses(k)'
             /\ TriedPorts(k) \subseteq TriedPorts(k)'
  <2>1. ports' = ports
    BY <1>4 DEF add_ips
  <2> QED
    BY <1>1, <1>4, <2>1, AddIpsTries
<1>5. ASSUME NEW role, NEW t \in Types, add_port(role, t)
      PROVE  /\ TriedAddresses(k) \subseteq TriedAddresses(k)'
             /\ TriedPorts(k) \subseteq TriedPorts(k)'
  <2>1. ips' = ips
    BY <1>5 DEF add_port
  <2> QED
    BY <1>2, <1>5, <2>1, AddPortTries
<1>6. CASE StoreFeature
  <2>1. ASSUME NEW role, add_tuple(role) \/ add_flow(role) PROVE UNCHANGED <<ips, ports>>
    BY <2>1 DEF add_tuple, add_flow, tables
  <2> QED
    BY <1>3, <1>4, <1>5, <1>6, <2>1 DEF StoreFeature, Types
<1>7. CASE Detector
  BY <1>3, <1>7 DEF Detector, Message, Read, Check, featureVars, tables
<1>8. CASE \E ip \in Ip : Resolve(ip)
  BY <1>3, <1>8 DEF Resolve, featureVars, tables
<1>9. CASE UNCHANGED vars
  BY <1>3, <1>9 DEF vars, featureVars, tables
<1>10. CASE \E f \in Flow : ReadFlow(f)
  BY <1>3, <1>10 DEF ReadFlow, tables
<1> QED
  BY <1>6, <1>7, <1>8, <1>9, <1>10 DEF Next

-----------------------------------------------------------------------------
(* What the detector holds *)

(* The reads left, from the i-th on *)
LeftFrom(i) == [n \in 1..(5 - i) |-> Reads[n + i - 1]]

Type == {"PortScanType2", "PortScanType1"}
Keys(type) == IF type = "PortScanType2" THEN Port ELSE Ip
Tried(type, k) == IF type = "PortScanType2" THEN TriedAddresses(k) ELSE TriedPorts(k)
Minimum(type) ==
    IF type = "PortScanType2" THEN port_scan_minimum_dips_threshold
    ELSE port_scan_minimum_dports_threshold

ScanShape ==
    /\ scan = [window |-> scan.window, left |-> scan.left, data |-> scan.data]
    /\ scan.data = [x \in DOMAIN scan.data |-> scan.data[x]]
    /\ \E i \in 1..5 : scan.left = LeftFrom(i)
    /\ scan.left = <<>> => scan = Idle

LEMMA LeftIs ==
    /\ \A i \in 1..4 : /\ LeftFrom(i) # <<>> /\ LeftFrom(i)[1] = Reads[i]
                       /\ Tail(LeftFrom(i)) = LeftFrom(i + 1)
                       /\ Len(LeftFrom(i)) = 5 - i
    /\ LeftFrom(5) = <<>>
    /\ LeftFrom(1) = Reads /\ LeftFrom(3) = SubSeq(Reads, 3, 4)
    /\ \A i, j \in 1..5 : LeftFrom(i) = LeftFrom(j) => i = j
<1> DEFINE R == <<Reads[1], Reads[2], Reads[3], Reads[4]>>
<1>1. Reads = R
  BY DEF Reads
<1>2. ASSUME NEW i \in 1..4
      PROVE  /\ LeftFrom(i) # <<>> /\ LeftFrom(i)[1] = Reads[i]
             /\ Tail(LeftFrom(i)) = LeftFrom(i + 1)
             /\ Len(LeftFrom(i)) = 5 - i
  <2> DEFINE S == {Reads[n] : n \in 1..4}
  <2>1. LeftFrom(i) \in Seq(S) /\ Len(LeftFrom(i)) = 5 - i
    BY DEF LeftFrom
  <2>2. LeftFrom(i)[1] = Reads[i]
    BY DEF LeftFrom
  <2>3. LeftFrom(i + 1) \in Seq(S) /\ Len(LeftFrom(i + 1)) = (5 - i) - 1
    BY DEF LeftFrom
  <2>4. \A n \in 1..((5 - i) - 1) : LeftFrom(i)[n + 1] = LeftFrom(i + 1)[n]
    BY DEF LeftFrom
  <2> HIDE DEF S
  <2>5. LeftFrom(i) # <<>>
    BY <2>1
  <2>6. /\ Tail(LeftFrom(i)) \in Seq(S) /\ Len(Tail(LeftFrom(i))) = (5 - i) - 1
        /\ \A n \in 1..((5 - i) - 1) : Tail(LeftFrom(i))[n] = LeftFrom(i)[n + 1]
    BY <2>1, <2>5
  <2>7. Tail(LeftFrom(i)) = LeftFrom(i + 1)
    BY <2>3, <2>4, <2>6, SeqEqual
  <2> QED
    BY <2>1, <2>2, <2>5, <2>7
<1>3. LeftFrom(5) = <<>>
  BY DEF LeftFrom
<1>4. LeftFrom(1) = Reads
  <2>1. LeftFrom(1) = [n \in 1..4 |-> Reads[n]]
    BY DEF LeftFrom
  <2> QED
    BY <1>1, <2>1
<1>5. LeftFrom(3) = SubSeq(Reads, 3, 4)
  BY DEF LeftFrom, Reads
<1>6. \A i \in 1..5 : Len(LeftFrom(i)) = 5 - i
  BY <1>2, <1>3
<1> QED
  BY <1>2, <1>3, <1>4, <1>5, <1>6

LEMMA ReadsAre ==
    /\ Reads[1] = <<"PortScanType2", "TCP">> /\ Reads[2] = <<"PortScanType2", "UDP">>
    /\ Reads[3] = <<"PortScanType1", "TCP">> /\ Reads[4] = <<"PortScanType1", "UDP">>
    /\ \A i \in 1..4 : Reads[i][1] \in Type /\ Reads[i][2] \in {"TCP", "UDP"}
    /\ \A i \in 1..4 : Reads[i][1] = "PortScanType2" <=> i <= 2
BY DEF Reads, Type

LEMMA NothingIs ==
    ASSUME NEW f, f = [x \in DOMAIN f |-> f[x]]
    PROVE  f = Nothing <=> DOMAIN f = {}
BY DEF Nothing

(* The data read is of keys that are known, and was really tried.          *)
DataOf(type, w, d) ==
    \A x \in DOMAIN d : /\ w \in Windows /\ x \in Keys(type)
                        /\ d[x] \in [DOMAIN d[x] -> Nat] /\ DOMAIN d[x] # {}
                        /\ DOMAIN d[x] \subseteq Tried(type, <<w, x>>)

LEMMA DataRead ==
    ASSUME FeatureInv, NEW w, NEW type \in Type, NEW proto
    PROVE  /\ DataOf(type, w, getDataFromProfileTW(w, type, proto))
           /\ LET d == getDataFromProfileTW(w, type, proto) IN d = [x \in DOMAIN d |-> d[x]]
<1>1. CASE type = "PortScanType2"
  <2> DEFINE K == {k \in DOMAIN ports : /\ k.window = w /\ k.role = "Client" /\ k.type = "Dst"
                                        /\ k.proto = proto /\ k.state = "NotEstablished"}
             d == [p \in {k.port : k \in K} |-> ports[CHOOSE k \in K : k.port = p]]
  <2>1. getDataFromProfileTW(w, type, proto) = d
    BY <1>1 DEF getDataFromProfileTW
  <2>2. ASSUME NEW x \in DOMAIN d
        PROVE  /\ w \in Windows /\ x \in Port
               /\ d[x] \in [DOMAIN d[x] -> Nat] /\ DOMAIN d[x] # {}
               /\ DOMAIN d[x] \subseteq TriedAddresses(<<w, x>>)
    <3>1. PICK k \in K : k = (CHOOSE j \in K : j.port = x) /\ k.port = x
      <4>1. \E k \in K : k.port = x
        BY <2>2
      <4> HIDE DEF K
      <4> QED
        BY <4>1
    <3>2. d[x] = ports[k]
      BY <3>1
    <3>3. /\ k \in DOMAIN ports /\ k.window = w /\ k.role = "Client" /\ k.type = "Dst"
          /\ k.state = "NotEstablished"
      OBVIOUS
    <3> HIDE DEF d, K
    <3>4. /\ k.port \in Port /\ k.window \in Windows
          /\ DOMAIN ports[k] # {} /\ ports[k] \in [DOMAIN ports[k] -> Nat]
      BY <3>3, PortKeyIs
    <3>5. InScan(k, <<w, x>>[1], <<w, x>>[2])
      BY <3>1, <3>3 DEF InScan
    <3>6. DOMAIN ports[k] \subseteq TriedAddresses(<<w, x>>)
      BY <3>3, <3>5, InTriedAddresses
    <3> QED
      BY <3>1, <3>2, <3>3, <3>4, <3>6
  <2>3. d = [x \in DOMAIN d |-> d[x]]
    OBVIOUS
  <2> HIDE DEF d
  <2> QED
    BY <1>1, <2>1, <2>2, <2>3 DEF DataOf, Keys, Tried
<1>2. CASE type = "PortScanType1"
  <2> DEFINE K == {k \in DOMAIN ips : /\ k.window = w /\ k.role = "Client"
                                      /\ k.proto = proto /\ k.state = "NotEstablished"}
             d == [p \in {k.ip : k \in K} |-> ips[CHOOSE k \in K : k.ip = p]]
  <2>1. getDataFromProfileTW(w, type, proto) = d
    BY <1>2 DEF getDataFromProfileTW
  <2>2. ASSUME NEW x \in DOMAIN d
        PROVE  /\ w \in Windows /\ x \in Ip
               /\ d[x] \in [DOMAIN d[x] -> Nat] /\ DOMAIN d[x] # {}
               /\ DOMAIN d[x] \subseteq TriedPorts(<<w, x>>)
    <3>1. PICK k \in K : k = (CHOOSE j \in K : j.ip = x) /\ k.ip = x
      <4>1. \E k \in K : k.ip = x
        BY <2>2
      <4> HIDE DEF K
      <4> QED
        BY <4>1
    <3>2. d[x] = ips[k]
      BY <3>1
    <3>3. /\ k \in DOMAIN ips /\ k.window = w /\ k.role = "Client"
          /\ k.state = "NotEstablished"
      OBVIOUS
    <3> HIDE DEF d, K
    <3>4. /\ k.ip \in Ip /\ k.window \in Windows
          /\ DOMAIN ips[k] # {} /\ ips[k] \in [DOMAIN ips[k] -> Nat]
      BY <3>3, IpKeyIs
    <3>5. InVertical(k, <<w, x>>[1], <<w, x>>[2])
      BY <3>1, <3>3 DEF InVertical
    <3>6. DOMAIN ips[k] \subseteq TriedPorts(<<w, x>>)
      BY <3>3, <3>5, InTriedPorts
    <3> QED
      BY <3>1, <3>2, <3>3, <3>4, <3>6
  <2>3. d = [x \in DOMAIN d |-> d[x]]
    OBVIOUS
  <2> HIDE DEF d
  <2> QED
    BY <1>2, <2>1, <2>2, <2>3 DEF DataOf, Keys, Tried
<1> QED
  BY <1>1, <1>2 DEF Type

(* What is left of a read without key k: less of it, the next read, or     *)
(* nothing.                                                                *)
Less(s, k) ==
    /\ s = [window |-> scan.window, left |-> scan.left, data |-> s.data]
    /\ s.data # Nothing /\ s.data = [x \in DOMAIN s.data |-> s.data[x]]
    /\ DOMAIN s.data = DOMAIN scan.data \ {k}
    /\ \A x \in DOMAIN s.data : s.data[x] = scan.data[x]

NextRead(s, i) == s = [window |-> scan.window, left |-> LeftFrom(i + 1), data |-> Nothing]

LEMMA NextReadIs ==
    ASSUME ScanShape, NEW i \in 1..4, scan.left = LeftFrom(i)
    PROVE  /\ i = 4 <=> Len(scan.left) = 1
           /\ NextRead([window |-> scan.window, left |-> Tail(scan.left), data |-> Nothing], i)
           /\ scan.data = Nothing => NextRead([scan EXCEPT !.left = Tail(@)], i)
<1>1. Tail(scan.left) = LeftFrom(i + 1) /\ Len(scan.left) = 5 - i
  BY LeftIs
<1>2. [scan EXCEPT !.left = Tail(scan.left)]
             = [window |-> scan.window, left |-> Tail(scan.left), data |-> scan.data]
  <2>1. ASSUME NEW w, NEW l, NEW d, NEW t, scan = [window |-> w, left |-> l, data |-> d]
        PROVE  [scan EXCEPT !.left = t] = [window |-> w, left |-> t, data |-> d]
    BY <2>1
  <2>2. PICK w : w = scan.window
    OBVIOUS
  <2>3. PICK l : l = scan.left
    OBVIOUS
  <2>4. PICK d : d = scan.data
    OBVIOUS
  <2>5. PICK t : t = Tail(scan.left)
    OBVIOUS
  <2>6. scan = [window |-> w, left |-> l, data |-> d]
    BY <2>2, <2>3, <2>4 DEF ScanShape
  <2>7. [scan EXCEPT !.left = t] = [window |-> w, left |-> t, data |-> d]
    BY <2>1, <2>6
  <2> QED
    BY <2>2, <2>4, <2>5, <2>7
<1>3. i = 4 <=> Len(scan.left) = 1
  BY <1>1
<1>4. NextRead([window |-> scan.window, left |-> Tail(scan.left), data |-> Nothing], i)
  BY <1>1 DEF NextRead
<1>5. ASSUME scan.data = Nothing
      PROVE  NextRead([scan EXCEPT !.left = Tail(scan.left)], i)
  <2>1. [scan EXCEPT !.left = Tail(scan.left)]
              = [window |-> scan.window, left |-> Tail(scan.left), data |-> Nothing]
    BY <1>2, <1>5
  <2> QED
    BY <1>4, <2>1 DEF NextRead
<1> QED
  BY <1>3, <1>4, <1>5

LEMMA WithoutIs ==
    ASSUME ScanShape, NEW i \in 1..4, scan.left = LeftFrom(i), NEW k \in DOMAIN scan.data
    PROVE  \/ Less(Without(k), k)
           \/ DOMAIN scan.data = {k} /\ i = 4 /\ Without(k) = Idle
           \/ DOMAIN scan.data = {k} /\ i < 4 /\ NextRead(Without(k), i)
<1> DEFINE rest == Restrict(scan.data, DOMAIN scan.data \ {k})
<1>1. /\ rest = [x \in DOMAIN rest |-> rest[x]]
      /\ DOMAIN rest = DOMAIN scan.data \ {k}
      /\ \A x \in DOMAIN rest : rest[x] = scan.data[x]
  BY DEF Restrict
<1>2. Without(k) = IF rest # Nothing THEN [scan EXCEPT !.data = rest]
                   ELSE IF Len(scan.left) = 1 THEN Idle
                   ELSE [window |-> scan.window, left |-> Tail(scan.left), data |-> Nothing]
  BY DEF Without
<1> HIDE DEF rest
<1>3. CASE rest # Nothing
  <2>1. [scan EXCEPT !.data = rest] = [window |-> scan.window, left |-> scan.left, data |-> rest]
    BY DEF ScanShape
  <2> QED
    BY <1>1, <1>2, <1>3, <2>1 DEF Less
<1>4. CASE rest = Nothing
  <2>1. DOMAIN scan.data = {k}
    BY <1>1, <1>4, NothingIs
  <2> QED
    BY <1>2, <1>4, <2>1, NextReadIs
<1> QED
  BY <1>3, <1>4

Started ==
    /\ scan = Idle /\ tw_modified # <<>>
    /\ \E i \in {1, 3} :
          scan' = [window |-> Named(Head(tw_modified)), left |-> LeftFrom(i), data |-> Nothing]

HasRead(i) ==
    LET d == getDataFromProfileTW(scan.window, Reads[i][1], Reads[i][2])
    IN  /\ d # Nothing
        /\ scan' = [window |-> scan.window, left |-> scan.left, data |-> d]

(* All that may happen to the read at hand in a step *)
Moves ==
    \/ scan' = scan
    \/ scan' = Idle
    \/ Started
    \/ \E i \in 1..4 : /\ scan.left = LeftFrom(i)
                       /\ \/ i < 4 /\ NextRead(scan', i)
                          \/ HasRead(i)
                          \/ \E k : Less(scan', k)

LEMMA IdleIs ==
    ASSUME ScanShape
    PROVE  /\ scan.left = <<>> => scan.data = Nothing
           /\ \A i \in 1..4 : scan.left = LeftFrom(i) => scan # Idle
           /\ scan.left # <<>> => \E i \in 1..4 : scan.left = LeftFrom(i)
<1>1. Idle.left = <<>> /\ Idle.data = Nothing
  BY DEF Idle
<1>2. scan.left = <<>> => scan = Idle
  BY DEF ScanShape
<1>3. \E i \in 1..5 : scan.left = LeftFrom(i)
  BY DEF ScanShape
<1>4. LeftFrom(5) = <<>> /\ \A i \in 1..4 : LeftFrom(i) # <<>>
  BY LeftIs
<1> QED
  BY <1>1, <1>2, <1>3, <1>4

LEMMA ReadMoves ==
    ASSUME ScanShape, Read
    PROVE  /\ UNCHANGED <<featureVars, resolved, cache_det_thresholds, evidence>>
           /\ scan.data = Nothing
           /\ \E i \in 1..4 :
                /\ scan.left = LeftFrom(i)
                /\ \/ HasRead(i)
                   \/ /\ getDataFromProfileTW(scan.window, Reads[i][1], Reads[i][2]) = Nothing
                      /\ \/ i = 4 /\ scan' = Idle
                         \/ i < 4 /\ NextRead(scan', i)
<1>1. PICK i \in 1..4 : scan.left = LeftFrom(i)
  BY IdleIs DEF Read
<1>2. scan.left[1] = Reads[i]
  BY <1>1, LeftIs
<1>3. scan.data = Nothing
  BY DEF Read
<1>4. PICK d : d = getDataFromProfileTW(scan.window, Reads[i][1], Reads[i][2])
  OBVIOUS
<1>5. scan' = IF d # Nothing THEN [scan EXCEPT !.data = d]
              ELSE IF Len(scan.left) = 1 THEN Idle
              ELSE [scan EXCEPT !.left = Tail(@)]
  BY <1>2, <1>4 DEF Read
<1>6. [scan EXCEPT !.data = d] = [window |-> scan.window, left |-> scan.left, data |-> d]
  BY DEF ScanShape
<1>7. UNCHANGED <<featureVars, resolved, cache_det_thresholds, evidence>>
  BY DEF Read
<1>8. CASE d # Nothing
  <2>1. HasRead(i)
    BY <1>4, <1>5, <1>6, <1>8 DEF HasRead
  <2> QED
    BY <1>1, <1>3, <1>7, <2>1
<1>9. CASE d = Nothing
  <2>1. \/ i = 4 /\ scan' = Idle
        \/ i < 4 /\ NextRead(scan', i)
    BY <1>1, <1>3, <1>5, <1>9, NextReadIs
  <2> QED
    BY <1>1, <1>3, <1>4, <1>7, <1>9, <2>1
<1> QED
  BY <1>8, <1>9

LEMMA MessageMoves ==
    ASSUME Message
    PROVE  /\ Started /\ tw_modified' = Tail(tw_modified)
           /\ scan' = [window |-> Named(Head(tw_modified)), data |-> Nothing,
                       left |-> LeftFrom(IF Head(tw_modified)[1] \in Multicast \ Ipv6
                                         THEN 3 ELSE 1)]
           /\ UNCHANGED <<seen, todo, tuples, contacts, ips, ports, resolved,
                          cache_det_thresholds, evidence>>
<1>1. PICK w : w = Head(tw_modified)
  OBVIOUS
<1>2. scan' = [window |-> Named(w), data |-> Nothing,
               left |-> IF w[1] \in Multicast \ Ipv6 THEN SubSeq(Reads, 3, 4) ELSE Reads]
  BY <1>1 DEF Message
<1>3. scan' = [window |-> Named(w), data |-> Nothing,
               left |-> LeftFrom(IF w[1] \in Multicast \ Ipv6 THEN 3 ELSE 1)]
  BY <1>2, LeftIs
<1>4. \E i \in {1, 3} : scan' = [window |-> Named(w), left |-> LeftFrom(i), data |-> Nothing]
  BY <1>3
<1>5. scan = Idle /\ tw_modified # <<>> /\ tw_modified' = Tail(tw_modified)
  BY DEF Message
<1>6. UNCHANGED <<seen, todo, tuples, contacts, ips, ports, resolved,
                  cache_det_thresholds, evidence>>
  BY DEF Message, tables
<1> QED
  BY <1>1, <1>3, <1>4, <1>5, <1>6 DEF Started

(* A key is checked: it is reported and forgotten, or ends all checks.     *)
Amount(type, k) ==
    Cardinality(IF type = "PortScanType2" THEN DOMAIN scan.data[k] \ resolved
                ELSE DOMAIN scan.data[k])

Announced(type, proto, k, n) ==
    /\ Due(type, k, n, Minimum(type)) /\ n = Amount(type, k)
    /\ \E pkts \in Nat : evidence' = Append(evidence,
           [type |-> type, window |-> scan.window, key |-> k, proto |-> proto,
            n |-> n, pkts |-> pkts])
    /\ cache_det_thresholds' = Put(cache_det_thresholds, <<type, scan.window, k>>, n)

LEMMA CheckMoves ==
    ASSUME FeatureInv, ScanShape, NEW i \in 1..4, scan.left = LeftFrom(i), Check,
           DataOf(Reads[i][1], scan.window, scan.data)
    PROVE  \E k \in DOMAIN scan.data :
              LET type == Reads[i][1]
                  n == Amount(type, k)
              IN  \/ /\ scan' = Without(k)
                     /\ IF Due(type, k, n, Minimum(type)) THEN Announced(type, Reads[i][2], k, n)
                        ELSE UNCHANGED <<evidence, cache_det_thresholds>>
                  \/ /\ scan' = Idle /\ i > 2
                     /\ UNCHANGED <<evidence, cache_det_thresholds>>
<1>1. scan.left[1] = Reads[i]
  BY LeftIs
<1>2. PICK type, proto : type = Reads[i][1] /\ proto = Reads[i][2]
  OBVIOUS
<1>3. type \in Type /\ (type = "PortScanType2" <=> i <= 2)
  BY <1>2, ReadsAre
<1>4. PICK k \in DOMAIN scan.data :
           IF type = "PortScanType2"
           THEN check_horizontal_portscan(k) ELSE check_vertical_portscan(k)
  BY <1>1, <1>2 DEF Check
<1>5. /\ scan.data[k] \in [DOMAIN scan.data[k] -> Nat] /\ IsFiniteSet(DOMAIN scan.data[k])
  <2>1. /\ k \in Keys(type) /\ scan.data[k] \in [DOMAIN scan.data[k] -> Nat]
        /\ DOMAIN scan.data[k] \subseteq Tried(type, <<scan.window, k>>)
    BY <1>2, <1>4 DEF DataOf
  <2>2. IsFiniteSet(Tried(type, <<scan.window, k>>))
    BY TriedType DEF Tried
  <2> QED
    BY <2>1, <2>2, FS_Subset
<1>6. CASE type = "PortScanType2"
  <2> DEFINE dstips == Restrict(scan.data[k], DOMAIN scan.data[k] \ resolved)
  <2>1. /\ DOMAIN dstips = DOMAIN scan.data[k] \ resolved
        /\ dstips \in [DOMAIN dstips -> Nat]
    BY <1>5 DEF Restrict
  <2>2. IsFiniteSet(DOMAIN dstips)
    <3> HIDE DEF dstips
    <3> QED
      BY <1>5, <2>1, FS_Subset
  <2>3. SumFunction(dstips) \in Nat
    <3> HIDE DEF dstips
    <3> QED
      BY <2>1, <2>2, SumType
  <2> DEFINE n == Cardinality(DOMAIN dstips)
  <2>4. /\ scan' = Without(k)
        /\ IF Due(type, k, n, Minimum(type))
           THEN setEvidence(type, k, n, SumFunction(dstips))
           ELSE UNCHANGED <<evidence, cache_det_thresholds>>
    BY <1>4, <1>6 DEF check_horizontal_portscan, Minimum
  <2>5. n = Amount(type, k)
    BY <1>6, <2>1 DEF Amount
  <2> HIDE DEF n, dstips
  <2>6. Due(type, k, n, Minimum(type)) => Announced(type, proto, k, n)
    BY <1>1, <1>2, <2>3, <2>4, <2>5 DEF setEvidence, Announced
  <2> QED
    BY <1>2, <2>4, <2>5, <2>6
<1>7. CASE type # "PortScanType2"
  <2> DEFINE n == Cardinality(DOMAIN scan.data[k])
             pkts == SumFunction(scan.data[k])
  <2>1. pkts \in Nat
    BY <1>5, SumType
  <2>2. type = "PortScanType1" /\ i > 2
    BY <1>3, <1>7 DEF Type
  <2>3. IF Due(type, k, n, Minimum(type))
        THEN IF pkts = 0
             THEN scan' = Idle /\ UNCHANGED <<evidence, cache_det_thresholds>>
             ELSE scan' = Without(k) /\ setEvidence(type, k, n, pkts)
        ELSE scan' = Without(k) /\ UNCHANGED <<evidence, cache_det_thresholds>>
    BY <1>4, <1>7, <2>2 DEF check_vertical_portscan, Minimum
  <2>4. n = Amount(type, k)
    BY <1>7 DEF Amount
  <2> HIDE DEF n, pkts
  <2>5. setEvidence(type, k, n, pkts) /\ Due(type, k, n, Minimum(type))
           => Announced(type, proto, k, n)
    BY <1>1, <1>2, <2>1, <2>4 DEF setEvidence, Announced
  <2> QED
    BY <1>2, <2>2, <2>3, <2>4, <2>5
<1> QED
  BY <1>6, <1>7

(* What has been reported, and the cache that remembers it *)
Reports == [type : Type, window : Windows, key : Port \cup Ip, proto : {"TCP", "UDP"},
            n : Nat, pkts : Nat]

Cached(e) == <<e.type, e.window, e.key>>

CacheOK ==
    /\ evidence \in Seq(Reports)
    /\ \A i \in 1..Len(evidence) :
          /\ evidence[i].n > 0
          /\ Cached(evidence[i]) \in DOMAIN cache_det_thresholds
          /\ evidence[i].n <= cache_det_thresholds[Cached(evidence[i])]
    /\ \A c \in DOMAIN cache_det_thresholds :
          /\ cache_det_thresholds[c] \in Nat
          /\ \E i \in 1..Len(evidence) : /\ c = Cached(evidence[i])
                                         /\ evidence[i].n = cache_det_thresholds[c]

DataOK ==
    \A i \in 1..4 : scan.left = LeftFrom(i) => DataOf(Reads[i][1], scan.window, scan.data)

DetectorInv == ScanShape /\ DataOK /\ CacheOK

LEMMA DataStays ==
    ASSUME [Next]_vars, NEW CONSTANT type, NEW CONSTANT w, NEW CONSTANT d, DataOf(type, w, d)
    PROVE  DataOf(type, w, d)'
<1>1. ASSUME NEW x \in DOMAIN d
      PROVE  Tried(type, <<w, x>>) \subseteq Tried(type, <<w, x>>)'
  <2>1. PICK k : k = <<w, x>>
    OBVIOUS
  <2>2. Tried(type, k) \subseteq Tried(type, k)'
    BY TriedGrows DEF Tried
  <2> QED
    BY <2>1, <2>2
<1> QED
  BY <1>1 DEF DataOf

LEMMA CheckSteps ==
    ASSUME FeatureInv, DetectorInv, Check
    PROVE  \E i \in 1..4 :
              /\ scan.left = LeftFrom(i) /\ DataOf(Reads[i][1], scan.window, scan.data)
              /\ \E k \in DOMAIN scan.data :
                    LET type == Reads[i][1]
                        n == Amount(type, k)
                    IN  \/ /\ scan' = Without(k)
                           /\ IF Due(type, k, n, Minimum(type))
                              THEN Announced(type, Reads[i][2], k, n)
                              ELSE UNCHANGED <<evidence, cache_det_thresholds>>
                        \/ /\ scan' = Idle /\ i > 2
                           /\ UNCHANGED <<evidence, cache_det_thresholds>>
<1>1. scan.data # Nothing
  BY DEF Check
<1>2. PICK i \in 1..4 : scan.left = LeftFrom(i)
  BY <1>1, IdleIs DEF DetectorInv
<1>3. DataOf(Reads[i][1], scan.window, scan.data) /\ ScanShape
  BY <1>2 DEF DetectorInv, DataOK
<1> QED
  BY <1>2, <1>3, CheckMoves

LEMMA NextMoves ==
    ASSUME FeatureInv, DetectorInv, [Next]_vars
    PROVE  Moves
<1>1. ScanShape
  BY DEF DetectorInv
<1>2. CASE Message
  BY <1>2, MessageMoves DEF Moves
<1>3. CASE Read
  BY <1>1, <1>3, ReadMoves DEF Moves
<1>4. CASE Check
  <2>1. PICK i \in 1..4, k \in DOMAIN scan.data :
             /\ scan.left = LeftFrom(i)
             /\ scan' = Without(k) \/ scan' = Idle
    BY <1>4, CheckSteps
  <2> QED
    BY <1>1, <2>1, WithoutIs DEF Moves
<1>5. CASE \E ip \in Ip : Resolve(ip)
  BY <1>5 DEF Resolve, Moves
<1>6. CASE UNCHANGED scanVars
  BY <1>6 DEF scanVars, Moves
<1>7. CASE UNCHANGED vars
  BY <1>7 DEF vars, scanVars, Moves
<1> QED
  BY <1>2, <1>3, <1>4, <1>5, <1>6, <1>7 DEF Next, Detector

LEMMA ShapeFrom ==
    ASSUME NEW CONSTANT w, NEW i \in 1..4, NEW CONSTANT d, d = [x \in DOMAIN d |-> d[x]],
           scan' = [window |-> w, left |-> LeftFrom(i), data |-> d],
           DataOf(Reads[i][1], w, d)'
    PROVE  ScanShape' /\ DataOK'
<1>1. scan'.window = w /\ scan'.left = LeftFrom(i) /\ scan'.data = d
  OBVIOUS
<1>2. LeftFrom(i) # <<>> /\ \A j \in 1..4 : LeftFrom(j) = LeftFrom(i) => j = i
  BY LeftIs
<1>3. ScanShape'
  <2>1. scan' = [window |-> scan'.window, left |-> scan'.left, data |-> scan'.data]
    BY <1>1
  <2> QED
    BY <1>1, <1>2, <2>1 DEF ScanShape
<1>4. DataOK'
  <2>1. \A j \in 1..4 : scan'.left = LeftFrom(j) => j = i
    BY <1>1, <1>2
  <2>2. DataOK' <=> \A j \in 1..4 : scan'.left = LeftFrom(j) =>
            (DataOf(Reads[j][1], scan.window, scan.data))'
    BY DEF DataOK, LeftFrom, Reads
  <2>3. (DataOf(Reads[i][1], scan.window, scan.data))'
    BY <1>1 DEF DataOf, Tried, TriedAddresses, TriedPorts
  <2> QED
    BY <2>1, <2>2, <2>3
<1> QED
  BY <1>3, <1>4

LEMMA ShapeKept ==
    ASSUME FeatureInv, DetectorInv, [Next]_vars
    PROVE  ScanShape' /\ DataOK'
<1> DEFINE Goal == ScanShape' /\ DataOK'
<1>1. ScanShape
  BY DEF DetectorInv
<1>0. \A t, w : DataOf(t, w, Nothing)' /\ DOMAIN Nothing = {}
              /\ Nothing = [x \in DOMAIN Nothing |-> Nothing[x]]
  BY DEF DataOf, Nothing
<1>2. CASE scan' = Idle
  <2>1. scan'.left = <<>> /\ scan'.data = Nothing /\ scan'.window = <<>>
    BY <1>2 DEF Idle
  <2>2. /\ scan' = [window |-> scan'.window, left |-> scan'.left, data |-> scan'.data]
        /\ scan'.data = [x \in DOMAIN scan'.data |-> scan'.data[x]]
    BY <1>0, <1>2, <2>1 DEF Idle
  <2>3. \E i \in 1..5 : scan'.left = LeftFrom(i)
    BY <2>1, LeftIs
  <2>4. DataOK'
    <3>1. \A i \in 1..4 : scan'.left # LeftFrom(i)
      BY <2>1, LeftIs
    <3> QED
      BY <3>1 DEF DataOK, LeftFrom, Reads
  <2>5. ScanShape'
    BY <1>2, <2>2, <2>3 DEF ScanShape, Idle, Nothing
  <2> QED
    BY <2>4, <2>5
<1>3. CASE scan' = scan
  <2>2. CASE \E i \in 1..4 : scan.left = LeftFrom(i)
    <3>1. PICK i \in 1..4 : scan.left = LeftFrom(i)
      BY <2>2
    <3>2. PICK t, w, d : t = Reads[i][1] /\ w = scan.window /\ d = scan.data
      OBVIOUS
    <3>3. DataOf(t, w, d)
      BY <3>1, <3>2 DEF DetectorInv, DataOK
    <3>4. DataOf(t, w, d)'
      BY <3>3, DataStays
    <3>5. scan' = [window |-> w, left |-> LeftFrom(i), data |-> d]
      BY <1>1, <1>3, <3>1, <3>2 DEF ScanShape
    <3>6. d = [x \in DOMAIN d |-> d[x]]
      BY <1>1, <3>2 DEF ScanShape
    <3> QED
      BY <3>2, <3>4, <3>5, <3>6, ShapeFrom
  <2>3. CASE \A i \in 1..4 : scan.left # LeftFrom(i)
    <3>1. scan = Idle
      BY <1>1, <2>3, IdleIs DEF ScanShape
    <3> QED
      BY <1>2, <1>3, <3>1
  <2> QED
    BY <2>2, <2>3
<1>4. CASE Started
  <2>1. PICK i \in {1, 3} : \E w : scan' = [window |-> w, left |-> LeftFrom(i), data |-> Nothing]
    BY <1>4 DEF Started
  <2>2. PICK w : scan' = [window |-> w, left |-> LeftFrom(i), data |-> Nothing]
    BY <2>1
  <2>3. i \in 1..4
    OBVIOUS
  <2> QED
    BY <1>0, <2>2, <2>3, ShapeFrom
<1>5. ASSUME NEW i \in 1..4, i < 4, NextRead(scan', i)
      PROVE  Goal
  <2>1. PICK w : w = scan.window
    OBVIOUS
  <2>2. PICK j \in 1..4 : j = i + 1
    BY <1>5
  <2>3. scan' = [window |-> w, left |-> LeftFrom(j), data |-> Nothing]
    BY <1>5, <2>1, <2>2 DEF NextRead
  <2> QED
    BY <1>0, <2>3, ShapeFrom
<1>6. ASSUME NEW i \in 1..4, scan.left = LeftFrom(i), HasRead(i)
      PROVE  Goal
  <2>1. PICK w : w = scan.window
    OBVIOUS
  <2>2. PICK d : d = getDataFromProfileTW(w, Reads[i][1], Reads[i][2])
    OBVIOUS
  <2>3. DataOf(Reads[i][1], w, d) /\ d = [x \in DOMAIN d |-> d[x]]
    BY <2>2, DataRead, ReadsAre
  <2>4. DataOf(Reads[i][1], w, d)'
    <3>1. PICK t : t = Reads[i][1]
      OBVIOUS
    <3>2. DataOf(t, w, d)'
      BY <2>3, <3>1, DataStays
    <3> QED
      BY <3>1, <3>2 DEF Reads
  <2>5. scan' = [window |-> w, left |-> LeftFrom(i), data |-> d]
    BY <1>6, <2>1, <2>2 DEF HasRead
  <2> QED
    BY <2>3, <2>4, <2>5, ShapeFrom
<1>7. ASSUME NEW i \in 1..4, scan.left = LeftFrom(i), NEW k, Less(scan', k)
      PROVE  Goal
  <2>1. PICK w, d, e : w = scan.window /\ d = scan'.data /\ e = scan.data
    OBVIOUS
  <2>2. /\ scan' = [window |-> w, left |-> LeftFrom(i), data |-> d]
        /\ d = [x \in DOMAIN d |-> d[x]]
        /\ DOMAIN d \subseteq DOMAIN e /\ \A x \in DOMAIN d : d[x] = e[x]
    BY <1>7, <2>1 DEF Less
  <2>3. DataOf(Reads[i][1], w, e)
    BY <1>7, <2>1 DEF DetectorInv, DataOK
  <2>4. DataOf(Reads[i][1], w, d)
    BY <2>2, <2>3 DEF DataOf
  <2>5. DataOf(Reads[i][1], w, d)'
    <3>1. PICK t : t = Reads[i][1]
      OBVIOUS
    <3>2. DataOf(t, w, d)'
      BY <2>4, <3>1, DataStays
    <3> QED
      BY <3>1, <3>2 DEF Reads
  <2> QED
    BY <2>2, <2>5, ShapeFrom
<1> HIDE DEF Goal
<1>8. Goal
  BY <1>2, <1>3, <1>4, <1>5, <1>6, <1>7, NextMoves DEF Moves, Goal
<1> QED
  BY <1>8 DEF Goal

LEMMA ReportedType ==
    ASSUME CacheOK, NEW type, NEW k
    PROVE  Reported(type, k) \in Nat
BY DEF CacheOK, Reported, At

LEMMA AmountType ==
    ASSUME FeatureInv, NEW type \in Type, DataOf(type, scan.window, scan.data),
           NEW k \in DOMAIN scan.data
    PROVE  /\ Amount(type, k) \in Nat
           /\ IsFiniteSet(Tried(type, <<scan.window, k>>))
           /\ Amount(type, k) <= Cardinality(Tried(type, <<scan.window, k>>))
<1> DEFINE S == IF type = "PortScanType2" THEN DOMAIN scan.data[k] \ resolved
                ELSE DOMAIN scan.data[k]
<1>1. S \subseteq Tried(type, <<scan.window, k>>)
  BY DEF DataOf
<1>2. IsFiniteSet(Tried(type, <<scan.window, k>>))
  BY TriedType DEF Tried
<1>3. Amount(type, k) = Cardinality(S)
  BY DEF Amount
<1> HIDE DEF S
<1>4. IsFiniteSet(S) /\ Cardinality(S) <= Cardinality(Tried(type, <<scan.window, k>>))
  BY <1>1, <1>2, FS_Subset
<1>5. Cardinality(S) \in Nat
  BY <1>4, FS_CardinalityType
<1> QED
  BY <1>2, <1>3, <1>4, <1>5

(* What an announcement says is new, and was really tried.                 *)
News(type, k, n) ==
    /\ n \in Nat /\ n > 0 /\ n % Minimum(type) = 0
    /\ n <= Cardinality(Tried(type, <<scan.window, k>>))
    /\ scan.window \in Windows /\ k \in Keys(type)
    /\ Reported(type, k) < n
    /\ \E e \in Reports :
          /\ e.type = type /\ e.window = scan.window /\ e.key = k /\ e.n = n
          /\ evidence' = Append(evidence, e)

LEMMA AnnouncedIs ==
    ASSUME FeatureInv, CacheOK, NEW type \in Type, NEW proto \in {"TCP", "UDP"},
           NEW k \in DOMAIN scan.data, DataOf(type, scan.window, scan.data),
           NEW n, Announced(type, proto, k, n)
    PROVE  News(type, k, n)
<1>1. /\ n = Amount(type, k) /\ n % Minimum(type) = 0 /\ Reported(type, k) < n
      /\ \E pkts \in Nat : evidence' = Append(evidence,
            [type |-> type, window |-> scan.window, key |-> k, proto |-> proto,
             n |-> n, pkts |-> pkts])
  BY DEF Announced, Due
<1>2. n \in Nat /\ n <= Cardinality(Tried(type, <<scan.window, k>>))
  BY <1>1, AmountType
<1>3. n > 0
  BY <1>1, <1>2, ReportedType
<1>4. scan.window \in Windows /\ k \in Keys(type)
  BY DEF DataOf
<1>5. k \in Port \cup Ip
  BY <1>4 DEF Keys
<1>6. PICK pkts \in Nat : evidence' = Append(evidence,
            [type |-> type, window |-> scan.window, key |-> k, proto |-> proto,
             n |-> n, pkts |-> pkts])
  BY <1>1
<1> DEFINE e == [type |-> type, window |-> scan.window, key |-> k, proto |-> proto,
                 n |-> n, pkts |-> pkts]
<1>7. e \in Reports
  BY <1>2, <1>4, <1>5 DEF Reports
<1>8. /\ e.type = type /\ e.window = scan.window /\ e.key = k /\ e.n = n
      /\ evidence' = Append(evidence, e)
  BY <1>6
<1> HIDE DEF e
<1> QED
  BY <1>1, <1>2, <1>3, <1>4, <1>7, <1>8 DEF News

LEMMA AnnouncedKeeps ==
    ASSUME FeatureInv, CacheOK, NEW type \in Type, NEW proto \in {"TCP", "UDP"},
           NEW k \in DOMAIN scan.data, DataOf(type, scan.window, scan.data),
           NEW n, Announced(type, proto, k, n)
    PROVE  CacheOK'
<1>0. /\ n \in Nat \ {0} /\ Reported(type, k) < n
      /\ \E e \in Reports :
            /\ e.type = type /\ e.window = scan.window /\ e.key = k /\ e.n = n
            /\ evidence' = Append(evidence, e)
  <2>1. News(type, k, n)
    BY AnnouncedIs
  <2> QED
    BY <2>1 DEF News
<1>1. PICK c, cache, new : /\ c = <<type, scan.window, k>>
                           /\ cache = cache_det_thresholds /\ new = cache_det_thresholds'
  OBVIOUS
<1>2. new = [j \in DOMAIN cache \cup {c} |-> IF j = c THEN n ELSE cache[j]]
  BY <1>1 DEF Announced, Put
<1>3. PICK e \in Reports : /\ e.type = type /\ e.window = scan.window /\ e.key = k /\ e.n = n
                           /\ evidence' = Append(evidence, e)
  BY <1>0
<1>4. n \in Nat \ {0} /\ Cached(e) = c
  BY <1>0, <1>1, <1>3 DEF Cached
<1>5. PICK old, more : old = evidence /\ more = evidence'
  OBVIOUS
<1>6. old \in Seq(Reports) /\ more = Append(old, e)
  BY <1>3, <1>5 DEF CacheOK
<1>7. /\ more \in Seq(Reports) /\ Len(more) = Len(old) + 1 /\ more[Len(more)] = e
      /\ \A i \in 1..Len(old) : more[i] = old[i]
  BY <1>6
<1>8. c \in DOMAIN cache => cache[c] \in Nat /\ cache[c] < n
  <2>1. c \in DOMAIN cache => Reported(type, k) = cache[c] /\ cache[c] \in Nat
    BY <1>1 DEF Reported, At, CacheOK
  <2> QED
    BY <1>0, <2>1
<1>9. ASSUME NEW i \in 1..Len(more)
      PROVE  /\ more[i].n > 0 /\ Cached(more[i]) \in DOMAIN new
             /\ more[i].n <= new[Cached(more[i])]
  <2>1. CASE i = Len(more)
    <3>1. more[i].n = n /\ Cached(more[i]) = c /\ c \in DOMAIN new /\ new[c] = n
      BY <1>2, <1>3, <1>4, <1>7, <2>1
    <3> QED
      BY <1>4, <3>1
  <2>2. CASE i # Len(more)
    <3>1. i \in 1..Len(old) /\ more[i] = old[i]
      BY <1>6, <1>7, <2>2
    <3>2. /\ old[i].n > 0 /\ Cached(old[i]) \in DOMAIN cache
          /\ old[i].n <= cache[Cached(old[i])]
      BY <1>1, <1>5, <3>1 DEF CacheOK
    <3>3. old[i].n \in Nat
      <4>1. old[i] \in Reports
        BY <1>6, <3>1
      <4> QED
        BY <4>1 DEF Reports
    <3>4. CASE Cached(old[i]) = c
      <4>1. new[c] = n /\ c \in DOMAIN new
        BY <1>2
      <4> QED
        BY <1>4, <1>8, <3>1, <3>2, <3>3, <3>4, <4>1
    <3>5. CASE Cached(old[i]) # c
      <4>1. Cached(old[i]) \in DOMAIN new /\ new[Cached(old[i])] = cache[Cached(old[i])]
        BY <1>2, <3>2, <3>5
      <4> QED
        BY <3>1, <3>2, <4>1
    <3> QED
      BY <3>4, <3>5
  <2> QED
    BY <2>1, <2>2
<1>10. ASSUME NEW d \in DOMAIN new
       PROVE  /\ new[d] \in Nat
              /\ \E i \in 1..Len(more) : d = Cached(more[i]) /\ more[i].n = new[d]
  <2>1. CASE d = c
    <3>1. new[d] = n
      BY <1>2, <2>1
    <3>2. Len(more) \in 1..Len(more)
      BY <1>6, <1>7
    <3> QED
      BY <1>3, <1>4, <1>7, <2>1, <3>1, <3>2
  <2>2. CASE d # c
    <3>1. d \in DOMAIN cache /\ new[d] = cache[d]
      BY <1>2, <2>2
    <3>2. PICK i \in 1..Len(old) : d = Cached(old[i]) /\ old[i].n = cache[d]
      BY <1>1, <1>5, <3>1 DEF CacheOK
    <3>3. cache[d] \in Nat
      BY <1>1, <3>1 DEF CacheOK
    <3>4. i \in 1..Len(more) /\ more[i] = old[i]
      BY <1>6, <1>7
    <3> QED
      BY <3>1, <3>2, <3>3, <3>4
  <2> QED
    BY <2>1, <2>2
<1>11. /\ \A i \in 1..Len(more) : /\ more[i].n > 0 /\ Cached(more[i]) \in DOMAIN new
                                  /\ more[i].n <= new[Cached(more[i])]
       /\ \A d \in DOMAIN new : /\ new[d] \in Nat
              /\ \E i \in 1..Len(more) : d = Cached(more[i]) /\ more[i].n = new[d]
  BY <1>9, <1>10
<1> QED
  BY <1>1, <1>5, <1>7, <1>11 DEF CacheOK, Cached

LEMMA CacheKept ==
    ASSUME FeatureInv, DetectorInv, [Next]_vars
    PROVE  CacheOK'
<1>1. CacheOK
  BY DEF DetectorInv
<1>2. ASSUME UNCHANGED <<evidence, cache_det_thresholds>> PROVE CacheOK'
  BY <1>1, <1>2 DEF CacheOK, Cached
<1>3. CASE Check
  <2>1. PICK i \in 1..4, k \in DOMAIN scan.data :
             /\ DataOf(Reads[i][1], scan.window, scan.data)
             /\ \/ Announced(Reads[i][1], Reads[i][2], k, Amount(Reads[i][1], k))
                \/ UNCHANGED <<evidence, cache_det_thresholds>>
    BY <1>3, CheckSteps
  <2>2. Reads[i][1] \in Type /\ Reads[i][2] \in {"TCP", "UDP"}
    BY ReadsAre
  <2>3. PICK type \in Type, proto \in {"TCP", "UDP"} :
            type = Reads[i][1] /\ proto = Reads[i][2]
    BY <2>2
  <2>6. PICK n : n = Amount(type, k)
    OBVIOUS
  <2>4. DataOf(type, scan.window, scan.data) /\ n \in Nat
    BY <2>1, <2>3, <2>6, AmountType
  <2>5. Announced(type, proto, k, n) \/ UNCHANGED <<evidence, cache_det_thresholds>>
    BY <2>1, <2>3, <2>6
  <2> QED
    BY <1>1, <1>2, <2>4, <2>5, AnnouncedKeeps
<1>4. CASE Message \/ Read \/ (\E ip \in Ip : Resolve(ip))
  BY <1>2, <1>4 DEF Message, Read, Resolve
<1>5. CASE UNCHANGED scanVars
  BY <1>2, <1>5 DEF scanVars
<1>6. CASE UNCHANGED vars
  BY <1>2, <1>6 DEF vars, scanVars
<1> QED
  BY <1>3, <1>4, <1>5, <1>6 DEF Next, Detector

LEMMA DetectorInvariance == Spec => []DetectorInv
<1>1. Init => DetectorInv
  <2> SUFFICES ASSUME Init PROVE DetectorInv
    OBVIOUS
  <2>1. scan = Idle /\ evidence = <<>> /\ cache_det_thresholds = Nothing
    BY DEF Init, ScanInit
  <2>2. ScanShape
    <3>1. scan.left = LeftFrom(5)
      BY <2>1, LeftIs DEF Idle
    <3>2. /\ scan = [window |-> scan.window, left |-> scan.left, data |-> scan.data]
          /\ scan.data = [x \in DOMAIN scan.data |-> scan.data[x]]
      BY <2>1 DEF Idle, Nothing
    <3> QED
      BY <2>1, <3>1, <3>2 DEF ScanShape
  <2>3. DataOK
    <3>1. DOMAIN scan.data = {}
      BY <2>1 DEF Idle, Nothing
    <3> QED
      BY <3>1 DEF DataOK, DataOf
  <2>4. CacheOK
    BY <2>1 DEF CacheOK, Nothing
  <2> QED
    BY <2>2, <2>3, <2>4 DEF DetectorInv
<1>2. FeatureInv /\ DetectorInv /\ [Next]_vars => DetectorInv'
  BY ShapeKept, CacheKept DEF DetectorInv
<1> QED
  BY <1>1, <1>2, FeatureInvariance, PTL DEF Spec

(* How often an address was met is counted from one on.                    *)
ContactsOK == \A k \in DOMAIN contacts : contacts[k] \in Nat \ {0}

LEMMA ContactsInvariance == Spec => []ContactsOK
<1>1. Init => ContactsOK
  BY DEF Init, FeaturesInit, ContactsOK, Nothing
<1>2. ASSUME ContactsOK, [Next]_vars PROVE ContactsOK'
  <2>1. ASSUME NEW role, add_ips(role) PROVE ContactsOK'
    <3>1. PICK c : contacts' = Counted(contacts, c, 1)
      BY <2>1 DEF add_ips
    <3>2. contacts' = [j \in DOMAIN contacts \cup {c} |->
                          IF j = c THEN At(contacts, c, 0) + 1 ELSE contacts[j]]
      BY <3>1 DEF Counted, Put
    <3>3. At(contacts, c, 0) \in Nat
      BY <1>2 DEF ContactsOK, At
    <3> QED
      BY <1>2, <3>2, <3>3 DEF ContactsOK
  <2>2. ASSUME contacts' = contacts PROVE ContactsOK'
    BY <1>2, <2>2 DEF ContactsOK
  <2>3. CASE StoreFeature
    <3>1. ASSUME NEW role, NEW t, add_tuple(role) \/ add_port(role, t) \/ add_flow(role)
          PROVE  contacts' = contacts
      BY <3>1 DEF add_tuple, add_port, add_flow, tables
    <3> QED
      BY <2>1, <2>2, <2>3, <3>1 DEF StoreFeature
  <2>4. CASE \E f \in Flow : ReadFlow(f)
    BY <2>2, <2>4 DEF ReadFlow, tables
  <2>5. CASE Detector
    BY <2>2, <2>5 DEF Detector, Message, Read, Check, featureVars, tables
  <2>6. CASE \E ip \in Ip : Resolve(ip)
    BY <2>2, <2>6 DEF Resolve, featureVars, tables
  <2>7. CASE UNCHANGED vars
    BY <2>2, <2>7 DEF vars, featureVars, tables
  <2> QED
    BY <1>2, <2>3, <2>4, <2>5, <2>6, <2>7 DEF Next
<1> QED
  BY <1>1, <1>2, PTL DEF Spec

(* Type correctness of the features and of the detector (see TypeOK), for  *)
(* any flows, addresses, ports and thresholds.                             *)
THEOREM TypeCorrect == Spec => []TypeOK
<1>1. FeatureInv /\ LettersInv /\ ContactsOK /\ DetectorInv => TypeOK
  <2> SUFFICES ASSUME FeatureInv, LettersInv, ContactsOK, DetectorInv PROVE TypeOK
    OBVIOUS
  <2>1. ASSUME NEW k \in DOMAIN tuples
        PROVE  /\ tuples[k].letters # <<>>
               /\ tuples[k].times \in Nat \X (Nat \ {0})
    <3>1. PICK h : h = HistoryOf(k)
      OBVIOUS
    <3>2. /\ tuples[k].letters # <<>> /\ tuples[k].letters \in Seq(Symbols)
          /\ Len(tuples[k].letters) = Len(h) /\ tuples[k].times = TimesOf(h)
      BY <3>1 DEF LettersInv, LettersOf
    <3>3. h \in Seq(Flow)
      BY <3>1, HistoryIs DEF FeatureInv
    <3>4. Len(h) \in Nat /\ Len(h) > 0
      BY <3>2, <3>3
    <3>5. \A i \in 1..Len(h) : h[i].ts \in Nat \ {0}
      BY <3>3, FlowFeaturesAssumption
    <3>6. TimesOf(h) \in Nat \X (Nat \ {0})
      BY <3>4, <3>5 DEF TimesOf
    <3> QED
      BY <3>2, <3>6
  <2>2. \A k \in DOMAIN ips : DOMAIN ips[k] \subseteq Port /\ DOMAIN ips[k] # {}
    BY IpKeyIs
  <2>3. \A k \in DOMAIN ports : DOMAIN ports[k] \subseteq Ip /\ DOMAIN ports[k] # {}
    BY PortKeyIs
  <2>4. ASSUME NEW i \in 1..Len(evidence)
        PROVE  evidence[i].n \in Nat \ {0} /\ evidence[i].pkts \in Nat
    <3>1. evidence[i] \in Reports /\ evidence[i].n > 0
      BY DEF DetectorInv, CacheOK
    <3>2. evidence[i].n \in Nat /\ evidence[i].pkts \in Nat
      BY <3>1 DEF Reports
    <3> QED
      BY <3>1, <3>2
  <2>5. scan.left = <<>> => scan = Idle
    BY DEF DetectorInv, ScanShape
  <2> QED
    BY <2>1, <2>2, <2>3, <2>4, <2>5 DEF TypeOK, ContactsOK
<1> QED
  BY <1>1, FeatureInvariance, LettersInvariance, ContactsInvariance, DetectorInvariance, PTL

-----------------------------------------------------------------------------
(* No horizontal scan is missed *)

(* The scans that are to be reported *)
IsScan(k) ==
    /\ k.role = "Client" /\ k.type = "Dst" /\ k.state = "NotEstablished"
    /\ k.proto \in {"TCP", "UDP"} /\ k.window[1] \notin Multicast \cup Ipv6
    /\ Cardinality(DOMAIN ports[k]) % port_scan_minimum_dips_threshold = 0
    /\ DOMAIN ports[k] \cap resolved = {}

(* The read of a message that covers them, the first or the second *)
ReadOf(k) == IF k.proto = "TCP" THEN 1 ELSE 2

(* The scan is in a read still to come, or in what has been read and is    *)
(* not checked yet.                                                        *)
ToBeRead(k) ==
    /\ scan.window = k.window
    /\ \E i \in 1..4 : /\ scan.left = LeftFrom(i) /\ i <= ReadOf(k)
                       /\ \/ i < ReadOf(k)
                          \/ scan.data = Nothing
                          \/ /\ k.port \in DOMAIN scan.data
                             /\ DOMAIN scan.data[k.port] = DOMAIN ports[k]

IsReported(k) ==
    ReportedUpTo("PortScanType2", k.window, k.port, Cardinality(DOMAIN ports[k]))

Modified == {WindowOf(f, r) : f \in Flow, r \in Active}

NoneMissed ==
    \A k \in DOMAIN ports :
        IsScan(k) => IsReported(k) \/ k.window \in Range(tw_modified) \/ ToBeRead(k)

MissedInv == tw_modified \in Seq(Modified) /\ NoneMissed

LEMMA RangeOf ==
    ASSUME NEW S, NEW s \in Seq(S)
    PROVE  /\ \A e \in S : Append(s, e) \in Seq(S) /\ Range(Append(s, e)) = Range(s) \cup {e}
           /\ s # <<>> => /\ Tail(s) \in Seq(S)
                          /\ \A x \in Range(s) : x = Head(s) \/ x \in Range(Tail(s))
<1>1. ASSUME NEW e \in S
      PROVE  Append(s, e) \in Seq(S) /\ Range(Append(s, e)) = Range(s) \cup {e}
  <2>1. PICK t : t = Append(s, e)
    OBVIOUS
  <2>2. /\ t \in Seq(S) /\ Len(t) = Len(s) + 1 /\ t[Len(s) + 1] = e
        /\ \A i \in 1..Len(s) : t[i] = s[i]
    BY <2>1
  <2>3. Len(s) \in Nat /\ DOMAIN t = 1..(Len(s) + 1) /\ DOMAIN s = 1..Len(s)
    BY <2>2
  <2>4. \A x : x \in Range(t) <=> x \in Range(s) \/ x = e
    <3>1. \A x : x \in Range(t) <=> \E i \in 1..(Len(s) + 1) : x = t[i]
      BY <2>3 DEF Range
    <3>2. \A x : x \in Range(s) <=> \E i \in 1..Len(s) : x = s[i]
      BY <2>3 DEF Range
    <3>3. \A i \in 1..(Len(s) + 1) : i \in 1..Len(s) \/ i = Len(s) + 1
      BY <2>3
    <3>4. Len(s) + 1 \in 1..(Len(s) + 1) /\ 1..Len(s) \subseteq 1..(Len(s) + 1)
      BY <2>3
    <3> QED
      BY <2>2, <3>1, <3>2, <3>3, <3>4
  <2> QED
    BY <2>1, <2>2, <2>4
<1>2. ASSUME s # <<>>
      PROVE  /\ Tail(s) \in Seq(S)
             /\ \A x \in Range(s) : x = Head(s) \/ x \in Range(Tail(s))
  <2>1. PICK t : t = Tail(s)
    OBVIOUS
  <2>2. /\ t \in Seq(S) /\ Len(t) = Len(s) - 1 /\ \A i \in 1..(Len(s) - 1) : t[i] = s[i + 1]
        /\ Head(s) = s[1] /\ Len(s) \in Nat
    BY <1>2, <2>1
  <2>3. ASSUME NEW x \in Range(s), x # Head(s) PROVE x \in Range(t)
    <3>1. PICK i \in 1..Len(s) : x = s[i]
      BY DEF Range
    <3>2. i - 1 \in 1..(Len(s) - 1) /\ t[i - 1] = s[(i - 1) + 1] /\ (i - 1) + 1 = i
      BY <2>2, <2>3, <3>1
    <3> QED
      BY <2>2, <3>1, <3>2 DEF Range
  <2> QED
    BY <2>1, <2>2, <2>3
<1> QED
  BY <1>1, <1>2

LEMMA ReportedStays ==
    ASSUME NEW S, evidence \in Seq(S),
           evidence' = evidence \/ \E e \in S : evidence' = Append(evidence, e)
    PROVE  \A type, w, k, n : ReportedUpTo(type, w, k, n) => ReportedUpTo(type, w, k, n)'
<1>1. \A i \in 1..Len(evidence) : i \in 1..Len(evidence') /\ evidence'[i] = evidence[i]
  <2>1. ASSUME NEW e \in S, evidence' = Append(evidence, e)
        PROVE  \A i \in 1..Len(evidence) : i \in 1..Len(evidence') /\ evidence'[i] = evidence[i]
    BY <2>1
  <2> QED
    BY <2>1
<1> QED
  BY <1>1 DEF ReportedUpTo

(* What is on its way stays on its way while neither reads nor reports     *)
(* change.                                                                 *)
LEMMA OnItsWay ==
    ASSUME NoneMissed, NEW k \in DOMAIN ports', k \in DOMAIN ports, ports'[k] = ports[k],
           IsScan(k)', resolved \subseteq resolved', UNCHANGED <<scan, evidence>>,
           Range(tw_modified) \subseteq Range(tw_modified')
    PROVE  (IsReported(k) \/ k.window \in Range(tw_modified) \/ ToBeRead(k))'
<1>1. IsScan(k)
  BY DEF IsScan
<1>2. IsReported(k) => IsReported(k)'
  BY DEF IsReported, ReportedUpTo
<1>3. ToBeRead(k) => ToBeRead(k)'
  BY DEF ToBeRead, ReadOf, LeftFrom, Reads, Nothing
<1> QED
  BY <1>1, <1>2, <1>3 DEF NoneMissed

LEMMA AddPortMisses ==
    ASSUME TodoOK, MissedInv, NEW role, NEW t \in Types, add_port(role, t),
           UNCHANGED scanVars
    PROVE  MissedInv'
<1>1. PICK K, w, d, n : /\ K = PortKeyOf(Current, role, t) /\ w = WindowOf(Current, role)
                        /\ d = Current.daddr /\ n = Current.pkts
  OBVIOUS
<1>2. K.window = w
  BY <1>1 DEF PortKeyOf
<1>3. Storing(role, FeatureOf(t)) /\ tw_modified' = Append(tw_modified, w)
  BY <1>1 DEF add_port, FeatureOf, markProfileTWAsModified
<1>4. role \in Active /\ Current \in Flow
  BY <1>3, StoringIs
<1>5. w \in Modified
  BY <1>1, <1>4 DEF Modified
<1>6. tw_modified' \in Seq(Modified) /\ Range(tw_modified') = Range(tw_modified) \cup {w}
  BY <1>3, <1>5, RangeOf DEF MissedInv
<1>7. ports' = Put(ports, K, Counted(At(ports, K, Nothing), d, n))
  BY <1>1 DEF add_port, PortKeyOf
<1>8. DOMAIN ports' = DOMAIN ports \cup {K} /\ \A j \in DOMAIN ports : j # K => ports'[j] = ports[j]
  BY <1>7 DEF Put
<1>9. UNCHANGED <<scan, evidence>> /\ resolved \subseteq resolved'
  BY DEF scanVars
<1>10. ASSUME NEW k \in DOMAIN ports', IsScan(k)'
       PROVE  (IsReported(k) \/ k.window \in Range(tw_modified) \/ ToBeRead(k))'
  <2>1. CASE k = K
    BY <1>2, <1>6, <2>1
  <2>2. CASE k # K
    <3>1. k \in DOMAIN ports /\ ports'[k] = ports[k]
      BY <1>8, <2>2
    <3> QED
      BY <1>6, <1>9, <1>10, <3>1, OnItsWay DEF MissedInv
  <2> QED
    BY <2>1, <2>2
<1> QED
  BY <1>6, <1>10 DEF MissedInv, NoneMissed

LEMMA SameMisses ==
    ASSUME MissedInv, tw_modified' \in Seq(Modified), ports' = ports,
           resolved \subseteq resolved', UNCHANGED <<scan, evidence>>,
           Range(tw_modified) \subseteq Range(tw_modified')
    PROVE  MissedInv'
<1>1. ASSUME NEW k \in DOMAIN ports', IsScan(k)'
      PROVE  (IsReported(k) \/ k.window \in Range(tw_modified) \/ ToBeRead(k))'
  BY <1>1, OnItsWay DEF MissedInv
<1>2. Modified' = Modified
  BY DEF Modified, WindowOf, Active
<1> QED
  BY <1>1, <1>2 DEF MissedInv, NoneMissed

LEMMA StoreMisses ==
    ASSUME TodoOK, MissedInv, StoreFeature, UNCHANGED scanVars
    PROVE  MissedInv'
<1>1. UNCHANGED <<scan, evidence>> /\ resolved \subseteq resolved'
  BY DEF scanVars
<1>2. ASSUME NEW role, NEW feature, Storing(role, feature), ports' = ports,
             tw_modified' = Append(tw_modified, WindowOf(Current, role))
      PROVE  MissedInv'
  <2>1. PICK w : w = WindowOf(Current, role)
    OBVIOUS
  <2>2. w \in Modified
    <3>1. role \in Active /\ Current \in Flow
      BY <1>2, StoringIs
    <3> QED
      BY <2>1, <3>1 DEF Modified
  <2>3. tw_modified' \in Seq(Modified) /\ Range(tw_modified) \subseteq Range(tw_modified')
    BY <1>2, <2>1, <2>2, RangeOf DEF MissedInv
  <2> QED
    BY <1>1, <1>2, <2>3, SameMisses
<1>3. ASSUME NEW role, add_tuple(role) PROVE MissedInv'
  <2>1. /\ Storing(role, "tuple") /\ ports' = ports
        /\ tw_modified' = Append(tw_modified, WindowOf(Current, role))
    BY <1>3 DEF add_tuple, markProfileTWAsModified, TupleKey
  <2> QED
    BY <1>2, <2>1
<1>4. ASSUME NEW role, add_ips(role) PROVE MissedInv'
  <2>1. /\ Storing(role, "ips") /\ ports' = ports
        /\ tw_modified' = Append(tw_modified, WindowOf(Current, role))
    BY <1>4 DEF add_ips, markProfileTWAsModified
  <2> QED
    BY <1>2, <2>1
<1>5. ASSUME NEW role, add_flow(role) PROVE MissedInv'
  <2>1. ports' = ports /\ tw_modified' = tw_modified
    BY <1>5 DEF add_flow, tables
  <2> QED
    BY <1>1, <2>1, SameMisses DEF MissedInv
<1> QED
  BY <1>3, <1>4, <1>5, AddPortMisses DEF StoreFeature, Types

LEMMA MessageMisses ==
    ASSUME ScanShape, MissedInv, Message
    PROVE  MissedInv'
<1>1. PICK w : w = Head(tw_modified)
  OBVIOUS
<1>2. /\ scan = Idle /\ tw_modified # <<>> /\ tw_modified' = Tail(tw_modified)
      /\ ports' = ports /\ resolved' = resolved /\ evidence' = evidence
      /\ scan' = [window |-> Named(w), data |-> Nothing,
                  left |-> LeftFrom(IF w[1] \in Multicast \ Ipv6 THEN 3 ELSE 1)]
  BY <1>1, MessageMoves DEF Started
<1>3. /\ tw_modified' \in Seq(Modified)
      /\ \A x \in Range(tw_modified) : x = w \/ x \in Range(tw_modified')
  BY <1>1, <1>2, RangeOf DEF MissedInv
<1>4. ASSUME NEW k \in DOMAIN ports', IsScan(k)'
      PROVE  (IsReported(k) \/ k.window \in Range(tw_modified) \/ ToBeRead(k))'
  <2>1. IsScan(k) /\ k \in DOMAIN ports
    BY <1>2, <1>4 DEF IsScan
  <2>2. IsReported(k) => IsReported(k)'
    BY <1>2 DEF IsReported, ReportedUpTo
  <2>3. ~ ToBeRead(k)
    BY <1>2, IdleIs DEF ToBeRead
  <2>4. ASSUME k.window = w PROVE ToBeRead(k)'
    <3>1. w[1] \notin Multicast /\ w[1] \notin Ipv6
      BY <2>1, <2>4 DEF IsScan
    <3>2. scan'.window = w /\ scan'.left = LeftFrom(1) /\ scan'.data = Nothing
      BY <1>2, <3>1 DEF Named
    <3>3. 1 <= ReadOf(k)
      BY DEF ReadOf
    <3> QED
      BY <2>4, <3>2, <3>3 DEF ToBeRead, ReadOf, LeftFrom, Reads, Nothing
  <2> QED
    BY <1>3, <2>1, <2>2, <2>3, <2>4 DEF MissedInv, NoneMissed
<1>5. Modified' = Modified
  BY DEF Modified, WindowOf, Active
<1> QED
  BY <1>3, <1>4, <1>5 DEF MissedInv, NoneMissed

(* What is read of a window holds all its scans of the protocol.           *)
LEMMA ScanIsRead ==
    ASSUME FeatureInv, NEW k \in DOMAIN ports, IsScan(k), NEW d,
           d = getDataFromProfileTW(k.window, "PortScanType2", k.proto)
    PROVE  k.port \in DOMAIN d /\ d[k.port] = ports[k]
<1> DEFINE K == {j \in DOMAIN ports : /\ j.window = k.window /\ j.role = "Client"
                                      /\ j.type = "Dst" /\ j.proto = k.proto
                                      /\ j.state = "NotEstablished"}
<1>1. d = [p \in {j.port : j \in K} |-> ports[CHOOSE j \in K : j.port = p]]
  BY DEF getDataFromProfileTW
<1>2. k \in K
  BY DEF IsScan
<1>3. ASSUME NEW j \in K, j.port = k.port PROVE j = k
  <2>1. PICK f \in Flow, r \in Active, t \in Types : k = PortKeyOf(f, r, t)
    BY PortKeyIs
  <2>2. PICK g \in Flow, q \in Active, u \in Types : j = PortKeyOf(g, q, u)
    BY PortKeyIs
  <2>3. /\ j.window = k.window /\ j.role = k.role /\ j.type = k.type /\ j.proto = k.proto
        /\ j.state = k.state
    BY DEF IsScan
  <2>4. /\ k = [window |-> k.window, role |-> k.role, type |-> k.type, proto |-> k.proto,
                state |-> k.state, port |-> k.port]
        /\ j = [window |-> j.window, role |-> j.role, type |-> j.type, proto |-> j.proto,
                state |-> j.state, port |-> j.port]
    BY <2>1, <2>2 DEF PortKeyOf
  <2> QED
    BY <1>3, <2>3, <2>4
<1> HIDE DEF K
<1>4. (CHOOSE j \in K : j.port = k.port) = k
  BY <1>2, <1>3
<1> QED
  BY <1>1, <1>2, <1>4

LEMMA ReadMisses ==
    ASSUME FeatureInv, ScanShape, MissedInv, Read
    PROVE  MissedInv'
<1>1. PICK i \in 1..4 :
           /\ scan.left = LeftFrom(i)
           /\ \/ HasRead(i)
              \/ /\ getDataFromProfileTW(scan.window, Reads[i][1], Reads[i][2]) = Nothing
                 /\ \/ i = 4 /\ scan' = Idle
                    \/ i < 4 /\ NextRead(scan', i)
  BY ReadMoves
<1>2. /\ ports' = ports /\ resolved' = resolved /\ evidence' = evidence
      /\ tw_modified' = tw_modified /\ scan.data = Nothing
  BY DEF Read, featureVars, tables
<1>3. ASSUME NEW j \in 1..4, scan.left = LeftFrom(j) PROVE j = i
  <2>1. LeftFrom(i) = LeftFrom(j)
    BY <1>1, <1>3
  <2>2. i \in 1..5 /\ j \in 1..5
    OBVIOUS
  <2> QED
    BY <2>1, <2>2, LeftIs
<1>4. ASSUME NEW k \in DOMAIN ports', IsScan(k)'
      PROVE  (IsReported(k) \/ k.window \in Range(tw_modified) \/ ToBeRead(k))'
  <2>1. IsScan(k) /\ k \in DOMAIN ports
    BY <1>2, <1>4 DEF IsScan
  <2>2. IsReported(k) => IsReported(k)'
    BY <1>2 DEF IsReported, ReportedUpTo
  <2>3. ASSUME ToBeRead(k) PROVE ToBeRead(k)'
    <3>1. i <= ReadOf(k) /\ scan.window = k.window
      BY <1>3, <2>3 DEF ToBeRead
    <3>2. ReadOf(k) \in 1..2 /\ Reads[ReadOf(k)] = <<"PortScanType2", k.proto>>
      BY <2>1, ReadsAre DEF ReadOf, IsScan
    <3>3. PICK d : d = getDataFromProfileTW(scan.window, Reads[i][1], Reads[i][2])
      OBVIOUS
    <3>4. i = ReadOf(k) => k.port \in DOMAIN d /\ d[k.port] = ports[k]
      <4>1. ASSUME i = ReadOf(k)
            PROVE  d = getDataFromProfileTW(k.window, "PortScanType2", k.proto)
        BY <3>1, <3>2, <3>3, <4>1
      <4> QED
        BY <2>1, <4>1, ScanIsRead
    <3>5. CASE HasRead(i)
      <4>1. scan'.window = k.window /\ scan'.left = LeftFrom(i) /\ scan'.data = d
        BY <1>1, <3>1, <3>3, <3>5 DEF HasRead
      <4>2. i < ReadOf(k) \/ (k.port \in DOMAIN d /\ DOMAIN d[k.port] = DOMAIN ports'[k])
        BY <1>2, <3>1, <3>2, <3>4
      <4> QED
        BY <3>1, <4>1, <4>2 DEF ToBeRead, ReadOf, LeftFrom, Reads
    <3>6. CASE ~ HasRead(i)
      <4>1. d = Nothing /\ (i = 4 \/ NextRead(scan', i))
        BY <1>1, <3>3, <3>6
      <4>2. i # ReadOf(k)
        BY <3>4, <4>1 DEF Nothing
      <4>3. i < ReadOf(k) /\ i + 1 \in 1..4 /\ i + 1 <= ReadOf(k)
        BY <3>1, <3>2, <4>2
      <4>4. scan'.window = k.window /\ scan'.left = LeftFrom(i + 1) /\ scan'.data = Nothing
        BY <3>1, <3>2, <4>1, <4>3 DEF NextRead
      <4> QED
        BY <4>3, <4>4 DEF ToBeRead, ReadOf, LeftFrom, Reads, Nothing
    <3> QED
      BY <3>5, <3>6
  <2> QED
    BY <1>2, <2>1, <2>2, <2>3 DEF MissedInv, NoneMissed
<1>5. Modified' = Modified
  BY DEF Modified, WindowOf, Active
<1> QED
  BY <1>2, <1>4, <1>5 DEF MissedInv, NoneMissed

LEMMA ScanIsChecked ==
    ASSUME FeatureInv, CacheOK, NEW k \in DOMAIN ports, IsScan(k), scan.window = k.window,
           NEW proto \in {"TCP", "UDP"}, DataOf("PortScanType2", scan.window, scan.data),
           k.port \in DOMAIN scan.data, DOMAIN scan.data[k.port] = DOMAIN ports[k],
           IF Due("PortScanType2", k.port, Amount("PortScanType2", k.port),
                  Minimum("PortScanType2"))
           THEN Announced("PortScanType2", proto, k.port, Amount("PortScanType2", k.port))
           ELSE UNCHANGED <<evidence, cache_det_thresholds>>,
           ports' = ports
    PROVE  IsReported(k)'
<1>1. PICK t, w, p, n, D : /\ t = "PortScanType2" /\ w = scan.window /\ p = k.port
                           /\ n = Amount("PortScanType2", k.port) /\ D = DOMAIN ports[k]
  OBVIOUS
<1>2. n = Cardinality(D) /\ n % Minimum(t) = 0
  <2>1. D \ resolved = D
    BY <1>1 DEF IsScan
  <2>2. n = Cardinality(D \ resolved)
    BY <1>1 DEF Amount
  <2> QED
    BY <1>1, <2>1, <2>2 DEF IsScan, Minimum
<1>3. t \in Type /\ n \in Nat
  <2>1. t \in Type
    BY <1>1 DEF Type
  <2> QED
    BY <1>1, <2>1, AmountType
<1>4. n > 0
  <2>1. D # {} /\ D \subseteq Ip
    BY <1>1, PortKeyIs
  <2>2. IsFiniteSet(D)
    BY <2>1, FS_Subset, PortScanAssumption
  <2>3. Cardinality(D) # 0
    BY <2>1, <2>2, FS_EmptySet
  <2> QED
    BY <1>2, <1>3, <2>3
<1>5. CASE Due(t, p, n, Minimum(t))
  <2>1. Announced(t, proto, p, n) /\ p \in DOMAIN scan.data /\ DataOf(t, scan.window, scan.data)
    BY <1>1, <1>5
  <2>2. News(t, p, n)
    BY <1>3, <2>1, AnnouncedIs
  <2>3. PICK e \in Reports : /\ e.type = t /\ e.window = w /\ e.key = p /\ e.n = n
                             /\ evidence' = Append(evidence, e)
    BY <1>1, <2>2 DEF News
  <2>4. /\ Len(evidence') \in 1..Len(evidence') /\ evidence'[Len(evidence')] = e
    <3>1. evidence \in Seq(Reports)
      BY DEF CacheOK
    <3> QED
      BY <2>3, <3>1
  <2>5. n >= n
    BY <1>3
  <2>6. \E i \in 1..Len(evidence') : /\ evidence'[i].type = t /\ evidence'[i].window = w
                                     /\ evidence'[i].key = p /\ evidence'[i].n >= n
    BY <2>3, <2>4, <2>5
  <2> QED
    BY <1>1, <1>2, <2>6 DEF IsReported, ReportedUpTo
<1>6. CASE ~ Due(t, p, n, Minimum(t))
  <2>1. UNCHANGED <<evidence, cache_det_thresholds>>
    BY <1>1, <1>6
  <2>2. PICK c, m : c = <<t, w, p>> /\ m = Reported(t, p)
    OBVIOUS
  <2>3. m \in Nat /\ ~ (m < n)
    <3>1. m \in Nat
      BY <2>2, ReportedType
    <3> QED
      BY <1>2, <1>6, <2>2, <3>1 DEF Due
  <2>4. c \in DOMAIN cache_det_thresholds /\ cache_det_thresholds[c] = m
    <3>1. m # 0
      BY <1>3, <1>4, <2>3
    <3> QED
      BY <1>1, <2>2, <3>1 DEF Reported, At
  <2>5. PICK i \in 1..Len(evidence) : c = Cached(evidence[i]) /\ evidence[i].n = m
    BY <2>4 DEF CacheOK
  <2>6. /\ evidence[i].type = t /\ evidence[i].window = w /\ evidence[i].key = p
        /\ evidence[i].n >= n
    <3>1. m >= n
      BY <1>3, <2>3
    <3> QED
      BY <2>2, <2>5, <3>1 DEF Cached
  <2> QED
    BY <1>1, <1>2, <2>1, <2>6 DEF IsReported, ReportedUpTo
<1> QED
  BY <1>5, <1>6

LEMMA CheckMisses ==
    ASSUME FeatureInv, DetectorInv, MissedInv, Check
    PROVE  MissedInv'
<1>1. PICK i \in 1..4, x \in DOMAIN scan.data :
           /\ scan.left = LeftFrom(i) /\ DataOf(Reads[i][1], scan.window, scan.data)
           /\ \/ /\ scan' = Without(x)
                 /\ IF Due(Reads[i][1], x, Amount(Reads[i][1], x), Minimum(Reads[i][1]))
                    THEN Announced(Reads[i][1], Reads[i][2], x, Amount(Reads[i][1], x))
                    ELSE UNCHANGED <<evidence, cache_det_thresholds>>
              \/ /\ scan' = Idle /\ i > 2
                 /\ UNCHANGED <<evidence, cache_det_thresholds>>
  BY CheckSteps
<1>2. ports' = ports /\ resolved' = resolved /\ tw_modified' = tw_modified
  BY DEF Check, featureVars, tables
<1>3. /\ scan.data # Nothing /\ ScanShape /\ CacheOK
      /\ \A j \in 1..4 : scan.left = LeftFrom(j) => j = i
  BY <1>1, LeftIs DEF Check, DetectorInv
<1>4. Reads[i][1] \in Type /\ Reads[i][2] \in {"TCP", "UDP"}
  BY ReadsAre
<1>5. \A type, w, k, n : ReportedUpTo(type, w, k, n) => ReportedUpTo(type, w, k, n)'
  <2>1. PICK type \in Type, proto \in {"TCP", "UDP"} :
             type = Reads[i][1] /\ proto = Reads[i][2]
    BY <1>4
  <2>2. PICK n : n = Amount(type, x)
    OBVIOUS
  <2>3. Announced(type, proto, x, n) \/ evidence' = evidence
    BY <1>1, <2>1, <2>2
  <2>4. ASSUME Announced(type, proto, x, n)
        PROVE  \E e \in Reports : evidence' = Append(evidence, e)
    <3>1. News(type, x, n)
      BY <1>1, <1>3, <2>1, <2>4, AnnouncedIs
    <3> QED
      BY <3>1 DEF News
  <2>5. evidence \in Seq(Reports)
    BY <1>3 DEF CacheOK
  <2> QED
    BY <2>3, <2>4, <2>5, ReportedStays
<1>6. ASSUME NEW k \in DOMAIN ports', IsScan(k)'
      PROVE  (IsReported(k) \/ k.window \in Range(tw_modified) \/ ToBeRead(k))'
  <2>1. IsScan(k) /\ k \in DOMAIN ports
    BY <1>2, <1>6 DEF IsScan
  <2>2. IsReported(k) => IsReported(k)'
    <3>1. PICK w, p, n : w = k.window /\ p = k.port /\ n = Cardinality(DOMAIN ports[k])
      OBVIOUS
    <3>2. IsReported(k) => ReportedUpTo("PortScanType2", w, p, n)'
      BY <1>5, <3>1 DEF IsReported
    <3> QED
      BY <1>2, <3>1, <3>2 DEF IsReported, ReportedUpTo
  <2>3. ASSUME ToBeRead(k) PROVE IsReported(k)' \/ ToBeRead(k)'
    <3>1. /\ i <= ReadOf(k) /\ scan.window = k.window
          /\ \/ i < ReadOf(k)
             \/ /\ k.port \in DOMAIN scan.data
                /\ DOMAIN scan.data[k.port] = DOMAIN ports[k]
      BY <1>3, <2>3 DEF ToBeRead
    <3>2. ReadOf(k) \in 1..2 /\ i <= 2
      BY <3>1 DEF ReadOf
    <3>3. Reads[i][1] = "PortScanType2"
      BY <3>2, ReadsAre
    <3>4. /\ scan' = Without(x)
          /\ IF Due("PortScanType2", x, Amount("PortScanType2", x), Minimum("PortScanType2"))
             THEN Announced("PortScanType2", Reads[i][2], x, Amount("PortScanType2", x))
             ELSE UNCHANGED <<evidence, cache_det_thresholds>>
      BY <1>1, <3>2, <3>3
    <3>5. \/ Less(scan', x)
          \/ DOMAIN scan.data = {x} /\ i < 4 /\ NextRead(scan', i)
      BY <1>1, <1>3, <3>2, <3>4, WithoutIs
    <3>6. ASSUME i < ReadOf(k) PROVE ToBeRead(k)'
      <4>1. CASE Less(scan', x)
        <5>1. scan'.window = k.window /\ scan'.left = LeftFrom(i)
          BY <1>1, <3>1, <4>1 DEF Less
        <5> QED
          BY <3>6, <5>1 DEF ToBeRead, ReadOf, LeftFrom, Reads
      <4>2. CASE NextRead(scan', i)
        <5>1. scan'.window = k.window /\ scan'.left = LeftFrom(i + 1) /\ scan'.data = Nothing
          BY <3>1, <4>2 DEF NextRead
        <5>2. i + 1 \in 1..4 /\ i + 1 <= ReadOf(k)
          BY <3>2, <3>6
        <5> QED
          BY <5>1, <5>2 DEF ToBeRead, ReadOf, LeftFrom, Reads, Nothing
      <4> QED
        BY <3>5, <4>1, <4>2
    <3>7. ASSUME i = ReadOf(k), x # k.port PROVE ToBeRead(k)'
      <4>1. k.port \in DOMAIN scan.data /\ DOMAIN scan.data[k.port] = DOMAIN ports[k]
        BY <3>1, <3>7
      <4>2. Less(scan', x)
        BY <3>5, <3>7, <4>1
      <4>3. /\ scan'.window = k.window /\ scan'.left = LeftFrom(i)
            /\ k.port \in DOMAIN scan'.data /\ scan'.data[k.port] = scan.data[k.port]
        BY <1>1, <3>1, <3>7, <4>1, <4>2 DEF Less
      <4> QED
        BY <1>2, <3>1, <4>1, <4>3 DEF ToBeRead, ReadOf, LeftFrom, Reads
    <3>8. ASSUME i = ReadOf(k), x = k.port PROVE IsReported(k)'
      <4>1. k.port \in DOMAIN scan.data /\ DOMAIN scan.data[k.port] = DOMAIN ports[k]
        BY <3>1, <3>8
      <4>2. PICK proto \in {"TCP", "UDP"} : proto = Reads[i][2]
        BY <1>4
      <4>3. IF Due("PortScanType2", k.port, Amount("PortScanType2", k.port),
                   Minimum("PortScanType2"))
            THEN Announced("PortScanType2", proto, k.port, Amount("PortScanType2", k.port))
            ELSE UNCHANGED <<evidence, cache_det_thresholds>>
        BY <3>4, <3>8, <4>2
      <4>4. DataOf("PortScanType2", scan.window, scan.data)
        BY <1>1, <3>3
      <4> QED
        BY <1>2, <1>3, <2>1, <3>1, <4>1, <4>3, <4>4, ScanIsChecked
    <3> QED
      BY <3>1, <3>2, <3>6, <3>7, <3>8
  <2> QED
    BY <1>2, <2>1, <2>2, <2>3 DEF MissedInv, NoneMissed
<1>7. Modified' = Modified
  BY DEF Modified, WindowOf, Active
<1> QED
  BY <1>2, <1>6, <1>7 DEF MissedInv, NoneMissed

LEMMA MissedInvariance == Spec => []MissedInv
<1>1. Init => MissedInv
  BY DEF Init, FeaturesInit, MissedInv, NoneMissed, Nothing
<1>2. ASSUME FeatureInv, DetectorInv, MissedInv, [Next]_vars PROVE MissedInv'
  <2>1. TodoOK /\ ScanShape
    BY <1>2 DEF FeatureInv, DetectorInv
  <2>2. tw_modified \in Seq(Modified)
    BY <1>2 DEF MissedInv
  <2>3. ASSUME UNCHANGED <<ports, scan, evidence, tw_modified>>, resolved \subseteq resolved'
        PROVE  MissedInv'
    BY <1>2, <2>2, <2>3, SameMisses
  <2>4. CASE (\E f \in Flow : ReadFlow(f)) /\ UNCHANGED scanVars
    BY <2>3, <2>4 DEF ReadFlow, scanVars, tables
  <2>5. CASE \E ip \in Ip : Resolve(ip)
    BY <2>3, <2>5 DEF Resolve, featureVars, tables
  <2>6. CASE UNCHANGED vars
    BY <2>3, <2>6 DEF vars, featureVars, scanVars, tables
  <2> QED
    BY <1>2, <2>1, <2>4, <2>5, <2>6, StoreMisses, MessageMisses, ReadMisses, CheckMisses
       DEF Next, Detector
<1> QED
  BY <1>1, <1>2, FeatureInvariance, DetectorInvariance, PTL DEF Spec

(* No horizontal scan of an IPv4 source that came to rest at a multiple is *)
(* missed (see HorizontalScanNotMissed), for any flows, addresses, ports   *)
(* and threshold, and however the detector, the profiler and the           *)
(* resolutions take turns.                                                 *)
THEOREM NoScanIsMissed == Spec => []HorizontalScanNotMissed
<1>1. ScanShape /\ MissedInv => HorizontalScanNotMissed
  <2> SUFFICES ASSUME ScanShape, MissedInv, Quiet, NEW k \in DOMAIN ports, IsScan(k)
               PROVE  IsReported(k)
    BY DEF HorizontalScanNotMissed, IsScan, IsReported
  <2>1. scan = Idle /\ Range(tw_modified) = {}
    BY DEF Quiet, Range
  <2>2. ~ ToBeRead(k)
    BY <2>1, IdleIs DEF ToBeRead
  <2> QED
    BY <2>1, <2>2 DEF MissedInv, NoneMissed
<1>2. DetectorInv => ScanShape
  BY DEF DetectorInv
<1> QED
  BY <1>1, <1>2, DetectorInvariance, MissedInvariance, PTL

-----------------------------------------------------------------------------
(* The promise is kept *)

ReportsFor(type, k) ==
    [type : {type}, window : {k[1]}, key : {k[2]}, proto : {"TCP", "UDP"}, n : Nat, pkts : Nat]

LEMMA InReportsFor ==
    ASSUME NEW e \in Reports, NEW type, NEW k
    PROVE  e \in ReportsFor(type, k) <=> e.type = type /\ e.window = k[1] /\ e.key = k[2]
BY DEF Reports, ReportsFor

LEMMA ReportsOfIs ==
    ASSUME NEW type, NEW k
    PROVE  ReportsOf(type, k) = [i \in 1..Len(Those(evidence, ReportsFor(type, k))) |->
                                    Those(evidence, ReportsFor(type, k))[i].n]
BY DEF ReportsOf, ReportsFor

(* A report that is added to the evidence is one more of its key, and none *)
(* of any other.                                                           *)
LEMMA ReportsOneMore ==
    ASSUME CacheOK, NEW e \in Reports, evidence' = Append(evidence, e),
           NEW CONSTANT type, NEW CONSTANT k
    PROVE  ReportsOf(type, k)' =
             IF e.type = type /\ e.window = k[1] /\ e.key = k[2]
             THEN Append(ReportsOf(type, k), e.n) ELSE ReportsOf(type, k)
<1>1. PICK T, s, r : /\ T = ReportsFor(type, k) /\ s = evidence /\ r = Append(evidence, e)
  OBVIOUS
<1>2. PICK a, b : a = Those(s, T) /\ b = Those(r, T)
  OBVIOUS
<1>3. s \in Seq(Reports) /\ r = Append(s, e)
  BY <1>1 DEF CacheOK
<1>4. a \in Seq(Reports)
  BY <1>2, <1>3, ThoseType
<1>5. b = IF e \in T THEN Append(a, e) ELSE a
  BY <1>2, <1>3, ThoseAppend
<1>6. ReportsOf(type, k) = [i \in 1..Len(a) |-> a[i].n]
  BY <1>1, <1>2, ReportsOfIs
<1>7. ReportsOf(type, k)' = [i \in 1..Len(b) |-> b[i].n]
  BY <1>1, <1>2 DEF ReportsOf, ReportsFor
<1>8. e \in T <=> e.type = type /\ e.window = k[1] /\ e.key = k[2]
  BY <1>1, InReportsFor
<1>9. CASE e \in T
  <2>1. b = Append(a, e)
    BY <1>5, <1>9
  <2> DEFINE old == [i \in 1..Len(a) |-> a[i].n]
             new == [i \in 1..Len(b) |-> b[i].n]
             more == Append(old, e.n)
  <2>2. /\ Len(b) = Len(a) + 1 /\ b[Len(a) + 1] = e /\ \A i \in 1..Len(a) : b[i] = a[i]
        /\ Len(a) \in Nat
    BY <1>4, <2>1
  <2> DEFINE S == {a[i].n : i \in 1..Len(a)} \cup {e.n}
  <2>3. old \in Seq(S) /\ Len(old) = Len(a) /\ \A i \in 1..Len(a) : old[i] = a[i].n
    <3>1. \A i \in 1..Len(a) : a[i].n \in S
      OBVIOUS
    <3> HIDE DEF S
    <3> QED
      BY <2>2, <3>1
  <2>4. /\ more \in Seq(S) /\ Len(more) = Len(a) + 1 /\ more[Len(a) + 1] = e.n
        /\ \A i \in 1..Len(a) : more[i] = a[i].n
    <3>1. e.n \in S
      OBVIOUS
    <3> HIDE DEF S, old
    <3> QED
      BY <2>2, <2>3, <3>1
  <2>5. new \in Seq(S) /\ Len(new) = Len(a) + 1 /\ \A i \in 1..(Len(a) + 1) : new[i] = b[i].n
    <3>1. \A i \in 1..(Len(a) + 1) : b[i].n \in S
      <4>1. \A i \in 1..(Len(a) + 1) : i \in 1..Len(a) \/ i = Len(a) + 1
        BY <2>2
      <4> QED
        BY <2>2, <4>1
    <3> HIDE DEF S
    <3> QED
      BY <2>2, <3>1
  <2>6. ASSUME NEW i \in 1..(Len(a) + 1) PROVE new[i] = more[i]
    <3> HIDE DEF new, more
    <3>1. CASE i = Len(a) + 1
      BY <2>2, <2>4, <2>5, <3>1
    <3>2. CASE i # Len(a) + 1
      <4>1. i \in 1..Len(a)
        BY <2>2, <3>2
      <4> QED
        BY <2>2, <2>4, <2>5, <4>1
    <3> QED
      BY <3>1, <3>2
  <2>7. new = more
    <3> HIDE DEF new, more, S
    <3> QED
      BY <2>4, <2>5, <2>6, SeqEqual
  <2> QED
    BY <1>6, <1>7, <1>8, <1>9, <2>7
<1>10. CASE e \notin T
  <2>1. b = a
    BY <1>5, <1>10
  <2> QED
    BY <1>6, <1>7, <1>8, <1>10, <2>1
<1> QED
  BY <1>9, <1>10

(* All amounts reported of a key are in the cache, or below what is.       *)
LEMMA ReportsAreCached ==
    ASSUME CacheOK, NEW type, NEW k, NEW w, k = <<w, k[2]>>, NEW n \in Nat,
           At(cache_det_thresholds, <<type, w, k[2]>>, 0) < n
    PROVE  \A i \in 1..Len(ReportsOf(type, k)) : ReportsOf(type, k)[i] < n
<1>1. PICK T, a : T = ReportsFor(type, k) /\ a = Those(evidence, T)
  OBVIOUS
<1>2. ReportsOf(type, k) = [i \in 1..Len(a) |-> a[i].n]
  BY <1>1, ReportsOfIs
<1>3. a \in Seq(Reports \cap T \cap Range(evidence))
  <2>1. PICK s : s = evidence
    OBVIOUS
  <2>2. s \in Seq(Reports)
    BY <2>1 DEF CacheOK
  <2>3. s \in Seq(Reports \cap Range(s))
    BY <2>2 DEF Range
  <2>4. Those(s, T) \in Seq((Reports \cap Range(s)) \cap T)
    BY <2>3, ThoseType
  <2>5. (Reports \cap Range(s)) \cap T = Reports \cap T \cap Range(s)
    OBVIOUS
  <2> QED
    BY <1>1, <2>1, <2>4, <2>5
<1>4. Len(a) \in Nat /\ Len(ReportsOf(type, k)) = Len(a)
  BY <1>2, <1>3
<1>5. ASSUME NEW i \in 1..Len(a) PROVE a[i].n < n
  <2>1. a[i] \in Reports /\ a[i] \in T /\ a[i] \in Range(evidence)
    BY <1>3
  <2>2. PICK j \in 1..Len(evidence) : a[i] = evidence[j]
    BY <2>1 DEF Range
  <2>3. a[i].type = type /\ a[i].window = w /\ a[i].key = k[2]
    BY <1>1, <2>1, InReportsFor
  <2>4. PICK c, m : c = <<type, w, k[2]>> /\ m = cache_det_thresholds[c]
    OBVIOUS
  <2>5. Cached(a[i]) = c
    BY <2>3, <2>4 DEF Cached
  <2>6. c \in DOMAIN cache_det_thresholds /\ a[i].n <= m /\ m \in Nat
    BY <2>2, <2>4, <2>5 DEF CacheOK
  <2>7. a[i].n \in Nat
    BY <2>1 DEF Reports
  <2>8. m < n
    BY <2>4, <2>6 DEF At
  <2> QED
    BY <2>6, <2>7, <2>8
<1> QED
  BY <1>2, <1>4, <1>5

(* What was tried and what was reported, for both kinds of scan *)
KeysOf(type) == Windows \X Keys(type)
TargetsOf(type) == IF type = "PortScanType2" THEN Ip ELSE Port
Targets(type) == [k \in KeysOf(type) |-> Tried(type, k)]
Amounts(type) == [k \in KeysOf(type) |-> ReportsOf(type, k)]

OneMoreTarget(type, k, t) ==
    /\ k \in KeysOf(type) /\ t \in TargetsOf(type)
    /\ Targets(type)' = [j \in KeysOf(type) |-> IF j = k THEN Targets(type)[j] \cup {t}
                                                ELSE Targets(type)[j]]

OneMoreReport(type, k, n) ==
    /\ k \in KeysOf(type) /\ n \in Nat /\ n > 0 /\ n % Minimum(type) = 0
    /\ \A i \in 1..Len(Amounts(type)[k]) : Amounts(type)[k][i] < n
    /\ n <= Cardinality(Targets(type)[k]) /\ n <= Cardinality(TargetsOf(type))
    /\ Amounts(type)' = [j \in KeysOf(type) |-> IF j = k THEN Append(Amounts(type)[j], n)
                                                ELSE Amounts(type)[j]]

LEMMA PortTriedMore ==
    ASSUME TodoOK, NEW role, NEW u \in Types, add_port(role, u), NEW CONSTANT type,
           type = "PortScanType2"
    PROVE  \/ Targets(type)' = Targets(type)
           \/ \E k, t : OneMoreTarget(type, k, t)
<1>1. PICK K, a, w, p : /\ K = PortKeyOf(Current, role, u) /\ a = Current.daddr
                        /\ w = K.window /\ p = K.port
  OBVIOUS
<1>2. \A k : TriedAddresses(k)' = IF InScan(K, k[1], k[2]) THEN TriedAddresses(k) \cup {a}
                                  ELSE TriedAddresses(k)
  BY <1>1, AddPortTries
<1>3. Storing(role, FeatureOf(u))
  BY DEF add_port, FeatureOf
<1>4. Current \in Flow
  BY <1>3, StoringIs
<1>5. a \in Ip /\ p \in Port
  <2>1. /\ Current.daddr \in Ip /\ Current.dport \in Port /\ Current.sport \in Port
    BY <1>4, PortScanAssumption
  <2> QED
    BY <1>1, <2>1 DEF PortKeyOf
<1>6. Targets(type)' = [k \in PortKey |-> TriedAddresses(k)']
      /\ Targets(type) = [k \in PortKey |-> TriedAddresses(k)] /\ KeysOf(type) = PortKey
  BY DEF Targets, Tried, KeysOf, Keys, PortKey, Windows
<1>7. CASE K.role = "Client" /\ K.type = "Dst" /\ K.state = "NotEstablished"
  <2>1. w \in Windows
    <3>1. role = "Client" /\ w = WindowOf(Current, role)
      BY <1>1, <1>7 DEF PortKeyOf
    <3> QED
      BY <1>4, <3>1 DEF WindowOf, Windows
  <2>2. PICK k0 \in PortKey : k0 = <<w, p>>
    BY <1>5, <2>1 DEF PortKey
  <2>3. \A k \in PortKey : InScan(K, k[1], k[2]) <=> k = k0
    BY <1>1, <1>7, <2>2 DEF InScan, PortKey
  <2>4. \A k \in PortKey : TriedAddresses(k)' = IF k = k0 THEN TriedAddresses(k) \cup {a}
                                                ELSE TriedAddresses(k)
    BY <1>2, <2>3
  <2>5. Targets(type)' = [j \in PortKey |-> IF j = k0 THEN Targets(type)[j] \cup {a}
                                            ELSE Targets(type)[j]]
    BY <1>6, <2>4
  <2>6. OneMoreTarget(type, k0, a)
    BY <1>5, <1>6, <2>2, <2>5 DEF OneMoreTarget, TargetsOf
  <2> QED
    BY <2>6
<1>8. CASE ~ (K.role = "Client" /\ K.type = "Dst" /\ K.state = "NotEstablished")
  <2>1. \A k \in PortKey : TriedAddresses(k)' = TriedAddresses(k)
    BY <1>2, <1>8 DEF InScan
  <2> QED
    BY <1>6, <2>1
<1> QED
  BY <1>7, <1>8

LEMMA IpTriedMore ==
    ASSUME TodoOK, NEW role, add_ips(role), NEW CONSTANT type, type = "PortScanType1"
    PROVE  \/ Targets(type)' = Targets(type)
           \/ \E k, t : OneMoreTarget(type, k, t)
<1>1. PICK K, a, w, p : /\ K = IpKey(Current, role) /\ a = Current.dport
                        /\ w = K.window /\ p = K.ip
  OBVIOUS
<1>2. \A k : TriedPorts(k)' = IF InVertical(K, k[1], k[2]) THEN TriedPorts(k) \cup {a}
                              ELSE TriedPorts(k)
  BY <1>1, AddIpsTries
<1>3. Storing(role, "ips")
  BY DEF add_ips
<1>4. Current \in Flow
  BY <1>3, StoringIs
<1>5. a \in Port /\ p \in Ip
  <2>1. /\ Current.daddr \in Ip /\ Current.saddr \in Ip /\ Current.dport \in Port
    BY <1>4, PortScanAssumption
  <2> QED
    BY <1>1, <2>1 DEF IpKey, PeerOf
<1>6. Targets(type)' = [k \in AddressKey |-> TriedPorts(k)']
      /\ Targets(type) = [k \in AddressKey |-> TriedPorts(k)] /\ KeysOf(type) = AddressKey
  BY DEF Targets, Tried, KeysOf, Keys, AddressKey, Windows
<1>7. CASE K.role = "Client" /\ K.state = "NotEstablished"
  <2>1. w \in Windows
    <3>1. role = "Client" /\ w = WindowOf(Current, role)
      BY <1>1, <1>7 DEF IpKey
    <3> QED
      BY <1>4, <3>1 DEF WindowOf, Windows
  <2>2. PICK k0 \in AddressKey : k0 = <<w, p>>
    BY <1>5, <2>1 DEF AddressKey
  <2>3. \A k \in AddressKey : InVertical(K, k[1], k[2]) <=> k = k0
    BY <1>1, <1>7, <2>2 DEF InVertical, AddressKey
  <2>4. \A k \in AddressKey : TriedPorts(k)' = IF k = k0 THEN TriedPorts(k) \cup {a}
                                               ELSE TriedPorts(k)
    BY <1>2, <2>3
  <2>5. Targets(type)' = [j \in AddressKey |-> IF j = k0 THEN Targets(type)[j] \cup {a}
                                               ELSE Targets(type)[j]]
    BY <1>6, <2>4
  <2>6. OneMoreTarget(type, k0, a)
    BY <1>5, <1>6, <2>2, <2>5 DEF OneMoreTarget, TargetsOf
  <2> QED
    BY <2>6
<1>8. CASE ~ (K.role = "Client" /\ K.state = "NotEstablished")
  <2>1. \A k \in AddressKey : TriedPorts(k)' = TriedPorts(k)
    BY <1>2, <1>8 DEF InVertical
  <2> QED
    BY <1>6, <2>1
<1> QED
  BY <1>7, <1>8

LEMMA TargetsStay ==
    ASSUME NEW CONSTANT type
    PROVE  /\ UNCHANGED <<ips, ports>> => Targets(type)' = Targets(type)
           /\ type = "PortScanType2" /\ ports' = ports => Targets(type)' = Targets(type)
           /\ type # "PortScanType2" /\ ips' = ips => Targets(type)' = Targets(type)
<1>1. ASSUME type = "PortScanType2", ports' = ports PROVE Targets(type)' = Targets(type)
  <2>1. Targets(type)' = [k \in PortKey |-> TriedAddresses(k)']
        /\ Targets(type) = [k \in PortKey |-> TriedAddresses(k)]
    BY <1>1 DEF Targets, Tried, KeysOf, Keys, PortKey, Windows
  <2>2. \A k : TriedAddresses(k)' = TriedAddresses(k)
    BY <1>1 DEF TriedAddresses
  <2> QED
    BY <2>1, <2>2
<1>2. ASSUME type # "PortScanType2", ips' = ips PROVE Targets(type)' = Targets(type)
  <2>1. Targets(type)' = [k \in AddressKey |-> TriedPorts(k)']
        /\ Targets(type) = [k \in AddressKey |-> TriedPorts(k)]
    BY <1>2 DEF Targets, Tried, KeysOf, Keys, AddressKey, Windows
  <2>2. \A k : TriedPorts(k)' = TriedPorts(k)
    BY <1>2 DEF TriedPorts
  <2> QED
    BY <2>1, <2>2
<1> QED
  BY <1>1, <1>2

LEMMA AmountsStay ==
    ASSUME NEW CONSTANT type, evidence' = evidence
    PROVE  Amounts(type)' = Amounts(type)
BY DEF Amounts, ReportsOf, KeysOf, Keys, Windows

LEMMA TriedMore ==
    ASSUME TodoOK, StoreFeature, NEW CONSTANT type \in Type
    PROVE  \/ Targets(type)' = Targets(type)
           \/ \E k, t : OneMoreTarget(type, k, t)
<1>1. ASSUME NEW role, add_tuple(role) \/ add_flow(role)
      PROVE  Targets(type)' = Targets(type)
  <2>1. UNCHANGED <<ips, ports>>
    BY <1>1 DEF add_tuple, add_flow, tables
  <2> QED
    BY <2>1, TargetsStay
<1>2. ASSUME NEW role, add_ips(role)
      PROVE  \/ Targets(type)' = Targets(type)
             \/ \E k, t : OneMoreTarget(type, k, t)
  <2>1. ports' = ports
    BY <1>2 DEF add_ips
  <2>2. CASE type = "PortScanType2"
    BY <2>1, <2>2, TargetsStay
  <2>3. CASE type = "PortScanType1"
    BY <1>2, <2>3, IpTriedMore
  <2> QED
    BY <2>2, <2>3 DEF Type
<1>3. ASSUME NEW role, NEW u \in Types, add_port(role, u)
      PROVE  \/ Targets(type)' = Targets(type)
             \/ \E k, t : OneMoreTarget(type, k, t)
  <2>1. ips' = ips
    BY <1>3 DEF add_port
  <2>2. CASE type = "PortScanType2"
    BY <1>3, <2>2, PortTriedMore
  <2>3. CASE type # "PortScanType2"
    BY <2>1, <2>3, TargetsStay
  <2> QED
    BY <2>2, <2>3
<1> QED
  BY <1>1, <1>2, <1>3 DEF StoreFeature, Types

LEMMA ReportedMore ==
    ASSUME FeatureInv, CacheOK, NEW CONSTANT type \in Type, NEW proto \in {"TCP", "UDP"},
           NEW x \in DOMAIN scan.data, DataOf(type, scan.window, scan.data),
           NEW n, Announced(type, proto, x, n)
    PROVE  /\ \E k : OneMoreReport(type, k, n)
           /\ \A other \in Type : other # type => Amounts(other)' = Amounts(other)
<1>1. PICK w : w = scan.window
  OBVIOUS
<1>2. News(type, x, n)
  BY AnnouncedIs
<1>3. /\ n \in Nat /\ n > 0 /\ n % Minimum(type) = 0
      /\ n <= Cardinality(Tried(type, <<w, x>>))
      /\ w \in Windows /\ x \in Keys(type) /\ Reported(type, x) < n
  BY <1>1, <1>2 DEF News
<1>4. PICK e \in Reports : /\ e.type = type /\ e.window = w /\ e.key = x /\ e.n = n
                           /\ evidence' = Append(evidence, e)
  BY <1>1, <1>2 DEF News
<1>5. PICK k \in KeysOf(type) : k = <<w, x>>
  BY <1>3 DEF KeysOf
<1>6. ASSUME NEW CONSTANT other, NEW CONSTANT j \in KeysOf(other)
      PROVE  ReportsOf(other, j)' =
                IF other = type /\ j = k THEN Append(ReportsOf(other, j), n)
                ELSE ReportsOf(other, j)
  <2>1. j = <<j[1], j[2]>>
    BY <1>6 DEF KeysOf
  <2>2. (e.type = other /\ e.window = j[1] /\ e.key = j[2]) <=> (other = type /\ j = k)
    BY <1>4, <1>5, <2>1
  <2>3. ReportsOf(other, j)' =
             IF e.type = other /\ e.window = j[1] /\ e.key = j[2]
             THEN Append(ReportsOf(other, j), e.n) ELSE ReportsOf(other, j)
    BY <1>4, ReportsOneMore
  <2> QED
    BY <1>4, <2>2, <2>3
<1>7. ASSUME NEW CONSTANT other
      PROVE  Amounts(other)' = [j \in KeysOf(other) |-> ReportsOf(other, j)']
  BY DEF Amounts, KeysOf, Keys, Windows
<1>8. Amounts(type)' = [j \in KeysOf(type) |-> IF j = k THEN Append(Amounts(type)[j], n)
                                               ELSE Amounts(type)[j]]
  <2>1. \A j \in KeysOf(type) : Amounts(type)[j] = ReportsOf(type, j)
    BY DEF Amounts
  <2>2. \A j \in KeysOf(type) : ReportsOf(type, j)' =
             IF j = k THEN Append(ReportsOf(type, j), n) ELSE ReportsOf(type, j)
    BY <1>6
  <2> QED
    BY <1>7, <2>1, <2>2
<1>9. ASSUME NEW CONSTANT other \in Type, other # type PROVE Amounts(other)' = Amounts(other)
  <2>1. \A j \in KeysOf(other) : ReportsOf(other, j)' = ReportsOf(other, j)
    BY <1>6, <1>9
  <2> QED
    BY <1>7, <2>1 DEF Amounts
<1>10. \A i \in 1..Len(Amounts(type)[k]) : Amounts(type)[k][i] < n
  <2>1. Amounts(type)[k] = ReportsOf(type, k)
    BY DEF Amounts
  <2>2. At(cache_det_thresholds, <<type, w, k[2]>>, 0) < n /\ k = <<w, k[2]>>
    BY <1>1, <1>3, <1>5 DEF Reported
  <2>3. \A i \in 1..Len(ReportsOf(type, k)) : ReportsOf(type, k)[i] < n
    BY <1>3, <2>2, ReportsAreCached
  <2> QED
    BY <2>1, <2>3
<1>11. n <= Cardinality(Targets(type)[k]) /\ n <= Cardinality(TargetsOf(type))
  <2>1. PICK S, R : S = Tried(type, k) /\ R = TargetsOf(type)
    OBVIOUS
  <2>2. S \subseteq R /\ IsFiniteSet(R) /\ IsFiniteSet(S)
    BY <2>1, TriedType, PortScanAssumption DEF Tried, TargetsOf
  <2>3. Cardinality(S) \in Nat /\ Cardinality(R) \in Nat /\ Cardinality(S) <= Cardinality(R)
    BY <2>2, FS_Subset, FS_CardinalityType
  <2>4. Targets(type)[k] = S /\ n <= Cardinality(S)
    BY <1>3, <1>5, <2>1 DEF Targets
  <2> QED
    BY <1>3, <2>1, <2>3, <2>4
<1>12. OneMoreReport(type, k, n)
  BY <1>3, <1>8, <1>10, <1>11 DEF OneMoreReport
<1> QED
  BY <1>9, <1>12

(* Every step tries a target, reports an amount, or does neither.          *)
LEMMA PromiseSteps ==
    ASSUME FeatureInv, DetectorInv, [Next]_vars, NEW CONSTANT type \in Type
    PROVE  \/ Targets(type)' = Targets(type) /\ Amounts(type)' = Amounts(type)
           \/ Amounts(type)' = Amounts(type) /\ \E k, t : OneMoreTarget(type, k, t)
           \/ Targets(type)' = Targets(type) /\ \E k, n : OneMoreReport(type, k, n)
<1>1. CASE UNCHANGED <<ips, ports, evidence>>
  BY <1>1, TargetsStay, AmountsStay
<1>2. CASE StoreFeature /\ UNCHANGED scanVars
  <2>1. Amounts(type)' = Amounts(type)
    BY <1>2, AmountsStay DEF scanVars
  <2>2. TodoOK
    BY DEF FeatureInv
  <2> QED
    BY <1>2, <2>1, <2>2, TriedMore
<1>3. CASE Check
  <2>1. Targets(type)' = Targets(type)
    <3>1. UNCHANGED <<ips, ports>>
      BY <1>3 DEF Check, featureVars, tables
    <3> QED
      BY <3>1, TargetsStay
  <2>2. PICK i \in 1..4, x \in DOMAIN scan.data :
             /\ DataOf(Reads[i][1], scan.window, scan.data)
             /\ \/ Announced(Reads[i][1], Reads[i][2], x, Amount(Reads[i][1], x))
                \/ evidence' = evidence
    BY <1>3, CheckSteps
  <2>3. PICK t \in Type, proto \in {"TCP", "UDP"} : t = Reads[i][1] /\ proto = Reads[i][2]
    BY ReadsAre
  <2>4. PICK n : n = Amount(t, x)
    OBVIOUS
  <2>5. CASE evidence' = evidence
    BY <2>1, <2>5, AmountsStay
  <2>6. CASE Announced(t, proto, x, n)
    <3>1. CacheOK /\ DataOf(t, scan.window, scan.data)
      BY <2>2, <2>3 DEF DetectorInv
    <3>2. /\ \E k : OneMoreReport(t, k, n)
          /\ type # t => Amounts(type)' = Amounts(type)
      BY <2>6, <3>1, ReportedMore
    <3> QED
      BY <2>1, <3>2
  <2> QED
    BY <2>2, <2>3, <2>4, <2>5, <2>6
<1>4. CASE Message
  BY <1>1, <1>4, MessageMoves
<1>5. CASE Read \/ (\E ip \in Ip : Resolve(ip))
  BY <1>1, <1>5 DEF Read, Resolve, featureVars, tables
<1>6. CASE (\E f \in Flow : ReadFlow(f)) /\ UNCHANGED scanVars
  BY <1>1, <1>6 DEF ReadFlow, scanVars, tables
<1>7. CASE UNCHANGED vars
  BY <1>1, <1>7 DEF vars, featureVars, scanVars, tables
<1> QED
  BY <1>2, <1>3, <1>4, <1>5, <1>6, <1>7 DEF Next, Detector

LEMMA PromiseInit ==
    ASSUME Init, NEW type \in Type
    PROVE  /\ Targets(type) = [k \in KeysOf(type) |-> {}]
           /\ Amounts(type) = [k \in KeysOf(type) |-> <<>>]
<1>1. evidence = <<>> /\ DOMAIN ports = {} /\ DOMAIN ips = {}
  BY DEF Init, FeaturesInit, ScanInit, Nothing
<1>2. ASSUME NEW k PROVE Tried(type, k) = {}
  BY <1>1, InTriedAddresses, InTriedPorts DEF Tried
<1>3. ASSUME NEW k PROVE ReportsOf(type, k) = <<>>
  <2>1. PICK a : a = Those(evidence, ReportsFor(type, k))
    OBVIOUS
  <2>2. a = <<>>
    BY <1>1, <2>1, ThoseOfNone
  <2>3. ReportsOf(type, k) = [i \in 1..Len(a) |-> a[i].n]
    BY <2>1, ReportsOfIs
  <2> QED
    BY <2>2, <2>3
<1> QED
  BY <1>2, <1>3 DEF Targets, Amounts

(* ScanReports counts with the operator it takes from FiniteSets, which is   *)
(* the one this module counts with.                                         *)
LEMMA SameCardinality ==
    ASSUME NEW S
    PROVE  /\ HorizontalScans!Cardinality(S) = Cardinality(S)
           /\ VerticalScans!Cardinality(S) = Cardinality(S)
BY DEF HorizontalScans!Cardinality, VerticalScans!Cardinality, Cardinality

LEMMA HorizontalStep ==
    ASSUME FeatureInv, DetectorInv, [Next]_vars
    PROVE  [HorizontalScans!ScanNext]_(HorizontalScans!scanVars)
<1> DEFINE T == [k \in PortKey |-> TriedAddresses(k)]
           R == [k \in PortKey |-> ReportsOf("PortScanType2", k)]
<1>1. PICK type \in Type : type = "PortScanType2"
  BY DEF Type
<1>2. /\ KeysOf(type) = PortKey /\ TargetsOf(type) = Ip
      /\ Minimum(type) = port_scan_minimum_dips_threshold
      /\ Targets(type) = T /\ Amounts(type) = R
      /\ Targets(type)' = T' /\ Amounts(type)' = R'
  BY <1>1 DEF KeysOf, Keys, PortKey, TargetsOf, Minimum, Targets, Amounts, Tried, Windows
<1>3. CASE Targets(type)' = Targets(type) /\ Amounts(type)' = Amounts(type)
  BY <1>2, <1>3 DEF HorizontalScans!scanVars
<1>4. ASSUME NEW k, NEW t, OneMoreTarget(type, k, t), Amounts(type)' = Amounts(type)
      PROVE  HorizontalScans!ScanNext
  <2>1. /\ k \in PortKey /\ t \in Ip /\ R' = R
        /\ T' = [j \in PortKey |-> IF j = k THEN T[j] \cup {t} ELSE T[j]]
    BY <1>2, <1>4 DEF OneMoreTarget
  <2>2. T' = [T EXCEPT ![k] = @ \cup {t}]
    BY <2>1
  <2>3. HorizontalScans!Try(k, t)
    BY <2>1, <2>2 DEF HorizontalScans!Try
  <2> QED
    BY <2>1, <2>3 DEF HorizontalScans!ScanNext
<1>5. ASSUME NEW k, NEW n, OneMoreReport(type, k, n), Targets(type)' = Targets(type)
      PROVE  HorizontalScans!ScanNext
  <2>1. /\ k \in PortKey /\ n \in Nat /\ n > 0 /\ T' = T
        /\ n % port_scan_minimum_dips_threshold = 0
        /\ \A i \in 1..Len(R[k]) : R[k][i] < n
        /\ n <= Cardinality(T[k]) /\ n <= Cardinality(Ip)
        /\ R' = [j \in PortKey |-> IF j = k THEN Append(R[j], n) ELSE R[j]]
    BY <1>2, <1>5 DEF OneMoreReport
  <2>2. R' = [R EXCEPT ![k] = Append(@, n)]
    BY <2>1
  <2>3. HorizontalScans!Report(k, n)
    <3>1. HorizontalScans!Report(k, n) <=>
             /\ n % port_scan_minimum_dips_threshold = 0
             /\ \A i \in 1..Len(R[k]) : R[k][i] < n
             /\ n <= HorizontalScans!Cardinality(T[k])
             /\ R' = [R EXCEPT ![k] = Append(@, n)]
             /\ T' = T
      BY Zenon DEF HorizontalScans!Report
    <3>2. HorizontalScans!Cardinality(T[k]) = Cardinality(T[k])
      BY SameCardinality
    <3> HIDE DEF T, R
    <3> QED
      BY <2>1, <2>2, <3>1, <3>2
  <2>4. n \in 1..HorizontalScans!Cardinality(Ip)
    <3>1. Cardinality(Ip) \in Nat
      BY FS_CardinalityType, PortScanAssumption
    <3>2. HorizontalScans!Cardinality(Ip) = Cardinality(Ip)
      BY SameCardinality
    <3> HIDE DEF T, R
    <3> QED
      BY <2>1, <3>1, <3>2
  <2> QED
    BY <2>1, <2>3, <2>4 DEF HorizontalScans!ScanNext
<1> HIDE DEF T, R
<1> QED
  BY <1>3, <1>4, <1>5, PromiseSteps

LEMMA VerticalStep ==
    ASSUME FeatureInv, DetectorInv, [Next]_vars
    PROVE  [VerticalScans!ScanNext]_(VerticalScans!scanVars)
<1> DEFINE T == [k \in AddressKey |-> TriedPorts(k)]
           R == [k \in AddressKey |-> ReportsOf("PortScanType1", k)]
<1>1. PICK type \in Type : type = "PortScanType1"
  BY DEF Type
<1>2. /\ KeysOf(type) = AddressKey /\ TargetsOf(type) = Port
      /\ Minimum(type) = port_scan_minimum_dports_threshold
      /\ Targets(type) = T /\ Amounts(type) = R
      /\ Targets(type)' = T' /\ Amounts(type)' = R'
  BY <1>1 DEF KeysOf, Keys, AddressKey, TargetsOf, Minimum, Targets, Amounts, Tried, Windows
<1>3. CASE Targets(type)' = Targets(type) /\ Amounts(type)' = Amounts(type)
  BY <1>2, <1>3 DEF VerticalScans!scanVars
<1>4. ASSUME NEW k, NEW t, OneMoreTarget(type, k, t), Amounts(type)' = Amounts(type)
      PROVE  VerticalScans!ScanNext
  <2>1. /\ k \in AddressKey /\ t \in Port /\ R' = R
        /\ T' = [j \in AddressKey |-> IF j = k THEN T[j] \cup {t} ELSE T[j]]
    BY <1>2, <1>4 DEF OneMoreTarget
  <2>2. T' = [T EXCEPT ![k] = @ \cup {t}]
    BY <2>1
  <2>3. VerticalScans!Try(k, t)
    BY <2>1, <2>2 DEF VerticalScans!Try
  <2> QED
    BY <2>1, <2>3 DEF VerticalScans!ScanNext
<1>5. ASSUME NEW k, NEW n, OneMoreReport(type, k, n), Targets(type)' = Targets(type)
      PROVE  VerticalScans!ScanNext
  <2>1. /\ k \in AddressKey /\ n \in Nat /\ n > 0 /\ T' = T
        /\ n % port_scan_minimum_dports_threshold = 0
        /\ \A i \in 1..Len(R[k]) : R[k][i] < n
        /\ n <= Cardinality(T[k]) /\ n <= Cardinality(Port)
        /\ R' = [j \in AddressKey |-> IF j = k THEN Append(R[j], n) ELSE R[j]]
    BY <1>2, <1>5 DEF OneMoreReport
  <2>2. R' = [R EXCEPT ![k] = Append(@, n)]
    BY <2>1
  <2>3. VerticalScans!Report(k, n)
    <3>1. VerticalScans!Report(k, n) <=>
             /\ n % port_scan_minimum_dports_threshold = 0
             /\ \A i \in 1..Len(R[k]) : R[k][i] < n
             /\ n <= VerticalScans!Cardinality(T[k])
             /\ R' = [R EXCEPT ![k] = Append(@, n)]
             /\ T' = T
      BY Zenon DEF VerticalScans!Report
    <3>2. VerticalScans!Cardinality(T[k]) = Cardinality(T[k])
      BY SameCardinality
    <3> HIDE DEF T, R
    <3> QED
      BY <2>1, <2>2, <3>1, <3>2
  <2>4. n \in 1..VerticalScans!Cardinality(Port)
    <3>1. Cardinality(Port) \in Nat
      BY FS_CardinalityType, PortScanAssumption
    <3>2. VerticalScans!Cardinality(Port) = Cardinality(Port)
      BY SameCardinality
    <3> HIDE DEF T, R
    <3> QED
      BY <2>1, <3>1, <3>2
  <2> QED
    BY <2>1, <2>3, <2>4 DEF VerticalScans!ScanNext
<1> HIDE DEF T, R
<1> QED
  BY <1>3, <1>4, <1>5, PromiseSteps

(* The detector keeps its promise for both kinds of scan (ScansAsPromised):*)
(* every step tries a target, makes one report as ScanReports allows it,   *)
(* or changes neither.                                                     *)
THEOREM PromiseIsKept == Spec => ScansAsPromised
<1>1. Init => HorizontalScans!ScanInit /\ VerticalScans!ScanInit
  <2> SUFFICES ASSUME Init PROVE HorizontalScans!ScanInit /\ VerticalScans!ScanInit
    OBVIOUS
  <2>1. "PortScanType2" \in Type /\ "PortScanType1" \in Type
    BY DEF Type
  <2>2. HorizontalScans!ScanInit
    <3>1. PICK type \in Type : type = "PortScanType2"
      BY <2>1
    <3>2. /\ Targets(type) = [k \in KeysOf(type) |-> {}]
          /\ Amounts(type) = [k \in KeysOf(type) |-> <<>>]
      BY PromiseInit
    <3>3. /\ KeysOf(type) = PortKey
          /\ Targets(type) = [k \in PortKey |-> TriedAddresses(k)]
          /\ Amounts(type) = [k \in PortKey |-> ReportsOf("PortScanType2", k)]
      BY <3>1 DEF KeysOf, Keys, PortKey, Targets, Amounts, Tried
    <3> QED
      BY <3>2, <3>3 DEF HorizontalScans!ScanInit
  <2>3. VerticalScans!ScanInit
    <3>1. PICK type \in Type : type = "PortScanType1"
      BY <2>1
    <3>2. /\ Targets(type) = [k \in KeysOf(type) |-> {}]
          /\ Amounts(type) = [k \in KeysOf(type) |-> <<>>]
      BY PromiseInit
    <3>3. /\ KeysOf(type) = AddressKey
          /\ Targets(type) = [k \in AddressKey |-> TriedPorts(k)]
          /\ Amounts(type) = [k \in AddressKey |-> ReportsOf("PortScanType1", k)]
      BY <3>1 DEF KeysOf, Keys, AddressKey, Targets, Amounts, Tried
    <3> QED
      BY <3>2, <3>3 DEF VerticalScans!ScanInit
  <2> QED
    BY <2>2, <2>3
<1>2. FeatureInv /\ DetectorInv /\ [Next]_vars
         => [HorizontalScans!ScanNext]_(HorizontalScans!scanVars)
  BY HorizontalStep
<1>3. FeatureInv /\ DetectorInv /\ [Next]_vars
         => [VerticalScans!ScanNext]_(VerticalScans!scanVars)
  BY VerticalStep
<1> QED
  BY <1>1, <1>2, <1>3, FeatureInvariance, DetectorInvariance, PTL
     DEF Spec, ScansAsPromised, HorizontalScans!ScanSpec, VerticalScans!ScanSpec

-----------------------------------------------------------------------------
(* What ScanReports lets follow from the promise, for both kinds of scan *)

HorizontalLaws == INSTANCE ScanReportsProofs WITH
    Key <- PortKey, Target <- Ip, Threshold <- port_scan_minimum_dips_threshold,
    targets <- [k \in PortKey |-> TriedAddresses(k)],
    reported <- [k \in PortKey |-> ReportsOf("PortScanType2", k)]

VerticalLaws == INSTANCE ScanReportsProofs WITH
    Key <- AddressKey, Target <- Port, Threshold <- port_scan_minimum_dports_threshold,
    targets <- [k \in AddressKey |-> TriedPorts(k)],
    reported <- [k \in AddressKey |-> ReportsOf("PortScanType1", k)]

(* The laws of ScanReports speak of the same scans as HorizontalScans.      *)
LEMMA HorizontalSame ==
    /\ HorizontalScans!ScanInit => HorizontalLaws!ScanInit
    /\ [HorizontalScans!ScanNext]_(HorizontalScans!scanVars)
         => [HorizontalLaws!ScanNext]_(HorizontalLaws!scanVars)
    /\ HorizontalLaws!SeldomReported => HorizontalScans!SeldomReported
<1>1. \A S : HorizontalLaws!Cardinality(S) = HorizontalScans!Cardinality(S)
  BY DEF HorizontalLaws!Cardinality, HorizontalScans!Cardinality
<1>2. HorizontalLaws!scanVars = HorizontalScans!scanVars /\ HorizontalLaws!scanVars' = HorizontalScans!scanVars'
  BY DEF HorizontalLaws!scanVars, HorizontalScans!scanVars
<1>3. ASSUME NEW k, NEW t, HorizontalScans!Try(k, t)
      PROVE  HorizontalLaws!Try(k, t)
  BY <1>3, Zenon DEF HorizontalScans!Try, HorizontalLaws!Try
<1>4. ASSUME NEW k, NEW n, HorizontalScans!Report(k, n)
      PROVE  HorizontalLaws!Report(k, n)
  BY <1>1, <1>4, Zenon DEF HorizontalScans!Report, HorizontalLaws!Report
<1>5. HorizontalScans!ScanNext => HorizontalLaws!ScanNext
  BY <1>1, <1>3, <1>4, Zenon DEF HorizontalScans!ScanNext, HorizontalLaws!ScanNext
<1>6. HorizontalScans!ScanInit => HorizontalLaws!ScanInit
  BY Zenon DEF HorizontalScans!ScanInit, HorizontalLaws!ScanInit
<1>7. HorizontalLaws!SeldomReported => HorizontalScans!SeldomReported
  BY <1>1, Zenon DEF HorizontalLaws!SeldomReported, HorizontalScans!SeldomReported
<1> QED
  BY <1>2, <1>5, <1>6, <1>7

(* The laws of ScanReports speak of the same scans as VerticalScans.      *)
LEMMA VerticalSame ==
    /\ VerticalScans!ScanInit => VerticalLaws!ScanInit
    /\ [VerticalScans!ScanNext]_(VerticalScans!scanVars)
         => [VerticalLaws!ScanNext]_(VerticalLaws!scanVars)
    /\ VerticalLaws!SeldomReported => VerticalScans!SeldomReported
<1>1. \A S : VerticalLaws!Cardinality(S) = VerticalScans!Cardinality(S)
  BY DEF VerticalLaws!Cardinality, VerticalScans!Cardinality
<1>2. VerticalLaws!scanVars = VerticalScans!scanVars /\ VerticalLaws!scanVars' = VerticalScans!scanVars'
  BY DEF VerticalLaws!scanVars, VerticalScans!scanVars
<1>3. ASSUME NEW k, NEW t, VerticalScans!Try(k, t)
      PROVE  VerticalLaws!Try(k, t)
  BY <1>3, Zenon DEF VerticalScans!Try, VerticalLaws!Try
<1>4. ASSUME NEW k, NEW n, VerticalScans!Report(k, n)
      PROVE  VerticalLaws!Report(k, n)
  BY <1>1, <1>4, Zenon DEF VerticalScans!Report, VerticalLaws!Report
<1>5. VerticalScans!ScanNext => VerticalLaws!ScanNext
  BY <1>1, <1>3, <1>4, Zenon DEF VerticalScans!ScanNext, VerticalLaws!ScanNext
<1>6. VerticalScans!ScanInit => VerticalLaws!ScanInit
  BY Zenon DEF VerticalScans!ScanInit, VerticalLaws!ScanInit
<1>7. VerticalLaws!SeldomReported => VerticalScans!SeldomReported
  BY <1>1, Zenon DEF VerticalLaws!SeldomReported, VerticalScans!SeldomReported
<1> QED
  BY <1>2, <1>5, <1>6, <1>7

(* However features grow and messages are delayed, n scans reported of one *)
(* port need n times the threshold of addresses tried in that window, and  *)
(* n reported of one address as many ports.                                *)
THEOREM ScansAreSeldomReported ==
    Spec => [](HorizontalScans!SeldomReported /\ VerticalScans!SeldomReported)
<1>1. HorizontalLaws!ScanSpec => []HorizontalLaws!SeldomReported
  <2>1. port_scan_minimum_dips_threshold \in Nat \ {0}
    BY PortScanAssumption
  <2> QED
    BY <2>1, HorizontalLaws!ReportsAreSeldom
<1>2. VerticalLaws!ScanSpec => []VerticalLaws!SeldomReported
  <2>1. port_scan_minimum_dports_threshold \in Nat \ {0}
    BY PortScanAssumption
  <2> QED
    BY <2>1, VerticalLaws!ReportsAreSeldom
<1>3. HorizontalScans!ScanSpec => HorizontalLaws!ScanSpec
  BY HorizontalSame, PTL DEF HorizontalScans!ScanSpec, HorizontalLaws!ScanSpec
<1>4. VerticalScans!ScanSpec => VerticalLaws!ScanSpec
  BY VerticalSame, PTL DEF VerticalScans!ScanSpec, VerticalLaws!ScanSpec
<1> QED
  BY <1>1, <1>2, <1>3, <1>4, HorizontalSame, VerticalSame, PromiseIsKept, PTL
     DEF ScansAsPromised
=============================================================================
