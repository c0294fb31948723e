----------------------------- MODULE StreamProofs -----------------------------
(***************************************************************************)
(* Machine-checked proofs about the translation of streams, for any tools, *)
(* any chunks and any number of frames and attempts.                       *)
(***************************************************************************)
EXTENDS StreamProperties, TLAPS, WellFoundedInduction, FiniteSetTheorems,
        SequenceTheorems

----------------------------------------------------------------------------
(* Induction up to a number, and the recursive definitions.                *)

\* A set of numbers has a least element.
LEMMA Least ==
    ASSUME NEW T \in SUBSET Nat, T # {}
    PROVE  \E x \in T : \A y \in T : x <= y
  <1>1. \E x \in T : \A y \in T : ~ (<<y, x>> \in OpToRel(<, Nat))
    BY NatLessThanWellFounded, WFMin, Zenon
  <1>2. PICK x \in T : \A y \in T : ~ (<<y, x>> \in OpToRel(<, Nat))
    BY <1>1, Zenon
  <1>3. \A y \in T : ~ (y < x)
    BY <1>2 DEF OpToRel
  <1> QED BY <1>3

\* Induction over the numbers up to n, with a set in place of a predicate.
LEMMA UpTo ==
    ASSUME NEW n \in Nat, NEW T, 0 \in T, \A i \in 0 .. n - 1 : i \in T => i + 1 \in T
    PROVE  \A i \in 0 .. n : i \in T
  <1> DEFINE B == {i \in 0 .. n : i \notin T}
  <1>1. SUFFICES ASSUME B # {} PROVE FALSE
    OBVIOUS
  <1>2. B \in SUBSET Nat
    OBVIOUS
  <1> HIDE DEF B
  <1>3. PICK x \in B : \A y \in B : x <= y
    BY <1>1, <1>2, Least
  <1> USE DEF B
  <1>4. x # 0
    BY <1>3
  <1>5. x - 1 \in 0 .. n - 1 /\ x - 1 \notin B
    BY <1>3, <1>4
  <1>6. x - 1 \in T
    BY <1>5
  <1> QED BY <1>3, <1>5, <1>6

\* The function that OfType chooses, by its equation.
Kept(s, types) ==
    CHOOSE kept : kept = [i \in 0 .. Len(s) |->
            IF i = 0 THEN <<>>
            ELSE IF s[i].type \in types THEN Append(kept[i - 1], s[i]) ELSE kept[i - 1]]

LEMMA OfTypeIsKept ==
    ASSUME NEW s, NEW types
    PROVE  OfType(s, types) = Kept(s, types)[Len(s)]
  BY Zenon DEF OfType, Kept

KeptAt(s, types, f, i) ==
    IF i = 0 THEN <<>>
    ELSE IF s[i].type \in types THEN Append(f[i - 1], s[i]) ELSE f[i - 1]

LEMMA KeptExists ==
    ASSUME NEW s, Len(s) \in Nat, NEW types
    PROVE  \E f : f = [i \in 0 .. Len(s) |-> KeptAt(s, types, f, i)]
  <1> DEFINE P(n) == \E f : f = [i \in 0 .. n |-> KeptAt(s, types, f, i)]
             T == {n \in 0 .. Len(s) : P(n)}
  <1>1. P(0)
    <2> DEFINE g == [i \in 0 .. 0 |-> <<>>]
    <2>1. g = [i \in 0 .. 0 |-> KeptAt(s, types, g, i)]
      BY DEF KeptAt
    <2> QED BY <2>1
  <1>2. ASSUME NEW n \in 0 .. Len(s) - 1, P(n) PROVE P(n + 1)
    <2>1. PICK f : f = [i \in 0 .. n |-> KeptAt(s, types, f, i)]
      BY <1>2
    <2> DEFINE g == [i \in 0 .. n + 1 |-> IF i <= n THEN f[i] ELSE KeptAt(s, types, f, i)]
    <2>2. \A i \in 0 .. n + 1 : g[i] = KeptAt(s, types, g, i)
      <3> TAKE i \in 0 .. n + 1
      <3>1. CASE i = 0
        BY <2>1, <3>1 DEF KeptAt
      <3>2. CASE i # 0
        <4>1. g[i - 1] = f[i - 1]
          BY <3>2
        <4>2. KeptAt(s, types, g, i) = KeptAt(s, types, f, i)
          BY <4>1, <3>2 DEF KeptAt
        <4>3. CASE i <= n
          BY <4>2, <4>3, <2>1
        <4>4. CASE i > n
          BY <4>2, <4>4
        <4> QED BY <4>3, <4>4
      <3> QED BY <3>1, <3>2
    <2>3. g = [i \in 0 .. n + 1 |-> KeptAt(s, types, g, i)]
      BY <2>2
    <2> QED BY <2>3
  <1> HIDE DEF P
  <1>3. 0 \in T
    BY <1>1
  <1>4. \A i \in 0 .. Len(s) - 1 : i \in T => i + 1 \in T
    BY <1>2
  <1> HIDE DEF T
  <1>5. \A n \in 0 .. Len(s) : n \in T
    BY <1>3, <1>4, UpTo
  <1>6. P(Len(s))
    BY <1>5 DEF T
  <1> QED BY <1>6 DEF P

LEMMA KeptEquation ==
    ASSUME NEW s, Len(s) \in Nat, NEW types
    PROVE  Kept(s, types) = [i \in 0 .. Len(s) |-> KeptAt(s, types, Kept(s, types), i)]
  <1>1. Kept(s, types) = CHOOSE f : f = [i \in 0 .. Len(s) |-> KeptAt(s, types, f, i)]
    BY Zenon DEF Kept, KeptAt
  <1> QED BY <1>1, KeptExists, Zenon

\* OfType is a filter: what it keeps of a sequence that grows by one.
LEMMA OfTypeAppend ==
    ASSUME NEW E, NEW s \in Seq(E), NEW x \in E, NEW types
    PROVE  OfType(Append(s, x), types) =
               IF x.type \in types THEN Append(OfType(s, types), x) ELSE OfType(s, types)
  <1> DEFINE r == Append(s, x)
             n == Len(s)
             F == Kept(s, types)
             G == Kept(r, types)
             T == {i \in 0 .. n : F[i] = G[i]}
  <1>1. n \in Nat /\ Len(r) = n + 1 /\ r[n + 1] = x /\ \A i \in 1 .. n : r[i] = s[i]
    OBVIOUS
  <1> HIDE DEF n, r
  <1>2. \A i \in 0 .. n : F[i] = KeptAt(s, types, F, i)
    BY <1>1, KeptEquation DEF n
  <1>3. \A i \in 0 .. n + 1 : G[i] = KeptAt(r, types, G, i)
    BY <1>1, KeptEquation
  <1> HIDE DEF F, G
  <1>4. 0 \in T
    BY <1>1, <1>2, <1>3 DEF KeptAt
  <1>5. \A i \in 0 .. n - 1 : i \in T => i + 1 \in T
    <2> SUFFICES ASSUME NEW i \in 0 .. n - 1, F[i] = G[i] PROVE F[i + 1] = G[i + 1]
      BY <1>1
    <2>1. i + 1 # 0 /\ (i + 1) - 1 = i /\ i + 1 \in 1 .. n
      BY <1>1
    <2>2. KeptAt(s, types, F, i + 1) = KeptAt(r, types, G, i + 1)
      BY <1>1, <2>1 DEF KeptAt
    <2> QED BY <1>1, <1>2, <1>3, <2>2
  <1> HIDE DEF T
  <1>0. n \in Nat
    BY <1>1
  <1>6. \A i \in 0 .. n : i \in T
    BY <1>0, <1>4, <1>5, UpTo
  <1>7. F[n] = G[n]
    BY <1>0, <1>6 DEF T
  <1>8. G[n + 1] = IF x.type \in types THEN Append(G[n], x) ELSE G[n]
    BY <1>1, <1>3 DEF KeptAt
  <1>9. OfType(s, types) = F[n] /\ OfType(r, types) = G[n + 1]
    BY <1>1, OfTypeIsKept DEF F, G, n
  <1> QED BY <1>7, <1>8, <1>9 DEF r

LEMMA OfTypeEmpty ==
    ASSUME NEW types
    PROVE  OfType(<<>>, types) = <<>>
  <1>1. Len(<<>>) = 0
    OBVIOUS
  <1>2. Kept(<<>>, types)[0] = KeptAt(<<>>, types, Kept(<<>>, types), 0)
    BY <1>1, KeptEquation
  <1> QED BY <1>1, <1>2, OfTypeIsKept DEF KeptAt

LEMMA OfTypeSeq ==
    ASSUME NEW E, NEW s \in Seq(E), NEW types
    PROVE  OfType(s, types) \in Seq(E)
  <1> DEFINE n == Len(s)
             F == Kept(s, types)
             T == {i \in 0 .. n : F[i] \in Seq(E)}
  <1>1. n \in Nat /\ \A i \in 1 .. n : s[i] \in E
    OBVIOUS
  <1> HIDE DEF n
  <1>2. \A i \in 0 .. n : F[i] = KeptAt(s, types, F, i)
    BY <1>1, KeptEquation DEF n
  <1> HIDE DEF F
  <1>3. F[0] = <<>>
    BY <1>1, <1>2 DEF KeptAt
  <1>a. F[0] \in Seq(E)
    BY <1>3
  <1>4. 0 \in T
    BY <1>1, <1>a
  <1>5. \A i \in 0 .. n - 1 : i \in T => i + 1 \in T
    <2> SUFFICES ASSUME NEW i \in 0 .. n - 1, F[i] \in Seq(E) PROVE F[i + 1] \in Seq(E)
      BY <1>1
    <2>1. i + 1 # 0 /\ (i + 1) - 1 = i /\ i + 1 \in 1 .. n
      BY <1>1
    <2>2. F[i + 1] = KeptAt(s, types, F, i + 1)
      BY <1>1, <1>2
    <2> QED BY <1>1, <2>1, <2>2 DEF KeptAt
  <1> HIDE DEF T
  <1>0. n \in Nat
    BY <1>1
  <1>6. \A i \in 0 .. n : i \in T
    BY <1>0, <1>4, <1>5, UpTo
  <1>7. F[n] \in Seq(E)
    BY <1>0, <1>6 DEF T
  <1> QED BY <1>7, OfTypeIsKept DEF F, n

----------------------------------------------------------------------------
(* Sorting.                                                                *)

Sorts(f, S) == /\ f \in [1 .. Cardinality(S) -> S] /\ Ascending(f)
               /\ \A x \in S : \E i \in DOMAIN f : f[i] = x

LEMMA SortExists ==
    ASSUME NEW n \in Nat
    PROVE  \A S \in SUBSET Nat : IsFiniteSet(S) /\ Cardinality(S) = n => \E f : Sorts(f, S)
  <1> DEFINE P(k) == \A S \in SUBSET Nat :
                         IsFiniteSet(S) /\ Cardinality(S) = k => \E f : Sorts(f, S)
             T == {k \in Nat : P(k)}
  <1>1. P(0)
    <2> SUFFICES ASSUME NEW S \in SUBSET Nat, IsFiniteSet(S), Cardinality(S) = 0
                 PROVE  \E f : Sorts(f, S)
      OBVIOUS
    <2>1. S = {}
      BY FS_EmptySet
    <2> DEFINE g == [i \in 1 .. 0 |-> 0]
    <2>2. Sorts(g, S)
      BY <2>1 DEF Sorts, Ascending
    <2> QED BY <2>2
  <1>2. ASSUME NEW k \in Nat, P(k) PROVE P(k + 1)
    <2> SUFFICES ASSUME NEW S \in SUBSET Nat, IsFiniteSet(S), Cardinality(S) = k + 1
                 PROVE  \E f : Sorts(f, S)
      OBVIOUS
    <2>1. S # {}
      BY FS_EmptySet
    <2>2. PICK m \in S : \A y \in S : m <= y
      BY <2>1, Least
    <2> DEFINE R == S \ {m}
    <2>3. IsFiniteSet(R) /\ Cardinality(R) = k
      BY <2>2, FS_RemoveElement
    <2>4. PICK f : Sorts(f, R)
      BY <1>2, <2>3
    <2> DEFINE g == [i \in 1 .. k + 1 |-> IF i = 1 THEN m ELSE f[i - 1]]
    <2>5. f \in [1 .. k -> R] /\ Ascending(f) /\ \A x \in R : \E i \in 1 .. k : f[i] = x
      BY <2>3, <2>4 DEF Sorts
    <2>6. g \in [1 .. k + 1 -> S]
      BY <2>5
    <2>7. Ascending(g)
      <3> SUFFICES ASSUME NEW i \in 1 .. k + 1, NEW j \in 1 .. k + 1, i < j PROVE g[i] < g[j]
        BY DEF Ascending
      <3>1. j - 1 \in 1 .. k /\ g[j] = f[j - 1] /\ f[j - 1] \in R
        BY <2>5
      <3>2. CASE i = 1
        <4>1. g[i] = m
          BY <3>2
        <4>2. m <= f[j - 1] /\ m # f[j - 1] /\ m \in Nat /\ f[j - 1] \in Nat
          BY <2>2, <3>1
        <4> QED BY <3>1, <4>1, <4>2
      <3>3. CASE i # 1
        <4>1. i - 1 \in 1 .. k /\ g[i] = f[i - 1] /\ i - 1 < j - 1
          BY <3>3
        <4>2. f[i - 1] < f[j - 1]
          BY <3>1, <4>1, <2>5 DEF Ascending
        <4> QED BY <3>1, <4>1, <4>2
      <3> QED BY <3>2, <3>3
    <2>8. ASSUME NEW x \in S PROVE \E i \in 1 .. k + 1 : g[i] = x
      <3>1. CASE x = m
        BY <3>1
      <3>2. CASE x # m
        <4>1. PICK i \in 1 .. k : f[i] = x
          BY <2>5, <3>2
        <4>2. i + 1 \in 1 .. k + 1 /\ g[i + 1] = x
          BY <4>1
        <4> QED BY <4>2
      <3> QED BY <3>1, <3>2
    <2>9. Sorts(g, S)
      BY <2>6, <2>7, <2>8 DEF Sorts
    <2> QED BY <2>9
  <1> HIDE DEF P
  <1>3. 0 \in T /\ \A i \in 0 .. n - 1 : i \in T => i + 1 \in T
    BY <1>1, <1>2
  <1> HIDE DEF T
  <1>4. n \in T
    BY <1>3, UpTo
  <1> QED BY <1>4 DEF T, P

\* Sorted(S) lists a finite set of numbers, each once and in order.
LEMMA SortedSorts ==
    ASSUME NEW S \in SUBSET Nat, IsFiniteSet(S)
    PROVE  /\ Sorted(S) \in [1 .. Cardinality(S) -> S] /\ Ascending(Sorted(S))
           /\ \A x \in S : \E i \in DOMAIN Sorted(S) : Sorted(S)[i] = x
           /\ Cardinality(S) \in Nat
  <1>1. Cardinality(S) \in Nat
    BY FS_CardinalityType
  <1>2. \E f : Sorts(f, S)
    BY <1>1, SortExists
  <1>3. \E f \in [1 .. Cardinality(S) -> S] :
            Ascending(f) /\ \A x \in S : \E i \in DOMAIN f : f[i] = x
    BY <1>2, Zenon DEF Sorts
  <1>4. /\ Sorted(S) \in [1 .. Cardinality(S) -> S] /\ Ascending(Sorted(S))
        /\ \A x \in S : \E i \in DOMAIN Sorted(S) : Sorted(S)[i] = x
    BY <1>3, Zenon DEF Sorted
  <1> QED BY <1>1, <1>4

\* The numbers below n, sorted.
LEMMA SortedInterval ==
    ASSUME NEW n \in Nat
    PROVE  Sorted(0 .. n - 1) = [i \in 1 .. n |-> i - 1]
  <1> DEFINE S == 0 .. n - 1
             f == Sorted(S)
             T == {k \in 0 .. n : \A i \in 1 .. k : f[i] = i - 1}
  <1>1. IsFiniteSet(S) /\ Cardinality(S) = n
    BY FS_Interval
  <1>2. S \in SUBSET Nat
    OBVIOUS
  <1> HIDE DEF S
  <1>3. f \in [1 .. n -> S] /\ Ascending(f) /\ \A x \in S : \E i \in DOMAIN f : f[i] = x
    BY <1>1, <1>2, SortedSorts
  <1> HIDE DEF f
  <1>4. 0 \in T
    OBVIOUS
  <1>5. \A k \in 0 .. n - 1 : k \in T => k + 1 \in T
    <2> SUFFICES ASSUME NEW k \in 0 .. n - 1, \A i \in 1 .. k : f[i] = i - 1
                 PROVE  f[k + 1] = k
      OBVIOUS
    <2>1. k \in S /\ f[k + 1] \in S /\ f[k + 1] \in Nat
      BY <1>3 DEF S
    <2>2. f[k + 1] >= k
      <3>1. CASE k = 0
        BY <3>1, <2>1
      <3>2. CASE k # 0
        <4>1. f[k] = k - 1 /\ f[k] < f[k + 1]
          BY <3>2, <1>3 DEF Ascending
        <4> QED BY <4>1, <2>1
      <3> QED BY <3>1, <3>2
    <2>3. PICK j \in 1 .. n : f[j] = k
      BY <1>3, <2>1
    <2>4. j > k
      BY <2>3
    <2>5. j = k + 1 \/ f[k + 1] < f[j]
      BY <2>4, <1>3 DEF Ascending
    <2> QED BY <2>1, <2>2, <2>3, <2>5
  <1> HIDE DEF T
  <1>6. n \in T
    BY <1>4, <1>5, UpTo
  <1> QED BY <1>3, <1>6 DEF T, f, S

----------------------------------------------------------------------------
(* One part begins.                                                        *)

LEMMA Constants ==
    /\ None \notin Nat /\ None \notin Words /\ Pieces \subseteq Words /\ None \notin Reasons
    /\ "t" \in Words
    /\ Text \notin Tools /\ Text \in Parts /\ Tools \subseteq Parts /\ Tools \subseteq Nat
    /\ \A p \in Parts : p = Text \/ p \in Tools
    /\ \A c \in Chunks : Chunk(c)
  <1>1. Tools \subseteq Nat /\ None \notin Nat \cup Words \cup Reasons
        /\ \A c \in Chunks : Chunk(c)
    BY StreamAssumption
  <1>2. Pieces \subseteq Words /\ "t" \in Words
    BY DEF Words
  <1> QED BY <1>1, <1>2 DEF Text, Parts

LEMMA PlaceOfType ==
    ASSUME NEW e \in Encoder, NEW p \in Parts
    PROVE  PlaceOf(e, p) \in Nat \cup {None}
  BY Constants DEF Encoder, Tool, PlaceOf

\* e1 is e after part was given the next place.
Extends(e, e1, part) ==
    /\ e1 \in Encoder /\ e1.next = e.next + 1
    /\ PlaceOf(e, part) = None
    /\ \A p \in Parts : PlaceOf(e1, p) = IF p = part THEN e.next ELSE PlaceOf(e, p)

LEMMA ExtendsParts ==
    ASSUME NEW e \in Encoder, NEW e1, NEW part \in Parts, Extends(e, e1, part)
    PROVE  /\ PartsOf(e1) = PartsOf(e) \cup {part} /\ part \notin PartsOf(e)
           /\ e.next \in Nat /\ e1.next = e.next + 1
           /\ PlaceOf(e1, part) = e.next
           /\ \A p \in PartsOf(e) : PlaceOf(e1, p) = PlaceOf(e, p)
  <1>1. e.next \in Nat /\ e.next # None
    BY Constants DEF Encoder
  <1> QED BY <1>1 DEF Extends, PartsOf

LEMMA ExtendsPlaced ==
    ASSUME NEW e \in Encoder, NEW e1, NEW part \in Parts, Extends(e, e1, part),
           NEW pr, Placed(pr, e), e1.open = IF pr = "anthropic" THEN e.next ELSE None
    PROVE  Placed(pr, e1)
  <1>1. /\ PartsOf(e1) = PartsOf(e) \cup {part} /\ part \notin PartsOf(e)
        /\ e.next \in Nat /\ e1.next = e.next + 1
        /\ PlaceOf(e1, part) = e.next
        /\ \A p \in PartsOf(e) : PlaceOf(e1, p) = PlaceOf(e, p)
    BY ExtendsParts
  <1>2. \A p \in PartsOf(e1) : PlaceOf(e1, p) \in 0 .. e1.next - 1
    BY <1>1 DEF Placed
  <1>3. \A p, q \in PartsOf(e1) : PlaceOf(e1, p) = PlaceOf(e1, q) => p = q
    <2> SUFFICES ASSUME NEW p \in PartsOf(e1), NEW q \in PartsOf(e1),
                        PlaceOf(e1, p) = PlaceOf(e1, q), p # q
                 PROVE  FALSE
      OBVIOUS
    <2>1. \A r \in PartsOf(e) : PlaceOf(e1, r) # e.next
      BY <1>1 DEF Placed
    <2> QED BY <1>1, <2>1 DEF Placed
  <1>4. \A n \in 0 .. e1.next - 1 : \E p \in PartsOf(e1) : PlaceOf(e1, p) = n
    <2> TAKE n \in 0 .. e1.next - 1
    <2>1. CASE n = e.next
      BY <1>1, <2>1
    <2>2. CASE n # e.next
      <3>1. n \in 0 .. e.next - 1
        BY <1>1, <2>2
      <3> QED BY <1>1, <3>1 DEF Placed
    <2> QED BY <2>1, <2>2
  <1>5. e1.open = IF pr = "anthropic" /\ e1.next > 0 THEN e1.next - 1 ELSE None
    BY <1>1
  <1> QED BY <1>2, <1>3, <1>4, <1>5 DEF Placed

LEMMA EvType ==
    ASSUME NEW type \in {"created", "in_progress", "message_start", "start", "delta", "stop",
                    "message_delta", "end", "comment", "raw"},
           NEW at \in Nat \cup {None}, NEW part \in Parts \cup {None}, NEW what \in Words \cup {None}
    PROVE  Ev(type, at, part, what) \in Event
  <1>1. <<>> \in Seq(Parts)
    OBVIOUS
  <1> QED BY <1>1 DEF Ev, Event

\* The output after closeOpen.
Closed(e, o) == IF protocol # "anthropic" \/ e.open = None THEN o
                ELSE Append(o, Ev("stop", e.open, None, None))

\* Began, by what it does to the places and to the output.
LEMMA BeganIs ==
    ASSUME NEW e \in Encoder, NEW o \in Seq(Event), NEW part \in Parts, NEW tool \in Tool,
           PlaceOf(e, part) = None,
           NEW b, b = Began(<<e, o>>, part, tool)
    PROVE  /\ b = <<b[1], b[2]>>
           /\ Extends(e, b[1], part)
           /\ b[1].started = e.started /\ b[1].finish = e.finish
           /\ b[1].open = IF protocol = "anthropic" THEN e.next ELSE None
           /\ b[2] = Append(Closed(e, o), Ev("start", e.next, part, None))
           /\ Closed(e, o) \in Seq(Event) /\ b[2] \in Seq(Event)
  <1> DEFINE c == Closed(e, o)
             d == closeOpen(<<e, o>>)[1]
             n == e.next
             f == IF part = Text THEN [d EXCEPT !.text = n]
                  ELSE [d EXCEPT !.tools[part] = [tool EXCEPT !.at = n]]
             op == IF protocol = "anthropic" THEN n ELSE None
             g == [f EXCEPT !.next = @ + 1, !.open = op]
             x == Ev("start", n, part, None)
  <1>1. /\ d \in Encoder /\ d.next = e.next /\ d.text = e.text /\ d.tools = e.tools
        /\ d.started = e.started /\ d.finish = e.finish
        /\ closeOpen(<<e, o>>)[2] = Closed(e, o)
    <2>1. CASE protocol # "anthropic" \/ e.open = None
      BY <2>1 DEF closeOpen, Closed
    <2>2. CASE ~(protocol # "anthropic" \/ e.open = None)
      BY <2>2 DEF closeOpen, Encoder, Closed
    <2> QED BY <2>1, <2>2
  <1>2. b = <<g, Append(c, x)>>
    BY <1>1 DEF Began, PlaceFor
  <1> HIDE DEF d
  <1>3. n \in Nat
    BY DEF Encoder
  <1>4. /\ f \in Encoder /\ f.next = e.next /\ f.started = e.started /\ f.finish = e.finish
        /\ \A p \in Parts : PlaceOf(f, p) = IF p = part THEN e.next ELSE PlaceOf(e, p)
    <2>1. CASE part = Text
      BY <1>1, <1>3, <2>1, Constants DEF Encoder, PlaceOf
    <2>2. CASE part # Text
      <3>1. part \in Tools /\ [tool EXCEPT !.at = n] \in Tool /\ [tool EXCEPT !.at = n].at = n
        BY <2>2, <1>3, Constants DEF Tool
      <3>2. f = [d EXCEPT !.tools[part] = [tool EXCEPT !.at = n]]
        BY <2>2
      <3>3. /\ f \in Encoder /\ f.next = e.next /\ f.started = e.started /\ f.finish = e.finish
            /\ f.text = e.text /\ \A p \in Tools : f.tools[p] = IF p = part THEN [tool EXCEPT !.at = n] ELSE e.tools[p]
        BY <1>1, <3>1, <3>2 DEF Encoder
      <3>4. ASSUME NEW p \in Parts
            PROVE  PlaceOf(f, p) = IF p = part THEN e.next ELSE PlaceOf(e, p)
        <4>1. CASE p = Text
          BY <4>1, <2>2, <3>3 DEF PlaceOf
        <4>2. CASE p # Text
          <5>1. p \in Tools
            BY <4>2, Constants
          <5>2. PlaceOf(f, p) = f.tools[p].at /\ PlaceOf(e, p) = e.tools[p].at
            BY <4>2 DEF PlaceOf
          <5>3. CASE p = part
            BY <5>1, <5>2, <5>3, <3>1, <3>3
          <5>4. CASE p # part
            BY <5>1, <5>2, <5>4, <3>3
          <5> QED BY <5>3, <5>4
        <4> QED BY <4>1, <4>2
      <3> QED BY <3>3, <3>4
    <2> QED BY <2>1, <2>2
  <1> HIDE DEF f
  <1>5. /\ g \in Encoder /\ g.next = e.next + 1 /\ g.started = e.started /\ g.finish = e.finish
        /\ g.open = op
        /\ g.text = f.text /\ g.tools = f.tools
    <2>1. op \in Nat \cup {None}
      BY <1>3
    <2> HIDE DEF op
    <2>2. g = [started |-> f.started, text |-> f.text, tools |-> f.tools, next |-> f.next + 1,
               open |-> op, finish |-> f.finish]
      <3>1. f = [started |-> f.started, text |-> f.text, tools |-> f.tools, next |-> f.next,
                 open |-> f.open, finish |-> f.finish]
        BY <1>4 DEF Encoder
      <3> DEFINE h == [f EXCEPT !.next = f.next + 1]
      <3>2. h = [started |-> f.started, text |-> f.text, tools |-> f.tools, next |-> f.next + 1,
                 open |-> f.open, finish |-> f.finish]
        BY <3>1
      <3>3. g = [h EXCEPT !.open = op]
        OBVIOUS
      <3> HIDE DEF h, g
      <3> QED BY <3>2, <3>3
    <2> HIDE DEF g
    <2> QED BY <2>1, <2>2, <1>3, <1>4 DEF Encoder
  <1>6. \A p \in Parts : PlaceOf(g, p) = PlaceOf(f, p)
    BY <1>5 DEF PlaceOf
  <1> HIDE DEF g
  <1>7. Ev("stop", e.open, None, None) \in Event /\ x \in Event
    BY <1>3, EvType DEF Encoder
  <1>8. c \in Seq(Event)
    BY <1>7 DEF Closed
  <1> HIDE DEF x
  <1>9. Append(c, x) \in Seq(Event)
    BY <1>7, <1>8
  <1>10. Extends(e, g, part)
    BY <1>4, <1>5, <1>6 DEF Extends
  <1>11. b[1] = g /\ b[2] = Append(c, x) /\ b = <<b[1], b[2]>>
    <2> DEFINE y == Append(c, x)
    <2>1. b = <<g, y>>
      BY <1>2
    <2> HIDE DEF y
    <2>2. b[1] = g
      BY <2>1
    <2>3. b[2] = y
      BY <2>1
    <2>4. b = <<b[1], b[2]>>
      BY <2>1, <2>2, <2>3, Zenon
    <2> QED BY <2>2, <2>3, <2>4 DEF y
  <1> QED BY <1>5, <1>8, <1>9, <1>10, <1>11 DEF x

----------------------------------------------------------------------------
(* What one more event does to each part of the invariant.                 *)

LEMMA PairIs ==
    ASSUME NEW a, NEW b, NEW d, d = <<a, b>>
    PROVE  d[1] = a /\ d[2] = b /\ d = <<d[1], d[2]>>
  OBVIOUS

LEMMA SeqIs ==
    ASSUME NEW E, NEW n \in Nat, NEW y \in [1 .. n -> E]
    PROVE  y \in Seq(E) /\ Len(y) = n
  OBVIOUS

LEMMA AppendIs ==
    ASSUME NEW E, NEW o \in Seq(E), NEW x \in E, NEW r, r = Append(o, x)
    PROVE  /\ r \in Seq(E) /\ Len(o) \in Nat /\ Len(r) = Len(o) + 1
           /\ DOMAIN o = 1 .. Len(o) /\ DOMAIN r = 1 .. Len(o) + 1
           /\ r[Len(o) + 1] = x /\ \A i \in 1 .. Len(o) : r[i] = o[i]
           /\ r # <<>>
  OBVIOUS

\* The start of the part that gets the next place.
LEMMA StartsOnceStart ==
    ASSUME NEW e \in Encoder, NEW e1, NEW part \in Parts, Extends(e, e1, part), NEW pr, Placed(pr, e),
           NEW o \in Seq(Event), NEW x \in Event, x.type = "start", x.at = e.next, x.part = part,
           StartsOnce(e, o), NEW r, r = Append(o, x)
    PROVE  StartsOnce(e1, r)
  <1> DEFINE n == Len(o)
  <1>1. /\ n \in Nat /\ DOMAIN o = 1 .. n /\ DOMAIN r = 1 .. n + 1
        /\ r[n + 1] = x /\ \A i \in 1 .. n : r[i] = o[i]
    BY AppendIs
  <1> HIDE DEF n
  <1>2. \A i \in DOMAIN r : i # n + 1 => i \in 1 .. n /\ r[i] = o[i]
    BY <1>1
  <1>p. /\ PartsOf(e1) = PartsOf(e) \cup {part} /\ part \notin PartsOf(e)
        /\ e.next \in Nat /\ e1.next = e.next + 1
        /\ PlaceOf(e1, part) = e.next
        /\ \A p \in PartsOf(e) : PlaceOf(e1, p) = PlaceOf(e, p)
    BY ExtendsParts
  <1>o. \A i \in 1 .. n : o[i].type = "start" => o[i].at \in 0 .. e.next - 1
    <2>1. \A p \in PartsOf(e) : PlaceOf(e, p) \in 0 .. e.next - 1
      BY DEF Placed
    <2>2. \A i \in DOMAIN o : o[i].type = "start" =>
              o[i].part \in PartsOf(e) /\ PlaceOf(e, o[i].part) = o[i].at
      BY DEF StartsOnce
    <2> QED BY <1>1, <2>1, <2>2, Zenon
  <1>3. ASSUME NEW k \in 0 .. e1.next - 1
        PROVE  \E i \in DOMAIN r :
                  At(r, i, "start", k) /\ \A j \in DOMAIN r : At(r, j, "start", k) => j = i
    <2>1. CASE k = e.next
      <3>1. n + 1 \in DOMAIN r /\ At(r, n + 1, "start", k)
        BY <1>1, <2>1 DEF At
      <3>2. \A j \in DOMAIN r : At(r, j, "start", k) => j = n + 1
        BY <1>2, <1>o, <1>p, <2>1 DEF At
      <3> QED BY <3>1, <3>2
    <2>2. CASE k # e.next
      <3>0. k \in 0 .. e.next - 1
        BY <2>2, <1>p
      <3>1. PICK i \in DOMAIN o :
                At(o, i, "start", k) /\ \A j \in DOMAIN o : At(o, j, "start", k) => j = i
        BY <3>0 DEF StartsOnce
      <3>2. i \in DOMAIN r /\ At(r, i, "start", k)
        BY <1>1, <3>1 DEF At
      <3>3. \A j \in DOMAIN r : At(r, j, "start", k) => j = i
        BY <1>1, <1>2, <2>2, <3>1 DEF At
      <3> QED BY <3>2, <3>3
    <2> QED BY <2>1, <2>2
  <1>4. ASSUME NEW i \in DOMAIN r, r[i].type = "start"
        PROVE  r[i].part \in PartsOf(e1) /\ PlaceOf(e1, r[i].part) = r[i].at
    <2>1. CASE i = n + 1
      BY <2>1, <1>1, <1>p
    <2>2. CASE i # n + 1
      <3>1. i \in DOMAIN o /\ r[i] = o[i]
        BY <1>1, <1>2, <2>2
      <3> QED BY <3>1, <1>4, <1>p DEF StartsOnce
    <2> QED BY <2>1, <2>2
  <1>5. ASSUME NEW i \in DOMAIN r, r[i].type = "delta"
        PROVE  \E j \in 1 .. i - 1 : At(r, j, "start", r[i].at)
    <2>1. i \in DOMAIN o /\ r[i] = o[i]
      BY <1>1, <1>2, <1>5
    <2>2. PICK j \in 1 .. i - 1 : At(o, j, "start", o[i].at)
      BY <2>1, <1>5 DEF StartsOnce
    <2>3. r[j] = o[j]
      BY <1>1, <2>1, <2>2
    <2> QED BY <2>1, <2>2, <2>3 DEF At
  <1> QED BY <1>3, <1>4, <1>5, Zenon DEF StartsOnce

\* Any other event, if it is a delta for a part that has a place.
LEMMA StartsOnceOther ==
    ASSUME NEW e, NEW o \in Seq(Event), NEW x \in Event, x.type # "start",
           x.type = "delta" => x.at \in 0 .. e.next - 1, StartsOnce(e, o),
           NEW r, r = Append(o, x)
    PROVE  StartsOnce(e, r)
  <1> DEFINE n == Len(o)
  <1>1. /\ n \in Nat /\ DOMAIN o = 1 .. n /\ DOMAIN r = 1 .. n + 1
        /\ r[n + 1] = x /\ \A i \in 1 .. n : r[i] = o[i]
    BY AppendIs
  <1> HIDE DEF n
  <1>2. \A i \in DOMAIN r : i # n + 1 => i \in 1 .. n /\ r[i] = o[i]
    BY <1>1
  <1>3. ASSUME NEW k \in 0 .. e.next - 1
        PROVE  \E i \in DOMAIN r :
                  At(r, i, "start", k) /\ \A j \in DOMAIN r : At(r, j, "start", k) => j = i
    <2>1. PICK i \in DOMAIN o :
              At(o, i, "start", k) /\ \A j \in DOMAIN o : At(o, j, "start", k) => j = i
      BY DEF StartsOnce
    <2>2. i \in DOMAIN r /\ At(r, i, "start", k)
      BY <1>1, <2>1 DEF At
    <2>3. \A j \in DOMAIN r : At(r, j, "start", k) => j = i
      BY <1>1, <1>2, <2>1 DEF At
    <2> QED BY <2>2, <2>3
  <1>4. ASSUME NEW i \in DOMAIN r, r[i].type = "start"
        PROVE  r[i].part \in PartsOf(e) /\ PlaceOf(e, r[i].part) = r[i].at
    <2>1. i \in DOMAIN o /\ r[i] = o[i]
      BY <1>1, <1>2, <1>4
    <2> QED BY <2>1, <1>4 DEF StartsOnce
  <1>5. ASSUME NEW i \in DOMAIN r, r[i].type = "delta"
        PROVE  \E j \in 1 .. i - 1 : At(r, j, "start", r[i].at)
    <2>0. CASE i = n + 1
      <3>1. PICK j \in DOMAIN o : At(o, j, "start", x.at)
        BY <1>1, <1>5, <2>0 DEF StartsOnce
      <3>2. j \in 1 .. i - 1 /\ At(r, j, "start", x.at) /\ r[i] = x
        BY <1>1, <2>0, <3>1 DEF At
      <3> QED BY <3>2
    <2>9. CASE i # n + 1
      <3>1. i \in DOMAIN o /\ r[i] = o[i]
        BY <1>1, <1>2, <2>9
      <3>2. PICK j \in 1 .. i - 1 : At(o, j, "start", o[i].at)
        BY <3>1, <1>5 DEF StartsOnce
      <3>3. r[j] = o[j]
        BY <1>1, <3>1, <3>2
      <3> QED BY <3>1, <3>2, <3>3 DEF At
    <2> QED BY <2>0, <2>9
  <1> QED BY <1>3, <1>4, <1>5, Zenon DEF StartsOnce

\* The marks of the blocks: a start, a stop of the last one started, any other event.
LEMMA AlternateStart ==
    ASSUME NEW e, NEW e1, e.next \in Nat, e1.next = e.next + 1, NEW o \in Seq(Event), NEW x \in Event,
           x.type = "start", x.at = e.next, Alternate(e, o, TRUE), NEW r, r = Append(o, x)
    PROVE  Alternate(e1, r, FALSE)
  <1> DEFINE m == OfType(o, {"start", "stop"})
             m1 == OfType(r, {"start", "stop"})
             k == Len(m)
  <1>1. m \in Seq(Event) /\ m1 = Append(m, x)
    BY OfTypeSeq, OfTypeAppend
  <1>2. k = 2 * e.next /\ \A n \in 0 .. e.next - 1 :
              /\ At(m, 2 * n + 1, "start", n)
              /\ 2 * n + 2 \in DOMAIN m => At(m, 2 * n + 2, "stop", n)
    BY DEF Alternate
  <1> HIDE DEF m, m1
  <1>3. /\ k \in Nat /\ DOMAIN m = 1 .. k /\ DOMAIN m1 = 1 .. k + 1 /\ Len(m1) = k + 1
        /\ m1[k + 1] = x /\ \A i \in 1 .. k : m1[i] = m[i]
    BY <1>1, AppendIs
  <1> HIDE DEF k
  <1>4. Len(m1) = 2 * e1.next - 1 /\ e1.next # 0
    BY <1>2, <1>3
  <1>5. ASSUME NEW n \in 0 .. e1.next - 1
        PROVE  /\ At(m1, 2 * n + 1, "start", n)
               /\ 2 * n + 2 \in DOMAIN m1 => At(m1, 2 * n + 2, "stop", n)
    <2>1. CASE n = e.next
      <3>1. 2 * n + 1 = k + 1 /\ 2 * n + 2 \notin DOMAIN m1
        BY <2>1, <1>2, <1>3
      <3> QED BY <3>1, <2>1, <1>3 DEF At
    <2>2. CASE n # e.next
      <3>1. n \in 0 .. e.next - 1 /\ 2 * n + 1 \in 1 .. k /\ 2 * n + 2 \in 1 .. k
        BY <2>2, <1>2
      <3>2. m1[2 * n + 1] = m[2 * n + 1] /\ m1[2 * n + 2] = m[2 * n + 2]
        BY <1>3, <3>1
      <3>3. At(m, 2 * n + 1, "start", n)
        BY <1>2, <3>1
      <3>4. At(m, 2 * n + 2, "stop", n)
        BY <1>2, <1>3, <3>1
      <3> QED BY <3>2, <3>3, <3>4 DEF At
    <2> QED BY <2>1, <2>2
  <1> QED BY <1>4, <1>5 DEF Alternate, m1

LEMMA AlternateStop ==
    ASSUME NEW e, e.next \in Nat, e.next > 0, NEW o \in Seq(Event), NEW x \in Event,
           x.type = "stop", x.at = e.next - 1, Alternate(e, o, FALSE), NEW r, r = Append(o, x)
    PROVE  Alternate(e, r, TRUE)
  <1> DEFINE m == OfType(o, {"start", "stop"})
             m1 == OfType(r, {"start", "stop"})
             k == Len(m)
  <1>1. m \in Seq(Event) /\ m1 = Append(m, x)
    BY OfTypeSeq, OfTypeAppend
  <1>2. k = 2 * e.next - 1 /\ \A n \in 0 .. e.next - 1 :
              /\ At(m, 2 * n + 1, "start", n)
              /\ 2 * n + 2 \in DOMAIN m => At(m, 2 * n + 2, "stop", n)
    BY DEF Alternate
  <1> HIDE DEF m, m1
  <1>3. /\ k \in Nat /\ DOMAIN m = 1 .. k /\ DOMAIN m1 = 1 .. k + 1 /\ Len(m1) = k + 1
        /\ m1[k + 1] = x /\ \A i \in 1 .. k : m1[i] = m[i]
    BY <1>1, AppendIs
  <1> HIDE DEF k
  <1>4. Len(m1) = 2 * e.next
    BY <1>2, <1>3
  <1>5. ASSUME NEW n \in 0 .. e.next - 1
        PROVE  /\ At(m1, 2 * n + 1, "start", n)
               /\ 2 * n + 2 \in DOMAIN m1 => At(m1, 2 * n + 2, "stop", n)
    <2>0. 2 * n + 1 \in 1 .. k
      BY <1>2
    <2>1. CASE n = e.next - 1
      <3>1. n \in Nat /\ e.next = n + 1 /\ k = 2 * (n + 1) - 1
        BY <2>1, <1>2
      <3>2. 2 * n + 2 = k + 1
        BY <3>1
      <3>3. At(m1, 2 * n + 1, "start", n)
        BY <2>0, <1>2, <1>3 DEF At
      <3>4. m1[2 * n + 2] = x /\ x.at = n
        BY <3>2, <2>1, <1>3
      <3> QED BY <3>3, <3>4 DEF At
    <2>2. CASE n # e.next - 1
      <3>1. 2 * n + 2 \in 1 .. k
        BY <2>2, <1>2
      <3>2. m1[2 * n + 1] = m[2 * n + 1] /\ m1[2 * n + 2] = m[2 * n + 2]
        BY <1>3, <2>0, <3>1
      <3>3. At(m, 2 * n + 1, "start", n)
        BY <1>2
      <3>4. At(m, 2 * n + 2, "stop", n)
        BY <1>2, <1>3, <3>1
      <3> QED BY <3>2, <3>3, <3>4 DEF At
    <2> QED BY <2>1, <2>2
  <1> QED BY <1>4, <1>5 DEF Alternate, m1

LEMMA AlternateOther ==
    ASSUME NEW e, NEW e1, e1.next = e.next, NEW o \in Seq(Event), NEW x \in Event, NEW b \in BOOLEAN,
           x.type \notin {"start", "stop"}, Alternate(e, o, b), NEW r, r = Append(o, x)
    PROVE  Alternate(e1, r, b)
  <1>1. OfType(r, {"start", "stop"}) = OfType(o, {"start", "stop"})
    BY OfTypeAppend
  <1> QED BY <1>1 DEF Alternate

\* What has been said grows.
LEMMA ReturnsGrows ==
    ASSUME NEW q \in Seq(Mention), NEW m \in Mention, NEW q1, q1 = Append(q, m), Returns(q)
    PROVE  Returns(q1)
  <1>1. DOMAIN q \subseteq DOMAIN q1 /\ \A i \in DOMAIN q : q1[i] = q[i]
    BY AppendIs
  <1>2. PICK i \in DOMAIN q, j \in DOMAIN q, k \in DOMAIN q :
            i < j /\ j < k /\ q[i].part = q[k].part /\ q[j].part # q[i].part
    BY DEF Returns
  <1> HIDE DEF Returns
  <1>3. /\ i \in DOMAIN q1 /\ j \in DOMAIN q1 /\ k \in DOMAIN q1
        /\ i < j /\ j < k /\ q1[i].part = q1[k].part /\ q1[j].part # q1[i].part
    BY <1>1, <1>2
  <1> QED BY <1>3 DEF Returns

LEMMA SaidGrows ==
    ASSUME NEW pr, NEW e, NEW o, NEW q \in Seq(Mention), NEW m \in Mention, NEW q1, q1 = Append(q, m),
           StopsExplained(pr, e, o, q), Mentioned(e, q)
    PROVE  StopsExplained(pr, e, o, q1) /\ Mentioned(e, q1)
  <1>1. DOMAIN q \subseteq DOMAIN q1 /\ \A i \in DOMAIN q : q1[i] = q[i]
    BY AppendIs
  <1>2. Mentioned(e, q1)
    BY <1>1 DEF Mentioned
  <1>3. ASSUME NEW j \in DOMAIN o, o[j].type = "stop"
        PROVE  /\ pr = "anthropic" /\ o[j].at \in 0 .. e.next - 1
               /\ \E a, b \in DOMAIN q1 :
                      /\ a < b /\ q1[a].part # q1[b].part
                      /\ q1[a].part \in PartsOf(e) /\ PlaceOf(e, q1[a].part) = o[j].at
    <2>1. /\ pr = "anthropic" /\ o[j].at \in 0 .. e.next - 1
          /\ \E a, b \in DOMAIN q :
                      /\ a < b /\ q[a].part # q[b].part
                      /\ q[a].part \in PartsOf(e) /\ PlaceOf(e, q[a].part) = o[j].at
      BY <1>3 DEF StopsExplained
    <2>2. PICK a \in DOMAIN q, b \in DOMAIN q :
                      /\ a < b /\ q[a].part # q[b].part
                      /\ q[a].part \in PartsOf(e) /\ PlaceOf(e, q[a].part) = o[j].at
      BY <2>1
    <2>3. /\ a \in DOMAIN q1 /\ b \in DOMAIN q1
          /\ a < b /\ q1[a].part # q1[b].part
          /\ q1[a].part \in PartsOf(e) /\ PlaceOf(e, q1[a].part) = o[j].at
      BY <1>1, <2>2
    <2> QED BY <2>1, <2>3
  <1>4. StopsExplained(pr, e, o, q1)
    BY <1>3, Zenon DEF StopsExplained
  <1> QED BY <1>2, <1>4

\* Stops of blocks, and the deltas of blocks that are open.
LEMMA StopsExplainedAppend ==
    ASSUME NEW pr, NEW e, NEW o \in Seq(Event), NEW q, NEW x \in Event, NEW r, r = Append(o, x),
           StopsExplained(pr, e, o, q),
           x.type = "stop" =>
               /\ pr = "anthropic" /\ x.at \in 0 .. e.next - 1
               /\ \E a, b \in DOMAIN q : /\ a < b /\ q[a].part # q[b].part
                                         /\ q[a].part \in PartsOf(e) /\ PlaceOf(e, q[a].part) = x.at
    PROVE  StopsExplained(pr, e, r, q)
  <1>1. \A j \in DOMAIN r : r[j] = x \/ (j \in DOMAIN o /\ r[j] = o[j])
    BY AppendIs
  <1>2. ASSUME NEW j \in DOMAIN r, r[j].type = "stop"
        PROVE  /\ pr = "anthropic" /\ r[j].at \in 0 .. e.next - 1
               /\ \E a, b \in DOMAIN q :
                      /\ a < b /\ q[a].part # q[b].part
                      /\ q[a].part \in PartsOf(e) /\ PlaceOf(e, q[a].part) = r[j].at
    <2>1. CASE r[j] = x
      BY <2>1, <1>2
    <2>2. CASE j \in DOMAIN o /\ r[j] = o[j]
      BY <2>2, <1>2, Zenon DEF StopsExplained
    <2> QED BY <1>1, <2>1, <2>2
  <1> QED BY <1>2, Zenon DEF StopsExplained

LEMMA StopsExplainedExtends ==
    ASSUME NEW pr, NEW e \in Encoder, NEW e1, NEW part \in Parts, Extends(e, e1, part), NEW o, NEW q,
           StopsExplained(pr, e, o, q)
    PROVE  StopsExplained(pr, e1, o, q)
  <1>1. /\ PartsOf(e) \subseteq PartsOf(e1) /\ e.next \in Nat /\ e1.next = e.next + 1
        /\ \A p \in PartsOf(e) : PlaceOf(e1, p) = PlaceOf(e, p)
    BY ExtendsParts
  <1>2. ASSUME NEW j \in DOMAIN o, o[j].type = "stop"
        PROVE  /\ pr = "anthropic" /\ o[j].at \in 0 .. e1.next - 1
               /\ \E a, b \in DOMAIN q :
                      /\ a < b /\ q[a].part # q[b].part
                      /\ q[a].part \in PartsOf(e1) /\ PlaceOf(e1, q[a].part) = o[j].at
    <2>1. /\ pr = "anthropic" /\ o[j].at \in 0 .. e.next - 1
          /\ \E a, b \in DOMAIN q :
                      /\ a < b /\ q[a].part # q[b].part
                      /\ q[a].part \in PartsOf(e) /\ PlaceOf(e, q[a].part) = o[j].at
      BY <1>2 DEF StopsExplained
    <2>2. o[j].at \in 0 .. e1.next - 1
      BY <1>1, <2>1
    <2>3. \E a, b \in DOMAIN q :
                      /\ a < b /\ q[a].part # q[b].part
                      /\ q[a].part \in PartsOf(e1) /\ PlaceOf(e1, q[a].part) = o[j].at
      BY <1>1, <2>1
    <2> QED BY <2>1, <2>2, <2>3
  <1> QED BY <1>2, Zenon DEF StopsExplained

LEMMA OpenUnlessAppend ==
    ASSUME NEW o \in Seq(Event), NEW q, NEW x \in Event, NEW r, r = Append(o, x),
           OpenUnlessReturns(o, q),
           x.type = "delta" => Returns(q) \/ \A j \in DOMAIN o : ~ At(o, j, "stop", x.at)
    PROVE  OpenUnlessReturns(r, q)
  <1> DEFINE n == Len(o)
  <1>1. /\ n \in Nat /\ DOMAIN o = 1 .. n /\ DOMAIN r = 1 .. n + 1
        /\ r[n + 1] = x /\ \A i \in 1 .. n : r[i] = o[i]
    BY AppendIs
  <1> HIDE DEF n
  <1> SUFFICES ASSUME NEW i \in DOMAIN r, r[i].type = "delta", ~ Returns(q),
                      NEW j \in 1 .. i - 1
               PROVE  ~ At(r, j, "stop", r[i].at)
    BY Zenon DEF OpenUnlessReturns
  <1>2. j \in DOMAIN o /\ r[j] = o[j]
    BY <1>1
  <1>3. CASE i = n + 1
    BY <1>1, <1>2, <1>3 DEF At
  <1>4. CASE i # n + 1
    <2>1. i \in DOMAIN o /\ r[i] = o[i]
      BY <1>1, <1>4
    <2> QED BY <2>1, <1>2 DEF At, OpenUnlessReturns
  <1> QED BY <1>3, <1>4

\* The deltas and the pieces.
LEMMA SameDeltasKept ==
    ASSUME NEW e, NEW e1, NEW o, NEW o1, NEW q, NEW q1, SameDeltas(e, o, q),
           \A p \in PartsOf(e) : p \in PartsOf(e1) /\ PlaceOf(e1, p) = PlaceOf(e, p),
           OfType(o1, {"delta"}) = OfType(o, {"delta"}),
           OfType(q1, {"delta"}) = OfType(q, {"delta"})
    PROVE  SameDeltas(e1, o1, q1)
  BY DEF SameDeltas

LEMMA SameDeltasDelta ==
    ASSUME NEW e, NEW o \in Seq(Event), NEW q \in Seq(Mention), SameDeltas(e, o, q),
           NEW x \in Event, NEW m \in Mention, x.type = "delta", m.type = "delta",
           m.part \in PartsOf(e), x.at = PlaceOf(e, m.part), x.what = m.what
    PROVE  SameDeltas(e, Append(o, x), Append(q, m))
  <1> DEFINE d == OfType(o, {"delta"})
             u == OfType(q, {"delta"})
             d1 == OfType(Append(o, x), {"delta"})
             u1 == OfType(Append(q, m), {"delta"})
             k == Len(d)
  <1>1. d \in Seq(Event) /\ d1 = Append(d, x) /\ u \in Seq(Mention) /\ u1 = Append(u, m)
    <2>1. d \in Seq(Event)
      BY OfTypeSeq
    <2>2. u \in Seq(Mention)
      BY OfTypeSeq
    <2>3. d1 = Append(d, x)
      BY OfTypeAppend
    <2>4. u1 = Append(u, m)
      BY OfTypeAppend
    <2> QED BY <2>1, <2>2, <2>3, <2>4, Zenon
  <1>2. k = Len(u) /\ \A i \in DOMAIN d :
              /\ u[i].part \in PartsOf(e) /\ d[i].at = PlaceOf(e, u[i].part)
              /\ d[i].what = u[i].what
    BY DEF SameDeltas
  <1>3. ASSUME NEW d2, NEW u2, d2 = d1, u2 = u1
        PROVE  /\ Len(d2) = Len(u2)
               /\ \A i \in DOMAIN d2 :
                     /\ u2[i].part \in PartsOf(e) /\ d2[i].at = PlaceOf(e, u2[i].part)
                     /\ d2[i].what = u2[i].what
    <2> HIDE DEF d, u, d1, u1
    <2>1. /\ k \in Nat /\ DOMAIN d = 1 .. k /\ DOMAIN d2 = 1 .. k + 1 /\ Len(d2) = k + 1
          /\ d2[k + 1] = x /\ \A i \in 1 .. k : d2[i] = d[i]
      BY <1>1, <1>3, AppendIs
    <2>2. Len(u2) = k + 1 /\ u2[k + 1] = m /\ \A i \in 1 .. k : u2[i] = u[i]
      BY <1>1, <1>2, <1>3, AppendIs
    <2> HIDE DEF k
    <2>3. \A i \in DOMAIN d2 : i = k + 1 \/ i \in 1 .. k
      BY <2>1
    <2> QED BY <1>2, <2>1, <2>2, <2>3
  <1> HIDE DEF k
  <1> QED BY <1>3 DEF SameDeltas

----------------------------------------------------------------------------
(* What the upstream mentions keeps the answer well formed.                *)

\* A part is there and mentioned; its piece is still to come.
Begun(b, q, q1, part) ==
    /\ b = <<b[1], b[2]>> /\ b[1] \in Encoder /\ b[2] \in Seq(Event)
    /\ Placed(protocol, b[1]) /\ Answering(protocol, b[1], b[2], q1)
    /\ SameDeltas(b[1], b[2], q)
    /\ b[1].started = TRUE /\ b[2] # <<>> /\ part \in PartsOf(b[1])

LEMMA AnsweringBegins ==
    ASSUME NEW e \in Encoder, NEW o \in Seq(Event), NEW q \in Seq(Mention),
           Placed(protocol, e), Answering(protocol, e, o, q), SameDeltas(e, o, q), e.started = TRUE,
           NEW part \in Parts, PlaceOf(e, part) = None, NEW tool \in Tool,
           NEW m \in Mention, m.part = part, NEW q1, q1 = Append(q, m),
           NEW b, b = Began(<<e, o>>, part, tool)
    PROVE  Begun(b, q, q1, part)
  <1> DEFINE x == Ev("start", e.next, part, None)
             e1 == b[1]
             r == b[2]
             c == Closed(e, o)
  <1>b. b = <<e1, r>>
    BY BeganIs
  <1>e. Extends(e, e1, part) /\ e1.started = e.started
    BY BeganIs
  <1>d. e1.open = IF protocol = "anthropic" THEN e.next ELSE None
    BY BeganIs
  <1>c. r = Append(c, x)
    BY BeganIs
  <1>s. c \in Seq(Event) /\ r \in Seq(Event)
    BY BeganIs
  <1> HIDE DEF e1, r, c
  <1>2. /\ PartsOf(e1) = PartsOf(e) \cup {part} /\ part \notin PartsOf(e)
        /\ e.next \in Nat /\ e1.next = e.next + 1
        /\ PlaceOf(e1, part) = e.next
        /\ \A p \in PartsOf(e) : PlaceOf(e1, p) = PlaceOf(e, p)
    BY <1>e, ExtendsParts
  <1>3. Placed(protocol, e1)
    BY <1>d, <1>e, ExtendsPlaced
  <1>4. StopsExplained(protocol, e, o, q1) /\ Mentioned(e, q1)
    BY SaidGrows DEF Answering
  <1>5. q1 \in Seq(Mention) /\ Len(q1) \in DOMAIN q1 /\ q1[Len(q1)] = m
    BY AppendIs
  <1>6. /\ StartsOnce(e, c) /\ StopsExplained(protocol, e, c, q1)
        /\ protocol = "anthropic" => Alternate(e, c, TRUE) /\ OpenUnlessReturns(c, q1)
        /\ \A i \in DOMAIN c : c[i].type # "end"
        /\ OfType(c, {"delta"}) = OfType(o, {"delta"})
    <2>0. protocol = "anthropic" => OpenUnlessReturns(o, q1)
      BY ReturnsGrows DEF Answering, OpenUnlessReturns
    <2>1. CASE protocol # "anthropic" \/ e.open = None
      <3>1. c = o
        BY <2>1 DEF c, Closed
      <3>2. protocol = "anthropic" => e.next = 0
        BY <2>1, <1>2, Constants DEF Placed
      <3>3. protocol = "anthropic" => Alternate(e, o, TRUE)
        BY <3>2 DEF Answering, Alternate
      <3> QED BY <3>1, <3>3, <2>0, <1>4 DEF Answering
    <2>2. CASE ~(protocol # "anthropic" \/ e.open = None)
      <3> DEFINE s == Ev("stop", e.open, None, None)
      <3>1. c = Append(o, s) /\ s.type = "stop" /\ s.at = e.open
        BY <2>2 DEF Ev, c, Closed
      <3>2. e.open = e.next - 1 /\ e.next > 0 /\ e.open \in 0 .. e.next - 1
        BY <2>2, <1>2 DEF Placed
      <3>3. s \in Event
        <4>1. e.open \in Nat
          BY <3>2, <1>2
        <4> QED BY <4>1, EvType
      <3> HIDE DEF s
      <3>4. StartsOnce(e, c)
        BY <3>1, <3>3, StartsOnceOther DEF Answering
      <3>5. Alternate(e, o, FALSE)
        BY <2>2 DEF Answering
      <3>6. Alternate(e, c, TRUE)
        BY <3>1, <3>2, <3>3, <3>5, <1>2, AlternateStop
      <3>7. OpenUnlessReturns(c, q1)
        BY <2>0, <2>2, <3>1, <3>3, OpenUnlessAppend
      <3>8. PICK p \in PartsOf(e) : PlaceOf(e, p) = e.open
        BY <3>2 DEF Placed
      <3>9. PICK i \in DOMAIN q : q[i].part = p
        BY <3>8 DEF Answering, Mentioned
      <3>10. /\ i \in DOMAIN q1 /\ i < Len(q1) /\ q1[i].part = p
             /\ q1[Len(q1)].part = part /\ p # part
        BY <3>8, <3>9, <1>2, <1>5, AppendIs
      <3>11. \E a1, b1 \in DOMAIN q1 : /\ a1 < b1 /\ q1[a1].part # q1[b1].part
                       /\ q1[a1].part \in PartsOf(e) /\ PlaceOf(e, q1[a1].part) = s.at
        BY <3>1, <3>8, <3>10, <1>5
      <3>12. StopsExplained(protocol, e, c, q1)
        BY <1>4, <2>2, <3>1, <3>2, <3>3, <3>11, StopsExplainedAppend
      <3>13. \A j \in DOMAIN c : c[j].type # "end"
        BY <3>1, <3>3, AppendIs DEF Answering
      <3>14. OfType(c, {"delta"}) = OfType(o, {"delta"})
        BY <3>1, <3>3, OfTypeAppend
      <3> QED BY <3>4, <3>6, <3>7, <3>12, <3>13, <3>14
    <2> QED BY <2>1, <2>2
  <1>7. x \in Event /\ x.type = "start" /\ x.at = e.next /\ x.part = part
    BY <1>2, EvType DEF Ev
  <1> HIDE DEF x
  <1>8. StartsOnce(e1, r)
    BY <1>c, <1>e, <1>s, <1>6, <1>7, StartsOnceStart
  <1>9. ASSUME protocol = "anthropic" PROVE Alternate(e1, r, FALSE) /\ OpenUnlessReturns(r, q1)
    <2>1. Alternate(e1, r, FALSE)
      BY <1>c, <1>s, <1>2, <1>6, <1>7, <1>9, AlternateStart
    <2>2. OpenUnlessReturns(r, q1)
      BY <1>c, <1>s, <1>6, <1>7, <1>9, OpenUnlessAppend
    <2> QED BY <2>1, <2>2
  <1>10. Mentioned(e1, q1)
    BY <1>2, <1>4, <1>5 DEF Mentioned
  <1>11. StopsExplained(protocol, e, r, q1)
    BY <1>c, <1>s, <1>6, <1>7, StopsExplainedAppend
  <1>12. StopsExplained(protocol, e1, r, q1)
    BY <1>e, <1>11, StopsExplainedExtends
  <1>13. (\A i \in DOMAIN r : r[i].type # "end") /\ r # <<>>
    <2>1. r # <<>> /\ DOMAIN r = 1 .. Len(c) + 1
      BY <1>c, <1>s, <1>7, AppendIs
    <2>2. DOMAIN c = 1 .. Len(c) /\ Len(c) \in Nat
      BY <1>s
    <2>3. r[Len(c) + 1] = x
      BY <1>c, <1>s, <1>7, AppendIs
    <2>4. \A i \in 1 .. Len(c) : r[i] = c[i]
      BY <1>c, <1>s, <1>7, AppendIs
    <2> QED BY <1>6, <1>7, <2>1, <2>2, <2>3, <2>4
  <1>14. OfType(r, {"delta"}) = OfType(o, {"delta"})
    BY <1>c, <1>s, <1>6, <1>7, OfTypeAppend
  <1>15. SameDeltas(e1, r, q)
    BY <1>2, <1>14, SameDeltasKept
  <1>16. Answering(protocol, e1, r, q1)
    BY <1>8, <1>9, <1>10, <1>12, <1>13 DEF Answering
  <1>17. e1 \in Encoder
    BY <1>e DEF Extends
  <1> QED BY <1>b, <1>e, <1>s, <1>2, <1>3, <1>13, <1>15, <1>16, <1>17 DEF e1, r, Begun

LEMMA AnsweringDelta ==
    ASSUME NEW pr, NEW e \in Encoder, NEW o \in Seq(Event), NEW q \in Seq(Mention), Placed(pr, e),
           NEW m \in Mention, m.type = "delta", m.part \in PartsOf(e),
           NEW q1, q1 = Append(q, m), Answering(pr, e, o, q1), SameDeltas(e, o, q),
           NEW x \in Event, x.type = "delta", x.at = PlaceOf(e, m.part), x.what = m.what,
           NEW r, r = Append(o, x)
    PROVE  Answering(pr, e, r, q1) /\ SameDeltas(e, r, q1)
  <1>1. x.at \in 0 .. e.next - 1
    BY DEF Placed
  <1>2. StartsOnce(e, r)
    BY <1>1, StartsOnceOther DEF Answering
  <1>3. q1 \in Seq(Mention) /\ Len(q1) \in Nat /\ DOMAIN q1 = 1 .. Len(q1) /\ Len(q1) \in DOMAIN q1
        /\ q1[Len(q1)] = m
    BY AppendIs
  <1>4. ASSUME pr = "anthropic" PROVE Alternate(e, r, FALSE) /\ OpenUnlessReturns(r, q1)
    <2>1. Alternate(e, r, FALSE)
      BY <1>4, AlternateOther DEF Answering
    <2>2. ASSUME NEW j \in DOMAIN o, At(o, j, "stop", x.at) PROVE Returns(q1)
      <3>1. \E a, b \in DOMAIN q1 : /\ a < b /\ q1[a].part # q1[b].part
                                    /\ q1[a].part \in PartsOf(e) /\ PlaceOf(e, q1[a].part) = o[j].at
        BY <2>2 DEF Answering, StopsExplained, At
      <3>2. PICK a \in DOMAIN q1, b \in DOMAIN q1 :
                /\ a < b /\ q1[a].part # q1[b].part
                /\ q1[a].part \in PartsOf(e) /\ PlaceOf(e, q1[a].part) = x.at
        BY <2>2, <3>1 DEF At
      <3>3. q1[a].part = m.part
        BY <3>2 DEF Placed
      <3>4. b < Len(q1)
        BY <1>3, <3>2, <3>3
      <3> DEFINE c == Len(q1)
      <3>5. c \in DOMAIN q1 /\ a < b /\ b < c /\ q1[a].part = q1[c].part
            /\ q1[b].part # q1[a].part
        BY <1>3, <3>2, <3>3, <3>4
      <3> HIDE DEF c
      <3> QED BY <3>5, Zenon DEF Returns
    <2>3. OpenUnlessReturns(r, q1)
      BY <1>4, <2>2, OpenUnlessAppend DEF Answering
    <2> QED BY <2>1, <2>3
  <1>5. StopsExplained(pr, e, r, q1)
    BY StopsExplainedAppend DEF Answering
  <1>6. \A i \in DOMAIN r : r[i].type # "end"
    <2>1. \A j \in DOMAIN r : r[j] = x \/ (j \in DOMAIN o /\ r[j] = o[j])
      BY AppendIs
    <2> QED BY <2>1 DEF Answering
  <1>7. SameDeltas(e, r, q1)
    BY SameDeltasDelta
  <1> QED BY <1>2, <1>4, <1>5, <1>6, <1>7 DEF Answering

\* Only the places of an encoder matter.
SamePlaces(e, e1) ==
    /\ e1 \in Encoder /\ e1.next = e.next /\ e1.open = e.open
    /\ \A p \in Parts : PlaceOf(e1, p) = PlaceOf(e, p)

LEMMA SamePlacesKeep ==
    ASSUME NEW pr, NEW e, NEW e1, NEW o, NEW q, SamePlaces(e, e1), Placed(pr, e)
    PROVE  /\ PartsOf(e1) = PartsOf(e) /\ Placed(pr, e1)
           /\ Answering(pr, e, o, q) => Answering(pr, e1, o, q)
           /\ SameDeltas(e, o, q) => SameDeltas(e1, o, q)
  <1>1. /\ PartsOf(e1) = PartsOf(e) /\ e1.next = e.next /\ e1.open = e.open
        /\ \A p \in PartsOf(e) : PlaceOf(e1, p) = PlaceOf(e, p)
    BY DEF PartsOf, SamePlaces
  <1>2. Placed(pr, e1)
    BY <1>1 DEF Placed
  <1>3. SameDeltas(e, o, q) => SameDeltas(e1, o, q)
    BY <1>1, SameDeltasKept
  <1>4. ASSUME Answering(pr, e, o, q) PROVE Answering(pr, e1, o, q)
    <2>1. StartsOnce(e1, o)
      <3>1. StartsOnce(e, o)
        BY <1>4 DEF Answering
      <3>2. \A i \in DOMAIN o : o[i].type = "start" =>
                o[i].part \in PartsOf(e1) /\ PlaceOf(e1, o[i].part) = o[i].at
        BY <1>1, <3>1 DEF StartsOnce
      <3> QED BY <1>1, <3>1, <3>2 DEF StartsOnce
    <2>2. pr = "anthropic" => Alternate(e1, o, FALSE)
      BY <1>1, <1>4 DEF Answering, Alternate
    <2>3. Mentioned(e1, q)
      BY <1>1, <1>4 DEF Answering, Mentioned
    <2>4. StopsExplained(pr, e1, o, q)
      <3>1. StopsExplained(pr, e, o, q)
        BY <1>4 DEF Answering
      <3> QED BY <1>1, <3>1 DEF StopsExplained
    <2> QED BY <2>1, <2>2, <2>3, <2>4, <1>4 DEF Answering
  <1> QED BY <1>1, <1>2, <1>3, <1>4

\* Between two calls of a chunk.
Good(e, o, q) ==
    /\ e \in Encoder /\ o \in Seq(Event) /\ q \in Seq(Mention) /\ Placed(protocol, e)
    /\ Answering(protocol, e, o, q) /\ SameDeltas(e, o, q)
    /\ e.started = TRUE /\ o # <<>>

GoodPair(d, q) == d = <<d[1], d[2]>> /\ Good(d[1], d[2], q)

LEMMA SaysType ==
    ASSUME NEW part \in Parts, NEW what \in Words \cup {None}
    PROVE  Says(part, what) \in Mention /\ Says(part, what).part = part
           /\ Says(part, what).what = what
           /\ Says(part, what).type = IF what = None THEN "named" ELSE "delta"
  BY DEF Says, Mention

\* The part is there, begun just now or before.
LEMMA PartThere ==
    ASSUME NEW e, NEW o, NEW q, Good(e, o, q),
           NEW part \in Parts, NEW tool \in Tool, NEW m \in Mention, m.part = part,
           NEW b, b = IF PlaceOf(e, part) = None THEN Began(<<e, o>>, part, tool) ELSE <<e, o>>
    PROVE  Begun(b, q, Append(q, m), part)
  <1>1. /\ e \in Encoder /\ o \in Seq(Event) /\ q \in Seq(Mention) /\ Placed(protocol, e)
        /\ Answering(protocol, e, o, q) /\ SameDeltas(e, o, q) /\ e.started = TRUE /\ o # <<>>
    BY DEF Good
  <1>2. CASE PlaceOf(e, part) = None
    <2>1. b = Began(<<e, o>>, part, tool)
      BY <1>2
    <2> QED BY <1>1, <1>2, <2>1, AnsweringBegins
  <1>3. CASE PlaceOf(e, part) # None
    <2>1. b = <<e, o>> /\ b[1] = e /\ b[2] = o
      BY <1>3
    <2>2. part \in PartsOf(e)
      BY <1>3 DEF PartsOf
    <2>3. Answering(protocol, e, o, Append(q, m))
      <3>1. StopsExplained(protocol, e, o, Append(q, m)) /\ Mentioned(e, Append(q, m))
        BY <1>1, SaidGrows DEF Answering
      <3>2. protocol = "anthropic" => OpenUnlessReturns(o, Append(q, m))
        BY <1>1, ReturnsGrows DEF Answering, OpenUnlessReturns
      <3> QED BY <1>1, <3>1, <3>2 DEF Answering
    <2> QED BY <1>1, <2>1, <2>2, <2>3 DEF Begun
  <1> QED BY <1>2, <1>3

\* A piece of text.
LEMMA TextKeeps ==
    ASSUME NEW e, NEW o, NEW q, Good(e, o, q), NEW c, c.text = TRUE,
           NEW d, d = textDelta(<<e, o>>, c)
    PROVE  GoodPair(d, Append(q, Says(Text, "t")))
  <1> DEFINE m == Says(Text, "t")
             b == IF PlaceOf(e, Text) = None THEN Began(<<e, o>>, Text, NoTool) ELSE <<e, o>>
             x == Ev("delta", b[1].text, None, "t")
  <1>1. Text \in Parts /\ "t" \in Words /\ "t" # None
    BY Constants
  <1>2. m \in Mention /\ m.part = Text /\ m.type = "delta" /\ m.what = "t"
    BY <1>1, SaysType
  <1>3. NoTool \in Tool
    BY DEF NoTool, Tool
  <1>4. d = <<b[1], Append(b[2], x)>>
    BY DEF textDelta, PlaceOf
  <1> HIDE DEF m
  <1>5. Begun(b, q, Append(q, m), Text)
    <2>1. PICK b1 : b1 = b
      OBVIOUS
    <2> QED BY <2>1, <1>1, <1>2, <1>3, PartThere
  <1> HIDE DEF b
  <1>6. /\ b[1] \in Encoder /\ b[2] \in Seq(Event)
        /\ Placed(protocol, b[1]) /\ Answering(protocol, b[1], b[2], Append(q, m))
        /\ SameDeltas(b[1], b[2], q)
        /\ b[1].started = TRUE /\ Text \in PartsOf(b[1])
    BY <1>5 DEF Begun
  <1>7. q \in Seq(Mention) /\ Append(q, m) \in Seq(Mention)
    BY <1>2 DEF Good
  <1>8. x \in Event /\ x.type = "delta" /\ x.at = PlaceOf(b[1], Text) /\ x.what = "t"
    <2>1. b[1].text \in Nat \cup {None}
      BY <1>6 DEF Encoder
    <2> QED BY <2>1, <1>1, EvType DEF Ev, PlaceOf
  <1> HIDE DEF x
  <1>9. /\ Answering(protocol, b[1], Append(b[2], x), Append(q, m))
        /\ SameDeltas(b[1], Append(b[2], x), Append(q, m))
    BY <1>2, <1>6, <1>7, <1>8, AnsweringDelta
  <1>10. Append(b[2], x) \in Seq(Event) /\ Append(b[2], x) # <<>>
    BY <1>6, <1>8, AppendIs
  <1>11. d[1] = b[1] /\ d[2] = Append(b[2], x) /\ d = <<d[1], d[2]>>
    <2> DEFINE a == b[1]
               y == Append(b[2], x)
    <2>1. d = <<a, y>>
      BY <1>4
    <2> HIDE DEF a, y
    <2>2. d[1] = a /\ d[2] = y /\ d = <<d[1], d[2]>>
      BY <2>1, PairIs
    <2> QED BY <2>2 DEF a, y
  <1> QED BY <1>6, <1>7, <1>9, <1>10, <1>11 DEF Good, GoodPair, m

\* A piece of a tool call.
LEMMA CallKeeps ==
    ASSUME NEW e, NEW o, NEW q, Good(e, o, q), NEW call \in Call,
           NEW d, d = callDelta(<<e, o>>, call)
    PROVE  GoodPair(d, Append(q, Says(call.index, call.args)))
  <1> DEFINE t == call.index
             m == Says(t, call.args)
             tool == [NoTool EXCEPT !.id = call.id, !.name = call.name]
             b == IF PlaceOf(e, t) = None THEN Began(<<e, o>>, t, tool) ELSE <<e, o>>
             x == Ev("delta", b[1].tools[t].at, None, call.args)
             f == [b[1] EXCEPT !.tools[t].args = Append(@, call.args)]
  <1>1. /\ t \in Tools /\ t \in Parts /\ t # Text /\ call.args \in Pieces \cup {None}
        /\ call.args \in Words \cup {None} /\ call.id \in Nat /\ call.name \in Nat
    BY Constants DEF Call
  <1>2. m \in Mention /\ m.part = t /\ m.what = call.args
        /\ m.type = IF call.args = None THEN "named" ELSE "delta"
    BY <1>1, SaysType
  <1>3. tool \in Tool
    <2>1. tool = [at |-> None, id |-> call.id, name |-> call.name, args |-> <<>>]
      <3> DEFINE v == [NoTool EXCEPT !.id = call.id]
      <3>1. v = [at |-> None, id |-> call.id, name |-> 0, args |-> <<>>]
        BY DEF NoTool
      <3>2. tool = [v EXCEPT !.name = call.name]
        OBVIOUS
      <3> HIDE DEF v, tool
      <3> QED BY <3>1, <3>2
    <2> HIDE DEF tool
    <2> QED BY <1>1, <2>1 DEF Tool
  <1>4. d = IF call.args = None THEN b ELSE <<f, Append(b[2], x)>>
    <2>1. PlaceOf(e, t) = e.tools[t].at
      BY <1>1 DEF PlaceOf
    <2> QED BY <2>1 DEF callDelta
  <1> HIDE DEF m, tool
  <1>5. Begun(b, q, Append(q, m), t)
    <2>1. PICK b1 : b1 = b
      OBVIOUS
    <2> HIDE DEF t
    <2> QED BY <2>1, <1>1, <1>2, <1>3, PartThere
  <1> HIDE DEF b
  <1>6. /\ b = <<b[1], b[2]>> /\ b[1] \in Encoder /\ b[2] \in Seq(Event)
        /\ Placed(protocol, b[1]) /\ Answering(protocol, b[1], b[2], Append(q, m))
        /\ SameDeltas(b[1], b[2], q)
        /\ b[1].started = TRUE /\ b[2] # <<>> /\ t \in PartsOf(b[1])
    BY <1>5 DEF Begun
  <1>7. q \in Seq(Mention) /\ Append(q, m) \in Seq(Mention)
    BY <1>2 DEF Good
  <1>8. CASE call.args = None
    <2>1. OfType(Append(q, m), {"delta"}) = OfType(q, {"delta"})
      BY <1>2, <1>7, <1>8, OfTypeAppend
    <2>2. SameDeltas(b[1], b[2], Append(q, m))
      BY <1>6, <2>1, SameDeltasKept
    <2>3. d = b
      BY <1>4, <1>8
    <2> QED BY <1>6, <1>7, <2>2, <2>3 DEF Good, GoodPair, m
  <1>9. CASE call.args # None
    <2>1. x \in Event /\ x.type = "delta" /\ x.at = PlaceOf(b[1], t) /\ x.what = m.what
      <3>1. b[1].tools[t].at \in Nat \cup {None}
        BY <1>1, <1>6 DEF Encoder, Tool
      <3> HIDE DEF t
      <3> QED BY <3>1, <1>1, <1>2, EvType DEF Ev, PlaceOf
    <2>2. SamePlaces(b[1], f) /\ f.started = TRUE
      <3> DEFINE h == b[1]
                 u == [h.tools[t] EXCEPT !.args = Append(@, call.args)]
      <3>1. h \in Encoder /\ h.tools \in [Tools -> Tool] /\ h.tools[t] \in Tool
        BY <1>1, <1>6 DEF Encoder
      <3>2. u \in Tool /\ u.at = h.tools[t].at
        <4>1. PICK v \in Tool : v = h.tools[t]
          BY <3>1
        <4>2. v.args \in Seq(Pieces) /\ call.args \in Pieces
          BY <1>1, <1>9 DEF Tool
        <4>3. Append(v.args, call.args) \in Seq(Pieces)
          BY <4>2
        <4>4. u = [v EXCEPT !.args = Append(v.args, call.args)]
          BY <4>1
        <4> HIDE DEF u
        <4> QED BY <4>1, <4>3, <4>4 DEF Tool
      <3>3. f = [h EXCEPT !.tools = [h.tools EXCEPT ![t] = u]]
        BY <3>1 DEF Encoder
      <3>4. [h.tools EXCEPT ![t] = u] \in [Tools -> Tool]
        BY <3>1, <3>2
      <3>5. /\ f \in Encoder /\ f.next = h.next /\ f.open = h.open /\ f.text = h.text
            /\ f.started = h.started /\ f.tools = [h.tools EXCEPT ![t] = u]
        BY <3>1, <3>3, <3>4 DEF Encoder
      <3> HIDE DEF f, h, u
      <3>6. \A p \in Parts : PlaceOf(f, p) = PlaceOf(h, p)
        <4> SUFFICES ASSUME NEW p \in Parts PROVE PlaceOf(f, p) = PlaceOf(h, p)
          OBVIOUS
        <4>1. CASE p = Text
          BY <4>1, <3>5 DEF PlaceOf
        <4>2. CASE p # Text
          <5>1. p \in Tools
            BY <4>2, Constants
          <5>2. f.tools[p].at = h.tools[p].at
            BY <5>1, <3>1, <3>2, <3>5
          <5> QED BY <4>2, <5>2 DEF PlaceOf
        <4> QED BY <4>1, <4>2
      <3> QED BY <3>5, <3>6, <1>6 DEF SamePlaces, h
    <2> HIDE DEF x, f, t
    <2>3. /\ Answering(protocol, b[1], Append(b[2], x), Append(q, m))
          /\ SameDeltas(b[1], Append(b[2], x), Append(q, m))
      BY <1>2, <1>6, <1>7, <1>9, <2>1, AnsweringDelta
    <2>4. /\ Answering(protocol, f, Append(b[2], x), Append(q, m))
          /\ SameDeltas(f, Append(b[2], x), Append(q, m)) /\ Placed(protocol, f)
      BY <1>6, <2>2, <2>3, SamePlacesKeep
    <2>5. Append(b[2], x) \in Seq(Event) /\ Append(b[2], x) # <<>>
      BY <1>6, <2>1, AppendIs
    <2>6. d[1] = f /\ d[2] = Append(b[2], x) /\ d = <<d[1], d[2]>>
      <3> DEFINE y == Append(b[2], x)
      <3>1. d = <<f, y>>
        BY <1>4, <1>9
      <3> HIDE DEF y
      <3>2. d[1] = f
        BY <3>1
      <3>3. d[2] = y
        BY <3>1
      <3> QED BY <3>1, <3>2, <3>3, Zenon DEF y
    <2> QED BY <1>7, <2>2, <2>4, <2>5, <2>6 DEF Good, GoodPair, m, t, SamePlaces
  <1> QED BY <1>8, <1>9

----------------------------------------------------------------------------
(* A chunk: the answer starts, then the text and the calls.                *)

LEMMA AnsweringOther ==
    ASSUME NEW pr, NEW e, NEW o \in Seq(Event), NEW q, Answering(pr, e, o, q), SameDeltas(e, o, q),
           NEW x \in Event, x.type \notin {"start", "stop", "delta", "end"}
    PROVE  Answering(pr, e, Append(o, x), q) /\ SameDeltas(e, Append(o, x), q)
  <1> DEFINE r == Append(o, x)
  <1>1. StartsOnce(e, r)
    BY StartsOnceOther DEF Answering
  <1>2. pr = "anthropic" => Alternate(e, r, FALSE)
    BY AlternateOther DEF Answering
  <1>3. pr = "anthropic" => OpenUnlessReturns(r, q)
    BY OpenUnlessAppend DEF Answering
  <1>4. StopsExplained(pr, e, r, q)
    BY StopsExplainedAppend DEF Answering
  <1>5. \A i \in DOMAIN r : r[i].type # "end"
    <2>1. \A j \in DOMAIN r : r[j] = x \/ (j \in DOMAIN o /\ r[j] = o[j])
      BY AppendIs
    <2> QED BY <2>1 DEF Answering
  <1>6. OfType(r, {"delta"}) = OfType(o, {"delta"})
    BY OfTypeAppend
  <1>7. SameDeltas(e, r, q)
    BY <1>6, SameDeltasKept
  <1> QED BY <1>1, <1>2, <1>3, <1>4, <1>5, <1>7 DEF Answering

\* While an answer is not finished, and its caller's API is not the upstream's.
Running == /\ TypeOK /\ protocol \in {"responses", "anthropic"}
           /\ Answering(protocol, enc, out, said)
           /\ FirstFrame(enc, out, said) /\ SameDeltas(enc, out, said)

LEMMA StartKeeps ==
    ASSUME Running, NEW s, s = start(<<enc, out>>)
    PROVE  Good(s[1], s[2], said)
  <1>1. /\ enc \in Encoder /\ out \in Seq(Event) /\ said \in Seq(Mention) /\ Placed(protocol, enc)
        /\ Answering(protocol, enc, out, said) /\ SameDeltas(enc, out, said)
        /\ enc.started <=> out # <<>>
        /\ enc.started \in BOOLEAN
    BY DEF Running, TypeOK, FirstFrame, Encoder
  <1>2. CASE enc.started = TRUE
    <2>1. s = <<enc, out>>
      BY <1>2 DEF start
    <2> QED BY <1>1, <1>2, <2>1 DEF Good
  <1>3. CASE enc.started = FALSE
    <2> DEFINE f == [enc EXCEPT !.started = TRUE]
               a1 == Ev("created", None, None, None)
               a2 == Ev("in_progress", None, None, None)
               a3 == Ev("message_start", None, None, None)
               o1 == Append(out, a1)
               o2 == Append(o1, a2)
               o3 == Append(out, a3)
    <2>1. a1 \in Event /\ a2 \in Event /\ a3 \in Event
      BY EvType
    <2>2. a1.type = "created" /\ a2.type = "in_progress" /\ a3.type = "message_start"
      BY DEF Ev
    <2>3. s = <<f, IF protocol = "responses" THEN o2 ELSE o3>>
      <3>1. \A a \in Event, b \in Event : out \o <<a, b>> = Append(Append(out, a), b)
        BY <1>1
      <3>2. \A a \in Event : out \o <<a>> = Append(out, a)
        BY <1>1
      <3>3. s = <<f, out \o (IF protocol = "responses" THEN <<a1, a2>> ELSE <<a3>>)>>
        BY <1>3 DEF start
      <3> HIDE DEF a1, a2, a3
      <3> QED BY <2>1, <3>1, <3>2, <3>3
    <2>4. SamePlaces(enc, f) /\ f.started = TRUE
      BY <1>1 DEF SamePlaces, Encoder, PlaceOf
    <2> HIDE DEF a1, a2, a3, f
    <2>5. /\ Answering(protocol, f, out, said) /\ SameDeltas(f, out, said)
          /\ Placed(protocol, f) /\ f \in Encoder
      BY <1>1, <2>4, SamePlacesKeep DEF SamePlaces
    <2>6. o1 \in Seq(Event) /\ o2 \in Seq(Event) /\ o3 \in Seq(Event) /\ o2 # <<>> /\ o3 # <<>>
      BY <1>1, <2>1
    <2>7. Answering(protocol, f, o1, said) /\ SameDeltas(f, o1, said)
      BY <1>1, <2>1, <2>2, <2>5, AnsweringOther
    <2> HIDE DEF o1
    <2>8. Answering(protocol, f, o2, said) /\ SameDeltas(f, o2, said)
      BY <2>1, <2>2, <2>6, <2>7, AnsweringOther
    <2>9. Answering(protocol, f, o3, said) /\ SameDeltas(f, o3, said)
      BY <1>1, <2>1, <2>2, <2>5, AnsweringOther
    <2> HIDE DEF o2, o3
    <2>10. s[1] = f /\ s[2] = IF protocol = "responses" THEN o2 ELSE o3
      BY <2>3
    <2> QED BY <1>1, <2>4, <2>5, <2>6, <2>8, <2>9, <2>10 DEF Good
  <1> QED BY <1>1, <1>2, <1>3

\* The sequence s and the first i elements of w.
Taken(s, w, i) == [k \in 1 .. Len(s) + i |-> IF k <= Len(s) THEN s[k] ELSE w[k - Len(s)]]

LEMMA TakenIs ==
    ASSUME NEW E, NEW s \in Seq(E), NEW w \in Seq(E)
    PROVE  /\ Taken(s, w, 0) = s /\ Taken(s, w, Len(w)) = s \o w
           /\ \A i \in 0 .. Len(w) - 1 : Taken(s, w, i + 1) = Append(Taken(s, w, i), w[i + 1])
  <1> DEFINE n == Len(s)
             L == Len(w)
  <1>1. n \in Nat /\ L \in Nat /\ DOMAIN s = 1 .. n /\ DOMAIN w = 1 .. L
    OBVIOUS
  <1>2. (\A k \in 1 .. n : s[k] \in E) /\ \A k \in 1 .. L : w[k] \in E
    OBVIOUS
  <1>3. s = [k \in 1 .. n |-> s[k]]
    OBVIOUS
  <1>4. Taken(s, w, 0) = s
    BY <1>1, <1>3 DEF Taken
  <1>5. Taken(s, w, L) = s \o w
    <2> DEFINE r == s \o w
               z == Taken(s, w, L)
    <2>1. /\ r \in Seq(E) /\ Len(r) = n + L
          /\ \A k \in 1 .. n + L : r[k] = IF k <= n THEN s[k] ELSE w[k - n]
      BY ConcatProperties
    <2>2. z = [k \in 1 .. n + L |-> IF k <= n THEN s[k] ELSE w[k - n]]
      BY DEF Taken
    <2>3. z \in [1 .. n + L -> E]
      BY <1>1, <1>2, <2>2
    <2> HIDE DEF z, r
    <2>4. z \in Seq(E) /\ Len(z) = n + L
      <3>1. n + L \in Nat
        BY <1>1
      <3> QED BY <2>3, <3>1
    <2>5. \A k \in 1 .. Len(r) : r[k] = z[k]
      BY <2>1, <2>2
    <2>6. r = z
      BY <2>1, <2>4, <2>5, SeqEqual
    <2> QED BY <2>6 DEF r, z
  <1>6. ASSUME NEW i \in 0 .. L - 1 PROVE Taken(s, w, i + 1) = Append(Taken(s, w, i), w[i + 1])
    <2> DEFINE y == Taken(s, w, i)
               z == Taken(s, w, i + 1)
               r == Append(y, w[i + 1])
    <2>1. /\ y = [k \in 1 .. n + i |-> IF k <= n THEN s[k] ELSE w[k - n]]
          /\ z = [k \in 1 .. n + i + 1 |-> IF k <= n THEN s[k] ELSE w[k - n]]
      BY <1>1 DEF Taken
    <2>2. n + i \in Nat /\ w[i + 1] \in E
      BY <1>1, <1>2
    <2>3. \A k \in 1 .. n + i + 1 : (IF k <= n THEN s[k] ELSE w[k - n]) \in E
      BY <1>1, <1>2
    <2>4. y \in Seq(E) /\ Len(y) = n + i
      <3>1. y \in [1 .. n + i -> E]
        BY <1>1, <2>1, <2>3
      <3> HIDE DEF y
      <3> DEFINE c == n + i
      <3>2. c \in Nat /\ y \in [1 .. c -> E]
        BY <2>2, <3>1
      <3> HIDE DEF c
      <3>3. y \in Seq(E) /\ Len(y) = c
        BY <3>2, SeqIs
      <3> QED BY <3>3 DEF c
    <2>5. z \in Seq(E) /\ Len(z) = n + i + 1
      <3>1. z \in [1 .. n + i + 1 -> E]
        BY <1>1, <2>1, <2>3
      <3>2. n + i + 1 \in Nat
        BY <2>2
      <3> HIDE DEF z
      <3> DEFINE c == n + i + 1
      <3>3. c \in Nat /\ z \in [1 .. c -> E]
        BY <3>1, <3>2
      <3> HIDE DEF c
      <3>4. z \in Seq(E) /\ Len(z) = c
        BY <3>3, SeqIs
      <3> QED BY <3>4 DEF c
    <2>6. \A k \in 1 .. n + i : y[k] = z[k]
      BY <1>1, <2>1
    <2>7. z[n + i + 1] = w[i + 1]
      <3>1. n + i + 1 \in 1 .. n + i + 1 /\ ~(n + i + 1 <= n) /\ (n + i + 1) - n = i + 1
        BY <1>1
      <3> HIDE DEF z, n
      <3> QED BY <2>1, <3>1
    <2> HIDE DEF y, z, n
    <2>8. r \in Seq(E) /\ Len(r) = n + i + 1 /\ r[n + i + 1] = w[i + 1]
      BY <2>2, <2>4
    <2>9. \A k \in 1 .. n + i : r[k] = y[k]
      BY <2>2, <2>4
    <2>10. \A k \in 1 .. Len(r) : r[k] = z[k]
      <3> TAKE k \in 1 .. Len(r)
      <3>1. k = n + i + 1 \/ k \in 1 .. n + i
        BY <2>2, <2>8
      <3> QED BY <3>1, <2>6, <2>7, <2>8, <2>9
    <2> HIDE DEF r
    <2>11. r = z
      BY <2>5, <2>8, <2>10, SeqEqual
    <2> QED BY <2>11 DEF r, y, z
  <1> QED BY <1>4, <1>5, <1>6

\* What has been said after the text of chunk c, if it has any, and what its calls say.
SaidText(c) == IF c.text THEN Append(said, Says(Text, "t")) ELSE said
CallsSay(c) == [i \in DOMAIN c.calls |-> Says(c.calls[i].index, c.calls[i].args)]

LEMMA SaidIs ==
    ASSUME said \in Seq(Mention), NEW c \in Chunks
    PROVE  /\ SaidText(c) \in Seq(Mention) /\ CallsSay(c) \in Seq(Mention)
           /\ Len(CallsSay(c)) = Len(c.calls)
           /\ said \o PiecesOf(c) = SaidText(c) \o CallsSay(c)
  <1> DEFINE w == CallsSay(c)
             L == Len(c.calls)
             x == Says(Text, "t")
             v == IF c.text THEN <<x>> ELSE <<>>
  <1>0. c.calls \in Seq(Call) /\ c.text \in BOOLEAN
    BY Constants DEF Chunk
  <1>1. PiecesOf(c) = v \o w
    BY DEF PiecesOf, CallsSay
  <1>2. L \in Nat /\ DOMAIN c.calls = 1 .. L /\ \A i \in 1 .. L : c.calls[i] \in Call
    BY <1>0
  <1>3. \A i \in 1 .. L : Says(c.calls[i].index, c.calls[i].args) \in Mention
    <2> TAKE i \in 1 .. L
    <2>1. c.calls[i].index \in Parts /\ c.calls[i].args \in Words \cup {None}
      BY <1>2, Constants DEF Call
    <2> QED BY <2>1, SaysType
  <1>4. w \in Seq(Mention) /\ Len(w) = L
    <2>1. w \in [1 .. L -> Mention]
      BY <1>2, <1>3 DEF CallsSay
    <2> HIDE DEF w
    <2> QED BY <1>2, <2>1
  <1>5. x \in Mention
    BY Constants, SaysType
  <1> HIDE DEF w, x, L
  <1>6. CASE c.text = TRUE
    <2>1. said \o (<<x>> \o w) = (said \o <<x>>) \o w
      BY <1>4, <1>5, ConcatAssociative
    <2>2. said \o <<x>> = Append(said, x)
      BY <1>5
    <2>3. SaidText(c) = Append(said, x) /\ v = <<x>>
      BY <1>6 DEF SaidText, x
    <2>4. said \o PiecesOf(c) = SaidText(c) \o w
      BY <1>1, <2>1, <2>2, <2>3
    <2>5. SaidText(c) \in Seq(Mention)
      BY <1>5, <2>3
    <2> QED BY <1>4, <2>4, <2>5 DEF w, L
  <1>7. CASE c.text = FALSE
    <2>1. SaidText(c) = said /\ v = <<>>
      BY <1>7 DEF SaidText
    <2>2. <<>> \o w = w
      BY <1>4, ConcatEmptySeq
    <2> QED BY <1>1, <1>4, <2>1, <2>2 DEF w, L
  <1> QED BY <1>0, <1>6, <1>7

\* The function that Steps chooses, by its equation.
FirstOf(c) ==
    LET s == start(<<enc, out>>)
    IN  textDelta(<<[s[1] EXCEPT !.finish = IF c.finish = None THEN @ ELSE c.finish], s[2]>>, c)
AfterAt(c, f, i) == IF i = 0 THEN FirstOf(c) ELSE callDelta(f[i - 1], c.calls[i])

LEMMA StepsExist ==
    ASSUME NEW c, Len(c.calls) \in Nat
    PROVE  \E f : f = [i \in 0 .. Len(c.calls) |-> AfterAt(c, f, i)]
  <1> DEFINE P(n) == \E f : f = [i \in 0 .. n |-> AfterAt(c, f, i)]
             T == {n \in 0 .. Len(c.calls) : P(n)}
  <1>1. P(0)
    <2> DEFINE g == [i \in 0 .. 0 |-> FirstOf(c)]
    <2>1. g = [i \in 0 .. 0 |-> AfterAt(c, g, i)]
      BY DEF AfterAt
    <2> QED BY <2>1
  <1>2. ASSUME NEW n \in 0 .. Len(c.calls) - 1, P(n) PROVE P(n + 1)
    <2>1. PICK f : f = [i \in 0 .. n |-> AfterAt(c, f, i)]
      BY <1>2
    <2> DEFINE g == [i \in 0 .. n + 1 |-> IF i <= n THEN f[i] ELSE AfterAt(c, f, i)]
    <2>2. \A i \in 0 .. n + 1 : g[i] = AfterAt(c, g, i)
      <3> TAKE i \in 0 .. n + 1
      <3>1. CASE i = 0
        BY <2>1, <3>1 DEF AfterAt
      <3>2. CASE i # 0
        <4>1. g[i - 1] = f[i - 1]
          BY <3>2
        <4>2. AfterAt(c, g, i) = AfterAt(c, f, i)
          BY <4>1, <3>2 DEF AfterAt
        <4>3. CASE i <= n
          BY <4>2, <4>3, <2>1
        <4>4. CASE i > n
          BY <4>2, <4>4
        <4> QED BY <4>3, <4>4
      <3> QED BY <3>1, <3>2
    <2>3. g = [i \in 0 .. n + 1 |-> AfterAt(c, g, i)]
      BY <2>2
    <2> QED BY <2>3
  <1> HIDE DEF P
  <1>3. 0 \in T
    BY <1>1
  <1>4. \A i \in 0 .. Len(c.calls) - 1 : i \in T => i + 1 \in T
    BY <1>2
  <1> HIDE DEF T
  <1>5. \A n \in 0 .. Len(c.calls) : n \in T
    BY <1>3, <1>4, UpTo
  <1>6. P(Len(c.calls))
    BY <1>5 DEF T
  <1> QED BY <1>6 DEF P

LEMMA StepsEquation ==
    ASSUME NEW c, Len(c.calls) \in Nat
    PROVE  Steps(c) = [i \in 0 .. Len(c.calls) |-> AfterAt(c, Steps(c), i)]
  <1>1. Steps(c) = CHOOSE f : f = [i \in 0 .. Len(c.calls) |-> AfterAt(c, f, i)]
    BY Zenon DEF Steps, AfterAt, FirstOf
  <1> QED BY <1>1, StepsExist, Zenon

\* A chunk that was accepted keeps the answer well formed, and says all it said.
LEMMA EncodeKeeps ==
    ASSUME Running, NEW c \in Chunks
    PROVE  Good(Encode(c)[1], Encode(c)[2], said \o PiecesOf(c))
  <1> DEFINE L == Len(c.calls)
             w == CallsSay(c)
             Q(i) == Taken(SaidText(c), w, i)
             S == Steps(c)
             T == {i \in 0 .. L : S[i] = <<S[i][1], S[i][2]>> /\ Good(S[i][1], S[i][2], Q(i))}
  <1>1. c.calls \in Seq(Call) /\ c.text \in BOOLEAN /\ c.finish \in Reasons \cup {None}
    BY Constants DEF Chunk
  <1>2. L \in Nat /\ \A i \in 1 .. L : c.calls[i] \in Call
    BY <1>1
  <1>3. said \in Seq(Mention)
    BY DEF Running, TypeOK
  <1>4. /\ SaidText(c) \in Seq(Mention) /\ w \in Seq(Mention) /\ Len(w) = L
        /\ said \o PiecesOf(c) = SaidText(c) \o w
    BY <1>1, <1>3, SaidIs
  <1>5. \A i \in 1 .. L : w[i] = Says(c.calls[i].index, c.calls[i].args)
    BY <1>1 DEF CallsSay
  <1> HIDE DEF w
  <1>6. /\ Q(0) = SaidText(c) /\ Q(L) = said \o PiecesOf(c)
        /\ \A i \in 0 .. L - 1 : Q(i + 1) = Append(Q(i), w[i + 1])
    BY <1>4, TakenIs
  <1>7. \A i \in 0 .. L : S[i] = AfterAt(c, S, i)
    BY <1>2, StepsEquation
  <1> HIDE DEF S, L, Q
  <1>8. S[0] = FirstOf(c)
    BY <1>2, <1>7 DEF AfterAt
  <1>9. FirstOf(c) = <<FirstOf(c)[1], FirstOf(c)[2]>>
        /\ Good(FirstOf(c)[1], FirstOf(c)[2], SaidText(c))
    <2>1. PICK s : s = start(<<enc, out>>)
      OBVIOUS
    <2>2. Good(s[1], s[2], said)
      BY <2>1, StartKeeps
    <2> DEFINE f == [s[1] EXCEPT !.finish = IF c.finish = None THEN @ ELSE c.finish]
    <2>3. FirstOf(c) = textDelta(<<f, s[2]>>, c)
      BY <2>1 DEF FirstOf
    <2>4. SamePlaces(s[1], f) /\ f.started = s[1].started
      <3>1. PICK h \in Encoder : h = s[1]
        BY <2>2 DEF Good
      <3>2. PICK fin \in Reasons \cup {None} : fin = IF c.finish = None THEN h.finish ELSE c.finish
        BY <1>1 DEF Encoder
      <3>3. f = [h EXCEPT !.finish = fin]
        BY <3>1, <3>2
      <3> HIDE DEF f
      <3>4. f \in Encoder /\ f.next = h.next /\ f.open = h.open /\ f.text = h.text /\ f.tools = h.tools
            /\ f.started = h.started
        BY <3>3 DEF Encoder
      <3> QED BY <3>1, <3>4 DEF SamePlaces, PlaceOf
    <2> HIDE DEF f
    <2>5. Good(f, s[2], said)
      <3>1. /\ s[1] \in Encoder /\ Placed(protocol, s[1])
            /\ Answering(protocol, s[1], s[2], said) /\ SameDeltas(s[1], s[2], said)
        BY <2>2 DEF Good
      <3>2. /\ f \in Encoder /\ Placed(protocol, f)
            /\ Answering(protocol, f, s[2], said) /\ SameDeltas(f, s[2], said)
        BY <2>4, <3>1, SamePlacesKeep DEF SamePlaces
      <3> QED BY <2>2, <2>4, <3>2 DEF Good
    <2>6. CASE c.text = TRUE
      <3>1. SaidText(c) = Append(said, Says(Text, "t"))
        BY <2>6 DEF SaidText
      <3>a. PICK o : o = s[2]
        OBVIOUS
      <3>b. Good(f, o, said)
        BY <2>5, <3>a
      <3>2. PICK d : d = textDelta(<<f, o>>, c)
        OBVIOUS
      <3>3. GoodPair(d, Append(said, Says(Text, "t")))
        BY <3>b, <2>6, <3>2, TextKeeps
      <3> QED BY <2>3, <3>1, <3>2, <3>3, <3>a DEF GoodPair
    <2>7. CASE c.text = FALSE
      <3>1. SaidText(c) = said /\ FirstOf(c) = <<f, s[2]>>
        BY <2>3, <2>7 DEF SaidText, textDelta
      <3> QED BY <2>5, <3>1
    <2> QED BY <1>1, <2>6, <2>7
  <1>10. 0 \in T
    BY <1>2, <1>6, <1>8, <1>9
  <1>11. \A i \in 0 .. L - 1 : i \in T => i + 1 \in T
    <2> SUFFICES ASSUME NEW i \in 0 .. L - 1, S[i] = <<S[i][1], S[i][2]>>,
                        Good(S[i][1], S[i][2], Q(i))
                 PROVE  S[i + 1] = <<S[i + 1][1], S[i + 1][2]>>
                        /\ Good(S[i + 1][1], S[i + 1][2], Q(i + 1))
      BY <1>2
    <2>1. i + 1 \in 1 .. L /\ i + 1 \in 0 .. L /\ i + 1 # 0 /\ (i + 1) - 1 = i
      BY <1>2
    <2>2. S[i + 1] = callDelta(S[i], c.calls[i + 1])
      BY <1>7, <2>1 DEF AfterAt
    <2>3. PICK call \in Call : call = c.calls[i + 1]
      BY <1>2, <2>1
    <2>4. PICK e, o : e = S[i][1] /\ o = S[i][2] /\ S[i] = <<e, o>>
      OBVIOUS
    <2>5. PICK d : d = callDelta(<<e, o>>, call)
      OBVIOUS
    <2>6. Good(e, o, Q(i))
      BY <2>4
    <2>7. GoodPair(d, Append(Q(i), Says(call.index, call.args)))
      BY <2>5, <2>6, CallKeeps
    <2>8. Q(i + 1) = Append(Q(i), Says(call.index, call.args))
      BY <1>5, <1>6, <2>1, <2>3
    <2>9. S[i + 1] = d
      BY <2>2, <2>3, <2>4, <2>5
    <2> QED BY <2>7, <2>8, <2>9 DEF GoodPair
  <1> HIDE DEF T
  <1>12. \A i \in 0 .. L : i \in T
    BY <1>2, <1>10, <1>11, UpTo
  <1>13. Good(S[L][1], S[L][2], Q(L))
    BY <1>2, <1>12 DEF T
  <1>14. Encode(c) = S[L]
    BY DEF Encode, S, L
  <1> QED BY <1>6, <1>13, <1>14

----------------------------------------------------------------------------
(* The end of an answer.                                                   *)

LEMMA StatusIs ==
    ASSUME NEW reason \in Reasons, protocol \in {"responses", "anthropic"}
    PROVE  /\ status(reason) \in Words
           /\ status(reason) \in {"incomplete", "max_tokens"} <=> reason = "length"
  <1>1. CASE protocol = "responses"
    BY <1>1 DEF status, Words
  <1>2. CASE protocol = "anthropic"
    <2>1. reason \in {"stop", "length", "tool_calls"}
      BY DEF Reasons
    <2>2. status(reason) = CASE reason = "stop" -> "end_turn" [] reason = "length" -> "max_tokens"
                             [] reason = "tool_calls" -> "tool_use"
      BY <1>2 DEF status
    <2>3. CASE reason = "stop"
      BY <2>2, <2>3 DEF Words
    <2>4. CASE reason = "length"
      BY <2>2, <2>4 DEF Words
    <2>5. CASE reason = "tool_calls"
      BY <2>2, <2>5 DEF Words
    <2> QED BY <2>1, <2>3, <2>4, <2>5
  <1> QED BY <1>1, <1>2

\* What is true of a finished answer.
Finished(o) ==
    /\ o \in Seq(Event) /\ o # <<>> /\ o[Len(o)].type = "end"
    /\ o[Len(o)].what \in {"incomplete", "max_tokens"} <=> enc.finish = "length"
    /\ \A i \in DOMAIN o : o[i].type = "end" => i = Len(o)
    /\ SameDeltas(enc, o, said)
    /\ protocol = "anthropic" =>
           StartsOnce(enc, o) /\ Alternate(enc, o, TRUE) /\ OpenUnlessReturns(o, said)
    /\ protocol = "responses" => Completed(enc, o)

LEMMA AnthropicFinishes ==
    ASSUME Running, protocol = "anthropic", enc.finish \in Reasons
    PROVE  Finished(out \o anthropicFinish)
  <1> DEFINE c == Closed(enc, out)
             m == Ev("message_delta", None, None, status(enc.finish))
             x == Ev("end", None, None, status(enc.finish))
             o1 == Append(c, m)
             o2 == Append(o1, x)
             s == Ev("stop", enc.open, None, None)
  <1>1. /\ enc \in Encoder /\ out \in Seq(Event) /\ said \in Seq(Mention) /\ Placed(protocol, enc)
        /\ Answering(protocol, enc, out, said) /\ SameDeltas(enc, out, said)
    BY DEF Running, TypeOK
  <1>2. enc.next \in Nat /\ enc.open \in Nat \cup {None} /\ None \notin Nat
    BY <1>1, Constants DEF Encoder
  <1>3. status(enc.finish) \in Words
        /\ (status(enc.finish) \in {"incomplete", "max_tokens"} <=> enc.finish = "length")
    BY StatusIs
  <1>4. /\ m \in Event /\ m.type = "message_delta"
        /\ x \in Event /\ x.type = "end" /\ x.what = status(enc.finish)
        /\ s \in Event /\ s.type = "stop" /\ s.at = enc.open
    <2>1. m \in Event /\ x \in Event /\ s \in Event
      BY <1>2, <1>3, EvType
    <2> QED BY <2>1 DEF Ev
  <1>5. c \in Seq(Event)
    BY <1>1, <1>4 DEF Closed
  <1>6. out \o anthropicFinish = o2
    <2>1. closeOpen(<<enc, <<>>>>)[2] = IF enc.open = None THEN <<>> ELSE Append(<<>>, s)
      BY DEF closeOpen
    <2>2. anthropicFinish = (IF enc.open = None THEN <<>> ELSE <<s>>) \o <<m, x>>
      <3>1. anthropicFinish = (IF enc.open = None THEN <<>> ELSE Append(<<>>, s)) \o <<m, x>>
        BY <2>1 DEF anthropicFinish
      <3>2. Append(<<>>, s) = <<s>>
        OBVIOUS
      <3> QED BY <3>1, <3>2
    <2> HIDE DEF m, x
    <2>3. CASE enc.open = None
      <3>1. c = out /\ anthropicFinish = <<m, x>>
        BY <2>2, <2>3, <1>4 DEF Closed
      <3> QED BY <3>1, <1>1, <1>4
    <2>4. CASE enc.open # None
      <3>1. c = Append(out, s) /\ anthropicFinish = <<s>> \o <<m, x>>
        BY <2>2, <2>4 DEF Closed
      <3> HIDE DEF s
      <3>2. out \o (<<s>> \o <<m, x>>) = (out \o <<s>>) \o <<m, x>>
        <4>1. <<s>> \in Seq(Event) /\ <<m, x>> \in Seq(Event)
          BY <1>4
        <4> QED BY <1>1, <4>1, ConcatAssociative
      <3>3. out \o <<s>> = c
        BY <1>1, <1>4, <3>1
      <3>4. c \o <<m, x>> = Append(Append(c, m), x)
        BY <1>4, <1>5
      <3> QED BY <3>1, <3>2, <3>3, <3>4
    <2> QED BY <2>3, <2>4
  <1> HIDE DEF m, x
  <1>7. /\ StartsOnce(enc, c) /\ Alternate(enc, c, TRUE) /\ OpenUnlessReturns(c, said)
        /\ OfType(c, {"delta"}) = OfType(out, {"delta"}) /\ \A i \in DOMAIN c : c[i].type # "end"
    <2>0. /\ StartsOnce(enc, out) /\ Alternate(enc, out, FALSE) /\ OpenUnlessReturns(out, said)
          /\ \A i \in DOMAIN out : out[i].type # "end"
      BY <1>1 DEF Answering
    <2>1. CASE enc.open = None
      <3>1. c = out /\ enc.next = 0
        BY <2>1, <1>1, <1>2 DEF Closed, Placed
      <3>2. Alternate(enc, out, TRUE)
        BY <3>1, <2>0 DEF Alternate
      <3> QED BY <3>1, <3>2, <2>0
    <2>2. CASE enc.open # None
      <3>1. c = Append(out, s)
        BY <2>2 DEF Closed
      <3>2. enc.open = enc.next - 1 /\ enc.next > 0
        BY <2>2, <1>1, <1>2 DEF Placed
      <3> HIDE DEF s, c
      <3>3. StartsOnce(enc, c)
        BY <1>1, <1>4, <2>0, <3>1, StartsOnceOther
      <3>4. Alternate(enc, c, TRUE)
        BY <1>1, <1>2, <1>4, <2>0, <3>1, <3>2, AlternateStop
      <3>5. OpenUnlessReturns(c, said)
        BY <1>1, <1>4, <2>0, <3>1, OpenUnlessAppend
      <3>6. OfType(c, {"delta"}) = OfType(out, {"delta"})
        BY <1>1, <1>4, <3>1, OfTypeAppend
      <3>7. \A i \in DOMAIN c : c[i].type # "end"
        <4>1. \A j \in DOMAIN c : c[j] = s \/ (j \in DOMAIN out /\ c[j] = out[j])
          BY <1>1, <1>4, <3>1, AppendIs
        <4> QED BY <4>1, <1>4, <2>0
      <3> QED BY <3>3, <3>4, <3>5, <3>6, <3>7
    <2> QED BY <2>1, <2>2
  <1> HIDE DEF c, s
  <1>8. /\ o1 \in Seq(Event) /\ StartsOnce(enc, o1) /\ Alternate(enc, o1, TRUE)
        /\ OpenUnlessReturns(o1, said) /\ OfType(o1, {"delta"}) = OfType(out, {"delta"})
        /\ \A i \in DOMAIN o1 : o1[i].type # "end"
    <2>1. StartsOnce(enc, o1)
      BY <1>4, <1>5, <1>7, StartsOnceOther
    <2>2. Alternate(enc, o1, TRUE)
      BY <1>4, <1>5, <1>7, AlternateOther
    <2>3. OpenUnlessReturns(o1, said)
      BY <1>4, <1>5, <1>7, OpenUnlessAppend
    <2>4. OfType(o1, {"delta"}) = OfType(out, {"delta"})
      BY <1>4, <1>5, <1>7, OfTypeAppend
    <2>5. \A j \in DOMAIN o1 : o1[j] = m \/ (j \in DOMAIN c /\ o1[j] = c[j])
      BY <1>4, <1>5, AppendIs
    <2>6. \A i \in DOMAIN o1 : o1[i].type # "end"
      BY <2>5, <1>4, <1>7
    <2>7. o1 \in Seq(Event)
      BY <1>4, <1>5
    <2> QED BY <2>1, <2>2, <2>3, <2>4, <2>6, <2>7
  <1> HIDE DEF o1
  <1>9. StartsOnce(enc, o2)
    BY <1>4, <1>8, StartsOnceOther
  <1>10. Alternate(enc, o2, TRUE)
    BY <1>4, <1>8, AlternateOther
  <1>11. OpenUnlessReturns(o2, said)
    BY <1>4, <1>8, OpenUnlessAppend
  <1>12. OfType(o2, {"delta"}) = OfType(out, {"delta"})
    BY <1>4, <1>8, OfTypeAppend
  <1>13. SameDeltas(enc, o2, said)
    BY <1>1, <1>12, SameDeltasKept
  <1>14. o2 \in Seq(Event) /\ o2 # <<>> /\ o2[Len(o2)] = x
    BY <1>4, <1>8, AppendIs
  <1>15. \A i \in DOMAIN o2 : o2[i].type = "end" => i = Len(o2)
    <2>1. \A j \in DOMAIN o2 : j = Len(o2) \/ (j \in DOMAIN o1 /\ o2[j] = o1[j])
      BY <1>4, <1>8, AppendIs
    <2> QED BY <2>1, <1>8
  <1> HIDE DEF o2
  <1>16. Finished(o2)
    BY <1>3, <1>4, <1>9, <1>10, <1>11, <1>13, <1>14, <1>15 DEF Finished
  <1> QED BY <1>6, <1>16

\* A filter that keeps nothing of what is added.
LEMMA OfTypeConcat ==
    ASSUME NEW E, NEW s \in Seq(E), NEW w \in Seq(E), NEW types,
           \A i \in 1 .. Len(w) : w[i].type \notin types
    PROVE  OfType(s \o w, types) = OfType(s, types)
  <1> DEFINE L == Len(w)
             Q(i) == Taken(s, w, i)
             T == {i \in 0 .. L : Q(i) \in Seq(E) /\ OfType(Q(i), types) = OfType(s, types)}
  <1>1. L \in Nat /\ \A i \in 1 .. L : w[i] \in E
    OBVIOUS
  <1>a. Q(0) = s
    BY TakenIs
  <1>b. Q(L) = s \o w
    BY TakenIs, Zenon
  <1>2. \A i \in 0 .. L - 1 : Q(i + 1) = Append(Q(i), w[i + 1])
    <2>1. \A i \in 0 .. Len(w) - 1 : Taken(s, w, i + 1) = Append(Taken(s, w, i), w[i + 1])
      BY TakenIs
    <2> QED BY <2>1
  <1>3. \A i \in 1 .. L : w[i].type \notin types
    BY Zenon
  <1> HIDE DEF Q, L
  <1>4. 0 \in T
    BY <1>1, <1>a
  <1>5. \A i \in 0 .. L - 1 : i \in T => i + 1 \in T
    <2> SUFFICES ASSUME NEW i \in 0 .. L - 1, Q(i) \in Seq(E), OfType(Q(i), types) = OfType(s, types)
                 PROVE  Q(i + 1) \in Seq(E) /\ OfType(Q(i + 1), types) = OfType(s, types)
      BY <1>1
    <2>1. PICK x \in E : x = w[i + 1] /\ x.type \notin types
      BY <1>1, <1>3
    <2>2. Q(i + 1) = Append(Q(i), x)
      BY <1>2, <2>1
    <2>3. OfType(Append(Q(i), x), types) = OfType(Q(i), types)
      BY <2>1, OfTypeAppend
    <2>4. Append(Q(i), x) \in Seq(E)
      BY <2>1
    <2> QED BY <2>2, <2>3, <2>4
  <1> HIDE DEF T
  <1>6. \A i \in 0 .. L : i \in T
    BY <1>1, <1>4, <1>5, UpTo
  <1>7. OfType(Q(L), types) = OfType(s, types)
    BY <1>1, <1>6 DEF T
  <1> QED BY <1>b, <1>7

\* The places of the parts, in order.
LEMMA PlacesAre ==
    ASSUME NEW pr, NEW e \in Encoder, Placed(pr, e)
    PROVE  /\ Sorted({PlaceOf(e, p) : p \in PartsOf(e)}) = [i \in 1 .. e.next |-> i - 1]
           /\ IsFiniteSet(PartsOf(e))
           /\ \A n \in 0 .. e.next - 1 : PartAt(e, n) \in PartsOf(e) /\ PlaceOf(e, PartAt(e, n)) = n
  <1>1. e.next \in Nat
    BY DEF Encoder
  <1>2. /\ \A p \in PartsOf(e) : PlaceOf(e, p) \in 0 .. e.next - 1
        /\ \A p, q \in PartsOf(e) : PlaceOf(e, p) = PlaceOf(e, q) => p = q
        /\ \A n \in 0 .. e.next - 1 : \E p \in PartsOf(e) : PlaceOf(e, p) = n
    BY DEF Placed
  <1>3. {PlaceOf(e, p) : p \in PartsOf(e)} = 0 .. e.next - 1
    BY <1>2
  <1>4. IsFiniteSet(PartsOf(e))
    <2> DEFINE f == [p \in PartsOf(e) |-> PlaceOf(e, p)]
               N == 0 .. e.next - 1
    <2>1. f \in Injection(PartsOf(e), N)
      BY <1>2 DEF Injection, IsInjective
    <2>2. IsFiniteSet(N)
      BY <1>1, FS_Interval
    <2> HIDE DEF f, N
    <2> QED BY <2>1, <2>2, FS_Injection
  <1>5. \A n \in 0 .. e.next - 1 : PartAt(e, n) \in PartsOf(e) /\ PlaceOf(e, PartAt(e, n)) = n
    BY <1>2, Zenon DEF PartAt
  <1> QED BY <1>1, <1>3, <1>4, <1>5, SortedInterval

\* The order in which the items are done: every part of the answer once.
Order(e) == (IF e.text # None THEN <<Text>> ELSE <<>>) \o ToolOrder(e)

LEMMA OrderIs ==
    ASSUME NEW pr, NEW e \in Encoder, Placed(pr, e)
    PROVE  /\ Order(e) \in Seq(PartsOf(e))
           /\ \A p \in PartsOf(e) : \E i \in DOMAIN Order(e) : Order(e)[i] = p
           /\ \A i, j \in DOMAIN Order(e) : Order(e)[i] = Order(e)[j] => i = j
  <1> DEFINE P == PartsOf(e)
             R == P \ {Text}
             v == IF e.text # None THEN <<Text>> ELSE <<>>
             w == ToolOrder(e)
             k == Cardinality(R)
             b == Len(v)
             r == v \o w
  <1>1. R \in SUBSET Nat
    BY Constants DEF PartsOf
  <1>2. IsFiniteSet(R)
    BY PlacesAre, FS_Subset
  <1>3. /\ w \in [1 .. k -> R] /\ Ascending(w) /\ k \in Nat
        /\ \A x \in R : \E i \in DOMAIN w : w[i] = x
    BY <1>1, <1>2, SortedSorts DEF ToolOrder
  <1>4. Text \in P <=> e.text # None
    BY Constants DEF PartsOf, PlaceOf
  <1> HIDE DEF P, k
  <1>5. w \in Seq(P) /\ Len(w) = k
    <2>1. w \in [1 .. k -> P]
      BY <1>3
    <2> HIDE DEF w
    <2> QED BY <1>3, <2>1
  <1> HIDE DEF w
  <1>6. v \in Seq(P) /\ (b = IF Text \in P THEN 1 ELSE 0) /\ (Text \in P => v[1] = Text)
    <2>1. CASE Text \in P
      BY <1>4, <2>1
    <2>2. CASE Text \notin P
      BY <1>4, <2>2
    <2> QED BY <2>1, <2>2
  <1> HIDE DEF v
  <1>7. b \in {0, 1}
    BY <1>6
  <1>8. /\ r \in Seq(P) /\ Len(r) = b + k
        /\ \A i \in 1 .. b + k : r[i] = IF i <= b THEN v[i] ELSE w[i - b]
    BY <1>5, <1>6, ConcatProperties
  <1> HIDE DEF b, r
  <1>9. ASSUME NEW p \in P PROVE \E i \in 1 .. b + k : r[i] = p
    <2>1. CASE p = Text
      <3>1. b = 1 /\ 1 \in 1 .. b + k
        BY <1>3, <1>6, <2>1
      <3> QED BY <3>1, <1>6, <1>8, <2>1
    <2>2. CASE p # Text
      <3>1. PICK i \in 1 .. k : w[i] = p
        BY <1>3, <2>2
      <3>2. b + i \in 1 .. b + k /\ ~(b + i <= b) /\ (b + i) - b = i
        BY <1>3, <1>7
      <3>3. r[b + i] = p
        BY <3>1, <3>2, <1>8
      <3> QED BY <3>2, <3>3
    <2> QED BY <2>1, <2>2
  <1>10. ASSUME NEW i \in 1 .. b + k, NEW j \in 1 .. b + k, r[i] = r[j], i < j PROVE FALSE
    <2>1. ~(j <= b) /\ j - b \in 1 .. k /\ r[j] = w[j - b]
      BY <1>3, <1>7, <1>8, <1>10
    <2>2. w[j - b] \in Nat /\ w[j - b] # Text
      BY <1>1, <1>3, <2>1
    <2>3. CASE i <= b
      <3>1. b = 1 /\ i = 1
        BY <1>7, <2>3
      <3>2. r[i] = Text
        BY <1>6, <1>8, <3>1
      <3> QED BY <3>2, <2>1, <2>2, <1>10
    <2>4. CASE ~(i <= b)
      <3>1. i - b \in 1 .. k /\ r[i] = w[i - b] /\ i - b < j - b
        BY <1>3, <1>7, <1>8, <1>10, <2>4
      <3>2. w[i - b] < w[j - b] /\ w[i - b] \in Nat
        BY <1>1, <1>3, <2>1, <3>1 DEF Ascending
      <3> QED BY <2>1, <2>2, <3>1, <3>2, <1>10
    <2> QED BY <2>3, <2>4
  <1>11. DOMAIN r = 1 .. b + k
    BY <1>8
  <1>12. \A i, j \in 1 .. b + k : r[i] = r[j] => i = j
    <2> SUFFICES ASSUME NEW i \in 1 .. b + k, NEW j \in 1 .. b + k, r[i] = r[j], i # j PROVE FALSE
      OBVIOUS
    <2>1. i < j \/ j < i
      BY <1>3, <1>7
    <2> QED BY <2>1, <1>10
  <1> QED BY <1>8, <1>9, <1>11, <1>12 DEF Order, r, v, w, P

LEMMA ResponsesFinishes ==
    ASSUME Running, protocol = "responses", enc.finish \in Reasons
    PROVE  Finished(out \o responsesFinish)
  <1> DEFINE order == Order(enc)
             places == Sorted({PlaceOf(enc, p) : p \in PartsOf(enc)})
             items == [i \in DOMAIN places |-> PartAt(enc, places[i])]
             stop(i) == Ev("stop", PlaceOf(enc, order[i]), None, None)
             stops == [i \in DOMAIN order |-> stop(i)]
             y == Ev("end", None, None, status(enc.finish))
             x == [y EXCEPT !.items = items]
             n == Len(out)
             k == Len(order)
             o1 == out \o stops
             o2 == Append(o1, x)
  <1>1. /\ enc \in Encoder /\ out \in Seq(Event) /\ said \in Seq(Mention) /\ Placed(protocol, enc)
        /\ Answering(protocol, enc, out, said) /\ SameDeltas(enc, out, said)
    BY DEF Running, TypeOK
  <1>2. enc.next \in Nat /\ None \notin Nat /\ PartsOf(enc) \subseteq Parts
    BY <1>1, Constants DEF Encoder, PartsOf
  <1>3. status(enc.finish) \in Words
        /\ (status(enc.finish) \in {"incomplete", "max_tokens"} <=> enc.finish = "length")
    BY StatusIs
  <1>4. /\ order \in Seq(PartsOf(enc))
        /\ \A p \in PartsOf(enc) : \E i \in DOMAIN order : order[i] = p
        /\ \A i, j \in DOMAIN order : order[i] = order[j] => i = j
    BY <1>1, OrderIs
  <1>5. /\ places = [i \in 1 .. enc.next |-> i - 1]
        /\ \A m \in 0 .. enc.next - 1 : PartAt(enc, m) \in PartsOf(enc) /\ PlaceOf(enc, PartAt(enc, m)) = m
    BY <1>1, PlacesAre
  <1>r. responsesFinish = stops \o <<x>>
    BY DEF responsesFinish, Order
  <1> HIDE DEF order, places
  <1>6. k \in Nat /\ DOMAIN order = 1 .. k /\ \A i \in 1 .. k : order[i] \in PartsOf(enc)
    BY <1>4
  <1>7. /\ items \in Seq(Parts) /\ Len(items) = enc.next
        /\ \A m \in 0 .. enc.next - 1 : items[m + 1] = PartAt(enc, m)
    <2>1. items = [i \in 1 .. enc.next |-> PartAt(enc, i - 1)]
      BY <1>5
    <2>2. \A i \in 1 .. enc.next : PartAt(enc, i - 1) \in Parts
      BY <1>2, <1>5
    <2>3. items \in [1 .. enc.next -> Parts]
      BY <2>1, <2>2
    <2>4. \A m \in 0 .. enc.next - 1 : items[m + 1] = PartAt(enc, m)
      BY <1>2, <2>1
    <2> HIDE DEF items
    <2> QED BY <1>2, <2>3, <2>4
  <1> HIDE DEF items
  <1>8. x \in Event /\ x.type = "end" /\ x.what = status(enc.finish) /\ x.items = items /\ x.at = None
    <2>1. y = [type |-> "end", at |-> None, part |-> None, what |-> status(enc.finish), items |-> <<>>]
      BY DEF Ev
    <2>2. x = [type |-> "end", at |-> None, part |-> None, what |-> status(enc.finish), items |-> items]
      BY <2>1
    <2> HIDE DEF x
    <2> QED BY <2>2, <1>3, <1>7 DEF Event
  <1> HIDE DEF x
  <1>9. \A i \in 1 .. k : /\ stop(i) \in Event /\ stop(i).type = "stop"
                          /\ stop(i).at = PlaceOf(enc, order[i])
    <2> TAKE i \in 1 .. k
    <2>1. PlaceOf(enc, order[i]) \in Nat
      BY <1>1, <1>2, <1>6 DEF Placed
    <2>2. stop(i) \in Event
      BY <2>1, EvType
    <2> QED BY <2>2 DEF Ev
  <1> HIDE DEF stop, k
  <1>10. stops \in Seq(Event) /\ Len(stops) = k /\ \A i \in 1 .. k : stops[i] = stop(i)
    <2>1. stops \in [1 .. k -> Event]
      BY <1>6, <1>9
    <2>2. \A i \in 1 .. k : stops[i] = stop(i)
      BY <1>6
    <2> HIDE DEF stops
    <2> QED BY <1>6, <2>1, <2>2
  <1> HIDE DEF stops
  <1>11. out \o responsesFinish = o2
    <2>1. out \o (stops \o <<x>>) = (out \o stops) \o <<x>>
      <3>1. <<x>> \in Seq(Event)
        BY <1>8
      <3> QED BY <1>1, <1>10, <3>1, ConcatAssociative
    <2>2. o1 \in Seq(Event)
      BY <1>1, <1>10
    <2> HIDE DEF o1
    <2>3. o1 \o <<x>> = o2
      BY <2>2, <1>8
    <2> QED BY <1>r, <2>1, <2>3 DEF o1
  <1>12. /\ o1 \in Seq(Event) /\ Len(o1) = n + k /\ n \in Nat
         /\ \A i \in 1 .. n + k : o1[i] = IF i <= n THEN out[i] ELSE stops[i - n]
    <2>1. o1 \in Seq(Event) /\ Len(o1) = n + k
      BY <1>1, <1>10, ConcatProperties
    <2>2. n \in Nat
      BY <1>1
    <2>3. \A i \in 1 .. n + k : o1[i] = IF i <= n THEN out[i] ELSE stops[i - n]
      BY <1>1, <1>10, ConcatProperties
    <2> QED BY <2>1, <2>2, <2>3
  <1>13. OfType(o1, {"delta"}) = OfType(out, {"delta"})
    BY <1>1, <1>9, <1>10, OfTypeConcat
  <1> HIDE DEF o1, n
  <1>14. /\ o2 \in Seq(Event) /\ o2 # <<>> /\ Len(o2) = n + k + 1 /\ DOMAIN o2 = 1 .. n + k + 1
         /\ o2[n + k + 1] = x /\ \A i \in 1 .. n + k : o2[i] = o1[i]
    BY <1>8, <1>12, AppendIs
  <1>15. OfType(o2, {"delta"}) = OfType(out, {"delta"})
    BY <1>8, <1>12, <1>13, OfTypeAppend
  <1>16. SameDeltas(enc, o2, said)
    BY <1>1, <1>15, SameDeltasKept
  <1> HIDE DEF o2
  <1>17. /\ DOMAIN out = 1 .. n /\ \A i \in 1 .. n : o2[i] = out[i]
         /\ \A i \in 1 .. k : o2[n + i] = stop(i)
    <2>1. DOMAIN out = 1 .. n
      BY <1>1 DEF n
    <2>2. \A i \in 1 .. n : o2[i] = out[i]
      BY <1>6, <1>12, <1>14
    <2>3. ASSUME NEW i \in 1 .. k PROVE o2[n + i] = stop(i)
      <3>1. n + i \in 1 .. n + k /\ ~(n + i <= n) /\ (n + i) - n = i
        BY <1>6, <1>12
      <3> QED BY <3>1, <1>10, <1>12, <1>14
    <2> QED BY <2>1, <2>2, <2>3
  <1>18. \A j \in DOMAIN o2 :
            \/ j \in DOMAIN out /\ o2[j] = out[j]
            \/ j = n + k + 1 /\ o2[j] = x
            \/ j - n \in 1 .. k /\ o2[j] = stop(j - n)
    <2> TAKE j \in DOMAIN o2
    <2>1. CASE j <= n
      <3>1. j \in DOMAIN out
        BY <2>1, <1>12, <1>14, <1>17
      <3> QED BY <3>1, <1>17
    <2>2. CASE j = n + k + 1
      BY <2>2, <1>14
    <2>3. CASE j > n /\ j # n + k + 1
      <3>1. j - n \in 1 .. k /\ j = n + (j - n)
        BY <2>3, <1>6, <1>12, <1>14
      <3> QED BY <3>1, <1>17
    <2> QED BY <2>1, <2>2, <2>3, <1>12, <1>14
  <1>19. \A i \in DOMAIN o2 : o2[i].type = "end" => i = Len(o2)
    BY <1>1, <1>9, <1>14, <1>18 DEF Answering
  <1>20. Completed(enc, o2)
    <2>1. o2[Len(o2)].items = items
      BY <1>8, <1>14
    <2>2. ASSUME NEW m \in 0 .. enc.next - 1
          PROVE  \E i, j \in DOMAIN o2 :
              /\ At(o2, i, "start", m) /\ At(o2, j, "stop", m)
              /\ \A l \in DOMAIN o2 : o2[l].at = m =>
                    /\ o2[l].type = "delta" => i < l /\ l < j
                    /\ o2[l].type \in {"start", "stop"} => l \in {i, j}
              /\ i < j /\ items[m + 1] = o2[i].part
      <3>0. /\ StartsOnce(enc, out)
            /\ \A l \in DOMAIN out : out[l].type # "stop"
        BY <1>1 DEF Answering, StopsExplained
      <3>1. PICK i \in DOMAIN out :
                At(out, i, "start", m) /\ \A l \in DOMAIN out : At(out, l, "start", m) => l = i
        BY <3>0 DEF StartsOnce
      <3>2. PICK a \in 1 .. k : order[a] = PartAt(enc, m)
        BY <1>4, <1>5, <1>6
      <3> DEFINE j == n + a
      <3>3. i \in DOMAIN o2 /\ At(o2, i, "start", m) /\ o2[i] = out[i]
        BY <1>6, <1>12, <1>14, <1>17, <3>1 DEF At
      <3>4. j \in DOMAIN o2 /\ o2[j] = stop(a) /\ j - n = a /\ i < j
        BY <1>6, <1>12, <1>14, <1>17, <3>1, <3>2
      <3>5. At(o2, j, "stop", m)
        BY <1>5, <1>9, <3>2, <3>4 DEF At
      <3>6. items[m + 1] = o2[i].part
        <4>1. out[i].part \in PartsOf(enc) /\ PlaceOf(enc, out[i].part) = m
          BY <3>0, <3>1 DEF StartsOnce, At
        <4>2. out[i].part = PartAt(enc, m)
          BY <4>1, <1>1, <1>5 DEF Placed
        <4> QED BY <4>2, <3>3, <1>7
      <3>7. ASSUME NEW l \in DOMAIN o2, o2[l].at = m
            PROVE  /\ o2[l].type = "delta" => i < l /\ l < j
                   /\ o2[l].type \in {"start", "stop"} => l \in {i, j}
        <4>1. CASE l \in DOMAIN out /\ o2[l] = out[l]
          <5>1. ASSUME o2[l].type = "delta" PROVE i < l /\ l < j
            <6>1. PICK u \in 1 .. l - 1 : At(out, u, "start", m)
              BY <5>1, <4>1, <3>0, <3>7 DEF StartsOnce
            <6>2. u \in DOMAIN out
              BY <6>1, <4>1, <1>17, <1>12
            <6>3. u = i
              BY <6>1, <6>2, <3>1
            <6> QED BY <6>1, <6>3, <4>1, <1>17, <1>12, <3>2
          <5>2. ASSUME o2[l].type \in {"start", "stop"} PROVE l = i
            BY <5>2, <4>1, <3>0, <3>1, <3>7 DEF At
          <5> QED BY <5>1, <5>2
        <4>2. CASE l = n + k + 1 /\ o2[l] = x
          BY <4>2, <1>8
        <4>3. CASE l - n \in 1 .. k /\ o2[l] = stop(l - n)
          <5>1. stop(l - n).type = "stop" /\ PlaceOf(enc, order[l - n]) = m
                /\ order[l - n] \in PartsOf(enc)
            BY <4>3, <3>7, <1>6, <1>9
          <5>2. order[l - n] = order[a]
            BY <5>1, <3>2, <1>1, <1>5 DEF Placed
          <5>3. l - n = a
            BY <5>2, <4>3, <3>2, <1>4, <1>6
          <5>4. l = j
            <6>1. l \in Int /\ n \in Int /\ a \in Int
              BY <1>12, <1>14, <3>2
            <6>2. j = n + a
              BY Zenon DEF j
            <6> HIDE DEF j
            <6> QED BY <5>3, <6>1, <6>2
          <5> QED BY <5>1, <5>4, <4>3
        <4> QED BY <1>18, <4>1, <4>2, <4>3
      <3> HIDE DEF j
      <3> QED BY <3>3, <3>4, <3>5, <3>6, <3>7
    <2> QED BY <2>1, <2>2, <1>7 DEF Completed
  <1>21. Finished(o2)
    BY <1>3, <1>8, <1>14, <1>16, <1>19, <1>20 DEF Finished
  <1> QED BY <1>11, <1>21

----------------------------------------------------------------------------
(* The invariant.                                                          *)

IInv == StreamInv /\ DeltasAsReceived /\ EndTellsTheTruth

\* Until an answer is finished, its invariant is what Unfinished says.
Pending == TypeOK /\ Unfinished /\ DeltasAsReceived /\ phase # "succeeded"

LEMMA PendingGives == Pending => IInv
  <1> SUFFICES ASSUME Pending PROVE IInv
    OBVIOUS
  <1>1. TypeOK /\ Unfinished /\ DeltasAsReceived /\ phase # "succeeded"
    BY DEF Pending
  <1>2. ItemsCompleted
    BY <1>1 DEF ItemsCompleted
  <1>3. CASE protocol = "chat"
    <2>1. BlocksAlternate /\ OpenUnlessUpstreamReturns
      BY <1>3 DEF BlocksAlternate, OpenUnlessUpstreamReturns
    <2>2. \A i \in DOMAIN out : out[i].type # "end"
      BY <1>1, <1>3 DEF Unfinished, Translating
    <2>3. EndTellsTheTruth
      BY <1>1, <2>2 DEF EndTellsTheTruth
    <2> QED BY <1>1, <1>2, <2>1, <2>3 DEF IInv, StreamInv
  <1>4. CASE protocol # "chat"
    <2>1. Answering(protocol, enc, out, said)
      BY <1>1, <1>4 DEF Unfinished, Translating
    <2>2. BlocksAlternate
      BY <1>1, <2>1 DEF BlocksAlternate, Answering
    <2>3. OpenUnlessUpstreamReturns
      BY <2>1 DEF OpenUnlessUpstreamReturns, Answering
    <2>4. EndTellsTheTruth
      BY <1>1, <2>1 DEF EndTellsTheTruth, Answering
    <2> QED BY <1>1, <1>2, <2>2, <2>3, <2>4 DEF IInv, StreamInv
  <1> QED BY <1>3, <1>4

LEMMA UnusedIs ==
    /\ Unused \in Encoder /\ PartsOf(Unused) = {} /\ Unused.next = 0 /\ Unused.open = None
    /\ Unused.started = FALSE
    /\ \A pr : Placed(pr, Unused)
  <1>1. \A p \in Parts : PlaceOf(Unused, p) = None
    <2> TAKE p \in Parts
    <2>1. CASE p = Text
      BY <2>1 DEF PlaceOf, Unused
    <2>2. CASE p # Text
      <3>1. p \in Tools
        BY <2>2, Constants
      <3> QED BY <2>2, <3>1 DEF PlaceOf, Unused, NoTool
    <2> QED BY <2>1, <2>2
  <1>2. PartsOf(Unused) = {}
    BY <1>1 DEF PartsOf
  <1>3. NoTool \in Tool
    BY DEF NoTool, Tool
  <1>4. Unused \in Encoder /\ Unused.next = 0 /\ Unused.open = None /\ Unused.started = FALSE
    BY <1>3 DEF Unused, Encoder
  <1> QED BY <1>2, <1>4 DEF Placed

LEMMA InitPending == Init => Pending
  <1> SUFFICES ASSUME Init PROVE Pending
    OBVIOUS
  <1>1. /\ enc = Unused /\ out = <<>> /\ said = <<>> /\ phase = "streaming"
    BY DEF Init
  <1>2. OfType(<<>>, {"delta"}) = <<>> /\ OfType(<<>>, {"start", "stop"}) = <<>>
    BY OfTypeEmpty
  <1>3. SameDeltas(enc, out, said)
    BY <1>1, <1>2 DEF SameDeltas
  <1>4. StartsOnce(enc, out)
    BY <1>1, UnusedIs DEF StartsOnce
  <1>5. Alternate(enc, out, FALSE)
    BY <1>1, <1>2, UnusedIs DEF Alternate
  <1>6. Answering(protocol, enc, out, said)
    <2>1. DOMAIN out = {}
      BY <1>1
    <2>2. OpenUnlessReturns(out, said) /\ StopsExplained(protocol, enc, out, said)
      BY <2>1 DEF OpenUnlessReturns, StopsExplained
    <2>3. Mentioned(enc, said)
      BY <1>1, UnusedIs DEF Mentioned
    <2> QED BY <1>4, <1>5, <2>1, <2>2, <2>3 DEF Answering
  <1>7. FirstFrame(enc, out, said)
    BY <1>1, UnusedIs DEF FirstFrame
  <1>8. out \in Seq(Event) /\ said \in Seq(Mention)
    BY <1>1
  <1>9. TypeOK
    <2>1. /\ protocol \in Protocols /\ attempt = 1 /\ frames = 0 /\ pending = 0 /\ saw = NothingSeen
      BY DEF Init
    <2>2. saw \in [choice : BOOLEAN, finish : BOOLEAN]
      BY <2>1 DEF NothingSeen
    <2>3. attempt \in 1 .. MaxAttempts /\ frames \in 0 .. MaxFrames /\ pending \in 0 .. frames
      BY <2>1, StreamAssumption
    <2>4. enc \in Encoder /\ Placed(protocol, enc)
      BY <1>1, UnusedIs
    <2> QED BY <1>1, <1>8, <2>1, <2>2, <2>3, <2>4 DEF TypeOK
  <1> QED BY <1>1, <1>3, <1>6, <1>7, <1>9 DEF Pending, Unfinished, DeltasAsReceived

\* What is written for callers of the chat API.
LEMMA RawIs ==
    ASSUME pending \in Nat, NEW o \in Seq(Event), \A i \in DOMAIN o : o[i].type \in {"comment", "raw"}
    PROVE  /\ o \o Raw \in Seq(Event) /\ o \o Raw # <<>>
           /\ \A i \in DOMAIN (o \o Raw) : (o \o Raw)[i].type \in {"comment", "raw"}
  <1> DEFINE x == Ev("comment", None, None, None)
             y == Ev("raw", None, None, None)
             h == [i \in 1 .. pending |-> x]
             r == h \o <<y>>
             z == o \o r
             n == Len(o)
             m == pending + 1
  <1>1. x \in Event /\ x.type = "comment" /\ y \in Event /\ y.type = "raw"
    <2>1. x \in Event /\ y \in Event
      BY EvType
    <2> QED BY <2>1 DEF Ev
  <1> HIDE DEF x, y
  <1>2. h \in Seq(Event) /\ Len(h) = pending /\ \A i \in 1 .. pending : h[i] = x
    BY <1>1
  <1> HIDE DEF h
  <1>3. /\ r \in Seq(Event) /\ Len(r) = m /\ m \in Nat /\ m > 0
        /\ \A i \in 1 .. m : r[i] \in {x, y}
    <2>1. r = Append(h, y)
      BY <1>1, <1>2
    <2> HIDE DEF r
    <2> QED BY <1>1, <1>2, <2>1
  <1>4. Raw = r
    BY DEF Raw, Held, h, x, y
  <1> HIDE DEF r
  <1>5. /\ z \in Seq(Event) /\ Len(z) = n + m /\ n \in Nat
        /\ \A i \in 1 .. n + m : z[i] = IF i <= n THEN o[i] ELSE r[i - n]
    <2>1. z \in Seq(Event) /\ Len(z) = n + m
      <3>1. z \in Seq(Event)
        BY <1>3, ConcatProperties
      <3>2. Len(z) = Len(o) + Len(r)
        BY <1>3, ConcatProperties
      <3> HIDE DEF z
      <3> QED BY <1>3, <3>1, <3>2
    <2>2. \A i \in 1 .. n + m : z[i] = IF i <= n THEN o[i] ELSE r[i - n]
      BY <1>3, ConcatProperties
    <2> QED BY <2>1, <2>2
  <1> HIDE DEF z, m
  <1>6. z # <<>> /\ DOMAIN z = 1 .. n + m
    BY <1>3, <1>5
  <1>7. ASSUME NEW i \in DOMAIN z PROVE z[i].type \in {"comment", "raw"}
    <2>1. CASE i <= n
      <3>1. i \in DOMAIN o /\ z[i] = o[i]
        BY <2>1, <1>5, <1>6
      <3> QED BY <3>1
    <2>2. CASE ~(i <= n)
      <3>1. i - n \in 1 .. m /\ z[i] = r[i - n]
        BY <2>2, <1>3, <1>5, <1>6
      <3> QED BY <3>1, <1>1, <1>3
    <2> QED BY <2>1, <2>2
  <1> QED BY <1>4, <1>5, <1>6, <1>7 DEF z

\* A state in which an answer may go on.
LEMMA PendingRuns ==
    ASSUME Pending, protocol # "chat"
    PROVE  Running
  <1>1. protocol \in {"responses", "anthropic"}
    BY StreamAssumption DEF Pending, TypeOK
  <1> QED BY <1>1 DEF Pending, Running, Unfinished, Translating, DeltasAsReceived

\* What is said stays a sequence of mentions.
LEMMA SaidType ==
    ASSUME said \in Seq(Mention), NEW c \in Chunks
    PROVE  said \o PiecesOf(c) \in Seq(Mention)
  <1> DEFINE w == CallsSay(c)
             v == SaidText(c)
  <1>1. c.calls \in Seq(Call) /\ c.text \in BOOLEAN
    BY Constants DEF Chunk
  <1>2. /\ v \in Seq(Mention) /\ w \in Seq(Mention) /\ Len(w) = Len(c.calls)
        /\ said \o PiecesOf(c) = v \o w
    BY <1>1, SaidIs
  <1> HIDE DEF v, w
  <1> QED BY <1>2, ConcatProperties

\* A chunk.
LEMMA FrameKeeps ==
    ASSUME Pending, NEW c \in Chunks, Frame(c)
    PROVE  Pending'
  <1>1. /\ phase' = phase /\ protocol' = protocol /\ attempt' = attempt /\ pending' = 0
        /\ frames < MaxFrames /\ frames' = frames + 1 /\ saw' = consume(c)
        /\ enc' = (IF protocol = "chat" THEN enc ELSE Encode(c)[1])
        /\ out' = Translated(c) /\ said' = said \o PiecesOf(c)
        /\ phase # "succeeded"
    BY DEF Frame, More, Pending
  <1>2. /\ frames \in 0 .. MaxFrames /\ pending \in 0 .. frames /\ protocol \in Protocols
        /\ attempt \in 1 .. MaxAttempts /\ saw \in [choice : BOOLEAN, finish : BOOLEAN]
        /\ enc \in Encoder /\ Placed(protocol, enc) /\ out \in Seq(Event) /\ said \in Seq(Mention)
        /\ phase \in {"streaming", "succeeded", "failed", "cancelled"}
    BY DEF Pending, TypeOK
  <1>3. /\ c.calls \in Seq(Call) /\ c.text \in BOOLEAN /\ c.finish \in Reasons \cup {None}
        /\ c.choices \in 0 .. 2 /\ c.ends \in BOOLEAN
    BY Constants DEF Chunk
  <1>4. said' \in Seq(Mention)
    <2>1. said \o PiecesOf(c) \in Seq(Mention)
      BY <1>2, SaidType
    <2> QED BY <1>1, <2>1
  <1>5. saw' \in [choice : BOOLEAN, finish : BOOLEAN]
    BY <1>1, <1>2, <1>3 DEF consume
  <1>6. frames' \in 0 .. MaxFrames /\ pending' \in 0 .. frames'
    BY <1>1, <1>2, StreamAssumption
  <1>7. CASE protocol = "chat"
    <2>1. enc = Unused /\ \A i \in DOMAIN out : out[i].type \in {"comment", "raw"}
      BY <1>7 DEF Pending, Unfinished, Translating
    <2>2. out' = out \o Raw
      BY <1>1, <1>7 DEF Translated
    <2>3. pending \in Nat
      BY <1>2
    <2>4. /\ out' \in Seq(Event) /\ out' # <<>>
          /\ \A i \in DOMAIN out' : out'[i].type \in {"comment", "raw"}
      BY <1>2, <2>1, <2>2, <2>3, RawIs
    <2>5. enc' = Unused /\ enc' \in Encoder /\ Placed(protocol', enc')
      BY <1>1, <1>2, <1>7, <2>1
    <2>6. TypeOK'
      BY <1>1, <1>2, <1>4, <1>5, <1>6, <2>4, <2>5 DEF TypeOK
    <2>7. Unfinished' /\ DeltasAsReceived'
      BY <1>1, <1>7, <2>4, <2>5 DEF Unfinished, DeltasAsReceived, Translating
    <2> QED BY <1>1, <2>6, <2>7 DEF Pending
  <1>8. CASE protocol # "chat"
    <2>1. Good(enc', out', said')
      <3>1. Running
        BY <1>8, PendingRuns
      <3>2. enc' = Encode(c)[1] /\ out' = Encode(c)[2]
        BY <1>1, <1>8 DEF Translated
      <3> QED BY <1>1, <3>1, <3>2, EncodeKeeps
    <2>2. /\ enc' \in Encoder /\ out' \in Seq(Event) /\ Placed(protocol', enc')
          /\ Answering(protocol', enc', out', said') /\ SameDeltas(enc', out', said')
          /\ FirstFrame(enc', out', said')
      BY <1>1, <2>1 DEF Good, FirstFrame
    <2>3. TypeOK'
      BY <1>1, <1>2, <1>4, <1>5, <1>6, <2>2 DEF TypeOK
    <2>4. Unfinished' /\ DeltasAsReceived'
      BY <1>1, <1>8, <2>2 DEF Unfinished, DeltasAsReceived, Translating
    <2> QED BY <1>1, <2>3, <2>4 DEF Pending
  <1> QED BY <1>7, <1>8

\* Before an answer is finished nothing of it changes but through a chunk.
LEMMA SameAnswerKeeps ==
    ASSUME Pending, UNCHANGED <<protocol, enc, out, said>>, phase' # "succeeded",
           phase' \in {"streaming", "succeeded", "failed", "cancelled"},
           attempt' \in 1 .. MaxAttempts, saw' \in [choice : BOOLEAN, finish : BOOLEAN],
           frames' \in 0 .. MaxFrames, pending' \in 0 .. frames'
    PROVE  Pending'
  <1>1. /\ protocol' = protocol /\ enc' = enc /\ out' = out /\ said' = said
        /\ TypeOK /\ Unfinished /\ DeltasAsReceived /\ phase # "succeeded"
    BY DEF Pending
  <1>2. TypeOK'
    BY <1>1 DEF TypeOK
  <1>3. Unfinished' /\ DeltasAsReceived'
    BY <1>1 DEF Unfinished, DeltasAsReceived, Translating
  <1> QED BY <1>2, <1>3 DEF Pending

\* A frame without data, one that is refused, a bad one, a break or the caller's end.
LEMMA OthersKeep ==
    ASSUME Pending, \/ Comment \/ BadFrame \/ ReadFails \/ ClientGone
                    \/ \E c \in Chunks : FrameRefused(c)
    PROVE  Pending'
  <1>1. /\ protocol \in Protocols /\ attempt \in 1 .. MaxAttempts
        /\ saw \in [choice : BOOLEAN, finish : BOOLEAN]
        /\ frames \in 0 .. MaxFrames /\ pending \in 0 .. frames
        /\ phase # "succeeded" /\ MaxFrames \in Nat /\ MaxAttempts \in Nat
        /\ phase \in {"streaming", "succeeded", "failed", "cancelled"}
    BY StreamAssumption DEF Pending, TypeOK
  <1>2. CASE Comment
    <2>1. /\ UNCHANGED <<protocol, enc, out, said>> /\ phase' = phase /\ attempt' = attempt
          /\ saw' = saw /\ frames < MaxFrames /\ frames' = frames + 1
          /\ pending' \in {pending, pending + 1}
      BY <1>2 DEF Comment, More
    <2>2. frames' \in 0 .. MaxFrames /\ pending' \in 0 .. frames'
      BY <1>1, <2>1
    <2> QED BY <1>1, <2>1, <2>2, SameAnswerKeeps
  <1>3. ASSUME BadFrame \/ \E c \in Chunks : FrameRefused(c) PROVE Pending'
    <2>1. /\ UNCHANGED <<protocol, enc, out, said>> /\ phase' = "failed" /\ attempt' = attempt
          /\ saw' = saw /\ frames < MaxFrames /\ frames' = frames + 1 /\ pending' = pending
      BY <1>3 DEF BadFrame, FrameRefused, More
    <2>2. frames' \in 0 .. MaxFrames /\ pending' \in 0 .. frames'
      BY <1>1, <2>1
    <2> QED BY <1>1, <2>1, <2>2, SameAnswerKeeps
  <1>4. CASE ReadFails
    <2>1. /\ UNCHANGED <<protocol, enc, out, said>> /\ frames' = frames
          /\ phase' \in {phase, "failed"} /\ pending' \in {pending, 0}
          /\ saw' \in {saw, NothingSeen}
          /\ attempt' = attempt \/ (attempt < MaxAttempts /\ attempt' = attempt + 1)
      BY <1>4 DEF ReadFails
    <2>2. saw' \in [choice : BOOLEAN, finish : BOOLEAN]
      <3>1. NothingSeen \in [choice : BOOLEAN, finish : BOOLEAN]
        BY DEF NothingSeen
      <3> QED BY <1>1, <2>1, <3>1
    <2>3. attempt' \in 1 .. MaxAttempts /\ frames' \in 0 .. MaxFrames /\ pending' \in 0 .. frames'
      BY <1>1, <2>1
    <2> QED BY <1>1, <2>1, <2>2, <2>3, SameAnswerKeeps
  <1>5. CASE ClientGone
    <2>1. /\ UNCHANGED <<protocol, enc, out, said>> /\ phase' = "cancelled"
          /\ attempt' = attempt /\ saw' = saw /\ frames' = frames /\ pending' = pending
      BY <1>5 DEF ClientGone
    <2> QED BY <1>1, <2>1, SameAnswerKeeps
  <1> QED BY <1>2, <1>3, <1>4, <1>5

\* A finished answer of a caller who is translated for.
LEMMA FinishedGives ==
    ASSUME Pending, Finished(out'), protocol # "chat", phase' = "succeeded",
           UNCHANGED <<protocol, attempt, saw, pending, enc, frames, said>>
    PROVE  IInv'
  <1>1. /\ protocol' = protocol /\ enc' = enc /\ said' = said /\ attempt' = attempt
        /\ saw' = saw /\ pending' = pending /\ frames' = frames
        /\ TypeOK
    BY DEF Pending
  <1>2. /\ out' \in Seq(Event) /\ out' # <<>> /\ out'[Len(out')].type = "end"
        /\ out'[Len(out')].what \in {"incomplete", "max_tokens"} <=> enc.finish = "length"
        /\ \A i \in DOMAIN out' : out'[i].type = "end" => i = Len(out')
        /\ SameDeltas(enc, out', said)
        /\ protocol = "anthropic" => /\ StartsOnce(enc, out') /\ Alternate(enc, out', TRUE)
                                     /\ OpenUnlessReturns(out', said)
        /\ protocol = "responses" => Completed(enc, out')
    BY DEF Finished
  <1>3. TypeOK'
    BY <1>1, <1>2 DEF TypeOK
  <1>4. BlocksAlternate'
    <2>1. (phase = "succeeded")' = TRUE
      OBVIOUS
    <2> QED BY <1>1, <1>2, <2>1 DEF BlocksAlternate
  <1>5. OpenUnlessUpstreamReturns' /\ ItemsCompleted'
    BY <1>1, <1>2 DEF OpenUnlessUpstreamReturns, ItemsCompleted
  <1>6. Unfinished' /\ DeltasAsReceived'
    BY <1>1, <1>2 DEF Unfinished, DeltasAsReceived, Translating
  <1>7. EndTellsTheTruth'
    BY <1>1, <1>2 DEF EndTellsTheTruth, Translating
  <1> QED BY <1>3, <1>4, <1>5, <1>6, <1>7 DEF IInv, StreamInv

\* The upstream's end.
LEMMA DoneKeeps ==
    ASSUME Pending, Done
    PROVE  IInv' /\ (phase' # "succeeded" => Pending')
  <1>1. /\ UNCHANGED <<protocol, attempt, saw, pending, enc, frames, said>>
        /\ phase' \in {"succeeded", "failed"}
    BY DEF Done
  <1>2. TypeOK /\ Unfinished /\ protocol \in {"chat", "responses", "anthropic"}
    BY StreamAssumption DEF Pending, TypeOK
  <1>3. CASE phase' = "failed"
    <2>1. out' = out
      BY <1>3 DEF Done
    <2>2. Pending'
      BY <1>1, <1>2, <1>3, <2>1, SameAnswerKeeps DEF TypeOK
    <2> QED BY <2>2, PendingGives, PTL
  <1>4. CASE phase' = "succeeded" /\ protocol = "chat"
    <2>1. out' = out \o Raw
      BY <1>4 DEF Done
    <2>2. /\ enc = Unused /\ \A i \in DOMAIN out : out[i].type \in {"comment", "raw"}
          /\ pending \in Nat /\ out \in Seq(Event)
      BY <1>2, <1>4 DEF Unfinished, Translating, TypeOK
    <2>3. /\ out' \in Seq(Event) /\ out' # <<>>
          /\ \A i \in DOMAIN out' : out'[i].type \in {"comment", "raw"}
      BY <2>1, <2>2, RawIs
    <2>4. TypeOK'
      BY <1>1, <1>2, <1>4, <2>3 DEF TypeOK
    <2>5. Unfinished' /\ DeltasAsReceived'
      BY <1>1, <1>4, <2>2, <2>3 DEF Unfinished, DeltasAsReceived, Translating
    <2>6. BlocksAlternate' /\ OpenUnlessUpstreamReturns' /\ ItemsCompleted'
      BY <1>1, <1>4 DEF BlocksAlternate, OpenUnlessUpstreamReturns, ItemsCompleted
    <2>7. EndTellsTheTruth'
      BY <1>1, <1>4, <2>3 DEF EndTellsTheTruth, Translating
    <2> QED BY <1>4, <2>4, <2>5, <2>6, <2>7 DEF IInv, StreamInv
  <1>5. CASE phase' = "succeeded" /\ protocol # "chat"
    <2>1. /\ enc.finish \in Reasons
          /\ protocol = "responses" => out' = out \o responsesFinish
          /\ protocol = "anthropic" => out' = out \o anthropicFinish
      BY <1>5 DEF Done, FinishOk
    <2>2. Running
      BY <1>5, PendingRuns
    <2>3. Finished(out')
      <3>1. CASE protocol = "responses"
        BY <2>1, <2>2, <3>1, ResponsesFinishes
      <3>2. CASE protocol = "anthropic"
        BY <2>1, <2>2, <3>2, AnthropicFinishes
      <3> QED BY <1>2, <1>5, <3>1, <3>2
    <2> QED BY <1>1, <1>5, <2>3, FinishedGives
  <1> QED BY <1>1, <1>3, <1>4, <1>5

\* Every step keeps the invariant, and before the end of the answer what it follows from.
LEMMA StepKeeps ==
    ASSUME IInv, phase # "succeeded" => Pending, [Next]_vars
    PROVE  IInv' /\ (phase' # "succeeded" => Pending')
  <1>1. CASE UNCHANGED vars
    <2>1. IInv'
      BY <1>1 DEF vars, IInv, StreamInv, TypeOK, Unfinished, BlocksAlternate, ItemsCompleted,
                  OpenUnlessUpstreamReturns, DeltasAsReceived, EndTellsTheTruth, Translating
    <2>2. phase' = phase /\ (Pending => Pending')
      BY <1>1 DEF vars, Pending, TypeOK, Unfinished, DeltasAsReceived, Translating
    <2> QED BY <2>1, <2>2
  <1>2. CASE Next /\ ~ UNCHANGED vars
    <2>1. phase = "streaming"
      BY <1>2 DEF Next, Comment, BadFrame, ReadFails, Done, ClientGone, Ended, Frame,
                  FrameRefused, More
    <2>2. Pending
      BY <2>1
    <2>3. CASE Done
      BY <2>2, <2>3, DoneKeeps
    <2>4. CASE ~ Done
      <3>1. Pending'
        <4>1. CASE \E c \in Chunks : Frame(c)
          BY <2>2, <4>1, FrameKeeps
        <4>2. CASE ~ \E c \in Chunks : Frame(c)
          <5>1. \/ Comment \/ BadFrame \/ ReadFails \/ ClientGone
                \/ \E c \in Chunks : FrameRefused(c)
            BY <1>2, <2>4, <4>2 DEF Next, Ended
          <5> QED BY <2>2, <5>1, OthersKeep
        <4> QED BY <4>1, <4>2
      <3> QED BY <3>1, PendingGives, PTL
    <2> QED BY <2>3, <2>4
  <1> QED BY <1>1, <1>2

\* Only a break of the upstream before the first byte begins another attempt.
LEMMA RetryKeeps ==
    ASSUME phase # "succeeded" => Pending, [Next]_vars
    PROVE  [attempt' # attempt => out = <<>> /\ enc = Unused /\ said = <<>>]_vars
  <1> SUFFICES ASSUME attempt' # attempt PROVE out = <<>> /\ enc = Unused /\ said = <<>>
    OBVIOUS
  <1>1. ReadFails
    BY DEF Next, vars, Comment, BadFrame, Done, ClientGone, Ended, Frame, FrameRefused, More
  <1>2. phase = "streaming" /\ out = <<>>
    BY <1>1 DEF ReadFails, Committed
  <1>3. Unfinished
    BY <1>2 DEF Pending
  <1>4. CASE Translating
    <2>1. FirstFrame(enc, out, said)
      BY <1>2, <1>3, <1>4 DEF Unfinished
    <2> QED BY <1>2, <2>1 DEF FirstFrame
  <1>5. CASE ~ Translating
    BY <1>2, <1>3, <1>5 DEF Unfinished
  <1> QED BY <1>4, <1>5

\* The inductive invariant: that of the answer and, before its end, Pending.
THEOREM StreamInductive == Spec => [](IInv /\ (phase # "succeeded" => Pending))
  <1>1. Init => IInv /\ (phase # "succeeded" => Pending)
    BY InitPending, PendingGives
  <1>2. IInv /\ (phase # "succeeded" => Pending) /\ [Next]_vars
        => IInv' /\ (phase # "succeeded" => Pending)'
    BY StepKeeps
  <1> QED BY <1>1, <1>2, PTL DEF Spec

\* The events that a caller of the messages or the responses API receives are well formed
\* and in that API's order, at every moment and however the stream ends (Encode and Finish
\* of anthropicStreamEncoder and responsesStreamEncoder).
THEOREM StreamWellFormed == Spec => []StreamInv
  <1>1. IInv => StreamInv
    BY DEF IInv
  <1> QED BY <1>1, StreamInductive, PTL

\* Every piece of text and arguments reaches the caller once, in order and at the place of
\* its part (Encode).
THEOREM StreamFaithful == Spec => []DeltasAsReceived
  <1>1. IInv => DeltasAsReceived
    BY DEF IInv
  <1> QED BY <1>1, StreamInductive, PTL

\* An answer ends once, as its last event, with the outcome that the upstream gave
\* (Finish; [DONE] in performStreamingAttempt).
THEOREM StreamEnds == Spec => []EndTellsTheTruth
  <1>1. IInv => EndTellsTheTruth
    BY DEF IInv
  <1> QED BY <1>1, StreamInductive, PTL

\* An attempt begins with an encoder as new as the first one's (serveStreaming).
THEOREM StreamRetries == Spec => RetryIsFresh
  <1>1. IInv /\ (phase # "succeeded" => Pending) /\ [Next]_vars
        => [attempt' # attempt => out = <<>> /\ enc = Unused /\ said = <<>>]_vars
    BY RetryKeeps
  <1> QED BY <1>1, StreamInductive, PTL DEF Spec, RetryIsFresh
=============================================================================
