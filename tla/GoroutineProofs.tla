---------------------------- MODULE GoroutineProofs ----------------------------
(***************************************************************************)
(* What both variants of the program rest on: how sequences change when a  *)
(* line goes from one place to another, and what the steps of the workers  *)
(* and of the primaries, which the variants share, do to the types and to  *)
(* the places.                                                             *)
(***************************************************************************)
EXTENDS Places, RateLogger, SequenceTheorems, TLAPS

-----------------------------------------------------------------------------
(* What the channels and the arrays of the goroutines do to their members. *)
LEMMA RangeAppend ==
    ASSUME NEW S, NEW s \in Seq(S), NEW e \in S
    PROVE  Range(Append(s, e)) = Range(s) \cup {e}
<1>1. <<e>> \in Seq(S) /\ Range(<<e>>) = {e}
  <2>1. <<e>> \in Seq(S) /\ Len(<<e>>) = 1 /\ <<e>>[1] = e
    OBVIOUS
  <2>2. Range(<<e>>) = {<<e>>[k] : k \in 1..Len(<<e>>)}
    BY <2>1, RangeEquality
  <2>3. 1..1 = {1}
    OBVIOUS
  <2> QED BY <2>1, <2>2, <2>3
<1>2. Append(s, e) = s \o <<e>>
  BY AppendIsConcat
<1>3. ASSUME NEW t \in Seq(S)
      PROVE  Range(s \o t) = Range(s) \cup Range(t)
  BY RangeConcatenation
<1> QED BY <1>1, <1>2, <1>3

LEMMA RangeTail ==
    ASSUME NEW S, NEW s \in Seq(S), s # <<>>
    PROVE  Range(s) = {Head(s)} \cup Range(Tail(s))
<1>1. /\ Tail(s) \in Seq(S) /\ Len(Tail(s)) = Len(s) - 1
      /\ Head(s) = s[1]
      /\ \A k \in 1..Len(Tail(s)) : Tail(s)[k] = s[k + 1]
      /\ Len(s) \in Nat \ {0}
  OBVIOUS
<1>2. Range(s) = {s[k] : k \in 1..Len(s)}
  BY RangeEquality
<1>3. Range(Tail(s)) = {Tail(s)[k] : k \in 1..Len(Tail(s))}
  BY <1>1, RangeEquality
<1>4. ASSUME NEW x \in Range(s) PROVE x = Head(s) \/ x \in Range(Tail(s))
  <2>1. PICK k \in 1..Len(s) : x = s[k]
    BY <1>2
  <2>2. CASE k = 1
    BY <1>1, <2>1, <2>2
  <2>3. CASE k # 1
    <3>1. k - 1 \in 1..Len(Tail(s)) /\ Tail(s)[k - 1] = s[k]
      BY <1>1, <2>3
    <3> QED BY <1>3, <2>1, <3>1
  <2> QED BY <2>2, <2>3
<1>5. Head(s) \in Range(s)
  BY <1>1, <1>2
<1>6. ASSUME NEW x \in Range(Tail(s)) PROVE x \in Range(s)
  <2>1. PICK k \in 1..Len(Tail(s)) : x = Tail(s)[k]
    BY <1>3
  <2>2. k + 1 \in 1..Len(s) /\ x = s[k + 1]
    BY <1>1, <2>1
  <2> QED BY <1>2, <2>2
<1> QED BY <1>4, <1>5, <1>6

LEMMA RangeUpdate ==
    ASSUME NEW D, NEW S, NEW f \in [D -> S], NEW a \in D, NEW e
    PROVE  /\ e \in Range([f EXCEPT ![a] = e])
           /\ Range(f) \subseteq Range([f EXCEPT ![a] = e]) \cup {f[a]}
BY DEF Range

LEMMA RangeReplaced ==
    ASSUME NEW D, NEW S, NEW f \in [D -> S], NEW a \in D, NEW e
    PROVE  Range([f EXCEPT ![a] = e]) \subseteq Range(f) \cup {e}
BY DEF Range

-----------------------------------------------------------------------------
(* Apart, by the positions of sequences.                                   *)
ApartAt(P, C) ==
    \A x \in P : \A j \in 1..Len(C[x]) :
        \A y \in P : \A k \in 1..Len(C[y]) :
            C[x][j] = C[y][k] => x = y /\ j = k

LEMMA ApartPositions ==
    ASSUME NEW P, NEW C \in [P -> Seq(Line)]
    PROVE  Apart(C) <=> ApartAt(P, C)
<1>1. DOMAIN C = P /\ \A x \in P : DOMAIN C[x] = 1..Len(C[x])
  OBVIOUS
<1> QED BY <1>1 DEF Apart, ApartAt

LEMMA LineRange ==
    ASSUME NEW s \in Seq(Line), NEW t \in Seq(Line)
    PROVE  /\ Range(s \o t) = Range(s) \cup Range(t)
           /\ Range(s) = {s[k] : k \in 1..Len(s)}
           /\ Range(s) \subseteq Line
           /\ Range(<<>>) = {}
<1>1. Range(s \o t) = Range(s) \cup Range(t)
  BY RangeConcatenation
<1>2. Range(s) = {s[k] : k \in 1..Len(s)}
  BY RangeEquality
<1>3. Range(s) \subseteq Line /\ Range(<<>>) = {}
  BY DEF Range
<1> QED BY <1>1, <1>2, <1>3

(* The places but a and b hold the same in C and in D.                     *)
SameBut(P, C, D, a, b) == \A x \in P \ {a, b} : D[x] = C[x]

(* The first lines of a place go to the end of another one.  In the new    *)
(* places D each line was at a spot of its own in the old ones, C.         *)
LEMMA PassedOnApart ==
    ASSUME NEW P, NEW C \in [P -> Seq(Line)], NEW D \in [P -> Seq(Line)],
           NEW a \in P, NEW b \in P, a # b, SameBut(P, C, D, a, b),
           NEW m \in Seq(Line), C[a] = m \o D[a], D[b] = C[b] \o m,
           Apart(C)
    PROVE  Apart(D)
<1> DEFINE From(x, j, u, v) ==
              \/ x = a /\ u = a /\ v = j + Len(m)
              \/ x = b /\ j > Len(C[b]) /\ u = a /\ v = j - Len(C[b])
              \/ x # a /\ (x = b => j <= Len(C[b])) /\ u = x /\ v = j
<1>a. ApartAt(P, C)
  BY ApartPositions
<1>1. \A x \in P : Len(C[x]) \in Nat /\ Len(D[x]) \in Nat
  OBVIOUS
<1>2. /\ Len(m) \in Nat
      /\ Len(C[a]) = Len(m) + Len(D[a])
      /\ \A j \in 1..Len(D[a]) : D[a][j] = C[a][j + Len(m)]
      /\ \A j \in 1..Len(m) : m[j] = C[a][j]
  <2>1. \A j \in 1..(Len(m) + Len(D[a])) :
            C[a][j] = IF j <= Len(m) THEN m[j] ELSE D[a][j - Len(m)]
    BY ConcatProperties
  <2>2. Len(m) \in Nat /\ Len(C[a]) = Len(m) + Len(D[a])
    BY ConcatProperties
  <2>3. ASSUME NEW j \in 1..Len(D[a]) PROVE D[a][j] = C[a][j + Len(m)]
    <3>1. /\ j + Len(m) \in 1..(Len(m) + Len(D[a]))
          /\ ~(j + Len(m) <= Len(m)) /\ (j + Len(m)) - Len(m) = j
      BY <1>1, <2>2
    <3> QED BY <2>1, <3>1
  <2>4. ASSUME NEW j \in 1..Len(m) PROVE m[j] = C[a][j]
    <3>1. j \in 1..(Len(m) + Len(D[a])) /\ j <= Len(m)
      BY <1>1, <2>2
    <3> QED BY <2>1, <3>1
  <2> QED BY <2>2, <2>3, <2>4
<1>3. /\ Len(D[b]) = Len(C[b]) + Len(m)
      /\ \A j \in 1..(Len(C[b]) + Len(m)) :
            D[b][j] = IF j <= Len(C[b]) THEN C[b][j] ELSE m[j - Len(C[b])]
  BY ConcatProperties
<1>4. ASSUME NEW x \in P, NEW j \in 1..Len(D[x])
      PROVE  \E u \in P : \E v \in 1..Len(C[u]) :
                 D[x][j] = C[u][v] /\ From(x, j, u, v)
  <2>1. CASE x = a
    <3>1. j + Len(m) \in 1..Len(C[a]) /\ D[a][j] = C[a][j + Len(m)]
      BY <1>1, <1>2, <1>4, <2>1
    <3> QED BY <2>1, <3>1
  <2>2. CASE x = b /\ j > Len(C[b])
    <3>1. /\ j - Len(C[b]) \in 1..Len(m)
          /\ j - Len(C[b]) \in 1..Len(C[a])
          /\ D[b][j] = m[j - Len(C[b])]
      BY <1>1, <1>2, <1>3, <2>2
    <3>2. D[b][j] = C[a][j - Len(C[b])]
      BY <1>2, <3>1
    <3> QED BY <2>2, <3>1, <3>2
  <2>3. CASE x = b /\ ~(j > Len(C[b]))
    <3>1. j \in 1..Len(C[b]) /\ j <= Len(C[b]) /\ D[b][j] = C[b][j]
      BY <1>1, <1>2, <1>3, <1>4, <2>3
    <3> QED BY <2>3, <3>1
  <2>4. CASE x \notin {a, b}
    BY <2>4 DEF SameBut
  <2> QED BY <2>1, <2>2, <2>3, <2>4
<1>5. ASSUME NEW x \in P, NEW j \in 1..Len(D[x]),
             NEW y \in P, NEW k \in 1..Len(D[y]), D[x][j] = D[y][k]
      PROVE  x = y /\ j = k
  <2>1. PICK u \in P : \E v \in 1..Len(C[u]) :
            D[x][j] = C[u][v] /\ From(x, j, u, v)
    BY <1>4
  <2>2. PICK v \in 1..Len(C[u]) : D[x][j] = C[u][v] /\ From(x, j, u, v)
    BY <2>1
  <2>3. PICK s \in P : \E t \in 1..Len(C[s]) :
            D[y][k] = C[s][t] /\ From(y, k, s, t)
    BY <1>4
  <2>4. PICK t \in 1..Len(C[s]) : D[y][k] = C[s][t] /\ From(y, k, s, t)
    BY <2>3
  <2>5. C[u][v] = C[s][t]
    BY <1>5, <2>2, <2>4
  <2>6. u = s /\ v = t
    <3>1. \A y0 \in P : \A k0 \in 1..Len(C[y0]) :
              C[u][v] = C[y0][k0] => u = y0 /\ v = k0
      BY <1>a DEF ApartAt
    <3> QED BY <2>5, <3>1
  <2>7. (a = u /\ x = a) => v > Len(m)
    BY <1>1, <1>2, <2>2
  <2>8. (a = u /\ x = b) => v <= Len(m)
    BY <1>1, <1>2, <1>3, <2>2
  <2>9. (a = s /\ y = a) => t > Len(m)
    BY <1>1, <1>2, <2>4
  <2>10. (a = s /\ y = b) => t <= Len(m)
    BY <1>1, <1>2, <1>3, <2>4
  <2>11. CASE u = a
    <3>1. x \in {a, b} /\ y \in {a, b}
      BY <2>2, <2>4, <2>6, <2>11
    <3>2. v > Len(m) <=> ~(v <= Len(m))
      <4>1. \A p \in Nat, q \in Nat : p > q <=> ~(p <= q)
        OBVIOUS
      <4>2. v \in Nat /\ Len(m) \in Nat
        BY <1>1
      <4> QED BY <4>1, <4>2
    <3>3. x = y
      BY <2>6, <2>7, <2>8, <2>9, <2>10, <2>11, <3>1, <3>2
    <3>4. CASE x = a
      <4>1. v = j + Len(m) /\ v = k + Len(m)
        BY <1>1, <2>2, <2>4, <2>6, <3>3, <3>4
      <4>2. Len(m) \in Nat /\ j \in Nat /\ k \in Nat
        BY <1>1, <1>5
      <4> QED BY <3>3, <4>1, <4>2
    <3>5. CASE x = b
      <4>1. v = j - Len(C[b]) /\ v = k - Len(C[b])
        BY <1>1, <2>2, <2>4, <2>6, <2>11, <3>3, <3>5
      <4>2. Len(C[b]) \in Nat /\ j \in Int /\ k \in Int
        BY <1>1, <1>5
      <4> QED BY <3>3, <4>1, <4>2
    <3> QED BY <3>1, <3>4, <3>5
  <2>12. CASE u # a
    BY <2>2, <2>4, <2>6, <2>12
  <2> QED BY <2>11, <2>12
<1>6. ApartAt(P, D)
  BY <1>5 DEF ApartAt
<1> QED BY <1>6, ApartPositions

(* Places lose the first lines they hold, or all of them.                  *)
LEMMA DroppedApart ==
    ASSUME NEW P, NEW C \in [P -> Seq(Line)], NEW D \in [P -> Seq(Line)],
           \A x \in P : \E m \in Seq(Line) : C[x] = m \o D[x],
           Apart(C)
    PROVE  Apart(D)
<1>1. ApartAt(P, C)
  BY ApartPositions
<1>2. ASSUME NEW x \in P
      PROVE  \E n \in Nat : \A j \in 1..Len(D[x]) :
                 j + n \in 1..Len(C[x]) /\ D[x][j] = C[x][j + n]
  <2>1. PICK m \in Seq(Line) : C[x] = m \o D[x]
    OBVIOUS
  <2>2. /\ Len(m) \in Nat /\ Len(D[x]) \in Nat
        /\ Len(C[x]) = Len(m) + Len(D[x])
        /\ \A j \in 1..(Len(m) + Len(D[x])) :
              C[x][j] = IF j <= Len(m) THEN m[j] ELSE D[x][j - Len(m)]
    BY <2>1, ConcatProperties
  <2>3. ASSUME NEW j \in 1..Len(D[x])
        PROVE  j + Len(m) \in 1..Len(C[x]) /\ D[x][j] = C[x][j + Len(m)]
    <3>1. /\ j + Len(m) \in 1..(Len(m) + Len(D[x]))
          /\ ~(j + Len(m) <= Len(m)) /\ (j + Len(m)) - Len(m) = j
      BY <2>2
    <3> QED BY <2>2, <3>1
  <2> QED BY <2>2, <2>3
<1>3. ASSUME NEW x \in P, NEW j \in 1..Len(D[x]),
             NEW y \in P, NEW k \in 1..Len(D[y]), D[x][j] = D[y][k]
      PROVE  x = y /\ j = k
  <2>1. PICK n \in Nat : \A h \in 1..Len(D[x]) :
            h + n \in 1..Len(C[x]) /\ D[x][h] = C[x][h + n]
    BY <1>2
  <2>2. PICK o \in Nat : \A h \in 1..Len(D[y]) :
            h + o \in 1..Len(C[y]) /\ D[y][h] = C[y][h + o]
    BY <1>2
  <2>3. x = y
    BY <1>1, <1>3, <2>1, <2>2 DEF ApartAt
  <2>4. /\ j + n \in 1..Len(C[x]) /\ k + n \in 1..Len(C[x])
        /\ C[x][j + n] = C[x][k + n]
    BY <1>3, <2>1, <2>3
  <2>5. j + n = k + n
    BY <1>1, <2>4 DEF ApartAt
  <2> QED BY <2>3, <2>5
<1>4. ApartAt(P, D)
  BY <1>3 DEF ApartAt
<1> QED BY <1>4, ApartPositions

(* A line that is nowhere comes to the end of a place.                     *)
LEMMA AddedApart ==
    ASSUME NEW P, NEW C \in [P -> Seq(Line)], NEW D \in [P -> Seq(Line)],
           NEW a \in P, SameBut(P, C, D, a, a), NEW l \in Line,
           \A x \in P : l \notin Range(C[x]), D[a] = Append(C[a], l),
           Apart(C)
    PROVE  Apart(D)
<1>1. ApartAt(P, C)
  BY ApartPositions
<1>2. /\ Len(C[a]) \in Nat /\ Len(D[a]) = Len(C[a]) + 1
      /\ \A j \in 1..Len(C[a]) : D[a][j] = C[a][j]
      /\ D[a][Len(C[a]) + 1] = l
  OBVIOUS
<1>3. ASSUME NEW x \in P, NEW j \in 1..Len(D[x])
      PROVE  \/ x = a /\ j = Len(C[a]) + 1 /\ D[x][j] = l
             \/ j \in 1..Len(C[x]) /\ D[x][j] = C[x][j] /\ D[x][j] # l
  <2>1. \A k \in 1..Len(C[x]) : C[x][k] # l
    BY LineRange
  <2>2. CASE x = a
    <3>1. j \in 1..Len(C[a]) \/ j = Len(C[a]) + 1
      BY <1>2, <1>3, <2>2
    <3>2. CASE j \in 1..Len(C[a])
      <4>1. D[x][j] = C[x][j] /\ C[x][j] # l
        BY <1>2, <2>1, <2>2, <3>2
      <4> QED BY <2>2, <3>2, <4>1
    <3>3. CASE j = Len(C[a]) + 1
      BY <1>2, <2>2, <3>3
    <3> QED BY <3>1, <3>2, <3>3
  <2>3. CASE x # a
    BY <2>1, <2>3 DEF SameBut
  <2> QED BY <2>2, <2>3
<1>4. ApartAt(P, D)
  BY <1>1, <1>3 DEF ApartAt
<1> QED BY <1>4, ApartPositions

-----------------------------------------------------------------------------
(* Every line is in one place, only bulks hold what Elasticsearch has, and *)
(* everything has been read.                                               *)
Once(C, docs, seen) ==
    /\ Apart(C)
    /\ DocsOnlyInBulks(C, docs)
    /\ Contents(C) \cup docs \subseteq seen

(* The ways in which the places change: a place that is no bulk passes its *)
(* first lines on, a line is read, a bulk is sent.                         *)
Passed(P, C, D) ==
    \E a, b \in P : \E m \in Seq(Line) :
        /\ a # b /\ a[1] # "bulk" /\ SameBut(P, C, D, a, b)
        /\ C[a] = m \o D[a] /\ D[b] = C[b] \o m

Read(P, C, D, l) ==
    \E a \in P : a[1] # "bulk" /\ SameBut(P, C, D, a, a) /\ D[a] = Append(C[a], l)

Sent(P, C, D) ==
    \E a \in P :
        /\ a[1] = "bulk" /\ SameBut(P, C, D, a, a) /\ D[a] \in {C[a], <<>>}
        /\ esDocs \subseteq esDocs' /\ esDocs' \subseteq esDocs \cup Range(C[a])
        /\ refused \subseteq refused'
        /\ refused' \subseteq refused \cup Range(C[a])
        /\ Range(C[a]) \subseteq Range(D[a]) \cup esDocs' \cup refused'
        /\ Refusable = {} => refused' = refused

LEMMA ContentsMembers ==
    ASSUME NEW P, NEW C \in [P -> Seq(Line)], NEW l
    PROVE  l \in Contents(C) <=> \E x \in P : l \in Range(C[x])
<1>1. DOMAIN C = P
  OBVIOUS
<1> QED BY <1>1 DEF Contents

LEMMA DocsPlaces ==
    ASSUME NEW P, NEW C \in [P -> Seq(Line)], NEW docs
    PROVE  DocsOnlyInBulks(C, docs) <=>
             \A x \in P : x[1] # "bulk" => Range(C[x]) \cap docs = {}
<1>1. DOMAIN C = P
  OBVIOUS
<1> QED BY <1>1 DEF DocsOnlyInBulks

LEMMA PassedContents ==
    ASSUME NEW P, NEW C \in [P -> Seq(Line)], NEW D \in [P -> Seq(Line)],
           Passed(P, C, D)
    PROVE  Contents(D) = Contents(C)
<1>1. PICK a \in P, b \in P : \E m \in Seq(Line) :
         /\ a # b /\ SameBut(P, C, D, a, b)
         /\ C[a] = m \o D[a] /\ D[b] = C[b] \o m
  BY DEF Passed
<1>2. PICK m \in Seq(Line) : C[a] = m \o D[a] /\ D[b] = C[b] \o m
  BY <1>1
<1>3. /\ Range(C[a]) = Range(m) \cup Range(D[a])
      /\ Range(D[b]) = Range(C[b]) \cup Range(m)
  BY <1>2, LineRange
<1>4. ASSUME NEW l PROVE l \in Contents(D) <=> l \in Contents(C)
  <2>1. (\E x \in P : l \in Range(D[x])) <=> (\E x \in P : l \in Range(C[x]))
    BY <1>1, <1>3 DEF SameBut
  <2> QED BY <2>1, ContentsMembers
<1> QED BY <1>4

LEMMA PassedOnce ==
    ASSUME NEW P, NEW C \in [P -> Seq(Line)], NEW D \in [P -> Seq(Line)],
           NEW docs, NEW seen, Passed(P, C, D), Once(C, docs, seen)
    PROVE  Once(D, docs, seen)
<1>1. PICK a \in P, b \in P : \E m \in Seq(Line) :
         /\ a # b /\ a[1] # "bulk" /\ SameBut(P, C, D, a, b)
         /\ C[a] = m \o D[a] /\ D[b] = C[b] \o m
  BY DEF Passed
<1>2. PICK m \in Seq(Line) : C[a] = m \o D[a] /\ D[b] = C[b] \o m
  BY <1>1
<1>3. Apart(D)
  BY <1>1, <1>2, PassedOnApart DEF Once
<1>4. /\ Range(C[a]) = Range(m) \cup Range(D[a])
      /\ Range(D[b]) = Range(C[b]) \cup Range(m)
  BY <1>2, LineRange
<1>5. \A x \in P : x[1] # "bulk" => Range(C[x]) \cap docs = {}
  BY DocsPlaces DEF Once
<1>6. \A x \in P : x[1] # "bulk" => Range(D[x]) \cap docs = {}
  BY <1>1, <1>4, <1>5 DEF SameBut
<1>7. DocsOnlyInBulks(D, docs)
  BY <1>6, DocsPlaces
<1>8. Contents(D) = Contents(C)
  BY PassedContents
<1> QED BY <1>3, <1>7, <1>8 DEF Once

LEMMA ReadContents ==
    ASSUME NEW P, NEW C \in [P -> Seq(Line)], NEW D \in [P -> Seq(Line)],
           NEW l \in Line, Read(P, C, D, l)
    PROVE  Contents(D) = Contents(C) \cup {l}
<1>1. PICK a \in P : SameBut(P, C, D, a, a) /\ D[a] = Append(C[a], l)
  BY DEF Read
<1>2. Range(D[a]) = Range(C[a]) \cup {l}
  BY <1>1, RangeAppend
<1>3. ASSUME NEW k PROVE k \in Contents(D) <=> k \in Contents(C) \cup {l}
  <2>1. (\E x \in P : k \in Range(D[x])) <=>
            (\E x \in P : k \in Range(C[x])) \/ k = l
    BY <1>1, <1>2 DEF SameBut
  <2> QED BY <2>1, ContentsMembers
<1> QED BY <1>3

LEMMA ReadOnce ==
    ASSUME NEW P, NEW C \in [P -> Seq(Line)], NEW D \in [P -> Seq(Line)],
           NEW docs, NEW seen, NEW l \in Line, l \notin seen,
           Read(P, C, D, l), Once(C, docs, seen)
    PROVE  Once(D, docs, seen \cup {l})
<1>1. PICK a \in P : /\ a[1] # "bulk" /\ SameBut(P, C, D, a, a)
                     /\ D[a] = Append(C[a], l)
  BY DEF Read
<1>2. \A x \in P : l \notin Range(C[x])
  BY ContentsMembers DEF Once
<1>3. Apart(D)
  BY <1>1, <1>2, AddedApart DEF Once
<1>4. Range(D[a]) = Range(C[a]) \cup {l}
  BY <1>1, RangeAppend
<1>5. \A x \in P : x[1] # "bulk" => Range(C[x]) \cap docs = {}
  BY DocsPlaces DEF Once
<1>6. \A x \in P : x[1] # "bulk" => Range(D[x]) \cap docs = {}
  BY <1>1, <1>4, <1>5 DEF SameBut, Once
<1>7. DocsOnlyInBulks(D, docs)
  BY <1>6, DocsPlaces
<1>8. ASSUME NEW k \in Contents(D) PROVE k \in seen \cup {l}
  <2>1. PICK x \in P : k \in Range(D[x])
    BY <1>8, ContentsMembers
  <2>2. k = l \/ k \in Range(C[x])
    BY <1>1, <1>4, <2>1 DEF SameBut
  <2>3. Contents(C) \subseteq seen
    BY DEF Once
  <2> QED BY <2>2, <2>3, ContentsMembers
<1> QED BY <1>3, <1>7, <1>8 DEF Once

LEMMA DroppedOnce ==
    ASSUME NEW P, NEW C \in [P -> Seq(Line)], NEW D \in [P -> Seq(Line)],
           NEW docs, NEW seen, Once(C, docs, seen),
           \A x \in P : \E m \in Seq(Line) : C[x] = m \o D[x]
    PROVE  Once(D, docs, seen) /\ Contents(D) \subseteq Contents(C)
<1>1. Apart(D)
  BY DroppedApart DEF Once
<1>2. ASSUME NEW x \in P PROVE Range(D[x]) \subseteq Range(C[x])
  <2>1. PICK m \in Seq(Line) : C[x] = m \o D[x]
    OBVIOUS
  <2> QED BY <2>1, LineRange
<1>3. \A x \in P : x[1] # "bulk" => Range(C[x]) \cap docs = {}
  BY DocsPlaces DEF Once
<1>4. \A x \in P : x[1] # "bulk" => Range(D[x]) \cap docs = {}
  BY <1>2, <1>3
<1>5. DocsOnlyInBulks(D, docs)
  BY <1>4, DocsPlaces
<1>6. ASSUME NEW l \in Contents(D) PROVE l \in Contents(C)
  BY <1>2, ContentsMembers
<1> QED BY <1>1, <1>5, <1>6 DEF Once

LEMMA SentOnce ==
    ASSUME NEW P, NEW C \in [P -> Seq(Line)], NEW D \in [P -> Seq(Line)],
           NEW seen, Sent(P, C, D), Once(C, esDocs, seen)
    PROVE  Once(D, esDocs', seen)
<1>1. PICK a \in P :
         /\ a[1] = "bulk" /\ SameBut(P, C, D, a, a) /\ D[a] \in {C[a], <<>>}
         /\ esDocs' \subseteq esDocs \cup Range(C[a])
  BY DEF Sent
<1>2. ASSUME NEW x \in P PROVE \E m \in Seq(Line) : C[x] = m \o D[x]
  <2>1. C[x] = <<>> \o C[x] /\ C[x] = C[x] \o <<>>
    BY ConcatEmptySeq
  <2>2. <<>> \in Seq(Line) /\ C[x] \in Seq(Line)
    OBVIOUS
  <2>3. D[x] = C[x] \/ D[x] = <<>>
    BY <1>1 DEF SameBut
  <2>4. CASE D[x] = C[x]
    BY <2>1, <2>2, <2>4
  <2>5. CASE D[x] = <<>>
    BY <2>1, <2>2, <2>5
  <2> QED BY <2>3, <2>4, <2>5
<1>3. Once(D, esDocs, seen) /\ Contents(D) \subseteq Contents(C)
  BY <1>2, DroppedOnce
<1>4. Range(C[a]) \subseteq Contents(C)
  <2>1. \A l \in Range(C[a]) : l \in Contents(C)
    BY ContentsMembers
  <2> QED BY <2>1
<1>5. ASSUME NEW x \in P, x[1] # "bulk"
      PROVE  Range(D[x]) \cap esDocs' = {}
  <2>1. Range(D[x]) \cap esDocs = {}
    BY <1>3, <1>5, DocsPlaces DEF Once
  <2>2. D[x] = C[x] /\ x # a
    BY <1>1, <1>5 DEF SameBut
  <2>3. ASSUME NEW l \in Range(C[x]), l \in Range(C[a]) PROVE FALSE
    <3>1. PICK j \in 1..Len(C[x]) : C[x][j] = l
      <4>1. Range(C[x]) = {C[x][j] : j \in 1..Len(C[x])}
        BY RangeEquality
      <4> QED BY <2>3, <4>1
    <3>2. PICK k \in 1..Len(C[a]) : C[a][k] = l
      BY <2>3, LineRange
    <3>3. ApartAt(P, C)
      BY ApartPositions DEF Once
    <3> QED BY <2>2, <3>1, <3>2, <3>3 DEF ApartAt
  <2> QED BY <1>1, <2>1, <2>2, <2>3
<1>6. DocsOnlyInBulks(D, esDocs')
  BY <1>5, DocsPlaces
<1> QED BY <1>1, <1>3, <1>4, <1>6 DEF Once

LEMMA SentContents ==
    ASSUME NEW P, NEW C \in [P -> Seq(Line)], NEW D \in [P -> Seq(Line)],
           Sent(P, C, D)
    PROVE  /\ Contents(D) \subseteq Contents(C)
           /\ esDocs \subseteq esDocs' /\ esDocs' \subseteq esDocs \cup Contents(C)
           /\ refused \subseteq refused'
           /\ refused' \subseteq refused \cup Contents(C)
           /\ Contents(C) \subseteq Contents(D) \cup esDocs' \cup refused'
           /\ Refusable = {} => refused' = refused
<1>1. PICK a \in P :
        /\ SameBut(P, C, D, a, a) /\ D[a] \in {C[a], <<>>}
        /\ esDocs \subseteq esDocs' /\ esDocs' \subseteq esDocs \cup Range(C[a])
        /\ refused \subseteq refused'
        /\ refused' \subseteq refused \cup Range(C[a])
        /\ Range(C[a]) \subseteq Range(D[a]) \cup esDocs' \cup refused'
        /\ Refusable = {} => refused' = refused
  BY DEF Sent
<1>2. Range(<<>>) = {}
  BY DEF Range
<1>3. Range(C[a]) \subseteq Contents(C)
  <2>1. \A l \in Range(C[a]) : l \in Contents(C)
    BY ContentsMembers
  <2> QED BY <2>1
<1>4. ASSUME NEW l \in Contents(D) PROVE l \in Contents(C)
  <2>1. PICK x \in P : l \in Range(D[x])
    BY <1>4, ContentsMembers
  <2>2. l \in Range(C[x])
    BY <1>1, <1>2, <2>1 DEF SameBut
  <2> QED BY <2>2, ContentsMembers
<1>5. ASSUME NEW l \in Contents(C)
      PROVE  l \in Contents(D) \cup esDocs' \cup refused'
  <2>1. PICK x \in P : l \in Range(C[x])
    BY <1>5, ContentsMembers
  <2>2. l \in Range(D[x]) \/ l \in esDocs' \cup refused'
    BY <1>1, <2>1 DEF SameBut
  <2>3. l \in Range(D[x]) => l \in Contents(D)
    BY ContentsMembers
  <2> QED BY <2>2, <2>3
<1> QED BY <1>1, <1>3, <1>4, <1>5

(* The first line alone is passed on.                                      *)
LEMMA HeadPassed ==
    ASSUME NEW P, NEW C \in [P -> Seq(Line)], NEW D \in [P -> Seq(Line)],
           NEW a \in P, NEW b \in P, a # b, a[1] # "bulk",
           SameBut(P, C, D, a, b), C[a] # <<>>,
           D[a] = Tail(C[a]), D[b] = Append(C[b], Head(C[a]))
    PROVE  Passed(P, C, D)
<1>1. C[a] \in Seq(Line) /\ C[b] \in Seq(Line)
  OBVIOUS
<1>2. Head(C[a]) \in Line /\ <<Head(C[a])>> \in Seq(Line)
  BY <1>1
<1>3. C[a] = <<Head(C[a])>> \o Tail(C[a])
  BY <1>1, <1>2
<1>4. Append(C[b], Head(C[a])) = C[b] \o <<Head(C[a])>>
  BY <1>1, <1>2, AppendIsConcat
<1> QED BY <1>2, <1>3, <1>4 DEF Passed

-----------------------------------------------------------------------------
(* The places of the goroutines that both variants have, now and after a   *)
(* step.                                                                   *)
LEMMA SharedKinds ==
    ASSUME NEW x \in SharedPlaces
    PROVE  \/ x \in {Lines, ParsedLines, BackupLines}
           \/ \E w \in Workers : x = <<"worker", w>>
           \/ \E p \in Primaries : x = <<"divert", p>>
           \/ \E p \in Primaries : x = <<"bulk", p>>
BY DEF SharedPlaces

ByKind ==
    /\ InPlace(Lines) = lines
    /\ InPlace(ParsedLines) = parsedLines
    /\ InPlace(BackupLines) = backupLines
    /\ \A w \in Workers : InPlace(<<"worker", w>>) = Hand(wline[w])
    /\ \A p \in Primaries : /\ InPlace(<<"divert", p>>) = Hand(pline[p])
                            /\ InPlace(<<"bulk", p>>) = actions[p]

LEMMA InPlaceByKind == ByKind /\ ByKind'
BY DEF ByKind, InPlace, Lines, ParsedLines, BackupLines

LEMMA Kinds ==
    /\ Lines # ParsedLines /\ Lines # BackupLines /\ ParsedLines # BackupLines
    /\ \A k \in {"worker", "divert", "bulk"} : \A i :
          /\ Lines # <<k, i>> /\ ParsedLines # <<k, i>> /\ BackupLines # <<k, i>>
          /\ <<k, i>>[1] = k
    /\ Lines[1] # "bulk" /\ ParsedLines[1] # "bulk" /\ BackupLines[1] # "bulk"
    /\ {Lines, ParsedLines, BackupLines} \subseteq SharedPlaces
    /\ \A w \in Workers : <<"worker", w>> \in SharedPlaces
    /\ \A p \in Primaries : /\ <<"divert", p>> \in SharedPlaces
                            /\ <<"bulk", p>> \in SharedPlaces
BY DEF Lines, ParsedLines, BackupLines, SharedPlaces

LEMMA HandOf ==
    /\ Hand(NoLine) = <<>>
    /\ \A l \in Line : /\ Hand(l) = <<l>> /\ Hand(l) # <<>>
                       /\ Head(Hand(l)) = l /\ Tail(Hand(l)) = <<>>
                       /\ Append(Hand(NoLine), l) = Hand(l)
<1>1. \A l \in Line : l # NoLine
  BY ContextAssumption
<1>2. \A l \in Line : /\ <<l>> # <<>> /\ Head(<<l>>) = l /\ Tail(<<l>>) = <<>>
                      /\ Append(<<>>, l) = <<l>>
  OBVIOUS
<1> QED BY <1>1, <1>2 DEF Hand

(* A goroutine holds a line exactly while it is blocked on the channel the *)
(* line is meant for.                                                      *)
HandsFull ==
    /\ \A w \in Workers : wpc[w] = "select" <=> wline[w] = NoLine
    /\ \A p \in Primaries : ppc[p] = "divert" <=> pline[p] # NoLine

(* C and D are the places of a variant before and after a step that leaves *)
(* those of its backup alone.                                              *)
Around(P, C, D) ==
    /\ SharedPlaces \subseteq P
    /\ \A x \in SharedPlaces : C[x] = InPlace(x) /\ D[x] = InPlace(x)'
    /\ \A x \in P \ SharedPlaces : D[x] = C[x]

LEMMA WorkerPasses ==
    ASSUME NEW P, NEW C \in [P -> Seq(Line)], NEW D \in [P -> Seq(Line)],
           Around(P, C, D), ContextTypeOK, WorkerTypeOK, HandsFull,
           NEW w \in Workers, UNCHANGED primaryVars,
           \/ WorkerTake(w) \/ WorkerSendPrimary(w)
           \/ WorkerSendBackup(w) \/ WorkerIdle(w)
    PROVE  Passed(P, C, D) \/ D = C
<1> DEFINE W == <<"worker", w>>
<1>1. W \in SharedPlaces /\ W[1] # "bulk" /\ W \notin {Lines, ParsedLines, BackupLines}
  BY Kinds
<1>2. /\ Lines \in SharedPlaces /\ ParsedLines \in SharedPlaces
      /\ BackupLines \in SharedPlaces /\ SharedPlaces \subseteq P
  BY Kinds DEF Around
<1>3. UNCHANGED <<pline, actions>>
  BY DEF primaryVars
<1>4. \A v \in Workers : v # w => wline'[v] = wline[v]
  BY DEF WorkerTake, WorkerSendPrimary, WorkerSendBackup, WorkerIdle,
         WorkerTypeOK, workerVars
<1>5. \A x \in P \ {Lines, ParsedLines, BackupLines, W} : D[x] = C[x]
  <2> SUFFICES ASSUME NEW x \in SharedPlaces,
                      x \notin {Lines, ParsedLines, BackupLines, W}
               PROVE  InPlace(x)' = InPlace(x)
    BY DEF Around
  <2>1. CASE \E v \in Workers : x = <<"worker", v>>
    <3>1. PICK v \in Workers : x = <<"worker", v>>
      BY <2>1
    <3> QED BY <1>4, <3>1, InPlaceByKind DEF ByKind
  <2>2. CASE \E p \in Primaries : x = <<"divert", p>> \/ x = <<"bulk", p>>
    BY <1>3, <2>2, InPlaceByKind DEF ByKind
  <2> QED BY <2>1, <2>2, SharedKinds
<1> HIDE DEF W
<1>6. /\ C[Lines] = lines /\ D[Lines] = lines'
      /\ C[ParsedLines] = parsedLines /\ D[ParsedLines] = parsedLines'
      /\ C[BackupLines] = backupLines /\ D[BackupLines] = backupLines'
      /\ C[W] = Hand(wline[w]) /\ D[W] = Hand(wline'[w])
  BY <1>1, <1>2, InPlaceByKind DEF Around, ByKind, W
<1>7. CASE WorkerTake(w)
  <2>1. /\ lines # <<>> /\ wline[w] = NoLine /\ wline'[w] = Head(lines)
        /\ Head(lines) \in Line /\ lines' = Tail(lines)
        /\ UNCHANGED <<parsedLines, backupLines>>
    BY <1>7 DEF WorkerTake, HandsFull, WorkerTypeOK, ContextTypeOK
  <2>2. D[W] = Append(C[W], Head(C[Lines]))
    BY <1>6, <2>1, HandOf
  <2>3. SameBut(P, C, D, Lines, W)
    BY <1>5, <1>6, <2>1 DEF SameBut
  <2> QED BY <1>1, <1>2, <1>6, <2>1, <2>2, <2>3, HeadPassed, Kinds
<1>8. CASE WorkerSendPrimary(w)
  <2>1. /\ wline[w] \in Line /\ wline'[w] = NoLine
        /\ parsedLines' = Append(parsedLines, wline[w])
        /\ UNCHANGED <<lines, backupLines>>
    BY <1>8 DEF WorkerSendPrimary, HandsFull, WorkerTypeOK
  <2>2. /\ C[W] # <<>> /\ D[W] = Tail(C[W])
        /\ D[ParsedLines] = Append(C[ParsedLines], Head(C[W]))
    BY <1>6, <2>1, HandOf
  <2>3. SameBut(P, C, D, W, ParsedLines)
    BY <1>5, <1>6, <2>1 DEF SameBut
  <2> QED BY <1>1, <1>2, <2>2, <2>3, HeadPassed
<1>9. CASE WorkerSendBackup(w)
  <2>1. /\ wline[w] \in Line /\ wline'[w] = NoLine
        /\ backupLines' = Append(backupLines, wline[w])
        /\ UNCHANGED <<lines, parsedLines>>
    BY <1>9 DEF WorkerSendBackup, HandsFull, WorkerTypeOK
  <2>2. /\ C[W] # <<>> /\ D[W] = Tail(C[W])
        /\ D[BackupLines] = Append(C[BackupLines], Head(C[W]))
    BY <1>6, <2>1, HandOf
  <2>3. SameBut(P, C, D, W, BackupLines)
    BY <1>5, <1>6, <2>1 DEF SameBut
  <2> QED BY <1>1, <1>2, <2>2, <2>3, HeadPassed
<1>10. CASE WorkerIdle(w)
  <2>1. \A x \in P : D[x] = C[x]
    BY <1>5, <1>6, <1>10 DEF WorkerIdle, workerVars
  <2> QED BY <2>1
<1> QED BY <1>7, <1>8, <1>9, <1>10

LEMMA TailReads ==
    ASSUME NEW P, NEW C \in [P -> Seq(Line)], NEW D \in [P -> Seq(Line)],
           Around(P, C, D), NEW l \in Line, TailRead(l), UNCHANGED primaryVars
    PROVE  Read(P, C, D, l)
<1>1. /\ UNCHANGED <<parsedLines, backupLines, wline, pline, actions>>
      /\ lines' = Append(lines, l)
  BY DEF TailRead, primaryVars
<1>2. Lines \in P /\ C[Lines] = lines /\ D[Lines] = lines'
  BY Kinds, InPlaceByKind DEF Around, ByKind
<1>3. SameBut(P, C, D, Lines, Lines)
  <2> SUFFICES ASSUME NEW x \in SharedPlaces, x # Lines
               PROVE  InPlace(x)' = InPlace(x)
    BY DEF Around, SameBut
  <2>1. CASE x \in {Lines, ParsedLines, BackupLines}
    BY <1>1, <2>1, InPlaceByKind DEF ByKind
  <2>2. CASE x \notin {Lines, ParsedLines, BackupLines}
    BY <1>1, <2>2, SharedKinds, InPlaceByKind DEF ByKind
  <2> QED BY <2>1, <2>2
<1> QED BY <1>1, <1>2, <1>3, Kinds DEF Read

(* What a bulk does that is sent, or tried to be.                          *)
LEMMA BulkSent ==
    ASSUME PrimaryTypeOK, NEW p \in Primaries,
           \/ BulkAccepted(p) \/ BulkFailed(p)
           \/ UNCHANGED <<actions, esDocs, refused>>
    PROVE  /\ \A q \in Primaries : q # p => actions'[q] = actions[q]
           /\ actions'[p] \in {actions[p], <<>>}
           /\ esDocs \subseteq esDocs'
           /\ esDocs' \subseteq esDocs \cup Range(actions[p])
           /\ refused \subseteq refused'
           /\ refused' \subseteq refused \cup Range(actions[p])
           /\ Range(actions[p]) \subseteq
                  Range(actions'[p]) \cup esDocs' \cup refused'
           /\ Refusable = {} => refused' = refused
BY DEF PrimaryTypeOK, BulkAccepted, BulkFailed

LEMMA PrimaryPasses ==
    ASSUME NEW P, NEW C \in [P -> Seq(Line)], NEW D \in [P -> Seq(Line)],
           Around(P, C, D), ContextTypeOK, PrimaryTypeOK, HandsFull,
           NEW p \in Primaries, UNCHANGED workerVars,
           \/ PrimaryAdd(p) \/ PrimaryFlush(p) \/ PrimaryTakeDivert(p)
           \/ PrimaryDivert(p) \/ PrimaryIdle(p)
    PROVE  \/ Passed(P, C, D) /\ UNCHANGED <<esDocs, refused>>
           \/ Sent(P, C, D)
<1> DEFINE B == <<"bulk", p>>
           V == <<"divert", p>>
<1>1. /\ {B, V} \subseteq SharedPlaces /\ B # V
      /\ B \notin {Lines, ParsedLines, BackupLines} /\ B[1] = "bulk"
      /\ V \notin {Lines, ParsedLines, BackupLines} /\ V[1] # "bulk"
  BY Kinds
<1>2. {Lines, ParsedLines, BackupLines} \subseteq SharedPlaces
          /\ SharedPlaces \subseteq P
  BY Kinds DEF Around
<1>3. UNCHANGED <<wline, lines>>
  BY DEF workerVars, PrimaryAdd, PrimaryFlush, PrimaryTakeDivert,
         PrimaryDivert, PrimaryIdle, contextVars
<1>4. \A q \in Primaries :
         q # p => actions'[q] = actions[q] /\ pline'[q] = pline[q]
  BY BulkSent DEF PrimaryAdd, PrimaryFlush, PrimaryTakeDivert, PrimaryDivert,
         PrimaryIdle, PrimaryTypeOK
<1>5. \A x \in P \ {ParsedLines, BackupLines, B, V} : D[x] = C[x]
  <2> SUFFICES ASSUME NEW x \in SharedPlaces,
                      x \notin {ParsedLines, BackupLines, B, V}
               PROVE  InPlace(x)' = InPlace(x)
    BY DEF Around
  <2>1. CASE x = Lines \/ \E w \in Workers : x = <<"worker", w>>
    BY <1>3, <2>1, InPlaceByKind DEF ByKind
  <2>2. CASE \E q \in Primaries : x = <<"divert", q>> \/ x = <<"bulk", q>>
    <3>1. PICK q \in Primaries : x = <<"divert", q>> \/ x = <<"bulk", q>>
      BY <2>2
    <3> QED BY <1>4, <3>1, InPlaceByKind DEF ByKind
  <2> QED BY <2>1, <2>2, SharedKinds
<1> HIDE DEF B, V
<1>6. /\ C[ParsedLines] = parsedLines /\ D[ParsedLines] = parsedLines'
      /\ C[BackupLines] = backupLines /\ D[BackupLines] = backupLines'
      /\ C[B] = actions[p] /\ D[B] = actions'[p]
      /\ C[V] = Hand(pline[p]) /\ D[V] = Hand(pline'[p])
  BY <1>1, <1>2, InPlaceByKind DEF Around, ByKind, B, V
<1>7. CASE PrimaryAdd(p)
  <2>1. /\ parsedLines # <<>> /\ parsedLines' = Tail(parsedLines)
        /\ actions'[p] = Append(actions[p], Head(parsedLines))
        /\ UNCHANGED <<backupLines, pline, esDocs, refused>>
    BY <1>7 DEF PrimaryAdd, PrimaryTypeOK
  <2>2. SameBut(P, C, D, ParsedLines, B)
    BY <1>5, <1>6, <2>1 DEF SameBut
  <2> QED BY <1>1, <1>2, <1>6, <2>1, <2>2, HeadPassed, Kinds
<1>8. CASE PrimaryFlush(p) \/ PrimaryIdle(p)
  <2>1. /\ UNCHANGED <<parsedLines, backupLines, pline>>
        /\ \/ BulkAccepted(p) \/ BulkFailed(p)
           \/ UNCHANGED <<actions, esDocs, refused>>
    BY <1>8 DEF PrimaryFlush, PrimaryIdle, contextVars
  <2>2. SameBut(P, C, D, B, B)
    BY <1>5, <1>6, <2>1 DEF SameBut
  <2>3. B \in P /\ B[1] = "bulk"
    BY <1>1, <1>2
  <2> QED BY <1>6, <2>1, <2>2, <2>3, BulkSent DEF Sent
<1>9. CASE PrimaryTakeDivert(p)
  <2>1. /\ parsedLines # <<>> /\ parsedLines' = Tail(parsedLines)
        /\ pline[p] = NoLine /\ pline'[p] = Head(parsedLines)
        /\ Head(parsedLines) \in Line /\ actions' = actions
        /\ UNCHANGED <<backupLines, esDocs, refused>>
    BY <1>9 DEF PrimaryTakeDivert, PrimaryTypeOK, HandsFull, ContextTypeOK
  <2>2. D[V] = Append(C[V], Head(C[ParsedLines]))
    BY <1>6, <2>1, HandOf
  <2>3. SameBut(P, C, D, ParsedLines, V)
    BY <1>5, <1>6, <2>1 DEF SameBut
  <2> QED BY <1>1, <1>2, <1>6, <2>1, <2>2, <2>3, HeadPassed, Kinds
<1>10. CASE PrimaryDivert(p)
  <2>1. /\ pline[p] \in Line /\ pline'[p] = NoLine /\ actions' = actions
        /\ backupLines' = Append(backupLines, pline[p])
        /\ UNCHANGED <<parsedLines, esDocs, refused>>
    BY <1>10 DEF PrimaryDivert, HandsFull, PrimaryTypeOK
  <2>2. /\ C[V] # <<>> /\ D[V] = Tail(C[V])
        /\ D[BackupLines] = Append(C[BackupLines], Head(C[V]))
    BY <1>6, <2>1, HandOf
  <2>3. SameBut(P, C, D, V, BackupLines)
    BY <1>5, <1>6, <2>1 DEF SameBut
  <2> QED BY <1>1, <1>2, <2>1, <2>2, <2>3, HeadPassed
<1> QED BY <1>7, <1>8, <1>9, <1>10

-----------------------------------------------------------------------------
(* The types of the parts that both variants have.                         *)
SharedTypes == ContextTypeOK /\ WorkerTypeOK /\ PrimaryTypeOK /\ HandsFull

(* Each part keeps its type while the others take a step.                  *)
LEMMA SharedFrames ==
    /\ ContextTypeOK /\ UNCHANGED contextVars => ContextTypeOK'
    /\ WorkerTypeOK /\ UNCHANGED workerVars => WorkerTypeOK'
    /\ PrimaryTypeOK /\ UNCHANGED primaryVars => PrimaryTypeOK'
    /\ LoggerTypeOK /\ UNCHANGED loggerVars => LoggerTypeOK'
    /\ HandsFull /\ UNCHANGED <<workerVars, primaryVars>> => HandsFull'
<1>1. ContextTypeOK /\ UNCHANGED contextVars => ContextTypeOK'
  BY DEF ContextTypeOK, contextVars
<1>2. WorkerTypeOK /\ UNCHANGED workerVars => WorkerTypeOK'
  BY DEF WorkerTypeOK, workerVars
<1>3. PrimaryTypeOK /\ UNCHANGED primaryVars => PrimaryTypeOK'
  BY DEF PrimaryTypeOK, primaryVars
<1>4. LoggerTypeOK /\ UNCHANGED loggerVars => LoggerTypeOK'
  BY DEF LoggerTypeOK, loggerVars
<1>5. HandsFull /\ UNCHANGED <<workerVars, primaryVars>> => HandsFull'
  BY DEF HandsFull, workerVars, primaryVars
<1> QED BY <1>1, <1>2, <1>3, <1>4, <1>5

LEMMA SharedInit ==
    /\ ContextInit /\ WorkerInit /\ PrimaryInit => SharedTypes
    /\ LoggerInit => LoggerTypeOK
<1>1. ASSUME ContextInit, WorkerInit, PrimaryInit PROVE SharedTypes
  <2>1. <<>> \in Seq(Line) /\ Len(<<>>) = 0
    OBVIOUS
  <2>2. 0 <= LinesCap /\ 0 <= Buffer /\ 0 <= BackupCap
    BY ContextAssumption
  <2>3. ContextTypeOK
    BY <1>1, <2>1, <2>2 DEF ContextInit, ContextTypeOK
  <2>4. WorkerTypeOK
    BY <1>1 DEF WorkerInit, WorkerTypeOK
  <2>5. PrimaryTypeOK
    BY <1>1 DEF PrimaryInit, PrimaryTypeOK
  <2>6. HandsFull
    BY <1>1 DEF WorkerInit, PrimaryInit, HandsFull
  <2> QED BY <2>3, <2>4, <2>5, <2>6 DEF SharedTypes
<1>2. LoggerInit => LoggerTypeOK
  BY LoggerAssumption DEF LoggerInit, LoggerTypeOK
<1> QED BY <1>1, <1>2

LEMMA LoggerKeepsTypes ==
    ASSUME LoggerTypeOK,
           \/ LoggerParsedRate \/ LoggerBackupRate \/ LoggerTick
           \/ LoggerNotified
    PROVE  LoggerTypeOK'
<1>1. CASE LoggerParsedRate
  BY <1>1 DEF LoggerParsedRate, LoggerTypeOK, loggerVars
<1>2. CASE LoggerBackupRate
  BY <1>2, LoggerAssumption DEF LoggerBackupRate, LoggerTypeOK
<1>3. CASE LoggerTick
  BY <1>3 DEF LoggerTick, LoggerTypeOK
<1>4. CASE LoggerNotified
  BY <1>4 DEF LoggerNotified, LoggerTypeOK
<1> QED BY <1>1, <1>2, <1>3, <1>4

LEMMA TailKeepsTypes ==
    ASSUME SharedTypes, NEW l \in Line, TailRead(l), UNCHANGED primaryVars
    PROVE  SharedTypes'
<1> USE DEF SharedTypes
<1>1. ContextTypeOK'
  BY ContextAssumption DEF TailRead, ContextTypeOK
<1>2. WorkerTypeOK' /\ HandsFull'
  BY DEF TailRead, WorkerTypeOK, HandsFull, primaryVars
<1> QED BY <1>1, <1>2, SharedFrames

LEMMA WorkerKeepsTypes ==
    ASSUME SharedTypes, NEW w \in Workers, UNCHANGED primaryVars,
           \/ WorkerTake(w) \/ WorkerSendPrimary(w)
           \/ WorkerSendBackup(w) \/ WorkerIdle(w)
    PROVE  SharedTypes'
<1> USE DEF SharedTypes
<1>1. CASE WorkerTake(w)
  <2>1. lines \in Seq(Line) /\ lines # <<>>
    BY <1>1 DEF WorkerTake, ContextTypeOK
  <2>2. /\ Head(lines) \in Line
        /\ Tail(lines) \in Seq(Line)
        /\ Len(Tail(lines)) <= LinesCap
    BY <2>1, ContextAssumption DEF ContextTypeOK
  <2>3. ContextTypeOK'
    BY <1>1, <2>2 DEF WorkerTake, ContextTypeOK
  <2>4. WorkerTypeOK'
    BY <1>1, <2>2 DEF WorkerTake, WorkerTypeOK
  <2>5. HandsFull'
    BY <1>1, <2>2, ContextAssumption
       DEF WorkerTake, WorkerTypeOK, HandsFull, primaryVars
  <2> QED BY <2>3, <2>4, <2>5, SharedFrames
<1>2. CASE WorkerSendPrimary(w)
  <2>1. wline[w] \in Line
    BY <1>2 DEF WorkerSendPrimary, WorkerTypeOK, HandsFull
  <2>2. ContextTypeOK'
    BY <1>2, <2>1, ContextAssumption DEF WorkerSendPrimary, ContextTypeOK
  <2>3. WorkerTypeOK' /\ HandsFull'
    BY <1>2 DEF WorkerSendPrimary, WorkerTypeOK, HandsFull, primaryVars
  <2> QED BY <2>2, <2>3, SharedFrames
<1>3. CASE WorkerSendBackup(w)
  <2>1. wline[w] \in Line
    BY <1>3 DEF WorkerSendBackup, WorkerTypeOK, HandsFull
  <2>2. ContextTypeOK'
    BY <1>3, <2>1, ContextAssumption DEF WorkerSendBackup, ContextTypeOK
  <2>3. WorkerTypeOK' /\ HandsFull'
    BY <1>3 DEF WorkerSendBackup, WorkerTypeOK, HandsFull, primaryVars
  <2> QED BY <2>2, <2>3, SharedFrames
<1>4. CASE WorkerIdle(w)
  BY <1>4, SharedFrames DEF WorkerIdle, ContextTypeOK
<1> QED BY <1>1, <1>2, <1>3, <1>4

LEMMA BulkKeepsTypes ==
    ASSUME PrimaryTypeOK, NEW p \in Primaries, BulkAccepted(p) \/ BulkFailed(p)
    PROVE  /\ actions' \in [Primaries -> Seq(Line)]
           /\ esDocs' \subseteq Line
           /\ refused' \subseteq Line
<1>1. Range(actions[p]) \subseteq Line
  BY DEF PrimaryTypeOK, Range
<1>2. <<>> \in Seq(Line)
  OBVIOUS
<1> QED BY <1>1, <1>2, PrimaryAssumption
        DEF PrimaryTypeOK, BulkAccepted, BulkFailed

LEMMA PrimaryKeepsTypes ==
    ASSUME SharedTypes, NEW p \in Primaries, UNCHANGED workerVars,
           \/ PrimaryAdd(p) \/ PrimaryFlush(p) \/ PrimaryTakeDivert(p)
           \/ PrimaryDivert(p) \/ PrimaryIdle(p)
    PROVE  SharedTypes'
<1> USE DEF SharedTypes
<1>1. ASSUME parsedLines # <<>>
      PROVE  /\ Head(parsedLines) \in Line
             /\ Tail(parsedLines) \in Seq(Line)
             /\ Len(Tail(parsedLines)) <= Buffer
  BY <1>1, ContextAssumption DEF ContextTypeOK
<1>2. CASE PrimaryAdd(p)
  <2>1. ContextTypeOK'
    BY <1>1, <1>2 DEF PrimaryAdd, ContextTypeOK
  <2>2. Append(actions[p], Head(parsedLines)) \in Seq(Line)
    BY <1>1, <1>2 DEF PrimaryAdd, PrimaryTypeOK
  <2>3. PrimaryTypeOK' /\ HandsFull'
    BY <1>2, <2>2 DEF PrimaryAdd, PrimaryTypeOK, HandsFull, workerVars
  <2> QED BY <2>1, <2>3, SharedFrames
<1>3. CASE PrimaryFlush(p)
  <2>1. ContextTypeOK'
    BY <1>3, SharedFrames DEF PrimaryFlush
  <2>2. BulkAccepted(p) \/ BulkFailed(p)
    BY <1>3 DEF PrimaryFlush
  <2>3. PrimaryTypeOK'
    BY <1>3, <2>2, BulkKeepsTypes DEF PrimaryFlush, PrimaryTypeOK
  <2>4. HandsFull'
    BY <1>3 DEF PrimaryFlush, PrimaryTypeOK, HandsFull, workerVars
  <2> QED BY <2>1, <2>3, <2>4, SharedFrames
<1>4. CASE PrimaryTakeDivert(p)
  <2>1. ContextTypeOK'
    BY <1>1, <1>4 DEF PrimaryTakeDivert, ContextTypeOK
  <2>2. PrimaryTypeOK'
    BY <1>1, <1>4 DEF PrimaryTakeDivert, PrimaryTypeOK
  <2>3. HandsFull'
    BY <1>1, <1>4, ContextAssumption
       DEF PrimaryTakeDivert, PrimaryTypeOK, HandsFull, workerVars
  <2> QED BY <2>1, <2>2, <2>3, SharedFrames
<1>5. CASE PrimaryDivert(p)
  <2>1. pline[p] \in Line
    BY <1>5 DEF PrimaryDivert, PrimaryTypeOK, HandsFull
  <2>2. ContextTypeOK'
    BY <1>5, <2>1, ContextAssumption DEF PrimaryDivert, ContextTypeOK
  <2>3. PrimaryTypeOK'
    <3>1. (~cooling[p] /\ esUp) \in BOOLEAN /\ (cooling[p] \/ ~esUp) \in BOOLEAN
      OBVIOUS
    <3> QED BY <1>5, <3>1, Zenon DEF PrimaryDivert, PrimaryTypeOK
  <2>4. HandsFull'
    BY <1>5 DEF PrimaryDivert, PrimaryTypeOK, HandsFull, workerVars
  <2> QED BY <2>2, <2>3, <2>4, SharedFrames
<1>6. CASE PrimaryIdle(p)
  <2>1. ContextTypeOK'
    BY <1>6, SharedFrames DEF PrimaryIdle
  <2>2. /\ actions' \in [Primaries -> Seq(Line)]
        /\ esDocs' \subseteq Line
        /\ refused' \subseteq Line
    BY <1>6, BulkKeepsTypes DEF PrimaryIdle, PrimaryTypeOK
  <2>3. PrimaryTypeOK'
    BY <1>6, <2>2 DEF PrimaryIdle, PrimaryTypeOK
  <2>4. HandsFull'
    BY <1>6 DEF PrimaryIdle, PrimaryTypeOK, HandsFull, workerVars
  <2> QED BY <2>1, <2>3, <2>4, SharedFrames
<1> QED BY <1>2, <1>3, <1>4, <1>5, <1>6

(* Elasticsearch, the clock, and the primary's halves of the exchanges on  *)
(* the unbuffered channels.                                                *)
LEMMA OutsideKeepsTypes ==
    ASSUME SharedTypes, UNCHANGED workerVars,
           EsToggle \/ \E p \in Primaries : CoolDown(p)
    PROVE  SharedTypes'
<1> USE DEF SharedTypes
<1>1. UNCHANGED <<contextVars, ppc, pline>>
  BY DEF EsToggle, CoolDown
<1>2. PrimaryTypeOK'
  BY DEF EsToggle, CoolDown, PrimaryTypeOK
<1>3. HandsFull'
  BY <1>1 DEF HandsFull, workerVars
<1> QED BY <1>1, <1>2, <1>3, SharedFrames

LEMMA NotifiedKeepsTypes ==
    ASSUME SharedTypes, NEW p \in Primaries,
           UNCHANGED <<contextVars, workerVars>>,
           PrimaryNotified(p) \/ PrimaryRated(p)
    PROVE  SharedTypes'
<1> USE DEF SharedTypes
<1>1. PrimaryTypeOK'
  BY DEF PrimaryNotified, PrimaryRated, PrimaryTypeOK
<1>2. HandsFull'
  BY DEF PrimaryNotified, PrimaryRated, PrimaryTypeOK, HandsFull, workerVars
<1> QED BY <1>1, <1>2, SharedFrames
=============================================================================
