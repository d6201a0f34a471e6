--------------------------- MODULE ParseLineProofs ---------------------------
(***************************************************************************)
(* Theorems about ParseLine, for any lines.  The decoder is one function   *)
(* of what it has and the token it scans, After; what a token does to the  *)
(* nesting of activations and skipped brackets is derived from it, for     *)
(* the lines that were cut short.  Then what each encoder writes is read   *)
(* on, token after token and member after member, to the struct that it    *)
(* was written from.                                                       *)
(***************************************************************************)
EXTENDS ParseLine, FiniteSetTheorems, WellFoundedInduction, TLAPS

-----------------------------------------------------------------------------
(* Induction over the numbers, as a statement about sets of numbers.       *)
LEMMA LeastNumber ==
    ASSUME NEW T \in SUBSET Nat, T # {}
    PROVE  \E n \in T : \A m \in T : n <= m
<1> DEFINE R == OpToRel(<, Nat)
<1>1. IsWellFoundedOn(R, Nat)
  BY NatLessThanWellFounded
<1> HIDE DEF R
<1>2. PICK n \in T : \A m \in T : ~ (<<m, n>> \in R)
  BY <1>1, WFMin
<1>3. \A m, k \in Nat : m < k => <<m, k>> \in R
  BY DEF R, OpToRel
<1>4. \A m \in T : ~ (m < n)
  BY <1>2, <1>3
<1>5. \A m \in T : n <= m
  BY <1>4
<1> QED
  BY <1>5

LEMMA AllNumbers ==
    ASSUME NEW T \in SUBSET Nat, 0 \in T,
           \A n \in Nat : n \in T => n + 1 \in T
    PROVE  T = Nat
<1> SUFFICES ASSUME Nat \ T # {}
             PROVE  FALSE
  OBVIOUS
<1>1. PICK n \in Nat \ T : \A m \in Nat \ T : n <= m
  BY LeastNumber
<1>2. n # 0
  OBVIOUS
<1>3. n - 1 \in Nat /\ (n - 1) + 1 = n
  BY <1>2
<1>4. n - 1 \in T
  BY <1>1, <1>3
<1> QED
  BY <1>3, <1>4

-----------------------------------------------------------------------------
(* FlattenSeq is defined by recursion: a function with its equation exists.*)
LEMMA FlatteningExists ==
    ASSUME NEW S, NEW ps \in Seq(Seq(S)), NEW n \in Nat
    PROVE  \E g : g = [i \in 1..n |-> IF i = 1 THEN ps[i]
                                       ELSE g[i - 1] \o ps[i]]
<1> DEFINE Flat(g, m) == g = [i \in 1..m |-> IF i = 1 THEN ps[i]
                                             ELSE g[i - 1] \o ps[i]]
           T == {m \in Nat : \E g : Flat(g, m)}
<1>1. 0 \in T
  <2>1. Flat([i \in 1..0 |-> 0], 0)
    OBVIOUS
  <2> QED
    BY <2>1
<1>2. ASSUME NEW m \in Nat, m \in T
      PROVE  m + 1 \in T
  <2>1. PICK g : Flat(g, m)
    BY <1>2
  <2> DEFINE h == [i \in 1..(m + 1) |->
                      IF i <= m THEN g[i]
                      ELSE IF i = 1 THEN ps[i] ELSE g[i - 1] \o ps[i]]
  <2>2. \A i \in 1..m : g[i] = IF i = 1 THEN ps[i] ELSE g[i - 1] \o ps[i]
    BY <2>1
  <2>3. \A i \in 1..(m + 1) : i # 1 => i - 1 \in 1..m
    OBVIOUS
  <2>4. \A i \in 1..m : h[i] = g[i] /\ i \in 1..(m + 1)
    OBVIOUS
  <2>5. \A i \in 1..(m + 1) :
           h[i] = IF i = 1 THEN ps[i] ELSE h[i - 1] \o ps[i]
    <3> SUFFICES ASSUME NEW i \in 1..(m + 1)
                 PROVE  h[i] = IF i = 1 THEN ps[i] ELSE h[i - 1] \o ps[i]
      OBVIOUS
    <3>1. CASE i <= m
      BY <3>1, <2>2, <2>3, <2>4
    <3>2. CASE i > m
      BY <3>2, <2>3, <2>4
    <3> QED
      BY <3>1, <3>2
  <2>6. Flat(h, m + 1)
    BY <2>5
  <2> HIDE DEF h
  <2>7. \E k : Flat(k, m + 1)
    BY <2>6
  <2>8. m + 1 \in Nat
    OBVIOUS
  <2> QED
    BY <2>7, <2>8
<1> HIDE DEF T
<1>3. T = Nat
  BY <1>1, <1>2, AllNumbers DEF T
<1> QED
  BY <1>3 DEF T

LEMMA Joined ==
    ASSUME NEW S, NEW s \in Seq(S), NEW t \in Seq(S)
    PROVE  /\ s \o t \in Seq(S)
           /\ Len(s \o t) = Len(s) + Len(t)
           /\ \A k \in 1..Len(s) : (s \o t)[k] = s[k]
           /\ \A k \in 1..Len(t) : (s \o t)[Len(s) + k] = t[k]
  OBVIOUS

LEMMA SameSequence ==
    ASSUME NEW S, NEW s \in Seq(S), NEW t \in Seq(S), Len(s) = Len(t),
           \A i \in 1..Len(s) : s[i] = t[i]
    PROVE  s = t
<1>1. s = [i \in 1..Len(s) |-> s[i]] /\ t = [i \in 1..Len(t) |-> t[i]]
  OBVIOUS
<1> QED
  BY <1>1

LEMMA AppendedToOne ==
    ASSUME NEW a, NEW b
    PROVE  Append(<<a>>, b) = <<a, b>>
<1> DEFINE S == {a, b}
           s == Append(<<a>>, b)
           t == <<a, b>>
<1>1. /\ <<a>> \in Seq(S) /\ b \in S
      /\ t \in Seq(S) /\ Len(t) = 2 /\ t[1] = a /\ t[2] = b
  OBVIOUS
<1>2. s[1] = a /\ s[2] = b /\ Len(s) = 2 /\ s \in Seq(S)
  BY <1>1
<1> HIDE DEF S, s, t
<1>3. s = t
  BY <1>1, <1>2, SameSequence
<1> QED
  BY <1>3 DEF s, t

LEMMA AppendedToTwo ==
    ASSUME NEW a, NEW b, NEW c
    PROVE  Append(<<a, b>>, c) = <<a, b, c>>
<1> DEFINE S == {a, b, c}
           s == Append(<<a, b>>, c)
           t == <<a, b, c>>
<1>1. /\ <<a, b>> \in Seq(S) /\ c \in S
      /\ t \in Seq(S) /\ Len(t) = 3 /\ t[1] = a /\ t[2] = b /\ t[3] = c
  OBVIOUS
<1>2. s[1] = a /\ s[2] = b /\ s[3] = c /\ Len(s) = 3 /\ s \in Seq(S)
  BY <1>1
<1> HIDE DEF S, s, t
<1>3. s = t
  BY <1>1, <1>2, SameSequence
<1> QED
  BY <1>3 DEF s, t

(* The text of each piece lies between two positions of the whole text.    *)
Laid(ps, o, text) ==
    /\ o \in [0..Len(ps) -> Nat]
    /\ o[0] = 0
    /\ o[Len(ps)] = Len(text)
    /\ \A i \in 1..Len(ps) :
          /\ o[i] = o[i - 1] + Len(ps[i])
          /\ \A k \in 1..Len(ps[i]) : text[o[i - 1] + k] = ps[i][k]

LEMMA Flattened ==
    ASSUME NEW S, NEW ps \in Seq(Seq(S)), Len(ps) > 0
    PROVE  /\ FlattenSeq(ps) \in Seq(S)
           /\ \E o : Laid(ps, o, FlattenSeq(ps))
<1> DEFINE n == Len(ps)
           g == CHOOSE h : h = [i \in 1..n |-> IF i = 1 THEN ps[i]
                                              ELSE h[i - 1] \o ps[i]]
<1>1. g = [i \in 1..n |-> IF i = 1 THEN ps[i] ELSE g[i - 1] \o ps[i]]
  <2>1. n \in Nat
    OBVIOUS
  <2>2. \E h : h = [i \in 1..n |-> IF i = 1 THEN ps[i] ELSE h[i - 1] \o ps[i]]
    BY <2>1, FlatteningExists
  <2> QED
    BY <2>2
<1>2. FlattenSeq(ps) = g[n]
  BY DEF FlattenSeq
<1> HIDE DEF g
<1>3. \A i \in 1..n : g[i] = IF i = 1 THEN ps[i] ELSE g[i - 1] \o ps[i]
  BY <1>1
<1>4. n \in Nat /\ n > 0
  OBVIOUS
<1>5. \A i \in 1..n : ps[i] \in Seq(S)
  OBVIOUS
<1> HIDE DEF n
<1>6. \A i \in Nat : i \in 1..n => g[i] \in Seq(S)
  <2> DEFINE T == {i \in Nat : i \in 1..n => g[i] \in Seq(S)}
  <2>1. 0 \in T
    OBVIOUS
  <2>2. ASSUME NEW i \in Nat, i \in T
        PROVE  i + 1 \in T
    <3> SUFFICES ASSUME i + 1 \in 1..n
                 PROVE  g[i + 1] \in Seq(S)
      OBVIOUS
    <3>1. CASE i = 0
      BY <3>1, <1>3, <1>5
    <3>2. CASE i # 0
      <4>1. i \in 1..n /\ g[i] \in Seq(S)
        BY <3>2, <2>2, <1>4
      <4>2. g[i + 1] = g[i] \o ps[i + 1]
        <5>1. i + 1 # 1 /\ (i + 1) - 1 = i
          BY <3>2
        <5> QED
          BY <5>1, <1>3
      <4> QED
        BY <4>1, <4>2, <1>5
    <3> QED
      BY <3>1, <3>2
  <2> HIDE DEF T
  <2>3. T = Nat
    BY <2>1, <2>2, AllNumbers DEF T
  <2> QED
    BY <2>3 DEF T
<1>7. \A i \in 1..n : g[i] \in Seq(S)
  BY <1>6
<1> DEFINE o == [i \in 0..n |-> IF i = 0 THEN 0 ELSE Len(g[i])]
<1>8. o \in [0..n -> Nat]
  BY <1>7
<1>9. ASSUME NEW i \in 1..n
      PROVE  /\ o[i] = o[i - 1] + Len(ps[i])
             /\ \A k \in 1..Len(ps[i]) : g[i][o[i - 1] + k] = ps[i][k]
             /\ \A k \in 1..o[i - 1] : g[i][k] = g[i - 1][k]
  <2>1. CASE i = 1
    <3>1. g[1] = ps[1] /\ ps[1] \in Seq(S) /\ 1 \in 1..n
      BY <1>3, <1>4, <1>5
    <3>2. o[0] = 0 /\ o[1] = Len(ps[1])
      BY <3>1, <1>4
    <3> HIDE DEF o
    <3> QED
      BY <2>1, <3>1, <3>2
  <2>2. CASE i # 1
    <3>1. i - 1 \in 1..n /\ g[i - 1] \in Seq(S) /\ ps[i] \in Seq(S)
      BY <2>2, <1>4, <1>7, <1>5
    <3>2. g[i] = g[i - 1] \o ps[i]
      BY <2>2, <1>3
    <3>3. o[i - 1] = Len(g[i - 1]) /\ o[i] = Len(g[i])
      BY <2>2, <3>1
    <3>4. /\ Len(g[i]) = Len(g[i - 1]) + Len(ps[i])
          /\ \A k \in 1..Len(g[i - 1]) : g[i][k] = g[i - 1][k]
          /\ \A k \in 1..Len(ps[i]) : g[i][Len(g[i - 1]) + k] = ps[i][k]
      <4> DEFINE a == g[i - 1]
                 b == ps[i]
      <4>1. a \in Seq(S) /\ b \in Seq(S) /\ g[i] = a \o b
        BY <3>1, <3>2
      <4> HIDE DEF a, b
      <4>2. /\ Len(a \o b) = Len(a) + Len(b)
            /\ \A k \in 1..Len(a) : (a \o b)[k] = a[k]
            /\ \A k \in 1..Len(b) : (a \o b)[Len(a) + k] = b[k]
        BY <4>1, Joined
      <4> QED
        BY <4>1, <4>2 DEF a, b
    <3> HIDE DEF o
    <3> QED
      BY <3>3, <3>4
  <2> QED
    BY <2>1, <2>2
<1>10. \A j \in 1..n : o[j] = Len(g[j])
  OBVIOUS
<1> HIDE DEF o
<1>11. \A j \in Nat : j \in 1..n =>
          \A i \in 1..j : /\ o[i] <= o[j]
                          /\ \A k \in 1..o[i] : g[j][k] = g[i][k]
  <2> DEFINE Q(j) == j \in 1..n =>
                 \A i \in 1..j : /\ o[i] <= o[j]
                                 /\ \A k \in 1..o[i] : g[j][k] = g[i][k]
             T == {j \in Nat : Q(j)}
  <2>1. 0 \in T
    OBVIOUS
  <2>2. ASSUME NEW j \in Nat, j \in T
        PROVE  j + 1 \in T
    <3> SUFFICES ASSUME j + 1 \in 1..n, NEW i \in 1..(j + 1)
                 PROVE  /\ o[i] <= o[j + 1]
                        /\ \A k \in 1..o[i] : g[j + 1][k] = g[i][k]
      OBVIOUS
    <3>1. CASE i = j + 1
      BY <3>1, <1>8
    <3>2. CASE i # j + 1
      <4>1. j \in 1..n /\ i \in 1..j
        BY <3>2, <1>4
      <4>2. /\ o[i] <= o[j]
            /\ \A k \in 1..o[i] : g[j][k] = g[i][k]
        BY <4>1, <2>2
      <4>3. (j + 1) - 1 = j /\ ps[j + 1] \in Seq(S)
        BY <1>5
      <4>4. /\ o[j + 1] = o[j] + Len(ps[j + 1])
            /\ \A k \in 1..o[j] : g[j + 1][k] = g[j][k]
        BY <1>9, <4>3
      <4>5. o[i] \in Nat /\ o[j] \in Nat /\ Len(ps[j + 1]) \in Nat
        BY <1>8, <4>1, <4>3, <1>4
      <4> QED
        BY <4>2, <4>4, <4>5
    <3> QED
      BY <3>1, <3>2
  <2> HIDE DEF T
  <2>3. T = Nat
    BY <2>1, <2>2, AllNumbers DEF T
  <2> QED
    BY <2>3 DEF T
<1>12. \A i \in 1..n : /\ o[i] <= o[n]
                       /\ \A k \in 1..o[i] : g[n][k] = g[i][k]
  BY <1>11, <1>4
<1>13. Laid(ps, o, g[n])
  <2>1. o[0] = 0 /\ o[n] = Len(g[n])
    BY <1>10, <1>4 DEF o
  <2>2. ASSUME NEW i \in 1..n
        PROVE  /\ o[i] = o[i - 1] + Len(ps[i])
               /\ \A k \in 1..Len(ps[i]) : g[n][o[i - 1] + k] = ps[i][k]
    <3>1. i - 1 \in 0..n /\ o[i - 1] \in Nat /\ Len(ps[i]) \in Nat
      BY <1>8, <1>4, <1>5
    <3>2. \A k \in 1..Len(ps[i]) : o[i - 1] + k \in 1..o[i]
      <4>1. o[i] = o[i - 1] + Len(ps[i])
        BY <1>9
      <4> DEFINE a == o[i - 1]
                 b == o[i]
                 l == Len(ps[i])
      <4>2. a \in Nat /\ l \in Nat /\ b = a + l
        BY <3>1, <4>1
      <4> HIDE DEF a, b, l
      <4>3. \A k \in 1..l : a + k \in 1..b
        BY <4>2
      <4> QED
        BY <4>3 DEF a, b, l
    <3>3. ASSUME NEW k \in 1..Len(ps[i])
          PROVE  g[n][o[i - 1] + k] = ps[i][k]
      <4>1. g[n][o[i - 1] + k] = g[i][o[i - 1] + k]
        BY <3>2, <1>12
      <4> QED
        BY <4>1, <1>9
    <3> QED
      BY <3>3, <1>9
  <2> QED
    BY <1>8, <2>1, <2>2 DEF Laid, n
<1>14. g[n] \in Seq(S)
  BY <1>7, <1>4
<1> QED
  BY <1>2, <1>13, <1>14

-----------------------------------------------------------------------------
(* The tables.                                                             *)
LEMMA Greatest ==
    ASSUME NEW n \in Nat, NEW T \in SUBSET (1..n), T # {}
    PROVE  \E k \in T : \A j \in T : j <= k
<1> DEFINE U == {m \in Nat : \A j \in T : j <= m}
<1>1. U \in SUBSET Nat /\ n \in U
  OBVIOUS
<1>2. PICK m \in U : \A u \in U : m <= u
  BY <1>1, LeastNumber
<1>3. CASE m \in T
  BY <1>3
<1>4. CASE m \notin T
  <2>1. \A j \in T : j <= m /\ j # m /\ j \in Nat /\ j >= 1
    BY <1>4
  <2>2. m \in Nat /\ m > 0
    <3>1. PICK j \in T : TRUE
      OBVIOUS
    <3> QED
      BY <2>1, <3>1
  <2>3. \A j \in T : j <= m - 1
    BY <2>1, <2>2
  <2>4. m - 1 \in U
    BY <2>2, <2>3
  <2> QED
    BY <1>2, <2>2, <2>4
<1> QED
  BY <1>3, <1>4

LEMMA IsSequence ==
    ASSUME NEW s, NEW n \in Nat, s = [i \in 1..n |-> s[i]]
    PROVE  s \in Seq(Range(s)) /\ Len(s) = n
  BY DEF Range

LEMMA EnumsAreSequences ==
    \A s \in Structs : Enum[s] \in Seq(FieldsIn(s)) /\ Len(Enum[s]) > 0
<1>1. EnumNf \in Seq(Range(EnumNf)) /\ Len(EnumNf) > 0
  <2> DEFINE a == EnumFromAhespspi
             b == EnumFromIpttl
             c == EnumFromReplyipdaddrstr
  <2>1. a \in Seq(Range(a)) /\ Len(a) = 43
    <3>1. EnumFromAhespspi = [i \in 1..43 |-> EnumFromAhespspi[i]]
      BY DEF EnumFromAhespspi
    <3> QED
      BY <3>1, IsSequence
  <2>2. b \in Seq(Range(b)) /\ Len(b) = 43
    <3>1. EnumFromIpttl = [i \in 1..43 |-> EnumFromIpttl[i]]
      BY DEF EnumFromIpttl
    <3> QED
      BY <3>1, IsSequence
  <2>3. c \in Seq(Range(c)) /\ Len(c) = 43
    <3>1. EnumFromReplyipdaddrstr =
             [i \in 1..43 |-> EnumFromReplyipdaddrstr[i]]
      BY DEF EnumFromReplyipdaddrstr
    <3> QED
      BY <3>1, IsSequence
  <2> HIDE DEF a, b, c
  <2> DEFINE S == Range(a) \cup Range(b) \cup Range(c)
  <2>4. a \in Seq(S) /\ b \in Seq(S) /\ c \in Seq(S)
    BY <2>1, <2>2, <2>3
  <2> HIDE DEF S
  <2>5. a \o b \in Seq(S) /\ Len(a \o b) = 86
    <3>1. a \o b \in Seq(S) /\ Len(a \o b) = Len(a) + Len(b)
      BY <2>4, Joined
    <3> QED
      BY <3>1, <2>1, <2>2
  <2>6. EnumNf \in Seq(S) /\ Len(EnumNf) = 129
    <3>1. EnumNf = (a \o b) \o c
      BY DEF EnumNf, a, b, c
    <3>2. /\ (a \o b) \o c \in Seq(S)
          /\ Len((a \o b) \o c) = Len(a \o b) + Len(c)
      <4> DEFINE d == a \o b
      <4>1. d \in Seq(S) /\ c \in Seq(S)
        BY <2>4, <2>5
      <4> HIDE DEF d
      <4>2. d \o c \in Seq(S) /\ Len(d \o c) = Len(d) + Len(c)
        BY <4>1, Joined
      <4> QED
        BY <4>2 DEF d
    <3> QED
      BY <3>1, <3>2, <2>3, <2>5
  <2>7. EnumNf = [i \in 1..129 |-> EnumNf[i]]
    BY <2>6
  <2>8. EnumNf \in Seq(Range(EnumNf)) /\ Len(EnumNf) = 129
    BY <2>7, IsSequence
  <2> QED
    BY <2>8
<1>2. EnumGeoIP \in Seq(Range(EnumGeoIP)) /\ Len(EnumGeoIP) > 0
  <2>1. EnumGeoIP = [i \in 1..12 |-> EnumGeoIP[i]]
    BY DEF EnumGeoIP
  <2>2. EnumGeoIP \in Seq(Range(EnumGeoIP)) /\ Len(EnumGeoIP) = 12
    BY <2>1, IsSequence
  <2> QED
    BY <2>2
<1>3. EnumLocation \in Seq(Range(EnumLocation)) /\ Len(EnumLocation) > 0
  <2>1. EnumLocation = [i \in 1..2 |-> EnumLocation[i]]
    BY DEF EnumLocation
  <2>2. EnumLocation \in Seq(Range(EnumLocation)) /\ Len(EnumLocation) = 2
    BY <2>1, IsSequence
  <2> QED
    BY <2>2
<1> QED
  BY <1>1, <1>2, <1>3 DEF Enum, Structs, FieldsIn

(* What a key is taken for: a field of the struct, or no such key.         *)
LEMMA FieldFound ==
    ASSUME NEW s \in Structs, NEW t
    PROVE  FieldOf(s, t) \in FieldsIn(s) \cup {"no_such_key"}
<1> DEFINE exact == {g \in DOMAIN Key[s] : MatchesExactly(s, g, t)}
           folded == {k \in DOMAIN Enum[s] :
                         /\ Enum[s][k] \in DOMAIN Fold[s]
                         /\ MatchesFolded(s, Enum[s][k], t)}
<1>1. exact \subseteq FieldsIn(s)
  BY ListingsAgree
<1>2. PICK n \in Nat : DOMAIN Enum[s] = 1..n
  BY EnumsAreSequences
<1>3. folded \in SUBSET (1..n)
  BY <1>2
<1>4. \A k \in folded : Enum[s][k] \in FieldsIn(s)
  BY DEF FieldsIn, Range
<1>5. FieldOf(s, t) = IF t.text = "empty" THEN "no_such_key"
                      ELSE IF exact # {} THEN CHOOSE g \in exact : TRUE
                      ELSE IF folded # {} THEN Enum[s][CHOOSE k \in folded :
                                                    \A j \in folded : j <= k]
                      ELSE "no_such_key"
  BY DEF FieldOf
<1> HIDE DEF exact, folded
<1>6. folded # {} =>
         (CHOOSE k \in folded : \A j \in folded : j <= k) \in folded
  BY <1>3, Greatest
<1>7. exact # {} => (CHOOSE g \in exact : TRUE) \in exact
  OBVIOUS
<1> QED
  BY <1>1, <1>4, <1>5, <1>6, <1>7

(* A key that is spelled as the encoders spell it.                         *)
LEMMA OwnKeyFound ==
    ASSUME NEW s \in Structs, NEW g \in FieldsIn(s)
    PROVE  FieldOf(s, Word(Tag[s][g], "exact")) = g
<1> DEFINE t == Word(Tag[s][g], "exact")
           exact == {h \in DOMAIN Key[s] : MatchesExactly(s, h, t)}
           folded == {k \in DOMAIN Enum[s] :
                         /\ Enum[s][k] \in DOMAIN Fold[s]
                         /\ MatchesFolded(s, Enum[s][k], t)}
<1>1. t.text = Tag[s][g] /\ t.spelled = "exact"
  BY DEF Word
<1> HIDE DEF t
<1>2. /\ DOMAIN Key[s] = FieldsIn(s)
      /\ FieldsIn(s) \subseteq DOMAIN Fold[s]
      /\ \A j, k \in DOMAIN Enum[s] : Enum[s][j] = Enum[s][k] => j = k
      /\ Key[s][g] = Tag[s][g]
      /\ Tag[s][g] # "empty"
      /\ \A h \in FieldsIn(s) : Key[s][h] = Key[s][g] => h = g
  BY ListingsAgree DEF KeysAgree
<1>3. exact \subseteq {g}
  BY <1>1, <1>2 DEF MatchesExactly
<1>4. PICK k \in DOMAIN Enum[s] : Enum[s][k] = g
  BY DEF FieldsIn, Range
<1>5. \A j \in DOMAIN Enum[s] : Enum[s][j] \in FieldsIn(s)
  BY DEF FieldsIn, Range
<1>6. folded = {k}
  <2>1. k \in folded
    BY <1>1, <1>2, <1>4 DEF MatchesFolded
  <2>2. \A j \in folded : j = k
    BY <1>1, <1>2, <1>4, <1>5 DEF MatchesFolded
  <2> QED
    BY <2>1, <2>2
<1>7. FieldOf(s, t) = IF t.text = "empty" THEN "no_such_key"
                      ELSE IF exact # {} THEN CHOOSE h \in exact : TRUE
                      ELSE IF folded # {} THEN Enum[s][CHOOSE i \in folded :
                                                    \A j \in folded : j <= i]
                      ELSE "no_such_key"
  BY DEF FieldOf
<1> HIDE DEF exact, folded
<1>8. exact # {} => (CHOOSE h \in exact : TRUE) = g
  BY <1>3
<1>9. PICK n \in Nat : DOMAIN Enum[s] = 1..n
  BY EnumsAreSequences
<1>10. (CHOOSE i \in folded : \A j \in folded : j <= i) = k
  BY <1>6, <1>9
<1>11. FieldOf(s, t) = g
  BY <1>1, <1>2, <1>4, <1>6, <1>7, <1>8, <1>10
<1> QED
  BY <1>11 DEF t

(* Which handler a field has: the structs are nested in one way only.      *)
LEMMA Kinds ==
    ASSUME NEW s \in Structs, NEW g \in FieldsIn(s)
    PROVE  /\ Dispatch[s][g] = g
           /\ s = "esGeoIPLocation" => /\ g \in {"Lon", "Lat"}
                                      /\ Handler[s][g] = "*float64"
           /\ s = "nf" => /\ Handler[s][g] \in {"*int", "*float64", "*string",
                                                "string", "esGeoIP"}
                          /\ Handler[s][g] = "esGeoIP" <=> g = "GeoIP"
           /\ s = "esGeoIP" =>
                 /\ Handler[s][g] \in {"*int", "*float64", "*string", "string",
                                       "*esGeoIPLocation"}
                 /\ Handler[s][g] = "*esGeoIPLocation" <=>
                       g \in {"Location", "Coordinates"}
<1>1. Dispatch[s][g] = g /\ Handler[s][g] \in Handlers[TypeOf(s, g)]
  BY ListingsAgree DEF HandlersAgree
<1>2. CASE s = "esGeoIPLocation"
  <2>1. /\ DOMAIN EnumLocation = 1..2
        /\ EnumLocation[1] = "Lon" /\ EnumLocation[2] = "Lat"
    BY DEF EnumLocation
  <2>2. g \in {"Lon", "Lat"}
    BY <1>2, <2>1 DEF FieldsIn, Enum, Range
  <2>3. TypeOf(s, g) = "float64"
    BY <1>2, <2>2 DEF TypeOf
  <2> QED
    BY <1>1, <1>2, <2>2, <2>3 DEF Handlers
<1>3. CASE s = "nf"
  BY <1>1, <1>3 DEF TypeOf, Handlers
<1>4. CASE s = "esGeoIP"
  BY <1>1, <1>4 DEF TypeOf, Handlers
<1> QED
  BY <1>2, <1>3, <1>4 DEF Structs

-----------------------------------------------------------------------------
(* The stack of activations.                                               *)
States == {"map_start", "after_value", "want_key", "want_colon", "want_value",
           "skip"}

Nested == <<"nf", "esGeoIP", "esGeoIPLocation">>

PathsAt(k) ==
    IF k = 1 THEN {<<>>}
    ELSE IF k = 2 THEN {<<"GeoIP">>}
    ELSE {<<"GeoIP", "Location">>, <<"GeoIP", "Coordinates">>}

KeysIn(s) == FieldsIn(s) \cup {"base", "no_such_key"}

Frames ==
    [struct : Structs, state : States, path : UNION {PathsAt(k) : k \in 1..3},
     key : UNION {KeysIn(s) : s \in Structs},
     open : {"none", "left_bracket", "left_brace"},
     depth : Nat]

FrameOK(fr, k) ==
    /\ fr \in Frames
    /\ fr.struct = Nested[k]
    /\ fr.path \in PathsAt(k)
    /\ fr.key \in KeysIn(Nested[k])
    /\ fr.state = "skip" => fr.depth > 0 /\ fr.open # "none"
    /\ fr.state \in {"want_colon", "want_value"} => fr.key # "base"

(* The structs are entered in the order in which they are nested; a field  *)
(* is known before its value is read, a bracket before it is skipped.      *)
StackOK(fs) ==
    /\ fs \in Seq(Frames)
    /\ Len(fs) \in 1..3
    /\ \A k \in 1..Len(fs) : FrameOK(fs[k], k)

TopOf(fs) == fs[Len(fs)]

LEMMA TopOK ==
    ASSUME NEW fs, StackOK(fs)
    PROVE  /\ Len(fs) \in 1..3
           /\ fs \in Seq(Frames)
           /\ FrameOK(TopOf(fs), Len(fs))
           /\ TopOf(fs) \in Frames
<1>1. Len(fs) \in 1..3 /\ Len(fs) \in 1..Len(fs)
  BY DEF StackOK
<1>2. FrameOK(fs[Len(fs)], Len(fs))
  BY <1>1 DEF StackOK
<1> QED
  BY <1>1, <1>2 DEF StackOK, FrameOK, TopOf

Replaced(fs, fr) == [fs EXCEPT ![Len(fs)] = fr]

LEMMA TopReplaced ==
    ASSUME NEW fs, StackOK(fs), NEW fr, FrameOK(fr, Len(fs))
    PROVE  /\ StackOK(Replaced(fs, fr))
           /\ Len(Replaced(fs, fr)) = Len(fs)
           /\ TopOf(Replaced(fs, fr)) = fr
           /\ \A k \in 1..(Len(fs) - 1) :
                 Replaced(fs, fr)[k] = fs[k]
<1> DEFINE gs == Replaced(fs, fr)
<1>1. fs \in Seq(Frames) /\ Len(fs) \in 1..3
  BY DEF StackOK
<1>2. fr \in Frames
  BY DEF FrameOK
<1>3. gs \in Seq(Frames) /\ Len(gs) = Len(fs)
  BY <1>1, <1>2 DEF Replaced
<1>4. gs[Len(fs)] = fr /\ \A k \in 1..(Len(fs) - 1) : gs[k] = fs[k]
  BY <1>1 DEF Replaced
<1> HIDE DEF gs
<1>5. \A k \in 1..Len(gs) : FrameOK(gs[k], k)
  <2> SUFFICES ASSUME NEW k \in 1..Len(gs)
               PROVE  FrameOK(gs[k], k)
    OBVIOUS
  <2>1. CASE k = Len(fs)
    BY <2>1, <1>4
  <2>2. CASE k # Len(fs)
    <3>1. k \in 1..(Len(fs) - 1) /\ k \in 1..Len(fs)
      BY <2>2, <1>1, <1>3
    <3>2. FrameOK(fs[k], k)
      BY <3>1 DEF StackOK
    <3> QED
      BY <3>1, <3>2, <1>4
  <2> QED
    BY <2>1, <2>2
<1>6. StackOK(gs)
  BY <1>1, <1>3, <1>5 DEF StackOK
<1>7. TopOf(gs) = fr
  BY <1>3, <1>4 DEF TopOf
<1> QED
  BY <1>3, <1>4, <1>6, <1>7 DEF gs

(* An activation that has only moved on.                                   *)
With(fr, state, key, open, depth) ==
    [struct |-> fr.struct, state |-> state, path |-> fr.path, key |-> key,
     open |-> open, depth |-> depth]

(* Of the stack fs only the top has changed, and is fr.                    *)
Moved(fs, gs, fr) ==
    /\ StackOK(gs)
    /\ Len(gs) = Len(fs)
    /\ TopOf(gs) = fr
    /\ \A k \in 1..(Len(fs) - 1) : gs[k] = fs[k]

LEMMA MovedOn ==
    ASSUME NEW k \in 1..3, NEW fr, FrameOK(fr, k),
           NEW state \in States, NEW key \in KeysIn(fr.struct),
           NEW open \in {"none", "left_bracket", "left_brace"},
           NEW depth \in Nat,
           state = "skip" => depth > 0, state = "skip" => open # "none",
           state \in {"want_colon", "want_value"} => key # "base"
    PROVE  FrameOK(With(fr, state, key, open, depth), k)
<1>1. Nested[k] \in Structs /\ fr.struct = Nested[k]
  <2>1. k = 1 \/ k = 2 \/ k = 3
    OBVIOUS
  <2> QED
    BY <2>1 DEF FrameOK, Nested, Structs
<1>2. key \in UNION {KeysIn(s) : s \in Structs}
  BY <1>1
<1>3. fr.path \in UNION {PathsAt(j) : j \in 1..3}
  BY DEF FrameOK
<1>4. fr.struct \in Structs
  BY <1>1
<1>5. With(fr, state, key, open, depth) \in Frames
  BY <1>2, <1>3, <1>4 DEF With, Frames
<1> QED
  BY <1>1, <1>5 DEF With, FrameOK

LEMMA TopMovedOn ==
    ASSUME NEW fs, StackOK(fs),
           NEW state \in States, NEW key \in KeysIn(TopOf(fs).struct),
           NEW open \in {"none", "left_bracket", "left_brace"},
           NEW depth \in Nat,
           state = "skip" => depth > 0, state = "skip" => open # "none",
           state \in {"want_colon", "want_value"} => key # "base"
    PROVE  Moved(fs, Replaced(fs, With(TopOf(fs), state, key, open, depth)),
                 With(TopOf(fs), state, key, open, depth))
<1> DEFINE fr == With(TopOf(fs), state, key, open, depth)
<1>1. Len(fs) \in 1..3 /\ FrameOK(TopOf(fs), Len(fs))
  BY TopOK
<1>2. FrameOK(fr, Len(fs))
  BY <1>1, MovedOn
<1> HIDE DEF fr
<1>3. Moved(fs, Replaced(fs, fr), fr)
  BY <1>2, TopReplaced DEF Moved
<1> QED
  BY <1>3 DEF fr

(* The parts of the top of a stack.                                        *)
LEMMA TopParts ==
    ASSUME NEW fs, StackOK(fs)
    PROVE  LET top == TopOf(fs)
           IN  /\ top = With(top, top.state, top.key, top.open, top.depth)
               /\ top.state \in States
               /\ top.key \in KeysIn(top.struct)
               /\ top.open \in {"none", "left_bracket", "left_brace"}
               /\ top.depth \in Nat
               /\ top.struct = Nested[Len(fs)]
               /\ top.struct \in Structs
               /\ top.path \in PathsAt(Len(fs))
               /\ top.state = "skip" => top.depth > 0 /\ top.open # "none"
               /\ top.state \in {"want_colon", "want_value"} =>
                     top.key # "base"
<1> DEFINE top == TopOf(fs)
<1>1. FrameOK(top, Len(fs))
  BY TopOK
<1> HIDE DEF top
<1>2. top \in Frames
  BY <1>1 DEF FrameOK
<1>3. /\ top = With(top, top.state, top.key, top.open, top.depth)
      /\ top.state \in States
      /\ top.open \in {"none", "left_bracket", "left_brace"}
      /\ top.depth \in Nat
      /\ top.struct \in Structs
  BY <1>2 DEF With, Frames
<1>4. /\ top.struct = Nested[Len(fs)]
      /\ top.path \in PathsAt(Len(fs))
      /\ top.key \in KeysIn(top.struct)
      /\ top.state = "skip" => top.depth > 0 /\ top.open # "none"
      /\ top.state \in {"want_colon", "want_value"} => top.key # "base"
  BY <1>1 DEF FrameOK
<1> QED
  BY <1>3, <1>4 DEF top

(* Two or three fields of a record are replaced one after the other.       *)
LEMMA KeyReplaced ==
    ASSUME NEW top, top = With(top, top.state, top.key, top.open, top.depth),
           NEW state, NEW key
    PROVE  [top EXCEPT !.state = state, !.key = key] =
              With(top, state, key, top.open, top.depth)
<1> DEFINE a == top.struct
           b == top.state
           c == top.path
           d == top.key
           e == top.open
           n == top.depth
           u == [top EXCEPT !.state = state]
<1>1. top = [struct |-> a, state |-> b, path |-> c, key |-> d, open |-> e,
             depth |-> n]
  BY DEF With
<1>2. With(top, state, key, e, n) =
         [struct |-> a, state |-> state, path |-> c, key |-> key, open |-> e,
          depth |-> n]
  BY DEF With
<1> HIDE DEF a, b, c, d, e, n
<1>3. [top EXCEPT !.state = state, !.key = key] = [u EXCEPT !.key = key]
  BY <1>1
<1>4. u = [struct |-> a, state |-> state, path |-> c, key |-> d, open |-> e,
           depth |-> n]
  BY <1>1
<1> HIDE DEF u
<1>5. [u EXCEPT !.key = key] =
         [struct |-> a, state |-> state, path |-> c, key |-> key, open |-> e,
          depth |-> n]
  BY <1>4
<1> QED
  BY <1>2, <1>3, <1>5 DEF e, n

LEMMA DepthReplaced ==
    ASSUME NEW top, top = With(top, top.state, top.key, top.open, top.depth),
           NEW open
    PROVE  [top EXCEPT !.state = "skip", !.open = open, !.depth = 1] =
              With(top, "skip", top.key, open, 1)
<1> DEFINE a == top.struct
           b == top.state
           c == top.path
           d == top.key
           e == top.open
           n == top.depth
           u == [top EXCEPT !.state = "skip"]
           w == [u EXCEPT !.open = open]
<1>1. top = [struct |-> a, state |-> b, path |-> c, key |-> d, open |-> e,
             depth |-> n]
  BY DEF With
<1>2. With(top, "skip", d, open, 1) =
         [struct |-> a, state |-> "skip", path |-> c, key |-> d, open |-> open,
          depth |-> 1]
  BY DEF With
<1> HIDE DEF a, b, c, d, e, n
<1>3. [top EXCEPT !.state = "skip", !.open = open, !.depth = 1] =
      [w EXCEPT !.depth = 1]
  BY <1>1
<1>4. u = [struct |-> a, state |-> "skip", path |-> c, key |-> d, open |-> e,
           depth |-> n]
  BY <1>1
<1> HIDE DEF u
<1>5. w = [struct |-> a, state |-> "skip", path |-> c, key |-> d,
           open |-> open, depth |-> n]
  BY <1>4
<1> HIDE DEF w
<1>6. [w EXCEPT !.depth = 1] =
         [struct |-> a, state |-> "skip", path |-> c, key |-> d, open |-> open,
          depth |-> 1]
  BY <1>5
<1> QED
  BY <1>2, <1>3, <1>6 DEF d

-----------------------------------------------------------------------------
(* What a token does to the activations, the struct and the outcome: the   *)
(* actions of JsonDecoder as one function of the state and the token.      *)
At3(fs, v, out) == [frames |-> fs, value |-> v, outcome |-> out]

Goes(fs, state) ==
    Replaced(fs, With(TopOf(fs), state, TopOf(fs).key, TopOf(fs).open,
                      TopOf(fs).depth))

Knows(fs, key) ==
    Replaced(fs, With(TopOf(fs), "want_colon", key, TopOf(fs).open,
                      TopOf(fs).depth))

Skips(fs, open, depth) ==
    Replaced(fs, With(TopOf(fs), "skip", TopOf(fs).key, open, depth))

Leaves(fs) == Goes(Front(fs), "after_value")

Enters(fs, struct, field) == Append(fs, Frame(struct, "want_key", field))

Gone(z, state, v) == At3(Goes(z.frames, state), v, "scanning")
Failed(z) == At3(z.frames, z.value, "error")
Returned(z) ==
    IF Len(z.frames) = 1 THEN At3(z.frames, z.value, "done")
    ELSE At3(Leaves(z.frames), z.value, "scanning")

Assigned(v, path, text) == Over([p \in {path} |-> text], v)
Cleared(v, path) == Restrict(v, {p \in DOMAIN v : ~IsPrefix(path, p)})

FromMapStart(z, t) ==
    IF t.tok = "left_bracket" THEN Gone(z, "want_key", z.value) ELSE Failed(z)

FromAfterValue(z, t) ==
    IF t.tok = "comma" THEN Gone(z, "want_key", z.value)
    ELSE IF t.tok = "right_bracket" THEN Returned(z)
    ELSE Failed(z)

FromWantKey(z, t) ==
    IF t.tok = "right_bracket" THEN Returned(z)
    ELSE IF t.tok = "string"
    THEN At3(Knows(z.frames, FieldOf(TopOf(z.frames).struct, t)), z.value,
             "scanning")
    ELSE Failed(z)

FromWantColon(z, t) ==
    IF t.tok = "colon" THEN Gone(z, "want_value", z.value) ELSE Failed(z)

FromSkip(z, t) ==
    LET top == TopOf(z.frames)
    IN  IF t.tok = Close[top.open]
        THEN IF top.depth = 1 THEN Gone(z, "after_value", z.value)
             ELSE At3(Skips(z.frames, top.open, top.depth - 1), z.value,
                      "scanning")
        ELSE IF t.tok = top.open
        THEN At3(Skips(z.frames, top.open, top.depth + 1), z.value, "scanning")
        ELSE IF t.tok \in {"eof", "error"} THEN Failed(z)
        ELSE z

FieldAt(top) == Append(top.path, Dispatch[top.struct][top.key])

ReadScalar(z, t, kind, field) ==
    IF t.tok \in Accepts[kind]
    THEN IF t.text = "out_of_range" THEN Failed(z)
         ELSE IF kind = "string" /\ t.text = "empty"
         THEN Gone(z, "after_value", Cleared(z.value, field))
         ELSE Gone(z, "after_value", Assigned(z.value, field, t.text))
    ELSE IF t.tok # "null" THEN Failed(z)
    ELSE IF kind = "string" THEN Gone(z, "after_value", z.value)
    ELSE Gone(z, "after_value", Cleared(z.value, field))

ReadStruct(z, t, field) ==
    IF t.tok = "null" THEN Gone(z, "after_value", z.value)
    ELSE At3(Enters(z.frames, "esGeoIP", field), z.value, "scanning")

ReadPointer(z, t, field) ==
    IF t.tok = "null" THEN Gone(z, "after_value", Cleared(z.value, field))
    ELSE At3(Enters(z.frames, "esGeoIPLocation", field),
             IF field \in DOMAIN z.value THEN z.value
             ELSE Assigned(z.value, field, "new"), "scanning")

ReadField(z, t, kind, field) ==
    IF kind = "esGeoIP" THEN ReadStruct(z, t, field)
    ELSE IF kind = "*esGeoIPLocation" THEN ReadPointer(z, t, field)
    ELSE ReadScalar(z, t, kind, field)

ReadUnknown(z, t) ==
    IF t.tok \in {"left_bracket", "left_brace"}
    THEN At3(Skips(z.frames, t.tok, 1), z.value, "scanning")
    ELSE Gone(z, "after_value", z.value)

FromWantValue(z, t) ==
    LET top == TopOf(z.frames)
    IN  IF t.tok \notin ValueTokens THEN Failed(z)
        ELSE IF top.key = "no_such_key" THEN ReadUnknown(z, t)
        ELSE ReadField(z, t, Kind(top), FieldAt(top))

After(z, t) ==
    LET state == TopOf(z.frames).state
    IN  IF state = "map_start" THEN FromMapStart(z, t)
        ELSE IF state = "after_value" THEN FromAfterValue(z, t)
        ELSE IF state = "want_key" THEN FromWantKey(z, t)
        ELSE IF state = "want_colon" THEN FromWantColon(z, t)
        ELSE IF state = "skip" THEN FromSkip(z, t)
        ELSE FromWantValue(z, t)

(* The forms of EXCEPT in the actions.                                     *)
LEMMA StateSet ==
    ASSUME NEW fs, StackOK(fs), NEW state
    PROVE  [fs EXCEPT ![Len(fs)].state = state] = Goes(fs, state)
<1> DEFINE top == TopOf(fs)
           fr == With(top, state, top.key, top.open, top.depth)
<1>1. [top EXCEPT !.state = state] = fr
  <2>1. top = With(top, top.state, top.key, top.open, top.depth)
    BY TopParts
  <2> HIDE DEF top
  <2> QED
    BY <2>1 DEF With
<1>2. [fs EXCEPT ![Len(fs)].state = state] = Replaced(fs, fr)
  BY <1>1 DEF TopOf, Replaced
<1> QED
  BY <1>2 DEF Goes

LEMMA KeySet ==
    ASSUME NEW fs, StackOK(fs), NEW key
    PROVE  [fs EXCEPT ![Len(fs)].state = "want_colon", ![Len(fs)].key = key]
              = Knows(fs, key)
<1> DEFINE top == TopOf(fs)
           fr == With(top, "want_colon", key, top.open, top.depth)
<1>1. [top EXCEPT !.state = "want_colon", !.key = key] = fr
  <2>1. top = With(top, top.state, top.key, top.open, top.depth)
    BY TopParts
  <2> HIDE DEF top
  <2> QED
    BY <2>1, KeyReplaced
<1>2. fs \in Seq(Frames) /\ Len(fs) \in 1..3
  BY TopOK
<1>3. [fs EXCEPT ![Len(fs)].state = "want_colon", ![Len(fs)].key = key]
         = Replaced(fs, fr)
  BY <1>1, <1>2 DEF TopOf, Replaced
<1> QED
  BY <1>3 DEF Knows

LEMMA SkipSet ==
    ASSUME NEW fs, StackOK(fs), NEW open
    PROVE  [fs EXCEPT ![Len(fs)].state = "skip", ![Len(fs)].open = open,
                      ![Len(fs)].depth = 1] = Skips(fs, open, 1)
<1> DEFINE top == TopOf(fs)
           fr == With(top, "skip", top.key, open, 1)
<1>1. [top EXCEPT !.state = "skip", !.open = open, !.depth = 1] = fr
  <2>1. top = With(top, top.state, top.key, top.open, top.depth)
    BY TopParts
  <2> HIDE DEF top
  <2> QED
    BY <2>1, DepthReplaced
<1>2. fs \in Seq(Frames) /\ Len(fs) \in 1..3
  BY TopOK
<1>3. [fs EXCEPT ![Len(fs)].state = "skip", ![Len(fs)].open = open,
                 ![Len(fs)].depth = 1] = Replaced(fs, fr)
  BY <1>1, <1>2 DEF TopOf, Replaced
<1> QED
  BY <1>3 DEF Skips

LEMMA DepthSet ==
    ASSUME NEW fs, StackOK(fs), TopOf(fs).state = "skip", NEW depth
    PROVE  [fs EXCEPT ![Len(fs)].depth = depth]
              = Skips(fs, TopOf(fs).open, depth)
<1> DEFINE top == TopOf(fs)
           fr == With(top, "skip", top.key, top.open, depth)
<1>1. [top EXCEPT !.depth = depth] = fr
  <2>1. top = With(top, "skip", top.key, top.open, top.depth)
    BY TopParts
  <2> HIDE DEF top
  <2> QED
    BY <2>1 DEF With
<1>2. [fs EXCEPT ![Len(fs)].depth = depth] = Replaced(fs, fr)
  BY <1>1 DEF TopOf, Replaced
<1> QED
  BY <1>2 DEF Skips

LEMMA FrontOf ==
    ASSUME NEW S, NEW fs \in Seq(S), Len(fs) > 0
    PROVE  /\ Front(fs) \in Seq(S)
           /\ Len(Front(fs)) = Len(fs) - 1
           /\ \A k \in 1..(Len(fs) - 1) : Front(fs)[k] = fs[k]
<1> DEFINE n == Len(fs) - 1
<1>1. n \in 0..Len(fs) /\ n \in Nat
  OBVIOUS
<1>2. Front(fs) = SubSeq(fs, 1, n)
  BY DEF Front
<1> HIDE DEF n
<1>3. /\ SubSeq(fs, 1, n) \in Seq(S)
      /\ Len(SubSeq(fs, 1, n)) = n
      /\ \A k \in 1..n : SubSeq(fs, 1, n)[k] = fs[k]
  BY <1>1
<1> QED
  BY <1>2, <1>3 DEF n


LEMMA FrontOK ==
    ASSUME NEW fs, StackOK(fs), Len(fs) # 1
    PROVE  /\ StackOK(Front(fs))
           /\ Len(Front(fs)) = Len(fs) - 1
           /\ \A k \in 1..(Len(fs) - 1) : Front(fs)[k] = fs[k]
<1> DEFINE bs == Front(fs)
<1>1. fs \in Seq(Frames) /\ Len(fs) \in 1..3
  BY DEF StackOK
<1>2. /\ bs \in Seq(Frames)
      /\ Len(bs) = Len(fs) - 1
      /\ \A k \in 1..(Len(fs) - 1) : bs[k] = fs[k]
  BY <1>1, FrontOf
<1> HIDE DEF bs
<1>3. StackOK(bs)
  BY <1>1, <1>2 DEF StackOK
<1> QED
  BY <1>2, <1>3 DEF bs

LEMMA FrontSet ==
    ASSUME NEW fs, StackOK(fs), Len(fs) # 1
    PROVE  [Front(fs) EXCEPT ![Len(fs) - 1].state = "after_value"] = Leaves(fs)
<1> DEFINE bs == Front(fs)
<1>1. StackOK(bs) /\ Len(bs) = Len(fs) - 1
  BY FrontOK
<1> HIDE DEF bs
<1>2. [bs EXCEPT ![Len(bs)].state = "after_value"] = Goes(bs, "after_value")
  BY <1>1, StateSet
<1> QED
  BY <1>1, <1>2 DEF bs, Leaves

(* The stacks that these give.                                             *)
LEMMA StackGoes ==
    ASSUME NEW fs, StackOK(fs), NEW state \in States \ {"skip"},
           state \in {"want_colon", "want_value"} => TopOf(fs).key # "base"
    PROVE  Moved(fs, Goes(fs, state),
                 With(TopOf(fs), state, TopOf(fs).key, TopOf(fs).open,
                      TopOf(fs).depth))
<1> DEFINE top == TopOf(fs)
<1>1. /\ top.key \in KeysIn(top.struct)
      /\ top.open \in {"none", "left_bracket", "left_brace"}
      /\ top.depth \in Nat
  BY TopParts
<1> QED
  BY <1>1, TopMovedOn DEF Goes

LEMMA StackKnows ==
    ASSUME NEW fs, StackOK(fs),
           NEW key \in FieldsIn(TopOf(fs).struct) \cup {"no_such_key"},
           key # "base"
    PROVE  Moved(fs, Knows(fs, key),
                 With(TopOf(fs), "want_colon", key, TopOf(fs).open,
                      TopOf(fs).depth))
<1> DEFINE top == TopOf(fs)
<1>1. /\ top.open \in {"none", "left_bracket", "left_brace"}
      /\ top.depth \in Nat
  BY TopParts
<1>2. key \in KeysIn(top.struct) /\ "want_colon" \in States
  BY DEF KeysIn, States
<1> QED
  BY <1>1, <1>2, TopMovedOn DEF Knows

LEMMA StackSkips ==
    ASSUME NEW fs, StackOK(fs), NEW open \in {"left_bracket", "left_brace"},
           NEW depth \in Nat, depth > 0
    PROVE  Moved(fs, Skips(fs, open, depth),
                 With(TopOf(fs), "skip", TopOf(fs).key, open, depth))
<1> DEFINE top == TopOf(fs)
<1>1. /\ top.key \in KeysIn(top.struct)
      /\ "skip" \in States
      /\ open \in {"none", "left_bracket", "left_brace"}
      /\ open # "none"
  BY TopParts DEF States
<1> QED
  BY <1>1, TopMovedOn DEF Skips

LEMMA StackLeaves ==
    ASSUME NEW fs, StackOK(fs), Len(fs) # 1
    PROVE  Moved(Front(fs), Leaves(fs),
                 With(fs[Len(fs) - 1], "after_value", fs[Len(fs) - 1].key,
                      fs[Len(fs) - 1].open, fs[Len(fs) - 1].depth))
<1> DEFINE bs == Front(fs)
<1>1. /\ StackOK(bs)
      /\ Len(bs) = Len(fs) - 1
      /\ \A k \in 1..(Len(fs) - 1) : bs[k] = fs[k]
  BY FrontOK
<1> HIDE DEF bs
<1>2. Len(fs) \in 2..3
  <2>1. Len(fs) \in 1..3
    BY DEF StackOK
  <2> QED
    BY <2>1
<1>3. TopOf(bs) = fs[Len(fs) - 1]
  BY <1>1, <1>2 DEF TopOf
<1>4. "after_value" \in States \ {"skip"}
  BY DEF States
<1>5. Moved(bs, Goes(bs, "after_value"),
            With(TopOf(bs), "after_value", TopOf(bs).key, TopOf(bs).open,
                 TopOf(bs).depth))
  BY <1>1, <1>4, StackGoes
<1> QED
  BY <1>3, <1>5 DEF bs, Leaves

LEMMA StackEnters ==
    ASSUME NEW fs, StackOK(fs), Len(fs) < 3,
           NEW path \in PathsAt(Len(fs) + 1)
    PROVE  LET gs == Enters(fs, Nested[Len(fs) + 1], path)
           IN  /\ StackOK(gs)
               /\ Len(gs) = Len(fs) + 1
               /\ TopOf(gs) = Frame(Nested[Len(fs) + 1], "want_key", path)
               /\ \A k \in 1..Len(fs) : gs[k] = fs[k]
<1> DEFINE fr == Frame(Nested[Len(fs) + 1], "want_key", path)
           gs == Append(fs, fr)
<1>1. Len(fs) + 1 \in 1..3 /\ fs \in Seq(Frames)
  BY DEF StackOK
<1>2. FrameOK(fr, Len(fs) + 1)
  BY <1>1 DEF FrameOK, Frames, Frame, States, KeysIn, Nested, Structs
<1> HIDE DEF fr
<1>3. fr \in Frames
  BY <1>2 DEF FrameOK
<1>4. /\ gs \in Seq(Frames)
      /\ Len(gs) = Len(fs) + 1
      /\ gs[Len(fs) + 1] = fr
      /\ \A k \in 1..Len(fs) : gs[k] = fs[k]
  BY <1>1, <1>3
<1> HIDE DEF gs
<1>5. StackOK(gs) /\ TopOf(gs) = fr
  BY <1>1, <1>2, <1>4 DEF StackOK, TopOf
<1> QED
  BY <1>4, <1>5 DEF fr, gs, Enters

-----------------------------------------------------------------------------
(* Every action of JsonDecoder is After of the token it scans.             *)
Now == At3(frames, value, outcome)

LEMMA TopIsTop == Top = TopOf(frames) /\ Field = FieldAt(TopOf(frames))
  BY DEF Top, TopOf, Field, FieldAt

LEMMA AcceptsIs ==
    /\ DOMAIN Accepts = {"*int", "*float64", "*string", "string"}
    /\ Accepts["*int"] = {"integer"}
    /\ Accepts["*float64"] = {"integer", "double"}
    /\ Accepts["*string"] = {"string"}
    /\ Accepts["string"] = {"string"}
  BY DEF Accepts

LEMMA GotoIs ==
    ASSUME StackOK(frames), outcome = "scanning", NEW state, Goto(state)
    PROVE  At3(frames', value', outcome') =
              At3(Goes(frames, state), value', "scanning")
  BY StateSet DEF Goto

LEMMA FailIs ==
    ASSUME Fail
    PROVE  At3(frames', value', outcome') = Failed(Now)
  BY DEF Fail, Failed, Now, At3

LEMMA ReturnIs ==
    ASSUME StackOK(frames), outcome = "scanning", Return
    PROVE  At3(frames', value', outcome') = Returned(Now)
<1>1. CASE Len(frames) = 1
  BY <1>1 DEF Return, Returned, Now, At3
<1>2. CASE Len(frames) # 1
  <2>1. frames' = Leaves(frames)
    BY <1>2, FrontSet DEF Return
  <2> QED
    BY <1>2, <2>1 DEF Return, Returned, Now, At3
<1> QED
  BY <1>1, <1>2

LEMMA GoneIs ==
    ASSUME NEW state, NEW v
    PROVE  Gone(Now, state, v) = At3(Goes(frames, state), v, "scanning")
  BY DEF Gone, Now, At3

LEMMA SimpleStates ==
    ASSUME StackOK(frames), MapStart \/ AfterValue \/ WantColon \/ NoValue
    PROVE  At3(frames', value', outcome') = After(Now, Scanned)
<1> DEFINE n == At3(frames', value', outcome')
<1>1. Now.frames = frames /\ Now.value = value
  BY DEF Now, At3
<1>2. CASE MapStart
  <2>1. TopOf(frames).state = "map_start" /\ outcome = "scanning"
    BY <1>2, TopIsTop DEF MapStart, Scan
  <2>2. After(Now, Scanned) = FromMapStart(Now, Scanned)
    BY <1>1, <2>1 DEF After
  <2>3. CASE Scanned.tok = "left_bracket" /\ Goto("want_key") /\ Keep
    <3>1. /\ n = At3(Goes(frames, "want_key"), value', "scanning")
          /\ value' = value
      BY <2>1, <2>3, GotoIs DEF Keep
    <3>2. Gone(Now, "want_key", value) =
             At3(Goes(frames, "want_key"), value, "scanning")
      BY GoneIs
    <3> QED
      BY <1>1, <2>2, <2>3, <3>1, <3>2 DEF FromMapStart
  <2>4. CASE Scanned.tok # "left_bracket" /\ Fail
    <3>1. n = Failed(Now)
      BY <2>4, FailIs
    <3> QED
      BY <2>2, <2>4, <3>1 DEF FromMapStart
  <2> QED
    BY <1>2, <2>3, <2>4 DEF MapStart
<1>3. CASE AfterValue
  <2>1. TopOf(frames).state = "after_value" /\ outcome = "scanning"
    BY <1>3, TopIsTop DEF AfterValue, Scan
  <2>2. After(Now, Scanned) = FromAfterValue(Now, Scanned)
    BY <1>1, <2>1 DEF After
  <2>3. CASE Scanned.tok = "comma" /\ Goto("want_key") /\ Keep
    <3>1. /\ n = At3(Goes(frames, "want_key"), value', "scanning")
          /\ value' = value
      BY <2>1, <2>3, GotoIs DEF Keep
    <3>2. Gone(Now, "want_key", value) =
             At3(Goes(frames, "want_key"), value, "scanning")
      BY GoneIs
    <3> QED
      BY <1>1, <2>2, <2>3, <3>1, <3>2 DEF FromAfterValue
  <2>4. CASE Scanned.tok = "right_bracket" /\ Return
    <3>1. n = Returned(Now)
      BY <2>1, <2>4, ReturnIs
    <3> QED
      BY <2>2, <2>4, <3>1 DEF FromAfterValue
  <2>5. CASE Scanned.tok \notin {"comma", "right_bracket"} /\ Fail
    <3>1. n = Failed(Now)
      BY <2>5, FailIs
    <3> QED
      BY <2>2, <2>5, <3>1 DEF FromAfterValue
  <2> QED
    BY <1>3, <2>3, <2>4, <2>5 DEF AfterValue
<1>4. CASE WantColon
  <2>1. TopOf(frames).state = "want_colon" /\ outcome = "scanning"
    BY <1>4, TopIsTop DEF WantColon, Scan
  <2>2. After(Now, Scanned) = FromWantColon(Now, Scanned)
    BY <1>1, <2>1 DEF After
  <2>3. CASE Scanned.tok = "colon" /\ Goto("want_value") /\ Keep
    <3>1. /\ n = At3(Goes(frames, "want_value"), value', "scanning")
          /\ value' = value
      BY <2>1, <2>3, GotoIs DEF Keep
    <3>2. Gone(Now, "want_value", value) =
             At3(Goes(frames, "want_value"), value, "scanning")
      BY GoneIs
    <3> QED
      BY <1>1, <2>2, <2>3, <3>1, <3>2 DEF FromWantColon
  <2>4. CASE Scanned.tok # "colon" /\ Fail
    <3>1. n = Failed(Now)
      BY <2>4, FailIs
    <3> QED
      BY <2>2, <2>4, <3>1 DEF FromWantColon
  <2> QED
    BY <1>4, <2>3, <2>4 DEF WantColon
<1>5. CASE NoValue
  <2>1. /\ TopOf(frames).state = "want_value"
        /\ Fail
        /\ Scanned.tok \notin ValueTokens
    BY <1>5, TopIsTop DEF NoValue, Scan
  <2>2. After(Now, Scanned) = FromWantValue(Now, Scanned)
    BY <1>1, <2>1 DEF After
  <2>3. n = Failed(Now)
    BY <2>1, FailIs
  <2> QED
    BY <2>1, <2>2, <2>3 DEF FromWantValue
<1> QED
  BY <1>2, <1>3, <1>4, <1>5

LEMMA KeyState ==
    ASSUME StackOK(frames), WantKey
    PROVE  At3(frames', value', outcome') = After(Now, Scanned)
<1> DEFINE n == At3(frames', value', outcome')
<1>1. TopOf(frames).state = "want_key" /\ outcome = "scanning"
  BY TopIsTop DEF WantKey, Scan
<1>2. Now.frames = frames /\ Now.value = value
  BY DEF Now, At3
<1>3. After(Now, Scanned) = FromWantKey(Now, Scanned)
  BY <1>1, <1>2 DEF After
<1>4. CASE Scanned.tok = "right_bracket" /\ Return
  <2>1. n = Returned(Now)
    BY <1>1, <1>4, ReturnIs
  <2> QED
    BY <1>3, <1>4, <2>1 DEF FromWantKey
<1>5. CASE Scanned.tok \notin {"right_bracket", "string"} /\ Fail
  <2>1. n = Failed(Now)
    BY <1>5, FailIs
  <2> QED
    BY <1>3, <1>5, <2>1 DEF FromWantKey
<1>6. CASE /\ Scanned.tok = "string"
           /\ frames' = [frames EXCEPT ![Len(frames)].state = "want_colon",
                                       ![Len(frames)].key =
                                           FieldOf(Top.struct, Scanned)]
           /\ UNCHANGED <<value, outcome>>
  <2>1. frames' = Knows(frames, FieldOf(TopOf(frames).struct, Scanned))
    BY <1>6, KeySet, TopIsTop
  <2> QED
    BY <1>1, <1>2, <1>3, <1>6, <2>1 DEF FromWantKey
<1> QED
  BY <1>4, <1>5, <1>6 DEF WantKey

LEMMA UnknownState ==
    ASSUME StackOK(frames), SkipField
    PROVE  At3(frames', value', outcome') = After(Now, Scanned)
<1> DEFINE n == At3(frames', value', outcome')
<1>1. /\ TopOf(frames).state = "want_value"
      /\ outcome = "scanning"
      /\ Scanned.tok \in ValueTokens
      /\ TopOf(frames).key = "no_such_key"
      /\ value' = value
  BY TopIsTop DEF SkipField, Scan, Keep
<1>2. Now.frames = frames /\ Now.value = value
  BY DEF Now, At3
<1>3. After(Now, Scanned) = ReadUnknown(Now, Scanned)
  BY <1>1, <1>2 DEF After, FromWantValue
<1>4. CASE Scanned.tok \in {"left_bracket", "left_brace"}
  <2>1. frames' = [frames EXCEPT ![Len(frames)].state = "skip",
                                 ![Len(frames)].open = Scanned.tok,
                                 ![Len(frames)].depth = 1]
        /\ outcome' = outcome
    BY <1>4 DEF SkipField
  <2>2. frames' = Skips(frames, Scanned.tok, 1)
    BY <2>1, SkipSet
  <2> QED
    BY <1>1, <1>2, <1>3, <1>4, <2>1, <2>2 DEF ReadUnknown
<1>5. CASE Scanned.tok \notin {"left_bracket", "left_brace"}
  <2>1. Goto("after_value")
    BY <1>5 DEF SkipField
  <2>2. n = At3(Goes(frames, "after_value"), value', "scanning")
    BY <1>1, <2>1, GotoIs
  <2> QED
    BY <1>1, <1>2, <1>3, <1>5, <2>2, GoneIs DEF ReadUnknown
<1> QED
  BY <1>4, <1>5

LEMMA CloseIs ==
    /\ Close["left_bracket"] = "right_bracket"
    /\ Close["left_brace"] = "right_brace"
  BY DEF Close

LEMMA SkipState ==
    ASSUME StackOK(frames), ScanField
    PROVE  At3(frames', value', outcome') = After(Now, Scanned)
<1> DEFINE n == At3(frames', value', outcome')
           top == TopOf(frames)
           tok == Scanned.tok
<1>1. top.state = "skip" /\ outcome = "scanning"
  BY TopIsTop DEF ScanField, Scan
<1>2. Now.frames = frames /\ Now.value = value /\ Now.outcome = outcome
  BY DEF Now, At3
<1>3. After(Now, Scanned) = FromSkip(Now, Scanned)
  BY <1>1, <1>2 DEF After
<1>4. /\ top.depth \in Nat
      /\ top.depth > 0
      /\ top.open \in {"left_bracket", "left_brace"}
  BY <1>1, TopParts
<1>5. Close[top.open] \notin {top.open, "eof", "error"}
  BY <1>4, CloseIs
<1>6. CASE /\ tok = Close[top.open] /\ top.depth = 1
           /\ Goto("after_value") /\ Keep
  <2>1. n = At3(Goes(frames, "after_value"), value', "scanning")
    BY <1>1, <1>6, GotoIs
  <2> QED
    BY <1>2, <1>3, <1>6, <2>1, GoneIs DEF FromSkip, Keep
<1>7. CASE /\ tok \in {top.open, Close[top.open]}
           /\ tok = top.open \/ top.depth > 1
           /\ frames' = [frames EXCEPT ![Len(frames)].depth =
                            IF tok = top.open THEN @ + 1 ELSE @ - 1]
           /\ UNCHANGED <<value, outcome>>
  <2> DEFINE d == IF tok = top.open THEN top.depth + 1 ELSE top.depth - 1
  <2>1. frames' = [frames EXCEPT ![Len(frames)].depth = d]
    BY <1>7 DEF TopOf
  <2> HIDE DEF d
  <2>2. frames' = Skips(frames, top.open, d)
    BY <1>1, <2>1, DepthSet
  <2>3. CASE tok = top.open
    BY <1>1, <1>2, <1>3, <1>5, <1>7, <2>2, <2>3 DEF FromSkip, d
  <2>4. CASE tok # top.open
    <3>1. top.depth # 1 /\ tok = Close[top.open]
      BY <1>4, <1>7, <2>4
    <3> QED
      BY <1>1, <1>2, <1>3, <1>7, <2>2, <2>4, <3>1 DEF FromSkip, d
  <2> QED
    BY <2>3, <2>4
<1>8. CASE tok \in {"eof", "error"} /\ Fail
  <2>1. n = Failed(Now)
    BY <1>8, FailIs
  <2>2. tok # Close[top.open] /\ tok # top.open
    BY <1>4, <1>8, CloseIs
  <2> QED
    BY <1>2, <1>3, <1>8, <2>1, <2>2 DEF FromSkip
<1>9. CASE /\ tok \notin {top.open, Close[top.open], "eof", "error"}
           /\ UNCHANGED <<frames, value, outcome>>
  BY <1>2, <1>3, <1>9 DEF FromSkip, Now
<1> QED
  BY <1>6, <1>7, <1>8, <1>9, TopIsTop DEF ScanField

LEMMA HandledState ==
    ASSUME StackOK(frames), NEW kinds, Handles(kinds)
    PROVE  /\ outcome = "scanning"
           /\ Kind(TopOf(frames)) \in kinds
           /\ Now.frames = frames /\ Now.value = value
           /\ After(Now, Scanned) =
                 ReadField(Now, Scanned, Kind(TopOf(frames)),
                           FieldAt(TopOf(frames)))
<1>1. /\ TopOf(frames).state = "want_value"
      /\ outcome = "scanning"
      /\ Scanned.tok \in ValueTokens
      /\ TopOf(frames).key # "no_such_key"
      /\ Kind(TopOf(frames)) \in kinds
  BY TopIsTop DEF Handles, Scan
<1>2. Now.frames = frames /\ Now.value = value
  BY DEF Now, At3
<1>3. After(Now, Scanned) = FromWantValue(Now, Scanned)
  BY <1>1, <1>2 DEF After
<1> QED
  BY <1>1, <1>2, <1>3 DEF FromWantValue

LEMMA ScalarState ==
    ASSUME StackOK(frames), HandleScalar
    PROVE  At3(frames', value', outcome') = After(Now, Scanned)
<1> DEFINE n == At3(frames', value', outcome')
           kind == Kind(TopOf(frames))
           field == FieldAt(TopOf(frames))
           tok == Scanned.tok
<1>1. /\ outcome = "scanning"
      /\ kind \in DOMAIN Accepts
      /\ Now.frames = frames /\ Now.value = value
      /\ After(Now, Scanned) = ReadField(Now, Scanned, kind, field)
  BY HandledState DEF HandleScalar
<1>2. kind = Kind(Top) /\ field = Field
  BY TopIsTop
<1> HIDE DEF kind, field
<1>3. After(Now, Scanned) = ReadScalar(Now, Scanned, kind, field)
  BY <1>1, AcceptsIs DEF ReadField
<1>4. Goto("after_value") =>
         n = At3(Goes(frames, "after_value"), value', "scanning")
  BY <1>1, GotoIs
<1>5. Fail => n = Failed(Now)
  BY FailIs
<1>6. \A v : Gone(Now, "after_value", v)
                = At3(Goes(frames, "after_value"), v, "scanning")
  BY GoneIs
<1>7. "null" \notin Accepts[kind]
  BY <1>1, AcceptsIs
<1>8. CASE /\ tok \in Accepts[kind]
           /\ Scanned.text # "out_of_range"
           /\ IF kind = "string" /\ Scanned.text = "empty"
              THEN Clear(field) ELSE Assign(field, Scanned.text)
           /\ Goto("after_value")
  <2>0. n = At3(Goes(frames, "after_value"), value', "scanning")
    BY <1>4, <1>8
  <2>1. CASE kind = "string" /\ Scanned.text = "empty"
    <3>1. value' = Cleared(value, field)
      BY <1>8, <2>1 DEF Clear, Cleared
    <3> QED
      BY <1>1, <1>3, <1>6, <1>8, <2>0, <2>1, <3>1 DEF ReadScalar
  <2>2. CASE ~ (kind = "string" /\ Scanned.text = "empty")
    <3>1. value' = Assigned(value, field, Scanned.text)
      BY <1>8, <2>2 DEF Assign, Assigned
    <3> QED
      BY <1>1, <1>3, <1>6, <1>8, <2>0, <2>2, <3>1 DEF ReadScalar
  <2> QED
    BY <2>1, <2>2
<1>9. CASE /\ tok = "null"
           /\ IF kind = "string" THEN Keep ELSE Clear(field)
           /\ Goto("after_value")
  <2>0. n = At3(Goes(frames, "after_value"), value', "scanning")
    BY <1>4, <1>9
  <2>1. CASE kind = "string"
    BY <1>1, <1>3, <1>6, <1>7, <1>9, <2>0, <2>1 DEF ReadScalar, Keep
  <2>2. CASE kind # "string"
    <3>1. value' = Cleared(value, field)
      BY <1>9, <2>2 DEF Clear, Cleared
    <3> QED
      BY <1>1, <1>3, <1>6, <1>7, <1>9, <2>0, <2>2, <3>1 DEF ReadScalar
  <2> QED
    BY <2>1, <2>2
<1>10. CASE /\ \/ tok \notin Accepts[kind] \cup {"null"}
               \/ /\ tok \in Accepts[kind]
                  /\ Scanned.text = "out_of_range"
            /\ Fail
  <2>1. n = Failed(Now)
    BY <1>5, <1>10
  <2> QED
    BY <1>3, <1>10, <2>1 DEF ReadScalar
<1> QED
  BY <1>2, <1>8, <1>9, <1>10 DEF HandleScalar

LEMMA StructState ==
    ASSUME StackOK(frames), HandleStruct \/ HandlePointer
    PROVE  At3(frames', value', outcome') = After(Now, Scanned)
<1> DEFINE n == At3(frames', value', outcome')
           kind == Kind(TopOf(frames))
           field == FieldAt(TopOf(frames))
           tok == Scanned.tok
<1>1. field = Field
  BY TopIsTop
<1> HIDE DEF kind, field
<1>2. Goto("after_value") /\ outcome = "scanning" =>
         n = At3(Goes(frames, "after_value"), value', "scanning")
  BY GotoIs
<1>3. \A v : Gone(Now, "after_value", v)
                = At3(Goes(frames, "after_value"), v, "scanning")
  BY GoneIs
<1>4. CASE HandleStruct
  <2>1. /\ outcome = "scanning"
        /\ kind = "esGeoIP"
        /\ Now.frames = frames /\ Now.value = value
        /\ After(Now, Scanned) = ReadField(Now, Scanned, kind, field)
    BY <1>4, HandledState DEF HandleStruct, kind, field
  <2>2. After(Now, Scanned) = ReadStruct(Now, Scanned, field)
    BY <2>1 DEF ReadField
  <2>3. CASE tok = "null"
    <3>1. Goto("after_value") /\ value' = value
      BY <1>4, <2>3 DEF HandleStruct, Keep
    <3> QED
      BY <1>2, <1>3, <2>1, <2>2, <2>3, <3>1 DEF ReadStruct
  <2>4. CASE tok # "null"
    <3>1. Enter("esGeoIP") /\ value' = value
      BY <1>4, <2>4 DEF HandleStruct, Keep
    <3>2. frames' = Enters(frames, "esGeoIP", field) /\ outcome' = outcome
      BY <1>1, <3>1 DEF Enter, Enters
    <3> QED
      BY <2>1, <2>2, <2>4, <3>1, <3>2 DEF ReadStruct
  <2> QED
    BY <2>3, <2>4
<1>5. CASE HandlePointer
  <2>1. /\ outcome = "scanning"
        /\ kind = "*esGeoIPLocation"
        /\ Now.frames = frames /\ Now.value = value
        /\ After(Now, Scanned) = ReadField(Now, Scanned, kind, field)
    BY <1>5, HandledState DEF HandlePointer, kind, field
  <2>2. After(Now, Scanned) = ReadPointer(Now, Scanned, field)
    BY <2>1 DEF ReadField
  <2>3. CASE tok = "null"
    <3>1. value' = Cleared(value, field) /\ Goto("after_value")
      BY <1>1, <1>5, <2>3 DEF HandlePointer, Clear, Cleared
    <3> QED
      BY <1>2, <1>3, <2>1, <2>2, <2>3, <3>1 DEF ReadPointer
  <2>4. CASE tok # "null"
    <3>1. /\ value' = IF field \in DOMAIN value THEN value
                      ELSE Assigned(value, field, "new")
          /\ Enter("esGeoIPLocation")
      BY <1>1, <1>5, <2>4 DEF HandlePointer, Keep, Assign, Assigned
    <3>2. /\ frames' = Enters(frames, "esGeoIPLocation", field)
          /\ outcome' = outcome
      BY <1>1, <3>1 DEF Enter, Enters
    <3> QED
      BY <2>1, <2>2, <2>4, <3>1, <3>2 DEF ReadPointer
  <2> QED
    BY <2>3, <2>4
<1> QED
  BY <1>4, <1>5

LEMMA DecodeIsAfter ==
    ASSUME StackOK(frames), Decode
    PROVE  /\ outcome = "scanning"
           /\ next' = next + 1
           /\ input' = input
           /\ Now' = After(Now, Scanned)
<1>1. outcome = "scanning" /\ next' = next + 1 /\ input' = input
  BY DEF Decode, MapStart, AfterValue, WantKey, WantColon, NoValue, SkipField,
         ScanField, HandleScalar, HandleStruct, HandlePointer, Handles, Scan
<1>2. At3(frames', value', outcome') = After(Now, Scanned)
  BY SimpleStates, KeyState, UnknownState, SkipState, ScalarState, StructState
     DEF Decode
<1> QED
  BY <1>1, <1>2 DEF Now

-----------------------------------------------------------------------------
(* How deep the activations and the brackets being skipped are nested.     *)
InArray(fs) == TopOf(fs).state = "skip" /\ TopOf(fs).open = "left_brace"
InObject(fs) == TopOf(fs).state = "skip" /\ TopOf(fs).open = "left_bracket"

Level(fs) == Len(fs) + (IF InObject(fs) THEN TopOf(fs).depth ELSE 0)

(* A stack whose top is not skipping anything.                             *)
Reading(gs, state, n) ==
    /\ StackOK(gs)
    /\ TopOf(gs).state = state
    /\ Len(gs) = n
    /\ Level(gs) = n
    /\ ~ InArray(gs)

LEMMA ReadingOn ==
    ASSUME NEW gs, StackOK(gs), NEW state, TopOf(gs).state = state,
           state # "skip"
    PROVE  Reading(gs, state, Len(gs))
<1>1. ~ InArray(gs) /\ ~ InObject(gs)
  BY DEF InArray, InObject
<1>2. Level(gs) = Len(gs)
  BY <1>1, TopOK DEF Level
<1> QED
  BY <1>1, <1>2 DEF Reading

LEMMA GoesReading ==
    ASSUME NEW fs, StackOK(fs), NEW state \in States, state # "skip",
           state \in {"want_colon", "want_value"} => TopOf(fs).key # "base"
    PROVE  Reading(Goes(fs, state), state, Len(fs))
<1>1. Moved(fs, Goes(fs, state),
            With(TopOf(fs), state, TopOf(fs).key, TopOf(fs).open,
                 TopOf(fs).depth))
  BY StackGoes
<1>2. /\ StackOK(Goes(fs, state))
      /\ Len(Goes(fs, state)) = Len(fs)
      /\ TopOf(Goes(fs, state)).state = state
  BY <1>1 DEF Moved, With
<1> QED
  BY <1>2, ReadingOn

LEMMA KnowsReading ==
    ASSUME NEW fs, StackOK(fs), NEW t
    PROVE  Reading(Knows(fs, FieldOf(TopOf(fs).struct, t)), "want_colon",
                   Len(fs))
<1> DEFINE key == FieldOf(TopOf(fs).struct, t)
<1>1. TopOf(fs).struct \in Structs
  BY TopParts
<1>2. key \in FieldsIn(TopOf(fs).struct) \cup {"no_such_key"}
  BY <1>1, FieldFound
<1>3. key # "base"
  BY <1>1, <1>2, ListingsAgree
<1> HIDE DEF key
<1>4. Moved(fs, Knows(fs, key),
            With(TopOf(fs), "want_colon", key, TopOf(fs).open,
                 TopOf(fs).depth))
  BY <1>2, <1>3, StackKnows
<1>5. /\ StackOK(Knows(fs, key))
      /\ Len(Knows(fs, key)) = Len(fs)
      /\ TopOf(Knows(fs, key)).state = "want_colon"
  BY <1>4 DEF Moved, With
<1>6. Reading(Knows(fs, key), "want_colon", Len(fs))
  BY <1>5, ReadingOn
<1> QED
  BY <1>6 DEF key

LEMMA LeavesReading ==
    ASSUME NEW fs, StackOK(fs), Len(fs) # 1
    PROVE  Reading(Leaves(fs), "after_value", Len(fs) - 1)
<1>1. Len(Front(fs)) = Len(fs) - 1
  BY FrontOK
<1>2. Moved(Front(fs), Leaves(fs),
            With(fs[Len(fs) - 1], "after_value", fs[Len(fs) - 1].key,
                 fs[Len(fs) - 1].open, fs[Len(fs) - 1].depth))
  BY StackLeaves
<1>3. /\ StackOK(Leaves(fs))
      /\ Len(Leaves(fs)) = Len(fs) - 1
      /\ TopOf(Leaves(fs)).state = "after_value"
  BY <1>1, <1>2 DEF Moved, With
<1> QED
  BY <1>3, ReadingOn

LEMMA EntersReading ==
    ASSUME NEW fs, StackOK(fs), Len(fs) < 3,
           NEW path \in PathsAt(Len(fs) + 1)
    PROVE  Reading(Enters(fs, Nested[Len(fs) + 1], path), "want_key",
                   Len(fs) + 1)
<1> DEFINE gs == Enters(fs, Nested[Len(fs) + 1], path)
<1>1. /\ StackOK(gs)
      /\ Len(gs) = Len(fs) + 1
      /\ TopOf(gs) = Frame(Nested[Len(fs) + 1], "want_key", path)
  BY StackEnters
<1> HIDE DEF gs
<1>2. TopOf(gs).state = "want_key"
  BY <1>1 DEF Frame
<1>3. Reading(gs, "want_key", Len(gs))
  BY <1>1, <1>2, ReadingOn
<1> QED
  BY <1>1, <1>3 DEF gs

LEMMA SkipsSkipping ==
    ASSUME NEW fs, StackOK(fs), NEW open \in {"left_bracket", "left_brace"},
           NEW depth \in Nat, depth > 0
    PROVE  LET gs == Skips(fs, open, depth)
           IN  /\ StackOK(gs)
               /\ TopOf(gs).state = "skip"
               /\ Len(gs) = Len(fs)
               /\ TopOf(gs).open = open
               /\ TopOf(gs).depth = depth
               /\ open = "left_bracket" =>
                     Level(gs) = Len(fs) + depth /\ ~ InArray(gs)
               /\ open = "left_brace" => Level(gs) = Len(fs) /\ InArray(gs)
<1> DEFINE gs == Skips(fs, open, depth)
           fr == With(TopOf(fs), "skip", TopOf(fs).key, open, depth)
<1>1. Moved(fs, gs, fr)
  BY StackSkips
<1>2. fr.state = "skip" /\ fr.open = open /\ fr.depth = depth
  BY DEF With
<1> HIDE DEF gs, fr
<1>3. /\ StackOK(gs)
      /\ TopOf(gs).state = "skip"
      /\ Len(gs) = Len(fs)
      /\ TopOf(gs).open = open
      /\ TopOf(gs).depth = depth
  BY <1>1, <1>2 DEF Moved
<1>4. Len(gs) \in Nat
  BY <1>3, TopOK
<1>5. CASE open = "left_bracket"
  <2>1. InObject(gs) /\ ~ InArray(gs)
    BY <1>3, <1>5 DEF InObject, InArray
  <2>2. Level(gs) = Len(fs) + depth
    BY <1>3, <2>1 DEF Level
  <2> QED
    BY <1>3, <1>5, <2>1, <2>2 DEF gs
<1>6. CASE open = "left_brace"
  <2>1. ~ InObject(gs) /\ InArray(gs)
    BY <1>3, <1>6 DEF InObject, InArray
  <2>2. Level(gs) = Len(fs)
    BY <1>3, <1>4, <2>1 DEF Level
  <2> QED
    BY <1>3, <1>6, <2>1, <2>2 DEF gs
<1> QED
  BY <1>5, <1>6

(* The field of a known key, and what its handler enters.                  *)
LEMMA KnownField ==
    ASSUME NEW fs, StackOK(fs), TopOf(fs).state = "want_value",
           TopOf(fs).key # "no_such_key"
    PROVE  LET top == TopOf(fs)
           IN  /\ top.key \in FieldsIn(top.struct)
               /\ FieldAt(top) = Append(top.path, top.key)
               /\ Kind(top) = Handler[top.struct][top.key]
               /\ Kind(top) \in {"*int", "*float64", "*string", "string",
                                 "esGeoIP", "*esGeoIPLocation"}
               /\ Kind(top) = "esGeoIP" =>
                     /\ Len(fs) = 1
                     /\ FieldAt(top) \in PathsAt(2)
               /\ Kind(top) = "*esGeoIPLocation" =>
                     /\ Len(fs) = 2
                     /\ FieldAt(top) \in PathsAt(3)
<1> DEFINE top == TopOf(fs)
<1>1. /\ top.key \in KeysIn(top.struct)
      /\ top.struct = Nested[Len(fs)]
      /\ top.struct \in Structs
      /\ top.path \in PathsAt(Len(fs))
      /\ top.key # "base"
      /\ top.key # "no_such_key"
  BY TopParts
<1>2. Len(fs) = 1 \/ Len(fs) = 2 \/ Len(fs) = 3
  BY TopOK
<1> HIDE DEF top
<1>3. top.key \in FieldsIn(top.struct)
  BY <1>1 DEF KeysIn
<1>4. Dispatch[top.struct][top.key] = top.key
  BY <1>1, <1>3, Kinds
<1>5. /\ FieldAt(top) = Append(top.path, top.key)
      /\ Kind(top) = Handler[top.struct][top.key]
  BY <1>4 DEF FieldAt, Kind
<1>6. CASE Len(fs) = 1
  <2>1. top.struct = "nf" /\ top.path = <<>>
    BY <1>1, <1>6 DEF Nested, PathsAt
  <2>2. /\ Kind(top) \in {"*int", "*float64", "*string", "string", "esGeoIP"}
        /\ Kind(top) = "esGeoIP" => top.key = "GeoIP"
    BY <1>1, <1>3, <1>5, <2>1, Kinds
  <2>3. top.key = "GeoIP" => FieldAt(top) = <<"GeoIP">>
    BY <1>5, <2>1
  <2>4. <<"GeoIP">> \in PathsAt(2)
    BY DEF PathsAt
  <2> QED
    BY <1>3, <1>5, <1>6, <2>2, <2>3, <2>4 DEF top
<1>7. CASE Len(fs) = 2
  <2>1. top.struct = "esGeoIP" /\ top.path = <<"GeoIP">>
    BY <1>1, <1>7 DEF Nested, PathsAt
  <2>2. /\ Kind(top) \in {"*int", "*float64", "*string", "string",
                          "*esGeoIPLocation"}
        /\ Kind(top) = "*esGeoIPLocation" =>
              top.key \in {"Location", "Coordinates"}
    BY <1>1, <1>3, <1>5, <2>1, Kinds
  <2>3. FieldAt(top) = <<"GeoIP", top.key>>
    BY <1>5, <2>1, AppendedToOne
  <2>4. top.key \in {"Location", "Coordinates"} => FieldAt(top) \in PathsAt(3)
    BY <2>3 DEF PathsAt
  <2> QED
    BY <1>3, <1>5, <1>7, <2>2, <2>4 DEF top
<1>8. CASE Len(fs) = 3
  <2>1. top.struct = "esGeoIPLocation"
    BY <1>1, <1>8 DEF Nested
  <2>2. Kind(top) = "*float64"
    BY <1>1, <1>3, <1>5, <2>1, Kinds
  <2> QED
    BY <1>3, <1>5, <2>2 DEF top
<1> QED
  BY <1>2, <1>6, <1>7, <1>8

-----------------------------------------------------------------------------
(* What a token does to the nesting.                                       *)
LevelsAfter(fs, t, y) ==
    /\ y.outcome \in {"scanning", "done", "error"}
    /\ StackOK(y.frames)
    /\ t.tok \in {"eof", "error"} => y.outcome = "error"
    /\ y.outcome = "done" => /\ t.tok = "right_bracket"
                             /\ Level(fs) = 1
                             /\ ~ InArray(fs)
    /\ y.outcome = "scanning" => TopOf(y.frames).state # "map_start"

(* In an array that is skipped only its own brackets count.                *)
ArraySkipped(fs, t, gs) ==
    \/ /\ InArray(gs)
       /\ Len(gs) = Len(fs)
       /\ TopOf(gs).depth = TopOf(fs).depth
                            + (IF t.tok = "left_brace" THEN 1 ELSE 0)
                            - (IF t.tok = "right_brace" THEN 1 ELSE 0)
    \/ /\ ~ InArray(gs)
       /\ t.tok = "right_brace"
       /\ TopOf(fs).depth = 1
       /\ Level(gs) = Len(fs)

(* Elsewhere the level follows the brackets of the objects.                *)
ObjectRead(fs, t, gs) ==
    \/ /\ InArray(gs)
       /\ t.tok = "left_brace"
       /\ TopOf(gs).depth = 1
       /\ Len(gs) = Level(fs)
    \/ /\ ~ InArray(gs)
       /\ Level(gs) >= Level(fs) + (IF t.tok = "left_bracket" THEN 1 ELSE 0)
                                 - (IF t.tok = "right_bracket" THEN 1 ELSE 0)

Nests(fs, t, y) ==
    /\ LevelsAfter(fs, t, y)
    /\ y.outcome = "scanning" /\ InArray(fs) => ArraySkipped(fs, t, y.frames)
    /\ y.outcome = "scanning" /\ ~ InArray(fs)
       /\ TopOf(fs).state # "map_start" => ObjectRead(fs, t, y.frames)

LEMMA FailedNests ==
    ASSUME NEW z, StackOK(z.frames), NEW t
    PROVE  Nests(z.frames, t, Failed(z))
  BY DEF Nests, LevelsAfter, Failed, At3

LEMMA Outside ==
    ASSUME NEW fs, StackOK(fs), TopOf(fs).state # "skip"
    PROVE  ~ InArray(fs) /\ Level(fs) = Len(fs) /\ Len(fs) \in 1..3
<1>1. ~ InArray(fs) /\ ~ InObject(fs)
  BY DEF InArray, InObject
<1> QED
  BY <1>1, TopOK DEF Level

(* From a state that is not skipping to another one, the level kept.       *)
LEMMA ReadingNests ==
    ASSUME NEW fs, StackOK(fs), TopOf(fs).state # "skip",
           NEW t, t.tok \notin {"eof", "error"},
           NEW gs, NEW v, NEW state \in States \ {"map_start"}, NEW n \in Nat,
           Reading(gs, state, n),
           \/ TopOf(fs).state = "map_start"
           \/ n >= Len(fs) + (IF t.tok = "left_bracket" THEN 1 ELSE 0)
                           - (IF t.tok = "right_bracket" THEN 1 ELSE 0)
    PROVE  Nests(fs, t, At3(gs, v, "scanning"))
<1> DEFINE y == At3(gs, v, "scanning")
<1>1. y.frames = gs /\ y.outcome = "scanning"
  BY DEF At3
<1> HIDE DEF y
<1>2. ~ InArray(fs) /\ Level(fs) = Len(fs)
  BY Outside
<1>3. /\ StackOK(gs) /\ TopOf(gs).state = state
      /\ Level(gs) = n /\ ~ InArray(gs)
  BY DEF Reading
<1>4. LevelsAfter(fs, t, y)
  BY <1>1, <1>3 DEF LevelsAfter
<1>5. TopOf(fs).state # "map_start" => ObjectRead(fs, t, gs)
  BY <1>2, <1>3 DEF ObjectRead
<1> QED
  BY <1>1, <1>2, <1>4, <1>5 DEF Nests, y

LEMMA GoneNests ==
    ASSUME NEW z, StackOK(z.frames), TopOf(z.frames).state # "skip",
           NEW t, t.tok \notin {"eof", "error"},
           TopOf(z.frames).state = "map_start" \/ t.tok # "left_bracket",
           NEW state \in {"want_key", "want_value", "after_value"},
           state = "want_value" => TopOf(z.frames).key # "base",
           NEW v
    PROVE  Nests(z.frames, t, Gone(z, state, v))
<1>1. /\ state \in States \ {"map_start"}
      /\ state # "skip" /\ state # "want_colon"
  BY DEF States
<1>2. Reading(Goes(z.frames, state), state, Len(z.frames))
  BY <1>1, GoesReading
<1>3. Len(z.frames) \in 1..3
  BY TopOK
<1>4. \/ TopOf(z.frames).state = "map_start"
      \/ Len(z.frames) >= Len(z.frames)
                          + (IF t.tok = "left_bracket" THEN 1 ELSE 0)
                          - (IF t.tok = "right_bracket" THEN 1 ELSE 0)
  BY <1>3
<1>5. Len(z.frames) \in Nat
  BY <1>3
<1> HIDE DEF Reading
<1> QED
  BY <1>1, <1>2, <1>4, <1>5, ReadingNests DEF Gone

LEMMA ReturnedNests ==
    ASSUME NEW z, StackOK(z.frames), TopOf(z.frames).state # "skip",
           NEW t, t.tok = "right_bracket"
    PROVE  Nests(z.frames, t, Returned(z))
<1>1. ~ InArray(z.frames) /\ Level(z.frames) = Len(z.frames)
      /\ Len(z.frames) \in 1..3
  BY Outside
<1>2. CASE Len(z.frames) = 1
  <2>1. Returned(z) = At3(z.frames, z.value, "done")
    BY <1>2 DEF Returned
  <2> QED
    BY <1>1, <1>2, <2>1 DEF Nests, LevelsAfter, At3
<1>3. CASE Len(z.frames) # 1
  <2>1. Returned(z) = At3(Leaves(z.frames), z.value, "scanning")
    BY <1>3 DEF Returned
  <2>2. Reading(Leaves(z.frames), "after_value", Len(z.frames) - 1)
    BY <1>3, LeavesReading
  <2>3. "after_value" \in States \ {"map_start"}
    BY DEF States
  <2>4. Len(z.frames) - 1 >= Len(z.frames)
                             + (IF t.tok = "left_bracket" THEN 1 ELSE 0)
                             - (IF t.tok = "right_bracket" THEN 1 ELSE 0)
    BY <1>1
  <2>5. Len(z.frames) - 1 \in Nat
    BY <1>1, <1>3
  <2> QED
    BY <2>1, <2>2, <2>3, <2>4, <2>5, ReadingNests
<1> QED
  BY <1>2, <1>3

LEMMA OneToken ==
    ASSUME NEW n \in Nat, NEW tok
    PROVE  n + 1 >= n + (IF tok = "left_bracket" THEN 1 ELSE 0)
                      - (IF tok = "right_bracket" THEN 1 ELSE 0)
  OBVIOUS

LEMMA EnteredNests ==
    ASSUME NEW z, StackOK(z.frames), TopOf(z.frames).state = "want_value",
           TopOf(z.frames).key # "no_such_key",
           NEW t, t.tok \in ValueTokens, NEW v, NEW struct,
           \/ Kind(TopOf(z.frames)) = "esGeoIP" /\ struct = "esGeoIP"
           \/ /\ Kind(TopOf(z.frames)) = "*esGeoIPLocation"
              /\ struct = "esGeoIPLocation"
    PROVE  Nests(z.frames, t,
                 At3(Enters(z.frames, struct, FieldAt(TopOf(z.frames))), v,
                     "scanning"))
<1> DEFINE fs == z.frames
           path == FieldAt(TopOf(fs))
<1>1. /\ Kind(TopOf(fs)) = "esGeoIP" => Len(fs) = 1 /\ path \in PathsAt(2)
      /\ Kind(TopOf(fs)) = "*esGeoIPLocation" =>
            Len(fs) = 2 /\ path \in PathsAt(3)
  BY KnownField
<1> HIDE DEF path
<1>8. /\ Len(fs) = 1 \/ Len(fs) = 2
      /\ path \in PathsAt(Len(fs) + 1)
      /\ struct = Nested[Len(fs) + 1]
      /\ StackOK(fs) /\ Len(fs) < 3
  <2>1. Nested[1 + 1] = "esGeoIP" /\ Nested[2 + 1] = "esGeoIPLocation"
    BY DEF Nested
  <2>2. CASE Kind(TopOf(fs)) = "esGeoIP"
    <3>1. Len(fs) = 1 /\ struct = "esGeoIP" /\ path \in PathsAt(1 + 1)
      BY <1>1, <2>2
    <3> QED
      BY <2>1, <3>1
  <2>3. CASE Kind(TopOf(fs)) = "*esGeoIPLocation"
    <3>1. Len(fs) = 2 /\ struct = "esGeoIPLocation" /\ path \in PathsAt(2 + 1)
      BY <1>1, <2>3
    <3> QED
      BY <2>1, <3>1
  <2> QED
    BY <2>2, <2>3
<1>2. Reading(Enters(fs, struct, path), "want_key", Len(fs) + 1)
  BY <1>8, EntersReading
<1>3. t.tok \notin {"eof", "error"}
  BY DEF ValueTokens
<1>4. "want_key" \in States \ {"map_start"}
  BY DEF States
<1>9. Len(fs) \in Nat
  BY TopOK
<1>5. Len(fs) + 1 \in Nat
  BY <1>9
<1>6. Len(fs) + 1 >= Len(fs) + (IF t.tok = "left_bracket" THEN 1 ELSE 0)
                             - (IF t.tok = "right_bracket" THEN 1 ELSE 0)
  BY <1>9, OneToken
<1>7. Nests(fs, t, At3(Enters(fs, struct, path), v, "scanning"))
  BY <1>2, <1>3, <1>4, <1>5, <1>6, ReadingNests
<1> QED
  BY <1>7 DEF path

LEMMA FieldNests ==
    ASSUME NEW z, StackOK(z.frames), TopOf(z.frames).state = "want_value",
           TopOf(z.frames).key # "no_such_key", NEW t, t.tok \in ValueTokens
    PROVE  Nests(z.frames, t, ReadField(z, t, Kind(TopOf(z.frames)),
                                        FieldAt(TopOf(z.frames))))
<1> DEFINE kind == Kind(TopOf(z.frames))
           field == FieldAt(TopOf(z.frames))
<1>1. t.tok \notin {"eof", "error"}
  BY DEF ValueTokens
<1>2. kind \in {"*int", "*float64", "*string", "string", "esGeoIP",
                "*esGeoIPLocation"}
  BY KnownField
<1>3. ASSUME NEW v, t.tok # "left_bracket"
      PROVE  Nests(z.frames, t, Gone(z, "after_value", v))
  BY <1>1, <1>3, GoneNests
<1>4. Nests(z.frames, t, Failed(z))
  BY FailedNests
<1>5. \A v : kind = "esGeoIP" =>
         Nests(z.frames, t, At3(Enters(z.frames, "esGeoIP", field), v,
                                "scanning"))
  BY EnteredNests
<1>6. \A v : kind = "*esGeoIPLocation" =>
         Nests(z.frames, t,
               At3(Enters(z.frames, "esGeoIPLocation", field), v, "scanning"))
  BY EnteredNests
<1> HIDE DEF kind, field
<1> SUFFICES ASSUME NEW y, y = ReadField(z, t, kind, field)
             PROVE  Nests(z.frames, t, y)
  BY DEF kind, field
<1>7. CASE kind = "esGeoIP"
  <2>1. y = ReadStruct(z, t, field)
    BY <1>7 DEF ReadField
  <2>2. CASE t.tok = "null"
    <3>1. y = Gone(z, "after_value", z.value)
      BY <2>1, <2>2 DEF ReadStruct
    <3> QED
      BY <1>3, <2>2, <3>1
  <2>3. CASE t.tok # "null"
    <3>1. y = At3(Enters(z.frames, "esGeoIP", field), z.value, "scanning")
      BY <2>1, <2>3 DEF ReadStruct
    <3> QED
      BY <1>5, <1>7, <3>1
  <2> QED
    BY <2>2, <2>3
<1>8. CASE kind = "*esGeoIPLocation"
  <2>1. y = ReadPointer(z, t, field)
    BY <1>8 DEF ReadField
  <2>2. CASE t.tok = "null"
    <3>1. y = Gone(z, "after_value", Cleared(z.value, field))
      BY <2>1, <2>2 DEF ReadPointer
    <3> QED
      BY <1>3, <2>2, <3>1
  <2>3. CASE t.tok # "null"
    <3>1. PICK v : y = At3(Enters(z.frames, "esGeoIPLocation", field), v,
                           "scanning")
      BY <2>1, <2>3 DEF ReadPointer
    <3> QED
      BY <1>6, <1>8, <3>1
  <2> QED
    BY <2>2, <2>3
<1>9. CASE kind \in DOMAIN Accepts
  <2>1. t.tok \in Accepts[kind] => t.tok # "left_bracket"
    BY <1>9, AcceptsIs
  <2>2. y = ReadScalar(z, t, kind, field)
    BY <1>9, AcceptsIs DEF ReadField
  <2>3. \/ y = Failed(z)
        \/ t.tok # "left_bracket" /\ \E v : y = Gone(z, "after_value", v)
    BY <2>1, <2>2 DEF ReadScalar
  <2> QED
    BY <1>3, <1>4, <2>3
<1> QED
  BY <1>2, <1>7, <1>8, <1>9, AcceptsIs

LEMMA UnknownNests ==
    ASSUME NEW z, StackOK(z.frames), TopOf(z.frames).state = "want_value",
           NEW t, t.tok \in ValueTokens
    PROVE  Nests(z.frames, t, ReadUnknown(z, t))
<1> DEFINE fs == z.frames
           y == ReadUnknown(z, t)
<1>1. t.tok \notin {"eof", "error"}
  BY DEF ValueTokens
<1>2. CASE t.tok \in {"left_bracket", "left_brace"}
  <2> DEFINE gs == Skips(fs, t.tok, 1)
  <2>1. y = At3(gs, z.value, "scanning")
    BY <1>2 DEF ReadUnknown
  <2>2. 1 \in Nat /\ 1 > 0
    OBVIOUS
  <2>3. /\ StackOK(gs)
        /\ TopOf(gs).state = "skip"
        /\ Len(gs) = Len(fs)
        /\ TopOf(gs).depth = 1
        /\ t.tok = "left_bracket" =>
              Level(gs) = Len(fs) + 1 /\ ~ InArray(gs)
        /\ t.tok = "left_brace" => Level(gs) = Len(fs) /\ InArray(gs)
    BY <1>2, <2>2, SkipsSkipping
  <2> HIDE DEF gs, y
  <2>4. y.frames = gs /\ y.outcome = "scanning"
    BY <2>1 DEF At3
  <2>5. ~ InArray(fs) /\ Level(fs) = Len(fs) /\ Len(fs) \in 1..3
    BY Outside
  <2>6. LevelsAfter(fs, t, y)
    BY <1>1, <2>3, <2>4 DEF LevelsAfter
  <2>7. ObjectRead(fs, t, gs)
    <3>1. CASE t.tok = "left_brace"
      BY <2>3, <2>5, <3>1 DEF ObjectRead
    <3>2. CASE t.tok = "left_bracket"
      BY <2>3, <2>5, <3>2 DEF ObjectRead
    <3> QED
      BY <1>2, <3>1, <3>2
  <2> QED
    BY <2>4, <2>5, <2>6, <2>7 DEF Nests, y
<1>3. CASE t.tok \notin {"left_bracket", "left_brace"}
  <2>1. y = Gone(z, "after_value", z.value)
    BY <1>3 DEF ReadUnknown
  <2> QED
    BY <1>1, <1>3, <2>1, GoneNests
<1> QED
  BY <1>2, <1>3

LEMMA SkipNests ==
    ASSUME NEW z, StackOK(z.frames), TopOf(z.frames).state = "skip",
           z.outcome = "scanning", NEW t
    PROVE  Nests(z.frames, t, FromSkip(z, t))
<1> DEFINE fs == z.frames
           top == TopOf(fs)
           y == FromSkip(z, t)
<1>1. /\ top.depth \in Nat
      /\ top.depth > 0
      /\ top.open \in {"left_bracket", "left_brace"}
  BY TopParts
<1>2. Len(fs) \in 1..3
  BY TopOK
<1>3. /\ top.open = "left_bracket" => Close[top.open] = "right_bracket"
      /\ top.open = "left_brace" => Close[top.open] = "right_brace"
  BY CloseIs
<1>4. /\ InArray(fs) <=> top.open = "left_brace"
      /\ InObject(fs) <=> top.open = "left_bracket"
  BY DEF InArray, InObject
<1>5. /\ top.open = "left_bracket" => Level(fs) = Len(fs) + top.depth
      /\ top.open = "left_brace" => Level(fs) = Len(fs)
  BY <1>1, <1>2, <1>4 DEF Level
<1> HIDE DEF y
<1>6. CASE t.tok = Close[top.open] /\ top.depth = 1
  <2> DEFINE gs == Goes(fs, "after_value")
  <2>1. y = Gone(z, "after_value", z.value)
    BY <1>6 DEF FromSkip, y
  <2>2. y = At3(gs, z.value, "scanning")
    BY <2>1 DEF Gone
  <2>3. Reading(gs, "after_value", Len(fs))
    BY GoesReading DEF States
  <2> HIDE DEF gs
  <2>4. y.frames = gs /\ y.outcome = "scanning"
    BY <2>2 DEF At3
  <2>5. /\ StackOK(gs) /\ TopOf(gs).state = "after_value"
        /\ Level(gs) = Len(fs) /\ ~ InArray(gs)
    BY <2>3 DEF Reading
  <2>6. t.tok \notin {"eof", "error"}
    BY <1>1, <1>3, <1>6
  <2>7. LevelsAfter(fs, t, y)
    BY <2>4, <2>5, <2>6 DEF LevelsAfter
  <2>8. CASE top.open = "left_brace"
    <3>1. ArraySkipped(fs, t, gs)
      BY <1>3, <1>6, <2>5, <2>8 DEF ArraySkipped
    <3> QED
      BY <1>4, <2>4, <2>7, <2>8, <3>1 DEF Nests, y
  <2>9. CASE top.open = "left_bracket"
    <3>1. t.tok = "right_bracket"
      BY <1>3, <1>6, <2>9
    <3>2. Level(gs) >= Level(fs) + (IF t.tok = "left_bracket" THEN 1 ELSE 0)
                                 - (IF t.tok = "right_bracket" THEN 1 ELSE 0)
      BY <1>2, <1>5, <1>6, <2>5, <2>9, <3>1
    <3>3. ObjectRead(fs, t, gs)
      BY <2>5, <3>2 DEF ObjectRead
    <3> QED
      BY <1>4, <2>4, <2>7, <2>9, <3>3 DEF Nests, y
  <2> QED
    BY <1>1, <2>8, <2>9
<1>7. ASSUME NEW d \in Nat, d > 0,
             y = At3(Skips(fs, top.open, d), z.value, "scanning"),
             \/ t.tok = top.open /\ d = top.depth + 1
             \/ t.tok = Close[top.open] /\ d = top.depth - 1
      PROVE  Nests(fs, t, y)
  <2> DEFINE gs == Skips(fs, top.open, d)
  <2>8. top.open \in {"left_bracket", "left_brace"} /\ d > 0
    BY <1>1, <1>7
  <2>1. /\ StackOK(gs)
        /\ TopOf(gs).state = "skip"
        /\ Len(gs) = Len(fs)
        /\ TopOf(gs).depth = d
        /\ top.open = "left_bracket" =>
              Level(gs) = Len(fs) + d /\ ~ InArray(gs)
        /\ top.open = "left_brace" => Level(gs) = Len(fs) /\ InArray(gs)
    BY <2>8, SkipsSkipping
  <2>2. y = At3(gs, z.value, "scanning")
    BY <1>7
  <2> HIDE DEF gs
  <2>3. y.frames = gs /\ y.outcome = "scanning"
    BY <2>2 DEF At3
  <2>4. t.tok \notin {"eof", "error"}
    BY <1>1, <1>3, <1>7
  <2>5. LevelsAfter(fs, t, y)
    BY <2>1, <2>3, <2>4 DEF LevelsAfter
  <2>6. CASE top.open = "left_brace"
    <3>1. d = top.depth + (IF t.tok = "left_brace" THEN 1 ELSE 0)
                        - (IF t.tok = "right_brace" THEN 1 ELSE 0)
      BY <1>1, <1>3, <1>7, <2>6
    <3>2. ArraySkipped(fs, t, gs)
      BY <2>1, <2>6, <3>1 DEF ArraySkipped
    <3> QED
      BY <1>4, <2>3, <2>5, <2>6, <3>2 DEF Nests
  <2>7. CASE top.open = "left_bracket"
    <3>1. d = top.depth + (IF t.tok = "left_bracket" THEN 1 ELSE 0)
                        - (IF t.tok = "right_bracket" THEN 1 ELSE 0)
      BY <1>1, <1>3, <1>7, <2>7
    <3>2. Level(gs) >= Level(fs) + (IF t.tok = "left_bracket" THEN 1 ELSE 0)
                                 - (IF t.tok = "right_bracket" THEN 1 ELSE 0)
      BY <1>1, <1>2, <1>5, <2>1, <2>7, <3>1
    <3>3. ObjectRead(fs, t, gs)
      BY <2>1, <2>7, <3>2 DEF ObjectRead
    <3> QED
      BY <1>4, <2>3, <2>5, <2>7, <3>3 DEF Nests
  <2> QED
    BY <1>1, <2>6, <2>7
<1>8. CASE t.tok = Close[top.open] /\ top.depth # 1
  <2>1. y = At3(Skips(fs, top.open, top.depth - 1), z.value, "scanning")
    BY <1>8 DEF FromSkip, y
  <2>2. top.depth - 1 \in Nat /\ top.depth - 1 > 0
    BY <1>1, <1>8
  <2> QED
    BY <1>7, <1>8, <2>1, <2>2 DEF y
<1>9. CASE t.tok = top.open
  <2>1. t.tok # Close[top.open]
    BY <1>1, <1>3, <1>9
  <2>2. y = At3(Skips(fs, top.open, top.depth + 1), z.value, "scanning")
    BY <1>9, <2>1 DEF FromSkip, y
  <2>3. top.depth + 1 \in Nat /\ top.depth + 1 > 0
    BY <1>1
  <2> QED
    BY <1>7, <1>9, <2>2, <2>3 DEF y
<1>10. CASE t.tok \in {"eof", "error"}
  <2>1. y = Failed(z)
    BY <1>1, <1>3, <1>10 DEF FromSkip, y
  <2> QED
    BY <2>1, FailedNests DEF y
<1>11. CASE t.tok \notin {Close[top.open], top.open, "eof", "error"}
  <2>1. y = z
    BY <1>11 DEF FromSkip, y
  <2>2. LevelsAfter(fs, t, y)
    BY <1>11, <2>1 DEF LevelsAfter
  <2>3. CASE top.open = "left_brace"
    <3>1. top.depth = top.depth + (IF t.tok = "left_brace" THEN 1 ELSE 0)
                                - (IF t.tok = "right_brace" THEN 1 ELSE 0)
      BY <1>1, <1>3, <1>11, <2>3
    <3>2. ArraySkipped(fs, t, fs)
      BY <1>4, <2>3, <3>1 DEF ArraySkipped
    <3> QED
      BY <1>4, <2>1, <2>2, <2>3, <3>2 DEF Nests, y
  <2>4. CASE top.open = "left_bracket"
    <3>1. t.tok # "left_bracket" /\ t.tok # "right_bracket"
      BY <1>3, <1>11, <2>4
    <3>2. Level(fs) >= Level(fs) + (IF t.tok = "left_bracket" THEN 1 ELSE 0)
                                 - (IF t.tok = "right_bracket" THEN 1 ELSE 0)
      BY <1>1, <1>2, <1>5, <2>4, <3>1
    <3>3. ObjectRead(fs, t, fs)
      BY <1>4, <2>4, <3>2 DEF ObjectRead
    <3> QED
      BY <1>4, <2>1, <2>2, <2>4, <3>3 DEF Nests, y
  <2> QED
    BY <1>1, <2>3, <2>4
<1> QED
  BY <1>6, <1>8, <1>9, <1>10, <1>11 DEF y

LEMMA KeyNests ==
    ASSUME NEW z, StackOK(z.frames), TopOf(z.frames).state = "want_key", NEW t
    PROVE  Nests(z.frames, t, FromWantKey(z, t))
<1> DEFINE fs == z.frames
           gs == Knows(fs, FieldOf(TopOf(fs).struct, t))
<1>1. CASE t.tok = "right_bracket"
  <2>1. Nests(fs, t, Returned(z))
    BY <1>1, ReturnedNests
  <2> QED
    BY <1>1, <2>1 DEF FromWantKey
<1>2. CASE t.tok = "string"
  <2>1. Reading(gs, "want_colon", Len(fs))
    BY KnowsReading
  <2>2. "want_colon" \in States \ {"map_start"}
    BY DEF States
  <2>3. Len(fs) \in Nat
    BY TopOK
  <2>4. Len(fs) >= Len(fs) + (IF t.tok = "left_bracket" THEN 1 ELSE 0)
                           - (IF t.tok = "right_bracket" THEN 1 ELSE 0)
    BY <1>2, <2>3
  <2>5. t.tok \notin {"eof", "error"}
    BY <1>2
  <2>6. Nests(fs, t, At3(gs, z.value, "scanning"))
    BY <2>1, <2>2, <2>3, <2>4, <2>5, ReadingNests
  <2> QED
    BY <1>2, <2>6 DEF FromWantKey
<1>3. CASE t.tok \notin {"right_bracket", "string"}
  <2>1. Nests(fs, t, Failed(z))
    BY FailedNests
  <2> QED
    BY <1>3, <2>1 DEF FromWantKey
<1> QED
  BY <1>1, <1>2, <1>3

LEMMA MarkNests ==
    ASSUME NEW z, StackOK(z.frames), NEW t,
           TopOf(z.frames).state \in {"map_start", "after_value", "want_colon"}
    PROVE  Nests(z.frames, t, After(z, t))
<1> DEFINE state == TopOf(z.frames).state
<1>1. Nests(z.frames, t, Failed(z))
  BY FailedNests
<1>2. CASE state = "map_start"
  <2>1. t.tok = "left_bracket" =>
           Nests(z.frames, t, Gone(z, "want_key", z.value))
    BY <1>2, GoneNests
  <2>2. Nests(z.frames, t, FromMapStart(z, t))
    BY <1>1, <2>1 DEF FromMapStart
  <2> QED
    BY <1>2, <2>2 DEF After
<1>3. CASE state = "after_value"
  <2>1. t.tok = "comma" => Nests(z.frames, t, Gone(z, "want_key", z.value))
    BY <1>3, GoneNests
  <2>2. t.tok = "right_bracket" => Nests(z.frames, t, Returned(z))
    BY <1>3, ReturnedNests
  <2>3. Nests(z.frames, t, FromAfterValue(z, t))
    BY <1>1, <2>1, <2>2 DEF FromAfterValue
  <2> QED
    BY <1>3, <2>3 DEF After
<1>4. CASE state = "want_colon"
  <2>1. TopOf(z.frames).key # "base"
    BY <1>4, TopParts
  <2>2. t.tok = "colon" => Nests(z.frames, t, Gone(z, "want_value", z.value))
    BY <1>4, <2>1, GoneNests
  <2>3. Nests(z.frames, t, FromWantColon(z, t))
    BY <1>1, <2>2 DEF FromWantColon
  <2> QED
    BY <1>4, <2>3 DEF After
<1> QED
  BY <1>2, <1>3, <1>4

LEMMA AfterNests ==
    ASSUME NEW z, StackOK(z.frames), z.outcome = "scanning", NEW t
    PROVE  Nests(z.frames, t, After(z, t))
<1> DEFINE state == TopOf(z.frames).state
<1>1. state \in States
  BY TopParts
<1>2. CASE state \in {"map_start", "after_value", "want_colon"}
  BY <1>2, MarkNests
<1>3. CASE state = "want_key"
  <2>1. Nests(z.frames, t, FromWantKey(z, t))
    BY <1>3, KeyNests
  <2> QED
    BY <1>3, <2>1 DEF After
<1>4. CASE state = "skip"
  <2>1. Nests(z.frames, t, FromSkip(z, t))
    BY <1>4, SkipNests
  <2> QED
    BY <1>4, <2>1 DEF After
<1>5. CASE state = "want_value"
  <2>1. After(z, t) = FromWantValue(z, t)
    BY <1>5 DEF After
  <2>2. CASE t.tok \notin ValueTokens
    <3>1. Nests(z.frames, t, Failed(z))
      BY FailedNests
    <3> QED
      BY <2>1, <2>2, <3>1 DEF FromWantValue
  <2>3. CASE t.tok \in ValueTokens /\ TopOf(z.frames).key = "no_such_key"
    <3>1. Nests(z.frames, t, ReadUnknown(z, t))
      BY <1>5, <2>3, UnknownNests
    <3> QED
      BY <2>1, <2>3, <3>1 DEF FromWantValue
  <2>4. CASE t.tok \in ValueTokens /\ TopOf(z.frames).key # "no_such_key"
    <3>1. Nests(z.frames, t, ReadField(z, t, Kind(TopOf(z.frames)),
                                       FieldAt(TopOf(z.frames))))
      BY <1>5, <2>4, FieldNests
    <3> QED
      BY <2>1, <2>4, <3>1 DEF FromWantValue
  <2> QED
    BY <2>2, <2>3, <2>4
<1> QED
  BY <1>1, <1>2, <1>3, <1>4, <1>5 DEF States

-----------------------------------------------------------------------------
(* What is marshalled is a sequence of tokens.                             *)
Spellings == UNION {{Tag[s][g] : g \in FieldsIn(s)} : s \in Structs}

TokensOf(v) ==
    [tok : {"string", "null", "integer", "double", "comma", "colon",
            "left_bracket", "right_bracket"},
     text : Range(v) \cup {"empty"} \cup Spellings, spelled : {"exact"}]

LEMMA MarksAreTokens ==
    ASSUME NEW v
    PROVE  /\ Mark("comma") \in TokensOf(v)
           /\ Mark("colon") \in TokensOf(v)
           /\ Mark("null") \in TokensOf(v)
           /\ Mark("left_bracket") \in TokensOf(v)
           /\ Mark("right_bracket") \in TokensOf(v)
  BY DEF Mark, TokensOf

LEMMA KeyIsToken ==
    ASSUME NEW v, NEW s \in Structs, NEW g \in FieldsIn(s)
    PROVE  Word(Tag[s][g], "exact") \in TokensOf(v)
<1> DEFINE key == Tag[s][g]
<1>1. key \in Spellings
  BY DEF Spellings
<1> HIDE DEF key
<1>2. Word(key, "exact") \in TokensOf(v)
  BY <1>1 DEF Word, TokensOf
<1> QED
  BY <1>2 DEF key

LEMMA ValueIsToken ==
    ASSUME NEW v, NEW quoted, NEW at
    PROVE  ValueToken(quoted, v, at) \in TokensOf(v)
<1>1. CASE at \notin DOMAIN v
  BY <1>1, MarksAreTokens DEF ValueToken
<1>2. CASE at \in DOMAIN v
  <2>1. v[at] \in Range(v)
    BY <1>2 DEF Range
  <2>2. PICK tok \in {"string", "integer", "double"} :
           ValueToken(quoted, v, at) = [text |-> v[at], spelled |-> "exact",
                                        tok |-> tok]
    BY <1>2 DEF ValueToken
  <2> QED
    BY <2>1, <2>2 DEF TokensOf
<1> QED
  BY <1>1, <1>2

LEMMA OneOf ==
    ASSUME NEW S, NEW x \in S
    PROVE  <<x>> \in Seq(S) /\ Len(<<x>>) = 1 /\ <<x>>[1] = x
  OBVIOUS

LEMMA PairIsText ==
    ASSUME NEW v, NEW s \in Structs, NEW g \in FieldsIn(s),
           NEW val \in Seq(TokensOf(v))
    PROVE  /\ Pair(Tag[s][g], val) \in Seq(TokensOf(v))
           /\ Len(Pair(Tag[s][g], val)) = 2 + Len(val)
           /\ Pair(Tag[s][g], val)[1] = Word(Tag[s][g], "exact")
           /\ Pair(Tag[s][g], val)[2] = Mark("colon")
           /\ \A k \in 1..Len(val) : Pair(Tag[s][g], val)[2 + k] = val[k]
<1> DEFINE S == TokensOf(v)
           a == Word(Tag[s][g], "exact")
           b == Mark("colon")
           c == <<a, b>>
<1>1. a \in S /\ b \in S
  BY KeyIsToken, MarksAreTokens
<1>2. Pair(Tag[s][g], val) = c \o val
  BY DEF Pair
<1> HIDE DEF a, b, S
<1>3. c \in Seq(S) /\ Len(c) = 2 /\ c[1] = a /\ c[2] = b
  BY <1>1
<1> HIDE DEF c
<1>4. val \in Seq(S)
  BY DEF S
<1>5. /\ c \o val \in Seq(S)
      /\ Len(c \o val) = Len(c) + Len(val)
      /\ \A k \in 1..Len(c) : (c \o val)[k] = c[k]
      /\ \A k \in 1..Len(val) : (c \o val)[Len(c) + k] = val[k]
  BY <1>3, <1>4, Joined
<1>6. (c \o val)[1] = a /\ (c \o val)[2] = b
  BY <1>3, <1>5
<1> QED
  BY <1>2, <1>3, <1>5, <1>6 DEF S, a, b

LEMMA PutIsText ==
    ASSUME NEW v, NEW s \in Structs, NEW g \in FieldsIn(s),
           NEW val \in Seq(TokensOf(v))
    PROVE  LET text == Put(Tag[s][g], val)
           IN  /\ text \in Seq(TokensOf(v))
               /\ Len(text) = 3 + Len(val)
               /\ text[1] = Word(Tag[s][g], "exact")
               /\ text[2] = Mark("colon")
               /\ \A k \in 1..Len(val) : text[2 + k] = val[k]
               /\ text[3 + Len(val)] = Mark("comma")
<1> DEFINE S == TokensOf(v)
           p == Pair(Tag[s][g], val)
           c == <<Mark("comma")>>
           text == p \o c
<1>1. /\ p \in Seq(S)
      /\ Len(p) = 2 + Len(val)
      /\ p[1] = Word(Tag[s][g], "exact")
      /\ p[2] = Mark("colon")
      /\ \A k \in 1..Len(val) : p[2 + k] = val[k]
  BY PairIsText
<1>2. c \in Seq(S) /\ Len(c) = 1 /\ c[1] = Mark("comma")
  BY MarksAreTokens, OneOf
<1>3. Put(Tag[s][g], val) = text
  BY DEF Put
<1>4. Len(val) \in Nat
  OBVIOUS
<1> HIDE DEF p, c, S
<1>8. p \in Seq(S) /\ c \in Seq(S)
  BY <1>1, <1>2
<1>5. /\ text \in Seq(S)
      /\ Len(text) = Len(p) + Len(c)
      /\ \A k \in 1..Len(p) : text[k] = p[k]
      /\ \A k \in 1..Len(c) : text[Len(p) + k] = c[k]
  BY <1>8, Joined
<1> HIDE DEF text
<1>6. /\ text[1] = p[1] /\ text[2] = p[2]
      /\ \A k \in 1..Len(val) : text[2 + k] = p[2 + k]
      /\ text[2 + Len(val) + 1] = c[1]
  BY <1>1, <1>2, <1>4, <1>5
<1>7. 2 + Len(val) + 1 = 3 + Len(val)
  BY <1>4
<1> QED
  BY <1>1, <1>2, <1>3, <1>4, <1>5, <1>6, <1>7 DEF S

LEMMA BracedIsText ==
    ASSUME NEW v, NEW tokens \in Seq(TokensOf(v))
    PROVE  /\ Braced(tokens) \in Seq(TokensOf(v))
           /\ Len(Braced(tokens)) = Len(tokens) + 2
           /\ Braced(tokens)[1] = Mark("left_bracket")
           /\ \A k \in 1..Len(tokens) : Braced(tokens)[1 + k] = tokens[k]
           /\ Braced(tokens)[Len(tokens) + 2] = Mark("right_bracket")
<1> DEFINE S == TokensOf(v)
           a == <<Mark("left_bracket")>>
           b == <<Mark("right_bracket")>>
           c == a \o tokens
<1>1. /\ a \in Seq(S) /\ Len(a) = 1 /\ a[1] = Mark("left_bracket")
      /\ b \in Seq(S) /\ Len(b) = 1 /\ b[1] = Mark("right_bracket")
  BY MarksAreTokens, OneOf
<1>2. Braced(tokens) = c \o b
  BY DEF Braced
<1>3. Len(tokens) \in Nat /\ tokens \in Seq(S)
  OBVIOUS
<1> HIDE DEF a, b, S
<1>4. /\ c \in Seq(S)
      /\ Len(c) = Len(a) + Len(tokens)
      /\ \A k \in 1..Len(a) : c[k] = a[k]
      /\ \A k \in 1..Len(tokens) : c[Len(a) + k] = tokens[k]
  BY <1>1, <1>3, Joined
<1> HIDE DEF c
<1>8. c \in Seq(S) /\ b \in Seq(S)
  BY <1>1, <1>4
<1>5. /\ c \o b \in Seq(S)
      /\ Len(c \o b) = Len(c) + Len(b)
      /\ \A k \in 1..Len(c) : (c \o b)[k] = c[k]
      /\ \A k \in 1..Len(b) : (c \o b)[Len(c) + k] = b[k]
  BY <1>8, Joined
<1>6. /\ (c \o b)[1] = c[1]
      /\ \A k \in 1..Len(tokens) : (c \o b)[1 + k] = c[1 + k]
      /\ (c \o b)[Len(tokens) + 2] = b[1]
  BY <1>1, <1>3, <1>4, <1>5
<1>7. c[1] = a[1] /\ Len(c \o b) = Len(tokens) + 2
  BY <1>1, <1>3, <1>4, <1>5
<1> QED
  BY <1>1, <1>2, <1>3, <1>4, <1>5, <1>6, <1>7 DEF S

(* The members of a struct, each between two positions of the whole.       *)
LEMMA MembersAreText ==
    ASSUME NEW S, NEW s \in Structs, NEW put,
           \A g \in FieldsIn(s) : put[g] \in Seq(S)
    PROVE  /\ Members(s, put) \in Seq(S)
           /\ \E o : Laid([k \in DOMAIN Enum[s] |-> put[Enum[s][k]]], o,
                          Members(s, put))
<1> DEFINE ps == [k \in DOMAIN Enum[s] |-> put[Enum[s][k]]]
           n == Len(Enum[s])
<1>1. Enum[s] \in Seq(FieldsIn(s)) /\ n > 0 /\ n \in Nat
  BY EnumsAreSequences
<1>2. DOMAIN Enum[s] = 1..n /\ \A k \in 1..n : Enum[s][k] \in FieldsIn(s)
  BY <1>1
<1>3. Members(s, put) = FlattenSeq(ps)
  BY DEF Members
<1> HIDE DEF n
<1>4. ps \in [1..n -> Seq(S)]
  BY <1>2
<1> HIDE DEF ps
<1>5. ps \in Seq(Seq(S)) /\ Len(ps) > 0
  BY <1>1, <1>4
<1>6. FlattenSeq(ps) \in Seq(S) /\ \E o : Laid(ps, o, FlattenSeq(ps))
  BY <1>5, Flattened
<1> QED
  BY <1>3, <1>6 DEF ps

(* The fields that are always written.                                     *)
LEMMA AlwaysFields ==
    "GeoIP" \in FieldsIn("nf") /\ "Oobmark" \in FieldsIn("nf")
<1> DEFINE a == EnumFromAhespspi
           b == EnumFromIpttl
           c == EnumFromReplyipdaddrstr
<1>1. /\ a = [i \in 1..43 |-> a[i]]
      /\ b = [i \in 1..43 |-> b[i]] /\ b[17] = "Oobmark"
      /\ c = [i \in 1..43 |-> c[i]] /\ c[43] = "GeoIP"
  BY DEF EnumFromAhespspi, EnumFromIpttl, EnumFromReplyipdaddrstr
<1> HIDE DEF a, b, c
<1> DEFINE S == Range(a) \cup Range(b) \cup Range(c)
<1>2. /\ a \in Seq(Range(a)) /\ Len(a) = 43
      /\ b \in Seq(Range(b)) /\ Len(b) = 43
      /\ c \in Seq(Range(c)) /\ Len(c) = 43
  <2>1. \A s : s = [i \in 1..43 |-> s[i]] => s \in Seq(Range(s)) /\ Len(s) = 43
    BY IsSequence
  <2> QED
    BY <1>1, <2>1
<1>3. a \in Seq(S) /\ b \in Seq(S) /\ c \in Seq(S)
  BY <1>2
<1> HIDE DEF S
<1> DEFINE d == a \o b
<1>4. /\ d \in Seq(S) /\ Len(d) = Len(a) + Len(b)
      /\ \A k \in 1..Len(b) : d[Len(a) + k] = b[k]
  BY <1>3, Joined
<1> HIDE DEF d
<1>11. d \in Seq(S) /\ c \in Seq(S) /\ Len(d) = 86 /\ Len(c) = 43
  BY <1>2, <1>3, <1>4
<1> DEFINE e == d \o c
<1>12. /\ e \in Seq(S) /\ Len(e) = Len(d) + Len(c)
       /\ \A k \in 1..Len(d) : e[k] = d[k]
       /\ \A k \in 1..Len(c) : e[Len(d) + k] = c[k]
  <2>1. d \in Seq(S) /\ c \in Seq(S)
    BY <1>11
  <2> QED
    BY <2>1, Joined
<1>6. EnumNf = e
  BY DEF EnumNf, a, b, c, d
<1> HIDE DEF e
<1>7. EnumNf \in Seq(S) /\ Len(EnumNf) = 129
  BY <1>6, <1>11, <1>12
<1>8. e[60] = b[17]
  <2>1. d[60] = b[17]
    BY <1>2, <1>4
  <2>2. 60 \in 1..Len(d)
    BY <1>11
  <2>3. e[60] = d[60]
    BY <1>12, <2>2
  <2> QED
    BY <2>1, <2>3
<1>9. e[129] = c[43]
  <2>1. 43 \in 1..Len(c) /\ Len(d) + 43 = 129
    BY <1>11
  <2>2. e[Len(d) + 43] = c[43]
    BY <1>12, <2>1
  <2> QED
    BY <2>1, <2>2
<1>10. 60 \in DOMAIN EnumNf /\ 129 \in DOMAIN EnumNf
  BY <1>7
<1> QED
  BY <1>1, <1>6, <1>8, <1>9, <1>10 DEF FieldsIn, Enum, Range

LEMMA HalvesOfLocation == FieldsIn("esGeoIPLocation") = {"Lon", "Lat"}
<1>1. /\ DOMAIN EnumLocation = 1..2
      /\ EnumLocation[1] = "Lon" /\ EnumLocation[2] = "Lat"
  BY DEF EnumLocation
<1> QED
  BY <1>1 DEF FieldsIn, Enum, Range

LEMMA EncodedKeys ==
    /\ \A g \in FieldsIn("nf") : EncodeNf[g].key = Tag["nf"][g]
    /\ \A g \in FieldsIn("esGeoIP") : EncodeGeoIP[g].key = Tag["esGeoIP"][g]
    /\ \A g \in FieldsIn("esGeoIPLocation") :
          Encoded["esGeoIPLocation"][g].key = Tag["esGeoIPLocation"][g]
<1>1. Encoded["nf"] = EncodeNf /\ Encoded["esGeoIP"] = EncodeGeoIP
  BY DEF Encoded
<1> QED
  BY <1>1, ListingsAgree DEF KeysAgree, Structs

LEMMA FrontIsText ==
    ASSUME NEW S, NEW s \in Seq(S)
    PROVE  Front(s) \in Seq(S)
<1>1. CASE Len(s) > 0
  BY <1>1, FrontOf
<1>2. CASE Len(s) = 0
  BY <1>2 DEF Front
<1> QED
  BY <1>1, <1>2

LEMMA LocationIsText ==
    ASSUME NEW v, NEW path
    PROVE  MarshalLocation(v, path) \in Seq(TokensOf(v))
<1> DEFINE S == TokensOf(v)
           Half(g) == Pair(Encoded["esGeoIPLocation"][g].key,
                           <<ValueToken(FALSE, v, Append(path, g))>>)
           lon == Half("Lon")
           lat == Half("Lat")
           c == <<Mark("comma")>>
<1>1. ASSUME NEW g \in {"Lon", "Lat"}
      PROVE  Half(g) \in Seq(S)
  <2>1. g \in FieldsIn("esGeoIPLocation") /\ "esGeoIPLocation" \in Structs
    BY HalvesOfLocation DEF Structs
  <2>2. Encoded["esGeoIPLocation"][g].key = Tag["esGeoIPLocation"][g]
    BY <2>1, EncodedKeys
  <2>3. <<ValueToken(FALSE, v, Append(path, g))>> \in Seq(S)
    BY ValueIsToken, OneOf
  <2> DEFINE s == "esGeoIPLocation"
             val == <<ValueToken(FALSE, v, Append(path, g))>>
  <2>4. /\ g \in FieldsIn(s) /\ s \in Structs
        /\ Encoded[s][g].key = Tag[s][g]
        /\ val \in Seq(TokensOf(v))
    BY <2>1, <2>2, <2>3
  <2> HIDE DEF s, val
  <2>5. Pair(Tag[s][g], val) \in Seq(TokensOf(v))
    BY <2>4, PairIsText
  <2> QED
    BY <2>4, <2>5 DEF s, val
<1>2. lon \in Seq(S) /\ lat \in Seq(S) /\ c \in Seq(S)
  BY <1>1, MarksAreTokens, OneOf
<1>3. MarshalLocation(v, path) = Braced(lon \o c \o lat)
  BY DEF MarshalLocation
<1> HIDE DEF lon, lat, c, S
<1>4. lon \o c \in Seq(S)
  BY <1>2, Joined
<1>5. lon \o c \o lat \in Seq(S)
  BY <1>2, <1>4, Joined
<1> QED
  BY <1>3, <1>5, BracedIsText DEF S

LEMMA StdStructIsText ==
    ASSUME NEW s \in Structs, NEW v, NEW path, NEW inner,
           \A g \in DOMAIN inner : inner[g] \in Seq(TokensOf(v))
    PROVE  StdStruct(s, v, path, inner) \in Seq(TokensOf(v))
<1> DEFINE S == TokensOf(v)
           Sub(g) == Append(path, g)
           always == NfAlways \cup {"Longitude", "Latitude"}
           put == [g \in Range(Enum[s]) |->
                   IF g \notin always /\ Sub(g) \notin DOMAIN v THEN <<>>
                   ELSE Put(Tag[s][g],
                            IF g \in DOMAIN inner THEN inner[g]
                            ELSE <<ValueToken(TypeOf(s, g) = "string",
                                              v, Sub(g))>>)]
<1>1. StdStruct(s, v, path, inner) = Braced(Front(Members(s, put)))
  BY DEF StdStruct
<1>2. ASSUME NEW g \in FieldsIn(s)
      PROVE  put[g] \in Seq(S)
  <2> DEFINE val == IF g \in DOMAIN inner THEN inner[g]
                    ELSE <<ValueToken(TypeOf(s, g) = "string", v, Sub(g))>>
  <2>1. <<ValueToken(TypeOf(s, g) = "string", v, Sub(g))>> \in Seq(S)
    BY ValueIsToken, OneOf
  <2>2. val \in Seq(S)
    BY <2>1
  <2>3. put[g] = IF g \notin always /\ Sub(g) \notin DOMAIN v THEN <<>>
                 ELSE Put(Tag[s][g], val)
    BY <1>2 DEF FieldsIn
  <2> HIDE DEF val, put
  <2>4. Put(Tag[s][g], val) \in Seq(S)
    BY <1>2, <2>2, PutIsText
  <2>5. <<>> \in Seq(S)
    OBVIOUS
  <2> QED
    BY <2>3, <2>4, <2>5
<1> HIDE DEF put
<1>3. Members(s, put) \in Seq(S)
  BY <1>2, MembersAreText
<1>4. Front(Members(s, put)) \in Seq(S)
  BY <1>3, FrontIsText
<1> QED
  BY <1>1, <1>4, BracedIsText

LEMMA GeoIPIsText ==
    ASSUME NEW v, NEW path
    PROVE  MarshalGeoIP(v, path) \in Seq(TokensOf(v))
<1> DEFINE S == TokensOf(v)
           Sub(g) == Append(path, g)
           put == [g \in Range(EnumGeoIP) |->
                   IF /\ g \notin {"Longitude", "Latitude"}
                      /\ Sub(g) \notin DOMAIN v
                   THEN <<>>
                   ELSE Put(EncodeGeoIP[g].key,
                            IF EncodeGeoIP[g].conv = "MarshalJSONBuf"
                            THEN MarshalLocation(v, Sub(g))
                            ELSE <<ValueToken(
                                     EncodeGeoIP[g].conv = "WriteJsonString",
                                     v, Sub(g))>>)]
<1>1. MarshalGeoIP(v, path) = Braced(Front(Members("esGeoIP", put)))
  BY DEF MarshalGeoIP
<1>2. "esGeoIP" \in Structs /\ Enum["esGeoIP"] = EnumGeoIP
  BY DEF Structs, Enum
<1>3. ASSUME NEW g \in FieldsIn("esGeoIP")
      PROVE  put[g] \in Seq(S)
  <2> DEFINE val == IF EncodeGeoIP[g].conv = "MarshalJSONBuf"
                    THEN MarshalLocation(v, Sub(g))
                    ELSE <<ValueToken(EncodeGeoIP[g].conv = "WriteJsonString",
                                      v, Sub(g))>>
  <2>1. <<ValueToken(EncodeGeoIP[g].conv = "WriteJsonString", v, Sub(g))>>
           \in Seq(S)
    BY ValueIsToken, OneOf
  <2>2. val \in Seq(S)
    BY <2>1, LocationIsText
  <2>3. put[g] = IF g \notin {"Longitude", "Latitude"} /\ Sub(g) \notin DOMAIN v
                 THEN <<>> ELSE Put(EncodeGeoIP[g].key, val)
    BY <1>2, <1>3 DEF FieldsIn
  <2>6. EncodeGeoIP[g].key = Tag["esGeoIP"][g]
    BY <1>3, EncodedKeys
  <2> HIDE DEF val, put
  <2>4. Put(EncodeGeoIP[g].key, val) \in Seq(S)
    BY <1>2, <1>3, <2>2, <2>6, PutIsText
  <2>5. <<>> \in Seq(S)
    OBVIOUS
  <2> QED
    BY <2>3, <2>4, <2>5
<1> HIDE DEF put
<1>4. Members("esGeoIP", put) \in Seq(S)
  BY <1>2, <1>3, MembersAreText
<1>5. Front(Members("esGeoIP", put)) \in Seq(S)
  BY <1>4, FrontIsText
<1> QED
  BY <1>1, <1>5, BracedIsText

LEMMA NfIsText ==
    ASSUME NEW v
    PROVE  MarshalNf(v) \in Seq(TokensOf(v))
<1> DEFINE S == TokensOf(v)
           put == [g \in Range(EnumNf) |->
                   IF \/ g = "GeoIP"
                      \/ g # "Oobmark" /\ <<g>> \notin DOMAIN v
                   THEN <<>> ELSE PutNf(v, g)]
           geoip == Pair(EncodeNf["GeoIP"].key, MarshalGeoIP(v, <<"GeoIP">>))
<1>1. MarshalNf(v) = Braced(Members("nf", put) \o geoip)
  BY DEF MarshalNf
<1>2. "nf" \in Structs /\ Enum["nf"] = EnumNf
  BY DEF Structs, Enum
<1>3. ASSUME NEW g \in FieldsIn("nf")
      PROVE  put[g] \in Seq(S)
  <2> DEFINE val == <<ValueToken(EncodeNf[g].conv = "WriteJsonString", v,
                                 <<g>>)>>
  <2>1. val \in Seq(S)
    BY ValueIsToken, OneOf
  <2>2. EncodeNf[g].key = Tag["nf"][g]
    BY <1>3, EncodedKeys
  <2>6. PutNf(v, g) = Put(Tag["nf"][g], val)
    BY <2>2 DEF PutNf
  <2> HIDE DEF val
  <2>3. PutNf(v, g) \in Seq(S)
    BY <1>2, <1>3, <2>1, <2>6, PutIsText
  <2>4. put[g] = IF g = "GeoIP" \/ (g # "Oobmark" /\ <<g>> \notin DOMAIN v)
                 THEN <<>> ELSE PutNf(v, g)
    BY <1>2, <1>3 DEF FieldsIn
  <2> HIDE DEF put
  <2>5. <<>> \in Seq(S)
    OBVIOUS
  <2> QED
    BY <2>3, <2>4, <2>5
<1> HIDE DEF put
<1>4. Members("nf", put) \in Seq(S)
  BY <1>2, <1>3, MembersAreText
<1>5. geoip \in Seq(S)
  <2>1. EncodeNf["GeoIP"].key = Tag["nf"]["GeoIP"]
    BY AlwaysFields, EncodedKeys
  <2> QED
    BY <1>2, <2>1, AlwaysFields, GeoIPIsText, PairIsText
<1> HIDE DEF geoip
<1>6. Members("nf", put) \o geoip \in Seq(S)
  BY <1>4, <1>5, Joined
<1> QED
  BY <1>1, <1>6, BracedIsText

LEMMA JsonMarshalIsText ==
    ASSUME NEW v
    PROVE  JsonMarshal(v) \in Seq(TokensOf(v))
<1> DEFINE locations == [g \in {"Location", "Coordinates"} |->
                            MarshalLocation(v, <<"GeoIP", g>>)]
           geoip == StdStruct("esGeoIP", v, <<"GeoIP">>, locations)
           inner == [g \in {"GeoIP"} |-> geoip]
<1>1. \A g \in DOMAIN locations : locations[g] \in Seq(TokensOf(v))
  BY LocationIsText
<1>2. "esGeoIP" \in Structs /\ "nf" \in Structs
  BY DEF Structs
<1>3. JsonMarshal(v) = StdStruct("nf", v, <<>>, inner)
  BY DEF JsonMarshal
<1> HIDE DEF locations
<1>4. geoip \in Seq(TokensOf(v))
  BY <1>1, <1>2, StdStructIsText
<1>5. \A g \in DOMAIN inner : inner[g] \in Seq(TokensOf(v))
  BY <1>4
<1> HIDE DEF inner
<1> QED
  BY <1>2, <1>3, <1>5, StdStructIsText

LEMMA MarshalIsText ==
    ASSUME NEW v, NEW encoder
    PROVE  Marshal(v, encoder) \in Seq(TokensOf(v))
  BY NfIsText, JsonMarshalIsText DEF Marshal

LEMMA OfItsRange ==
    ASSUME NEW S, NEW s \in Seq(S)
    PROVE  s \in Seq(Range(s))
<1>1. s = [i \in 1..Len(s) |-> s[i]] /\ Len(s) \in Nat
  OBVIOUS
<1> QED
  BY <1>1, IsSequence

-----------------------------------------------------------------------------
(* Counting brackets.                                                      *)
LEMMA SeenSoFar ==
    ASSUME NEW text, NEW tok, NEW i \in Nat
    PROVE  /\ Seen(text, tok, i) \in Nat
           /\ Seen(text, tok, 0) = 0
           /\ Seen(text, tok, i + 1)
              = Seen(text, tok, i)
                + (IF text[i + 1].tok = tok THEN 1 ELSE 0)
<1> DEFINE S(j) == {k \in 1..j : text[k].tok = tok}
<1>1. ASSUME NEW j \in Nat
      PROVE  IsFiniteSet(S(j)) /\ Cardinality(S(j)) \in Nat
  <2>1. IsFiniteSet(1..j)
    BY FS_Interval
  <2>2. S(j) \in SUBSET (1..j)
    OBVIOUS
  <2>3. IsFiniteSet(S(j))
    BY <2>1, <2>2, FS_Subset
  <2> QED
    BY <2>3, FS_CardinalityType
<1>2. Cardinality(S(0)) = 0
  <2>1. S(0) = {}
    OBVIOUS
  <2> QED
    BY <2>1, FS_EmptySet
<1>3. Cardinality(S(i + 1))
         = Cardinality(S(i)) + (IF text[i + 1].tok = tok THEN 1 ELSE 0)
  <2>1. 1..(i + 1) = (1..i) \cup {i + 1}
    OBVIOUS
  <2>2. CASE text[i + 1].tok = tok
    <3>1. S(i + 1) = S(i) \cup {i + 1}
      BY <2>1, <2>2
    <3>2. i + 1 \notin S(i)
      OBVIOUS
    <3>3. IsFiniteSet(S(i)) /\ Cardinality(S(i)) \in Nat
      BY <1>1
    <3> HIDE DEF S
    <3>4. Cardinality(S(i) \cup {i + 1}) = Cardinality(S(i)) + 1
      BY <3>2, <3>3, FS_AddElement
    <3> QED
      BY <2>2, <3>1, <3>3, <3>4
  <2>3. CASE text[i + 1].tok # tok
    <3>1. S(i + 1) = S(i)
      BY <2>1, <2>3
    <3>2. Cardinality(S(i)) \in Nat
      BY <1>1
    <3> HIDE DEF S
    <3> QED
      BY <2>3, <3>1, <3>2
  <2> QED
    BY <2>2, <2>3
<1> QED
  BY <1>1, <1>2, <1>3 DEF Seen

LEMMA Counted ==
    ASSUME NEW text, NEW i \in Nat
    PROVE  /\ OpenObjects(text, i) \in Int
           /\ OpenObjects(text, 0) = 0
           /\ OpenObjects(text, i + 1)
                 = OpenObjects(text, i)
                   + (IF text[i + 1].tok = "left_bracket" THEN 1 ELSE 0)
                   - (IF text[i + 1].tok = "right_bracket" THEN 1 ELSE 0)
           /\ OpenArrays(text, i) \in Int
           /\ OpenArrays(text, 0) = 0
           /\ OpenArrays(text, i + 1)
                 = OpenArrays(text, i)
                   + (IF text[i + 1].tok = "left_brace" THEN 1 ELSE 0)
                   - (IF text[i + 1].tok = "right_brace" THEN 1 ELSE 0)
<1> DEFINE lo == (IF text[i + 1].tok = "left_bracket" THEN 1 ELSE 0)
           ro == (IF text[i + 1].tok = "right_bracket" THEN 1 ELSE 0)
           la == (IF text[i + 1].tok = "left_brace" THEN 1 ELSE 0)
           ra == (IF text[i + 1].tok = "right_brace" THEN 1 ELSE 0)
<1>1. lo \in Nat /\ ro \in Nat /\ la \in Nat /\ ra \in Nat
  OBVIOUS
<1>2. \A tok : Seen(text, tok, i) \in Nat /\ Seen(text, tok, 0) = 0
  BY SeenSoFar
<1>3. /\ Seen(text, "left_bracket", i + 1) = Seen(text, "left_bracket", i) + lo
      /\ Seen(text, "right_bracket", i + 1)
            = Seen(text, "right_bracket", i) + ro
      /\ Seen(text, "left_brace", i + 1) = Seen(text, "left_brace", i) + la
      /\ Seen(text, "right_brace", i + 1) = Seen(text, "right_brace", i) + ra
  BY SeenSoFar
<1> HIDE DEF lo, ro, la, ra
<1>4. /\ OpenObjects(text, i) \in Int
      /\ OpenObjects(text, 0) = 0
      /\ OpenObjects(text, i + 1) = OpenObjects(text, i) + lo - ro
  BY <1>1, <1>2, <1>3 DEF OpenObjects
<1>5. /\ OpenArrays(text, i) \in Int
      /\ OpenArrays(text, 0) = 0
      /\ OpenArrays(text, i + 1) = OpenArrays(text, i) + la - ra
  BY <1>1, <1>2, <1>3 DEF OpenArrays
<1> QED
  BY <1>4, <1>5 DEF lo, ro, la, ra

LEMMA NothingBracketed ==
    /\ Bracketed(<<>>)
    /\ Bracketed(<<Token("error")>>)
<1>1. Bracketed(<<>>)
  BY DEF Bracketed
<1>2. Bracketed(<<Token("error")>>)
  <2> DEFINE text == <<Token("error")>>
  <2>1. Len(text) = 1 /\ text[1].tok = "error"
    BY DEF Token
  <2> HIDE DEF text
  <2>2. 0 \in Nat /\ 0 + 1 = 1
    OBVIOUS
  <2>7. /\ OpenObjects(text, 0) = 0
        /\ OpenObjects(text, 0 + 1)
              = OpenObjects(text, 0)
                + (IF text[0 + 1].tok = "left_bracket" THEN 1 ELSE 0)
                - (IF text[0 + 1].tok = "right_bracket" THEN 1 ELSE 0)
        /\ OpenArrays(text, 0) = 0
        /\ OpenArrays(text, 0 + 1)
              = OpenArrays(text, 0)
                + (IF text[0 + 1].tok = "left_brace" THEN 1 ELSE 0)
                - (IF text[0 + 1].tok = "right_brace" THEN 1 ELSE 0)
    BY <2>2, Counted
  <2>8. /\ OpenObjects(text, 0) = 0
        /\ OpenObjects(text, 1)
              = OpenObjects(text, 0)
                + (IF text[1].tok = "left_bracket" THEN 1 ELSE 0)
                - (IF text[1].tok = "right_bracket" THEN 1 ELSE 0)
        /\ OpenArrays(text, 0) = 0
        /\ OpenArrays(text, 1)
              = OpenArrays(text, 0)
                + (IF text[1].tok = "left_brace" THEN 1 ELSE 0)
                - (IF text[1].tok = "right_brace" THEN 1 ELSE 0)
    BY <2>2, <2>7
  <2>3. OpenObjects(text, 1) = 0 /\ OpenArrays(text, 1) = 0
    BY <2>1, <2>8
  <2>4. \A i \in 1..Len(text) :
           OpenObjects(text, i) >= 0 /\ OpenArrays(text, i) >= 0
    BY <2>1, <2>3
  <2>5. \A i, j \in 1..Len(text) : ~ Closes(text, i, j)
    BY <2>1 DEF Closes
  <2>6. Bracketed(text)
    BY <2>4, <2>5 DEF Bracketed
  <2> QED
    BY <2>6 DEF text
<1> QED
  BY <1>1, <1>2

-----------------------------------------------------------------------------
(* Reading on after the cut: p tokens of what follows it have been read.   *)
(* The array that is skipped was either begun before the cut, or by the    *)
(* i-th token behind it.                                                   *)
BegunBy(rest, i, p, fs) ==
    /\ rest[i].tok = "left_brace"
    /\ TopOf(fs).depth = OpenArrays(rest, p) - OpenArrays(rest, i - 1)
    /\ \A k \in i..p : OpenArrays(rest, k) >= OpenArrays(rest, i)
    /\ Len(fs) >= 1 + OpenObjects(rest, i - 1)

(* The object of the line that was cut is not closed by what follows.      *)
Inside(rest, p, fs) ==
    /\ ~ InArray(fs) => Level(fs) >= 1 + OpenObjects(rest, p)
    /\ InArray(fs) => \/ TopOf(fs).depth >= 1 + OpenArrays(rest, p)
                      \/ \E i \in 1..p : BegunBy(rest, i, p, fs)

LEMMA LevelOK ==
    ASSUME NEW fs, StackOK(fs)
    PROVE  /\ Level(fs) \in Nat
           /\ Level(fs) >= 1
           /\ InArray(fs) => Level(fs) = Len(fs) /\ TopOf(fs).depth > 0
           /\ TopOf(fs).depth \in Nat
           /\ Len(fs) \in Nat
<1>1. Len(fs) \in 1..3
  BY TopOK
<1>2. /\ TopOf(fs).depth \in Nat
      /\ TopOf(fs).state = "skip" => TopOf(fs).depth > 0
  BY TopParts
<1>3. Level(fs) \in Nat /\ Level(fs) >= 1
  BY <1>1, <1>2 DEF Level
<1>4. InArray(fs) => ~ InObject(fs)
  BY DEF InArray, InObject
<1>5. InArray(fs) => Level(fs) = Len(fs)
  BY <1>1, <1>4 DEF Level
<1>6. InArray(fs) => TopOf(fs).depth > 0
  BY <1>2 DEF InArray
<1> QED
  BY <1>1, <1>2, <1>3, <1>5, <1>6

LEMMA BracketCounted ==
    ASSUME NEW text, NEW i \in Nat
    PROVE  /\ OpenObjects(text, i + 1) \in Int
           /\ OpenArrays(text, i + 1) \in Int
           /\ text[i + 1].tok = "right_bracket" =>
                 OpenObjects(text, i + 1) = OpenObjects(text, i) - 1
           /\ text[i + 1].tok = "left_brace" =>
                 OpenArrays(text, i + 1) = OpenArrays(text, i) + 1
           /\ text[i + 1].tok = "right_brace" =>
                 OpenArrays(text, i + 1) = OpenArrays(text, i) - 1
<1>1. /\ OpenObjects(text, i) \in Int
      /\ OpenObjects(text, i + 1)
            = OpenObjects(text, i)
              + (IF text[i + 1].tok = "left_bracket" THEN 1 ELSE 0)
              - (IF text[i + 1].tok = "right_bracket" THEN 1 ELSE 0)
  BY Counted
<1>2. /\ OpenArrays(text, i) \in Int
      /\ OpenArrays(text, i + 1)
            = OpenArrays(text, i)
              + (IF text[i + 1].tok = "left_brace" THEN 1 ELSE 0)
              - (IF text[i + 1].tok = "right_brace" THEN 1 ELSE 0)
  BY Counted
<1>3. text[i + 1].tok = "right_bracket" =>
         OpenObjects(text, i + 1) = OpenObjects(text, i) - 1
  BY <1>1
<1>4. text[i + 1].tok = "left_brace" =>
         OpenArrays(text, i + 1) = OpenArrays(text, i) + 1
  BY <1>2
<1>5. text[i + 1].tok = "right_brace" =>
         OpenArrays(text, i + 1) = OpenArrays(text, i) - 1
  BY <1>2
<1>6. OpenObjects(text, i + 1) \in Int /\ OpenArrays(text, i + 1) \in Int
  BY <1>1, <1>2
<1> QED
  BY <1>3, <1>4, <1>5, <1>6

LEMMA NotClosed ==
    ASSUME NEW rest, Bracketed(rest), NEW p \in Nat, Len(rest) \in Nat,
           p < Len(rest), NEW fs, StackOK(fs), Inside(rest, p, fs),
           NEW y, Nests(fs, rest[p + 1], y)
    PROVE  y.outcome # "done"
<1> SUFFICES ASSUME y.outcome = "done"
             PROVE  FALSE
  OBVIOUS
<1>1. rest[p + 1].tok = "right_bracket" /\ Level(fs) = 1 /\ ~ InArray(fs)
  BY DEF Nests, LevelsAfter
<1>2. OpenObjects(rest, p + 1) >= 0
  <2>1. p + 1 \in 1..Len(rest)
    OBVIOUS
  <2> QED
    BY <2>1 DEF Bracketed
<1>3. OpenObjects(rest, p) <= 0 /\ OpenObjects(rest, p) \in Int
  BY <1>1, Counted DEF Inside
<1>4. OpenObjects(rest, p + 1) = OpenObjects(rest, p) - 1
  BY <1>1, BracketCounted
<1> QED
  BY <1>2, <1>3, <1>4

LEMMA ArrayGoesOn ==
    ASSUME NEW rest, NEW p \in Nat, NEW fs, StackOK(fs), InArray(fs),
           Inside(rest, p, fs), NEW gs, StackOK(gs), InArray(gs),
           Len(gs) = Len(fs),
           TopOf(gs).depth = TopOf(fs).depth
              + (IF rest[p + 1].tok = "left_brace" THEN 1 ELSE 0)
              - (IF rest[p + 1].tok = "right_brace" THEN 1 ELSE 0)
    PROVE  Inside(rest, p + 1, gs)
<1> DEFINE d == TopOf(fs).depth
           e == TopOf(gs).depth
           a == OpenArrays(rest, p)
           b == OpenArrays(rest, p + 1)
<1>1. d \in Nat /\ e \in Nat /\ e > 0
  BY LevelOK
<1>2. a \in Int /\ b \in Int /\ e - d = b - a
  <2>1. a \in Int
        /\ b = a + (IF rest[p + 1].tok = "left_brace" THEN 1 ELSE 0)
                 - (IF rest[p + 1].tok = "right_brace" THEN 1 ELSE 0)
    BY Counted
  <2>2. b \in Int
    BY BracketCounted
  <2> QED
    BY <1>1, <2>1, <2>2
<1>3. CASE d >= 1 + a
  <2>1. e >= 1 + b
    BY <1>1, <1>2, <1>3
  <2> QED
    BY <2>1 DEF Inside
<1>4. ASSUME NEW i \in 1..p, BegunBy(rest, i, p, fs)
      PROVE  Inside(rest, p + 1, gs)
  <2>1. i - 1 \in Nat /\ i \in Nat /\ (i - 1) + 1 = i
    OBVIOUS
  <2>2. OpenArrays(rest, i - 1) \in Int /\ OpenArrays(rest, i) \in Int
    BY <2>1, Counted
  <2>3. OpenArrays(rest, i) = OpenArrays(rest, i - 1) + 1
    <3>1. rest[i].tok = "left_brace"
      BY <1>4 DEF BegunBy
    <3>2. OpenArrays(rest, (i - 1) + 1) = OpenArrays(rest, i - 1)
             + (IF rest[(i - 1) + 1].tok = "left_brace" THEN 1 ELSE 0)
             - (IF rest[(i - 1) + 1].tok = "right_brace" THEN 1 ELSE 0)
      BY <2>1, Counted
    <3>3. OpenArrays(rest, i) = OpenArrays(rest, i - 1)
             + (IF rest[i].tok = "left_brace" THEN 1 ELSE 0)
             - (IF rest[i].tok = "right_brace" THEN 1 ELSE 0)
      BY <2>1, <3>2
    <3> QED
      BY <2>2, <3>1, <3>3
  <2>4. d = a - OpenArrays(rest, i - 1)
    BY <1>4 DEF BegunBy
  <2>5. e = b - OpenArrays(rest, i - 1)
    <3> DEFINE c == OpenArrays(rest, i - 1)
    <3>1. c \in Int /\ d = a - c
      BY <2>2, <2>4
    <3> HIDE DEF a, b, c, d, e
    <3>2. e = b - c
      BY <1>1, <1>2, <3>1
    <3> QED
      BY <3>2 DEF c
  <2>6. \A k \in i..(p + 1) : OpenArrays(rest, k) >= OpenArrays(rest, i)
    <3>1. \A k \in i..p : OpenArrays(rest, k) >= OpenArrays(rest, i)
      BY <1>4 DEF BegunBy
    <3>2. b >= OpenArrays(rest, i)
      BY <1>1, <1>2, <2>2, <2>3, <2>5
    <3>3. \A k \in i..(p + 1) : k \in i..p \/ k = p + 1
      OBVIOUS
    <3> QED
      BY <3>1, <3>2, <3>3
  <2>7. BegunBy(rest, i, p + 1, gs)
    BY <1>4, <2>5, <2>6 DEF BegunBy
  <2>8. i \in 1..(p + 1)
    OBVIOUS
  <2> QED
    BY <2>7, <2>8 DEF Inside
<1> QED
  BY <1>3, <1>4 DEF Inside

LEMMA ArrayEnds ==
    ASSUME NEW rest, Bracketed(rest), NEW p \in Nat, Len(rest) \in Nat,
           p < Len(rest), NEW fs, StackOK(fs), InArray(fs),
           Inside(rest, p, fs), NEW gs, StackOK(gs), ~ InArray(gs),
           rest[p + 1].tok = "right_brace", TopOf(fs).depth = 1,
           Level(gs) = Len(fs)
    PROVE  Inside(rest, p + 1, gs)
<1> DEFINE a == OpenArrays(rest, p)
           b == OpenArrays(rest, p + 1)
<1>1. a \in Int /\ b = a - 1
  BY Counted, BracketCounted
<1>2. p + 1 \in 1..Len(rest) /\ p + 1 \in Nat
  OBVIOUS
<1>3. b >= 0
  BY <1>2 DEF Bracketed
<1>4. PICK i \in 1..p : BegunBy(rest, i, p, fs)
  BY <1>1, <1>3 DEF Inside
<1>5. i - 1 \in Nat /\ i \in Nat /\ (i - 1) + 1 = i /\ i \in 1..Len(rest)
  OBVIOUS
<1>6. rest[i].tok = "left_brace"
  BY <1>4 DEF BegunBy
<1>7. /\ OpenArrays(rest, i - 1) \in Int
      /\ OpenArrays(rest, (i - 1) + 1) = OpenArrays(rest, i - 1)
            + (IF rest[(i - 1) + 1].tok = "left_brace" THEN 1 ELSE 0)
            - (IF rest[(i - 1) + 1].tok = "right_brace" THEN 1 ELSE 0)
      /\ OpenObjects(rest, i - 1) \in Int
      /\ OpenObjects(rest, (i - 1) + 1) = OpenObjects(rest, i - 1)
            + (IF rest[(i - 1) + 1].tok = "left_bracket" THEN 1 ELSE 0)
            - (IF rest[(i - 1) + 1].tok = "right_bracket" THEN 1 ELSE 0)
  BY <1>5, Counted
<1>8. /\ OpenArrays(rest, i) = OpenArrays(rest, i - 1) + 1
      /\ OpenObjects(rest, i) = OpenObjects(rest, i - 1)
  <2>1. rest[(i - 1) + 1].tok = "left_brace"
    BY <1>5, <1>6
  <2>2. /\ (IF rest[(i - 1) + 1].tok = "left_brace" THEN 1 ELSE 0) = 1
        /\ (IF rest[(i - 1) + 1].tok = "right_brace" THEN 1 ELSE 0) = 0
        /\ (IF rest[(i - 1) + 1].tok = "left_bracket" THEN 1 ELSE 0) = 0
        /\ (IF rest[(i - 1) + 1].tok = "right_bracket" THEN 1 ELSE 0) = 0
    BY <2>1
  <2>3. /\ OpenArrays(rest, (i - 1) + 1) = OpenArrays(rest, i - 1) + 1
        /\ OpenObjects(rest, (i - 1) + 1) = OpenObjects(rest, i - 1)
    BY <1>7, <2>2
  <2> QED
    BY <1>5, <2>3
<1>9. /\ 1 = a - OpenArrays(rest, i - 1)
      /\ \A k \in i..p : OpenArrays(rest, k) >= OpenArrays(rest, i)
      /\ Len(fs) >= 1 + OpenObjects(rest, i - 1)
  BY <1>4 DEF BegunBy
<1>10. b = OpenArrays(rest, i - 1)
  BY <1>1, <1>7, <1>9
<1>11. \A k \in i..p : OpenArrays(rest, k) > b
  <2> SUFFICES ASSUME NEW k \in i..p
               PROVE  OpenArrays(rest, k) > b
    OBVIOUS
  <2>1. k \in Nat
    BY <1>5
  <2>2. OpenArrays(rest, k) \in Int
    BY <2>1, Counted
  <2> QED
    BY <1>7, <1>8, <1>9, <1>10, <2>2
<1>12. Closes(rest, i, p + 1)
  <2>1. i < p + 1 /\ (p + 1) - 1 = p
    BY <1>5
  <2> QED
    BY <1>6, <1>11, <2>1 DEF Closes
<1>13. OpenObjects(rest, i) = OpenObjects(rest, p + 1)
  BY <1>2, <1>5, <1>12 DEF Bracketed
<1>14. Level(gs) >= 1 + OpenObjects(rest, p + 1)
  BY <1>8, <1>9, <1>13
<1> QED
  BY <1>14 DEF Inside

LEMMA ObjectGoesOn ==
    ASSUME NEW rest, NEW p \in Nat, NEW fs, StackOK(fs), ~ InArray(fs),
           Inside(rest, p, fs), NEW gs, StackOK(gs),
           ObjectRead(fs, rest[p + 1], gs)
    PROVE  Inside(rest, p + 1, gs)
<1> DEFINE n == OpenObjects(rest, p)
<1>1. Level(fs) \in Nat /\ Level(gs) \in Nat /\ Len(gs) \in Nat
  BY LevelOK
<1>2. n \in Int /\ Level(fs) >= 1 + n
  BY Counted DEF Inside
<1>3. CASE ~ InArray(gs)
  <2>1. Level(gs) >= Level(fs)
                     + (IF rest[p + 1].tok = "left_bracket" THEN 1 ELSE 0)
                     - (IF rest[p + 1].tok = "right_bracket" THEN 1 ELSE 0)
    BY <1>3 DEF ObjectRead
  <2>2. OpenObjects(rest, p + 1) =
           n + (IF rest[p + 1].tok = "left_bracket" THEN 1 ELSE 0)
             - (IF rest[p + 1].tok = "right_bracket" THEN 1 ELSE 0)
    BY Counted
  <2>3. Level(gs) >= 1 + OpenObjects(rest, p + 1)
    BY <1>1, <1>2, <2>1, <2>2
  <2> QED
    BY <1>3, <2>3 DEF Inside
<1>4. CASE InArray(gs)
  <2>1. /\ rest[p + 1].tok = "left_brace"
        /\ TopOf(gs).depth = 1
        /\ Len(gs) = Level(fs)
    BY <1>4 DEF ObjectRead
  <2>2. OpenArrays(rest, p) \in Int
        /\ OpenArrays(rest, p + 1) = OpenArrays(rest, p) + 1
    BY <2>1, Counted, BracketCounted
  <2>3. (p + 1) - 1 = p /\ p + 1 \in 1..(p + 1)
    OBVIOUS
  <2>4. \A k \in (p + 1)..(p + 1) :
           OpenArrays(rest, k) >= OpenArrays(rest, p + 1)
    <3>1. \A k \in (p + 1)..(p + 1) : k = p + 1
      OBVIOUS
    <3> QED
      BY <2>2, <3>1
  <2>5. TopOf(gs).depth = OpenArrays(rest, p + 1) - OpenArrays(rest, p)
    BY <2>1, <2>2
  <2>6. Len(gs) >= 1 + OpenObjects(rest, p)
    BY <1>2, <2>1
  <2>7. BegunBy(rest, p + 1, p + 1, gs)
    BY <2>1, <2>3, <2>4, <2>5, <2>6 DEF BegunBy
  <2> QED
    BY <1>4, <2>3, <2>7 DEF Inside
<1> QED
  BY <1>3, <1>4

LEMMA InsideStays ==
    ASSUME NEW rest, Bracketed(rest), NEW p \in Nat, Len(rest) \in Nat,
           p < Len(rest), NEW fs, StackOK(fs), TopOf(fs).state # "map_start",
           Inside(rest, p, fs),
           NEW y, Nests(fs, rest[p + 1], y), y.outcome = "scanning"
    PROVE  Inside(rest, p + 1, y.frames)
<1>1. StackOK(y.frames)
  BY DEF Nests, LevelsAfter
<1>2. CASE ~ InArray(fs)
  <2>1. ObjectRead(fs, rest[p + 1], y.frames)
    BY <1>2 DEF Nests
  <2> QED
    BY <1>1, <1>2, <2>1, ObjectGoesOn
<1>3. CASE InArray(fs)
  <2>1. ArraySkipped(fs, rest[p + 1], y.frames)
    BY <1>3 DEF Nests
  <2>2. CASE InArray(y.frames)
    BY <1>1, <1>3, <2>1, <2>2, ArrayGoesOn DEF ArraySkipped
  <2>3. CASE ~ InArray(y.frames)
    BY <1>1, <1>3, <2>1, <2>3, ArrayEnds DEF ArraySkipped
  <2> QED
    BY <2>2, <2>3
<1> QED
  BY <1>2, <1>3

-----------------------------------------------------------------------------
(* The invariant: where the decoder is on the line,                        *)
Placed ==
    /\ input \in Seq(Range(input))
    /\ next \in Nat
    /\ next >= 1
    /\ next <= Len(input) + 2
    /\ outcome = "scanning" => next <= Len(input) + 1
    /\ outcome = "scanning" /\ next > 1 => TopOf(frames).state # "map_start"
    /\ StackOK(frames)

Typed ==
    /\ Placed
    /\ pc \in {"parse", "index", "end", "panic"}
    /\ outcome \in {"scanning", "done", "error"}
    /\ sent \in {"no", "blank", "unchanged", "enriched"}
    /\ pc = "parse" => sent = "no"

(* and what it has read of the text behind the first c tokens of the line, *)
(* where the line was cut.                                                 *)
CutAt(c, rest) ==
    /\ c \in Nat
    /\ c < next
    /\ rest \in Seq(Range(rest))
    /\ Len(input) = c + Len(rest)
    /\ \A k \in 1..Len(rest) : input[c + k] = rest[k]
    /\ rest # <<>> => next > 1
    /\ Bracketed(rest)
    /\ Inside(rest, next - 1 - c, frames)

Blanked ==
    cut => /\ sent \in {"no", "blank"}
           /\ pc # "panic"
           /\ pc # "parse" => sent = "blank"
           /\ pc = "parse" => outcome # "done"
           /\ pc = "parse" /\ outcome = "scanning" =>
                 \E c, rest : CutAt(c, rest)

LEMMA FreshStack ==
    /\ StackOK(<<Frame("nf", "map_start", <<>>)>>)
    /\ TopOf(<<Frame("nf", "map_start", <<>>)>>).state = "map_start"
<1> DEFINE fr == Frame("nf", "map_start", <<>>)
           fs == <<fr>>
<1>1. /\ fr = [struct |-> "nf", state |-> "map_start", path |-> <<>>,
               key |-> "base", open |-> "none", depth |-> 0]
      /\ Nested[1] = "nf"
      /\ "nf" \in Structs
  BY DEF Frame, Nested, Structs
<1>2. <<>> \in PathsAt(1) /\ "base" \in KeysIn("nf")
  BY DEF PathsAt, KeysIn
<1>3. <<>> \in UNION {PathsAt(k) : k \in 1..3}
  BY <1>2
<1>4. "base" \in UNION {KeysIn(s) : s \in Structs}
  BY <1>1, <1>2
<1>5. fr \in Frames
  BY <1>1, <1>3, <1>4 DEF Frames, States
<1>6. FrameOK(fr, 1)
  BY <1>1, <1>2, <1>5 DEF FrameOK
<1>7. fr.state = "map_start"
  BY <1>1
<1> HIDE DEF fr
<1>8. fs \in Seq(Frames) /\ Len(fs) = 1 /\ fs[1] = fr
  BY <1>5
<1> HIDE DEF fs
<1>9. StackOK(fs)
  BY <1>6, <1>8 DEF StackOK
<1>10. TopOf(fs).state = "map_start"
  BY <1>7, <1>8 DEF TopOf
<1> QED
  BY <1>9, <1>10 DEF fs, fr

LEMMA PlacedAgain ==
    ASSUME NEW line, line \in Seq(Range(line)), DecodeAgain(line)
    PROVE  Placed' /\ outcome' = "scanning"
<1>1. /\ input' = line
      /\ next' = 1
      /\ frames' = <<Frame("nf", "map_start", <<>>)>>
      /\ outcome' = "scanning"
  BY DEF DecodeAgain
<1>2. Len(line) \in Nat
  OBVIOUS
<1>3. StackOK(frames')
  BY <1>1, FreshStack
<1> QED
  BY <1>1, <1>2, <1>3 DEF Placed

LEMMA PlacedInit == Init => Typed
<1> SUFFICES ASSUME Init
             PROVE  Typed
  OBVIOUS
<1>1. /\ input = Text[doc] /\ doc \in Docs
      /\ next = 1
      /\ frames = <<Frame("nf", "map_start", <<>>)>>
      /\ outcome = "scanning" /\ pc = "parse" /\ sent = "no"
  BY DEF Init, DecodeInit
<1>2. input \in Seq(Range(input)) /\ Len(input) \in Nat
  <2>1. input \in Seq(Range(input))
    BY <1>1, TextsOfLines DEF IsText
  <2> QED
    BY <2>1
<1>3. StackOK(frames)
  BY <1>1, FreshStack
<1>4. Placed
  BY <1>1, <1>2, <1>3 DEF Placed
<1> QED
  BY <1>1, <1>4 DEF Typed

(* What a step of the decoder leaves.                                      *)
LEMMA DecodeNests ==
    ASSUME Placed, Decode
    PROVE  /\ outcome = "scanning"
           /\ next' = next + 1
           /\ input' = input
           /\ Nests(frames, Scanned, Now')
           /\ Now'.frames = frames' /\ Now'.outcome = outcome'
<1>1. StackOK(frames)
  BY DEF Placed
<1>2. /\ outcome = "scanning"
      /\ next' = next + 1
      /\ input' = input
      /\ Now' = After(Now, Scanned)
  BY <1>1, DecodeIsAfter
<1>3. Now.frames = frames /\ Now.outcome = outcome
  BY DEF Now, At3
<1>4. Now'.frames = frames' /\ Now'.outcome = outcome'
  BY DEF Now, At3
<1>5. Nests(Now.frames, Scanned, After(Now, Scanned))
  BY <1>1, <1>2, <1>3, AfterNests
<1> QED
  BY <1>2, <1>3, <1>4, <1>5

LEMMA DecodePlaced ==
    ASSUME Placed, Decode
    PROVE  /\ Placed'
           /\ outcome' \in {"scanning", "done", "error"}
           /\ outcome' = "scanning" =>
                 next <= Len(input) /\ Scanned = input[next]
<1>1. /\ outcome = "scanning"
      /\ next' = next + 1
      /\ input' = input
      /\ Nests(frames, Scanned, Now')
      /\ Now'.frames = frames' /\ Now'.outcome = outcome'
  BY DecodeNests
<1>2. LevelsAfter(frames, Scanned, Now')
  BY <1>1 DEF Nests
<1>3. /\ outcome' \in {"scanning", "done", "error"}
      /\ StackOK(frames')
      /\ Scanned.tok = "eof" => outcome' = "error"
      /\ outcome' = "scanning" => TopOf(frames').state # "map_start"
  BY <1>1, <1>2 DEF LevelsAfter
<1>4. /\ input \in Seq(Range(input)) /\ next \in Nat /\ next >= 1
      /\ next <= Len(input) + 1
  BY <1>1 DEF Placed
<1>5. Len(input) \in Nat
  BY <1>4
<1>6. outcome' = "scanning" => next <= Len(input)
  <2> SUFFICES ASSUME ~ (next <= Len(input))
               PROVE  outcome' = "error"
    BY <1>3
  <2>1. Scanned.tok = "eof"
    BY DEF Scanned, Token
  <2> QED
    BY <1>3, <2>1
<1>7. /\ input' \in Seq(Range(input')) /\ next' \in Nat /\ next' >= 1
      /\ next' <= Len(input') + 2
  BY <1>1, <1>4, <1>5
<1>8. outcome' = "scanning" => next' <= Len(input') + 1
  BY <1>1, <1>4, <1>5, <1>6
<1>9. Placed'
  BY <1>3, <1>7, <1>8 DEF Placed
<1> QED
  BY <1>3, <1>6, <1>9 DEF Scanned

LEMMA CutPlaced ==
    ASSUME Placed, NEW rest, rest \in Seq(Range(rest)), Cut(rest)
    PROVE  /\ Placed'
           /\ input' \in Seq(Range(input'))
           /\ Len(input') = next - 1 + Len(rest)
           /\ \A k \in 1..Len(rest) : input'[next - 1 + k] = rest[k]
<1>1. /\ outcome = "scanning"
      /\ next <= Len(input)
      /\ input' = SubSeq(input, 1, next - 1) \o rest
      /\ next' = next /\ frames' = frames /\ outcome' = outcome
  BY DEF Cut
<1>2. /\ input \in Seq(Range(input)) /\ next \in Nat /\ next >= 1
      /\ StackOK(frames)
      /\ outcome = "scanning" /\ next > 1 => TopOf(frames).state # "map_start"
  BY DEF Placed
<1> DEFINE n == next - 1
           S == Range(input) \cup Range(rest)
           kept == SubSeq(input, 1, n)
<1>3. n \in Nat /\ n \in 0..Len(input) /\ next = n + 1
  BY <1>1, <1>2
<1> HIDE DEF n
<1>4. input \in Seq(S) /\ rest \in Seq(S)
  BY <1>2
<1> HIDE DEF S
<1>5. kept \in Seq(S) /\ Len(kept) = n
  BY <1>3, <1>4
<1>6. input' = kept \o rest
  BY <1>1 DEF n
<1> HIDE DEF kept
<1>7. /\ kept \o rest \in Seq(S)
      /\ Len(kept \o rest) = Len(kept) + Len(rest)
      /\ \A k \in 1..Len(rest) : (kept \o rest)[Len(kept) + k] = rest[k]
  <2>1. kept \in Seq(S) /\ rest \in Seq(S)
    BY <1>4, <1>5
  <2> QED
    BY <2>1, Joined
<1>8. /\ input' \in Seq(Range(input'))
      /\ Len(input') = n + Len(rest)
      /\ \A k \in 1..Len(rest) : input'[n + k] = rest[k]
  BY <1>5, <1>6, <1>7, OfItsRange
<1>9. Len(rest) \in Nat
  OBVIOUS
<1>10. Placed'
  <2>1. next' <= Len(input') + 1 /\ next' <= Len(input') + 2
    BY <1>1, <1>3, <1>8, <1>9
  <2> QED
    BY <1>1, <1>2, <1>8, <2>1 DEF Placed
<1> QED
  BY <1>8, <1>10 DEF n

LEMMA RestOfLine ==
    ASSUME \/ Cut(<<>>)
           \/ Cut(<<Token("error")>>)
           \/ \E d \in Glued : Cut(Text[d])
    PROVE  \E rest : /\ Cut(rest)
                     /\ rest \in Seq(Range(rest))
                     /\ Bracketed(rest)
<1>1. CASE Cut(<<>>)
  <2>1. <<>> \in Seq(Range(<<>>))
    OBVIOUS
  <2> QED
    BY <1>1, <2>1, NothingBracketed
<1>2. CASE Cut(<<Token("error")>>)
  <2>1. <<Token("error")>> \in Seq({Token("error")})
    OBVIOUS
  <2>2. <<Token("error")>> \in Seq(Range(<<Token("error")>>))
    BY <2>1, OfItsRange
  <2> QED
    BY <1>2, <2>2, NothingBracketed
<1>3. CASE \E d \in Glued : Cut(Text[d])
  <2>1. PICK d \in Glued : Cut(Text[d])
    BY <1>3
  <2>2. Text[d] \in Seq(Range(Text[d])) /\ Bracketed(Text[d])
    BY TextsOfLines DEF IsText
  <2> QED
    BY <2>1, <2>2
<1> QED
  BY <1>1, <1>2, <1>3

LEMMA SendOnTyped ==
    ASSUME NEW how \in {"blank", "unchanged", "enriched"}, NEW line,
           line \in Seq(Range(line)), SendOn(how, line)
    PROVE  Typed'
<1>1. Placed' /\ outcome' = "scanning"
  BY PlacedAgain DEF SendOn
<1>2. pc' = "index" /\ sent' = how
  BY DEF SendOn
<1> QED
  BY <1>1, <1>2 DEF Typed

LEMMA TypedNext ==
    ASSUME Typed, [Next]_vars
    PROVE  Typed'
<1>1. CASE Scanning
  <2>1. Placed' /\ outcome' \in {"scanning", "done", "error"}
    BY <1>1, DecodePlaced DEF Scanning, Typed
  <2> QED
    BY <1>1, <2>1 DEF Typed, Scanning, parseVars
<1>2. CASE \/ Cut(<<>>)
           \/ Cut(<<Token("error")>>)
           \/ \E d \in Glued : Cut(Text[d])
  <2>1. PICK rest : Cut(rest) /\ rest \in Seq(Range(rest))
    BY <1>2, RestOfLine
  <2>2. Placed'
    BY <2>1, CutPlaced DEF Typed
  <2> QED
    BY <2>1, <2>2 DEF Typed, Cut
<1>3. CASE ParseFails
  <2>1. <<>> \in Seq(Range(<<>>))
    OBVIOUS
  <2> QED
    BY <1>3, <2>1, SendOnTyped DEF ParseFails
<1>4. CASE NoSourceIP
  BY <1>4, SendOnTyped DEF NoSourceIP, Typed, Placed
<1>5. CASE NilTimestamp
  BY <1>5 DEF NilTimestamp, Typed, Placed, decoderVars
<1>6. CASE Enrich
  <2>1. PICK encoder \in Encoders : SendOn("enriched", Marshal(f', encoder))
    BY <1>6 DEF Enrich
  <2>2. Marshal(f', encoder) \in Seq(Range(Marshal(f', encoder)))
    BY MarshalIsText, OfItsRange
  <2> QED
    BY <2>1, <2>2, SendOnTyped
<1>7. CASE TimeFromLine
  BY <1>7 DEF TimeFromLine, Typed, Placed, decoderVars
<1>8. CASE Finished \/ UNCHANGED vars
  BY <1>8 DEF Finished, vars, Typed, Placed, decoderVars, parseVars
<1> QED
  BY <1>1, <1>2, <1>3, <1>4, <1>5, <1>6, <1>7, <1>8 DEF Next

LEMMA TypedTypeOK ==
    ASSUME Typed
    PROVE  TypeOK
<1>1. StackOK(frames) /\ input \in Seq(Range(input))
      /\ next \in Nat /\ next >= 1 /\ next <= Len(input) + 2
  BY DEF Typed, Placed
<1>2. Len(input) \in Nat
  BY <1>1
<1>3. next \in 1..(Len(input) + 2)
  BY <1>1, <1>2
<1>4. Len(frames) \in 1..3 /\ frames \in Seq(Frames)
  BY <1>1, TopOK
<1>5. ASSUME NEW k \in DOMAIN frames
      PROVE  frames[k].depth >= 0
  <2>1. frames[k] \in Frames
    BY <1>4
  <2>2. frames[k].depth \in Nat
    BY <2>1 DEF Frames
  <2> QED
    BY <2>2
<1> QED
  BY <1>3, <1>4, <1>5 DEF Typed, TypeOK

(* The decoder never reads past the token behind the end of a line, has at *)
(* most the three activations that the structs allow, and never counts a   *)
(* depth below zero, on any lines and for both encoders.                   *)
THEOREM TypeCorrect == Spec => []TypeOK
<1>1. Init => Typed
  BY PlacedInit
<1>2. Typed /\ [Next]_vars => Typed'
  BY TypedNext
<1>3. Typed => TypeOK
  BY TypedTypeOK
<1> QED
  BY <1>1, <1>2, <1>3, PTL DEF Spec

-----------------------------------------------------------------------------
(* A line that was cut short.                                              *)
LEMMA CutBegins ==
    ASSUME Typed, NEW rest, rest \in Seq(Range(rest)), Bracketed(rest),
           Cut(rest)
    PROVE  Blanked'
<1>1. /\ Placed'
      /\ Len(input') = next - 1 + Len(rest)
      /\ \A k \in 1..Len(rest) : input'[next - 1 + k] = rest[k]
  BY CutPlaced DEF Typed
<1>2. /\ pc = "parse" /\ outcome = "scanning" /\ ~ cut
      /\ rest # <<>> => next > 1
      /\ UNCHANGED <<next, frames, outcome, pc, sent>>
      /\ sent = "no"
  BY DEF Cut, Typed
<1>3. next \in Nat /\ next >= 1 /\ StackOK(frames)
  BY DEF Typed, Placed
<1> DEFINE c == next - 1
<1>4. c \in Nat /\ c < next /\ next - 1 - c = 0
  BY <1>3
<1>5. Inside(rest, 0, frames)
  <2>1. OpenObjects(rest, 0) = 0 /\ OpenArrays(rest, 0) = 0
    BY Counted
  <2>2. /\ Level(frames) \in Nat /\ Level(frames) >= 1
        /\ TopOf(frames).depth \in Nat
        /\ InArray(frames) => TopOf(frames).depth > 0
    BY <1>3, LevelOK
  <2>3. Level(frames) >= 1 + OpenObjects(rest, 0)
    BY <2>1, <2>2
  <2>4. InArray(frames) => TopOf(frames).depth >= 1 + OpenArrays(rest, 0)
    BY <2>1, <2>2
  <2> QED
    BY <2>3, <2>4 DEF Inside
<1>6. CutAt(c, rest)'
  BY <1>1, <1>2, <1>4, <1>5 DEF CutAt
<1> HIDE DEF c
<1>7. (\E d, r : CutAt(d, r))'
  BY <1>6
<1> QED
  BY <1>2, <1>7 DEF Blanked

LEMMA CutGoesOn ==
    ASSUME Placed, Decode, NEW c, NEW rest, CutAt(c, rest)
    PROVE  /\ outcome' # "done"
           /\ outcome' = "scanning" => CutAt(c, rest)'
<1>1. /\ outcome = "scanning"
      /\ next' = next + 1
      /\ input' = input
      /\ Nests(frames, Scanned, Now')
      /\ Now'.frames = frames' /\ Now'.outcome = outcome'
  BY DecodeNests
<1>2. /\ c \in Nat /\ c < next
      /\ rest \in Seq(Range(rest))
      /\ Len(input) = c + Len(rest)
      /\ \A k \in 1..Len(rest) : input[c + k] = rest[k]
      /\ rest # <<>> => next > 1
      /\ Bracketed(rest)
      /\ Inside(rest, next - 1 - c, frames)
  BY DEF CutAt
<1>3. /\ next \in Nat /\ StackOK(frames)
      /\ outcome = "scanning" => next <= Len(input) + 1
      /\ outcome = "scanning" /\ next > 1 => TopOf(frames).state # "map_start"
  BY DEF Placed
<1>4. Len(rest) \in Nat
  BY <1>2
<1> DEFINE p == next - 1 - c
<1>5. p \in Nat /\ next = c + p + 1 /\ next' - 1 - c = p + 1 /\ c < next'
  BY <1>1, <1>2, <1>3
<1>6. CASE p < Len(rest)
  <2>1. p + 1 \in 1..Len(rest) /\ next = c + (p + 1) /\ next <= Len(input)
    BY <1>2, <1>4, <1>5, <1>6
  <2>2. input[c + (p + 1)] = rest[p + 1]
    BY <1>2, <2>1
  <2>3. Scanned = rest[p + 1]
    BY <2>1, <2>2 DEF Scanned
  <2>4. TopOf(frames).state # "map_start"
    <3>1. rest # <<>>
      BY <1>4, <1>5, <1>6
    <3> QED
      BY <1>1, <1>2, <1>3, <3>1
  <2>5. Inside(rest, p, frames)
    BY <1>2
  <2> HIDE DEF p
  <2>6. outcome' # "done"
    BY <1>1, <1>2, <1>3, <1>4, <1>5, <1>6, <2>3, <2>5, NotClosed
  <2>7. outcome' = "scanning" => Inside(rest, p + 1, frames')
    BY <1>1, <1>2, <1>3, <1>4, <1>5, <1>6, <2>3, <2>4, <2>5, InsideStays
  <2>8. next' > 1
    BY <1>1, <1>2, <1>3
  <2>9. outcome' = "scanning" => CutAt(c, rest)'
    BY <1>1, <1>2, <1>5, <2>7, <2>8 DEF CutAt
  <2> QED
    BY <2>6, <2>9
<1>7. CASE ~ (p < Len(rest))
  <2>1. ~ (next <= Len(input))
    BY <1>2, <1>4, <1>5, <1>7
  <2>2. Scanned.tok = "eof"
    BY <2>1 DEF Scanned, Token
  <2>3. LevelsAfter(frames, Scanned, Now')
    BY <1>1 DEF Nests
  <2> QED
    BY <1>1, <2>2, <2>3 DEF LevelsAfter
<1> QED
  BY <1>6, <1>7

LEMMA BlankedNext ==
    ASSUME Typed, Blanked, [Next]_vars
    PROVE  Blanked'
<1>1. CASE Scanning
  <2>1. Decode /\ UNCHANGED parseVars
    BY <1>1 DEF Scanning
  <2>2. outcome = "scanning" /\ Placed
    BY <2>1, DecodeNests DEF Typed
  <2>3. CASE cut /\ pc = "parse"
    <3>1. PICK c, rest : CutAt(c, rest)
      BY <2>2, <2>3 DEF Blanked
    <3>2. /\ outcome' # "done"
          /\ outcome' = "scanning" => CutAt(c, rest)'
      BY <2>1, <2>2, <3>1, CutGoesOn
    <3>3. outcome' = "scanning" => (\E d, r : CutAt(d, r))'
      BY <3>2
    <3> QED
      BY <2>1, <2>3, <3>2, <3>3 DEF Blanked, parseVars
  <2>4. CASE ~ (cut /\ pc = "parse")
    BY <2>1, <2>4 DEF Blanked, parseVars
  <2> QED
    BY <2>3, <2>4
<1>2. CASE \/ Cut(<<>>)
           \/ Cut(<<Token("error")>>)
           \/ \E d \in Glued : Cut(Text[d])
  BY <1>2, RestOfLine, CutBegins
<1>3. CASE ParseFails
  BY <1>3 DEF ParseFails, SendOn, Blanked
<1>4. CASE NoSourceIP
  BY <1>4 DEF NoSourceIP, SendOn, Blanked
<1>5. CASE NilTimestamp
  BY <1>5 DEF NilTimestamp, Blanked
<1>6. CASE Enrich
  <2>1. /\ pc = "parse" /\ outcome = "done"
        /\ \E encoder \in Encoders : SendOn("enriched", Marshal(f', encoder))
    BY <1>6 DEF Enrich
  <2> QED
    BY <2>1 DEF SendOn, Blanked
<1>7. CASE TimeFromLine
  BY <1>7 DEF TimeFromLine, Blanked
<1>8. CASE Finished \/ UNCHANGED vars
  <2>1. UNCHANGED vars
    BY <1>8 DEF Finished
  <2>2. UNCHANGED <<input, next, frames, outcome, pc, cut, sent>>
    BY <2>1 DEF vars, decoderVars, parseVars
  <2>3. ASSUME NEW c, NEW rest, CutAt(c, rest)
        PROVE  CutAt(c, rest)'
    BY <2>2, <2>3 DEF CutAt
  <2>4. (\E c, rest : CutAt(c, rest)) => (\E c, rest : CutAt(c, rest))'
    BY <2>3
  <2> QED
    BY <2>2, <2>4 DEF Blanked
<1> QED
  BY <1>1, <1>2, <1>3, <1>4, <1>5, <1>6, <1>7, <1>8 DEF Next

(* A line that was cut short is blanked, wherever it was cut and whatever  *)
(* follows it: the object it began is closed by no text whose brackets are *)
(* its own, since the decoder's level never falls below that of the text,  *)
(* and the text ends before the object does.                               *)
THEOREM CutLineBlanked == Spec => []CutLineIsBlanked
<1>1. Init => Typed /\ Blanked
  BY PlacedInit DEF Init, Blanked
<1>2. Typed /\ Blanked /\ [Next]_vars => Typed' /\ Blanked'
  BY TypedNext, BlankedNext
<1>3. Blanked => CutLineIsBlanked
  BY DEF Blanked, CutLineIsBlanked
<1> QED
  BY <1>1, <1>2, <1>3, PTL DEF Spec

-----------------------------------------------------------------------------
(* The fields of the structs, by their paths in nf.                        *)
IsField(at, n, path, g) ==
    /\ n \in 1..3
    /\ path \in PathsAt(n)
    /\ g \in FieldsIn(Nested[n])
    /\ at = Append(path, g)

Names == {"GeoIP", "Location", "Coordinates"}
         \cup UNION {FieldsIn(s) : s \in Structs}

LEMMA PrefixIs ==
    ASSUME NEW S, NEW s \in Seq(S), NEW t \in Seq(S)
    PROVE  IsPrefix(s, t) <=> /\ Len(s) <= Len(t)
                              /\ \A k \in 1..Len(s) : s[k] = t[k]
<1> DEFINE n == Len(s)
           a == SubSeq(s, 1, n)
           b == SubSeq(t, 1, n)
<1>1. n \in Nat /\ n \in 0..Len(s)
  OBVIOUS
<1>2. a \in Seq(S) /\ Len(a) = n /\ \A k \in 1..n : a[k] = s[k]
  BY <1>1
<1>3. n <= Len(t) => b \in Seq(S) /\ Len(b) = n /\ \A k \in 1..n : b[k] = t[k]
  BY <1>1
<1>4. IsPrefix(s, t) <=> n <= Len(t) /\ a = b
  BY DEF IsPrefix
<1> HIDE DEF a, b, n
<1>5. ASSUME n <= Len(t), a = b
      PROVE  \A k \in 1..n : s[k] = t[k]
  BY <1>2, <1>3, <1>5
<1>6. ASSUME n <= Len(t), \A k \in 1..n : s[k] = t[k]
      PROVE  a = b
  <2>1. b \in Seq(S) /\ Len(a) = Len(b) /\ \A k \in 1..Len(a) : a[k] = b[k]
    BY <1>2, <1>3, <1>6
  <2> QED
    BY <1>2, <2>1, SameSequence
<1> QED
  BY <1>4, <1>5, <1>6 DEF n

LEMMA OneIsPrefix ==
    ASSUME NEW S, NEW s \in Seq(S)
    PROVE  IsPrefix(s, s)
BY PrefixIs

LEMMA StructsNested ==
    ASSUME NEW n \in 1..3
    PROVE  Nested[n] \in Structs
BY DEF Nested, Structs

LEMMA FieldParts ==
    ASSUME NEW at, NEW n, NEW path, NEW g, IsField(at, n, path, g)
    PROVE  /\ at \in Seq(Names) /\ path \in Seq(Names)
           /\ Len(at) = n /\ Len(path) = n - 1
           /\ n \in 1..3 /\ g \in Names /\ at[n] = g
           /\ \A k \in 1..(n - 1) : at[k] = path[k]
           /\ n > 1 => at[1] = "GeoIP"
           /\ n = 3 => at[2] \in {"Location", "Coordinates"}
<1>1. n = 1 \/ n = 2 \/ n = 3
  BY DEF IsField
<1>2. g \in Names
  BY StructsNested DEF IsField, Names
<1>3. "GeoIP" \in Names /\ "Location" \in Names /\ "Coordinates" \in Names
  BY DEF Names
<1>4. /\ path \in Seq(Names)
      /\ Len(path) = n - 1
      /\ n > 1 => path[1] = "GeoIP"
      /\ n = 3 => path[2] \in {"Location", "Coordinates"}
  <2>1. CASE n = 1
    BY <1>3, <2>1 DEF IsField, PathsAt
  <2>2. CASE n = 2
    <3>1. path = <<"GeoIP">>
      BY <2>2 DEF IsField, PathsAt
    <3> DEFINE one == <<"GeoIP">>
    <3>2. one \in Seq(Names) /\ Len(one) = 1 /\ one[1] = "GeoIP"
      BY <1>3
    <3> HIDE DEF one
    <3> QED
      BY <2>2, <3>1, <3>2 DEF one
  <2>3. CASE n = 3
    BY <1>3, <2>3 DEF IsField, PathsAt
  <2> QED
    BY <1>1, <2>1, <2>2, <2>3
<1>5. at = Append(path, g)
  BY DEF IsField
<1>6. /\ at \in Seq(Names) /\ Len(at) = n /\ at[n] = g
      /\ \A k \in 1..(n - 1) : at[k] = path[k]
  BY <1>1, <1>2, <1>4, <1>5
<1> QED
  BY <1>1, <1>2, <1>4, <1>6

LEMMA SameField ==
    ASSUME NEW p, NEW n, NEW a, NEW g, IsField(p, n, a, g),
           NEW m, NEW b, NEW h, IsField(p, m, b, h)
    PROVE  n = m /\ a = b /\ g = h
<1>1. /\ a \in Seq(Names) /\ Len(p) = n /\ Len(a) = n - 1 /\ p[n] = g
      /\ n \in 1..3
      /\ \A k \in 1..(n - 1) : p[k] = a[k]
  BY FieldParts
<1>2. /\ b \in Seq(Names) /\ Len(p) = m /\ Len(b) = m - 1 /\ p[m] = h
      /\ m \in 1..3
      /\ \A k \in 1..(m - 1) : p[k] = b[k]
  BY FieldParts
<1>3. n = m /\ g = h
  BY <1>1, <1>2
<1>4. Len(a) = Len(b) /\ \A i \in 1..Len(a) : a[i] = b[i]
  BY <1>1, <1>2, <1>3
<1>5. a = b
  BY <1>1, <1>2, <1>4, SameSequence
<1> QED
  BY <1>3, <1>5

(* What lies below a field: itself, and the fields of the struct in it.    *)
LEMMA BelowField ==
    ASSUME NEW at, NEW n, NEW path, NEW g, IsField(at, n, path, g),
           NEW p, NEW m, NEW q, NEW h, IsField(p, m, q, h)
    PROVE  IsPrefix(at, p) => \/ p = at
                              \/ n = 1 /\ g = "GeoIP" /\ m > 1
                              \/ n = 2 /\ m = 3 /\ q = at
<1> SUFFICES ASSUME IsPrefix(at, p), p # at
             PROVE  \/ n = 1 /\ g = "GeoIP" /\ m > 1
                    \/ n = 2 /\ m = 3 /\ q = at
  OBVIOUS
<1>1. at \in Seq(Names) /\ Len(at) = n /\ at[n] = g /\ n \in 1..3
  BY FieldParts
<1>2. /\ p \in Seq(Names) /\ Len(p) = m /\ m \in 1..3
      /\ q \in Seq(Names) /\ Len(q) = m - 1
      /\ \A k \in 1..(m - 1) : p[k] = q[k]
      /\ m > 1 => p[1] = "GeoIP"
  BY FieldParts
<1>3. n <= m /\ \A k \in 1..n : at[k] = p[k]
  BY <1>1, <1>2, PrefixIs
<1>4. n # m
  <2>1. n = m => Len(at) = Len(p) /\ \A k \in 1..Len(at) : at[k] = p[k]
    BY <1>1, <1>2, <1>3
  <2>2. n = m => at = p
    BY <1>1, <1>2, <2>1, SameSequence
  <2> QED
    BY <2>2
<1>5. CASE n = 1
  <2>1. m > 1 /\ at[1] = p[1] /\ at[1] = g
    BY <1>1, <1>2, <1>3, <1>4, <1>5
  <2> QED
    BY <1>2, <1>5, <2>1
<1>6. CASE n # 1
  <2>1. n = 2 /\ m = 3
    BY <1>1, <1>2, <1>3, <1>4, <1>6
  <2>2. Len(q) = Len(at) /\ \A k \in 1..Len(q) : q[k] = at[k]
    BY <1>1, <1>2, <1>3, <2>1
  <2>3. q = at
    BY <1>1, <1>2, <2>2, SameSequence
  <2> QED
    BY <2>1, <2>3
<1> QED
  BY <1>5, <1>6

-----------------------------------------------------------------------------
(* Reading on in a text: from what is there after i tokens to what is      *)
(* there after j of them.                                                  *)
TokenAt(text, k) == IF k <= Len(text) THEN text[k] ELSE Token("eof")

Steps(text, i, j, tr) ==
    \A k \in i..(j - 1) :
        /\ tr[k].outcome = "scanning"
        /\ tr[k + 1] = After(tr[k], TokenAt(text, k + 1))

Reaches(text, i, z, j, y) ==
    /\ i \in Nat
    /\ j \in Nat
    /\ i <= j
    /\ \E tr : tr[i] = z /\ tr[j] = y /\ Steps(text, i, j, tr)

LEMMA ReachesItself ==
    ASSUME NEW text, NEW i \in Nat, NEW z
    PROVE  Reaches(text, i, z, i, z)
<1> DEFINE tr == [k \in Nat |-> z]
<1>1. tr[i] = z /\ i..(i - 1) = {}
  OBVIOUS
<1>2. Steps(text, i, i, tr)
  BY <1>1 DEF Steps
<1> HIDE DEF tr
<1> QED
  BY <1>1, <1>2 DEF Reaches

LEMMA ReachesOn ==
    ASSUME NEW text, NEW i, NEW x, NEW j, NEW y, NEW k, NEW z,
           Reaches(text, i, x, j, y), Reaches(text, j, y, k, z)
    PROVE  Reaches(text, i, x, k, z)
<1>1. PICK tr : tr[i] = x /\ tr[j] = y /\ Steps(text, i, j, tr)
  BY DEF Reaches
<1>2. PICK ur : ur[j] = y /\ ur[k] = z /\ Steps(text, j, k, ur)
  BY DEF Reaches
<1>3. i \in Nat /\ j \in Nat /\ k \in Nat /\ i <= j /\ j <= k
  BY DEF Reaches
<1> DEFINE vr == [m \in Nat |-> IF m <= j THEN tr[m] ELSE ur[m]]
<1>4. \A m \in Nat : m <= j => vr[m] = tr[m]
  OBVIOUS
<1>5. \A m \in Nat : m >= j => vr[m] = ur[m]
  BY <1>1, <1>2, <1>3
<1> HIDE DEF vr
<1>6. vr[i] = x /\ vr[k] = z
  BY <1>1, <1>2, <1>3, <1>4, <1>5
<1>7. ASSUME NEW m \in i..(k - 1)
      PROVE  /\ vr[m].outcome = "scanning"
             /\ vr[m + 1] = After(vr[m], TokenAt(text, m + 1))
  <2>1. m \in Nat /\ m + 1 \in Nat
    BY <1>3
  <2>2. CASE m < j
    <3>1. m \in i..(j - 1) /\ m <= j /\ m + 1 <= j
      BY <1>3, <2>1, <2>2
    <3>2. vr[m] = tr[m] /\ vr[m + 1] = tr[m + 1]
      BY <1>4, <2>1, <3>1
    <3> QED
      BY <1>1, <3>1, <3>2 DEF Steps
  <2>3. CASE ~ (m < j)
    <3>1. m \in j..(k - 1) /\ m >= j /\ m + 1 >= j
      BY <1>3, <2>1, <2>3
    <3>2. vr[m] = ur[m] /\ vr[m + 1] = ur[m + 1]
      BY <1>5, <2>1, <3>1
    <3> QED
      BY <1>2, <3>1, <3>2 DEF Steps
  <2> QED
    BY <2>2, <2>3
<1>8. Steps(text, i, k, vr)
  BY <1>7 DEF Steps
<1> QED
  BY <1>3, <1>6, <1>8 DEF Reaches

LEMMA ReachesNext ==
    ASSUME NEW text, NEW o \in Nat, NEW z, z.outcome = "scanning"
    PROVE  Reaches(text, o, z, o + 1, After(z, TokenAt(text, o + 1)))
<1> DEFINE y == After(z, TokenAt(text, o + 1))
           tr == [k \in Nat |-> IF k = o THEN z ELSE y]
<1>1. tr[o] = z /\ tr[o + 1] = y /\ o + 1 \in Nat
  OBVIOUS
<1>2. \A k \in o..((o + 1) - 1) : k = o
  OBVIOUS
<1>3. y = After(z, TokenAt(text, o + 1))
  OBVIOUS
<1> HIDE DEF tr, y
<1>4. Steps(text, o, o + 1, tr)
  BY <1>1, <1>2, <1>3 DEF Steps
<1>5. Reaches(text, o, z, o + 1, y)
  BY <1>1, <1>4 DEF Reaches
<1> QED
  BY <1>3, <1>5

(* What is reached when the reading is over is determined by the text.     *)
LEMMA SameTrace ==
    ASSUME NEW text, NEW i \in Nat, NEW j \in Nat, NEW tr, NEW ur,
           tr[i] = ur[i], Steps(text, i, j, tr), Steps(text, i, j, ur)
    PROVE  \A k \in i..j : tr[k] = ur[k]
<1> DEFINE T == {d \in Nat : i + d <= j => tr[i + d] = ur[i + d]}
<1>1. 0 \in T
  OBVIOUS
<1>2. ASSUME NEW d \in Nat, d \in T
      PROVE  d + 1 \in T
  <2>1. SUFFICES ASSUME i + (d + 1) <= j
                 PROVE  tr[i + (d + 1)] = ur[i + (d + 1)]
    OBVIOUS
  <2>2. i + d \in i..(j - 1) /\ i + d <= j /\ (i + d) + 1 = i + (d + 1)
    BY <2>1
  <2>3. tr[i + d] = ur[i + d]
    BY <1>2, <2>2
  <2>4. /\ tr[(i + d) + 1] = After(tr[i + d], TokenAt(text, (i + d) + 1))
        /\ ur[(i + d) + 1] = After(ur[i + d], TokenAt(text, (i + d) + 1))
    BY <2>2 DEF Steps
  <2> QED
    BY <2>2, <2>3, <2>4
<1>3. T \in SUBSET Nat
  OBVIOUS
<1>4. T = Nat
  <2> HIDE DEF T
  <2> QED
    BY <1>1, <1>2, <1>3, AllNumbers
<1>5. ASSUME NEW k \in i..j
      PROVE  tr[k] = ur[k]
  <2>1. k - i \in Nat /\ i + (k - i) = k /\ i + (k - i) <= j
    OBVIOUS
  <2>2. k - i \in T
    BY <1>4, <2>1
  <2> QED
    BY <2>1, <2>2
<1> QED
  BY <1>5

LEMMA SameEnd ==
    ASSUME NEW text, NEW i, NEW x, NEW j, NEW y, NEW k, NEW z,
           Reaches(text, i, x, j, y), y.outcome # "scanning",
           Reaches(text, i, x, k, z), z.outcome # "scanning"
    PROVE  j = k /\ y = z
<1>1. PICK tr : tr[i] = x /\ tr[j] = y /\ Steps(text, i, j, tr)
  BY DEF Reaches
<1>2. PICK ur : ur[i] = x /\ ur[k] = z /\ Steps(text, i, k, ur)
  BY DEF Reaches
<1>3. i \in Nat /\ j \in Nat /\ k \in Nat /\ i <= j /\ i <= k
  BY DEF Reaches
<1>4. ~ (j < k)
  <2> SUFFICES ASSUME j < k
               PROVE  FALSE
    OBVIOUS
  <2>1. Steps(text, i, j, ur) /\ j \in i..(k - 1) /\ j \in i..j
    BY <1>2, <1>3 DEF Steps
  <2>2. tr[j] = ur[j]
    BY <1>1, <1>2, <1>3, <2>1, SameTrace
  <2>3. ur[j].outcome = "scanning"
    BY <1>2, <2>1 DEF Steps
  <2> QED
    BY <1>1, <2>2, <2>3
<1>5. ~ (k < j)
  <2> SUFFICES ASSUME k < j
               PROVE  FALSE
    OBVIOUS
  <2>1. Steps(text, i, k, tr) /\ k \in i..(j - 1) /\ k \in i..k
    BY <1>1, <1>3 DEF Steps
  <2>2. tr[k] = ur[k]
    BY <1>1, <1>2, <1>3, <2>1, SameTrace
  <2>3. tr[k].outcome = "scanning"
    BY <1>1, <2>1 DEF Steps
  <2> QED
    BY <1>2, <2>2, <2>3
<1>6. j = k /\ j \in i..j
  BY <1>3, <1>4, <1>5
<1>7. tr[j] = ur[j]
  BY <1>1, <1>2, <1>3, <1>6, SameTrace
<1> QED
  BY <1>1, <1>2, <1>6, <1>7

-----------------------------------------------------------------------------
(* The decoder in the n-th of the nested structs, the one at path.         *)
On(z, n, path, state, w) ==
    /\ z.outcome = "scanning"
    /\ z.value = w
    /\ StackOK(z.frames)
    /\ Len(z.frames) = n
    /\ TopOf(z.frames).path = path
    /\ TopOf(z.frames).state = state

LEMMA GoneOn ==
    ASSUME NEW z, NEW n, NEW path, NEW st, NEW w, On(z, n, path, st, w),
           NEW state \in {"want_key", "want_value", "after_value"},
           state = "want_value" => TopOf(z.frames).key # "base", NEW u
    PROVE  /\ On(Gone(z, state, u), n, path, state, u)
           /\ TopOf(Gone(z, state, u).frames).key = TopOf(z.frames).key
<1> DEFINE fs == z.frames
           gs == Goes(fs, state)
           fr == With(TopOf(fs), state, TopOf(fs).key, TopOf(fs).open,
                      TopOf(fs).depth)
<1>1. StackOK(fs) /\ Len(fs) = n /\ TopOf(fs).path = path
  BY DEF On
<1>2. state \in States \ {"skip"}
      /\ (state \in {"want_colon", "want_value"} => TopOf(fs).key # "base")
  BY DEF States
<1>3. Moved(fs, gs, fr)
  BY <1>1, <1>2, StackGoes
<1>4. fr.path = TopOf(fs).path /\ fr.state = state /\ fr.key = TopOf(fs).key
  BY DEF With
<1>5. /\ Gone(z, state, u).frames = gs
      /\ Gone(z, state, u).value = u
      /\ Gone(z, state, u).outcome = "scanning"
  BY DEF Gone, At3
<1> HIDE DEF fs, gs, fr
<1>6. /\ StackOK(gs) /\ Len(gs) = n
      /\ TopOf(gs).path = path /\ TopOf(gs).state = state
      /\ TopOf(gs).key = TopOf(fs).key
  BY <1>1, <1>3, <1>4 DEF Moved
<1> QED
  BY <1>5, <1>6 DEF On, fs

LEMMA OpenReads ==
    ASSUME NEW z, NEW n, NEW path, NEW w, On(z, n, path, "map_start", w),
           NEW t, t.tok = "left_bracket"
    PROVE  On(After(z, t), n, path, "want_key", w)
<1>1. After(z, t) = Gone(z, "want_key", w)
  BY DEF On, After, FromMapStart
<1> QED
  BY <1>1, GoneOn

LEMMA CommaReads ==
    ASSUME NEW z, NEW n, NEW path, NEW w, On(z, n, path, "after_value", w),
           NEW t, t.tok = "comma"
    PROVE  On(After(z, t), n, path, "want_key", w)
<1>1. After(z, t) = Gone(z, "want_key", w)
  BY DEF On, After, FromAfterValue
<1> QED
  BY <1>1, GoneOn

LEMMA ColonReads ==
    ASSUME NEW z, NEW n, NEW path, NEW w, On(z, n, path, "want_colon", w),
           NEW t, t.tok = "colon"
    PROVE  /\ On(After(z, t), n, path, "want_value", w)
           /\ TopOf(After(z, t).frames).key = TopOf(z.frames).key
<1>1. After(z, t) = Gone(z, "want_value", w)
  BY DEF On, After, FromWantColon
<1>2. TopOf(z.frames).key # "base"
  BY TopParts DEF On
<1> QED
  BY <1>1, <1>2, GoneOn

LEMMA KeyReads ==
    ASSUME NEW z, NEW n \in 1..3, NEW path, NEW w,
           On(z, n, path, "want_key", w),
           NEW g \in FieldsIn(Nested[n]),
           NEW t, t.tok = "string", FieldOf(Nested[n], t) = g
    PROVE  /\ On(After(z, t), n, path, "want_colon", w)
           /\ TopOf(After(z, t).frames).key = g
<1> DEFINE fs == z.frames
           gs == Knows(fs, g)
           fr == With(TopOf(fs), "want_colon", g, TopOf(fs).open,
                      TopOf(fs).depth)
<1>1. /\ StackOK(fs) /\ Len(fs) = n /\ TopOf(fs).path = path
      /\ TopOf(fs).state = "want_key" /\ z.value = w
  BY DEF On
<1>2. TopOf(fs).struct = Nested[n] /\ Nested[n] \in Structs
  BY <1>1, TopParts
<1>3. FieldOf(TopOf(fs).struct, t) = g
  BY <1>2
<1>4. g # "base"
  BY <1>2, ListingsAgree
<1>5. t.tok = "string"
  OBVIOUS
<1>6. After(z, t) = At3(gs, w, "scanning")
  BY <1>1, <1>3, <1>5 DEF After, FromWantKey
<1>7. Moved(fs, gs, fr)
  BY <1>1, <1>2, <1>4, StackKnows
<1>8. fr.path = TopOf(fs).path /\ fr.state = "want_colon" /\ fr.key = g
  BY DEF With
<1>9. /\ After(z, t).frames = gs
      /\ After(z, t).value = w
      /\ After(z, t).outcome = "scanning"
  BY <1>6 DEF At3
<1> HIDE DEF fs, gs, fr
<1>10. /\ StackOK(gs) /\ Len(gs) = n
       /\ TopOf(gs).path = path /\ TopOf(gs).state = "want_colon"
       /\ TopOf(gs).key = g
  BY <1>1, <1>7, <1>8 DEF Moved
<1> QED
  BY <1>9, <1>10 DEF On

(* The end of an object: back in the struct around it, or done.            *)
LEMMA CloseReads ==
    ASSUME NEW z, NEW n \in 2..3, NEW path, NEW w,
           On(z, n, path, "after_value", w),
           NEW t, t.tok = "right_bracket", NEW around \in PathsAt(n - 1)
    PROVE  On(After(z, t), n - 1, around, "after_value", w)
<1> DEFINE fs == z.frames
           gs == Leaves(fs)
<1>1. /\ StackOK(fs) /\ Len(fs) = n
      /\ TopOf(fs).state = "after_value" /\ z.value = w
  BY DEF On
<1>2. After(z, t) = At3(gs, w, "scanning")
  BY <1>1 DEF After, FromAfterValue, Returned
<1>3. Reading(gs, "after_value", n - 1)
  <2>1. Len(fs) # 1
    BY <1>1
  <2>2. Reading(gs, "after_value", Len(fs) - 1)
    BY <1>1, <2>1, LeavesReading
  <2> QED
    BY <1>1, <2>2
<1>4. /\ After(z, t).frames = gs
      /\ After(z, t).value = w
      /\ After(z, t).outcome = "scanning"
  BY <1>2 DEF At3
<1> HIDE DEF gs, fs
<1>5. StackOK(gs) /\ Len(gs) = n - 1 /\ TopOf(gs).state = "after_value"
  BY <1>3 DEF Reading
<1>6. TopOf(gs).path \in PathsAt(n - 1)
  BY <1>5, TopParts
<1>7. TopOf(gs).path = around
  BY <1>6 DEF PathsAt
<1> QED
  BY <1>4, <1>5, <1>7 DEF On

LEMMA CloseEnds ==
    ASSUME NEW z, NEW w, On(z, 1, <<>>, "after_value", w),
           NEW t, t.tok = "right_bracket"
    PROVE  After(z, t).outcome = "done" /\ After(z, t).value = w
<1>1. After(z, t) = At3(z.frames, w, "done")
  BY DEF On, After, FromAfterValue, Returned
<1> QED
  BY <1>1 DEF At3

(* Any value but null opens a struct.                                      *)
LEMMA StructReads ==
    ASSUME NEW z, NEW w, On(z, 1, <<>>, "want_value", w),
           TopOf(z.frames).key = "GeoIP",
           NEW t, t.tok = "left_bracket"
    PROVE  On(After(z, t), 2, <<"GeoIP">>, "want_key", w)
<1> DEFINE fs == z.frames
           top == TopOf(fs)
           path == <<"GeoIP">>
           gs == Enters(fs, "esGeoIP", path)
<1>1. /\ StackOK(fs) /\ Len(fs) = 1 /\ top.path = <<>> /\ z.value = w
      /\ top.state = "want_value" /\ top.key = "GeoIP"
  BY DEF On
<1>2. top.struct = "nf"
  <2>1. top.struct = Nested[Len(fs)]
    BY <1>1, TopParts
  <2>2. Nested[1] = "nf"
    BY DEF Nested
  <2> QED
    BY <1>1, <2>1, <2>2
<1>3. Kind(top) = "esGeoIP" /\ FieldAt(top) = path
  <2>1. "nf" \in Structs /\ "GeoIP" \in FieldsIn("nf")
    BY AlwaysFields DEF Structs
  <2>2. Dispatch["nf"]["GeoIP"] = "GeoIP" /\ Handler["nf"]["GeoIP"] = "esGeoIP"
    BY <2>1, Kinds
  <2> QED
    BY <1>1, <1>2, <2>2 DEF Kind, FieldAt
<1>4. t.tok \in ValueTokens /\ t.tok # "null" /\ top.key # "no_such_key"
  BY <1>1 DEF ValueTokens
<1>5. After(z, t) = At3(gs, w, "scanning")
  <2>1. After(z, t) = FromWantValue(z, t)
    BY <1>1 DEF After
  <2>2. FromWantValue(z, t) = ReadField(z, t, Kind(top), FieldAt(top))
    BY <1>4 DEF FromWantValue
  <2> QED
    BY <1>1, <1>3, <1>4, <2>1, <2>2 DEF ReadField, ReadStruct
<1>6. Nested[Len(fs) + 1] = "esGeoIP" /\ path \in PathsAt(Len(fs) + 1)
      /\ Len(fs) < 3
  BY <1>1 DEF Nested, PathsAt
<1>7. /\ StackOK(gs) /\ Len(gs) = 2
      /\ TopOf(gs) = Frame("esGeoIP", "want_key", path)
  <2> HIDE DEF fs, path
  <2> DEFINE inner == Nested[Len(fs) + 1]
             hs == Enters(fs, inner, path)
  <2>1. /\ StackOK(hs) /\ Len(hs) = Len(fs) + 1
        /\ TopOf(hs) = Frame(inner, "want_key", path)
    BY <1>1, <1>6, StackEnters
  <2> QED
    BY <1>1, <1>6, <2>1
<1>8. /\ After(z, t).frames = gs
      /\ After(z, t).value = w
      /\ After(z, t).outcome = "scanning"
  BY <1>5 DEF At3
<1>9. /\ Frame("esGeoIP", "want_key", path).path = path
      /\ Frame("esGeoIP", "want_key", path).state = "want_key"
  BY DEF Frame
<1> HIDE DEF gs, path
<1>10. On(After(z, t), 2, path, "want_key", w)
  BY <1>7, <1>8, <1>9 DEF On
<1> QED
  BY <1>10 DEF path

LEMMA PointerReads ==
    ASSUME NEW z, NEW w, NEW g \in {"Location", "Coordinates"},
           On(z, 2, <<"GeoIP">>, "want_value", w),
           TopOf(z.frames).key = g, g \in FieldsIn("esGeoIP"),
           NEW t, t.tok = "left_bracket"
    PROVE  On(After(z, t), 3, <<"GeoIP", g>>, "want_key",
              IF <<"GeoIP", g>> \in DOMAIN w THEN w
              ELSE Assigned(w, <<"GeoIP", g>>, "new"))
<1> DEFINE fs == z.frames
           top == TopOf(fs)
           path == <<"GeoIP", g>>
           gs == Enters(fs, "esGeoIPLocation", path)
           u == IF path \in DOMAIN w THEN w ELSE Assigned(w, path, "new")
<1>1. /\ StackOK(fs) /\ Len(fs) = 2 /\ top.path = <<"GeoIP">> /\ z.value = w
      /\ top.state = "want_value" /\ top.key = g
  BY DEF On
<1>2. top.struct = "esGeoIP"
  <2>1. top.struct = Nested[Len(fs)]
    BY <1>1, TopParts
  <2>2. Nested[2] = "esGeoIP"
    BY DEF Nested
  <2> QED
    BY <1>1, <2>1, <2>2
<1>3. Kind(top) = "*esGeoIPLocation" /\ FieldAt(top) = path
  <2>1. "esGeoIP" \in Structs
    BY DEF Structs
  <2>2. /\ Dispatch["esGeoIP"][g] = g
        /\ Handler["esGeoIP"][g] = "*esGeoIPLocation"
    BY <2>1, Kinds
  <2> QED
    BY <1>1, <1>2, <2>2, AppendedToOne DEF Kind, FieldAt
<1>4. t.tok \in ValueTokens /\ t.tok # "null" /\ top.key # "no_such_key"
  BY <1>1 DEF ValueTokens
<1>5. After(z, t) = At3(gs, u, "scanning")
  <2>1. After(z, t) = FromWantValue(z, t)
    BY <1>1 DEF After
  <2>2. FromWantValue(z, t) = ReadField(z, t, Kind(top), FieldAt(top))
    BY <1>4 DEF FromWantValue
  <2> QED
    BY <1>1, <1>3, <1>4, <2>1, <2>2 DEF ReadField, ReadPointer
<1>6. /\ Nested[Len(fs) + 1] = "esGeoIPLocation"
      /\ path \in PathsAt(Len(fs) + 1)
      /\ Len(fs) < 3
  BY <1>1 DEF Nested, PathsAt
<1>7. /\ StackOK(gs) /\ Len(gs) = 3
      /\ TopOf(gs) = Frame("esGeoIPLocation", "want_key", path)
  <2> HIDE DEF fs, path
  <2> DEFINE inner == Nested[Len(fs) + 1]
             hs == Enters(fs, inner, path)
  <2>1. /\ StackOK(hs) /\ Len(hs) = Len(fs) + 1
        /\ TopOf(hs) = Frame(inner, "want_key", path)
    BY <1>1, <1>6, StackEnters
  <2> QED
    BY <1>1, <1>6, <2>1
<1>8. /\ After(z, t).frames = gs
      /\ After(z, t).value = u
      /\ After(z, t).outcome = "scanning"
  BY <1>5 DEF At3
<1>9. /\ Frame("esGeoIPLocation", "want_key", path).path = path
      /\ Frame("esGeoIPLocation", "want_key", path).state = "want_key"
  BY DEF Frame
<1> HIDE DEF gs, path, u
<1>10. On(After(z, t), 3, path, "want_key", u)
  BY <1>7, <1>8, <1>9 DEF On
<1> QED
  BY <1>10 DEF path, u

-----------------------------------------------------------------------------
(* What an nf holds: its fields by their paths, each with a text that its  *)
(* handler takes.                                                          *)
Fitting(kind, text) ==
    IF kind = "*esGeoIPLocation" THEN text = "new"
    ELSE /\ kind # "esGeoIP"
         /\ text # "out_of_range"
         /\ kind = "*int" => text # "1.5"
         /\ kind = "string" => text # "empty"

ValueOK(v) ==
    /\ v = [p \in DOMAIN v |-> v[p]]
    /\ \A p \in DOMAIN v : \E n, path, g :
          /\ IsField(p, n, path, g)
          /\ Fitting(Handler[Nested[n]][g], v[p])
          /\ n = 3 => path \in DOMAIN v

Under(v, at) == {p \in DOMAIN v : IsPrefix(at, p)}

LEMMA HeldField ==
    ASSUME NEW v, ValueOK(v), NEW at, NEW n, NEW path, NEW g,
           IsField(at, n, path, g), at \in DOMAIN v
    PROVE  /\ Fitting(Handler[Nested[n]][g], v[at])
           /\ n = 3 => path \in DOMAIN v
<1>1. PICK m, q, h : /\ IsField(at, m, q, h)
                     /\ Fitting(Handler[Nested[m]][h], v[at])
                     /\ m = 3 => q \in DOMAIN v
  BY DEF ValueOK
<1>2. m = n /\ q = path /\ h = g
  BY <1>1, SameField
<1> QED
  BY <1>1, <1>2

LEMMA FieldKinds ==
    ASSUME NEW at, NEW n, NEW path, NEW g, IsField(at, n, path, g)
    PROVE  LET kind == Handler[Nested[n]][g]
           IN  /\ kind \in {"*int", "*float64", "*string", "string",
                            "esGeoIP", "*esGeoIPLocation"}
               /\ kind = "esGeoIP" <=> n = 1 /\ g = "GeoIP"
               /\ kind = "*esGeoIPLocation" <=>
                     n = 2 /\ g \in {"Location", "Coordinates"}
<1> DEFINE s == Nested[n]
<1>1. s \in Structs /\ g \in FieldsIn(s)
  BY StructsNested DEF IsField
<1>2. /\ n = 1 \/ n = 2 \/ n = 3
      /\ n = 1 => s = "nf"
      /\ n = 2 => s = "esGeoIP"
      /\ n = 3 => s = "esGeoIPLocation"
  BY DEF IsField, Nested
<1> HIDE DEF s
<1>3. CASE n = 1
  BY <1>1, <1>2, <1>3, Kinds DEF s
<1>4. CASE n = 2
  BY <1>1, <1>2, <1>4, Kinds DEF s
<1>5. CASE n = 3
  BY <1>1, <1>2, <1>5, Kinds DEF s
<1> QED
  BY <1>2, <1>3, <1>4, <1>5

LEMMA UnderScalar ==
    ASSUME NEW v, ValueOK(v), NEW at, NEW n, NEW path, NEW g,
           IsField(at, n, path, g),
           Handler[Nested[n]][g] \notin {"esGeoIP", "*esGeoIPLocation"}
    PROVE  Under(v, at) = {at} \cap DOMAIN v
<1>1. at \in Seq(Names)
  BY FieldParts
<1>2. IsPrefix(at, at)
  BY <1>1, OneIsPrefix
<1>3. ASSUME NEW p \in DOMAIN v, IsPrefix(at, p), p # at
      PROVE  FALSE
  <2>1. PICK m, q, h : IsField(p, m, q, h)
    BY DEF ValueOK
  <2>2. \/ n = 1 /\ g = "GeoIP" /\ m > 1
        \/ n = 2 /\ m = 3 /\ q = at
    BY <1>3, <2>1, BelowField
  <2>3. CASE n = 1 /\ g = "GeoIP"
    BY <2>3, FieldKinds
  <2>4. CASE n = 2 /\ m = 3 /\ q = at
    <3>1. at \in PathsAt(3)
      BY <2>1, <2>4 DEF IsField
    <3>2. at[2] = g
      BY <2>4, FieldParts
    <3>3. g \in {"Location", "Coordinates"}
      BY <3>1, <3>2 DEF PathsAt
    <3> QED
      BY <2>4, <3>3, FieldKinds
  <2> QED
    BY <2>2, <2>3, <2>4
<1> QED
  BY <1>2, <1>3 DEF Under

(* What nothing holds, nothing is below of.                                *)
LEMMA UnderNothing ==
    ASSUME NEW v, ValueOK(v), NEW at, NEW n, NEW path, NEW g,
           IsField(at, n, path, g), at \notin DOMAIN v,
           Handler[Nested[n]][g] # "esGeoIP"
    PROVE  Under(v, at) = {}
<1>1. ASSUME NEW p \in DOMAIN v, IsPrefix(at, p)
      PROVE  FALSE
  <2>1. PICK m, q, h : IsField(p, m, q, h) /\ (m = 3 => q \in DOMAIN v)
    BY DEF ValueOK
  <2>2. \/ p = at
        \/ n = 1 /\ g = "GeoIP" /\ m > 1
        \/ n = 2 /\ m = 3 /\ q = at
    BY <1>1, <2>1, BelowField
  <2>3. CASE n = 1 /\ g = "GeoIP"
    BY <2>3, FieldKinds
  <2> QED
    BY <1>1, <2>1, <2>2, <2>3
<1> QED
  BY <1>1 DEF Under

LEMMA PartGrows ==
    ASSUME NEW v, NEW D \in SUBSET DOMAIN v, NEW at \in DOMAIN v
    PROVE  Assigned(Restrict(v, D), at, v[at]) = Restrict(v, D \cup {at})
BY DEF Assigned, Restrict, Over

LEMMA PartStays ==
    ASSUME NEW v, NEW D \in SUBSET DOMAIN v, NEW at, Under(v, at) = {}
    PROVE  Cleared(Restrict(v, D), at) = Restrict(v, D)
<1> DEFINE w == Restrict(v, D)
           E == {p \in DOMAIN w : ~ IsPrefix(at, p)}
<1>1. DOMAIN w = D
  BY DEF Restrict
<1>2. E = D
  BY <1>1 DEF Under
<1>3. Cleared(w, at) = Restrict(w, E)
  BY DEF Cleared
<1> HIDE DEF E
<1>4. Restrict(w, D) = w
  BY DEF Restrict
<1> QED
  BY <1>2, <1>3, <1>4

(* The token that a value is written as.                                   *)
WrittenAs(t, kind, v, at) ==
    /\ at \notin DOMAIN v => t.tok = "null"
    /\ at \in DOMAIN v /\ kind \in {"*string", "string"} => t.tok = "string"
    /\ at \in DOMAIN v /\ kind \notin {"*string", "string"} =>
          t.tok = IF v[at] = "1.5" THEN "double" ELSE "integer"
    /\ at \in DOMAIN v => t.text = v[at]

LEMMA ValueWritten ==
    ASSUME NEW quoted, NEW kind, quoted <=> kind \in {"*string", "string"},
           NEW v, NEW at
    PROVE  WrittenAs(ValueToken(quoted, v, at), kind, v, at)
<1>1. CASE at \notin DOMAIN v
  BY <1>1 DEF WrittenAs, ValueToken, Mark
<1>2. CASE at \in DOMAIN v /\ kind \in {"*string", "string"}
  BY <1>2 DEF WrittenAs, ValueToken
<1>3. CASE at \in DOMAIN v /\ kind \notin {"*string", "string"}
  BY <1>3 DEF WrittenAs, ValueToken
<1> QED
  BY <1>1, <1>2, <1>3

LEMMA ScalarReads ==
    ASSUME NEW v, ValueOK(v), NEW D \in SUBSET DOMAIN v,
           NEW at, NEW n, NEW path, NEW g, IsField(at, n, path, g),
           Handler[Nested[n]][g] \notin {"esGeoIP", "*esGeoIPLocation"},
           NEW t, WrittenAs(t, Handler[Nested[n]][g], v, at),
           NEW z, On(z, n, path, "want_value", Restrict(v, D)),
           TopOf(z.frames).key = g
    PROVE  On(After(z, t), n, path, "after_value",
              Restrict(v, D \cup Under(v, at)))
<1> DEFINE top == TopOf(z.frames)
           kind == Handler[Nested[n]][g]
           w == Restrict(v, D)
<1>1. /\ StackOK(z.frames) /\ Len(z.frames) = n /\ top.path = path
      /\ z.value = w /\ top.state = "want_value" /\ top.key = g
  BY DEF On
<1>2. /\ top.struct = Nested[n]
      /\ Nested[n] \in Structs
      /\ g \in FieldsIn(Nested[n])
  <2>1. top.struct = Nested[Len(z.frames)]
    BY <1>1, TopParts
  <2> QED
    BY <1>1, <2>1, StructsNested DEF IsField
<1>3. Kind(top) = kind /\ FieldAt(top) = at /\ g # "no_such_key"
  <2>1. Dispatch[Nested[n]][g] = g
    BY <1>2, Kinds
  <2>2. g # "no_such_key"
    BY <1>2, ListingsAgree
  <2> QED
    BY <1>1, <1>2, <2>1, <2>2 DEF Kind, FieldAt, IsField
<1>4. kind \in {"*int", "*float64", "*string", "string"}
  BY FieldKinds
<1>5. t.tok \in ValueTokens =>
         After(z, t) = ReadScalar(z, t, kind, at)
  <2>1. After(z, t) = FromWantValue(z, t)
    BY <1>1 DEF After
  <2>2. t.tok \in ValueTokens =>
           FromWantValue(z, t) = ReadField(z, t, Kind(top), FieldAt(top))
    BY <1>1, <1>3 DEF FromWantValue
  <2> QED
    BY <1>3, <1>4, <2>1, <2>2 DEF ReadField
<1>6. Under(v, at) = {at} \cap DOMAIN v
  BY UnderScalar
<1>7. CASE at \notin DOMAIN v
  <2>1. Under(v, at) = {} /\ t.tok = "null"
    BY <1>6, <1>7 DEF WrittenAs
  <2>2. Cleared(w, at) = w
    BY <2>1, PartStays
  <2>3. t.tok \in ValueTokens /\ t.tok \notin Accepts[kind]
    BY <1>4, <2>1, AcceptsIs DEF ValueTokens
  <2>4. After(z, t) = Gone(z, "after_value", w)
    BY <1>1, <1>5, <2>1, <2>2, <2>3 DEF ReadScalar
  <2>5. D \cup Under(v, at) = D
    BY <2>1
  <2> QED
    BY <2>4, <2>5, GoneOn
<1>8. CASE at \in DOMAIN v
  <2>1. Fitting(kind, v[at])
    BY <1>8, HeldField
  <2>2. /\ v[at] # "out_of_range"
        /\ kind = "*int" => v[at] # "1.5"
        /\ kind = "string" => v[at] # "empty"
    BY <1>4, <2>1 DEF Fitting
  <2>3. t.text = v[at] /\ t.tok \in Accepts[kind] /\ t.tok \in ValueTokens
    BY <1>4, <1>8, <2>2, AcceptsIs DEF WrittenAs, ValueTokens
  <2>4. After(z, t) = Gone(z, "after_value", Assigned(w, at, v[at]))
    BY <1>1, <1>5, <2>2, <2>3 DEF ReadScalar
  <2>5. Assigned(w, at, v[at]) = Restrict(v, D \cup {at})
    BY <1>8, PartGrows
  <2>6. D \cup Under(v, at) = D \cup {at}
    BY <1>6, <1>8
  <2>7. After(z, t) = Gone(z, "after_value", Restrict(v, D \cup Under(v, at)))
    BY <2>4, <2>5, <2>6
  <2> QED
    BY <2>7, GoneOn
<1> QED
  BY <1>7, <1>8

-----------------------------------------------------------------------------
(* A piece of a text, and the value of a member that is read from one.     *)
Holds(text, o, piece) ==
    /\ o \in Nat
    /\ Len(text) \in Nat
    /\ Len(piece) \in Nat
    /\ o + Len(piece) <= Len(text)
    /\ \A k \in 1..Len(piece) : text[o + k] = piece[k]

ReadsValue(val, n, path, g, v) ==
    \A text, o, z, D :
        /\ Holds(text, o, val)
        /\ D \subseteq DOMAIN v
        /\ On(z, n, path, "want_value", Restrict(v, D))
        /\ TopOf(z.frames).key = g
        => \E y : /\ Reaches(text, o, z, o + Len(val), y)
                  /\ On(y, n, path, "after_value",
                        Restrict(v, D \cup Under(v, Append(path, g))))

LEMMA ReadsNext ==
    ASSUME NEW text, NEW o \in Nat, Len(text) \in Nat, o + 1 <= Len(text),
           NEW z, z.outcome = "scanning"
    PROVE  Reaches(text, o, z, o + 1, After(z, text[o + 1]))
<1>1. TokenAt(text, o + 1) = text[o + 1]
  BY DEF TokenAt
<1> QED
  BY <1>1, ReachesNext

LEMMA ScalarText ==
    ASSUME NEW v, ValueOK(v), NEW at, NEW n, NEW path, NEW g,
           IsField(at, n, path, g),
           Handler[Nested[n]][g] \notin {"esGeoIP", "*esGeoIPLocation"},
           NEW t, WrittenAs(t, Handler[Nested[n]][g], v, at)
    PROVE  ReadsValue(<<t>>, n, path, g, v)
<1> SUFFICES ASSUME NEW text, NEW o, NEW z, NEW D, Holds(text, o, <<t>>),
                    D \subseteq DOMAIN v,
                    On(z, n, path, "want_value", Restrict(v, D)),
                    TopOf(z.frames).key = g
             PROVE  \E y : /\ Reaches(text, o, z, o + Len(<<t>>), y)
                           /\ On(y, n, path, "after_value",
                                 Restrict(v, D \cup Under(v, Append(path, g))))
  BY DEF ReadsValue
<1>1. Len(<<t>>) = 1 /\ <<t>>[1] = t
  OBVIOUS
<1>2. /\ o \in Nat /\ Len(text) \in Nat /\ o + 1 <= Len(text)
      /\ text[o + 1] = t
  BY <1>1 DEF Holds
<1>3. at = Append(path, g)
  BY DEF IsField
<1>4. On(After(z, t), n, path, "after_value", Restrict(v, D \cup Under(v, at)))
  BY ScalarReads
<1>5. Reaches(text, o, z, o + 1, After(z, t))
  BY <1>2, ReadsNext DEF On
<1> QED
  BY <1>1, <1>3, <1>4, <1>5

(* A member: a key as the encoders spell it, a colon, and a value.         *)
LEMMA PairReads ==
    ASSUME NEW text, NEW o \in Nat, NEW n \in 1..3, NEW path, NEW v,
           NEW g \in FieldsIn(Nested[n]), NEW val,
           ReadsValue(val, n, path, g, v), Holds(text, o + 2, val),
           text[o + 1] = Word(Tag[Nested[n]][g], "exact"),
           text[o + 2] = Mark("colon"),
           NEW D, D \subseteq DOMAIN v, NEW z,
           On(z, n, path, "want_key", Restrict(v, D))
    PROVE  \E y : /\ Reaches(text, o, z, (o + 2) + Len(val), y)
                  /\ On(y, n, path, "after_value",
                        Restrict(v, D \cup Under(v, Append(path, g))))
<1> DEFINE w == Restrict(v, D)
           y1 == After(z, text[o + 1])
           y2 == After(y1, text[o + 2])
<1>1. /\ Len(text) \in Nat /\ Len(val) \in Nat
      /\ o + 1 \in Nat /\ o + 1 <= Len(text)
      /\ (o + 1) + 1 <= Len(text) /\ (o + 1) + 1 = o + 2
  BY DEF Holds
<1>2. On(y1, n, path, "want_colon", w) /\ TopOf(y1.frames).key = g
  <2> DEFINE t == text[o + 1]
  <2>1. On(z, n, path, "want_key", w)
    OBVIOUS
  <2>2. t.tok = "string"
    BY DEF Word
  <2>3. FieldOf(Nested[n], t) = g
    BY StructsNested, OwnKeyFound
  <2> HIDE DEF t, w
  <2>4. /\ On(After(z, t), n, path, "want_colon", w)
        /\ TopOf(After(z, t).frames).key = g
    BY <2>1, <2>2, <2>3, KeyReads
  <2> QED
    BY <2>4 DEF t
<1>3. text[o + 2].tok = "colon"
  BY DEF Mark
<1>4. Reaches(text, o, z, o + 1, y1)
  BY <1>1, ReadsNext DEF On
<1> HIDE DEF y1
<1>5. On(y2, n, path, "want_value", w) /\ TopOf(y2.frames).key = g
  BY <1>2, <1>3, ColonReads
<1>6. Reaches(text, o + 1, y1, o + 2, y2)
  <2>1. y1.outcome = "scanning"
    BY <1>2 DEF On
  <2>2. Reaches(text, o + 1, y1, (o + 1) + 1, After(y1, text[(o + 1) + 1]))
    BY <1>1, <2>1, ReadsNext
  <2> QED
    BY <1>1, <2>2
<1> HIDE DEF y2
<1>7. PICK y : /\ Reaches(text, o + 2, y2, (o + 2) + Len(val), y)
               /\ On(y, n, path, "after_value",
                     Restrict(v, D \cup Under(v, Append(path, g))))
  BY <1>5 DEF ReadsValue
<1>8. Reaches(text, o, z, (o + 2) + Len(val), y)
  BY <1>4, <1>6, <1>7, ReachesOn
<1> QED
  BY <1>7, <1>8

-----------------------------------------------------------------------------
(* A location or the coordinates.                                          *)
Half(v, path, g) ==
    Pair(Encoded["esGeoIPLocation"][g].key,
         <<ValueToken(FALSE, v, Append(path, g))>>)

LEMMA HalfTokens ==
    ASSUME NEW v, NEW path, NEW g \in {"Lon", "Lat"}
    PROVE  LET half == Half(v, path, g)
           IN  /\ half \in Seq(TokensOf(v)) /\ Len(half) = 3
               /\ half[1] = Word(Tag["esGeoIPLocation"][g], "exact")
               /\ half[2] = Mark("colon")
               /\ half[3] = ValueToken(FALSE, v, Append(path, g))
<1> DEFINE val == <<ValueToken(FALSE, v, Append(path, g))>>
           half == Pair(Tag["esGeoIPLocation"][g], val)
<1>1. g \in FieldsIn("esGeoIPLocation") /\ "esGeoIPLocation" \in Structs
  BY HalvesOfLocation DEF Structs
<1>2. Encoded["esGeoIPLocation"][g].key = Tag["esGeoIPLocation"][g]
  BY <1>1, EncodedKeys
<1>3. /\ val \in Seq(TokensOf(v)) /\ Len(val) = 1
      /\ val[1] = ValueToken(FALSE, v, Append(path, g))
  BY ValueIsToken, OneOf
<1>4. Half(v, path, g) = half
  BY <1>2 DEF Half
<1> HIDE DEF val
<1>5. /\ half \in Seq(TokensOf(v)) /\ Len(half) = 2 + Len(val)
      /\ half[1] = Word(Tag["esGeoIPLocation"][g], "exact")
      /\ half[2] = Mark("colon")
      /\ \A k \in 1..Len(val) : half[2 + k] = val[k]
  <2>1. /\ g \in FieldsIn("esGeoIPLocation") /\ "esGeoIPLocation" \in Structs
        /\ val \in Seq(TokensOf(v))
    BY <1>1, <1>3
  <2> QED
    BY <2>1, PairIsText
<1> HIDE DEF half
<1>6. Len(half) = 3 /\ half[3] = val[1]
  <2>1. Len(half) = 3
    BY <1>3, <1>5
  <2>2. 1 \in 1..Len(val)
    BY <1>3
  <2>3. half[2 + 1] = val[1]
    BY <1>5, <2>2
  <2> QED
    BY <2>1, <2>3
<1> QED
  BY <1>3, <1>4, <1>5, <1>6

LEMMA LocationTokens ==
    ASSUME NEW v, NEW path
    PROVE  LET text == MarshalLocation(v, path)
               key(g) == Word(Tag["esGeoIPLocation"][g], "exact")
               val(g) == ValueToken(FALSE, v, Append(path, g))
           IN  /\ Len(text) = 9
               /\ text[1] = Mark("left_bracket")
               /\ text[2] = key("Lon") /\ text[3] = Mark("colon")
               /\ text[4] = val("Lon") /\ text[5] = Mark("comma")
               /\ text[6] = key("Lat") /\ text[7] = Mark("colon")
               /\ text[8] = val("Lat") /\ text[9] = Mark("right_bracket")
<1> DEFINE S == TokensOf(v)
           lon == Half(v, path, "Lon")
           lat == Half(v, path, "Lat")
           c == <<Mark("comma")>>
           a == lon \o c
           b == a \o lat
           text == Braced(b)
<1>1. MarshalLocation(v, path) = text
  BY DEF MarshalLocation, Half
<1>2. /\ lon \in Seq(S) /\ Len(lon) = 3
      /\ lon[1] = Word(Tag["esGeoIPLocation"]["Lon"], "exact")
      /\ lon[2] = Mark("colon")
      /\ lon[3] = ValueToken(FALSE, v, Append(path, "Lon"))
  BY HalfTokens
<1>3. /\ lat \in Seq(S) /\ Len(lat) = 3
      /\ lat[1] = Word(Tag["esGeoIPLocation"]["Lat"], "exact")
      /\ lat[2] = Mark("colon")
      /\ lat[3] = ValueToken(FALSE, v, Append(path, "Lat"))
  BY HalfTokens
<1>4. c \in Seq(S) /\ Len(c) = 1 /\ c[1] = Mark("comma")
  BY MarksAreTokens, OneOf
<1> HIDE DEF lon, lat, c
<1>5. lon \in Seq(S) /\ lat \in Seq(S) /\ c \in Seq(S)
  BY <1>2, <1>3, <1>4
<1>6. /\ a \in Seq(S) /\ Len(a) = Len(lon) + Len(c)
      /\ \A k \in 1..Len(lon) : a[k] = lon[k]
      /\ \A k \in 1..Len(c) : a[Len(lon) + k] = c[k]
  BY <1>5, Joined
<1> HIDE DEF a
<1>7. /\ Len(a) = 4
      /\ a[1] = lon[1] /\ a[2] = lon[2] /\ a[3] = lon[3] /\ a[4] = c[1]
  <2> HIDE DEF S
  <2>1. Len(a) = 4
    BY <1>2, <1>4, <1>6
  <2>2. a[1] = lon[1] /\ a[2] = lon[2] /\ a[3] = lon[3]
    <3>1. 1 \in 1..Len(lon) /\ 2 \in 1..Len(lon) /\ 3 \in 1..Len(lon)
      BY <1>2
    <3> QED
      BY <1>6, <3>1
  <2>3. a[3 + 1] = c[1]
    BY <1>2, <1>4, <1>6
  <2> QED
    BY <2>1, <2>2, <2>3
<1>8. a \in Seq(S)
  BY <1>6
<1>9. /\ b \in Seq(S) /\ Len(b) = Len(a) + Len(lat)
      /\ \A k \in 1..Len(a) : b[k] = a[k]
      /\ \A k \in 1..Len(lat) : b[Len(a) + k] = lat[k]
  BY <1>5, <1>8, Joined
<1> HIDE DEF b
<1>10. /\ Len(b) = 7
       /\ b[1] = a[1] /\ b[2] = a[2] /\ b[3] = a[3] /\ b[4] = a[4]
       /\ b[5] = lat[1] /\ b[6] = lat[2] /\ b[7] = lat[3]
  <2>1. Len(b) = 7
    BY <1>3, <1>7, <1>9
  <2>2. b[1] = a[1] /\ b[2] = a[2] /\ b[3] = a[3] /\ b[4] = a[4]
    BY <1>7, <1>9
  <2>3. b[4 + 1] = lat[1] /\ b[4 + 2] = lat[2] /\ b[4 + 3] = lat[3]
    <3>1. 1 \in 1..Len(lat) /\ 2 \in 1..Len(lat) /\ 3 \in 1..Len(lat)
      BY <1>3
    <3>2. Len(a) = 4
      BY <1>7
    <3> QED
      BY <1>9, <3>1, <3>2
  <2> QED
    BY <2>1, <2>2, <2>3
<1>11. /\ Len(text) = Len(b) + 2 /\ text[1] = Mark("left_bracket")
       /\ \A k \in 1..Len(b) : text[1 + k] = b[k]
       /\ text[Len(b) + 2] = Mark("right_bracket")
  BY <1>9, BracedIsText
<1> HIDE DEF text
<1>12. /\ Len(text) = 9 /\ text[2] = b[1] /\ text[3] = b[2] /\ text[4] = b[3]
       /\ text[5] = b[4] /\ text[6] = b[5] /\ text[7] = b[6]
       /\ text[8] = b[7] /\ text[9] = Mark("right_bracket")
  <2>1. Len(text) = 9 /\ text[9] = Mark("right_bracket")
    BY <1>10, <1>11
  <2>2. /\ text[1 + 1] = b[1] /\ text[1 + 2] = b[2] /\ text[1 + 3] = b[3]
        /\ text[1 + 4] = b[4] /\ text[1 + 5] = b[5] /\ text[1 + 6] = b[6]
        /\ text[1 + 7] = b[7]
    BY <1>10, <1>11
  <2> QED
    BY <2>1, <2>2
<1> QED
  BY <1>1, <1>2, <1>3, <1>4, <1>7, <1>10, <1>11, <1>12

LEMMA LocationFields ==
    ASSUME NEW g \in {"Location", "Coordinates"}
    PROVE  /\ g \in FieldsIn("esGeoIP")
           /\ IsField(<<"GeoIP", g>>, 2, <<"GeoIP">>, g)
           /\ \A h \in {"Lon", "Lat"} :
                 IsField(Append(<<"GeoIP", g>>, h), 3, <<"GeoIP", g>>, h)
<1>1. /\ DOMAIN EnumGeoIP = 1..12
      /\ EnumGeoIP[11] = "Location" /\ EnumGeoIP[12] = "Coordinates"
  BY DEF EnumGeoIP
<1>2. g \in FieldsIn("esGeoIP")
  BY <1>1 DEF FieldsIn, Enum, Range
<1>3. Nested[2] = "esGeoIP" /\ Nested[3] = "esGeoIPLocation"
  BY DEF Nested
<1>4. IsField(<<"GeoIP", g>>, 2, <<"GeoIP">>, g)
  BY <1>2, <1>3, AppendedToOne DEF IsField, PathsAt
<1>5. <<"GeoIP", g>> \in PathsAt(3)
  BY DEF PathsAt
<1>6. ASSUME NEW h \in {"Lon", "Lat"}
      PROVE  IsField(Append(<<"GeoIP", g>>, h), 3, <<"GeoIP", g>>, h)
  <2>1. h \in FieldsIn(Nested[3])
    BY <1>3, HalvesOfLocation
  <2> QED
    BY <1>5, <2>1 DEF IsField
<1> QED
  BY <1>2, <1>4, <1>6

LEMMA UnderLocation ==
    ASSUME NEW v, ValueOK(v), NEW g \in {"Location", "Coordinates"},
           <<"GeoIP", g>> \in DOMAIN v
    PROVE  LET path == <<"GeoIP", g>>
           IN  Under(v, path) = ({path} \cup Under(v, Append(path, "Lon")))
                                \cup Under(v, Append(path, "Lat"))
<1> DEFINE path == <<"GeoIP", g>>
<1>1. IsField(path, 2, <<"GeoIP">>, g)
  BY LocationFields
<1>2. /\ IsField(Append(path, "Lon"), 3, path, "Lon")
      /\ IsField(Append(path, "Lat"), 3, path, "Lat")
  BY LocationFields
<1> HIDE DEF path
<1>3. path \in Seq(Names) /\ Len(path) = 2
  BY <1>1, FieldParts
<1>4. path \in DOMAIN v
  BY DEF path
<1>5. ASSUME NEW h, IsField(Append(path, h), 3, path, h)
      PROVE  Under(v, Append(path, h)) = {Append(path, h)} \cap DOMAIN v
  <2>1. Handler[Nested[3]][h] \notin {"esGeoIP", "*esGeoIPLocation"}
    BY <1>5, FieldKinds
  <2> QED
    BY <1>5, <2>1, UnderScalar
<1>6. ASSUME NEW h, IsField(Append(path, h), 3, path, h)
      PROVE  IsPrefix(path, Append(path, h))
  <2>1. /\ Append(path, h) \in Seq(Names) /\ Len(Append(path, h)) = 3
        /\ \A k \in 1..(3 - 1) : Append(path, h)[k] = path[k]
    BY <1>6, FieldParts
  <2>2. \A k \in 1..Len(path) : path[k] = Append(path, h)[k]
    BY <1>3, <2>1
  <2>3. Len(path) <= Len(Append(path, h))
    BY <1>3, <2>1
  <2> QED
    BY <1>3, <2>1, <2>2, <2>3, PrefixIs
<1>7. IsPrefix(path, path)
  BY <1>3, OneIsPrefix
<1>8. ASSUME NEW p \in DOMAIN v, IsPrefix(path, p)
      PROVE  p = path \/ p = Append(path, "Lon") \/ p = Append(path, "Lat")
  <2>1. PICK m, q, h : IsField(p, m, q, h)
    BY DEF ValueOK
  <2>2. p = path \/ (m = 3 /\ q = path)
    BY <1>1, <1>8, <2>1, BelowField
  <2>3. m = 3 => h \in {"Lon", "Lat"}
    <3>1. Nested[3] = "esGeoIPLocation"
      BY DEF Nested
    <3> QED
      BY <2>1, <3>1, HalvesOfLocation DEF IsField
  <2>4. p = Append(q, h)
    BY <2>1 DEF IsField
  <2> QED
    BY <2>2, <2>3, <2>4
<1>9. Under(v, path) = ({path} \cup Under(v, Append(path, "Lon")))
                       \cup Under(v, Append(path, "Lat"))
  <2>1. /\ Under(v, Append(path, "Lon")) = {Append(path, "Lon")} \cap DOMAIN v
        /\ Under(v, Append(path, "Lat")) = {Append(path, "Lat")} \cap DOMAIN v
        /\ IsPrefix(path, Append(path, "Lon"))
        /\ IsPrefix(path, Append(path, "Lat"))
    BY <1>2, <1>5, <1>6
  <2> QED
    BY <1>4, <1>7, <1>8, <2>1 DEF Under
<1> QED
  BY <1>9 DEF path

LEMMA CommaStep ==
    ASSUME NEW text, NEW o \in Nat, Len(text) \in Nat, o + 1 <= Len(text),
           text[o + 1].tok = "comma",
           NEW z, NEW n, NEW path, NEW w, On(z, n, path, "after_value", w)
    PROVE  \E y : /\ Reaches(text, o, z, o + 1, y)
                  /\ On(y, n, path, "want_key", w)
<1> DEFINE t == text[o + 1]
<1>1. Reaches(text, o, z, o + 1, After(z, t))
  BY ReadsNext DEF On
<1>2. t.tok = "comma"
  OBVIOUS
<1> HIDE DEF t
<1>3. On(After(z, t), n, path, "want_key", w)
  BY <1>2, CommaReads
<1> QED
  BY <1>1, <1>3

LEMMA CloseStep ==
    ASSUME NEW text, NEW o \in Nat, Len(text) \in Nat, o + 1 <= Len(text),
           text[o + 1].tok = "right_bracket",
           NEW z, NEW n \in 2..3, NEW path, NEW w,
           On(z, n, path, "after_value", w), NEW around \in PathsAt(n - 1)
    PROVE  \E y : /\ Reaches(text, o, z, o + 1, y)
                  /\ On(y, n - 1, around, "after_value", w)
<1> DEFINE t == text[o + 1]
<1>1. Reaches(text, o, z, o + 1, After(z, t))
  BY ReadsNext DEF On
<1>2. t.tok = "right_bracket"
  OBVIOUS
<1> HIDE DEF t
<1>3. On(After(z, t), n - 1, around, "after_value", w)
  BY <1>2, CloseReads
<1> QED
  BY <1>1, <1>3

LEMMA HalfReads ==
    ASSUME NEW v, ValueOK(v), NEW path, NEW h \in {"Lon", "Lat"},
           IsField(Append(path, h), 3, path, h),
           NEW text, NEW o \in Nat, Len(text) \in Nat, o + 3 <= Len(text),
           text[o + 1] = Word(Tag["esGeoIPLocation"][h], "exact"),
           text[o + 2] = Mark("colon"),
           text[o + 3] = ValueToken(FALSE, v, Append(path, h)),
           NEW D, D \subseteq DOMAIN v, NEW z,
           On(z, 3, path, "want_key", Restrict(v, D))
    PROVE  \E y : /\ Reaches(text, o, z, o + 3, y)
                  /\ On(y, 3, path, "after_value",
                        Restrict(v, D \cup Under(v, Append(path, h))))
<1> DEFINE at == Append(path, h)
           t == ValueToken(FALSE, v, at)
           val == <<t>>
<1>1. Nested[3] = "esGeoIPLocation"
  BY DEF Nested
<1>2. Handler[Nested[3]][h] = "*float64" /\ h \in FieldsIn(Nested[3])
  BY <1>1, HalvesOfLocation, Kinds DEF Structs
<1>3. WrittenAs(t, Handler[Nested[3]][h], v, at)
  <2>1. FALSE <=> "*float64" \in {"*string", "string"}
    OBVIOUS
  <2> QED
    BY <1>2, <2>1, ValueWritten
<1>4. text[o + 3] = t
  OBVIOUS
<1> HIDE DEF t
<1>5. ReadsValue(val, 3, path, h, v)
  BY <1>2, <1>3, ScalarText DEF IsField
<1>6. Len(val) = 1 /\ val[1] = t
  OBVIOUS
<1> HIDE DEF val
<1>7. Holds(text, o + 2, val)
  <2>1. (o + 2) + 1 = o + 3 /\ o + 2 \in Nat
    OBVIOUS
  <2>2. \A k \in 1..Len(val) : k = 1
    BY <1>6
  <2> QED
    BY <1>4, <1>6, <2>1, <2>2 DEF Holds
<1>8. text[o + 1] = Word(Tag[Nested[3]][h], "exact")
  BY <1>1
<1>9. (o + 2) + Len(val) = o + 3
  BY <1>6
<1>10. \E y : /\ Reaches(text, o, z, (o + 2) + Len(val), y)
              /\ On(y, 3, path, "after_value",
                    Restrict(v, D \cup Under(v, Append(path, h))))
  <2> DEFINE n == 3
  <2>1. n \in 1..3 /\ h \in FieldsIn(Nested[n])
    BY <1>2
  <2>2. ReadsValue(val, n, path, h, v) /\ Holds(text, o + 2, val)
    BY <1>5, <1>7
  <2>3. /\ text[o + 1] = Word(Tag[Nested[n]][h], "exact")
        /\ text[o + 2] = Mark("colon")
    BY <1>8
  <2>4. On(z, n, path, "want_key", Restrict(v, D))
    OBVIOUS
  <2> HIDE DEF n
  <2>5. \E y : /\ Reaches(text, o, z, (o + 2) + Len(val), y)
               /\ On(y, n, path, "after_value",
                     Restrict(v, D \cup Under(v, Append(path, h))))
    BY <2>1, <2>2, <2>3, <2>4, PairReads
  <2> QED
    BY <2>5 DEF n
<1> QED
  BY <1>9, <1>10

LEMMA LocationEntered ==
    ASSUME NEW v, ValueOK(v), NEW g \in {"Location", "Coordinates"},
           <<"GeoIP", g>> \in DOMAIN v,
           NEW D, D \subseteq DOMAIN v, NEW z,
           On(z, 2, <<"GeoIP">>, "want_value", Restrict(v, D)),
           TopOf(z.frames).key = g, NEW t, t.tok = "left_bracket"
    PROVE  On(After(z, t), 3, <<"GeoIP", g>>, "want_key",
              Restrict(v, D \cup {<<"GeoIP", g>>}))
<1> DEFINE path == <<"GeoIP", g>>
           w == Restrict(v, D)
           u == IF path \in DOMAIN w THEN w ELSE Assigned(w, path, "new")
<1>1. On(After(z, t), 3, path, "want_key", u)
  BY LocationFields, PointerReads
<1>2. IsField(path, 2, <<"GeoIP">>, g)
  BY LocationFields
<1> HIDE DEF path
<1>3. path \in DOMAIN v
  BY DEF path
<1>4. v[path] = "new"
  <2>1. Handler[Nested[2]][g] = "*esGeoIPLocation"
    BY <1>2, FieldKinds
  <2>2. Fitting(Handler[Nested[2]][g], v[path])
    BY <1>2, <1>3, HeldField
  <2> QED
    BY <2>1, <2>2 DEF Fitting
<1>5. u = Restrict(v, D \cup {path})
  <2>1. DOMAIN w = D
    BY DEF Restrict
  <2>2. CASE path \in D
    <3>1. D \cup {path} = D
      BY <2>2
    <3> QED
      BY <2>1, <2>2, <3>1
  <2>3. CASE path \notin D
    <3>1. u = Assigned(w, path, v[path])
      BY <1>4, <2>1, <2>3
    <3> QED
      BY <1>3, <3>1, PartGrows
  <2> QED
    BY <2>2, <2>3
<1> QED
  BY <1>1, <1>5 DEF path

LEMMA LocationReads ==
    ASSUME NEW v, ValueOK(v), NEW g \in {"Location", "Coordinates"},
           <<"GeoIP", g>> \in DOMAIN v
    PROVE  ReadsValue(MarshalLocation(v, <<"GeoIP", g>>), 2, <<"GeoIP">>, g, v)
<1> DEFINE path == <<"GeoIP", g>>
           M == MarshalLocation(v, path)
           key(h) == Word(Tag["esGeoIPLocation"][h], "exact")
           val(h) == ValueToken(FALSE, v, Append(path, h))
           below(h) == Under(v, Append(path, h))
<1> SUFFICES ASSUME NEW text, NEW o, NEW z, NEW D, Holds(text, o, M),
                    D \subseteq DOMAIN v,
                    On(z, 2, <<"GeoIP">>, "want_value", Restrict(v, D)),
                    TopOf(z.frames).key = g
             PROVE  \E y : /\ Reaches(text, o, z, o + Len(M), y)
                           /\ On(y, 2, <<"GeoIP">>, "after_value",
                                 Restrict(v, D \cup Under(v,
                                             Append(<<"GeoIP">>, g))))
  BY DEF ReadsValue
<1>1. /\ Len(M) = 9
      /\ M[1] = Mark("left_bracket")
      /\ M[2] = key("Lon") /\ M[3] = Mark("colon") /\ M[4] = val("Lon")
      /\ M[5] = Mark("comma")
      /\ M[6] = key("Lat") /\ M[7] = Mark("colon") /\ M[8] = val("Lat")
      /\ M[9] = Mark("right_bracket")
  <2> HIDE DEF path
  <2> QED
    BY LocationTokens
<1> HIDE DEF M, key, val
<1>2. o \in Nat /\ Len(text) \in Nat /\ o + 9 <= Len(text)
  BY <1>1 DEF Holds
<1>3. /\ text[o + 1] = M[1] /\ text[o + 2] = M[2] /\ text[o + 3] = M[3]
      /\ text[o + 4] = M[4] /\ text[o + 5] = M[5] /\ text[o + 6] = M[6]
      /\ text[o + 7] = M[7] /\ text[o + 8] = M[8] /\ text[o + 9] = M[9]
  <2>1. \A k \in 1..9 : text[o + k] = M[k]
    BY <1>1 DEF Holds
  <2> QED
    BY <2>1
<1>4. \A h \in {"Lon", "Lat"} : IsField(Append(path, h), 3, path, h)
  BY LocationFields
<1>5. PICK y1 : /\ Reaches(text, o, z, o + 1, y1)
                /\ On(y1, 3, path, "want_key", Restrict(v, D \cup {path}))
  <2> DEFINE t == text[o + 1]
  <2>1. o + 1 <= Len(text) /\ z.outcome = "scanning"
    BY <1>2 DEF On
  <2>2. Reaches(text, o, z, o + 1, After(z, t))
    BY <1>2, <2>1, ReadsNext
  <2>3. t.tok = "left_bracket"
    BY <1>1, <1>3 DEF Mark
  <2> HIDE DEF t
  <2>4. On(After(z, t), 3, path, "want_key", Restrict(v, D \cup {path}))
    BY <2>3, LocationEntered
  <2> QED
    BY <2>2, <2>4
<1> DEFINE D1 == D \cup {path}
           D2 == D1 \cup below("Lon")
           D3 == D2 \cup below("Lat")
<1>6. D1 \subseteq DOMAIN v /\ D2 \subseteq DOMAIN v
  BY DEF Under
<1>7. D \cup Under(v, path) = D3
  <2>1. Under(v, path) = ({path} \cup below("Lon")) \cup below("Lat")
    BY UnderLocation
  <2> HIDE DEF path, below
  <2> QED
    BY <2>1
<1>8. Append(<<"GeoIP">>, g) = path
  BY AppendedToOne
<1> HIDE DEF path, D1, D2
<1>9. PICK y2 : /\ Reaches(text, o + 1, y1, o + 4, y2)
                /\ On(y2, 3, path, "after_value", Restrict(v, D2))
  <2> DEFINE i == o + 1
  <2>1. i \in Nat /\ i + 3 <= Len(text) /\ i + 3 = o + 4
    BY <1>2
  <2>2. /\ text[i + 1] = key("Lon") /\ text[i + 2] = Mark("colon")
        /\ text[i + 3] = val("Lon")
    <3>1. i + 1 = o + 2 /\ i + 2 = o + 3 /\ i + 3 = o + 4
      BY <1>2
    <3> HIDE DEF i
    <3> QED
      BY <1>1, <1>3, <3>1
  <2>3. On(y1, 3, path, "want_key", Restrict(v, D1))
    BY <1>5 DEF D1
  <2> HIDE DEF i
  <2>4. \E y : /\ Reaches(text, i, y1, i + 3, y)
               /\ On(y, 3, path, "after_value",
                     Restrict(v, D1 \cup Under(v, Append(path, "Lon"))))
    BY <1>2, <1>4, <1>6, <2>1, <2>2, <2>3, HalfReads DEF key, val
  <2>5. PICK y : /\ Reaches(text, i, y1, i + 3, y)
                 /\ On(y, 3, path, "after_value", Restrict(v, D2))
    BY <2>4 DEF D2
  <2> QED
    BY <2>1, <2>5 DEF i
<1>10. PICK y3 : /\ Reaches(text, o + 4, y2, o + 5, y3)
                 /\ On(y3, 3, path, "want_key", Restrict(v, D2))
  <2> DEFINE i == o + 4
  <2>1. i \in Nat /\ i + 1 <= Len(text) /\ i + 1 = o + 5
    BY <1>2
  <2>2. text[i + 1].tok = "comma"
    BY <1>1, <1>3, <2>1 DEF Mark
  <2> HIDE DEF i
  <2>3. \E y : /\ Reaches(text, i, y2, i + 1, y)
               /\ On(y, 3, path, "want_key", Restrict(v, D2))
    BY <1>2, <1>9, <2>1, <2>2, CommaStep
  <2> QED
    BY <2>1, <2>3 DEF i
<1>11. PICK y4 : /\ Reaches(text, o + 5, y3, o + 8, y4)
                 /\ On(y4, 3, path, "after_value", Restrict(v, D3))
  <2> DEFINE i == o + 5
  <2>1. i \in Nat /\ i + 3 <= Len(text) /\ i + 3 = o + 8
    BY <1>2
  <2>2. /\ text[i + 1] = key("Lat") /\ text[i + 2] = Mark("colon")
        /\ text[i + 3] = val("Lat")
    <3>1. i + 1 = o + 6 /\ i + 2 = o + 7 /\ i + 3 = o + 8
      BY <1>2
    <3> HIDE DEF i
    <3> QED
      BY <1>1, <1>3, <3>1
  <2> HIDE DEF i
  <2>3. \E y : /\ Reaches(text, i, y3, i + 3, y)
               /\ On(y, 3, path, "after_value",
                     Restrict(v, D2 \cup Under(v, Append(path, "Lat"))))
    BY <1>2, <1>4, <1>6, <1>10, <2>1, <2>2, HalfReads DEF key, val
  <2> QED
    BY <2>1, <2>3 DEF i
<1>12. PICK y5 : /\ Reaches(text, o + 8, y4, o + 9, y5)
                 /\ On(y5, 2, <<"GeoIP">>, "after_value", Restrict(v, D3))
  <2> DEFINE i == o + 8
             around == <<"GeoIP">>
  <2>1. i \in Nat /\ i + 1 <= Len(text) /\ i + 1 = o + 9
    BY <1>2
  <2>2. text[i + 1].tok = "right_bracket"
    BY <1>1, <1>3, <2>1 DEF Mark
  <2>3. around \in PathsAt(3 - 1) /\ 3 \in 2..3 /\ 3 - 1 = 2
    BY DEF PathsAt
  <2> HIDE DEF i, around, D3
  <2>4. \E y : /\ Reaches(text, i, y4, i + 1, y)
               /\ On(y, 3 - 1, around, "after_value", Restrict(v, D3))
    BY <1>2, <1>11, <2>1, <2>2, <2>3, CloseStep
  <2> QED
    BY <2>1, <2>3, <2>4 DEF i, around
<1>13. Reaches(text, o, z, o + 9, y5)
  BY <1>5, <1>9, <1>10, <1>11, <1>12, ReachesOn
<1> QED
  BY <1>1, <1>7, <1>8, <1>12, <1>13

-----------------------------------------------------------------------------
(* The members of a struct.  The text goes as far as the comma behind the  *)
(* last of them, which the encoders take back.                             *)
Ahead(text, b, M) ==
    /\ b \in Nat
    /\ Len(M) \in Nat
    /\ Len(text) \in Nat
    /\ b + Len(M) <= Len(text) + 1
    /\ \A k \in 1..(Len(M) - 1) : text[b + k] = M[k]

(* The first m tokens of the members M, up to a comma, have been read.     *)
Upto(text, b, z, n, path, v, M, m, D, E) ==
    \/ m = 0 /\ E = D
    \/ /\ m > 0
       /\ M[m] = Mark("comma")
       /\ \E y : /\ Reaches(text, b, z, b + (m - 1), y)
                 /\ On(y, n, path, "after_value", Restrict(v, E))

LEMMA MemberBegins ==
    ASSUME NEW text, NEW b, NEW M, Ahead(text, b, M),
           NEW z, NEW n, NEW path, NEW v, NEW D,
           On(z, n, path, "want_key", Restrict(v, D)),
           NEW m \in Nat, m < Len(M), NEW E,
           Upto(text, b, z, n, path, v, M, m, D, E)
    PROVE  \E y : /\ Reaches(text, b, z, b + m, y)
                  /\ On(y, n, path, "want_key", Restrict(v, E))
<1>1. b \in Nat /\ Len(M) \in Nat /\ Len(text) \in Nat
      /\ b + Len(M) <= Len(text) + 1
  BY DEF Ahead
<1>2. CASE m = 0 /\ E = D
  <2>1. b + m = b
    BY <1>1, <1>2
  <2> QED
    BY <1>1, <1>2, <2>1, ReachesItself
<1>3. CASE /\ m > 0
           /\ M[m] = Mark("comma")
           /\ \E y : /\ Reaches(text, b, z, b + (m - 1), y)
                     /\ On(y, n, path, "after_value", Restrict(v, E))
  <2> DEFINE i == b + (m - 1)
  <2>1. /\ i \in Nat /\ i + 1 = b + m /\ i + 1 <= Len(text)
        /\ m \in 1..(Len(M) - 1)
    BY <1>1, <1>3
  <2>2. text[i + 1] = M[m]
    BY <2>1 DEF Ahead
  <2>3. text[i + 1].tok = "comma"
    BY <1>3, <2>2 DEF Mark
  <2>4. PICK x : /\ Reaches(text, b, z, i, x)
                 /\ On(x, n, path, "after_value", Restrict(v, E))
    BY <1>3
  <2> HIDE DEF i
  <2>5. PICK y : /\ Reaches(text, i, x, i + 1, y)
                 /\ On(y, n, path, "want_key", Restrict(v, E))
    BY <1>1, <2>1, <2>3, <2>4, CommaStep
  <2>6. Reaches(text, b, z, i + 1, y)
    BY <2>4, <2>5, ReachesOn
  <2> QED
    BY <2>1, <2>5, <2>6
<1> QED
  BY <1>2, <1>3 DEF Upto

LEMMA MemberReads ==
    ASSUME NEW text, NEW b, NEW M, Ahead(text, b, M),
           NEW z, NEW n \in 1..3, NEW path, NEW v,
           NEW D, On(z, n, path, "want_key", Restrict(v, D)),
           NEW m \in Nat, NEW E, E \subseteq DOMAIN v,
           Upto(text, b, z, n, path, v, M, m, D, E),
           NEW g \in FieldsIn(Nested[n]), NEW val, Len(val) \in Nat,
           ReadsValue(val, n, path, g, v),
           m + (3 + Len(val)) <= Len(M),
           M[m + 1] = Word(Tag[Nested[n]][g], "exact"),
           M[m + 2] = Mark("colon"),
           \A k \in 1..Len(val) : M[m + (2 + k)] = val[k],
           M[m + (3 + Len(val))] = Mark("comma")
    PROVE  Upto(text, b, z, n, path, v, M, m + (3 + Len(val)), D,
                E \cup Under(v, Append(path, g)))
<1> DEFINE o == b + m
           c == m + (3 + Len(val))
<1>1. b \in Nat /\ Len(M) \in Nat /\ Len(text) \in Nat
      /\ b + Len(M) <= Len(text) + 1
  BY DEF Ahead
<1>2. m < Len(M) /\ o \in Nat
  BY <1>1
<1>3. PICK x : /\ Reaches(text, b, z, o, x)
               /\ On(x, n, path, "want_key", Restrict(v, E))
  BY <1>2, MemberBegins
<1>4. text[o + 1] = M[m + 1] /\ text[o + 2] = M[m + 2]
  <2>1. m + 1 \in 1..(Len(M) - 1) /\ m + 2 \in 1..(Len(M) - 1)
    <3> DEFINE l == Len(val)
               u == Len(M)
    <3>1. l \in Nat /\ u \in Nat /\ m + (3 + l) <= u
      BY <1>1
    <3> HIDE DEF l, u
    <3>2. m + 1 \in 1..(u - 1) /\ m + 2 \in 1..(u - 1)
      BY <3>1
    <3> QED
      BY <3>2 DEF u
  <2>2. b + (m + 1) = o + 1 /\ b + (m + 2) = o + 2
    BY <1>1
  <2> HIDE DEF o
  <2> QED
    BY <2>1, <2>2 DEF Ahead
<1>5. Holds(text, o + 2, val)
  <2>1. o + 2 \in Nat /\ (o + 2) + Len(val) <= Len(text)
    BY <1>1
  <2>2. ASSUME NEW k \in 1..Len(val)
        PROVE  text[(o + 2) + k] = val[k]
    <3> DEFINE l == Len(val)
               u == Len(M)
    <3>0. /\ k \in Nat /\ l \in Nat /\ u \in Nat /\ 1 <= k /\ k <= l
          /\ m + (3 + l) <= u
      BY <1>1
    <3> HIDE DEF l, u
    <3>1. /\ m + (2 + k) \in 1..(Len(M) - 1)
          /\ b + (m + (2 + k)) = (o + 2) + k
      <4>1. m + (2 + k) \in 1..(u - 1)
        BY <3>0
      <4>2. b + (m + (2 + k)) = (o + 2) + k
        BY <1>1, <3>0
      <4> QED
        BY <4>1, <4>2 DEF u
    <3>2. text[b + (m + (2 + k))] = M[m + (2 + k)]
      BY <3>1 DEF Ahead
    <3> QED
      BY <3>1, <3>2
  <2> QED
    BY <1>1, <2>1, <2>2 DEF Holds
<1>6. (o + 2) + Len(val) = b + (c - 1) /\ c > 0 /\ M[c] = Mark("comma")
  BY <1>1
<1>7. /\ text[o + 1] = Word(Tag[Nested[n]][g], "exact")
      /\ text[o + 2] = Mark("colon")
  BY <1>4
<1> HIDE DEF o, c
<1>8. PICK y : /\ Reaches(text, o, x, (o + 2) + Len(val), y)
               /\ On(y, n, path, "after_value",
                     Restrict(v, E \cup Under(v, Append(path, g))))
  BY <1>2, <1>3, <1>5, <1>7, PairReads
<1>9. Reaches(text, b, z, b + (c - 1), y)
  BY <1>3, <1>6, <1>8, ReachesOn
<1>10. Upto(text, b, z, n, path, v, M, c, D, E \cup Under(v, Append(path, g)))
  BY <1>6, <1>8, <1>9 DEF Upto
<1> QED
  BY <1>10 DEF c

(* The text that put gives for every field of a struct is that of a member *)
(* for the fields in W, and nothing for the others.                        *)
Lists(put, n, path, v, W) ==
    \A g \in FieldsIn(Nested[n]) :
        /\ g \in W =>
              \E val \in Seq(TokensOf(v)) :
                  /\ put[g] = Put(Tag[Nested[n]][g], val)
                  /\ ReadsValue(val, n, path, g, v)
        /\ g \notin W => put[g] = <<>>

Gathered(v, path, W) == UNION {Under(v, Append(path, g)) : g \in W}

LEMMA LaidWithin ==
    ASSUME NEW ps, NEW o, NEW text, Laid(ps, o, text), Len(ps) \in Nat,
           \A i \in 1..Len(ps) : Len(ps[i]) \in Nat
    PROVE  \A i \in 0..Len(ps) : o[i] <= Len(text)
<1> DEFINE N == Len(ps)
           T == {d \in Nat : d <= N => o[N - d] <= o[N]}
<1>1. N \in Nat /\ o \in [0..N -> Nat] /\ o[N] = Len(text)
  BY DEF Laid
<1>2. 0 \in T
  BY <1>1
<1>3. ASSUME NEW d \in Nat, d \in T
      PROVE  d + 1 \in T
  <2> SUFFICES ASSUME d + 1 <= N
               PROVE  o[N - (d + 1)] <= o[N]
    OBVIOUS
  <2> DEFINE i == N - d
  <2>1. i \in 1..N /\ i - 1 = N - (d + 1) /\ i \in 0..N /\ i - 1 \in 0..N
    BY <1>1
  <2>2. o[i] <= o[N]
    BY <1>1, <1>3
  <2> HIDE DEF i
  <2>3. o[i] = o[i - 1] + Len(ps[i]) /\ Len(ps[i]) \in Nat
    BY <2>1 DEF Laid
  <2>4. o[i] \in Nat /\ o[i - 1] \in Nat /\ o[N] \in Nat
    <3>1. N \in 0..N
      BY <1>1
    <3> HIDE DEF N
    <3> QED
      BY <1>1, <2>1, <3>1
  <2>5. o[i - 1] <= o[N]
    BY <2>2, <2>3, <2>4
  <2> QED
    BY <2>1, <2>5
<1>4. T = Nat
  <2>1. T \in SUBSET Nat
    OBVIOUS
  <2> HIDE DEF T
  <2> QED
    BY <1>2, <1>3, <2>1, AllNumbers
<1>5. ASSUME NEW i \in 0..N
      PROVE  o[i] <= o[N]
  <2>1. N - i \in Nat /\ N - i <= N /\ N - (N - i) = i
    BY <1>1
  <2>2. N - i \in T
    BY <1>4, <2>1
  <2> QED
    BY <2>1, <2>2
<1> QED
  BY <1>1, <1>5

LEMMA MembersRead ==
    ASSUME NEW n \in 1..3, NEW path, NEW v, NEW put, NEW W, W # {},
           W \subseteq FieldsIn(Nested[n]), Lists(put, n, path, v, W),
           NEW text, NEW b, Ahead(text, b, Members(Nested[n], put)),
           NEW D, D \subseteq DOMAIN v,
           NEW z, On(z, n, path, "want_key", Restrict(v, D))
    PROVE  LET M == Members(Nested[n], put)
           IN  /\ Len(M) > 0
               /\ Upto(text, b, z, n, path, v, M, Len(M), D,
                       D \cup Gathered(v, path, W))
<1> DEFINE s == Nested[n]
           S == TokensOf(v)
           M == Members(s, put)
           e == Enum[s]
           N == Len(e)
           ps == [k \in DOMAIN e |-> put[e[k]]]
           below(g) == Under(v, Append(path, g))
           got(k) ==
               D \cup UNION {below(e[i]) : i \in {j \in 1..k : e[j] \in W}}
<1>1. s \in Structs
  BY StructsNested
<1>2. e \in Seq(FieldsIn(s)) /\ DOMAIN e = 1..N /\ N \in Nat
  BY <1>1, EnumsAreSequences
<1>3. ASSUME NEW g \in FieldsIn(s), g \in W
      PROVE  \E val \in Seq(S) :
                /\ ReadsValue(val, n, path, g, v)
                /\ put[g] \in Seq(S)
                /\ Len(val) \in Nat
                /\ Len(put[g]) = 3 + Len(val)
                /\ put[g][1] = Word(Tag[s][g], "exact")
                /\ put[g][2] = Mark("colon")
                /\ \A k \in 1..Len(val) : put[g][2 + k] = val[k]
                /\ put[g][3 + Len(val)] = Mark("comma")
  <2>1. PICK val \in Seq(S) : /\ put[g] = Put(Tag[s][g], val)
                              /\ ReadsValue(val, n, path, g, v)
    BY <1>3 DEF Lists
  <2> DEFINE p == Put(Tag[s][g], val)
  <2>2. /\ p \in Seq(S)
        /\ Len(p) = 3 + Len(val)
        /\ p[1] = Word(Tag[s][g], "exact")
        /\ p[2] = Mark("colon")
        /\ \A k \in 1..Len(val) : p[2 + k] = val[k]
        /\ p[3 + Len(val)] = Mark("comma")
    <3>1. s \in Structs /\ g \in FieldsIn(s) /\ val \in Seq(TokensOf(v))
      BY <1>1
    <3> HIDE DEF s
    <3> QED
      BY <3>1, PutIsText
  <2>3. Len(val) \in Nat
    OBVIOUS
  <2> HIDE DEF p
  <2>4. put[g] = p
    BY <2>1 DEF p
  <2> QED
    BY <2>1, <2>2, <2>3, <2>4
<1>4. ASSUME NEW g \in FieldsIn(s), g \notin W
      PROVE  put[g] = <<>>
  BY <1>4 DEF Lists
<1>5. \A g \in FieldsIn(s) : put[g] \in Seq(S)
  <2> TAKE g \in FieldsIn(s)
  <2>1. <<>> \in Seq(S)
    OBVIOUS
  <2> HIDE DEF S
  <2> QED
    BY <1>3, <1>4, <2>1
<1>6. PICK o : Laid(ps, o, M)
  BY <1>1, <1>5, MembersAreText
<1>7. M \in Seq(S) /\ Len(M) \in Nat
  BY <1>1, <1>5, MembersAreText
<1> HIDE DEF s, S, M, e, below
<1>8. Len(ps) = N /\ \A k \in 1..N : ps[k] = put[e[k]] /\ e[k] \in FieldsIn(s)
  <2>1. ps \in [1..N -> {put[e[k]] : k \in 1..N}]
    BY <1>2
  <2>2. ps \in Seq({put[e[k]] : k \in 1..N}) /\ Len(ps) = N
    BY <1>2, <2>1
  <2> QED
    BY <1>2, <2>2
<1> HIDE DEF ps, N
<1>9. /\ o \in [0..N -> Nat] /\ o[0] = 0 /\ o[N] = Len(M)
      /\ \A i \in 1..N : /\ o[i] = o[i - 1] + Len(put[e[i]])
                         /\ \A k \in 1..Len(put[e[i]]) :
                               M[o[i - 1] + k] = put[e[i]][k]
  BY <1>6, <1>8 DEF Laid
<1>10. \A i \in 0..N : o[i] <= Len(M)
  <2>1. \A i \in 1..N : put[e[i]] \in Seq(S) /\ Len(put[e[i]]) \in Nat
    BY <1>5, <1>8
  <2>2. \A i \in 1..Len(ps) : Len(ps[i]) \in Nat
    BY <1>8, <2>1
  <2> QED
    BY <1>2, <1>6, <1>8, <2>2, LaidWithin
<1>11. got(0) = D
  <2>1. {j \in 1..0 : e[j] \in W} = {}
    OBVIOUS
  <2> QED
    BY <2>1
<1>12. ASSUME NEW k \in 0..(N - 1)
       PROVE  /\ e[k + 1] \in W => got(k + 1) = got(k) \cup below(e[k + 1])
              /\ e[k + 1] \notin W => got(k + 1) = got(k)
  <2> DEFINE I == {j \in 1..k : e[j] \in W}
             J == {j \in 1..(k + 1) : e[j] \in W}
  <2>1. e[k + 1] \in W => J = I \cup {k + 1}
    BY <1>2
  <2>2. e[k + 1] \notin W => J = I
    BY <1>2
  <2>3. got(k + 1) = D \cup UNION {below(e[i]) : i \in J}
    OBVIOUS
  <2>4. got(k) = D \cup UNION {below(e[i]) : i \in I}
    OBVIOUS
  <2> HIDE DEF I, J, got
  <2> QED
    BY <2>1, <2>2, <2>3, <2>4
<1>13. \A k \in 0..N : got(k) \subseteq DOMAIN v
  BY DEF below, Under
<1>14. got(N) = D \cup UNION {below(g) : g \in W}
  <2>1. ASSUME NEW g \in W
        PROVE  \E i \in 1..N : e[i] = g
    <3>1. g \in Range(e)
      BY DEF FieldsIn, s, e
    <3> QED
      BY <1>2, <3>1 DEF Range
  <2> QED
    BY <2>1
<1> DEFINE T == {k \in Nat : k <= N => Upto(text, b, z, n, path, v, M, o[k], D,
                                            got(k))}
<1> HIDE DEF got
<1>15. 0 \in T
  BY <1>9, <1>11 DEF Upto
<1>16. ASSUME NEW k \in Nat, k \in T
       PROVE  k + 1 \in T
  <2> SUFFICES ASSUME k + 1 <= N
               PROVE  Upto(text, b, z, n, path, v, M, o[k + 1], D, got(k + 1))
    OBVIOUS
  <2> DEFINE g == e[k + 1]
             m == o[k]
  <2>1. k \in 0..(N - 1) /\ k + 1 \in 1..N /\ k \in 0..N /\ k + 1 \in 0..N
        /\ (k + 1) - 1 = k /\ k <= N
    BY <1>2
  <2>2. Upto(text, b, z, n, path, v, M, m, D, got(k))
    BY <1>16, <2>1
  <2>3. g \in FieldsIn(s) /\ m \in Nat /\ got(k) \subseteq DOMAIN v
    BY <1>8, <1>9, <1>13, <2>1
  <2>4. /\ o[k + 1] = m + Len(put[g])
        /\ \A i \in 1..Len(put[g]) : M[m + i] = put[g][i]
    BY <1>9, <2>1
  <2>5. o[k + 1] <= Len(M)
    BY <1>10, <2>1
  <2>6. /\ g \in W => got(k + 1) = got(k) \cup below(g)
        /\ g \notin W => got(k + 1) = got(k)
    BY <1>12, <2>1
  <2> HIDE DEF g, m
  <2>7. CASE g \notin W
    <3>1. put[g] = <<>>
      BY <1>4, <2>3, <2>7
    <3>2. o[k + 1] = m
      BY <2>3, <2>4, <3>1
    <3> QED
      BY <2>2, <2>6, <2>7, <3>2
  <2>8. CASE g \in W
    <3>1. PICK val \in Seq(S) :
             /\ ReadsValue(val, n, path, g, v)
             /\ Len(val) \in Nat
             /\ Len(put[g]) = 3 + Len(val)
             /\ put[g][1] = Word(Tag[s][g], "exact")
             /\ put[g][2] = Mark("colon")
             /\ \A i \in 1..Len(val) : put[g][2 + i] = val[i]
             /\ put[g][3 + Len(val)] = Mark("comma")
      BY <1>3, <2>3, <2>8
    <3> DEFINE l == Len(val)
    <3>2. /\ 1 \in 1..(3 + l) /\ 2 \in 1..(3 + l) /\ 3 + l \in 1..(3 + l)
          /\ \A i \in 1..l : 2 + i \in 1..(3 + l)
      BY <3>1
    <3>3. /\ M[m + 1] = Word(Tag[s][g], "exact")
          /\ M[m + 2] = Mark("colon")
          /\ M[m + (3 + l)] = Mark("comma")
      BY <2>4, <3>1, <3>2
    <3>4. \A i \in 1..l : M[m + (2 + i)] = val[i]
      BY <2>4, <3>1, <3>2
    <3>5. o[k + 1] = m + (3 + l) /\ m + (3 + l) <= Len(M)
      BY <2>4, <2>5, <3>1
    <3>6. Upto(text, b, z, n, path, v, M, m + (3 + l), D, got(k) \cup below(g))
      <4>1. Ahead(text, b, M)
        BY DEF M, s
      <4>2. g \in FieldsIn(Nested[n])
        BY <2>3 DEF s
      <4>3. /\ M[m + 1] = Word(Tag[Nested[n]][g], "exact")
            /\ M[m + 2] = Mark("colon")
            /\ M[m + (3 + Len(val))] = Mark("comma")
            /\ \A i \in 1..Len(val) : M[m + (2 + i)] = val[i]
            /\ m + (3 + Len(val)) <= Len(M)
        BY <3>3, <3>4, <3>5 DEF s
      <4> QED
        BY <2>2, <2>3, <3>1, <4>1, <4>2, <4>3, MemberReads DEF below
    <3> QED
      BY <2>6, <2>8, <3>5, <3>6
  <2> QED
    BY <2>7, <2>8
<1>17. T = Nat
  <2>1. T \in SUBSET Nat
    OBVIOUS
  <2> HIDE DEF T
  <2> QED
    BY <1>15, <1>16, <2>1, AllNumbers
<1>18. Upto(text, b, z, n, path, v, M, Len(M), D,
            D \cup UNION {below(g) : g \in W})
  <2>1. N \in T /\ N <= N
    BY <1>2, <1>17
  <2>2. Upto(text, b, z, n, path, v, M, o[N], D, got(N))
    BY <2>1
  <2> QED
    BY <1>9, <1>14, <2>2
<1>19. Len(M) > 0
  <2>1. PICK g \in W : g \in FieldsIn(s)
    BY DEF s
  <2>2. PICK i \in 1..N : e[i] = g
    <3>1. g \in Range(e)
      BY <2>1 DEF FieldsIn, e
    <3> QED
      BY <1>2, <3>1 DEF Range
  <2>3. Len(put[g]) \in Nat /\ Len(put[g]) > 0
    BY <1>3, <2>1
  <2>4. /\ o[i] = o[i - 1] + Len(put[g])
        /\ o[i] <= Len(M)
        /\ o[i - 1] \in Nat
    <3>1. i \in 0..N /\ i - 1 \in 0..N
      BY <1>2
    <3> QED
      BY <1>9, <1>10, <2>2, <3>1
  <2> QED
    BY <1>7, <2>3, <2>4
<1> QED
  BY <1>18, <1>19 DEF M, s, below, Gathered

-----------------------------------------------------------------------------
(* What nf holds is what its fields hold, and so for the geoip data.       *)
LEMMA GeoIPField == IsField(<<"GeoIP">>, 1, <<>>, "GeoIP")
<1>1. Nested[1] = "nf"
  BY DEF Nested
<1>2. Append(<<>>, "GeoIP") = <<"GeoIP">>
  OBVIOUS
<1> QED
  BY <1>1, <1>2, AlwaysFields DEF IsField, PathsAt

LEMMA FirstIsPrefix ==
    ASSUME NEW p, NEW m, NEW q, NEW h, IsField(p, m, q, h), m > 1
    PROVE  IsPrefix(<<"GeoIP">>, p)
<1> DEFINE one == <<"GeoIP">>
<1>1. p \in Seq(Names) /\ Len(p) = m /\ p[1] = "GeoIP" /\ m \in 1..3
  BY FieldParts
<1>2. one \in Seq(Names) /\ Len(one) = 1 /\ one[1] = "GeoIP"
  BY DEF Names
<1> HIDE DEF one
<1>3. Len(one) <= Len(p) /\ \A k \in 1..Len(one) : one[k] = p[k]
  BY <1>1, <1>2
<1> QED
  BY <1>1, <1>2, <1>3, PrefixIs DEF one

LEMMA UnderGeoIP ==
    ASSUME NEW v, ValueOK(v)
    PROVE  Under(v, <<"GeoIP">>) =
              UNION {Under(v, Append(<<"GeoIP">>, g)) :
                        g \in FieldsIn("esGeoIP")}
<1> DEFINE one == <<"GeoIP">>
<1>1. IsField(one, 1, <<>>, "GeoIP")
  BY GeoIPField
<1>2. one \in PathsAt(2) /\ Nested[2] = "esGeoIP"
  BY DEF PathsAt, Nested
<1>3. ASSUME NEW p, NEW m, NEW q, NEW h, IsField(p, m, q, h), m > 1
      PROVE  IsPrefix(one, p)
  BY <1>3, FirstIsPrefix
<1> HIDE DEF one
<1>4. ASSUME NEW p \in DOMAIN v, IsPrefix(one, p)
      PROVE  \E g \in FieldsIn("esGeoIP") : IsPrefix(Append(one, g), p)
  <2>1. PICK m, q, h : /\ IsField(p, m, q, h)
                       /\ Fitting(Handler[Nested[m]][h], v[p])
    BY DEF ValueOK
  <2>2. p = one \/ m > 1
    BY <1>1, <1>4, <2>1, BelowField
  <2>3. p # one
    <3> SUFFICES ASSUME p = one
                 PROVE  FALSE
      OBVIOUS
    <3>1. m = 1 /\ h = "GeoIP"
      BY <1>1, <2>1, SameField
    <3>2. Handler[Nested[m]][h] = "esGeoIP"
      BY <2>1, <3>1, FieldKinds
    <3> QED
      BY <2>1, <3>2 DEF Fitting
  <2>4. p \in Seq(Names) /\ q \in Seq(Names) /\ m \in 1..3
    BY <2>1, FieldParts
  <2>5. CASE m = 2
    <3>1. q = one /\ h \in FieldsIn("esGeoIP") /\ p = Append(q, h)
      BY <1>2, <2>1, <2>5 DEF IsField, PathsAt, one
    <3>2. IsPrefix(p, p)
      BY <2>4, OneIsPrefix
    <3> QED
      BY <3>1, <3>2
  <2>6. CASE m = 3
    <3>1. PICK g \in {"Location", "Coordinates"} : q = <<"GeoIP", g>>
      BY <2>1, <2>6 DEF IsField, PathsAt
    <3>2. g \in FieldsIn("esGeoIP") /\ Append(one, g) = q
      BY <3>1, LocationFields, AppendedToOne DEF one
    <3>3. /\ Len(q) = 2 /\ Len(p) = 3
          /\ \A k \in 1..(3 - 1) : p[k] = q[k]
      <4>1. /\ Len(q) = m - 1 /\ Len(p) = m
            /\ \A k \in 1..(m - 1) : p[k] = q[k]
        BY <2>1, FieldParts
      <4> QED
        BY <2>6, <4>1
    <3>4. Len(q) <= Len(p) /\ \A k \in 1..Len(q) : q[k] = p[k]
      BY <3>3
    <3>5. IsPrefix(q, p)
      BY <2>4, <3>4, PrefixIs
    <3> QED
      BY <3>2, <3>5
  <2> QED
    BY <2>2, <2>3, <2>4, <2>5, <2>6
<1>5. ASSUME NEW p \in DOMAIN v, NEW g \in FieldsIn("esGeoIP"),
             IsPrefix(Append(one, g), p)
      PROVE  IsPrefix(one, p)
  <2>1. IsField(Append(one, g), 2, one, g)
    BY <1>2, <1>5 DEF IsField
  <2>2. PICK m, q, h : IsField(p, m, q, h)
    BY DEF ValueOK
  <2>3. p = Append(one, g) \/ m > 1
    <3> DEFINE at == Append(one, g)
    <3>1. IsField(at, 2, one, g) /\ IsPrefix(at, p)
      BY <1>5, <2>1
    <3> HIDE DEF at
    <3>2. p = at \/ m = 3
      BY <2>2, <3>1, BelowField
    <3> QED
      BY <3>2 DEF at
  <2>4. CASE p = Append(one, g)
    BY <1>3, <2>1, <2>4
  <2>5. CASE m > 1
    BY <1>3, <2>2, <2>5
  <2> QED
    BY <2>3, <2>4, <2>5
<1>6. Under(v, one) = UNION {Under(v, Append(one, g)) :
                                g \in FieldsIn("esGeoIP")}
  BY <1>4, <1>5 DEF Under
<1> QED
  BY <1>6 DEF one

LEMMA AllOfNf ==
    ASSUME NEW v, ValueOK(v)
    PROVE  DOMAIN v = UNION {Under(v, Append(<<>>, g)) : g \in FieldsIn("nf")}
<1>1. ASSUME NEW p \in DOMAIN v
      PROVE  \E g \in FieldsIn("nf") : IsPrefix(Append(<<>>, g), p)
  <2>1. PICK m, q, h : IsField(p, m, q, h)
    BY DEF ValueOK
  <2>2. m \in 1..3 /\ p \in Seq(Names)
    BY <2>1, FieldParts
  <2>3. CASE m = 1
    <3>1. Nested[1] = "nf"
      BY DEF Nested
    <3>2. q = <<>> /\ h \in FieldsIn("nf") /\ p = Append(q, h)
      BY <2>1, <2>3, <3>1 DEF IsField, PathsAt
    <3>3. IsPrefix(p, p)
      BY <2>2, OneIsPrefix
    <3> QED
      BY <3>2, <3>3
  <2>4. CASE m > 1
    <3>1. IsPrefix(<<"GeoIP">>, p)
      BY <2>1, <2>4, FirstIsPrefix
    <3>2. Append(<<>>, "GeoIP") = <<"GeoIP">>
      BY GeoIPField DEF IsField
    <3> QED
      BY <3>1, <3>2, AlwaysFields
  <2> QED
    BY <2>2, <2>3, <2>4
<1> DEFINE at(g) == Append(<<>>, g)
<1>2. \A p \in DOMAIN v : \E g \in FieldsIn("nf") : IsPrefix(at(g), p)
  BY <1>1
<1> HIDE DEF at
<1>3. DOMAIN v = UNION {Under(v, at(g)) : g \in FieldsIn("nf")}
  BY <1>2 DEF Under
<1> QED
  BY <1>3 DEF at

LEMMA BracedFront ==
    ASSUME NEW v, NEW M \in Seq(TokensOf(v)), Len(M) > 0
    PROVE  LET text == Braced(Front(M))
           IN  /\ Len(text) = Len(M) + 1
               /\ text[1] = Mark("left_bracket")
               /\ \A k \in 1..(Len(M) - 1) : text[1 + k] = M[k]
               /\ text[Len(M) + 1] = Mark("right_bracket")
<1> DEFINE S == TokensOf(v)
           fr == Front(M)
           text == Braced(fr)
<1>1. /\ fr \in Seq(S) /\ Len(fr) = Len(M) - 1
      /\ \A k \in 1..(Len(M) - 1) : fr[k] = M[k]
  BY FrontOf
<1> HIDE DEF fr
<1>2. /\ Len(text) = Len(fr) + 2
      /\ text[1] = Mark("left_bracket")
      /\ \A k \in 1..Len(fr) : text[1 + k] = fr[k]
      /\ text[Len(fr) + 2] = Mark("right_bracket")
  BY <1>1, BracedIsText
<1> HIDE DEF text
<1>3. Len(fr) \in Nat /\ Len(M) \in Nat /\ Len(M) = Len(fr) + 1
  <2>1. Len(fr) \in Nat /\ Len(M) \in Nat
    BY <1>1
  <2> QED
    BY <1>1, <2>1
<1>4. Len(text) = Len(M) + 1 /\ text[Len(M) + 1] = Mark("right_bracket")
  <2>1. Len(fr) + 2 = Len(M) + 1
    BY <1>3
  <2> QED
    BY <1>2, <2>1
<1>5. \A k \in 1..(Len(M) - 1) : text[1 + k] = M[k]
  BY <1>1, <1>2
<1> QED
  BY <1>2, <1>4, <1>5 DEF text, fr

-----------------------------------------------------------------------------
(* The geoip data.                                                         *)
LEMMA ScalarKinds ==
    ASSUME NEW s \in Structs, NEW g \in FieldsIn(s)
    PROVE  LET strings == {"*string", "string"}
               nested == {"esGeoIP", "*esGeoIPLocation"}
           IN  /\ TypeOf(s, g) = "string" <=> Handler[s][g] \in strings
               /\ Encoded[s][g].conv = "WriteJsonString" <=>
                     Handler[s][g] \in strings
               /\ Encoded[s][g].conv = "MarshalJSONBuf" <=>
                     Handler[s][g] \in nested
<1>1. /\ Handler[s][g] \in Handlers[TypeOf(s, g)]
      /\ Encoded[s][g].conv = "WriteJsonString" <=> TypeOf(s, g) = "string"
      /\ Encoded[s][g].conv = "MarshalJSONBuf" <=> TypeOf(s, g) \in Structs
  BY ListingsAgree DEF HandlersAgree
<1>2. TypeOf(s, g) \in {"esGeoIP", "esGeoIPLocation", "float64", "string",
                        "int"}
  BY DEF TypeOf
<1> DEFINE type == TypeOf(s, g)
<1> HIDE DEF type
<1>3. /\ type = "esGeoIP" => Handler[s][g] = "esGeoIP"
      /\ type = "esGeoIPLocation" => Handler[s][g] = "*esGeoIPLocation"
      /\ type = "float64" => Handler[s][g] = "*float64"
      /\ type = "string" => Handler[s][g] \in {"*string", "string"}
      /\ type = "int" => Handler[s][g] = "*int"
  BY <1>1 DEF Handlers, type
<1>4. type \in Structs <=> type \in {"esGeoIP", "esGeoIPLocation"}
  BY <1>2 DEF Structs, type
<1> QED
  BY <1>1, <1>2, <1>3, <1>4 DEF type

LEMMA OneValueReads ==
    ASSUME NEW v, ValueOK(v), NEW n \in 1..3, NEW path \in PathsAt(n),
           NEW g \in FieldsIn(Nested[n]),
           Handler[Nested[n]][g] \notin {"esGeoIP", "*esGeoIPLocation"},
           NEW quoted,
           quoted <=> Handler[Nested[n]][g] \in {"*string", "string"}
    PROVE  LET val == <<ValueToken(quoted, v, Append(path, g))>>
           IN  val \in Seq(TokensOf(v)) /\ ReadsValue(val, n, path, g, v)
<1> DEFINE at == Append(path, g)
           t == ValueToken(quoted, v, at)
<1>1. IsField(at, n, path, g)
  BY DEF IsField
<1>2. WrittenAs(t, Handler[Nested[n]][g], v, at)
  BY ValueWritten
<1>3. <<t>> \in Seq(TokensOf(v))
  BY ValueIsToken, OneOf
<1> HIDE DEF t, at
<1>4. ReadsValue(<<t>>, n, path, g, v)
  BY <1>1, <1>2, ScalarText
<1> QED
  BY <1>3, <1>4 DEF t, at

LEMMA ListedText ==
    ASSUME NEW n \in 1..3, NEW path, NEW v, NEW put, NEW W, W # {},
           W \subseteq FieldsIn(Nested[n]), Lists(put, n, path, v, W)
    PROVE  LET M == Members(Nested[n], put)
           IN  M \in Seq(TokensOf(v)) /\ Len(M) > 0
<1> DEFINE s == Nested[n]
           S == TokensOf(v)
           M == Members(s, put)
           e == Enum[s]
           N == Len(e)
           ps == [k \in DOMAIN e |-> put[e[k]]]
<1>1. s \in Structs
  BY StructsNested
<1>2. e \in Seq(FieldsIn(s)) /\ DOMAIN e = 1..N /\ N \in Nat
  BY <1>1, EnumsAreSequences
<1>3. ASSUME NEW g \in FieldsIn(s), g \in W
      PROVE  put[g] \in Seq(S) /\ Len(put[g]) > 0
  <2>1. PICK val \in Seq(S) : put[g] = Put(Tag[s][g], val)
    BY <1>3 DEF Lists
  <2> DEFINE p == Put(Tag[s][g], val)
  <2>2. /\ p \in Seq(S)
        /\ Len(p) = 3 + Len(val)
    <3>1. s \in Structs /\ g \in FieldsIn(s) /\ val \in Seq(TokensOf(v))
      BY <1>1
    <3> HIDE DEF s
    <3> QED
      BY <3>1, PutIsText
  <2>3. Len(val) \in Nat
    OBVIOUS
  <2> HIDE DEF p
  <2>4. put[g] = p
    BY <2>1 DEF p
  <2> QED
    BY <2>2, <2>3, <2>4
<1>4. \A g \in FieldsIn(s) : put[g] \in Seq(S)
  <2> TAKE g \in FieldsIn(s)
  <2>1. <<>> \in Seq(S)
    OBVIOUS
  <2>2. g \notin W => put[g] = <<>>
    BY DEF Lists
  <2> HIDE DEF S
  <2> QED
    BY <1>3, <2>1, <2>2
<1>5. M \in Seq(S) /\ Len(M) \in Nat
  BY <1>1, <1>4, MembersAreText
<1>6. PICK o : Laid(ps, o, M)
  BY <1>1, <1>4, MembersAreText
<1> HIDE DEF s, S, M, e
<1>7. PICK g \in W : g \in FieldsIn(s)
  BY DEF s
<1>8. PICK i \in 1..N : e[i] = g
  <2>1. g \in Range(e)
    BY <1>7 DEF FieldsIn, e
  <2> QED
    BY <1>2, <2>1 DEF Range
<1>9. Len(ps) = N /\ \A k \in 1..N : ps[k] = put[e[k]] /\ e[k] \in FieldsIn(s)
  <2>1. ps \in [1..N -> {put[e[k]] : k \in 1..N}]
    BY <1>2
  <2>2. ps \in Seq({put[e[k]] : k \in 1..N}) /\ Len(ps) = N
    BY <1>2, <2>1
  <2> QED
    BY <1>2, <2>2
<1> HIDE DEF ps, N
<1>10. \A k \in 1..N : Len(ps[k]) \in Nat
  <2> TAKE k \in 1..N
  <2>1. ps[k] \in Seq(S)
    BY <1>4, <1>9
  <2> QED
    BY <2>1
<1>11. o[i] <= Len(M)
  <2>1. i \in 0..Len(ps)
    BY <1>2, <1>9
  <2> QED
    BY <1>2, <1>6, <1>9, <1>10, <2>1, LaidWithin
<1>12. /\ o[i] = o[i - 1] + Len(ps[i])
       /\ o[i - 1] \in Nat
  <2>1. i \in 1..Len(ps) /\ i - 1 \in 0..Len(ps)
    BY <1>2, <1>9
  <2> QED
    BY <1>6, <2>1 DEF Laid
<1>13. Len(ps[i]) \in Nat /\ Len(ps[i]) > 0
  <2>1. ps[i] = put[g]
    BY <1>8, <1>9
  <2> QED
    BY <1>3, <1>7, <1>10, <2>1
<1>14. Len(M) > 0
  BY <1>5, <1>11, <1>12, <1>13
<1> QED
  BY <1>5, <1>14 DEF M, s, S

(* A struct that is a field: entered, its members read, and left.          *)
LEMMA GeoIPBodyReads ==
    ASSUME NEW v, ValueOK(v), NEW put, NEW W, W # {},
           W \subseteq FieldsIn("esGeoIP"),
           Lists(put, 2, <<"GeoIP">>, v, W),
           \A g \in FieldsIn("esGeoIP") \ W :
              Under(v, Append(<<"GeoIP">>, g)) = {}
    PROVE  ReadsValue(Braced(Front(Members("esGeoIP", put))), 1, <<>>, "GeoIP",
                      v)
<1> DEFINE one == <<"GeoIP">>
           M == Members("esGeoIP", put)
           val == Braced(Front(M))
           at == Append(<<>>, "GeoIP")
<1>1. Nested[2] = "esGeoIP" /\ 2 \in 1..3
  BY DEF Nested
<1>2. at = one
  BY GeoIPField DEF IsField
<1>3. M \in Seq(TokensOf(v)) /\ Len(M) \in Nat /\ Len(M) > 0
  <2> DEFINE n == 2
  <2>1. /\ n \in 1..3 /\ W \subseteq FieldsIn(Nested[n])
        /\ Lists(put, n, one, v, W)
    BY <1>1
  <2> HIDE DEF n
  <2>2. LET L == Members(Nested[n], put)
        IN  L \in Seq(TokensOf(v)) /\ Len(L) > 0
    BY <2>1, ListedText
  <2>3. M \in Seq(TokensOf(v)) /\ Len(M) > 0
    BY <1>1, <2>2 DEF n
  <2>4. Len(M) \in Nat
    <3> HIDE DEF M
    <3> QED
      BY <2>3
  <2> QED
    BY <2>3, <2>4
<1> HIDE DEF at
<1> SUFFICES ASSUME NEW text, NEW o, NEW z, NEW D, Holds(text, o, val),
                    D \subseteq DOMAIN v,
                    On(z, 1, <<>>, "want_value", Restrict(v, D)),
                    TopOf(z.frames).key = "GeoIP"
             PROVE  \E y : /\ Reaches(text, o, z, o + Len(val), y)
                           /\ On(y, 1, <<>>, "after_value",
                                 Restrict(v, D \cup Under(v, one)))
  BY <1>2 DEF ReadsValue, at
<1> DEFINE b == o + 1
           x == After(z, text[b])
           gathered == D \cup Gathered(v, one, W)
<1>4. gathered = D \cup Under(v, one)
  <2>1. Under(v, one) = UNION {Under(v, Append(one, g)) :
                                  g \in FieldsIn("esGeoIP")}
    BY UnderGeoIP
  <2>2. \A g \in FieldsIn("esGeoIP") \ W : Under(v, Append(one, g)) = {}
    OBVIOUS
  <2> DEFINE below(g) == Under(v, Append(one, g))
  <2> HIDE DEF below
  <2>3. /\ Under(v, one) = UNION {below(g) : g \in FieldsIn("esGeoIP")}
        /\ \A g \in FieldsIn("esGeoIP") \ W : below(g) = {}
        /\ gathered = D \cup UNION {below(g) : g \in W}
    BY <2>1, <2>2 DEF below, Gathered
  <2> HIDE DEF gathered, one
  <2> QED
    BY <2>3
<1>5. o \in Nat /\ Len(text) \in Nat /\ Len(val) \in Nat
      /\ o + Len(val) <= Len(text)
      /\ \A k \in 1..Len(val) : text[o + k] = val[k]
  BY DEF Holds
<1> HIDE DEF M, val
<1>6. /\ Len(val) = Len(M) + 1
      /\ val[1] = Mark("left_bracket")
      /\ \A k \in 1..(Len(M) - 1) : val[1 + k] = M[k]
      /\ val[Len(M) + 1] = Mark("right_bracket")
  <2>1. M \in Seq(TokensOf(v)) /\ Len(M) > 0
    BY <1>3
  <2> QED
    BY <2>1, BracedFront DEF val
<1> DEFINE l == Len(M)
<1>7. l \in Nat /\ l > 0 /\ Len(val) = l + 1 /\ b \in Nat
      /\ o + (l + 1) <= Len(text)
  BY <1>3, <1>5, <1>6
<1>8. /\ Reaches(text, o, z, b, x)
      /\ On(x, 2, one, "want_key", Restrict(v, D))
  <2> DEFINE t == text[o + 1]
  <2>1. 1 \in 1..Len(val)
    BY <1>7
  <2>2. t = Mark("left_bracket")
    BY <1>5, <1>6, <2>1
  <2>3. t.tok = "left_bracket"
    BY <2>2 DEF Mark
  <2>4. o + 1 <= Len(text)
    BY <1>5, <1>7
  <2>5. Reaches(text, o, z, o + 1, After(z, t))
    BY <1>5, <2>4, ReadsNext DEF On
  <2> HIDE DEF t
  <2>6. On(After(z, t), 2, one, "want_key", Restrict(v, D))
    BY <2>3, StructReads
  <2> QED
    BY <2>5, <2>6 DEF t
<1> HIDE DEF x
<1>9. Ahead(text, b, M)
  <2>1. b + l <= Len(text) + 1
    BY <1>5, <1>7
  <2>2. ASSUME NEW k \in 1..(l - 1)
        PROVE  text[b + k] = M[k]
    <3>1. 1 + k \in 1..Len(val) /\ o + (1 + k) = b + k
      BY <1>5, <1>7
    <3>2. text[o + (1 + k)] = val[1 + k]
      BY <1>5, <3>1
    <3> QED
      BY <1>6, <3>1, <3>2
  <2> QED
    BY <1>5, <1>7, <2>1, <2>2 DEF Ahead
<1>10. Upto(text, b, x, 2, one, v, M, l, D, gathered)
  <2> DEFINE n == 2
  <2>1. /\ n \in 1..3 /\ W \subseteq FieldsIn(Nested[n])
        /\ Lists(put, n, one, v, W)
        /\ Ahead(text, b, Members(Nested[n], put))
        /\ On(x, n, one, "want_key", Restrict(v, D))
    BY <1>1, <1>8, <1>9 DEF M
  <2> HIDE DEF n, one, b, l
  <2>2. LET L == Members(Nested[n], put)
        IN  /\ Len(L) > 0
            /\ Upto(text, b, x, n, one, v, L, Len(L), D,
                    D \cup Gathered(v, one, W))
    BY <2>1, MembersRead
  <2> QED
    BY <1>1, <2>2 DEF n, M, l
<1>11. PICK y : /\ Reaches(text, b, x, b + (l - 1), y)
                /\ On(y, 2, one, "after_value", Restrict(v, gathered))
  <2> HIDE DEF l, gathered, one, b
  <2> QED
    BY <1>7, <1>10 DEF Upto
<1>12. PICK r : /\ Reaches(text, o + l, y, o + (l + 1), r)
                /\ On(r, 1, <<>>, "after_value", Restrict(v, gathered))
  <2> DEFINE i == o + l
             n == 2
             around == <<>>
             w == Restrict(v, gathered)
  <2>1. i \in Nat /\ i + 1 <= Len(text) /\ i + 1 = o + (l + 1)
    BY <1>5, <1>7
  <2>2. text[i + 1].tok = "right_bracket"
    <3>1. l + 1 \in 1..Len(val)
      BY <1>7
    <3>2. text[o + (l + 1)] = Mark("right_bracket")
      BY <1>5, <1>6, <3>1
    <3> QED
      BY <2>1, <3>2 DEF Mark
  <2>3. n \in 2..3 /\ n - 1 = 1 /\ around \in PathsAt(n - 1)
    BY DEF PathsAt
  <2>4. On(y, n, one, "after_value", w)
    BY <1>11
  <2> HIDE DEF i, n, around, w
  <2>5. \E r : /\ Reaches(text, i, y, i + 1, r)
               /\ On(r, n - 1, around, "after_value", w)
    BY <1>5, <2>1, <2>2, <2>3, <2>4, CloseStep
  <2>6. \E r : /\ Reaches(text, i, y, o + (l + 1), r)
               /\ On(r, 1, around, "after_value", w)
    BY <2>1, <2>3, <2>5
  <2> QED
    BY <2>6 DEF i, around, w
<1>13. Reaches(text, o, z, o + (l + 1), r)
  <2>1. b + (l - 1) = o + l
    BY <1>5, <1>7
  <2>2. Reaches(text, b, x, o + l, y)
    BY <1>11, <2>1
  <2> HIDE DEF b
  <2> QED
    BY <1>8, <1>12, <2>2, ReachesOn
<1> QED
  BY <1>4, <1>7, <1>12, <1>13

(* What the encoders write for a field that has something to be written.   *)
WrittenValue(val, n, path, g, v) ==
    LET kind == Handler[Nested[n]][g]
    IN  /\ kind = "*esGeoIPLocation" =>
              val = MarshalLocation(v, Append(path, g))
        /\ kind # "*esGeoIPLocation" =>
              \E quoted : /\ quoted <=> kind \in {"*string", "string"}
                          /\ val = <<ValueToken(quoted, v, Append(path, g))>>

LEMMA WrittenReads ==
    ASSUME NEW v, ValueOK(v), NEW n \in 1..3, NEW path \in PathsAt(n),
           NEW g \in FieldsIn(Nested[n]), Handler[Nested[n]][g] # "esGeoIP",
           Handler[Nested[n]][g] = "*esGeoIPLocation" =>
              Append(path, g) \in DOMAIN v,
           NEW val, WrittenValue(val, n, path, g, v)
    PROVE  val \in Seq(TokensOf(v)) /\ ReadsValue(val, n, path, g, v)
<1> DEFINE kind == Handler[Nested[n]][g]
           at == Append(path, g)
<1>1. CASE kind = "*esGeoIPLocation"
  <2>1. IsField(at, n, path, g)
    BY DEF IsField
  <2>2. n = 2 /\ g \in {"Location", "Coordinates"}
    BY <1>1, <2>1, FieldKinds
  <2>3. path = <<"GeoIP">>
    BY <2>2 DEF PathsAt
  <2>4. at = <<"GeoIP", g>>
    BY <2>3, AppendedToOne
  <2>5. val = MarshalLocation(v, <<"GeoIP", g>>)
    BY <1>1, <2>4 DEF WrittenValue
  <2>6. val \in Seq(TokensOf(v))
    BY <2>5, LocationIsText
  <2>7. <<"GeoIP", g>> \in DOMAIN v
    BY <1>1, <2>4
  <2>8. ReadsValue(MarshalLocation(v, <<"GeoIP", g>>), 2, <<"GeoIP">>, g, v)
    BY <2>2, <2>7, LocationReads
  <2> QED
    BY <2>2, <2>3, <2>5, <2>6, <2>8
<1>2. CASE kind # "*esGeoIPLocation"
  <2>1. PICK quoted : /\ quoted <=> kind \in {"*string", "string"}
                      /\ val = <<ValueToken(quoted, v, at)>>
    BY <1>2 DEF WrittenValue
  <2>2. kind \notin {"esGeoIP", "*esGeoIPLocation"}
    BY <1>2
  <2>3. LET one == <<ValueToken(quoted, v, at)>>
        IN  one \in Seq(TokensOf(v)) /\ ReadsValue(one, n, path, g, v)
    BY <2>1, <2>2, OneValueReads
  <2> QED
    BY <2>1, <2>3
<1> QED
  BY <1>1, <1>2

LEMMA LongitudeAndLatitude ==
    "Longitude" \in FieldsIn("esGeoIP") /\ "Latitude" \in FieldsIn("esGeoIP")
<1>1. /\ DOMAIN EnumGeoIP = 1..12
      /\ EnumGeoIP[1] = "Longitude" /\ EnumGeoIP[2] = "Latitude"
  BY DEF EnumGeoIP
<1> QED
  BY <1>1 DEF FieldsIn, Enum, Range

LEMMA GeoIPTextReads ==
    ASSUME NEW v, ValueOK(v), NEW always, "Longitude" \in always,
           {"Location", "Coordinates"} \cap always = {}, NEW put,
           \A g \in FieldsIn("esGeoIP") :
              LET at == Append(<<"GeoIP">>, g)
              IN  /\ g \in always \/ at \in DOMAIN v =>
                        \E val : /\ put[g] = Put(Tag["esGeoIP"][g], val)
                                 /\ WrittenValue(val, 2, <<"GeoIP">>, g, v)
                  /\ g \notin always /\ at \notin DOMAIN v => put[g] = <<>>
    PROVE  ReadsValue(Braced(Front(Members("esGeoIP", put))), 1, <<>>, "GeoIP",
                      v)
<1> DEFINE one == <<"GeoIP">>
           n == 2
           W == {g \in FieldsIn("esGeoIP") :
                    g \in always \/ Append(one, g) \in DOMAIN v}
<1>1. Nested[n] = "esGeoIP" /\ n \in 1..3 /\ one \in PathsAt(n)
  BY DEF Nested, PathsAt
<1>2. W # {} /\ W \subseteq FieldsIn("esGeoIP")
  BY LongitudeAndLatitude
<1>3. n # 1 /\ \A g : n = 2
  OBVIOUS
<1>4. ASSUME NEW g \in FieldsIn("esGeoIP")
      PROVE  /\ g \in W => \E val : /\ put[g] = Put(Tag["esGeoIP"][g], val)
                                    /\ WrittenValue(val, n, one, g, v)
             /\ g \notin W => put[g] = <<>>
                              /\ Append(one, g) \notin DOMAIN v
             /\ g \in W /\ g \in {"Location", "Coordinates"} =>
                   Append(one, g) \in DOMAIN v
  OBVIOUS
<1> HIDE DEF one, n, W
<1>5. ASSUME NEW g \in FieldsIn("esGeoIP")
      PROVE  /\ IsField(Append(one, g), n, one, g)
             /\ Handler[Nested[n]][g] # "esGeoIP"
             /\ Handler[Nested[n]][g] = "*esGeoIPLocation" =>
                   g \in {"Location", "Coordinates"}
  <2>1. IsField(Append(one, g), n, one, g)
    BY <1>1 DEF IsField
  <2> QED
    BY <1>3, <2>1, FieldKinds
<1>6. Lists(put, n, one, v, W)
  <2> SUFFICES ASSUME NEW g \in FieldsIn(Nested[n])
               PROVE  /\ g \in W => \E val \in Seq(TokensOf(v)) :
                            /\ put[g] = Put(Tag[Nested[n]][g], val)
                            /\ ReadsValue(val, n, one, g, v)
                      /\ g \notin W => put[g] = <<>>
    BY DEF Lists
  <2>1. g \in FieldsIn("esGeoIP")
    BY <1>1
  <2>2. ASSUME g \in W
        PROVE  \E val \in Seq(TokensOf(v)) :
                  /\ put[g] = Put(Tag[Nested[n]][g], val)
                  /\ ReadsValue(val, n, one, g, v)
    <3>1. PICK val : /\ put[g] = Put(Tag["esGeoIP"][g], val)
                     /\ WrittenValue(val, n, one, g, v)
      BY <1>4, <2>1, <2>2
    <3>2. Handler[Nested[n]][g] = "*esGeoIPLocation" =>
             Append(one, g) \in DOMAIN v
      BY <1>4, <1>5, <2>1, <2>2
    <3>3. Handler[Nested[n]][g] # "esGeoIP"
      BY <1>5, <2>1
    <3>4. val \in Seq(TokensOf(v)) /\ ReadsValue(val, n, one, g, v)
      BY <1>1, <3>1, <3>2, <3>3, WrittenReads
    <3> QED
      BY <1>1, <3>1, <3>4
  <2> QED
    BY <1>4, <2>1, <2>2
<1>7. \A g \in FieldsIn("esGeoIP") \ W : Under(v, Append(one, g)) = {}
  <2> TAKE g \in FieldsIn("esGeoIP") \ W
  <2>1. Append(one, g) \notin DOMAIN v
    BY <1>4
  <2>2. IsField(Append(one, g), n, one, g) /\ Handler[Nested[n]][g] # "esGeoIP"
    BY <1>5
  <2> QED
    BY <2>1, <2>2, UnderNothing
<1>8. Lists(put, 2, <<"GeoIP">>, v, W)
  BY <1>6 DEF n, one
<1>9. \A g \in FieldsIn("esGeoIP") \ W : Under(v, Append(<<"GeoIP">>, g)) = {}
  BY <1>7 DEF one
<1> QED
  BY <1>2, <1>8, <1>9, GeoIPBodyReads

LEMMA FastGeoIPReads ==
    ASSUME NEW v, ValueOK(v)
    PROVE  ReadsValue(MarshalGeoIP(v, <<"GeoIP">>), 1, <<>>, "GeoIP", v)
<1> DEFINE one == <<"GeoIP">>
           always == {"Longitude", "Latitude"}
           Sub(g) == Append(one, g)
           put == [g \in Range(EnumGeoIP) |->
                   IF /\ g \notin {"Longitude", "Latitude"}
                      /\ Sub(g) \notin DOMAIN v
                   THEN <<>>
                   ELSE Put(EncodeGeoIP[g].key,
                            IF EncodeGeoIP[g].conv = "MarshalJSONBuf"
                            THEN MarshalLocation(v, Sub(g))
                            ELSE <<ValueToken(
                                     EncodeGeoIP[g].conv = "WriteJsonString",
                                     v, Sub(g))>>)]
<1>1. MarshalGeoIP(v, one) = Braced(Front(Members("esGeoIP", put)))
  BY DEF MarshalGeoIP
<1>2. "esGeoIP" \in Structs /\ Enum["esGeoIP"] = EnumGeoIP
      /\ Encoded["esGeoIP"] = EncodeGeoIP /\ Nested[2] = "esGeoIP"
  BY DEF Structs, Enum, Encoded, Nested
<1>3. ASSUME NEW g \in FieldsIn("esGeoIP")
      PROVE  /\ g \in always \/ Sub(g) \in DOMAIN v =>
                   \E val : /\ put[g] = Put(Tag["esGeoIP"][g], val)
                            /\ WrittenValue(val, 2, one, g, v)
             /\ g \notin always /\ Sub(g) \notin DOMAIN v => put[g] = <<>>
  <2> DEFINE quoted == EncodeGeoIP[g].conv = "WriteJsonString"
             val == IF EncodeGeoIP[g].conv = "MarshalJSONBuf"
                    THEN MarshalLocation(v, Sub(g))
                    ELSE <<ValueToken(quoted, v, Sub(g))>>
             kind == Handler["esGeoIP"][g]
  <2>1. put[g] = IF g \notin always /\ Sub(g) \notin DOMAIN v
                 THEN <<>> ELSE Put(EncodeGeoIP[g].key, val)
    BY <1>2, <1>3 DEF FieldsIn
  <2>2. EncodeGeoIP[g].key = Tag["esGeoIP"][g]
    BY <1>3, EncodedKeys
  <2>3. /\ EncodeGeoIP[g].conv = "WriteJsonString" <=>
              kind \in {"*string", "string"}
        /\ EncodeGeoIP[g].conv = "MarshalJSONBuf" <=>
              kind \in {"esGeoIP", "*esGeoIPLocation"}
    BY <1>2, <1>3, ScalarKinds
  <2>4. kind # "esGeoIP"
    BY <1>2, <1>3, Kinds
  <2> HIDE DEF put, one
  <2>5. kind = "*esGeoIPLocation" => val = MarshalLocation(v, Sub(g))
    BY <2>3
  <2>6. kind # "*esGeoIPLocation" => val = <<ValueToken(quoted, v, Sub(g))>>
    BY <2>3, <2>4
  <2>7. quoted <=> kind \in {"*string", "string"}
    BY <2>3
  <2> HIDE DEF quoted, val, kind
  <2>8. WrittenValue(val, 2, one, g, v)
    BY <1>2, <2>5, <2>6, <2>7 DEF WrittenValue, kind
  <2> QED
    BY <2>1, <2>2, <2>8
<1> HIDE DEF put
<1>4. "Longitude" \in always /\ {"Location", "Coordinates"} \cap always = {}
  OBVIOUS
<1> HIDE DEF always
<1>5. ReadsValue(Braced(Front(Members("esGeoIP", put))), 1, <<>>, "GeoIP", v)
  BY <1>3, <1>4, GeoIPTextReads
<1> QED
  BY <1>1, <1>5

LEMMA StdGeoIPReads ==
    ASSUME NEW v, ValueOK(v)
    PROVE  LET locations == [g \in {"Location", "Coordinates"} |->
                                MarshalLocation(v, <<"GeoIP", g>>)]
           IN  ReadsValue(StdStruct("esGeoIP", v, <<"GeoIP">>, locations), 1,
                          <<>>, "GeoIP", v)
<1> DEFINE one == <<"GeoIP">>
           s == "esGeoIP"
           locations == [g \in {"Location", "Coordinates"} |->
                            MarshalLocation(v, <<"GeoIP", g>>)]
           always == NfAlways \cup {"Longitude", "Latitude"}
           Sub(g) == Append(one, g)
           put == [g \in Range(Enum[s]) |->
                   IF g \notin always /\ Sub(g) \notin DOMAIN v THEN <<>>
                   ELSE Put(Tag[s][g],
                            IF g \in DOMAIN locations THEN locations[g]
                            ELSE <<ValueToken(TypeOf(s, g) = "string",
                                              v, Sub(g))>>)]
<1>1. StdStruct(s, v, one, locations) = Braced(Front(Members(s, put)))
  BY DEF StdStruct
<1>2. s \in Structs /\ Nested[2] = s
  BY DEF Structs, Nested
<1>3. ASSUME NEW g \in FieldsIn(s)
      PROVE  /\ g \in always \/ Sub(g) \in DOMAIN v =>
                   \E val : /\ put[g] = Put(Tag[s][g], val)
                            /\ WrittenValue(val, 2, one, g, v)
             /\ g \notin always /\ Sub(g) \notin DOMAIN v => put[g] = <<>>
  <2> DEFINE quoted == TypeOf(s, g) = "string"
             val == IF g \in DOMAIN locations THEN locations[g]
                    ELSE <<ValueToken(quoted, v, Sub(g))>>
             kind == Handler[s][g]
  <2>1. put[g] = IF g \notin always /\ Sub(g) \notin DOMAIN v
                 THEN <<>> ELSE Put(Tag[s][g], val)
    BY <1>3 DEF FieldsIn
  <2>2. TypeOf(s, g) = "string" <=> kind \in {"*string", "string"}
    BY <1>2, <1>3, ScalarKinds
  <2>3. kind = "*esGeoIPLocation" <=> g \in {"Location", "Coordinates"}
    BY <1>2, <1>3, Kinds
  <2>4. <<"GeoIP", g>> = Sub(g)
    BY AppendedToOne
  <2>5. kind = "*esGeoIPLocation" => val = MarshalLocation(v, Sub(g))
    BY <2>3, <2>4
  <2>6. kind # "*esGeoIPLocation" => val = <<ValueToken(quoted, v, Sub(g))>>
    BY <2>3
  <2>7. quoted <=> kind \in {"*string", "string"}
    BY <2>2
  <2> HIDE DEF quoted, val, kind, put, one
  <2>8. WrittenValue(val, 2, one, g, v)
    BY <1>2, <2>5, <2>6, <2>7 DEF WrittenValue, kind
  <2> QED
    BY <2>1, <2>8
<1>4. "Longitude" \in always /\ {"Location", "Coordinates"} \cap always = {}
  BY DEF NfAlways
<1> HIDE DEF put, always
<1>5. ReadsValue(Braced(Front(Members("esGeoIP", put))), 1, <<>>, "GeoIP", v)
  BY <1>3, <1>4, GeoIPTextReads
<1> QED
  BY <1>1, <1>5

-----------------------------------------------------------------------------
(* A whole text, from the first bracket to the last.                       *)
Fresh == At3(<<Frame("nf", "map_start", <<>>)>>, EmptyStruct, "scanning")

ReadsBack(text, v) ==
    \E y : /\ Reaches(text, 0, Fresh, Len(text), y)
           /\ y.outcome = "done"
           /\ y.value = v

LEMMA EmptyPart ==
    ASSUME NEW v
    PROVE  Restrict(v, {}) = EmptyStruct
BY DEF Restrict, EmptyStruct

LEMMA FreshOn ==
    ASSUME NEW v
    PROVE  On(Fresh, 1, <<>>, "map_start", Restrict(v, {}))
<1> DEFINE fr == Frame("nf", "map_start", <<>>)
           fs == <<fr>>
<1>1. StackOK(fs)
  BY FreshStack
<1>2. fr.path = <<>> /\ fr.state = "map_start"
  BY DEF Frame
<1>3. /\ Fresh.frames = fs /\ Fresh.value = EmptyStruct
      /\ Fresh.outcome = "scanning"
  BY DEF Fresh, At3
<1> HIDE DEF fr
<1>4. Len(fs) = 1 /\ TopOf(fs) = fr
  BY DEF TopOf
<1> HIDE DEF fs
<1> QED
  BY <1>1, <1>2, <1>3, <1>4, EmptyPart DEF On

LEMMA FreshReads ==
    ASSUME NEW v, NEW text, Len(text) \in Nat, Len(text) >= 1,
           text[1].tok = "left_bracket"
    PROVE  \E x : /\ Reaches(text, 0, Fresh, 1, x)
                  /\ On(x, 1, <<>>, "want_key", Restrict(v, {}))
<1> DEFINE t == text[1]
           path == <<>>
<1>1. On(Fresh, 1, path, "map_start", Restrict(v, {}))
  BY FreshOn
<1> HIDE DEF path
<1>2. Reaches(text, 0, Fresh, 0 + 1, After(Fresh, text[0 + 1]))
  BY <1>1, ReadsNext DEF On
<1>3. Reaches(text, 0, Fresh, 1, After(Fresh, t))
  BY <1>2
<1>4. t.tok = "left_bracket"
  OBVIOUS
<1> HIDE DEF t
<1>5. On(After(Fresh, t), 1, path, "want_key", Restrict(v, {}))
  BY <1>1, <1>4, OpenReads
<1> QED
  BY <1>3, <1>5 DEF path

LEMMA EndReads ==
    ASSUME NEW v, ValueOK(v), NEW text, NEW o \in Nat, Len(text) = o + 1,
           text[o + 1].tok = "right_bracket", NEW y, NEW D, D = DOMAIN v,
           On(y, 1, <<>>, "after_value", Restrict(v, D)),
           Reaches(text, 0, Fresh, o, y)
    PROVE  ReadsBack(text, v)
<1> DEFINE t == text[o + 1]
           w == Restrict(v, D)
<1>1. w = v
  BY DEF Restrict, ValueOK
<1>2. Reaches(text, o, y, o + 1, After(y, t))
  <2>1. Len(text) \in Nat /\ o + 1 <= Len(text) /\ y.outcome = "scanning"
    BY DEF On
  <2> QED
    BY <2>1, ReadsNext
<1>3. t.tok = "right_bracket"
  OBVIOUS
<1> HIDE DEF t
<1>4. After(y, t).outcome = "done" /\ After(y, t).value = w
  BY <1>3, CloseEnds
<1>5. Reaches(text, 0, Fresh, Len(text), After(y, t))
  BY <1>2, ReachesOn
<1> QED
  BY <1>1, <1>4, <1>5 DEF ReadsBack

LEMMA NfValueReads ==
    ASSUME NEW v, ValueOK(v), NEW g \in FieldsIn("nf"), g # "GeoIP"
    PROVE  /\ \A val : WrittenValue(val, 1, <<>>, g, v) =>
                 val \in Seq(TokensOf(v)) /\ ReadsValue(val, 1, <<>>, g, v)
           /\ <<g>> \notin DOMAIN v => Under(v, Append(<<>>, g)) = {}
<1> DEFINE n == 1
           path == <<>>
<1>1. Nested[n] = "nf" /\ n \in 1..3 /\ path \in PathsAt(n) /\ n # 2
      /\ Append(path, g) = <<g>>
  BY DEF Nested, PathsAt
<1> HIDE DEF n, path
<1>2. IsField(Append(path, g), n, path, g)
  BY <1>1 DEF IsField
<1>3. /\ Handler[Nested[n]][g] # "esGeoIP"
      /\ Handler[Nested[n]][g] # "*esGeoIPLocation"
  BY <1>1, <1>2, FieldKinds
<1>4. ASSUME NEW val, WrittenValue(val, n, path, g, v)
      PROVE  val \in Seq(TokensOf(v)) /\ ReadsValue(val, n, path, g, v)
  BY <1>1, <1>3, <1>4, WrittenReads
<1>5. <<g>> \notin DOMAIN v => Under(v, Append(path, g)) = {}
  BY <1>1, <1>2, <1>3, UnderNothing
<1> QED
  BY <1>4, <1>5 DEF n, path

(* The members of nf that put has: those of W, and none of the others.     *)
NfLists(put, v, W) ==
    /\ W # {}
    /\ W \subseteq FieldsIn("nf")
    /\ Lists(put, 1, <<>>, v, W)

LEMMA NfMembersRead ==
    ASSUME NEW v, ValueOK(v), NEW put, NEW W, NfLists(put, v, W),
           NEW text, Ahead(text, 1, Members("nf", put)),
           text[1].tok = "left_bracket"
    PROVE  LET M == Members("nf", put)
           IN  /\ M \in Seq(TokensOf(v)) /\ Len(M) > 0
               /\ M[Len(M)] = Mark("comma")
               /\ \E y : /\ Reaches(text, 0, Fresh, Len(M), y)
                         /\ On(y, 1, <<>>, "after_value",
                               Restrict(v, Gathered(v, <<>>, W)))
<1> DEFINE n == 1
           path == <<>>
           M == Members("nf", put)
           l == Len(M)
           D == {}
           G == Gathered(v, path, W)
           b == 1
<1>1. Nested[n] = "nf" /\ n \in 1..3 /\ b \in Nat
  BY DEF Nested
<1>2. W # {} /\ W \subseteq FieldsIn("nf") /\ Lists(put, n, path, v, W)
  BY DEF NfLists
<1>3. Ahead(text, b, M)
  OBVIOUS
<1>4. D \subseteq DOMAIN v /\ D \cup G = G /\ b = 1 /\ path = <<>> /\ D = {}
  OBVIOUS
<1> HIDE DEF n, path, D, b, G
<1>5. M \in Seq(TokensOf(v)) /\ l > 0
  <2>1. LET L == Members(Nested[n], put)
        IN  L \in Seq(TokensOf(v)) /\ Len(L) > 0
    BY <1>1, <1>2, ListedText
  <2> QED
    BY <1>1, <2>1
<1>6. l \in Nat
  <2> HIDE DEF M
  <2> QED
    BY <1>5
<1>7. PICK x : /\ Reaches(text, 0, Fresh, b, x)
               /\ On(x, n, path, "want_key", Restrict(v, D))
  <2>1. Len(text) \in Nat /\ Len(text) >= 1
    <3> HIDE DEF M
    <3> QED
      BY <1>3, <1>4, <1>5, <1>6 DEF Ahead
  <2>2. PICK x : /\ Reaches(text, 0, Fresh, 1, x)
                 /\ On(x, 1, <<>>, "want_key", Restrict(v, {}))
    BY <2>1, FreshReads
  <2> QED
    BY <2>2 DEF n, path, b, D
<1>8. Upto(text, b, x, n, path, v, M, l, D, D \cup G)
  <2> HIDE DEF l, M
  <2>1. Ahead(text, b, Members(Nested[n], put))
    BY <1>1, <1>3 DEF M
  <2>2. LET L == Members(Nested[n], put)
        IN  /\ Len(L) > 0
            /\ Upto(text, b, x, n, path, v, L, Len(L), D,
                    D \cup Gathered(v, path, W))
    BY <1>1, <1>2, <1>4, <1>7, <2>1, MembersRead
  <2> QED
    BY <1>1, <2>2 DEF l, M, G
<1> HIDE DEF l, M
<1>9. PICK y : /\ Reaches(text, b, x, b + (l - 1), y)
               /\ On(y, n, path, "after_value", Restrict(v, G))
  BY <1>4, <1>5, <1>6, <1>8 DEF Upto
<1>10. M[l] = Mark("comma")
  BY <1>5, <1>6, <1>8 DEF Upto
<1>11. Reaches(text, 0, Fresh, l, y)
  <2>1. b + (l - 1) = l
    BY <1>4, <1>6
  <2> QED
    BY <1>7, <1>9, <2>1, ReachesOn
<1> QED
  BY <1>5, <1>9, <1>10, <1>11 DEF l, M, n, path, G

LEMMA OfNfGathered ==
    ASSUME NEW v, ValueOK(v), NEW W \in SUBSET FieldsIn("nf"),
           \A g \in FieldsIn("nf") \ W : Under(v, Append(<<>>, g)) = {}
    PROVE  Gathered(v, <<>>, W) = DOMAIN v
<1> DEFINE below(g) == Under(v, Append(<<>>, g))
<1>1. DOMAIN v = UNION {below(g) : g \in FieldsIn("nf")}
  BY AllOfNf
<1>2. Gathered(v, <<>>, W) = UNION {below(g) : g \in W}
  BY DEF Gathered
<1>3. \A g \in FieldsIn("nf") \ W : below(g) = {}
  OBVIOUS
<1> HIDE DEF below
<1> QED
  BY <1>1, <1>2, <1>3

LEMMA StdReadsBack ==
    ASSUME NEW v, ValueOK(v)
    PROVE  ReadsBack(JsonMarshal(v), v)
<1> DEFINE s == "nf"
           path == <<>>
           locations == [g \in {"Location", "Coordinates"} |->
                            MarshalLocation(v, <<"GeoIP", g>>)]
           geoip == StdStruct("esGeoIP", v, <<"GeoIP">>, locations)
           inner == [g \in {"GeoIP"} |-> geoip]
           always == NfAlways \cup {"Longitude", "Latitude"}
           Sub(g) == Append(path, g)
           put == [g \in Range(Enum[s]) |->
                   IF g \notin always /\ Sub(g) \notin DOMAIN v THEN <<>>
                   ELSE Put(Tag[s][g],
                            IF g \in DOMAIN inner THEN inner[g]
                            ELSE <<ValueToken(TypeOf(s, g) = "string",
                                              v, Sub(g))>>)]
           W == {g \in FieldsIn(s) : g \in always \/ Sub(g) \in DOMAIN v}
           M == Members(s, put)
           text == Braced(Front(M))
<1>1. JsonMarshal(v) = text
  BY DEF JsonMarshal, StdStruct
<1>2. ReadsValue(geoip, 1, <<>>, "GeoIP", v)
  BY StdGeoIPReads
<1>3. geoip \in Seq(TokensOf(v))
  <2>1. \A g \in DOMAIN locations : locations[g] \in Seq(TokensOf(v))
    BY LocationIsText
  <2>2. "esGeoIP" \in Structs
    BY DEF Structs
  <2> HIDE DEF locations
  <2> QED
    BY <2>1, <2>2, StdStructIsText
<1> HIDE DEF geoip
<1>4. s \in Structs /\ Nested[1] = s
  BY DEF Structs, Nested
<1>5. "GeoIP" \in always
  BY DEF NfAlways
<1>6. "GeoIP" \in W
  BY <1>5, AlwaysFields
<1>7. ASSUME NEW g \in FieldsIn(s)
      PROVE  /\ g \in W => \E val \in Seq(TokensOf(v)) :
                   /\ put[g] = Put(Tag[s][g], val)
                   /\ ReadsValue(val, 1, <<>>, g, v)
             /\ g \notin W => put[g] = <<>> /\ Under(v, Append(<<>>, g)) = {}
  <2> DEFINE quoted == TypeOf(s, g) = "string"
             val == IF g \in DOMAIN inner THEN inner[g]
                    ELSE <<ValueToken(quoted, v, Sub(g))>>
             kind == Handler[s][g]
  <2>1. put[g] = IF g \notin always /\ Sub(g) \notin DOMAIN v
                 THEN <<>> ELSE Put(Tag[s][g], val)
    BY <1>7 DEF FieldsIn
  <2> HIDE DEF put, always
  <2>2. CASE g = "GeoIP"
    <3>1. val = geoip /\ g \in W
      BY <1>6, <2>2
    <3>2. put[g] = Put(Tag[s][g], val)
      BY <1>5, <2>1, <2>2
    <3> QED
      BY <1>2, <1>3, <2>2, <3>1, <3>2
  <2>3. CASE g # "GeoIP"
    <3>1. val = <<ValueToken(quoted, v, Sub(g))>>
      BY <2>3
    <3>2. TypeOf(s, g) = "string" <=> kind \in {"*string", "string"}
      BY <1>4, <1>7, ScalarKinds
    <3>3. kind # "*esGeoIPLocation"
      BY <1>4, <1>7, Kinds
    <3>4. /\ \A x : WrittenValue(x, 1, <<>>, g, v) =>
                x \in Seq(TokensOf(v)) /\ ReadsValue(x, 1, <<>>, g, v)
          /\ <<g>> \notin DOMAIN v => Under(v, Append(<<>>, g)) = {}
      BY <2>3, <1>7, NfValueReads
    <3>5. Sub(g) = <<g>>
      OBVIOUS
    <3>6. quoted <=> kind \in {"*string", "string"}
      BY <3>2
    <3> HIDE DEF quoted, val, kind
    <3>7. WrittenValue(val, 1, <<>>, g, v)
      BY <1>4, <3>1, <3>3, <3>6 DEF WrittenValue, kind
    <3> QED
      BY <2>1, <3>4, <3>5, <3>7
  <2> QED
    BY <2>2, <2>3
<1>8. NfLists(put, v, W)
  <2>1. W # {} /\ W \subseteq FieldsIn("nf")
    BY <1>6
  <2> HIDE DEF W, put
  <2>2. Lists(put, 1, <<>>, v, W)
    BY <1>4, <1>7 DEF Lists
  <2> QED
    BY <2>1, <2>2 DEF NfLists
<1>9. Gathered(v, <<>>, W) = DOMAIN v
  <2>1. W \in SUBSET FieldsIn("nf")
    OBVIOUS
  <2>2. \A g \in FieldsIn("nf") \ W : Under(v, Append(<<>>, g)) = {}
    <3> HIDE DEF W, put
    <3> QED
      BY <1>7
  <2> HIDE DEF W
  <2> QED
    BY <2>1, <2>2, OfNfGathered
<1> HIDE DEF put, W
<1>10. M \in Seq(TokensOf(v)) /\ Len(M) > 0
  <2> DEFINE n == 1
  <2>1. /\ n \in 1..3 /\ W # {} /\ W \subseteq FieldsIn(Nested[n])
        /\ Lists(put, n, <<>>, v, W) /\ Nested[n] = "nf"
    BY <1>4, <1>8 DEF NfLists
  <2> HIDE DEF n
  <2>2. LET L == Members(Nested[n], put)
        IN  L \in Seq(TokensOf(v)) /\ Len(L) > 0
    BY <2>1, ListedText
  <2> QED
    BY <2>1, <2>2
<1>11. LET t == Braced(Front(M))
       IN  /\ Len(t) = Len(M) + 1
           /\ t[1] = Mark("left_bracket")
           /\ \A k \in 1..(Len(M) - 1) : t[1 + k] = M[k]
           /\ t[Len(M) + 1] = Mark("right_bracket")
  <2> HIDE DEF M
  <2> QED
    BY <1>10, BracedFront
<1>12. Len(M) \in Nat
  <2> HIDE DEF M
  <2> QED
    BY <1>10
<1>13. Ahead(text, 1, M)
  <2> DEFINE t == text
             L == M
  <2>1. /\ Len(t) = Len(L) + 1
        /\ \A k \in 1..(Len(L) - 1) : t[1 + k] = L[k]
        /\ Len(L) \in Nat
    BY <1>11, <1>12
  <2> HIDE DEF t, L
  <2>2. Ahead(t, 1, L)
    BY <2>1 DEF Ahead
  <2> QED
    BY <2>2 DEF t, L
<1>14. text[1].tok = "left_bracket" /\ text[Len(M) + 1].tok = "right_bracket"
  BY <1>11 DEF Mark
<1>15. Len(text) = Len(M) + 1
  BY <1>11
<1> HIDE DEF text
<1>16. PICK y : /\ Reaches(text, 0, Fresh, Len(M), y)
                /\ On(y, 1, <<>>, "after_value",
                      Restrict(v, Gathered(v, <<>>, W)))
  BY <1>8, <1>13, <1>14, NfMembersRead
<1> HIDE DEF M
<1>17. ReadsBack(text, v)
  BY <1>9, <1>12, <1>14, <1>15, <1>16, EndReads
<1> QED
  BY <1>1, <1>17

(* The geoip data behind the other members, and the end.                   *)
LEMMA LastReads ==
    ASSUME NEW v, ValueOK(v), NEW text, NEW l \in Nat,
           NEW val, Len(val) \in Nat,
           Len(text) = (l + 4) + Len(val),
           text[l + 1] = Mark("comma"),
           text[l + 2] = Word(Tag["nf"]["GeoIP"], "exact"),
           text[l + 3] = Mark("colon"),
           \A k \in 1..Len(val) : text[(l + 3) + k] = val[k],
           text[(l + 4) + Len(val)] = Mark("right_bracket"),
           ReadsValue(val, 1, <<>>, "GeoIP", v),
           NEW D, D \subseteq DOMAIN v,
           D \cup Under(v, Append(<<>>, "GeoIP")) = DOMAIN v,
           NEW y, Reaches(text, 0, Fresh, l, y),
           On(y, 1, <<>>, "after_value", Restrict(v, D))
    PROVE  ReadsBack(text, v)
<1> DEFINE n == 1
           path == <<>>
           g == "GeoIP"
           o == l + 1
           e == (l + 3) + Len(val)
           E == D \cup Under(v, Append(path, g))
<1>1. n \in 1..3 /\ g \in FieldsIn(Nested[n]) /\ Nested[n] = "nf"
  BY AlwaysFields DEF Nested
<1>2. /\ o \in Nat /\ Len(text) \in Nat /\ l + 1 <= Len(text)
      /\ o + 1 = l + 2 /\ o + 2 = l + 3
      /\ e \in Nat /\ Len(text) = e + 1 /\ (o + 2) + Len(val) = e
  OBVIOUS
<1>3. PICK x : /\ Reaches(text, l, y, l + 1, x)
               /\ On(x, 1, <<>>, "want_key", Restrict(v, D))
  <2>1. text[l + 1].tok = "comma"
    BY DEF Mark
  <2> DEFINE q == <<>>
  <2>2. On(y, 1, q, "after_value", Restrict(v, D))
    OBVIOUS
  <2> HIDE DEF q
  <2>3. \E x : /\ Reaches(text, l, y, l + 1, x)
               /\ On(x, 1, q, "want_key", Restrict(v, D))
    BY <1>2, <2>1, <2>2, CommaStep
  <2> QED
    BY <2>3 DEF q
<1>4. /\ On(x, n, path, "want_key", Restrict(v, D))
      /\ ReadsValue(val, n, path, g, v)
  BY <1>3
<1>5. /\ text[o + 1] = Word(Tag[Nested[n]][g], "exact")
      /\ text[o + 2] = Mark("colon")
  BY <1>1, <1>2
<1>6. \A k \in 1..Len(val) : text[(o + 2) + k] = val[k]
  BY <1>2
<1>7. text[e + 1].tok = "right_bracket"
  <2>1. e + 1 = (l + 4) + Len(val)
    OBVIOUS
  <2> HIDE DEF e
  <2> QED
    BY <2>1 DEF Mark
<1>8. E = DOMAIN v
  OBVIOUS
<1> HIDE DEF n, path, g, e, E
<1>9. Holds(text, o + 2, val)
  <2> HIDE DEF o
  <2>1. o + 2 \in Nat /\ (o + 2) + Len(val) <= Len(text)
    BY <1>2
  <2> QED
    BY <1>2, <1>6, <2>1 DEF Holds
<1>10. PICK r : /\ Reaches(text, o, x, (o + 2) + Len(val), r)
                /\ On(r, n, path, "after_value", Restrict(v, E))
  <2> HIDE DEF o
  <2> QED
    BY <1>1, <1>2, <1>4, <1>5, <1>9, PairReads DEF E
<1>11. Reaches(text, 0, Fresh, e, r)
  <2>1. Reaches(text, l, y, o, x) /\ Reaches(text, o, x, e, r)
    BY <1>2, <1>3, <1>10
  <2> HIDE DEF o
  <2> QED
    BY <2>1, ReachesOn
<1>12. On(r, 1, <<>>, "after_value", Restrict(v, E))
  BY <1>10 DEF n, path
<1> HIDE DEF o
<1> QED
  BY <1>2, <1>7, <1>8, <1>11, <1>12, EndReads

LEMMA FastReadsBack ==
    ASSUME NEW v, ValueOK(v)
    PROVE  ReadsBack(MarshalNf(v), v)
<1> DEFINE s == "nf"
           put == [g \in Range(EnumNf) |->
                   IF \/ g = "GeoIP"
                      \/ g # "Oobmark" /\ <<g>> \notin DOMAIN v
                   THEN <<>> ELSE PutNf(v, g)]
           W == {g \in FieldsIn(s) : /\ g # "GeoIP"
                                     /\ g = "Oobmark" \/ <<g>> \in DOMAIN v}
           S == TokensOf(v)
           M == Members(s, put)
           val == MarshalGeoIP(v, <<"GeoIP">>)
           last == Pair(Tag[s]["GeoIP"], val)
           all == M \o last
           text == Braced(all)
<1>1. MarshalNf(v) = text
  <2>1. EncodeNf["GeoIP"].key = Tag["nf"]["GeoIP"]
    BY AlwaysFields, EncodedKeys
  <2> QED
    BY <2>1 DEF MarshalNf
<1>2. val \in Seq(S) /\ ReadsValue(val, 1, <<>>, "GeoIP", v)
  BY FastGeoIPReads, GeoIPIsText
<1>3. /\ s \in Structs /\ Nested[1] = s
      /\ Enum[s] = EnumNf /\ Encoded[s] = EncodeNf
  BY DEF Structs, Nested, Enum, Encoded
<1>4. ASSUME NEW g \in FieldsIn(s)
      PROVE  /\ g \in W => \E x \in Seq(S) :
                   put[g] = Put(Tag[s][g], x) /\ ReadsValue(x, 1, <<>>, g, v)
             /\ g \notin W => put[g] = <<>>
             /\ g \notin W /\ g # "GeoIP" => Under(v, Append(<<>>, g)) = {}
  <2> DEFINE quoted == EncodeNf[g].conv = "WriteJsonString"
             x == <<ValueToken(quoted, v, <<g>>)>>
             kind == Handler[s][g]
  <2>1. put[g] = IF g \notin W THEN <<>> ELSE PutNf(v, g)
    BY <1>3, <1>4 DEF FieldsIn
  <2>2. g \notin W /\ g # "GeoIP" => <<g>> \notin DOMAIN v
    BY <1>4
  <2>3. g \in W => g # "GeoIP"
    OBVIOUS
  <2> HIDE DEF put, W
  <2>4. PutNf(v, g) = Put(Tag[s][g], x)
    BY <1>4, EncodedKeys DEF PutNf
  <2>5. EncodeNf[g].conv = "WriteJsonString" <=> kind \in {"*string", "string"}
    BY <1>3, <1>4, ScalarKinds
  <2>6. kind # "*esGeoIPLocation"
    BY <1>3, <1>4, Kinds
  <2>7. g # "GeoIP" =>
           /\ \A u : WrittenValue(u, 1, <<>>, g, v) =>
                 u \in Seq(S) /\ ReadsValue(u, 1, <<>>, g, v)
           /\ <<g>> \notin DOMAIN v => Under(v, Append(<<>>, g)) = {}
    BY <1>4, NfValueReads
  <2>8. Append(<<>>, g) = <<g>>
    OBVIOUS
  <2>9. quoted <=> kind \in {"*string", "string"}
    BY <2>5
  <2> HIDE DEF quoted, kind, S
  <2>10. x = <<ValueToken(quoted, v, Append(<<>>, g))>>
    BY <2>8
  <2> HIDE DEF x
  <2>11. WrittenValue(x, 1, <<>>, g, v)
    BY <1>3, <2>6, <2>9, <2>10 DEF WrittenValue, kind
  <2> QED
    BY <2>1, <2>2, <2>3, <2>4, <2>7, <2>11
<1>5. NfLists(put, v, W)
  <2>1. "Oobmark" \in W /\ W \subseteq FieldsIn("nf")
    BY AlwaysFields
  <2> HIDE DEF W, put
  <2>2. Lists(put, 1, <<>>, v, W)
    BY <1>3, <1>4 DEF Lists
  <2> QED
    BY <2>1, <2>2 DEF NfLists
<1>6. /\ Gathered(v, <<>>, W) \cup Under(v, Append(<<>>, "GeoIP")) = DOMAIN v
      /\ Gathered(v, <<>>, W) \subseteq DOMAIN v
  <2> DEFINE V == W \cup {"GeoIP"}
  <2>1. V \in SUBSET FieldsIn("nf")
    BY AlwaysFields
  <2>2. \A g \in FieldsIn("nf") \ V : Under(v, Append(<<>>, g)) = {}
    <3> HIDE DEF W, put
    <3> QED
      BY <1>4
  <2>3. Gathered(v, <<>>, V) = Gathered(v, <<>>, W)
                               \cup Under(v, Append(<<>>, "GeoIP"))
    <3> HIDE DEF W
    <3> QED
      BY DEF Gathered
  <2> HIDE DEF V, W
  <2>4. Gathered(v, <<>>, V) = DOMAIN v
    BY <2>1, <2>2, OfNfGathered
  <2> QED
    BY <2>3, <2>4
<1> HIDE DEF put, W, val
<1>7. M \in Seq(S) /\ Len(M) > 0
  <2> DEFINE n == 1
  <2>1. /\ n \in 1..3 /\ W # {} /\ W \subseteq FieldsIn(Nested[n])
        /\ Lists(put, n, <<>>, v, W) /\ Nested[n] = "nf"
    BY <1>3, <1>5 DEF NfLists
  <2> HIDE DEF n
  <2>2. LET L == Members(Nested[n], put)
        IN  L \in Seq(TokensOf(v)) /\ Len(L) > 0
    BY <2>1, ListedText
  <2> QED
    BY <2>1, <2>2
<1>8. /\ last \in Seq(S)
      /\ Len(last) = 2 + Len(val)
      /\ last[1] = Word(Tag[s]["GeoIP"], "exact")
      /\ last[2] = Mark("colon")
      /\ \A k \in 1..Len(val) : last[2 + k] = val[k]
  <2> DEFINE g == "GeoIP"
  <2>1. g \in FieldsIn(s) /\ val \in Seq(TokensOf(v))
    BY <1>2, AlwaysFields
  <2> HIDE DEF g
  <2>2. /\ Pair(Tag[s][g], val) \in Seq(TokensOf(v))
        /\ Len(Pair(Tag[s][g], val)) = 2 + Len(val)
        /\ Pair(Tag[s][g], val)[1] = Word(Tag[s][g], "exact")
        /\ Pair(Tag[s][g], val)[2] = Mark("colon")
        /\ \A k \in 1..Len(val) : Pair(Tag[s][g], val)[2 + k] = val[k]
    BY <1>3, <2>1, PairIsText
  <2> QED
    BY <2>2 DEF g
<1> DEFINE l == Len(M)
           c == Len(val)
<1>9. l \in Nat /\ c \in Nat /\ l > 0
  <2>1. \A q : q \in Seq(S) => Len(q) \in Nat
    OBVIOUS
  <2> HIDE DEF M, S
  <2> QED
    BY <1>2, <1>7, <2>1
<1>10. /\ all \in Seq(S)
       /\ Len(all) = l + Len(last)
       /\ \A k \in 1..l : all[k] = M[k]
       /\ \A k \in 1..Len(last) : all[l + k] = last[k]
  <2> HIDE DEF M, S, last
  <2>1. M \in Seq(S) /\ last \in Seq(S)
    BY <1>7, <1>8
  <2> QED
    BY <2>1, Joined
<1>11. /\ Len(text) = Len(all) + 2
       /\ text[1] = Mark("left_bracket")
       /\ \A k \in 1..Len(all) : text[1 + k] = all[k]
       /\ text[Len(all) + 2] = Mark("right_bracket")
  <2>1. all \in Seq(TokensOf(v))
    BY <1>10
  <2> HIDE DEF all
  <2> QED
    BY <2>1, BracedIsText
<1> HIDE DEF text, all, last
<1>12. Len(all) = l + (2 + c) /\ Len(text) = (l + 4) + c
  <2> HIDE DEF l, c
  <2>1. Len(all) = l + (2 + c)
    BY <1>8, <1>10 DEF c
  <2> QED
    BY <1>9, <1>11, <2>1
<1>13. \A k \in 1..l : text[1 + k] = M[k]
  <2> HIDE DEF l, c, M
  <2> TAKE k \in 1..l
  <2>1. k \in 1..Len(all)
    BY <1>9, <1>12
  <2> QED
    BY <1>10, <1>11, <2>1
<1>14. \A k \in 1..(2 + c) : text[(l + 1) + k] = last[k]
  <2> HIDE DEF l, M
  <2> TAKE k \in 1..(2 + c)
  <2>1. k \in 1..Len(last)
    BY <1>8
  <2>2. all[l + k] = last[k]
    BY <1>10, <2>1
  <2> HIDE DEF c
  <2>3. l + k \in 1..Len(all) /\ 1 + (l + k) = (l + 1) + k
    BY <1>9, <1>12
  <2>4. text[1 + (l + k)] = all[l + k]
    BY <1>11, <2>3
  <2> QED
    BY <2>2, <2>3, <2>4
<1>15. Ahead(text, 1, M)
  <2>1. Len(text) \in Nat /\ 1 + l <= Len(text) + 1
    <3> HIDE DEF l, c
    <3> QED
      BY <1>9, <1>12
  <2>2. \A k \in 1..(l - 1) : text[1 + k] = M[k]
    <3> HIDE DEF l, M
    <3>1. \A k \in 1..(l - 1) : k \in 1..l
      BY <1>9
    <3> QED
      BY <1>13, <3>1
  <2> HIDE DEF M
  <2> QED
    BY <1>9, <2>1, <2>2 DEF Ahead
<1>16. text[1].tok = "left_bracket"
  BY <1>11 DEF Mark
<1>17. PICK y : /\ M[l] = Mark("comma")
                /\ Reaches(text, 0, Fresh, l, y)
                /\ On(y, 1, <<>>, "after_value",
                      Restrict(v, Gathered(v, <<>>, W)))
  BY <1>5, <1>15, <1>16, NfMembersRead
<1> HIDE DEF l, c, M
<1>18. text[l + 1] = Mark("comma")
  <2>1. l \in 1..l /\ 1 + l = l + 1
    BY <1>9
  <2> QED
    BY <1>13, <1>17, <2>1
<1>19. /\ text[l + 2] = Word(Tag["nf"]["GeoIP"], "exact")
       /\ text[l + 3] = Mark("colon")
  <2>1. /\ 1 \in 1..(2 + c) /\ 2 \in 1..(2 + c)
        /\ (l + 1) + 1 = l + 2 /\ (l + 1) + 2 = l + 3
    BY <1>9
  <2>2. text[l + 2] = last[1] /\ text[l + 3] = last[2]
    BY <1>14, <2>1
  <2> QED
    BY <1>8, <2>2
<1>20. \A k \in 1..Len(val) : text[(l + 3) + k] = val[k]
  <2> TAKE k \in 1..Len(val)
  <2>1. last[2 + k] = val[k]
    BY <1>8
  <2>2. k \in 1..c
    BY DEF c
  <2>3. 2 + k \in 1..(2 + c) /\ (l + 1) + (2 + k) = (l + 3) + k
    BY <1>9, <2>2
  <2>4. text[(l + 1) + (2 + k)] = last[2 + k]
    BY <1>14, <2>3
  <2> QED
    BY <2>1, <2>3, <2>4
<1>21. /\ Len(text) = (l + 4) + Len(val)
       /\ text[(l + 4) + Len(val)] = Mark("right_bracket")
  <2>1. Len(all) + 2 = (l + 4) + c
    BY <1>9, <1>12
  <2>2. text[(l + 4) + c] = Mark("right_bracket")
    BY <1>11, <2>1
  <2> QED
    BY <1>12, <2>2 DEF c
<1>22. l \in Nat /\ Len(val) \in Nat
  BY <1>9 DEF c
<1> DEFINE D == Gathered(v, <<>>, W)
<1>23. /\ D \cup Under(v, Append(<<>>, "GeoIP")) = DOMAIN v
       /\ D \subseteq DOMAIN v
       /\ On(y, 1, <<>>, "after_value", Restrict(v, D))
  BY <1>6, <1>17
<1> HIDE DEF D
<1>24. ReadsBack(text, v)
  BY <1>2, <1>17, <1>18, <1>19, <1>20, <1>21, <1>22, <1>23, LastReads
<1> QED
  BY <1>1, <1>24

(* What an nf is marshalled to is read back as that nf.                    *)
LEMMA MarshalReadsBack ==
    ASSUME NEW v, ValueOK(v), NEW encoder
    PROVE  ReadsBack(Marshal(v, encoder), v)
BY StdReadsBack, FastReadsBack DEF Marshal

-----------------------------------------------------------------------------
(* Whatever is read, nf stays well formed.                                 *)
LEMMA ClearedOK ==
    ASSUME NEW v, ValueOK(v), NEW at, NEW n, NEW path, NEW g,
           IsField(at, n, path, g)
    PROVE  /\ ValueOK(Cleared(v, at))
           /\ path \in DOMAIN v => path \in DOMAIN Cleared(v, at)
<1> DEFINE D == {p \in DOMAIN v : ~ IsPrefix(at, p)}
           w == Cleared(v, at)
<1>1. /\ DOMAIN w = D
      /\ w = [p \in DOMAIN w |-> w[p]]
      /\ \A p \in D : w[p] = v[p]
  BY DEF Cleared, Restrict
<1>2. /\ at \in Seq(Names) /\ Len(at) = n /\ n \in 1..3
      /\ path \in Seq(Names) /\ Len(path) = n - 1
  BY FieldParts
<1>3. ~ IsPrefix(at, path)
  <2>1. ~ (Len(at) <= Len(path))
    BY <1>2
  <2> QED
    BY <1>2, <2>1, PrefixIs
<1>4. ASSUME NEW p \in DOMAIN v, NEW m, NEW q, NEW h, IsField(p, m, q, h),
             IsPrefix(at, q)
      PROVE  IsPrefix(at, p)
  <2>1. /\ p \in Seq(Names) /\ Len(p) = m /\ m \in 1..3
        /\ q \in Seq(Names) /\ Len(q) = m - 1
        /\ \A k \in 1..(m - 1) : p[k] = q[k]
    BY <1>4, FieldParts
  <2>2. n <= m - 1 /\ \A k \in 1..n : at[k] = q[k]
    BY <1>2, <1>4, <2>1, PrefixIs
  <2>3. n <= m /\ \A k \in 1..n : at[k] = p[k]
    BY <1>2, <2>1, <2>2
  <2>4. Len(at) <= Len(p) /\ \A k \in 1..Len(at) : at[k] = p[k]
    BY <1>2, <2>1, <2>3
  <2> QED
    BY <1>2, <2>1, <2>4, PrefixIs
<1> HIDE DEF w
<1>5. ASSUME NEW p \in DOMAIN w
      PROVE  \E m, q, h : /\ IsField(p, m, q, h)
                          /\ Fitting(Handler[Nested[m]][h], w[p])
                          /\ m = 3 => q \in DOMAIN w
  <2>1. p \in DOMAIN v /\ ~ IsPrefix(at, p) /\ w[p] = v[p]
    BY <1>1
  <2>2. PICK m, q, h : /\ IsField(p, m, q, h)
                       /\ Fitting(Handler[Nested[m]][h], v[p])
                       /\ m = 3 => q \in DOMAIN v
    BY <2>1 DEF ValueOK
  <2>3. m = 3 => q \in DOMAIN w
    BY <1>1, <1>4, <2>1, <2>2
  <2> QED
    BY <2>1, <2>2, <2>3
<1>6. ValueOK(w)
  BY <1>1, <1>5 DEF ValueOK
<1> QED
  BY <1>1, <1>3, <1>6 DEF w

(* The text fits the field at this path.                                   *)
Assignable(v, at, text) ==
    \E n, path, g : /\ IsField(at, n, path, g)
                    /\ Fitting(Handler[Nested[n]][g], text)
                    /\ n = 3 => path \in DOMAIN v

LEMMA AssignedOK ==
    ASSUME NEW v, ValueOK(v), NEW at, NEW text, Assignable(v, at, text)
    PROVE  /\ ValueOK(Assigned(v, at, text))
           /\ DOMAIN Assigned(v, at, text) = DOMAIN v \cup {at}
<1>1. PICK n, path, g : /\ IsField(at, n, path, g)
                        /\ Fitting(Handler[Nested[n]][g], text)
                        /\ n = 3 => path \in DOMAIN v
  BY DEF Assignable
<1> DEFINE w == Assigned(v, at, text)
<1>2. /\ DOMAIN w = DOMAIN v \cup {at}
      /\ w = [p \in DOMAIN w |-> w[p]]
      /\ w[at] = text
      /\ \A p \in DOMAIN v : p # at => w[p] = v[p]
  BY DEF Assigned, Over
<1> HIDE DEF w
<1>3. ASSUME NEW p \in DOMAIN w
      PROVE  \E m, q, h : /\ IsField(p, m, q, h)
                          /\ Fitting(Handler[Nested[m]][h], w[p])
                          /\ m = 3 => q \in DOMAIN w
  <2>1. CASE p = at
    BY <1>1, <1>2, <2>1
  <2>2. CASE p # at
    <3>1. p \in DOMAIN v /\ w[p] = v[p]
      BY <1>2, <2>2
    <3>2. PICK m, q, h : /\ IsField(p, m, q, h)
                         /\ Fitting(Handler[Nested[m]][h], v[p])
                         /\ m = 3 => q \in DOMAIN v
      BY <3>1 DEF ValueOK
    <3> QED
      BY <1>2, <3>1, <3>2
  <2> QED
    BY <2>1, <2>2
<1>4. ValueOK(w)
  BY <1>2, <1>3 DEF ValueOK
<1> QED
  BY <1>2, <1>4 DEF w

(* The struct behind a pointer is there while its fields are read.         *)
Settled(z) ==
    /\ StackOK(z.frames)
    /\ ValueOK(z.value)
    /\ Len(z.frames) = 3 => TopOf(z.frames).path \in DOMAIN z.value

LEMMA MovedSettled ==
    ASSUME NEW z, Settled(z), NEW gs, NEW fr, Moved(z.frames, gs, fr),
           fr.path = TopOf(z.frames).path, NEW u, ValueOK(u), NEW out,
           Len(z.frames) = 3 => TopOf(z.frames).path \in DOMAIN u
    PROVE  Settled(At3(gs, u, out))
<1>1. /\ At3(gs, u, out).frames = gs
      /\ At3(gs, u, out).value = u
  BY DEF At3
<1>2. StackOK(gs) /\ Len(gs) = Len(z.frames) /\ TopOf(gs) = fr
  BY DEF Moved
<1> QED
  BY <1>1, <1>2 DEF Settled

LEMMA GoneSettled ==
    ASSUME NEW z, Settled(z), NEW state \in {"want_key", "want_value",
                                             "after_value"},
           state = "want_value" => TopOf(z.frames).key # "base",
           NEW u, ValueOK(u),
           Len(z.frames) = 3 => TopOf(z.frames).path \in DOMAIN u
    PROVE  Settled(Gone(z, state, u))
<1> DEFINE fs == z.frames
           fr == With(TopOf(fs), state, TopOf(fs).key, TopOf(fs).open,
                      TopOf(fs).depth)
<1>1. Moved(fs, Goes(fs, state), fr)
  <2>1. state \in States \ {"skip"} /\ StackOK(fs)
    BY DEF States, Settled
  <2> QED
    BY <2>1, StackGoes
<1>2. fr.path = TopOf(fs).path
  BY DEF With
<1> HIDE DEF fr
<1> QED
  BY <1>1, <1>2, MovedSettled DEF Gone

LEMMA FailedSettled ==
    ASSUME NEW z, Settled(z)
    PROVE  Settled(Failed(z))
<1>1. Failed(z).frames = z.frames /\ Failed(z).value = z.value
  BY DEF Failed, At3
<1> QED
  BY <1>1 DEF Settled

LEMMA ReturnedSettled ==
    ASSUME NEW z, Settled(z)
    PROVE  Settled(Returned(z))
<1>1. CASE Len(z.frames) = 1
  <2>1. Returned(z).frames = z.frames /\ Returned(z).value = z.value
    BY <1>1 DEF Returned, At3
  <2> QED
    BY <2>1 DEF Settled
<1>2. CASE Len(z.frames) # 1
  <2>1. Reading(Leaves(z.frames), "after_value", Len(z.frames) - 1)
    BY <1>2, LeavesReading DEF Settled
  <2>2. Returned(z).frames = Leaves(z.frames) /\ Returned(z).value = z.value
    BY <1>2 DEF Returned, At3
  <2>3. Len(z.frames) \in 1..3
    BY TopOK DEF Settled
  <2>4. StackOK(Leaves(z.frames)) /\ Len(Leaves(z.frames)) = Len(z.frames) - 1
    BY <2>1 DEF Reading
  <2>5. Len(Leaves(z.frames)) # 3
    <3> DEFINE n == Len(z.frames)
               m == Len(Leaves(z.frames))
    <3>1. n \in 1..3 /\ m = n - 1
      BY <2>3, <2>4
    <3> HIDE DEF n, m
    <3>2. m # 3
      BY <3>1
    <3> QED
      BY <3>2 DEF m
  <2> QED
    BY <2>2, <2>4, <2>5 DEF Settled
<1> QED
  BY <1>1, <1>2

LEMMA SkipsSettled ==
    ASSUME NEW z, Settled(z), NEW open \in {"left_bracket", "left_brace"},
           NEW depth \in Nat, depth > 0
    PROVE  Settled(At3(Skips(z.frames, open, depth), z.value, "scanning"))
<1> DEFINE fs == z.frames
           fr == With(TopOf(fs), "skip", TopOf(fs).key, open, depth)
<1>1. Moved(fs, Skips(fs, open, depth), fr)
  BY StackSkips DEF Settled
<1>2. fr.path = TopOf(fs).path
  BY DEF With
<1> HIDE DEF fr
<1> QED
  BY <1>1, <1>2, MovedSettled DEF Settled

(* A number with a fraction is no integer.                                 *)
Spelt(t) == t.tok = "integer" => t.text # "1.5"

LEMMA MarkSettled ==
    ASSUME NEW z, Settled(z), NEW t,
           TopOf(z.frames).state \in {"map_start", "after_value", "want_colon"}
    PROVE  Settled(After(z, t))
<1>1. ValueOK(z.value) /\ StackOK(z.frames)
      /\ (Len(z.frames) = 3 => TopOf(z.frames).path \in DOMAIN z.value)
  BY DEF Settled
<1>2. Settled(Gone(z, "want_key", z.value)) /\ Settled(Failed(z))
  BY <1>1, GoneSettled, FailedSettled
<1>3. Settled(Returned(z))
  BY ReturnedSettled
<1>4. TopOf(z.frames).state = "want_colon" =>
         Settled(Gone(z, "want_value", z.value))
  <2>1. TopOf(z.frames).state = "want_colon" => TopOf(z.frames).key # "base"
    BY <1>1, TopParts
  <2> QED
    BY <1>1, <2>1, GoneSettled
<1> QED
  BY <1>2, <1>3, <1>4 DEF After, FromMapStart, FromAfterValue, FromWantColon

LEMMA KeySettled ==
    ASSUME NEW z, Settled(z), NEW t, TopOf(z.frames).state = "want_key"
    PROVE  Settled(After(z, t))
<1> DEFINE fs == z.frames
           key == FieldOf(TopOf(fs).struct, t)
           fr == With(TopOf(fs), "want_colon", key, TopOf(fs).open,
                      TopOf(fs).depth)
<1>1. Settled(Failed(z)) /\ Settled(Returned(z))
  BY FailedSettled, ReturnedSettled
<1>2. /\ ValueOK(z.value) /\ StackOK(fs)
      /\ Len(fs) = 3 => TopOf(fs).path \in DOMAIN z.value
  BY DEF Settled
<1>3. key \in FieldsIn(TopOf(fs).struct) \cup {"no_such_key"} /\ key # "base"
  <2>1. TopOf(fs).struct \in Structs
    BY <1>2, TopParts
  <2>2. key \in FieldsIn(TopOf(fs).struct) \cup {"no_such_key"}
    BY <2>1, FieldFound
  <2>3. "base" \notin FieldsIn(TopOf(fs).struct)
    BY <2>1, ListingsAgree
  <2> QED
    BY <2>2, <2>3
<1> HIDE DEF key
<1>4. Moved(fs, Knows(fs, key), fr)
  BY <1>2, <1>3, StackKnows
<1>5. fr.path = TopOf(fs).path
  BY DEF With
<1> HIDE DEF fr
<1>6. Settled(At3(Knows(fs, key), z.value, "scanning"))
  BY <1>2, <1>4, <1>5, MovedSettled
<1> QED
  BY <1>1, <1>6 DEF After, FromWantKey, key

LEMMA SkipSettled ==
    ASSUME NEW z, Settled(z), NEW t, TopOf(z.frames).state = "skip"
    PROVE  Settled(After(z, t))
<1> DEFINE top == TopOf(z.frames)
<1>1. /\ ValueOK(z.value) /\ StackOK(z.frames)
      /\ Len(z.frames) = 3 => top.path \in DOMAIN z.value
  BY DEF Settled
<1>2. /\ top.depth \in Nat
      /\ top.depth > 0
      /\ top.open \in {"left_bracket", "left_brace"}
  BY <1>1, TopParts
<1>3. Settled(Gone(z, "after_value", z.value)) /\ Settled(Failed(z))
  BY <1>1, GoneSettled, FailedSettled
<1>4. Settled(At3(Skips(z.frames, top.open, top.depth + 1), z.value,
                  "scanning"))
  <2>1. top.depth + 1 \in Nat /\ top.depth + 1 > 0
    BY <1>2
  <2> QED
    BY <1>2, <2>1, SkipsSettled
<1>5. top.depth # 1 =>
         Settled(At3(Skips(z.frames, top.open, top.depth - 1), z.value,
                     "scanning"))
  <2>1. top.depth # 1 => top.depth - 1 \in Nat /\ top.depth - 1 > 0
    BY <1>2
  <2> QED
    BY <1>2, <2>1, SkipsSettled
<1>6. After(z, t) = FromSkip(z, t)
  BY DEF After
<1> QED
  BY <1>3, <1>4, <1>5, <1>6 DEF FromSkip

LEMMA ScalarSettled ==
    ASSUME NEW z, Settled(z), NEW t, Spelt(t),
           NEW at, NEW n, n = Len(z.frames),
           IsField(at, n, TopOf(z.frames).path, TopOf(z.frames).key),
           NEW kind, kind = Handler[Nested[n]][TopOf(z.frames).key],
           kind \notin {"esGeoIP", "*esGeoIPLocation"}
    PROVE  Settled(ReadScalar(z, t, kind, at))
<1> DEFINE v == z.value
           path == TopOf(z.frames).path
           g == TopOf(z.frames).key
<1>1. /\ ValueOK(v) /\ StackOK(z.frames)
      /\ n = 3 => path \in DOMAIN v
  BY DEF Settled
<1>2. kind \in {"*int", "*float64", "*string", "string"}
  BY FieldKinds
<1>3. Settled(Failed(z)) /\ Settled(Gone(z, "after_value", v))
  BY <1>1, FailedSettled, GoneSettled
<1>4. Settled(Gone(z, "after_value", Cleared(v, at)))
  <2>1. ValueOK(Cleared(v, at)) /\ (n = 3 => path \in DOMAIN Cleared(v, at))
    BY <1>1, ClearedOK
  <2> QED
    BY <2>1, GoneSettled
<1>5. ASSUME t.tok \in Accepts[kind], t.text # "out_of_range",
             ~ (kind = "string" /\ t.text = "empty")
      PROVE  Settled(Gone(z, "after_value", Assigned(v, at, t.text)))
  <2>1. kind = "*int" => t.text # "1.5"
    BY <1>5, AcceptsIs DEF Spelt
  <2>2. Fitting(kind, t.text)
    BY <1>2, <1>5, <2>1 DEF Fitting
  <2> DEFINE text == t.text
             u == Assigned(v, at, text)
  <2>3. ValueOK(u) /\ DOMAIN u = DOMAIN v \cup {at}
    <3>1. Fitting(Handler[Nested[n]][g], text) /\ IsField(at, n, path, g)
      BY <2>2
    <3> HIDE DEF text, v, path, g
    <3>2. Assignable(v, at, text)
      BY <1>1, <3>1 DEF Assignable
    <3> QED
      BY <1>1, <3>2, AssignedOK
  <2> HIDE DEF u
  <2>4. n = 3 => path \in DOMAIN u
    BY <1>1, <2>3
  <2>5. Settled(Gone(z, "after_value", u))
    BY <2>3, <2>4, GoneSettled
  <2> QED
    BY <2>5 DEF u
<1> QED
  BY <1>3, <1>4, <1>5 DEF ReadScalar

LEMMA FieldSettled ==
    ASSUME NEW z, Settled(z), NEW t, Spelt(t),
           TopOf(z.frames).state = "want_value",
           TopOf(z.frames).key # "no_such_key"
    PROVE  Settled(ReadField(z, t, Kind(TopOf(z.frames)),
                             FieldAt(TopOf(z.frames))))
<1> DEFINE fs == z.frames
           top == TopOf(fs)
           n == Len(fs)
           at == FieldAt(top)
           kind == Kind(top)
           v == z.value
<1>1. /\ ValueOK(v) /\ StackOK(fs)
      /\ n = 3 => top.path \in DOMAIN v
  BY DEF Settled
<1>2. /\ top.struct = Nested[n]
      /\ top.path \in PathsAt(n)
      /\ n \in 1..3
  BY <1>1, TopParts, TopOK
<1>3. /\ top.key \in FieldsIn(top.struct)
      /\ at = Append(top.path, top.key)
      /\ kind = Handler[top.struct][top.key]
      /\ kind = "esGeoIP" => n = 1 /\ at \in PathsAt(2)
      /\ kind = "*esGeoIPLocation" => n = 2 /\ at \in PathsAt(3)
  BY <1>1, KnownField
<1> HIDE DEF at, kind
<1>4. IsField(at, n, top.path, top.key)
  BY <1>2, <1>3 DEF IsField
<1>5. kind = Handler[Nested[n]][top.key]
  BY <1>2, <1>3
<1>6. Settled(Gone(z, "after_value", v)) /\ Settled(Failed(z))
  BY <1>1, FailedSettled, GoneSettled
<1>7. ASSUME NEW k \in {1, 2}, n = k, at \in PathsAt(k + 1), NEW s,
             s = Nested[k + 1], NEW u, ValueOK(u),
             k = 2 => at \in DOMAIN u
      PROVE  Settled(At3(Enters(fs, s, at), u, "scanning"))
  <2> DEFINE gs == Enters(fs, Nested[n + 1], at)
             hs == Enters(fs, s, at)
  <2>1. n < 3 /\ at \in PathsAt(n + 1) /\ s = Nested[n + 1]
    BY <1>7
  <2>2. /\ StackOK(gs)
        /\ Len(gs) = n + 1
        /\ TopOf(gs) = Frame(Nested[n + 1], "want_key", at)
    BY <1>1, <2>1, StackEnters
  <2>3. Frame(Nested[n + 1], "want_key", at).path = at
    BY DEF Frame
  <2>4. hs = gs
    BY <2>1
  <2> HIDE DEF gs, hs
  <2>5. StackOK(hs) /\ Len(hs) = n + 1 /\ TopOf(hs).path = at
    BY <2>2, <2>3, <2>4
  <2>6. Len(hs) = 3 => TopOf(hs).path \in DOMAIN u
    <3> DEFINE l == Len(hs)
               m == n
    <3>1. l = m + 1 /\ m = k
      BY <1>7, <2>5
    <3> HIDE DEF l, m
    <3>2. l = 3 => k = 2
      BY <3>1
    <3> QED
      BY <1>7, <2>5, <3>2 DEF l
  <2>7. At3(hs, u, "scanning").frames = hs /\ At3(hs, u, "scanning").value = u
    BY DEF At3
  <2>8. Settled(At3(hs, u, "scanning"))
    BY <1>7, <2>5, <2>6, <2>7 DEF Settled
  <2> QED
    BY <2>8 DEF hs
<1>8. CASE kind = "esGeoIP"
  <2>1. n = 1 /\ at \in PathsAt(1 + 1) /\ "esGeoIP" = Nested[1 + 1]
    BY <1>3, <1>8 DEF Nested
  <2>2. Settled(At3(Enters(fs, "esGeoIP", at), v, "scanning"))
    BY <1>1, <1>7, <2>1
  <2> QED
    BY <1>6, <1>8, <2>2 DEF ReadField, ReadStruct, kind, at
<1>9. CASE kind = "*esGeoIPLocation"
  <2>1. n = 2 /\ at \in PathsAt(2 + 1) /\ "esGeoIPLocation" = Nested[2 + 1]
    BY <1>3, <1>9 DEF Nested
  <2> DEFINE u == IF at \in DOMAIN v THEN v ELSE Assigned(v, at, "new")
             w == Assigned(v, at, "new")
  <2>2. ValueOK(w) /\ DOMAIN w = DOMAIN v \cup {at}
    <3>1. Fitting(Handler[Nested[n]][top.key], "new")
      BY <1>5, <1>9 DEF Fitting
    <3> DEFINE text == "new"
               g == top.key
               path == top.path
    <3>2. /\ Fitting(Handler[Nested[n]][g], text) /\ IsField(at, n, path, g)
          /\ n = 3 => path \in DOMAIN v
      BY <1>1, <1>4, <3>1
    <3> HIDE DEF text, g, path, n, v, w
    <3>3. ValueOK(Assigned(v, at, text))
          /\ DOMAIN Assigned(v, at, text) = DOMAIN v \cup {at}
      <4>1. Assignable(v, at, text)
        BY <3>2 DEF Assignable
      <4> QED
        BY <1>1, <4>1, AssignedOK
    <3> QED
      BY <3>3 DEF text, w
  <2>3. ValueOK(u) /\ at \in DOMAIN u
    <3> HIDE DEF w
    <3>1. u = IF at \in DOMAIN v THEN v ELSE w
      BY DEF w
    <3> QED
      BY <1>1, <2>2, <3>1
  <2>4. Settled(At3(Enters(fs, "esGeoIPLocation", at), u, "scanning"))
    <3> HIDE DEF u
    <3> QED
      BY <1>7, <2>1, <2>3
  <2>5. Settled(Gone(z, "after_value", Cleared(v, at)))
    <3>1. /\ ValueOK(Cleared(v, at))
          /\ n = 3 => top.path \in DOMAIN Cleared(v, at)
      BY <1>1, <1>4, ClearedOK
    <3> QED
      BY <3>1, GoneSettled
  <2> QED
    BY <1>9, <2>4, <2>5 DEF ReadField, ReadPointer, kind, at
<1>10. CASE kind \notin {"esGeoIP", "*esGeoIPLocation"}
  <2>1. Settled(ReadScalar(z, t, kind, at))
    BY <1>4, <1>5, <1>10, ScalarSettled
  <2> QED
    BY <1>10, <2>1 DEF ReadField, kind, at
<1> QED
  BY <1>8, <1>9, <1>10

LEMMA AfterSettled ==
    ASSUME NEW z, Settled(z), NEW t, Spelt(t)
    PROVE  Settled(After(z, t))
<1> DEFINE state == TopOf(z.frames).state
<1>1. ValueOK(z.value) /\ StackOK(z.frames)
      /\ (Len(z.frames) = 3 => TopOf(z.frames).path \in DOMAIN z.value)
  BY DEF Settled
<1>2. state \in States
  BY <1>1, TopParts
<1>3. CASE state \in {"map_start", "after_value", "want_colon"}
  BY <1>3, MarkSettled
<1>4. CASE state = "want_key"
  BY <1>4, KeySettled
<1>5. CASE state = "skip"
  BY <1>5, SkipSettled
<1>6. CASE state = "want_value"
  <2>1. After(z, t) = FromWantValue(z, t)
    BY <1>6 DEF After
  <2>2. Settled(Failed(z)) /\ Settled(Gone(z, "after_value", z.value))
    BY <1>1, FailedSettled, GoneSettled
  <2>3. Settled(ReadUnknown(z, t))
    <3>1. t.tok \in {"left_bracket", "left_brace"} =>
             Settled(At3(Skips(z.frames, t.tok, 1), z.value, "scanning"))
      BY SkipsSettled
    <3> QED
      BY <2>2, <3>1 DEF ReadUnknown
  <2>4. TopOf(z.frames).key # "no_such_key" =>
           Settled(ReadField(z, t, Kind(TopOf(z.frames)),
                             FieldAt(TopOf(z.frames))))
    BY <1>6, FieldSettled
  <2> QED
    BY <2>1, <2>2, <2>3, <2>4 DEF FromWantValue
<1> QED
  BY <1>2, <1>3, <1>4, <1>5, <1>6 DEF States

-----------------------------------------------------------------------------
(* The fields that parseLine looks at, and those it assigns.               *)
LEMMA LastListed ==
    \A k \in 1..43 : EnumFromReplyipdaddrstr[k] \in FieldsIn("nf")
<1> DEFINE a == EnumFromAhespspi
           b == EnumFromIpttl
           c == EnumFromReplyipdaddrstr
<1>1. /\ a = [i \in 1..43 |-> a[i]]
      /\ b = [i \in 1..43 |-> b[i]]
      /\ c = [i \in 1..43 |-> c[i]]
  BY DEF EnumFromAhespspi, EnumFromIpttl, EnumFromReplyipdaddrstr
<1> HIDE DEF a, b, c
<1> DEFINE S == Range(a) \cup Range(b) \cup Range(c)
<1>2. /\ a \in Seq(Range(a)) /\ Len(a) = 43
      /\ b \in Seq(Range(b)) /\ Len(b) = 43
      /\ c \in Seq(Range(c)) /\ Len(c) = 43
  <2>1. \A s : s = [i \in 1..43 |-> s[i]] => s \in Seq(Range(s)) /\ Len(s) = 43
    BY IsSequence
  <2> QED
    BY <1>1, <2>1
<1>3. a \in Seq(S) /\ b \in Seq(S) /\ c \in Seq(S)
  BY <1>2
<1> HIDE DEF S
<1> DEFINE d == a \o b
<1>4. d \in Seq(S) /\ Len(d) = 86
  <2>1. d \in Seq(S) /\ Len(d) = Len(a) + Len(b)
    BY <1>3, Joined
  <2> HIDE DEF d
  <2> QED
    BY <1>2, <2>1
<1> HIDE DEF d
<1> DEFINE e == d \o c
<1>5. /\ e \in Seq(S) /\ Len(e) = Len(d) + Len(c)
      /\ \A k \in 1..Len(c) : e[Len(d) + k] = c[k]
  <2>1. d \in Seq(S) /\ c \in Seq(S)
    BY <1>3, <1>4
  <2> QED
    BY <2>1, Joined
<1>6. EnumNf = e
  BY DEF EnumNf, a, b, c, d
<1> HIDE DEF e
<1>7. ASSUME NEW k \in 1..43
      PROVE  c[k] \in Range(EnumNf)
  <2>1. e[86 + k] = c[k]
    BY <1>2, <1>4, <1>5
  <2>2. 86 + k \in DOMAIN e
    BY <1>2, <1>4, <1>5
  <2> QED
    BY <1>6, <2>1, <2>2 DEF Range
<1> QED
  BY <1>7 DEF FieldsIn, Enum, c

LEMMA FieldOfNf ==
    ASSUME NEW g \in FieldsIn("nf")
    PROVE  IsField(<<g>>, 1, <<>>, g)
<1>1. Nested[1] = "nf" /\ Append(<<>>, g) = <<g>>
  BY DEF Nested
<1> QED
  BY <1>1 DEF IsField, PathsAt

LEMMA FieldsOfLine ==
    /\ IsField(SrcIP, 1, <<>>, "Srcip")
    /\ IsField(Timestamp, 1, <<>>, "Timestamp")
    /\ IsField(Ltimestamp, 1, <<>>, "Ltimestamp")
<1> DEFINE c == EnumFromReplyipdaddrstr
<1>1. c[36] = "Srcip" /\ c[40] = "Timestamp" /\ c[41] = "Ltimestamp"
  BY DEF EnumFromReplyipdaddrstr
<1> HIDE DEF c
<1>2. 36 \in 1..43 /\ 40 \in 1..43 /\ 41 \in 1..43
  OBVIOUS
<1>3. /\ "Srcip" \in FieldsIn("nf")
      /\ "Timestamp" \in FieldsIn("nf")
      /\ "Ltimestamp" \in FieldsIn("nf")
  <2>1. \A k \in 1..43 : c[k] \in FieldsIn("nf")
    BY LastListed DEF c
  <2> QED
    BY <1>1, <1>2, <2>1
<1> QED
  BY <1>3, FieldOfNf DEF SrcIP, Timestamp, Ltimestamp

(* The @timestamp is text that is not empty.                               *)
LEMMA StampedOK ==
    ASSUME NEW v, ValueOK(v), Timestamp \in DOMAIN v
    PROVE  /\ ValueOK(Over(Stamp(v), v))
           /\ Ltimestamp \in DOMAIN Over(Stamp(v), v)
           /\ Over(Stamp(v), v)[Ltimestamp] =
                 At(Utc, Over(Stamp(v), v)[Timestamp], ZeroTime)
<1> DEFINE text == At(Utc, v[Timestamp], ZeroTime)
           w == Assigned(v, Ltimestamp, text)
<1>1. IsField(Ltimestamp, 1, <<>>, "Ltimestamp") /\ Nested[1] = "nf"
  BY FieldsOfLine DEF Nested
<1>2. text \in {"Jan-1-23:30Z", "Jan-2-11:00Z", "Jan-1-year-1"}
  BY DEF At, Utc, ZeroTime
<1> HIDE DEF text
<1>3. Handler["nf"]["Ltimestamp"] = "string"
  <2>1. "nf" \in Structs /\ "Ltimestamp" \in FieldsIn("nf")
    BY <1>1 DEF Structs, IsField
  <2>2. Handler["nf"]["Ltimestamp"] \in {"string", "esGeoIP"}
    BY <2>1, ListingsAgree DEF HandlersAgree, Plain
  <2>3. Handler["nf"]["Ltimestamp"] # "esGeoIP"
    BY <2>1, Kinds
  <2> QED
    BY <2>2, <2>3
<1>4. Fitting("string", text)
  <2>1. /\ text # "out_of_range"
        /\ text # "empty"
    BY <1>2
  <2> QED
    BY <2>1 DEF Fitting
<1>5. Assignable(v, Ltimestamp, text)
  <2>1. Fitting(Handler[Nested[1]]["Ltimestamp"], text)
    BY <1>1, <1>3, <1>4
  <2> DEFINE n == 1
             g == "Ltimestamp"
             path == <<>>
  <2>2. /\ IsField(Ltimestamp, n, path, g)
        /\ Fitting(Handler[Nested[n]][g], text)
        /\ n # 3
    BY <1>1, <2>1
  <2> HIDE DEF n, g, path
  <2> QED
    BY <2>2 DEF Assignable
<1>6. ValueOK(w) /\ DOMAIN w = DOMAIN v \cup {Ltimestamp}
  BY <1>5, AssignedOK
<1>7. w = Over(Stamp(v), v)
  BY DEF Assigned, Stamp, text
<1>8. w[Ltimestamp] = text
  BY DEF Assigned, Over
<1>9. w[Timestamp] = v[Timestamp]
  <2>1. Timestamp # Ltimestamp
    BY DEF Timestamp, Ltimestamp
  <2> QED
    BY <2>1 DEF Assigned, Over
<1> QED
  BY <1>6, <1>7, <1>8, <1>9 DEF text

(* The geoip data fits the fields it is assigned to.                       *)
GeoNames == {"Longitude", "Latitude", "IP", "CountryName", "Timezone",
             "ContinentCode", "CountryCode2", "RealRegionName", "RegionName",
             "Location", "Coordinates", "CityName"}

LEMMA GeoNamesListed ==
    ASSUME NEW g \in GeoNames
    PROVE  IsField(<<"GeoIP", g>>, 2, <<"GeoIP">>, g)
<1>1. g \in FieldsIn("esGeoIP")
  <2> DEFINE e == EnumGeoIP
  <2>1. /\ DOMAIN e = 1..12
        /\ e[1] = "Longitude" /\ e[2] = "Latitude" /\ e[3] = "CountryName"
        /\ e[4] = "Timezone" /\ e[5] = "ContinentCode" /\ e[6] = "CityName"
        /\ e[7] = "CountryCode2" /\ e[8] = "RealRegionName"
        /\ e[9] = "RegionName" /\ e[10] = "IP" /\ e[11] = "Location"
        /\ e[12] = "Coordinates"
    BY DEF EnumGeoIP
  <2> HIDE DEF e
  <2>2. \A k \in 1..12 : e[k] \in Range(e)
    BY <2>1 DEF Range
  <2>3. \A k \in {1, 2, 3, 4, 5, 6, 7, 8, 9, 10, 11, 12} : k \in 1..12
    OBVIOUS
  <2>4. Range(e) = FieldsIn("esGeoIP")
    BY DEF FieldsIn, Enum, e
  <2>5. \E k \in {1, 2, 3, 4, 5, 6, 7, 8, 9, 10, 11, 12} : e[k] = g
    BY <2>1 DEF GeoNames
  <2> QED
    BY <2>2, <2>3, <2>4, <2>5
<1>2. Nested[2] = "esGeoIP" /\ Append(<<"GeoIP">>, g) = <<"GeoIP", g>>
  BY AppendedToOne DEF Nested
<1> QED
  BY <1>1, <1>2 DEF IsField, PathsAt

LEMMA GeoKinds ==
    /\ Handler["esGeoIP"]["IP"] = "*string"
    /\ \A g \in GeoNames \ {"Location", "Coordinates"} :
          Handler["esGeoIP"][g] \in {"*int", "*float64", "*string", "string"}
    /\ \A g \in {"Longitude", "Latitude"} :
          Handler["esGeoIP"][g] = "*float64"
<1> DEFINE s == "esGeoIP"
<1>1. s \in Structs /\ Nested[2] = s
  BY DEF Structs, Nested
<1>2. \A g \in GeoNames : g \in FieldsIn(s)
  BY <1>1, GeoNamesListed DEF IsField
<1>3. \A g \in GeoNames \ {"Location", "Coordinates"} :
         Handler[s][g] \in {"*int", "*float64", "*string", "string"}
  BY <1>1, <1>2, Kinds
<1>4. \A g \in GeoNames : Handler[s][g] \in Handlers[TypeOf(s, g)]
  BY <1>1, <1>2, ListingsAgree DEF HandlersAgree
<1>5. \A g \in {"Longitude", "Latitude"} : Handler[s][g] = "*float64"
  <2>1. ASSUME NEW g \in {"Longitude", "Latitude"}
        PROVE  TypeOf(s, g) = "float64" /\ g \in GeoNames
    BY DEF TypeOf, GeoNames
  <2>2. Handlers["float64"] = {"*float64"}
    BY DEF Handlers
  <2> QED
    BY <1>4, <2>1, <2>2
<1>6. Handler[s]["IP"] = "*string"
  <2>1. "IP" \in GeoIPStrings
    BY DEF GeoIPStrings, TagGeoIP
  <2>2. TypeOf(s, "IP") = "string" /\ "IP" \in GeoNames
    BY <2>1 DEF TypeOf, GeoNames
  <2>3. Handlers["string"] = {"*string", "string"}
    BY DEF Handlers
  <2>4. Handler[s]["IP"] \in {"string", "esGeoIP"} <=> "IP" \in Plain
    BY <1>1, <1>2, <2>2, ListingsAgree DEF HandlersAgree
  <2>5. "IP" \notin Plain
    BY DEF Plain
  <2> QED
    BY <1>4, <2>2, <2>3, <2>4, <2>5
<1> QED
  BY <1>3, <1>5, <1>6

LEMMA GeoPairFits ==
    ASSUME NEW srcip, srcip # "out_of_range", NEW g \in GeoNames,
           NEW city, <<"GeoIP", g>> \in GeoFields(city)
    PROVE  Fitting(Handler[Nested[2]][g],
                   GeoData(srcip, city)[<<"GeoIP", g>>])
<1> DEFINE p == <<"GeoIP", g>>
           text == GeoData(srcip, city)[p]
           kind == Handler["esGeoIP"][g]
<1>1. Last(p) = g
  BY DEF Last
<1> HIDE DEF p
<1>2. /\ Last(p) = "IP" => text = srcip
      /\ Last(p) = "Longitude" => text = "1.5"
      /\ Last(p) = "Latitude" => text = "1"
      /\ Last(p) \in {"Location", "Coordinates"} => text = "new"
      /\ Last(p) \notin {"IP", "Longitude", "Latitude", "Lon", "Lat",
                         "Location", "Coordinates"} => text = "name"
  BY DEF GeoData, p
<1> HIDE DEF text
<1>3. /\ "IP" = g => kind = "*string"
      /\ g \in {"Longitude", "Latitude"} => kind = "*float64"
      /\ g \notin {"Location", "Coordinates"} =>
            kind \in {"*int", "*float64", "*string", "string"}
  BY GeoKinds
<1>4. g \in {"Location", "Coordinates"} => kind = "*esGeoIPLocation"
  <2>1. IsField(<<"GeoIP", g>>, 2, <<"GeoIP">>, g) /\ Nested[2] = "esGeoIP"
    BY GeoNamesListed DEF Nested
  <2> DEFINE n == 2
             path == <<"GeoIP">>
             at == <<"GeoIP", g>>
  <2>2. IsField(at, n, path, g) /\ n = 2 /\ Nested[n] = "esGeoIP"
    BY <2>1
  <2> HIDE DEF n, path, at
  <2> QED
    BY <2>2, FieldKinds
<1> HIDE DEF kind
<1>5. Fitting(kind, text)
  <2>1. CASE g = "IP"
    <3>1. kind = "*string" /\ text = srcip
      BY <1>1, <1>2, <1>3, <2>1
    <3> QED
      BY <3>1 DEF Fitting
  <2>2. CASE g = "Longitude"
    <3>1. kind = "*float64" /\ text = "1.5"
      BY <1>1, <1>2, <1>3, <2>2
    <3> QED
      BY <3>1 DEF Fitting
  <2>3. CASE g = "Latitude"
    <3>1. kind = "*float64" /\ text = "1"
      BY <1>1, <1>2, <1>3, <2>3
    <3> QED
      BY <3>1 DEF Fitting
  <2>4. CASE g \in {"Location", "Coordinates"}
    <3>1. kind = "*esGeoIPLocation" /\ text = "new"
      BY <1>1, <1>2, <1>4, <2>4
    <3> QED
      BY <3>1 DEF Fitting
  <2>5. CASE g \notin {"IP", "Longitude", "Latitude", "Location",
                       "Coordinates"}
    <3>1. g # "Lon" /\ g # "Lat"
      BY DEF GeoNames
    <3>2. text = "name"
      BY <1>1, <1>2, <2>5, <3>1
    <3>3. kind \in {"*int", "*float64", "*string", "string"}
      BY <1>3, <2>5
    <3> QED
      BY <3>2, <3>3 DEF Fitting
  <2> QED
    BY <2>1, <2>2, <2>3, <2>4, <2>5
<1>6. Nested[2] = "esGeoIP"
  BY DEF Nested
<1> QED
  BY <1>5, <1>6 DEF kind, text, p

LEMMA GeoHalfFits ==
    ASSUME NEW srcip, NEW g \in {"Location", "Coordinates"},
           NEW h \in {"Lon", "Lat"},
           NEW city, <<"GeoIP", g, h>> \in GeoFields(city)
    PROVE  /\ IsField(<<"GeoIP", g, h>>, 3, <<"GeoIP", g>>, h)
           /\ Fitting(Handler[Nested[3]][h],
                      GeoData(srcip, city)[<<"GeoIP", g, h>>])
<1> DEFINE p == <<"GeoIP", g, h>>
           text == GeoData(srcip, city)[p]
<1>1. Last(p) = h
  BY DEF Last
<1>2. IsField(p, 3, <<"GeoIP", g>>, h)
  BY LocationFields, AppendedToTwo
<1> HIDE DEF p
<1>3. /\ Last(p) = "Lon" => text = "1.5"
      /\ Last(p) = "Lat" => text = "1"
  BY DEF GeoData, p
<1> HIDE DEF text
<1>4. text \in {"1.5", "1"}
  BY <1>1, <1>3
<1>5. Nested[3] = "esGeoIPLocation" /\ "esGeoIPLocation" \in Structs
  BY DEF Nested, Structs
<1>6. h \in FieldsIn("esGeoIPLocation")
  BY HalvesOfLocation
<1>7. Handler["esGeoIPLocation"][h] = "*float64"
  BY <1>5, <1>6, Kinds
<1>8. Fitting("*float64", text)
  BY <1>4 DEF Fitting
<1> QED
  BY <1>2, <1>5, <1>7, <1>8 DEF p, text

LEMMA GeoDataOK ==
    ASSUME NEW srcip, srcip # "out_of_range", NEW city \in {{}, {"CityName"}}
    PROVE  ValueOK(GeoData(srcip, city))
<1> DEFINE v == GeoData(srcip, city)
<1>1. v = [p \in DOMAIN v |-> v[p]] /\ DOMAIN v = GeoFields(city)
  BY DEF GeoData
<1>2. \A g \in {"Location", "Coordinates"} : <<"GeoIP", g>> \in GeoFields(city)
  BY DEF GeoFields
<1>3. ASSUME NEW p \in GeoFields(city)
      PROVE  \/ \E g \in GeoNames : p = <<"GeoIP", g>>
             \/ \E g \in {"Location", "Coordinates"}, h \in {"Lon", "Lat"} :
                   p = <<"GeoIP", g, h>>
  BY DEF GeoFields, GeoNames
<1>4. ASSUME NEW p \in GeoFields(city)
      PROVE  \E n, path, g : /\ IsField(p, n, path, g)
                             /\ Fitting(Handler[Nested[n]][g], v[p])
                             /\ n = 3 => path \in GeoFields(city)
  <2>1. CASE \E g \in GeoNames : p = <<"GeoIP", g>>
    <3>1. PICK g \in GeoNames : p = <<"GeoIP", g>>
      BY <2>1
    <3> DEFINE n == 2
               path == <<"GeoIP">>
    <3>2. IsField(p, n, path, g) /\ Fitting(Handler[Nested[n]][g], v[p])
      BY <3>1, GeoNamesListed, GeoPairFits
    <3>3. n # 3
      OBVIOUS
    <3> HIDE DEF n, path, v
    <3> QED
      BY <3>2, <3>3
  <2>2. CASE \E g \in {"Location", "Coordinates"}, h \in {"Lon", "Lat"} :
                p = <<"GeoIP", g, h>>
    <3>1. PICK g \in {"Location", "Coordinates"}, h \in {"Lon", "Lat"} :
             p = <<"GeoIP", g, h>>
      BY <2>2
    <3> DEFINE n == 3
               path == <<"GeoIP", g>>
    <3>2. IsField(p, n, path, h) /\ Fitting(Handler[Nested[n]][h], v[p])
      BY <3>1, GeoHalfFits
    <3>3. path \in GeoFields(city)
      BY <1>2
    <3> HIDE DEF n, path, v
    <3> QED
      BY <3>2, <3>3
  <2> QED
    BY <1>3, <2>1, <2>2
<1> HIDE DEF v
<1>5. ValueOK(v)
  BY <1>1, <1>4 DEF ValueOK
<1> QED
  BY <1>5 DEF v

LEMMA OverOK ==
    ASSUME NEW u, ValueOK(u), NEW v, ValueOK(v)
    PROVE  ValueOK(Over(u, v))
<1> DEFINE w == Over(u, v)
<1>1. /\ DOMAIN w = DOMAIN u \cup DOMAIN v
      /\ w = [p \in DOMAIN w |-> w[p]]
      /\ \A p \in DOMAIN u : w[p] = u[p]
      /\ \A p \in DOMAIN v : p \notin DOMAIN u => w[p] = v[p]
  BY DEF Over
<1> HIDE DEF w
<1>2. ASSUME NEW p \in DOMAIN w
      PROVE  \E n, path, g : /\ IsField(p, n, path, g)
                             /\ Fitting(Handler[Nested[n]][g], w[p])
                             /\ n = 3 => path \in DOMAIN w
  <2>1. CASE p \in DOMAIN u
    <3>1. PICK n, path, g : /\ IsField(p, n, path, g)
                            /\ Fitting(Handler[Nested[n]][g], u[p])
                            /\ n = 3 => path \in DOMAIN u
      BY <2>1 DEF ValueOK
    <3> QED
      BY <1>1, <2>1, <3>1
  <2>2. CASE p \notin DOMAIN u
    <3>0. p \in DOMAIN v
      BY <1>1, <2>2
    <3>1. PICK n, path, g : /\ IsField(p, n, path, g)
                            /\ Fitting(Handler[Nested[n]][g], v[p])
                            /\ n = 3 => path \in DOMAIN v
      BY <3>0 DEF ValueOK
    <3> QED
      BY <1>1, <2>2, <3>0, <3>1
  <2> QED
    BY <2>1, <2>2
<1>3. ValueOK(w)
  BY <1>1, <1>2 DEF ValueOK
<1> QED
  BY <1>3 DEF w

LEMMA EnrichedOK ==
    ASSUME NEW v, ValueOK(v), SrcIP \in DOMAIN v, Timestamp \in DOMAIN v,
           NEW w \in EnrichFrom(v)
    PROVE  ValueOK(w) /\ Timestamp \in DOMAIN w
<1>1. CASE w = v
  BY <1>1
<1>2. CASE \E city \in {{}, {"CityName"}} : w = Located(v, v[SrcIP], city)
  <2>1. PICK city \in {{}, {"CityName"}} : w = Located(v, v[SrcIP], city)
    BY <1>2
  <2>2. v[SrcIP] # "out_of_range"
    <3>1. PICK n, path, g : /\ IsField(SrcIP, n, path, g)
                            /\ Fitting(Handler[Nested[n]][g], v[SrcIP])
      BY DEF ValueOK
    <3>2. IsField(SrcIP, 1, <<>>, "Srcip") /\ Nested[1] = "nf"
      BY FieldsOfLine DEF Nested
    <3>3. n = 1 /\ g = "Srcip"
      BY <3>1, <3>2, SameField
    <3>4. Handler[Nested[n]][g] \notin {"esGeoIP", "*esGeoIPLocation"}
      BY <3>1, <3>3, FieldKinds
    <3> QED
      BY <3>1, <3>4 DEF Fitting
  <2> DEFINE g == GeoData(v[SrcIP], city)
             c == Cleared(v, <<"GeoIP">>)
  <2>3. ValueOK(g)
    BY <2>2, GeoDataOK
  <2>4. ValueOK(c)
    <3> DEFINE one == <<"GeoIP">>
               n == 1
               path == <<>>
               h == "GeoIP"
    <3>1. IsField(one, n, path, h)
      BY GeoIPField
    <3> HIDE DEF one, n, path, h
    <3>2. ValueOK(Cleared(v, one))
      BY <3>1, ClearedOK
    <3> QED
      BY <3>2 DEF one
  <2>5. Timestamp \in DOMAIN c
    <3>1. ~ IsPrefix(<<"GeoIP">>, Timestamp)
      <4> DEFINE one == <<"GeoIP">>
      <4>1. /\ one \in Seq(Names) /\ Len(one) = 1 /\ one[1] = "GeoIP"
        BY DEF Names
      <4>2. /\ Timestamp \in Seq(Names)
        BY FieldsOfLine, FieldParts
      <4>3. Timestamp[1] = "Timestamp"
        BY DEF Timestamp
      <4>4. 1 \in 1..Len(one)
        BY <4>1
      <4> HIDE DEF one
      <4>5. one[1] # Timestamp[1]
        BY <4>1, <4>3
      <4> DEFINE two == Timestamp
      <4>6. one \in Seq(Names) /\ two \in Seq(Names)
        BY <4>1, <4>2
      <4> HIDE DEF two
      <4>7. IsPrefix(one, two) => \A k \in 1..Len(one) : one[k] = two[k]
        BY <4>6, PrefixIs
      <4>8. ~ IsPrefix(one, Timestamp)
        BY <4>4, <4>5, <4>7 DEF two
      <4> QED
        BY <4>8 DEF one
    <3> QED
      BY <3>1 DEF Cleared, Restrict
  <2>6. w = Over(g, c)
    BY <2>1 DEF Located, Cleared
  <2> HIDE DEF g, c
  <2>7. ValueOK(w)
    BY <2>3, <2>4, <2>6, OverOK
  <2>8. Timestamp \in DOMAIN w
    BY <2>5, <2>6 DEF Over
  <2> QED
    BY <2>7, <2>8
<1> QED
  BY <1>1, <1>2 DEF EnrichFrom

-----------------------------------------------------------------------------
(* The invariant: what the variables of the decoder hold is what reading   *)
(* the line so far gives, in parseLine and in TimeFromLine, and the line   *)
(* that was sent on is known to read back as the struct it was made from.  *)
Legible(text) == \A k \in 1..Len(text) : Spelt(text[k])

Parsed == pc = "parse" => Settled(Now) /\ Legible(input)

Followed ==
    pc \in {"index", "end"} \/ (pc = "parse" /\ ~ cut) =>
        Reaches(input, 0, Fresh, next - 1, Now)

ReadAs(text, v) ==
    \E n, y : /\ Reaches(text, 0, Fresh, n, y)
              /\ y.outcome = "done"
              /\ y.value = v

Sent ==
    /\ pc \in {"index", "end"} /\ sent # "blank" => ReadAs(input, f)
    /\ sent = "enriched" =>
          /\ Ltimestamp \in DOMAIN f
          /\ f[Ltimestamp] = At(Utc, f[Timestamp], ZeroTime)

Chosen ==
    pc = "end" =>
        /\ outcome # "scanning"
        /\ index = IF outcome = "error" THEN "today"
                   ELSE IF Ltimestamp \in DOMAIN value
                   THEN At(Day, value[Ltimestamp], ZeroTime) ELSE ZeroTime

LEMMA FreshParts ==
    /\ Settled(Fresh)
    /\ Fresh.frames = <<Frame("nf", "map_start", <<>>)>>
    /\ Fresh.value = EmptyStruct
    /\ Fresh.outcome = "scanning"
<1> DEFINE fs == <<Frame("nf", "map_start", <<>>)>>
<1>1. StackOK(fs) /\ Len(fs) = 1
  BY FreshStack
<1>2. ValueOK(EmptyStruct)
  BY DEF ValueOK, EmptyStruct
<1>3. Fresh.frames = fs /\ Fresh.value = EmptyStruct
      /\ Fresh.outcome = "scanning"
  BY DEF Fresh, At3
<1> HIDE DEF fs
<1>4. Settled(Fresh)
  BY <1>1, <1>2, <1>3 DEF Settled
<1> QED
  BY <1>3, <1>4 DEF fs

LEMMA NowAgain ==
    ASSUME NEW line, DecodeAgain(line)
    PROVE  /\ Now' = Fresh
           /\ Reaches(line, 0, Fresh, next' - 1, Now')
           /\ input' = line
<1>1. Now' = Fresh /\ next' - 1 = 0 /\ input' = line
  BY DEF Now, Fresh, At3, DecodeAgain
<1>2. Reaches(line, 0, Fresh, 0, Fresh)
  BY ReachesItself
<1> QED
  BY <1>1, <1>2

LEMMA DecodeFollows ==
    ASSUME Placed, Decode, Reaches(input, 0, Fresh, next - 1, Now)
    PROVE  Reaches(input, 0, Fresh, next - 1, Now)'
<1>1. /\ outcome = "scanning" /\ next' = next + 1 /\ input' = input
      /\ Now' = After(Now, Scanned)
  BY DecodeIsAfter DEF Placed
<1>2. Now.outcome = "scanning"
  BY <1>1 DEF Now, At3
<1>3. next \in Nat /\ next - 1 \in Nat /\ (next - 1) + 1 = next
      /\ next' - 1 = next
  BY <1>1 DEF Placed
<1>4. TokenAt(input, next) = Scanned
  BY DEF TokenAt, Scanned
<1> DEFINE o == next - 1
           z == Now
           text == input
<1>5. o \in Nat /\ z.outcome = "scanning" /\ o + 1 = next
      /\ Reaches(text, 0, Fresh, o, z)
  BY <1>2, <1>3
<1> HIDE DEF o, z, text
<1>6. Reaches(text, o, z, o + 1, After(z, TokenAt(text, o + 1)))
  BY <1>5, ReachesNext
<1>7. Reaches(text, 0, Fresh, o + 1, After(z, TokenAt(text, o + 1)))
  BY <1>5, <1>6, ReachesOn
<1>8. Reaches(input, 0, Fresh, next, After(Now, Scanned))
  BY <1>4, <1>5, <1>7 DEF z, text
<1> QED
  BY <1>1, <1>3, <1>8

LEMMA ScannedSpelt ==
    ASSUME Placed, Legible(input)
    PROVE  Spelt(Scanned)
<1>1. CASE next <= Len(input)
  <2>1. Len(input) \in Nat /\ next \in Nat /\ next >= 1
    BY DEF Placed
  <2>2. next \in 1..Len(input)
    BY <1>1, <2>1
  <2> QED
    BY <1>1, <2>2 DEF Legible, Scanned
<1>2. CASE ~ (next <= Len(input))
  <2>1. Scanned.tok = "eof"
    BY <1>2 DEF Scanned, Token
  <2> QED
    BY <2>1 DEF Spelt
<1> QED
  BY <1>1, <1>2

LEMMA CutLegible ==
    ASSUME Placed, Legible(input), NEW rest, rest \in Seq(Range(rest)),
           Legible(rest), Cut(rest)
    PROVE  Legible(input')
<1> DEFINE n == next - 1
           kept == SubSeq(input, 1, n)
           S == Range(input) \cup Range(rest)
<1>1. /\ next <= Len(input)
      /\ input' = kept \o rest
  BY DEF Cut
<1>2. /\ input \in Seq(Range(input)) /\ next \in Nat /\ next >= 1
  BY DEF Placed
<1>3. n \in Nat /\ n \in 0..Len(input)
  BY <1>1, <1>2
<1>4. input \in Seq(S) /\ rest \in Seq(S)
  BY <1>2
<1> HIDE DEF n, S
<1>5. kept \in Seq(S) /\ Len(kept) = n /\ \A k \in 1..n : kept[k] = input[k]
  BY <1>3, <1>4
<1> HIDE DEF kept
<1>6. /\ Len(input') = Len(kept) + Len(rest)
      /\ \A k \in 1..Len(kept) : input'[k] = kept[k]
      /\ \A k \in 1..Len(rest) : input'[Len(kept) + k] = rest[k]
  <2>1. kept \in Seq(S) /\ rest \in Seq(S)
    BY <1>4, <1>5
  <2> QED
    BY <1>1, <2>1, Joined
<1>7. ASSUME NEW k \in 1..Len(input')
      PROVE  Spelt(input'[k])
  <2>1. Len(rest) \in Nat
    BY <1>4
  <2>2. CASE k <= n
    <3>1. k \in 1..n /\ k \in 1..Len(input) /\ k \in 1..Len(kept)
      BY <1>3, <1>5, <2>2
    <3>2. input'[k] = input[k]
      BY <1>5, <1>6, <3>1
    <3> QED
      BY <3>1, <3>2 DEF Legible
  <2>3. CASE ~ (k <= n)
    <3> DEFINE m == k - n
    <3>1. m \in 1..Len(rest) /\ Len(kept) + m = k
      BY <1>3, <1>5, <1>6, <2>1, <2>3
    <3> HIDE DEF m
    <3>2. input'[k] = rest[m]
      BY <1>6, <3>1
    <3> QED
      BY <3>1, <3>2 DEF Legible
  <2> QED
    BY <2>2, <2>3
<1> QED
  BY <1>7 DEF Legible

LEMMA LineLegible ==
    ASSUME NEW d \in Docs
    PROVE  Text[d] \in Seq(Range(Text[d])) /\ Legible(Text[d])
<1>1. IsText(Text[d])
  BY TextsOfLines
<1>2. Text[d] \in Seq(Range(Text[d]))
  BY <1>1 DEF IsText
<1>3. DOMAIN Text[d] = 1..Len(Text[d])
  BY <1>2
<1> QED
  BY <1>1, <1>2, <1>3 DEF IsText, Legible, Spelt

Survived ==
    /\ pc \in {"parse", "panic"} => sent = "no"
    /\ Parsed
    /\ Followed
    /\ Sent
    /\ Chosen

LEMMA SurvivedInit == Init => Survived
<1> SUFFICES ASSUME Init
             PROVE  Survived
  OBVIOUS
<1>1. /\ doc \in Docs /\ DecodeInit(Text[doc])
      /\ pc = "parse" /\ ~ cut /\ sent = "no"
  BY DEF Init
<1>2. input = Text[doc] /\ Now = Fresh /\ next - 1 = 0
  BY <1>1 DEF DecodeInit, Now, Fresh, At3
<1>3. Parsed
  BY <1>1, <1>2, FreshParts, LineLegible DEF Parsed
<1>4. Followed
  <2>1. Reaches(input, 0, Fresh, 0, Fresh)
    BY ReachesItself
  <2> QED
    BY <1>2, <2>1 DEF Followed
<1> QED
  BY <1>1, <1>3, <1>4 DEF Survived, Sent, Chosen

(* Sending a line on.                                                      *)
LEMMA SendOnSurvives ==
    ASSUME NEW how, NEW line, SendOn(how, line),
           how # "blank" => ReadAs(line, f'),
           how = "enriched" =>
              /\ Ltimestamp \in DOMAIN f'
              /\ f'[Ltimestamp] = At(Utc, f'[Timestamp], ZeroTime)
    PROVE  Survived'
<1>1. pc' = "index" /\ sent' = how /\ DecodeAgain(line)
  BY DEF SendOn
<1>2. Reaches(line, 0, Fresh, next' - 1, Now') /\ input' = line
  BY <1>1, NowAgain
<1>3. Followed'
  BY <1>2 DEF Followed
<1>4. Sent'
  BY <1>1, <1>2 DEF Sent
<1>5. Parsed' /\ Chosen'
  BY <1>1 DEF Parsed, Chosen
<1> QED
  BY <1>1, <1>3, <1>4, <1>5 DEF Survived

LEMMA ScanningSurvives ==
    ASSUME Typed, Survived, Scanning
    PROVE  Survived'
<1>1. Decode /\ Placed /\ pc \in {"parse", "index"}
      /\ UNCHANGED <<pc, cut, sent, f, index>>
  BY DEF Scanning, parseVars, Typed
<1>2. input' = input /\ Now' = After(Now, Scanned)
  BY <1>1, DecodeIsAfter DEF Placed
<1>3. Parsed'
  <2> SUFFICES ASSUME pc = "parse"
               PROVE  Settled(Now') /\ Legible(input')
    BY <1>1 DEF Parsed
  <2>1. Settled(Now) /\ Legible(input)
    BY DEF Survived, Parsed
  <2>2. Spelt(Scanned)
    BY <1>1, <2>1, ScannedSpelt
  <2>3. Settled(After(Now, Scanned))
    <3> DEFINE z == Now
               t == Scanned
    <3>1. Settled(z) /\ Spelt(t)
      BY <2>1, <2>2
    <3> HIDE DEF z, t
    <3>2. Settled(After(z, t))
      BY <3>1, AfterSettled
    <3> QED
      BY <3>2 DEF z, t
  <2> QED
    BY <1>2, <2>1, <2>3
<1>4. Followed'
  <2> SUFFICES ASSUME pc \in {"index", "end"} \/ (pc = "parse" /\ ~ cut)
               PROVE  Reaches(input, 0, Fresh, next - 1, Now)'
    BY <1>1 DEF Followed
  <2>1. Reaches(input, 0, Fresh, next - 1, Now)
    BY DEF Survived, Followed
  <2> QED
    BY <1>1, <2>1, DecodeFollows
<1>5. Sent'
  BY <1>1, <1>2 DEF Survived, Sent
<1>6. Chosen'
  BY <1>1 DEF Chosen
<1> QED
  BY <1>1, <1>3, <1>4, <1>5, <1>6 DEF Survived

LEMMA CutSurvives ==
    ASSUME Typed, Survived, NEW rest, rest \in Seq(Range(rest)),
           Legible(rest), Cut(rest)
    PROVE  Survived'
<1>1. /\ pc = "parse" /\ cut' = TRUE
      /\ UNCHANGED <<next, frames, value, outcome, pc, sent, f, index>>
  BY DEF Cut
<1>2. Settled(Now) /\ Legible(input) /\ Placed /\ sent = "no"
  BY <1>1 DEF Survived, Parsed, Typed
<1>3. Legible(input')
  BY <1>2, CutLegible
<1>4. Now' = Now
  BY <1>1 DEF Now
<1>5. Parsed'
  BY <1>2, <1>3, <1>4 DEF Parsed
<1>6. Followed' /\ Sent' /\ Chosen'
  BY <1>1, <1>2 DEF Followed, Sent, Chosen
<1> QED
  BY <1>1, <1>2, <1>5, <1>6 DEF Survived

LEMMA EnrichSurvives ==
    ASSUME Typed, Survived, Enrich
    PROVE  Survived'
<1>1. /\ pc = "parse" /\ SrcIP \in DOMAIN value /\ Timestamp \in DOMAIN value
  BY DEF Enrich
<1>2. PICK v \in EnrichFrom(value), encoder \in Encoders :
         /\ f' = Over(Stamp(v), v)
         /\ SendOn("enriched", Marshal(f', encoder))
  BY DEF Enrich
<1>3. ValueOK(value)
  <2>1. Settled(Now)
    BY <1>1 DEF Survived, Parsed
  <2> QED
    BY <2>1 DEF Settled, Now, At3
<1>4. ValueOK(v) /\ Timestamp \in DOMAIN v
  BY <1>1, <1>2, <1>3, EnrichedOK
<1>5. /\ ValueOK(f')
      /\ Ltimestamp \in DOMAIN f'
      /\ f'[Ltimestamp] = At(Utc, f'[Timestamp], ZeroTime)
  BY <1>2, <1>4, StampedOK
<1>6. ReadsBack(Marshal(f', encoder), f')
  BY <1>5, MarshalReadsBack
<1>7. ReadAs(Marshal(f', encoder), f')
  BY <1>6 DEF ReadsBack, ReadAs
<1> QED
  BY <1>2, <1>5, <1>7, SendOnSurvives

LEMMA SurvivedNext ==
    ASSUME Typed, Blanked, Survived, [Next]_vars
    PROVE  Survived'
<1>1. CASE Scanning
  BY <1>1, ScanningSurvives
<1>2. CASE \/ Cut(<<>>)
           \/ Cut(<<Token("error")>>)
           \/ \E d \in Glued : Cut(Text[d])
  <2>1. CASE Cut(<<>>)
    <3>1. <<>> \in Seq(Range(<<>>)) /\ Legible(<<>>)
      BY DEF Legible
    <3> QED
      BY <2>1, <3>1, CutSurvives
  <2>2. CASE Cut(<<Token("error")>>)
    <3> DEFINE t == Token("error")
               rest == <<t>>
    <3>1. t.tok # "integer"
      BY DEF Token
    <3> HIDE DEF t
    <3>2. rest \in Seq({t}) /\ Len(rest) = 1 /\ rest[1] = t
      OBVIOUS
    <3>3. rest \in Seq(Range(rest))
      BY <3>2, OfItsRange
    <3>4. Legible(rest)
      BY <3>1, <3>2 DEF Legible, Spelt
    <3>5. Cut(rest)
      BY <2>2 DEF t
    <3> HIDE DEF rest
    <3> QED
      BY <3>3, <3>4, <3>5, CutSurvives
  <2>3. CASE \E d \in Glued : Cut(Text[d])
    <3>1. PICK d \in Glued : Cut(Text[d])
      BY <2>3
    <3>2. d \in Docs
      BY TextsOfLines
    <3>3. Text[d] \in Seq(Range(Text[d])) /\ Legible(Text[d])
      BY <3>2, LineLegible
    <3> QED
      BY <3>1, <3>3, CutSurvives
  <2> QED
    BY <1>2, <2>1, <2>2, <2>3
<1>3. CASE ParseFails
  <2>1. SendOn("blank", <<>>)
    BY <1>3 DEF ParseFails
  <2> DEFINE how == "blank"
             line == <<>>
  <2>2. SendOn(how, line) /\ how = "blank" /\ how # "enriched"
    BY <2>1
  <2> HIDE DEF how, line
  <2> QED
    BY <2>2, SendOnSurvives
<1>4. CASE NoSourceIP
  <2>1. pc = "parse" /\ outcome = "done" /\ f' = value
        /\ SendOn("unchanged", input)
    BY <1>4 DEF NoSourceIP
  <2>2. ~ cut
    BY <2>1 DEF Blanked
  <2>3. Reaches(input, 0, Fresh, next - 1, Now)
    BY <2>1, <2>2 DEF Survived, Followed
  <2>4. Now.outcome = "done" /\ Now.value = f'
    BY <2>1 DEF Now, At3
  <2>5. ReadAs(input, f')
    BY <2>3, <2>4 DEF ReadAs
  <2> QED
    BY <2>1, <2>5, SendOnSurvives
<1>5. CASE NilTimestamp
  <2>1. pc' = "panic" /\ sent' = sent /\ pc = "parse"
    BY <1>5 DEF NilTimestamp
  <2> QED
    BY <2>1 DEF Survived, Parsed, Followed, Sent, Chosen
<1>6. CASE Enrich
  BY <1>6, EnrichSurvives
<1>7. CASE TimeFromLine
  <2>1. /\ pc = "index" /\ pc' = "end" /\ outcome # "scanning"
        /\ index' = IF outcome = "error" THEN "today"
                    ELSE IF Ltimestamp \in DOMAIN value
                    THEN At(Day, value[Ltimestamp], ZeroTime) ELSE ZeroTime
        /\ UNCHANGED <<input, next, frames, value, outcome>>
        /\ UNCHANGED <<cut, sent, f>>
    BY <1>7 DEF TimeFromLine, decoderVars
  <2>2. Now' = Now
    BY <2>1 DEF Now
  <2>3. Followed'
    BY <2>1, <2>2 DEF Survived, Followed
  <2>4. Sent'
    BY <2>1 DEF Survived, Sent
  <2>5. Chosen'
    BY <2>1 DEF Chosen
  <2> QED
    BY <2>1, <2>3, <2>4, <2>5 DEF Survived, Parsed
<1>8. CASE Finished \/ UNCHANGED vars
  <2>1. UNCHANGED vars
    BY <1>8 DEF Finished
  <2>2. /\ UNCHANGED <<input, next, frames, value, outcome>>
        /\ UNCHANGED <<pc, cut, sent, f, index>>
    BY <2>1 DEF vars, decoderVars, parseVars
  <2>3. Now' = Now
    BY <2>2 DEF Now
  <2> QED
    BY <2>2, <2>3 DEF Survived, Parsed, Followed, Sent, Chosen
<1> QED
  BY <1>1, <1>2, <1>3, <1>4, <1>5, <1>6, <1>7, <1>8 DEF Next

LEMMA SurvivedInv == Spec => [](Survived)
<1>1. Init => Typed /\ Blanked
  BY PlacedInit DEF Init, Blanked
<1>2. Typed /\ Blanked /\ [Next]_vars => Typed' /\ Blanked'
  BY TypedNext, BlankedNext
<1>3. Typed /\ Blanked /\ Survived /\ [Next]_vars => Survived'
  BY SurvivedNext
<1> QED
  BY <1>1, <1>2, <1>3, SurvivedInit, PTL DEF Spec

LEMMA ReadAsSent ==
    ASSUME Survived
    PROVE  SurvivesEncoding
<1> SUFFICES ASSUME pc = "end", sent # "blank"
             PROVE  outcome = "done" /\ value = f
  BY DEF SurvivesEncoding
<1>1. Reaches(input, 0, Fresh, next - 1, Now) /\ outcome # "scanning"
  BY DEF Survived, Followed, Chosen
<1>2. PICK n, y : /\ Reaches(input, 0, Fresh, n, y)
                  /\ y.outcome = "done"
                  /\ y.value = f
  BY DEF Survived, Sent, ReadAs
<1>3. Now.outcome = outcome /\ Now.value = value
  BY DEF Now, At3
<1> DEFINE z == Now
           o == next - 1
           i == 0
<1>4. /\ Reaches(input, i, Fresh, o, z) /\ z.outcome # "scanning"
      /\ Reaches(input, i, Fresh, n, y) /\ y.outcome # "scanning"
  BY <1>1, <1>2, <1>3
<1> HIDE DEF z, o, i
<1>5. y = z
  BY <1>4, SameEnd
<1> QED
  BY <1>2, <1>3, <1>5 DEF z

(* Whatever struct parseLine marshals, with whichever encoder, or whatever *)
(* line it sends on as it came, the unmarshalling in file2queue ends well  *)
(* and gives that very struct: no member is lost, renamed, or turned from  *)
(* zero or nil into the other.  Reading is a function of the text, every   *)
(* text either encoder writes reads back as the struct it was written      *)
(* from, and parsing, @timestamp and geoip data keep to what the types of  *)
(* the fields can hold.                                                    *)
THEOREM EncodingSurvived == Spec => []SurvivesEncoding
<1>1. Survived => SurvivesEncoding
  BY ReadAsSent
<1> QED
  BY <1>1, SurvivedInv, PTL

(* An enriched line is indexed under the UTC day of the time stamp it      *)
(* came with, whatever @timestamp it brought along: what parseLine put     *)
(* there is what TimeFromLine reads.                                       *)
THEOREM DayIndexed == Spec => []IndexedUnderItsDay
<1>1. ASSUME Survived
      PROVE  IndexedUnderItsDay
  <2> SUFFICES ASSUME pc = "end", sent = "enriched",
                      f[Timestamp] \in DOMAIN Utc
               PROVE  index = Day[Utc[f[Timestamp]]]
    BY DEF IndexedUnderItsDay
  <2>1. outcome = "done" /\ value = f
    BY <1>1, ReadAsSent DEF SurvivesEncoding
  <2>2. /\ Ltimestamp \in DOMAIN f
        /\ f[Ltimestamp] = At(Utc, f[Timestamp], ZeroTime)
    BY <1>1 DEF Survived, Sent
  <2>3. index = At(Day, f[Ltimestamp], ZeroTime)
    BY <1>1, <2>1, <2>2 DEF Survived, Chosen
  <2>4. f[Ltimestamp] = Utc[f[Timestamp]]
    BY <2>2 DEF At
  <2>5. Utc[f[Timestamp]] \in DOMAIN Day
    BY DEF Day, Range
  <2> QED
    BY <2>3, <2>4, <2>5 DEF At
<1> QED
  BY <1>1, SurvivedInv, PTL
=============================================================================
