--------------------------- MODULE GpsParseProofs ---------------------------
(***************************************************************************)
(* data_conversion finds the fields of a line whatever fields are empty,   *)
(* and the records hold what was sent.                                     *)
(***************************************************************************)
EXTENDS GpsParse, SequenceTheorems, FiniteSetTheorems, WellFoundedInduction, TLAPS

-----------------------------------------------------------------------------
(* Naturals, and FlattenSeq unfolded.                                      *)

\* A non-empty set of naturals has a least member.
LEMMA LeastNat ==
  ASSUME NEW S \in SUBSET Nat, S # {}
  PROVE  \E m \in S : \A q \in S : m <= q
<1>1. PICK m \in S : \A q \in S : ~(<<q, m>> \in OpToRel(<, Nat))
  BY NatLessThanWellFounded, WFMin, Zenon
<1>2. \A q \in S : ~(q < m)
  BY <1>1, Zenon DEF OpToRel
<1>3. QED BY <1>2

\* f[i] is what the first i members of seqs come to.
Flattens(f, seqs, n, T) ==
  /\ f \in [1..n -> Seq(T)]
  /\ \A i \in 1..n : f[i] = IF i = 1 THEN seqs[i] ELSE f[i - 1] \o seqs[i]

LEMMA FlattensUpTo ==
  ASSUME NEW T, NEW seqs \in Seq(Seq(T))
  PROVE  \A n \in 1..Len(seqs) : \E f : Flattens(f, seqs, n, T)
<1> DEFINE S == {n \in 1..Len(seqs) : ~\E f : Flattens(f, seqs, n, T)}
<1>1. SUFFICES ASSUME S # {} PROVE FALSE
  OBVIOUS
<1>2. PICK n \in S : \A q \in S : n <= q
  <2>1. S \in SUBSET Nat
    OBVIOUS
  <2> HIDE DEF S
  <2>2. QED BY <1>1, <2>1, LeastNat
<1>3. n \in 1..Len(seqs) /\ Len(seqs) \in Nat /\ ~\E f : Flattens(f, seqs, n, T)
  OBVIOUS
<1>4. \A i \in 1..n : seqs[i] \in Seq(T)
  BY <1>3
<1>5. CASE n = 1
  <2> DEFINE g == [i \in 1..n |-> seqs[1]]
  <2>0. seqs[1] \in Seq(T) /\ 1..n = {1}
    BY <1>3, <1>4, <1>5
  <2>1. Flattens(g, seqs, n, T)
    BY <2>0 DEF Flattens
  <2>2. QED BY <2>1, <1>3
<1>6. CASE n # 1
  <2>0. n - 1 \in 1..Len(seqs) /\ ~(n <= n - 1)
    BY <1>3, <1>6
  <2>1. n - 1 \in 1..Len(seqs) /\ n - 1 \notin S
    <3> HIDE DEF S
    <3> QED BY <1>2, <2>0
  <2>2. PICK f : Flattens(f, seqs, n - 1, T)
    BY <2>1
  <2> DEFINE g == [i \in 1..n |-> IF i = n THEN f[n - 1] \o seqs[n] ELSE f[i]]
  <2>3. f[n - 1] \o seqs[n] \in Seq(T)
    <3>1. f[n - 1] \in Seq(T) /\ seqs[n] \in Seq(T)
      BY <1>3, <1>4, <2>1, <2>2 DEF Flattens
    <3>2. QED BY <3>1, ConcatProperties
  <2>4. g \in [1..n -> Seq(T)]
    BY <1>3, <2>2, <2>3 DEF Flattens
  <2>5. \A i \in 1..n : g[i] = IF i = 1 THEN seqs[i] ELSE g[i - 1] \o seqs[i]
    <3>1. TAKE i \in 1..n
    <3>2. CASE i = n
      <4>1. n \in 1..n /\ n - 1 \in 1..n /\ n - 1 # n
        BY <1>3, <1>6
      <4>2. g[n] = f[n - 1] \o seqs[n] /\ g[n - 1] = f[n - 1]
        BY <4>1
      <4>3. QED BY <1>6, <3>2, <4>2
    <3>3. CASE i # n
      <4>1. i \in 1..(n - 1) /\ (i # 1 => i - 1 \in 1..n /\ i - 1 # n)
        BY <1>3, <3>3
      <4>2. g[i] = f[i] /\ (i # 1 => g[i - 1] = f[i - 1])
        BY <4>1, <3>3
      <4>3. QED BY <4>1, <4>2, <2>2 DEF Flattens
    <3>4. QED BY <3>2, <3>3
  <2>6. Flattens(g, seqs, n, T)
    BY <2>4, <2>5 DEF Flattens
  <2>7. QED BY <2>6, <1>3
<1>7. QED BY <1>5, <1>6

LEMMA FlattenUnfold ==
  ASSUME NEW T, NEW seqs \in Seq(Seq(T)), Len(seqs) # 0
  PROVE  \E f : Flattens(f, seqs, Len(seqs), T) /\ FlattenSeq(seqs) = f[Len(seqs)]
<1> DEFINE n == Len(seqs)
           F(f) == [i \in 1..n |-> IF i = 1 THEN seqs[i] ELSE f[i - 1] \o seqs[i]]
           C == CHOOSE f : f = F(f)
<1>1. FlattenSeq(seqs) = C[n]
  BY Zenon DEF FlattenSeq
<1>2. PICK f : Flattens(f, seqs, n, T)
  BY FlattensUpTo
<1>3. f = F(f)
  BY <1>2 DEF Flattens
<1>4. C = F(C)
  BY <1>3, Zenon
<1>5. ASSUME NEW i \in 1..n PROVE C[i] = IF i = 1 THEN seqs[i] ELSE C[i - 1] \o seqs[i]
  BY <1>4, Zenon
<1> HIDE DEF C
<1> DEFINE D == {i \in 1..n : C[i] # f[i]}
<1>6. D = {}
  <2>1. SUFFICES ASSUME D # {} PROVE FALSE
    OBVIOUS
  <2>2. PICK i \in D : \A q \in D : i <= q
    <3>1. D \in SUBSET Nat
      OBVIOUS
    <3> HIDE DEF D
    <3>2. QED BY <2>1, <3>1, LeastNat
  <2>3. i \in 1..n /\ C[i] # f[i] /\ n \in Nat
    OBVIOUS
  <2>4. i # 1 => i - 1 \in 1..n /\ i - 1 \notin D
    BY <2>2, <2>3
  <2>5. i # 1 => C[i - 1] = f[i - 1]
    BY <2>4
  <2>6. C[i] = f[i]
    <3>1. f[i] = IF i = 1 THEN seqs[i] ELSE f[i - 1] \o seqs[i]
      BY <1>2, <2>3 DEF Flattens
    <3>2. QED BY <1>5, <2>3, <2>5, <3>1
  <2>7. QED BY <2>3, <2>6
<1>7. n \in 1..n
  OBVIOUS
<1>8. C[n] = f[n]
  BY <1>6, <1>7
<1>9. QED BY <1>1, <1>2, <1>8
-----------------------------------------------------------------------------
(* Where the fields stand in a line.                                       *)

FieldList == Seq(Int \ {Comma, Star})

\* The cells c of the first n fields: B[a] is the comma of field a, the cell
\* behind it is the field, or the next comma if the field is empty.
Laid(c, fields, n, B) ==
  /\ c \in Seq(Int) /\ B \in [1..n -> 1..Len(c)]
  /\ \A a, b \in 1..n : a < b => B[a] < B[b]
  /\ \A p \in 1..Len(c) : c[p] # Star /\ (c[p] = Comma <=> \E a \in 1..n : p = B[a])
  /\ \A a \in 1..n : IF fields[a] = Empty
                       THEN B[a] = Len(c) \/ c[B[a] + 1] = Comma
                       ELSE B[a] < Len(c) /\ c[B[a] + 1] = fields[a]

LEMMA CellsOfType ==
  ASSUME NEW v \in Int \ {Comma, Star}
  PROVE  /\ CellsOf(v) \in Seq(Int) /\ CellsOf(v)[1] = Comma
         /\ IF v = Empty THEN Len(CellsOf(v)) = 1 ELSE Len(CellsOf(v)) = 2 /\ CellsOf(v)[2] = v
  BY DEF CellsOf, Comma

LEMMA LaidGrows ==
  ASSUME NEW fields \in FieldList, NEW n \in Nat, n + 1 \in 1..Len(fields),
         NEW c, NEW B, Laid(c, fields, n, B)
  PROVE  \E D : Laid(c \o CellsOf(fields[n + 1]), fields, n + 1, D)
<1> DEFINE v == fields[n + 1]
           w == CellsOf(v)
           d == c \o w
           m == Len(c)
           D == [a \in 1..(n + 1) |-> IF a = n + 1 THEN m + 1 ELSE B[a]]
<1>1. v \in Int /\ v # Comma /\ v # Star
  BY DEF FieldList
<1>2. w \in Seq(Int) /\ w[1] = Comma /\ (IF v = Empty THEN Len(w) = 1 ELSE Len(w) = 2 /\ w[2] = v)
  BY <1>1, CellsOfType
<1>3. c \in Seq(Int) /\ m \in Nat /\ B \in [1..n -> 1..m]
  BY DEF Laid
<1> HIDE DEF v, w
<1>4. /\ d \in Seq(Int) /\ Len(d) = m + Len(w) /\ Len(d) \in Nat
      /\ \A p \in 1..m : d[p] = c[p]
      /\ d[m + 1] = Comma /\ m + 1 <= Len(d)
      /\ IF v = Empty THEN Len(d) = m + 1 ELSE Len(d) = m + 2 /\ d[m + 2] = v
  <2>1. Len(w) \in 1..2
    BY <1>2
  <2>m. m \in Nat
    BY <1>3
  <2>2. d \in Seq(Int) /\ Len(d) = m + Len(w) /\ \A p \in 1..(m + Len(w)) : d[p] = IF p <= m THEN c[p] ELSE w[p - m]
    BY <1>2, <1>3, ConcatProperties
  <2> HIDE DEF d, m
  <2>a. \A p \in 1..m : p \in 1..(m + Len(w)) /\ p <= m
    BY <2>m, <2>1
  <2>3. \A p \in 1..m : d[p] = c[p]
    BY <2>2, <2>a, Zenon
  <2>4. m + 1 \in 1..(m + Len(w)) /\ (Len(w) = 2 => m + 2 \in 1..(m + Len(w)))
    <3>1. CASE Len(w) = 1
      BY <2>m, <3>1
    <3>2. CASE Len(w) = 2
      BY <2>m, <3>2
    <3>3. QED BY <2>1, <3>1, <3>2
  <2>5. ~(m + 1 <= m) /\ ~(m + 2 <= m) /\ (m + 1) - m = 1 /\ (m + 2) - m = 2
    BY <1>3
  <2>b. d[m + 1] = w[1]
    BY <2>2, <2>4, <2>5, Zenon
  <2>c. Len(w) = 2 => d[m + 2] = w[2]
    BY <2>2, <2>4, <2>5, Zenon
  <2>6. d[m + 1] = w[1] /\ (Len(w) = 2 => d[m + 2] = w[2])
    BY <2>b, <2>c
  <2>7. Len(d) \in Nat /\ m + 1 <= Len(d)
    <3>1. Len(d) = m + Len(w)
      BY <2>2
    <3>2. CASE Len(w) = 1
      BY <2>m, <3>1, <3>2
    <3>3. CASE Len(w) = 2
      BY <2>m, <3>1, <3>3
    <3>4. QED BY <2>1, <3>2, <3>3
  <2>8. IF v = Empty THEN Len(d) = m + 1 ELSE Len(d) = m + 2 /\ d[m + 2] = v
    BY <1>2, <2>2, <2>6
  <2>9. QED BY <1>2, <2>2, <2>3, <2>6, <2>7, <2>8
<1> HIDE DEF d
<1>5. /\ \A a, b \in 1..n : a < b => B[a] < B[b]
      /\ \A p \in 1..m : c[p] # Star /\ (c[p] = Comma <=> \E a \in 1..n : p = B[a])
      /\ \A a \in 1..n : IF fields[a] = Empty
                           THEN B[a] = m \/ c[B[a] + 1] = Comma
                           ELSE B[a] < m /\ c[B[a] + 1] = fields[a]
  BY DEF Laid
<1> HIDE DEF m
<1>6. D[n + 1] = m + 1 /\ \A a \in 1..n : D[a] = B[a] /\ B[a] \in 1..m
  <2>1. n + 1 \in 1..(n + 1) /\ \A a \in 1..n : a \in 1..(n + 1) /\ a # n + 1
    OBVIOUS
  <2>2. QED BY <1>3, <2>1, Zenon
<1>8. \A a \in 1..(n + 1) : a \in 1..n \/ a = n + 1
  OBVIOUS
<1>a. m + 1 \in 1..Len(d) /\ \A q \in 1..m : q \in 1..Len(d)
  <2>1. m \in Nat
    BY <1>3
  <2>2. Len(d) \in Nat /\ m + 1 <= Len(d)
    BY <1>4
  <2>3. QED BY ONLY <2>1, <2>2, SMTT(60)
<1>b. \A a \in 1..(n + 1) : D[a] \in 1..Len(d)
  BY <1>6, <1>8, <1>a, Zenon
<1>7. D \in [1..(n + 1) -> 1..Len(d)]
  <2>1. D = [a \in 1..(n + 1) |-> D[a]]
    OBVIOUS
  <2> HIDE DEF D
  <2>2. QED BY <1>b, <2>1, Zenon
<1> HIDE DEF D
<1>9. ASSUME NEW a \in 1..(n + 1), NEW b \in 1..(n + 1), a < b PROVE D[a] < D[b]
  <2>1. a \in 1..n /\ (b \in 1..n \/ b = n + 1)
    BY <1>8, <1>9
  <2>2. CASE b \in 1..n
    BY <1>5, <1>6, <1>9, <2>1, <2>2
  <2>3. CASE b = n + 1
    <3>1. D[b] = m + 1 /\ D[a] \in 1..m
      BY <1>6, <2>1, <2>3
    <3>2. QED BY <1>3, <3>1
  <2>4. QED BY <2>1, <2>2, <2>3
<1>10. ASSUME NEW p \in 1..Len(d)
       PROVE  d[p] # Star /\ (d[p] = Comma <=> \E a \in 1..(n + 1) : p = D[a])
  <2>1. CASE p \in 1..m
    <3>1. d[p] = c[p]
      BY <1>4, <2>1
    <3>0. p # D[n + 1] /\ \A a \in 1..n : a \in 1..(n + 1)
      BY <1>3, <1>6, <2>1
    <3>2. (\E a \in 1..(n + 1) : p = D[a]) <=> \E a \in 1..n : p = B[a]
      BY <1>6, <1>8, <3>0, Zenon
    <3>3. QED BY <1>5, <2>1, <3>1, <3>2
  <2>2. CASE p = m + 1
    BY <1>4, <1>6, <2>2 DEF Comma, Star
  <2>3. CASE p = m + 2
    <3>1. d[p] = v
      BY <1>3, <1>4, <2>3
    <3>2. \A a \in 1..(n + 1) : p # D[a]
      BY <1>3, <1>6, <1>8, <2>3
    <3>3. QED BY <1>1, <3>1, <3>2
  <2>4. p \in 1..m \/ p = m + 1 \/ p = m + 2
    <3>1. Len(d) = m + 1 \/ Len(d) = m + 2
      BY <1>4
    <3>2. QED BY <1>3, <3>1
  <2>5. QED BY <2>1, <2>2, <2>3, <2>4
<1>11. ASSUME NEW a \in 1..(n + 1)
       PROVE  IF fields[a] = Empty THEN D[a] = Len(d) \/ d[D[a] + 1] = Comma
              ELSE D[a] < Len(d) /\ d[D[a] + 1] = fields[a]
  <2>1. CASE a = n + 1
    <3>1. D[a] = m + 1 /\ D[a] + 1 = m + 2 /\ fields[a] = v
      BY <1>3, <1>6, <2>1 DEF v
    <3>2. Len(d) = m + 2 => m + 1 < Len(d)
      BY <1>3
    <3>3. QED BY <1>4, <3>1, <3>2
  <2>2. CASE a \in 1..n
    <3>1. D[a] = B[a] /\ B[a] \in 1..m
      BY <1>6, <2>2
    <3>a. B[a] < Len(d) /\ (B[a] # m => B[a] + 1 \in 1..m)
      <4>1. m \in Nat /\ Len(d) \in Nat /\ m + 1 <= Len(d)
        BY <1>3, <1>4
      <4>2. QED BY <3>1, <4>1
    <3>b. \A q \in 1..m : d[q] = c[q]
      BY <1>4
    <3>2. B[a] # m => d[B[a] + 1] = c[B[a] + 1]
      BY <3>a, <3>b, Zenon
    <3>3. B[a] = m => d[B[a] + 1] = Comma
      BY <1>4
    <3>4. B[a] < m => B[a] # m
      BY <1>3, <3>1
    <3>5. QED BY <1>5, <2>2, <3>1, <3>a, <3>2, <3>3, <3>4
  <2>3. QED BY <1>8, <2>1, <2>2
<1>12. Laid(d, fields, n + 1, D)
  BY <1>4, <1>7, <1>9, <1>10, <1>11 DEF Laid
<1>13. QED BY <1>12 DEF d, w, v

\* Cells puts every field behind its comma.
LEMMA CellsLaid ==
  ASSUME NEW fields \in FieldList
  PROVE  \E B : Laid(Cells(fields), fields, Len(fields), B)
<1> DEFINE n == Len(fields)
           seqs == [k \in 1..n |-> CellsOf(fields[k])]
<1>1. n \in Nat /\ \A k \in 1..n : fields[k] \in Int \ {Comma, Star}
  BY DEF FieldList
<1>2. \A k \in 1..n : CellsOf(fields[k]) \in Seq(Int)
  BY <1>1, CellsOfType
<1>3. seqs \in Seq(Seq(Int)) /\ Len(seqs) = n /\ \A k \in 1..n : seqs[k] = CellsOf(fields[k])
  BY <1>1, <1>2, SeqDef
<1>4. CASE n = 0
  <2>1. Cells(fields) = seqs
    BY <1>3, <1>4 DEF Cells, FlattenSeq
  <2>2. seqs = <<>>
    BY <1>1, <1>4
  <2>3. Laid(<<>>, fields, 0, <<>>)
    BY DEF Laid
  <2>4. QED BY <1>4, <2>1, <2>2, <2>3
<1>5. CASE n # 0
  <2>0. Cells(fields) = FlattenSeq(seqs)
    BY DEF Cells
  <2> HIDE DEF seqs
  <2>1. PICK f : Flattens(f, seqs, n, Int) /\ FlattenSeq(seqs) = f[n]
    BY <1>3, <1>5, FlattenUnfold
  <2> DEFINE S == {i \in 1..n : ~\E B : Laid(f[i], fields, i, B)}
  <2>2. S = {}
    <3>1. SUFFICES ASSUME S # {} PROVE FALSE
      OBVIOUS
    <3>2. PICK i \in S : \A q \in S : i <= q
      <4>1. S \in SUBSET Nat
        BY <1>1
      <4> HIDE DEF S
      <4>2. QED BY <3>1, <4>1, LeastNat
    <3>3. i \in 1..n /\ ~\E B : Laid(f[i], fields, i, B)
      OBVIOUS
    <3>4. f[i] = IF i = 1 THEN CellsOf(fields[i]) ELSE f[i - 1] \o CellsOf(fields[i])
      BY <1>3, <2>1, <3>3 DEF Flattens
    <3>5. CASE i = 1
      <4>1. Laid(<<>>, fields, 0, <<>>)
        BY DEF Laid
      <4>0. 0 \in Nat /\ 0 + 1 = 1 /\ 0 + 1 \in 1..Len(fields)
        BY <1>1, <3>3, <3>5
      <4>2. \E D : Laid(<<>> \o CellsOf(fields[0 + 1]), fields, 0 + 1, D)
        BY <4>0, <4>1, LaidGrows, Zenon
      <4>3. <<>> \o CellsOf(fields[1]) = CellsOf(fields[1])
        BY <1>2, <3>3, <3>5, ConcatEmptySeq
      <4>4. QED BY <3>3, <3>4, <3>5, <4>0, <4>2, <4>3
    <3>6. CASE i # 1
      <4>1. i - 1 \in Nat /\ i - 1 \in 1..n /\ ~(i <= i - 1) /\ (i - 1) + 1 = i
        BY <1>1, <3>3, <3>6
      <4>2. i - 1 \notin S
        <5> HIDE DEF S
        <5> QED BY <3>2, <4>1
      <4>3. PICK B : Laid(f[i - 1], fields, i - 1, B)
        BY <4>1, <4>2
      <4>4. \E D : Laid(f[i - 1] \o CellsOf(fields[(i - 1) + 1]), fields, (i - 1) + 1, D)
        BY <3>3, <4>1, <4>3, LaidGrows
      <4>5. QED BY <3>3, <3>4, <3>6, <4>1, <4>4
    <3>7. QED BY <3>5, <3>6
  <2>3. n \in 1..n
    BY <1>1, <1>5
  <2>4. QED BY <2>0, <2>1, <2>2, <2>3
<1>6. QED BY <1>4, <1>5
-----------------------------------------------------------------------------
(* What data_conversion finds in a line.                                   *)

LEMMA FirstIsLeast ==
  ASSUME NEW S \in SUBSET Nat, S # {}
  PROVE  First(S) \in S /\ \A q \in S : First(S) <= q
<1>1. \E m \in S : \A q \in S : m <= q
  BY LeastNat
<1>2. QED BY <1>1, Zenon DEF First

\* The members of an increasing list, counted and found again by their rank.
LEMMA Ranks ==
  ASSUME NEW n \in Nat, NEW B \in [1..n -> Nat],
         \A a, b \in 1..n : a < b => B[a] < B[b],
         NEW S, S = {B[a] : a \in 1..n}
  PROVE  Cardinality(S) = n /\ \A a \in 1..n : Nth(S, a - 1) = B[a]
<1>1. ASSUME NEW m \in 0..n PROVE Cardinality({B[b] : b \in 1..m}) = m
  <2> DEFINE T == {B[b] : b \in 1..m}
             f == [b \in 1..m |-> B[b]]
  <2>1. \A b \in 1..m : b \in 1..n
    OBVIOUS
  <2>2. \A a, b \in 1..m : f[a] = f[b] => a = b
    <3>1. TAKE a, b \in 1..m
    <3>2. a \in 1..n /\ b \in 1..n /\ f[a] = B[a] /\ f[b] = B[b] /\ B[a] \in Nat /\ B[b] \in Nat
      BY <2>1
    <3>3. a < b \/ b < a \/ a = b
      BY <3>2
    <3>4. QED BY <3>2, <3>3
  <2>3. f \in [1..m -> T] /\ DOMAIN f = 1..m
    OBVIOUS
  <2>4. \A t \in T : \E b \in 1..m : f[b] = t
    OBVIOUS
  <2> HIDE DEF f, T
  <2>5. f \in Bijection(1..m, T)
    BY <2>2, <2>3, <2>4, Zenon DEF Bijection, Injection, Surjection, IsInjective
  <2>6. ExistsBijection(1..m, T) /\ m \in Nat
    BY <2>5 DEF ExistsBijection
  <2>7. QED BY <2>6, FS_CountingElements DEF T
<1>2. n \in 0..n /\ \A a \in 1..n : a - 1 \in 0..n
  OBVIOUS
<1>3. Cardinality(S) = n
  BY <1>1, <1>2, Zenon
<1>4. ASSUME NEW a \in 1..n PROVE Cardinality({q \in S : q < B[a]}) = a - 1
  <2>1. \A b \in 1..n : B[b] \in Nat /\ (B[b] < B[a] <=> b \in 1..(a - 1))
    <3>1. TAKE b \in 1..n
    <3>2. B[b] \in Nat /\ B[a] \in Nat
      OBVIOUS
    <3>3. b < a \/ a < b \/ a = b
      OBVIOUS
    <3>4. b \in 1..(a - 1) <=> b < a
      OBVIOUS
    <3>5. QED BY <3>2, <3>3, <3>4
  <2>2. \A b \in 1..(a - 1) : b \in 1..n
    OBVIOUS
  <2>3. {q \in S : q < B[a]} = {B[b] : b \in 1..(a - 1)}
    BY <2>1, <2>2, Zenon
  <2>4. QED BY <1>1, <1>2, <2>3, Zenon
<1>5. ASSUME NEW a \in 1..n PROVE Nth(S, a - 1) = B[a]
  <2> DEFINE P(p) == Cardinality({q \in S : q < p}) = a - 1
  <2>1. B[a] \in S /\ P(B[a])
    BY <1>4, Zenon
  <2>2. ASSUME NEW p \in S, P(p) PROVE p = B[a]
    <3>1. PICK b \in 1..n : p = B[b]
      OBVIOUS
    <3>2. Cardinality({q \in S : q < p}) = b - 1
      BY <1>4, <3>1, Zenon
    <3>3. b - 1 = a - 1
      BY <2>2, <3>2, Zenon
    <3>4. b = a
      BY <3>3
    <3>5. QED BY <3>1, <3>4
  <2>3. Nth(S, a - 1) = CHOOSE p \in S : P(p)
    BY Zenon DEF Nth
  <2> HIDE DEF P
  <2>4. QED BY <2>1, <2>2, <2>3, Zenon
<1>6. QED BY <1>3, <1>5

\* What a section shows of a field: the number or letter, or, if the field is
\* empty, the comma or star behind it, of which atoi and the tests of a letter
\* make the same.
Seen(v) == IF v = Empty THEN {Comma, Star} ELSE {v}

NothingFound(line, conv, max) ==
  /\ \A k \in 0..(max - 1) : conv.section[k] = 0
  /\ conv.count = 0 \/ StarFirst(line)

AllFound(line, conv, max, fields) ==
  /\ Len(fields) > 0 /\ conv.count = Min2(Len(fields), max) - 1
  /\ \A k \in 0..(max - 1) :
        IF k < Len(fields)
        THEN conv.section[k] \in 1..Len(line) /\ line[conv.section[k]] \in Seen(fields[k + 1])
        ELSE conv.section[k] = 0

LEMMA CellsConvert ==
  ASSUME NEW fields \in FieldList, NEW max \in 1..19
  PROVE  /\ Cells(fields) \in Seq(Int)
         /\ NothingFound(Cells(fields), data_conversion(Cells(fields), max), max)
<1>1. PICK B : Laid(Cells(fields), fields, Len(fields), B)
  BY CellsLaid
<1> DEFINE c == Cells(fields)
<1>2. c \in Seq(Int) /\ \A p \in 1..Len(c) : c[p] # Star
  BY <1>1 DEF Laid
<1> HIDE DEF c
<1>3. Positions(c, Star) = {}
  BY <1>2 DEF Positions
<1>4. data_conversion(c, max) = [count |-> 0, section |-> [k \in 0..(max - 1) |-> 0]]
  BY <1>3, Zenon DEF data_conversion
<1>5. QED BY <1>2, <1>4 DEF NothingFound, c

LEMMA LineConvert ==
  ASSUME NEW fields \in FieldList, NEW max \in 1..19
  PROVE  /\ Line(fields) \in Seq(Int)
         /\ \/ NothingFound(Line(fields), data_conversion(Line(fields), max), max)
            \/ AllFound(Line(fields), data_conversion(Line(fields), max), max, fields)
<1> DEFINE c == Cells(fields)
           n == Len(fields)
           m == Len(c)
           line == Line(fields)
           commas == Positions(line, Comma)
           stars == Positions(line, Star)
           conv == data_conversion(line, max)
<1>1. PICK B : Laid(c, fields, n, B)
  BY CellsLaid
<1>2. n \in Nat /\ m \in Nat /\ c \in Seq(Int) /\ B \in [1..n -> 1..m]
  BY <1>1 DEF Laid, FieldList
<1>3. /\ \A a, b \in 1..n : a < b => B[a] < B[b]
      /\ \A p \in 1..m : c[p] # Star /\ (c[p] = Comma <=> \E a \in 1..n : p = B[a])
      /\ \A a \in 1..n : IF fields[a] = Empty
                         THEN B[a] = m \/ c[B[a] + 1] = Comma
                         ELSE B[a] < m /\ c[B[a] + 1] = fields[a]
  BY <1>1 DEF Laid
<1>4. line \in Seq(Int) /\ Len(line) = m + 1 /\ line[m + 1] = Star /\ \A p \in 1..m : line[p] = c[p]
  <2>1. Star \in Int /\ line = Append(c, Star)
    BY DEF Star, Line
  <2> HIDE DEF line, c
  <2>2. QED BY <1>2, <2>1, AppendProperties
<1> HIDE DEF c, n, m, line
<1>5. stars = {m + 1}
  <2>1. \A p \in 1..(m + 1) : p \in 1..m \/ p = m + 1
    BY <1>2
  <2>2. m + 1 \in 1..(m + 1)
    BY <1>2
  <2>3. stars = {p \in 1..(m + 1) : line[p] = Star}
    BY <1>4, Zenon DEF Positions
  <2>4. \A p \in 1..m : line[p] # Star
    BY <1>3, <1>4, Zenon
  <2>5. QED BY <1>4, <2>1, <2>2, <2>3, <2>4, Zenon
<1>6. commas = {B[a] : a \in 1..n}
  <2>1. \A p \in 1..(m + 1) : line[p] = Comma <=> \E a \in 1..n : p = B[a]
    <3>1. TAKE p \in 1..(m + 1)
    <3>2. CASE p = m + 1
      <4>1. \A a \in 1..n : m + 1 # B[a]
        BY <1>2
      <4>2. Star # Comma
        BY DEF Star, Comma
      <4>3. QED BY <1>4, <3>2, <4>1, <4>2
    <3>3. CASE p \in 1..m
      BY <1>3, <1>4, <3>3
    <3>4. QED BY <1>2, <3>2, <3>3
  <2>2. \A a \in 1..n : B[a] \in 1..(m + 1)
    BY <1>2
  <2>3. commas = {p \in 1..(m + 1) : line[p] = Comma}
    BY <1>4, Zenon DEF Positions
  <2>4. QED BY <2>1, <2>2, <2>3, Zenon
<1>7. First(stars) = m + 1
  <2>1. m + 1 \in Nat
    BY <1>2
  <2>2. QED BY <1>5, <2>1, FirstIsLeast
<1>8. {p \in commas : p < First(stars)} = commas
  <2>1. \A a \in 1..n : B[a] < m + 1
    BY <1>2
  <2>2. QED BY <1>6, <1>7, <2>1
<1>9. Cardinality(commas) = n /\ \A a \in 1..n : Nth(commas, a - 1) = B[a]
  <2>1. B \in [1..n -> Nat]
    BY <1>2
  <2> HIDE DEF commas
  <2>2. n \in Nat /\ \A a, b \in 1..n : a < b => B[a] < B[b]
    BY <1>2, <1>3
  <2>3. QED BY <1>6, <2>1, <2>2, Ranks, ZenonT(40)
<1> DEFINE found == Min2(n, max)
           sections == [k \in 0..(max - 1) |-> IF k < found THEN SectionAt(line, Nth(commas, k)) ELSE 0]
<1>10. \/ conv = [count |-> 0, section |-> [k \in 0..(max - 1) |-> 0]]
       \/ commas # {} /\ conv = [count |-> LastSection(found), section |-> sections]
  BY <1>8, <1>9, Zenon DEF data_conversion
<1>11. CASE conv = [count |-> 0, section |-> [k \in 0..(max - 1) |-> 0]]
  BY <1>4, <1>11 DEF NothingFound, line
<1>12. CASE commas # {} /\ conv = [count |-> LastSection(found), section |-> sections]
  <2>1. n > 0 /\ found \in 1..max /\ found <= n /\ (found # max => found = n)
    <3>1. n # 0
      BY <1>6, <1>12
    <3>2. QED BY <1>2, <3>1 DEF Min2
  <2>2. LastSection(found) = found - 1
    <3> HIDE DEF found
    <3>1. found - 1 \in 0..18
      BY <2>1
    <3>2. ByteRange \in Nat /\ ByteRange >= 41
      BY GpsAssumption
    <3>3. QED BY <3>1, <3>2 DEF LastSection
  <2>3. ASSUME NEW k \in 0..(max - 1), k < found
        PROVE  sections[k] \in 1..(m + 1) /\ line[sections[k]] \in Seen(fields[k + 1])
    <3> DEFINE a == k + 1
    <3>1. a \in 1..n /\ a - 1 = k
      BY <1>2, <2>1, <2>3
    <3> HIDE DEF a
    <3>2. sections[k] = SectionAt(line, B[a])
      BY <1>9, <2>3, <3>1, Zenon
    <3>3. B[a] \in 1..m /\ B[a] + 1 \in 1..(m + 1) /\ B[a] \in 1..(m + 1)
      BY <1>2, <3>1
    <3>4. line[B[a]] = Comma
      BY <1>3, <1>4, <3>1, <3>3
    <3>a. B[a] # m => B[a] + 1 \in 1..m
      BY <1>2, <3>3
    <3>5. line[B[a] + 1] = IF B[a] = m THEN Star ELSE c[B[a] + 1]
      BY <1>4, <3>a
    <3>6. CASE fields[a] = Empty
      BY <1>3, <3>1, <3>2, <3>3, <3>4, <3>5, <3>6 DEF SectionAt, Seen, a
    <3>7. CASE fields[a] # Empty
      <4>1. line[B[a] + 1] = fields[a] /\ fields[a] # Comma
        <5>1. B[a] # m
          BY <1>2, <1>3, <3>1, <3>3, <3>7
        <5>2. fields[a] # Comma
          BY <3>1 DEF FieldList, n
        <5>3. QED BY <1>3, <3>1, <3>5, <3>7, <5>1, <5>2
      <4>2. QED BY <3>2, <3>3, <3>7, <4>1 DEF SectionAt, Seen, a
    <3>8. QED BY <3>6, <3>7
  <2>4. ASSUME NEW k \in 0..(max - 1)
        PROVE  IF k < n THEN conv.section[k] \in 1..(m + 1) /\ line[conv.section[k]] \in Seen(fields[k + 1])
               ELSE conv.section[k] = 0
    <3>1. k < n <=> k < found
      BY <1>2, <2>1
    <3>2. conv.section[k] = sections[k] /\ (~(k < found) => sections[k] = 0)
      BY <1>12
    <3> HIDE DEF sections, conv, found
    <3>3. QED BY <2>3, <3>1, <3>2
  <2>5. conv.count = found - 1
    BY <1>12, <2>2
  <2>6. AllFound(line, conv, max, fields)
    <3> HIDE DEF conv
    <3> QED BY <1>4, <2>1, <2>4, <2>5 DEF AllFound, n
  <2>7. QED BY <1>4, <2>6 DEF line
<1>13. QED BY <1>10, <1>11, <1>12

LEMMA StarConvert ==
  ASSUME NEW fields \in FieldList, NEW max \in 1..19,
         NEW line, line = <<Star>> \o Line(fields)
  PROVE  line \in Seq(Int) /\ NothingFound(line, data_conversion(line, max), max)
<1> DEFINE commas == Positions(line, Comma)
           stars == Positions(line, Star)
           conv == data_conversion(line, max)
<1>1. line \in Seq(Int) /\ Len(line) \in Nat /\ Len(line) >= 1 /\ line[1] = Star
  <2>1. Line(fields) \in Seq(Int) /\ <<Star>> \in Seq(Int) /\ Len(<<Star>>) = 1 /\ <<Star>>[1] = Star
    BY LineConvert DEF Star
  <2> DEFINE t == Line(fields)
             s == <<Star>>
  <2> HIDE DEF t, s
  <2>2. line \in Seq(Int) /\ Len(line) = Len(s) + Len(t) /\ Len(t) \in Nat
        /\ \A i \in 1..(Len(s) + Len(t)) : line[i] = IF i <= Len(s) THEN s[i] ELSE t[i - Len(s)]
    BY <2>1, ConcatProperties DEF s, t
  <2>3. Len(s) = 1 /\ s[1] = Star
    BY <2>1 DEF s
  <2>4. 1 \in 1..(Len(s) + Len(t)) /\ 1 <= Len(s) /\ Len(s) + Len(t) >= 1
    BY <2>2, <2>3
  <2>5. QED BY <2>2, <2>3, <2>4
<1>2. stars \in SUBSET Nat /\ 1 \in stars
  BY <1>1 DEF Positions
<1>3. First(stars) = 1
  <2>1. stars # {} /\ \A p \in stars : p >= 1
    <3>1. \A p \in 1..Len(line) : p >= 1
      BY <1>1
    <3>2. QED BY <1>2, <3>1, Zenon DEF Positions
  <2> HIDE DEF stars
  <2>2. First(stars) \in stars /\ First(stars) <= 1
    BY <1>2, <2>1, FirstIsLeast
  <2>3. First(stars) \in Nat /\ First(stars) >= 1
    BY <1>2, <2>1, <2>2, Zenon
  <2>4. QED BY <2>2, <2>3
<1>4. commas \in SUBSET Nat /\ \A p \in commas : p > 1
  <2>1. \A p \in commas : p \in 1..Len(line) /\ line[p] = Comma
    BY DEF Positions
  <2>2. \A p \in commas : p # 1
    BY <1>1, <2>1 DEF Star, Comma
  <2>3. QED BY <1>1, <2>1, <2>2
<1>5. {p \in commas : p < First(stars)} = {}
  BY <1>3, <1>4
<1>6. Min2(Cardinality({}), max) = 0
  BY FS_EmptySet DEF Min2
<1> DEFINE sections == [k \in 0..(max - 1) |-> IF k < 0 THEN SectionAt(line, Nth({}, k)) ELSE 0]
<1>7. \/ conv = [count |-> 0, section |-> [k \in 0..(max - 1) |-> 0]]
      \/ commas # {} /\ conv = [count |-> LastSection(0), section |-> sections]
  BY <1>5, <1>6, Zenon DEF data_conversion
<1>8. CASE conv = [count |-> 0, section |-> [k \in 0..(max - 1) |-> 0]]
  BY <1>1, <1>8 DEF NothingFound
<1>9. CASE commas # {} /\ conv = [count |-> LastSection(0), section |-> sections]
  <2>1. \A k \in 0..(max - 1) : ~(k < 0)
    OBVIOUS
  <2>2. \A k \in 0..(max - 1) : conv.section[k] = 0
    BY <1>9, <2>1
  <2>3. StarFirst(line)
    <3> HIDE DEF commas
    <3>1. First(commas) \in commas
      BY <1>4, <1>9, FirstIsLeast
    <3>2. stars # {} /\ First(stars) < First(commas)
      BY <1>2, <1>3, <1>4, <3>1
    <3>3. QED BY <1>9, <3>2 DEF StarFirst, commas
  <2>4. QED BY <1>1, <2>2, <2>3 DEF NothingFound
<1>10. QED BY <1>7, <1>8, <1>9

\* In every line that may come for a list of fields, data_conversion finds
\* either nothing or all of them, as far as there is room.
LEMMA Converts ==
  ASSUME NEW fields \in FieldList, NEW max \in 1..19, NEW line \in Lines(fields)
  PROVE  /\ line \in Seq(Int)
         /\ \/ NothingFound(line, data_conversion(line, max), max)
            \/ AllFound(line, data_conversion(line, max), max, fields)
<1>1. line = Line(fields) \/ line = Cells(fields) \/ line = <<Star>> \o Line(fields)
  BY Zenon DEF Lines
<1>2. QED BY <1>1, LineConvert, CellsConvert, StarConvert, Zenon
-----------------------------------------------------------------------------
(* The records of GGA and RMC.                                             *)

Shown(v) == IF v = Empty THEN Comma ELSE v

\* Cells of which a record keeps the same.
Alike(x, y) ==
  /\ x \in Int /\ y \in Int /\ atoi(x) = atoi(y)
  /\ Sign(x, Letter.N, Letter.S) = Sign(y, Letter.N, Letter.S)
  /\ Sign(x, Letter.E, Letter.W) = Sign(y, Letter.E, Letter.W)
  /\ Sign(x, Letter.V, Letter.A) = Sign(y, Letter.V, Letter.A)

LEMMA SeenAlike ==
  ASSUME NEW v \in Int \ {Comma, Star}, NEW x \in Seen(v)
  PROVE  Alike(x, Shown(v))
<1>1. CASE v = Empty
  <2>1. x \in {-1, -2} /\ Shown(v) = -1
    BY <1>1 DEF Seen, Shown, Comma, Star
  <2>2. QED BY <2>1 DEF Alike, atoi, Sign, Letter
<1>2. CASE v # Empty
  BY <1>2 DEF Seen, Shown, Alike
<1>3. QED BY <1>1, <1>2

\* A record that was filled holds the fields of its line.
LEMMA Decoded ==
  ASSUME NEW fields \in FieldList, NEW max \in {12, 14}, NEW line \in Lines(fields),
         NEW F, F = [k \in 0..8 |-> line[data_conversion(line, max).section[k]]],
         ~Missing(data_conversion(line, max), 0..8),
         NEW G, G = [k \in 0..8 |-> Field(fields, k)]
  PROVE  /\ GgaRecord(F) = GgaRecord(G) /\ RmcRecord(F) = RmcRecord(G)
         /\ GgaRecord(F).sat_in_view \in 0..(ByteRange - 1)
         /\ RmcRecord(F).position_status \in {-1, 0, 1} /\ "position_status" \in DOMAIN RmcRecord(F)
<1> DEFINE conv == data_conversion(line, max)
<1>1. AllFound(line, conv, max, fields)
  <2>0. max \in 1..19 /\ 0 \in 0..8
    OBVIOUS
  <2>1. NothingFound(line, conv, max) \/ AllFound(line, conv, max, fields)
    BY <2>0, Converts, Zenon
  <2>2. conv.section[0] # 0
    BY <2>0, Zenon DEF Missing
  <2>3. 0 \in 0..(max - 1)
    OBVIOUS
  <2> HIDE DEF conv
  <2>4. QED BY <2>1, <2>2, <2>3 DEF NothingFound
<1>2. ASSUME NEW k \in 0..8
      PROVE  Alike(F[k], G[k])
  <2>1. k \in 0..(max - 1) /\ conv.section[k] # 0
    BY DEF Missing
  <2> HIDE DEF conv
  <2>2. k < Len(fields) /\ line[conv.section[k]] \in Seen(fields[k + 1])
    BY <1>1, <2>1 DEF AllFound
  <2>3. k + 1 \in 1..Len(fields)
    BY <2>2 DEF FieldList
  <2>4. fields[k + 1] \in Int \ {Comma, Star}
    BY <2>3 DEF FieldList
  <2>5. F[k] = line[conv.section[k]] /\ G[k] = Shown(fields[k + 1])
    BY DEF conv, Field, Shown
  <2>6. F[k] \in Seen(fields[k + 1])
    BY <2>2, <2>5
  <2>7. QED BY <2>4, <2>5, <2>6, SeenAlike
<1> HIDE DEF conv
<1>a. /\ 0 \in 0..8 /\ 1 \in 0..8 /\ 2 \in 0..8 /\ 3 \in 0..8 /\ 4 \in 0..8
      /\ 5 \in 0..8 /\ 6 \in 0..8 /\ 7 \in 0..8 /\ 8 \in 0..8
  OBVIOUS
<1>b. /\ Alike(F[0], G[0]) /\ Alike(F[1], G[1]) /\ Alike(F[2], G[2]) /\ Alike(F[3], G[3])
      /\ Alike(F[4], G[4]) /\ Alike(F[5], G[5]) /\ Alike(F[6], G[6]) /\ Alike(F[7], G[7])
      /\ Alike(F[8], G[8])
  BY <1>2, <1>a, Zenon
<1>3. GgaRecord(F) = GgaRecord(G)
  BY <1>b, Zenon DEF Alike, GgaRecord
<1>4. RmcRecord(F) = RmcRecord(G)
  BY <1>b, Zenon DEF Alike, RmcRecord
<1>5. GgaRecord(F).sat_in_view \in 0..(ByteRange - 1)
  <2>1. atoi(F[6]) \in Int /\ ByteRange \in Nat \ {0}
    BY <1>b, GpsAssumption DEF Alike, atoi
  <2>2. GgaRecord(F).sat_in_view = atoi(F[6]) % ByteRange
    BY DEF GgaRecord
  <2>3. QED BY <2>1, <2>2
<1>6. RmcRecord(F).position_status \in {-1, 0, 1} /\ "position_status" \in DOMAIN RmcRecord(F)
  BY DEF RmcRecord, Sign
<1>7. QED BY <1>3, <1>4, <1>5, <1>6

\* A section that is missing is missing because of a star before the comma.
LEMMA MissingIsStarFirst ==
  ASSUME NEW fields \in FieldList, NEW max \in {12, 14}, NEW line \in Lines(fields),
         NEW need \in {8, 9}, data_conversion(line, max).count >= need, Missing(data_conversion(line, max), 0..8)
  PROVE  Undefined(line) = "star first"
<1> DEFINE conv == data_conversion(line, max)
<1>0. max \in 1..19
  OBVIOUS
<1>1. NothingFound(line, conv, max) \/ AllFound(line, conv, max, fields)
  BY <1>0, Converts, Zenon
<1>2. PICK k \in 0..8 : conv.section[k] = 0
  BY DEF Missing
<1>3. conv.count >= need
  OBVIOUS
<1> HIDE DEF conv
<1>4. ~AllFound(line, conv, max, fields)
  <2>1. SUFFICES ASSUME AllFound(line, conv, max, fields) PROVE FALSE
    OBVIOUS
  <2>2. Len(fields) \in Nat
    BY DEF FieldList
  <2>3. Len(fields) >= 9
    BY <1>3, <2>1, <2>2 DEF AllFound, Min2
  <2>4. k \in 0..(max - 1) /\ k < Len(fields)
    BY <2>2, <2>3
  <2>5. conv.section[k] \in 1..Len(line)
    BY <2>1, <2>4 DEF AllFound
  <2>6. QED BY <1>2, <2>5
<1>5. StarFirst(line)
  BY <1>1, <1>3, <1>4 DEF NothingFound
<1>6. QED BY <1>5 DEF Undefined
-----------------------------------------------------------------------------
(* The fields of a GSV message.                                            *)

\* b consists of the m members of s, four cells each.
Fours(b, s, m) ==
  Len(b) = 4 * m /\ \A j \in 1..m, i \in 1..4 : b[4 * (j - 1) + i] = s[j][i]

LEMMA FlattenFours ==
  ASSUME NEW T, NEW m \in Nat, NEW s \in [1..m -> Seq(T)], \A j \in 1..m : Len(s[j]) = 4
  PROVE  FlattenSeq(s) \in Seq(T) /\ Fours(FlattenSeq(s), s, m)
<1>1. s \in Seq(Seq(T)) /\ Len(s) = m
  BY SeqDef
<1>2. CASE m = 0
  <2>1. s = <<>>
    BY <1>1, <1>2
  <2>2. FlattenSeq(s) = <<>>
    BY <1>1, <1>2, <2>1 DEF FlattenSeq
  <2>3. QED BY <1>2, <2>2 DEF Fours
<1>3. CASE m # 0
  <2>1. PICK f : Flattens(f, s, m, T) /\ FlattenSeq(s) = f[m]
    BY <1>1, <1>3, FlattenUnfold
  <2> DEFINE Good(n) == /\ f[n] \in Seq(T) /\ Len(f[n]) = 4 * n
                        /\ \A j \in 1..n, i \in 1..4 : f[n][4 * (j - 1) + i] = s[j][i]
             S == {n \in 1..m : ~Good(n)}
  <2>2. S = {}
    <3>1. SUFFICES ASSUME S # {} PROVE FALSE
      OBVIOUS
    <3>2. PICK n \in S : \A q \in S : n <= q
      <4>1. S \in SUBSET Nat
        OBVIOUS
      <4> HIDE DEF S
      <4>2. QED BY <3>1, <4>1, LeastNat
    <3>3. n \in 1..m /\ ~Good(n)
      OBVIOUS
    <3>4. s[n] \in Seq(T) /\ Len(s[n]) = 4
      BY <3>3
    <3>5. f[n] = IF n = 1 THEN s[n] ELSE f[n - 1] \o s[n]
      BY <2>1, <3>3 DEF Flattens
    <3>6. CASE n = 1
      <4>1. f[1] = s[1] /\ s[1] \in Seq(T) /\ Len(s[1]) = 4
        BY <3>4, <3>5, <3>6
      <4>2. \A j \in 1..1, i \in 1..4 : j = 1 /\ 4 * (j - 1) + i = i
        OBVIOUS
      <4>3. Good(1)
        BY <4>1, <4>2
      <4>4. QED BY <3>3, <3>6, <4>3
    <3>7. CASE n # 1
      <4> DEFINE l == n - 1
                 g == f[l]
      <4>1. l \in 1..m /\ ~(n <= l) /\ n = l + 1
        BY <3>3, <3>7
      <4>2. l \notin S
        <5> HIDE DEF S, l
        <5> QED BY <3>2, <4>1
      <4>3. Good(l)
        BY <4>1, <4>2
      <4>4. g \in Seq(T) /\ Len(g) = 4 * l /\ \A j \in 1..l, i \in 1..4 : g[4 * (j - 1) + i] = s[j][i]
        BY <4>3
      <4>5. f[n] = g \o s[n]
        BY <3>5, <3>7
      <4> HIDE DEF Good, S, g, l
      <4>6. /\ f[n] \in Seq(T) /\ Len(f[n]) = Len(g) + Len(s[n])
            /\ \A p \in 1..(Len(g) + Len(s[n])) : f[n][p] = IF p <= Len(g) THEN g[p] ELSE s[n][p - Len(g)]
        <5> DEFINE w == s[n]
        <5>1. g \in Seq(T) /\ w \in Seq(T) /\ f[n] = g \o w
          BY <3>4, <4>4, <4>5
        <5> HIDE DEF w
        <5>2. /\ g \o w \in Seq(T) /\ Len(g \o w) = Len(g) + Len(w)
              /\ \A p \in 1..(Len(g) + Len(w)) : (g \o w)[p] = IF p <= Len(g) THEN g[p] ELSE w[p - Len(g)]
          BY <5>1, ConcatProperties
        <5>3. QED BY <5>1, <5>2 DEF w
      <4>7. Len(g) = 4 * l /\ Len(s[n]) = 4
        BY <3>4, <4>4
      <4>8. Len(f[n]) = 4 * n
        BY <4>1, <4>6, <4>7
      <4>9. \A p \in 1..(4 * l + 4) : f[n][p] = IF p <= 4 * l THEN g[p] ELSE s[n][p - 4 * l]
        BY <4>6, <4>7
      <4>10. ASSUME NEW j \in 1..n, NEW i \in 1..4 PROVE f[n][4 * (j - 1) + i] = s[j][i]
        <5> DEFINE p == 4 * (j - 1) + i
        <5>1. CASE j = n
          <6>1. p \in 1..(4 * l + 4) /\ ~(p <= 4 * l) /\ p - 4 * l = i
            BY <4>1, <5>1
          <6> HIDE DEF p
          <6>2. f[n][p] = s[n][i]
            BY <4>9, <6>1
          <6>3. QED BY <5>1, <6>2 DEF p
        <5>2. CASE j # n
          <6>1. j \in 1..l /\ p \in 1..(4 * l + 4) /\ p <= 4 * l
            BY <4>1, <5>2
          <6>2. g[p] = s[j][i]
            BY <4>4, <6>1
          <6> HIDE DEF p
          <6>3. f[n][p] = g[p]
            BY <4>9, <6>1
          <6>4. QED BY <6>2, <6>3 DEF p
        <5>3. QED BY <5>1, <5>2
      <4>11. Good(n)
        BY <4>6, <4>8, <4>10 DEF Good
      <4>12. QED BY <3>3, <4>11
    <3>8. QED BY <3>6, <3>7
  <2>3. m \in 1..m
    BY <1>3
  <2>4. Good(m)
    BY <2>2, <2>3
  <2>5. QED BY <2>1, <2>4 DEF Fours
<1>4. QED BY <1>2, <1>3

Cycle == [n : SatCounts, parity : {0, 1}, next : Nat \ {0}, id : BOOLEAN]

\* How many satellites message no carries.
Carried(c, no) == Min2(c.n, 4 * no) - 4 * (no - 1)

LEMMA MessageBounds ==
  ASSUME NEW c \in Cycle, NEW no \in Nat \ {0}, no <= Total(c.n)
  PROVE  /\ c.n \in 0..ByteRange /\ ByteRange \in Nat /\ ByteRange >= 41
         /\ no < ByteRange /\ 4 * (no - 1) < ByteRange
         /\ Carried(c, no) \in 0..4 /\ Cardinality(InMessage(c, no)) = Carried(c, no)
         /\ \A s \in Nat : (s < c.n /\ (s \div 4) + 1 = no) <=> (s - 4 * (no - 1) \in 0..(Carried(c, no) - 1))
<1> DEFINE n == c.n
<1>1. n \in 0..ByteRange /\ ByteRange \in Nat /\ ByteRange >= 41
  <2>1. n \in SatCounts
    BY DEF Cycle
  <2>2. SatCounts \subseteq 0..ByteRange /\ ByteRange \in Nat \ {0} /\ MaxView \in 1..ByteRange
        /\ MaxView + 40 <= ByteRange
    BY GpsAssumption
  <2>3. ByteRange >= 41
    BY <2>2
  <2>4. QED BY <2>1, <2>2, <2>3
<1>2. no <= IF n = 0 THEN 1 ELSE (n + 3) \div 4
  BY DEF Total
<1> HIDE DEF n
<1>3. (n = 0 => no = 1) /\ (n # 0 => 4 * (no - 1) < n)
  BY <1>1, <1>2
<1>4. no < ByteRange /\ 4 * (no - 1) < ByteRange
  BY <1>1, <1>3
<1>5. Carried(c, no) = (IF n < 4 * no THEN n ELSE 4 * no) - 4 * (no - 1)
  BY DEF Carried, Min2, n
<1> DEFINE m == Carried(c, no)
<1>6. m \in 0..4
  BY <1>1, <1>3, <1>5
<1>7. Cardinality(InMessage(c, no)) = m
  <2>1. InMessage(c, no) = (4 * (no - 1))..(m + 4 * (no - 1) - 1)
    BY <1>1, <1>5 DEF InMessage, Min2, n
  <2> HIDE DEF m
  <2>2. Cardinality((4 * (no - 1))..(m + 4 * (no - 1) - 1)) = m
    <3> DEFINE a == 4 * (no - 1)
               b == m + 4 * (no - 1) - 1
    <3>1. a \in Int /\ b \in Int /\ (a > b => m = 0) /\ b - a + 1 = m
      BY <1>6
    <3> HIDE DEF a, b
    <3>2. Cardinality(a..b) = IF a > b THEN 0 ELSE b - a + 1
      BY <3>1, FS_Interval
    <3>3. QED BY <3>1, <3>2 DEF a, b
  <2>3. QED BY <2>1, <2>2
<1>8. \A s \in Nat : (s < n /\ (s \div 4) + 1 = no) <=> (s - 4 * (no - 1) \in 0..(m - 1))
  BY <1>1, <1>3, <1>5
<1>9. QED BY <1>1, <1>4, <1>6, <1>7, <1>8 DEF n

LEMMA SatType ==
  ASSUME NEW parity \in {0, 1}, NEW k \in Nat
  PROVE  Sat(parity, k) \in FieldList /\ Len(Sat(parity, k)) = 4
<1>1. 32 * parity + k + 1 \in Nat /\ 40 + k \in Nat /\ 300 + k \in Nat
  OBVIOUS
<1>2. Nat \subseteq Int \ {Comma, Star} /\ Empty \in Int \ {Comma, Star} /\ 30 \in Nat
  BY DEF Comma, Star, Empty
<1>3. QED BY <1>1, <1>2 DEF Sat, FieldList

LEMMA GsvFieldsAre ==
  ASSUME NEW c \in Cycle, NEW no \in Nat \ {0}, no <= Total(c.n), NEW printed \in Nat,
         NEW f, f = GsvFields(c, no, printed)
  PROVE  /\ f \in FieldList
         /\ Len(f) = 3 + 4 * Carried(c, no) + (IF c.id THEN 1 ELSE 0)
         /\ f[2] = printed /\ f[3] = c.n
         /\ \A j \in 0..(Carried(c, no) - 1), i \in 1..4 :
               f[3 + 4 * j + i] = Sat(c.parity, 4 * (no - 1) + j)[i]
<1> DEFINE m == Carried(c, no)
           V == Int \ {Comma, Star}
           s == [j \in 1..m |-> Sat(c.parity, 4 * (no - 1) + j - 1)]
           h == <<Total(c.n), printed, c.n>>
           t == IF c.id THEN <<1>> ELSE <<>>
           b == FlattenSeq(s)
<1>1. /\ m \in 0..4 /\ c.n \in Nat /\ c.parity \in {0, 1} /\ c.id \in BOOLEAN
      /\ Cardinality(InMessage(c, no)) = m
  BY MessageBounds DEF Cycle
<1>2. f = (h \o b) \o t
  BY <1>1, Zenon DEF GsvFields
<1> HIDE DEF m
<1>3. \A j \in 1..m : 4 * (no - 1) + j - 1 \in Nat
  BY <1>1
<1>4. s \in [1..m -> Seq(V)] /\ \A j \in 1..m : Len(s[j]) = 4
  <2>1. ASSUME NEW j \in 1..m PROVE s[j] \in Seq(V) /\ Len(s[j]) = 4
    <3>1. s[j] = Sat(c.parity, 4 * (no - 1) + j - 1)
      OBVIOUS
    <3> HIDE DEF s
    <3>2. c.parity \in {0, 1} /\ 4 * (no - 1) + j - 1 \in Nat
      BY <1>1, <1>3
    <3> DEFINE k == 4 * (no - 1) + j - 1
               pr == c.parity
    <3>3. pr \in {0, 1} /\ k \in Nat
      BY <3>2
    <3> HIDE DEF k, pr
    <3>4. Sat(pr, k) \in FieldList /\ Len(Sat(pr, k)) = 4
      BY <3>3, SatType, Zenon
    <3>5. QED BY <3>1, <3>4 DEF FieldList, k, pr
  <2>2. s = [j \in 1..m |-> s[j]]
    OBVIOUS
  <2> HIDE DEF s, V
  <2>3. QED BY <2>1, <2>2, Zenon
<1>5. /\ b \in Seq(V) /\ Len(b) = 4 * m
      /\ \A j \in 1..m, i \in 1..4 : b[4 * (j - 1) + i] = s[j][i]
  <2> HIDE DEF s, V
  <2>1. m \in Nat
    BY <1>1
  <2>2. m \in Nat /\ s \in [1..m -> Seq(V)] /\ \A j \in 1..m : Len(s[j]) = 4
    BY <2>1, <1>4
  <2>3. b \in Seq(V) /\ Fours(b, s, m)
    BY <2>2, FlattenFours, Zenon
  <2>4. QED BY <2>3 DEF Fours
<1>6. Nat \subseteq V /\ Total(c.n) \in Nat
  BY <1>1 DEF Comma, Star, Total
<1>7. h \in Seq(V) /\ Len(h) = 3 /\ h[2] = printed /\ h[3] = c.n
  BY <1>1, <1>6
<1>8. t \in Seq(V) /\ Len(t) = IF c.id THEN 1 ELSE 0
  <2>1. 1 \in V
    BY <1>6
  <2> HIDE DEF V
  <2>2. CASE c.id
    BY <2>1, <2>2
  <2>3. CASE ~c.id
    BY <2>3
  <2>4. QED BY <1>1, <2>2, <2>3
<1> DEFINE hb == h \o b
<1> HIDE DEF h, t, b
<1>9. /\ hb \in Seq(V) /\ Len(hb) = 3 + 4 * m
      /\ \A p \in 1..(3 + 4 * m) : hb[p] = IF p <= 3 THEN h[p] ELSE b[p - 3]
  <2> HIDE DEF V
  <2>1. hb \in Seq(V) /\ Len(hb) = Len(h) + Len(b)
        /\ \A p \in 1..(Len(h) + Len(b)) : hb[p] = IF p <= Len(h) THEN h[p] ELSE b[p - Len(h)]
    <3>1. h \in Seq(V) /\ b \in Seq(V)
      BY <1>5, <1>7
    <3>2. QED BY <3>1, ConcatProperties DEF hb
  <2>2. Len(h) = 3 /\ Len(b) = 4 * m
    BY <1>5, <1>7
  <2>3. QED BY <2>1, <2>2
<1> HIDE DEF hb
<1>10. /\ f \in Seq(V) /\ Len(f) = 3 + 4 * m + Len(t)
       /\ \A p \in 1..(3 + 4 * m) : f[p] = hb[p]
  <2> HIDE DEF V
  <2>1. f = hb \o t
    BY <1>2 DEF hb
  <2>2. f \in Seq(V) /\ Len(f) = Len(hb) + Len(t)
        /\ \A p \in 1..(Len(hb) + Len(t)) : f[p] = IF p <= Len(hb) THEN hb[p] ELSE t[p - Len(hb)]
    <3>1. hb \in Seq(V) /\ t \in Seq(V)
      BY <1>8, <1>9
    <3>2. /\ hb \o t \in Seq(V) /\ Len(hb \o t) = Len(hb) + Len(t)
          /\ \A p \in 1..(Len(hb) + Len(t)) : (hb \o t)[p] = IF p <= Len(hb) THEN hb[p] ELSE t[p - Len(hb)]
      BY <3>1, ConcatProperties
    <3>3. QED BY <2>1, <3>2
  <2>3. Len(hb) = 3 + 4 * m /\ Len(t) \in Nat
    BY <1>8, <1>9
  <2>4. \A p \in 1..(3 + 4 * m) : p \in 1..(Len(hb) + Len(t)) /\ p <= Len(hb)
    BY <1>1, <2>3
  <2>5. \A p \in 1..(3 + 4 * m) : f[p] = hb[p]
    BY <2>2, <2>4, Zenon
  <2>6. QED BY <2>2, <2>3, <2>5
<1>11. f[2] = printed /\ f[3] = c.n
  <2>1. 2 \in 1..(3 + 4 * m) /\ 3 \in 1..(3 + 4 * m)
    BY <1>1
  <2>2. f[2] = hb[2] /\ f[3] = hb[3]
    BY <1>10, <2>1
  <2>3. hb[2] = h[2] /\ hb[3] = h[3]
    BY <1>9, <2>1
  <2>4. QED BY <1>7, <2>2, <2>3
<1>12. ASSUME NEW j \in 0..(m - 1), NEW i \in 1..4
       PROVE  f[3 + 4 * j + i] = Sat(c.parity, 4 * (no - 1) + j)[i]
  <2> DEFINE p == 3 + 4 * j + i
             q == j + 1
  <2>1. p \in 1..(3 + 4 * m) /\ ~(p <= 3) /\ p - 3 = 4 * (q - 1) + i /\ q \in 1..m
    BY <1>1
  <2>2. s[q] = Sat(c.parity, 4 * (no - 1) + q - 1) /\ 4 * (no - 1) + q - 1 = 4 * (no - 1) + j
    BY <2>1
  <2>3. b[4 * (q - 1) + i] = s[q][i]
    BY <1>5, <2>1
  <2> HIDE DEF p, q, s
  <2>4. f[p] = b[4 * (q - 1) + i]
    BY <1>9, <1>10, <2>1
  <2>5. QED BY <2>2, <2>3, <2>4 DEF p
<1>13. QED BY <1>8, <1>10, <1>11, <1>12 DEF m, FieldList
-----------------------------------------------------------------------------
(* What parse_gsv leaves in the table.                                     *)

ValueAt(line, conv, k) == IF conv.section[k] = 0 THEN 0 ELSE atoi(line[conv.section[k]])

SatAt(line, conv, j) ==
  <<ValueAt(line, conv, 3 + 4 * j) % ByteRange, ValueAt(line, conv, (3 + 4 * j) + 1) % ByteRange,
    ValueAt(line, conv, (3 + 4 * j) + 2), ValueAt(line, conv, (3 + 4 * j) + 3) % ByteRange>>

Slot == 0..(MaxView - 1)

LEMMA Sizes == /\ ByteRange \in Nat \ {0} /\ MaxView \in Nat /\ MaxView >= 1
               /\ MaxView + 40 <= ByteRange /\ ByteRange >= 41
<1>1. ByteRange \in Nat \ {0} /\ MaxView \in 1..ByteRange /\ MaxView + 40 <= ByteRange
  BY GpsAssumption
<1>2. QED BY <1>1

\* The slots of the satellites of the line are replaced, the others kept.
LEMMA FilledSlots ==
  ASSUME NEW line, NEW conv, NEW no \in Nat \ {0},
         DOMAIN Cleared(no).rsv = Slot,
         NEW g, g = Filled(line, conv, no), NEW first, first = cur_index(no)
  PROVE  /\ g.sates_in_view = ValueAt(line, conv, 2) /\ DOMAIN g.rsv = Slot
         /\ \A s \in Slot : g.rsv[s] = IF s - first \in Satellites(conv.count)
                                      THEN SatAt(line, conv, s - first) ELSE Cleared(no).rsv[s]
<1> DEFINE old == Cleared(no).rsv
           sats == Satellites(conv.count)
           written == {j \in sats : Fits(first + j)}
           slots == DOMAIN old \cup {first + j : j \in written}
           rsv == [s \in slots |-> IF s - first \in written THEN SatAt(line, conv, s - first) ELSE old[s]]
<1>1. g = [sates_in_view |-> ValueAt(line, conv, 2), rsv |-> rsv]
  BY ZenonT(40) DEF Filled, ValueAt, SatAt
<1>2. first \in Nat
  BY Sizes DEF cur_index
<1>3. sats \subseteq 0..4
  BY DEF Satellites
<1> HIDE DEF sats, old
<1>4. \A j \in written : j \in sats /\ first + j \in Slot
  <2>1. \A j \in sats : j \in 0..4
    BY <1>3
  <2>2. QED BY <1>2, <2>1, Sizes DEF Fits, Slot
<1>5. slots = Slot
  BY <1>4 DEF old
<1>6. \A s \in Slot : s - first \in written <=> s - first \in sats
  <2>1. \A s \in Slot : s \in Nat /\ s < MaxView /\ first + (s - first) = s
    BY <1>2, Sizes DEF Slot
  <2>2. QED BY <2>1 DEF Fits
<1>7. DOMAIN rsv = Slot /\ \A s \in Slot : rsv[s] = IF s - first \in sats THEN SatAt(line, conv, s - first) ELSE old[s]
  <2> HIDE DEF written
  <2> QED BY <1>5, <1>6
<1> HIDE DEF rsv
<1>8. QED BY <1>1, <1>7 DEF sats, old

\* The type of the table.
TableTyped(g) ==
  DOMAIN g.rsv = Slot /\ \A s \in Slot : \A k \in {1, 2, 4} : g.rsv[s][k] \in 0..(ByteRange - 1)

LEMMA ClearedTyped ==
  ASSUME TableTyped(gsv), NEW no
  PROVE  TableTyped(Cleared(no)) /\ DOMAIN Cleared(no).rsv = Slot
<1>1. TableTyped(ZeroGsv)
  <2>1. ZeroGsv.rsv = [k \in Slot |-> NoSat]
    BY DEF ZeroGsv, Slot
  <2>2. \A k \in {1, 2, 4} : NoSat[k] \in 0..(ByteRange - 1)
    BY Sizes DEF NoSat
  <2>3. QED BY <2>1, <2>2 DEF TableTyped
<1>2. TableTyped(Cleared(no))
  BY <1>1 DEF Cleared
<1>3. QED BY <1>2 DEF TableTyped

LEMMA ValueType ==
  ASSUME NEW fields \in FieldList, NEW line \in Seq(Int), NEW conv,
         AllFound(line, conv, 19, fields), NEW k \in 0..18
  PROVE  ValueAt(line, conv, k) \in Nat
<1>1. k \in 0..(19 - 1)
  OBVIOUS
<1>2. conv.section[k] = 0 \/ conv.section[k] \in 1..Len(line)
  BY <1>1 DEF AllFound
<1>3. conv.section[k] \in 1..Len(line) => line[conv.section[k]] \in Int
  OBVIOUS
<1>4. QED BY <1>2, <1>3 DEF ValueAt, atoi

\* data_conversion has room for 19 sections: the fourth satellite is the last.
LEMMA SatellitesAre ==
  ASSUME NEW count \in 0..18, NEW j \in Satellites(count)
  PROVE  j \in 0..3
  BY DEF Satellites

LEMMA CountBound ==
  ASSUME NEW fields \in FieldList, NEW line, NEW conv, AllFound(line, conv, 19, fields)
  PROVE  /\ Len(fields) \in Nat /\ conv.count \in 0..18
         /\ conv.count = (IF Len(fields) < 19 THEN Len(fields) ELSE 19) - 1
<1>1. Len(fields) \in Nat
  BY DEF FieldList
<1>2. Len(fields) > 0 /\ conv.count = (IF Len(fields) < 19 THEN Len(fields) ELSE 19) - 1
  BY DEF AllFound, Min2
<1> DEFINE n == Len(fields)
           c == conv.count
<1>3. n \in Nat /\ n > 0 /\ c = (IF n < 19 THEN n ELSE 19) - 1
  BY <1>1, <1>2
<1> HIDE DEF n, c
<1>4. c \in 0..18
  BY <1>3
<1>5. QED BY <1>1, <1>2, <1>4 DEF c

LEMMA FilledTyped ==
  ASSUME NEW fields \in FieldList, NEW line \in Seq(Int), NEW conv,
         AllFound(line, conv, 19, fields), NEW no \in Nat \ {0}, TableTyped(gsv)
  PROVE  TableTyped(Filled(line, conv, no))
<1> DEFINE g == Filled(line, conv, no)
           first == cur_index(no)
<1>1. TableTyped(Cleared(no)) /\ DOMAIN Cleared(no).rsv = Slot
  BY ClearedTyped
<1>0. g = Filled(line, conv, no) /\ first = cur_index(no)
  OBVIOUS
<1> HIDE DEF g, first
<1>2. /\ DOMAIN g.rsv = Slot
      /\ \A s \in Slot : g.rsv[s] = IF s - first \in Satellites(conv.count)
                                   THEN SatAt(line, conv, s - first) ELSE Cleared(no).rsv[s]
  BY <1>0, <1>1, FilledSlots
<1>3. ASSUME NEW j \in 0..3, NEW k \in {1, 2, 4} PROVE SatAt(line, conv, j)[k] \in 0..(ByteRange - 1)
  <2>1. /\ 3 + 4 * j \in 0..18 /\ (3 + 4 * j) + 1 \in 0..18 /\ (3 + 4 * j) + 3 \in 0..18
    OBVIOUS
  <2>2. /\ ValueAt(line, conv, 3 + 4 * j) \in Nat /\ ValueAt(line, conv, (3 + 4 * j) + 1) \in Nat
        /\ ValueAt(line, conv, (3 + 4 * j) + 3) \in Nat
    BY <2>1, ValueType, Zenon
  <2>3. \A v \in Nat : v % ByteRange \in 0..(ByteRange - 1)
    BY Sizes
  <2>4. SatAt(line, conv, j)[k] \in {ValueAt(line, conv, 3 + 4 * j) % ByteRange,
             ValueAt(line, conv, (3 + 4 * j) + 1) % ByteRange, ValueAt(line, conv, (3 + 4 * j) + 3) % ByteRange}
    BY DEF SatAt
  <2>5. QED BY <2>2, <2>3, <2>4, Zenon
<1>4. \A j \in Satellites(conv.count) : j \in 0..3
  BY CountBound, SatellitesAre
<1>5. ASSUME NEW s \in Slot, NEW k \in {1, 2, 4} PROVE g.rsv[s][k] \in 0..(ByteRange - 1)
  <2>1. CASE s - first \in Satellites(conv.count)
    BY <1>2, <1>3, <1>4, <2>1
  <2>2. CASE s - first \notin Satellites(conv.count)
    BY <1>1, <1>2, <2>2 DEF TableTyped
  <2>3. QED BY <2>1, <2>2
<1>6. QED BY <1>2, <1>5 DEF TableTyped, g

\* A GSV is taken only if its fields were found, with the number it carries.
LEMMA TakenMeans ==
  ASSUME NEW fields \in FieldList, NEW line \in Lines(fields),
         NEW conv, conv = data_conversion(line, 19)
  PROVE  /\ line \in Seq(Int)
         /\ TakenAs(line, conv) \in Nat
         /\ TakenAs(line, conv) # 0 =>
              /\ AllFound(line, conv, 19, fields) /\ conv.count >= 7 /\ Len(fields) >= 8
              /\ TakenAs(line, conv) = atoi(fields[2]) % ByteRange
<1>1. 19 \in 1..19 /\ 0 \in 0..(19 - 1) /\ 1 \in 0..(19 - 1) /\ 1 \in 0..18
  OBVIOUS
<1>2. line \in Seq(Int) /\ (NothingFound(line, conv, 19) \/ AllFound(line, conv, 19, fields))
  BY <1>1, Converts, Zenon
<1>3. CASE NothingFound(line, conv, 19)
  <2>1. conv.section[0] = 0
    BY <1>1, <1>3 DEF NothingFound
  <2>2. TakenAs(line, conv) = 0
    BY <2>1 DEF TakenAs
  <2>3. QED BY <1>2, <2>2
<1>4. CASE AllFound(line, conv, 19, fields)
  <2>1. /\ Len(fields) \in Nat /\ conv.count \in 0..18
        /\ conv.count = (IF Len(fields) < 19 THEN Len(fields) ELSE 19) - 1
    BY <1>4, CountBound
  <2>2. CASE conv.count < PARSE_GSV_MESSAGE_MAX_LEN
    BY <1>2, <2>2 DEF TakenAs
  <2>3. CASE ~(conv.count < PARSE_GSV_MESSAGE_MAX_LEN)
    <3>1. conv.count >= 7 /\ Len(fields) >= 8
      BY <2>1, <2>3 DEF PARSE_GSV_MESSAGE_MAX_LEN
    <3>2. 0 < Len(fields) /\ 1 < Len(fields) /\ 2 \in 1..Len(fields) /\ 1 + 1 = 2
      BY <2>1, <3>1
    <3>3. /\ conv.section[0] \in 1..Len(line) /\ conv.section[1] \in 1..Len(line)
          /\ line[conv.section[1]] \in Seen(fields[2])
      BY <1>1, <1>4, <3>2 DEF AllFound
    <3>4. fields[2] \in Int \ {Comma, Star}
      BY <3>2 DEF FieldList
    <3>5. atoi(line[conv.section[1]]) = atoi(fields[2]) /\ atoi(fields[2]) \in Nat
      <4>1. CASE fields[2] = Empty
        BY <3>3, <4>1 DEF Seen, Comma, Star, Empty, atoi
      <4>2. CASE fields[2] # Empty
        BY <3>3, <3>4, <4>2 DEF Seen, atoi
      <4>3. QED BY <4>1, <4>2
    <3>6. conv.section[0] # 0 /\ conv.section[1] # 0
      BY <3>3
    <3>7. TakenAs(line, conv) = atoi(fields[2]) % ByteRange
      BY <2>3, <3>5, <3>6 DEF TakenAs
    <3>8. TakenAs(line, conv) \in Nat
      BY <3>5, <3>7, Sizes
    <3>9. QED BY <1>2, <1>4, <3>1, <3>7, <3>8
  <2>4. QED BY <2>2, <2>3
<1>5. QED BY <1>2, <1>3, <1>4

\* A section that was found has the number of its field.
LEMMA ValueOf ==
  ASSUME NEW fields \in FieldList, NEW line, NEW conv, AllFound(line, conv, 19, fields),
         NEW k \in 0..18, k < Len(fields)
  PROVE  ValueAt(line, conv, k) = atoi(fields[k + 1])
<1>1. k \in 0..(19 - 1) /\ k + 1 \in 1..Len(fields)
  BY DEF FieldList
<1>2. conv.section[k] \in 1..Len(line) /\ line[conv.section[k]] \in Seen(fields[k + 1])
  BY <1>1 DEF AllFound
<1>3. conv.section[k] # 0
  BY <1>2
<1>4. atoi(line[conv.section[k]]) = atoi(fields[k + 1])
  BY <1>2 DEF Seen, Comma, Star, Empty, atoi
<1>5. QED BY <1>3, <1>4 DEF ValueAt

\* The satellite k of a cycle as the table holds it.
Kept(parity, k) == [i \in 1..4 |-> atoi(Sat(parity, k)[i])]

\* From a message of the receiver's own the code takes the satellites that it
\* carries, and no signal id behind them.
LEMMA OwnSatellites ==
  ASSUME NEW c \in Cycle, NEW no \in Nat \ {0}, no <= Total(c.n),
         NEW f, f = GsvFields(c, no, no), NEW line, NEW conv,
         AllFound(line, conv, 19, f), conv.count >= 7
  PROVE  /\ Satellites(conv.count) = 0..(Carried(c, no) - 1)
         /\ ValueAt(line, conv, 2) = c.n
         /\ \A j \in 0..(Carried(c, no) - 1) : 4 * (no - 1) + j < MaxView =>
               SatAt(line, conv, j) = Kept(c.parity, 4 * (no - 1) + j)
<1> DEFINE m == Carried(c, no)
           e == IF c.id THEN 1 ELSE 0
           l == Len(f)
           n == conv.count
<1>1. /\ f \in FieldList /\ l = 3 + 4 * m + e /\ f[3] = c.n
      /\ \A j \in 0..(m - 1), i \in 1..4 : f[3 + 4 * j + i] = Sat(c.parity, 4 * (no - 1) + j)[i]
  <2>1. no \in Nat
    OBVIOUS
  <2>2. QED BY <2>1, GsvFieldsAre
<1>2. m \in 0..4 /\ c.n \in Nat
  BY MessageBounds
<1>3. e \in 0..1
  OBVIOUS
<1>4. n \in 0..18 /\ n = (IF l < 19 THEN l ELSE 19) - 1 /\ n >= 7 /\ l \in Nat
  BY <1>1, CountBound
<1> HIDE DEF m, e, l, n
<1>a. l = 3 + 4 * m + e
  BY <1>1
<1>5. \A j \in 0..4 : 3 + 4 * j < n <=> j \in 0..(m - 1)
  BY <1>2, <1>3, <1>4, <1>a
<1>6. Satellites(n) = 0..(m - 1)
  <2>1. \A j \in 0..(m - 1) : j \in 0..4
    BY <1>2
  <2>2. QED BY <1>5, <2>1 DEF Satellites
<1>7. ValueAt(line, conv, 2) = c.n
  <2>1. 2 \in 0..18 /\ 2 < l /\ 2 + 1 = 3
    BY <1>2, <1>3, <1>a
  <2>2. ValueAt(line, conv, 2) = atoi(f[3])
    BY <1>1, <2>1, ValueOf DEF l
  <2>3. QED BY <1>1, <1>2, <2>2 DEF atoi
<1>8. ASSUME NEW j \in 0..(m - 1), 4 * (no - 1) + j < MaxView
      PROVE  SatAt(line, conv, j) = Kept(c.parity, 4 * (no - 1) + j)
  <2> DEFINE k == 3 + 4 * j
             t == 4 * (no - 1) + j
             p == c.parity
             S == Sat(p, t)
             V(i) == ValueAt(line, conv, i)
  <2>1. /\ k \in 0..18 /\ k + 1 \in 0..18 /\ k + 2 \in 0..18 /\ k + 3 \in 0..18
        /\ k < l /\ k + 1 < l /\ k + 2 < l /\ k + 3 < l
    BY <1>2, <1>3, <1>a
  <2>2. /\ (k + 1) + 1 = k + 2 /\ (k + 2) + 1 = k + 3 /\ (k + 3) + 1 = k + 4
    OBVIOUS
  <2>3. f[k + 1] = S[1] /\ f[k + 2] = S[2] /\ f[k + 3] = S[3] /\ f[k + 4] = S[4]
    BY <1>1
  <2>4. t \in Nat /\ t < MaxView /\ p \in {0, 1}
    BY <1>2, <1>8 DEF Cycle
  <2>5. SatAt(line, conv, j) = <<V(k) % ByteRange, V(k + 1) % ByteRange, V(k + 2), V(k + 3) % ByteRange>>
    BY Zenon DEF SatAt
  <2> HIDE DEF k, t, p
  <2>a. ASSUME NEW i \in 0..18, i < Len(f) PROVE V(i) = atoi(f[i + 1])
    <3>1. f \in FieldList
      BY <1>1
    <3>2. QED BY <2>a, <3>1, ValueOf
  <2>6. V(k) = atoi(f[k + 1]) /\ V(k + 1) = atoi(f[(k + 1) + 1])
    BY <2>a, <2>1, Zenon DEF l
  <2>7. V(k + 2) = atoi(f[(k + 2) + 1]) /\ V(k + 3) = atoi(f[(k + 3) + 1])
    BY <2>a, <2>1, Zenon DEF l
  <2>8. V(k) = atoi(S[1]) /\ V(k + 1) = atoi(S[2]) /\ V(k + 2) = atoi(S[3]) /\ V(k + 3) = atoi(S[4])
    BY <2>2, <2>3, <2>6, <2>7
  <2>9. S[1] = 32 * p + t + 1 /\ S[2] = 40 + t /\ S[4] \in {Empty, 30}
    BY DEF Sat
  <2>10. atoi(S[1]) \in 0..(ByteRange - 1) /\ atoi(S[2]) \in 0..(ByteRange - 1) /\ atoi(S[4]) \in 0..(ByteRange - 1)
    BY <2>4, <2>9, Sizes DEF atoi, Empty
  <2>11. \A v \in 0..(ByteRange - 1) : v % ByteRange = v
    BY Sizes
  <2>12. SatAt(line, conv, j) = <<atoi(S[1]), atoi(S[2]), atoi(S[3]), atoi(S[4])>>
    BY <2>5, <2>8, <2>10, <2>11
  <2> HIDE DEF S
  <2>13. <<atoi(S[1]), atoi(S[2]), atoi(S[3]), atoi(S[4])>> = [i \in 1..4 |-> atoi(S[i])]
    OBVIOUS
  <2>14. QED BY <2>12, <2>13 DEF Kept, S, p, t
<1>9. QED BY <1>6, <1>7, <1>8 DEF m, n

\* The table holds the satellites of the messages seen of a cycle.
Holds(g, c, seen) ==
  /\ g.sates_in_view = c.n
  /\ \A s \in Slot : g.rsv[s] = IF s < c.n /\ (s \div 4) + 1 \in seen THEN Kept(c.parity, s) ELSE NoSat

LEMMA OwnMessage ==
  ASSUME NEW c \in Cycle, NEW no \in Nat \ {0}, no <= Total(c.n),
         NEW f, f = GsvFields(c, no, no), NEW line, NEW conv,
         AllFound(line, conv, 19, f), conv.count >= 7, TableTyped(gsv),
         NEW seen, no # 1 => Holds(gsv, c, seen)
  PROVE  Holds(Filled(line, conv, no), c, IF no = 1 THEN {1} ELSE seen \cup {no})
<1> DEFINE g == Filled(line, conv, no)
           first == cur_index(no)
           m == Carried(c, no)
           now == IF no = 1 THEN {1} ELSE seen \cup {no}
<1>1. /\ Satellites(conv.count) = 0..(m - 1) /\ ValueAt(line, conv, 2) = c.n
      /\ \A j \in 0..(m - 1) : 4 * (no - 1) + j < MaxView => SatAt(line, conv, j) = Kept(c.parity, 4 * (no - 1) + j)
  BY OwnSatellites
<1>2. /\ c.n \in Nat /\ m \in 0..4
      /\ \A s \in Nat : (s < c.n /\ (s \div 4) + 1 = no) <=> (s - 4 * (no - 1) \in 0..(m - 1))
  BY MessageBounds
<1>3. first = 4 * (no - 1)
  <2> DEFINE x == 4 * (no - 1)
  <2>1. x \in Nat /\ x < ByteRange /\ ByteRange \in Nat
    BY MessageBounds
  <2> HIDE DEF x
  <2>2. x % ByteRange = x
    BY <2>1
  <2>3. QED BY <2>2 DEF x, cur_index
<1>0. g = Filled(line, conv, no) /\ first = cur_index(no)
  OBVIOUS
<1>4. DOMAIN Cleared(no).rsv = Slot
  BY ClearedTyped
<1> HIDE DEF g, first, m
<1>5. /\ g.sates_in_view = ValueAt(line, conv, 2)
      /\ \A s \in Slot : g.rsv[s] = IF s - first \in Satellites(conv.count)
                                   THEN SatAt(line, conv, s - first) ELSE Cleared(no).rsv[s]
  BY <1>0, <1>4, FilledSlots
<1>6. ASSUME NEW s \in Slot
      PROVE  g.rsv[s] = IF s < c.n /\ (s \div 4) + 1 \in now THEN Kept(c.parity, s) ELSE NoSat
  <2>1. s \in Nat /\ s < MaxView
    BY Sizes DEF Slot
  <2>2. CASE s - first \in 0..(m - 1)
    <3>1. s < c.n /\ (s \div 4) + 1 = no
      BY <1>2, <1>3, <2>1, <2>2
    <3>2. (s \div 4) + 1 \in now
      BY <3>1
    <3>3. 4 * (no - 1) + (s - first) = s
      BY <1>3, <2>1
    <3>4. SatAt(line, conv, s - first) = Kept(c.parity, s)
      BY <1>1, <2>1, <2>2, <3>3
    <3>5. QED BY <1>1, <1>5, <2>2, <3>1, <3>2, <3>4
  <2>3. CASE s - first \notin 0..(m - 1)
    <3>1. ~(s < c.n /\ (s \div 4) + 1 = no)
      BY <1>2, <1>3, <2>1, <2>3
    <3>2. g.rsv[s] = Cleared(no).rsv[s]
      BY <1>1, <1>5, <2>3
    <3>3. CASE no = 1
      <4>1. Cleared(no).rsv[s] = NoSat
        BY <3>3 DEF Cleared, ZeroGsv, Slot
      <4>2. ~(s < c.n /\ (s \div 4) + 1 \in now)
        BY <3>1, <3>3
      <4>3. QED BY <3>2, <4>1, <4>2
    <3>4. CASE no # 1
      <4>1. Cleared(no).rsv[s] = gsv.rsv[s]
        BY <3>4 DEF Cleared
      <4>2. gsv.rsv[s] = IF s < c.n /\ (s \div 4) + 1 \in seen THEN Kept(c.parity, s) ELSE NoSat
        BY <3>4 DEF Holds
      <4>3. (s < c.n /\ (s \div 4) + 1 \in now) <=> (s < c.n /\ (s \div 4) + 1 \in seen)
        BY <3>1, <3>4
      <4>4. QED BY <3>2, <4>1, <4>2, <4>3
    <3>5. QED BY <3>3, <3>4
  <2>4. QED BY <2>2, <2>3
<1>7. QED BY <1>1, <1>5, <1>6 DEF Holds, g
-----------------------------------------------------------------------------
(* The invariant.  It carries the receiver's type and that rmc has the     *)
(* field parse_rmc invalidates; the rest are the properties themselves.    *)

Typed == TypeOK /\ "position_status" \in DOMAIN rmc /\ cycle \in Cycle

GpsIInv == Typed /\ SectionsFound /\ RecordsDecode /\ TableIsCycle

LEMMA TypedMeans ==
  TypeOK <=> /\ rmc.position_status \in {-1, 0, 1} /\ gga.sat_in_view \in 0..(ByteRange - 1)
             /\ TableTyped(gsv)
  BY DEF TypeOK, TableTyped, Slot

LEMMA TableMeans ==
  TableIsCycle <=> ((got # {} /\ 0 \notin got) => Holds(gsv, cycle, got))
  BY Zenon DEF TableIsCycle, Holds, Kept, Slot

LEMMA GpsInit == Init => GpsIInv
<1> SUFFICES ASSUME Init PROVE GpsIInv
  OBVIOUS
<1>1. TypeOK /\ "position_status" \in DOMAIN rmc
  <2>1. rmc.position_status = 0 /\ "position_status" \in DOMAIN rmc
    BY DEF Init, RmcRecord
  <2>2. gga.sat_in_view = 0
    BY DEF Init, GgaRecord
  <2>3. ZeroGsv.rsv = [k \in Slot |-> NoSat] /\ gsv = ZeroGsv
    BY DEF Init, ZeroGsv, Slot
  <2>4. \A k \in {1, 2, 4} : NoSat[k] \in 0..(ByteRange - 1)
    BY Sizes DEF NoSat
  <2>5. TableTyped(gsv)
    BY <2>3, <2>4 DEF TableTyped
  <2>6. 0 \in 0..(ByteRange - 1)
    BY Sizes
  <2>7. QED BY <2>1, <2>2, <2>5, <2>6, TypedMeans
<1>2. cycle \in Cycle
  BY DEF Init, Cycle
<1>3. SectionsFound /\ RecordsDecode /\ TableIsCycle
  BY DEF Init, SectionsFound, RecordsDecode, TableIsCycle
<1>4. QED BY <1>1, <1>2, <1>3 DEF GpsIInv, Typed

\* The primed forms, for the steps that leave a record alone.
LEMMA RecordsKept ==
  ASSUME GpsIInv, UNCHANGED <<gga, sentGga, rmc, sentRmc>>
  PROVE  RecordsDecode' /\ rmc'.position_status \in {-1, 0, 1} /\ "position_status" \in DOMAIN rmc'
         /\ gga'.sat_in_view \in 0..(ByteRange - 1)
<1>1. RecordsDecode'
  BY DEF GpsIInv, RecordsDecode
<1>2. rmc'.position_status \in {-1, 0, 1} /\ "position_status" \in DOMAIN rmc' /\ gga'.sat_in_view \in 0..(ByteRange - 1)
  BY DEF GpsIInv, Typed, TypeOK
<1>3. QED BY <1>1, <1>2

LEMMA TableKept ==
  ASSUME GpsIInv, UNCHANGED <<gsv, receiver>>
  PROVE  TableIsCycle' /\ TableTyped(gsv') /\ cycle' \in Cycle
<1>1. TableIsCycle'
  BY DEF GpsIInv, TableIsCycle, receiver
<1>2. TableTyped(gsv') /\ cycle' \in Cycle
  BY TypedMeans DEF GpsIInv, Typed, receiver
<1>3. QED BY <1>1, <1>2

LEMMA Gather ==
  ASSUME rmc'.position_status \in {-1, 0, 1}, gga'.sat_in_view \in 0..(ByteRange - 1),
         TableTyped(gsv'), "position_status" \in DOMAIN rmc', cycle' \in Cycle,
         SectionsFound', RecordsDecode', TableIsCycle'
  PROVE  GpsIInv'
<1>1. TypeOK'
  BY DEF TypeOK, TableTyped, Slot
<1>2. QED BY <1>1 DEF GpsIInv, Typed

LEMMA GgaStep ==
  ASSUME GpsIInv, outside = "no", NEW fields \in GgaFields, parse_gga(fields)
  PROVE  GpsIInv'
<1>1. fields \in FieldList
  BY GpsAssumption DEF FieldList
<1>2. PICK line \in Lines(fields) :
        LET conv == data_conversion(line, GGA_SECTION_MAX)
            F == [k \in 0..8 |-> line[conv.section[k]]]
        IN  /\ \/ /\ PARSE_GGA_MESSAGE_MAX_LEN > conv.count
                  /\ UNCHANGED <<gga, sentGga, outside>>
               \/ /\ PARSE_GGA_MESSAGE_MAX_LEN <= conv.count
                  /\ IF Missing(conv, 0..8)
                     THEN outside' = Undefined(line) /\ UNCHANGED <<gga, sentGga>>
                     ELSE gga' = GgaRecord(F) /\ sentGga' = fields /\ UNCHANGED outside
            /\ UNCHANGED <<rmc, gsv, epe, sentRmc, receiver>>
  BY Zenon DEF parse_gga
<1> DEFINE conv == data_conversion(line, 14)
           F == [k \in 0..8 |-> line[conv.section[k]]]
           G == [k \in 0..8 |-> Field(fields, k)]
<1>3. UNCHANGED <<rmc, gsv, epe, sentRmc, receiver>>
  BY <1>2
<1>4. \/ UNCHANGED <<gga, sentGga, outside>>
      \/ /\ conv.count >= 8 /\ Missing(conv, 0..8)
         /\ outside' = Undefined(line) /\ UNCHANGED <<gga, sentGga>>
      \/ /\ ~Missing(conv, 0..8)
         /\ gga' = GgaRecord(F) /\ sentGga' = fields /\ UNCHANGED outside
  <2>1. \/ UNCHANGED <<gga, sentGga, outside>>
        \/ /\ 8 <= conv.count
           /\ IF Missing(conv, 0..8)
              THEN outside' = Undefined(line) /\ UNCHANGED <<gga, sentGga>>
              ELSE gga' = GgaRecord(F) /\ sentGga' = fields /\ UNCHANGED outside
    BY <1>2, Zenon DEF GGA_SECTION_MAX, PARSE_GGA_MESSAGE_MAX_LEN
  <2> HIDE DEF conv, F
  <2>2. 8 <= conv.count => conv.count >= 8
    BY Zenon
  <2>3. QED BY <2>1, <2>2
<1>5. TableIsCycle' /\ TableTyped(gsv') /\ cycle' \in Cycle
  BY <1>3, TableKept
<1>6. SectionsFound'
  <2>1. 14 \in {12, 14} /\ 8 \in {8, 9} /\ "no" # "too short" /\ "star first" # "too short"
    OBVIOUS
  <2>2. conv.count >= 8 /\ Missing(conv, 0..8) => Undefined(line) = "star first"
    BY <1>1, <2>1, MissingIsStarFirst, Zenon
  <2> HIDE DEF conv
  <2>3. QED BY <1>4, <2>1, <2>2 DEF SectionsFound
<1>7. /\ RecordsDecode' /\ rmc'.position_status \in {-1, 0, 1} /\ "position_status" \in DOMAIN rmc'
      /\ gga'.sat_in_view \in 0..(ByteRange - 1)
  <2>1. CASE UNCHANGED <<gga, sentGga>>
    BY <1>3, <2>1, RecordsKept
  <2>2. CASE ~Missing(conv, 0..8) /\ gga' = GgaRecord(F) /\ sentGga' = fields
    <3>1. 14 \in {12, 14} /\ F = [k \in 0..8 |-> line[data_conversion(line, 14).section[k]]] /\ G = [k \in 0..8 |-> Field(fields, k)]
      OBVIOUS
    <3>2. ~Missing(data_conversion(line, 14), 0..8)
      BY <2>2
    <3> HIDE DEF F, G
    <3>3. GgaRecord(F) = GgaRecord(G) /\ GgaRecord(F).sat_in_view \in 0..(ByteRange - 1)
      BY <1>1, <3>1, <3>2, Decoded
    <3>4. sentGga' # <<>> => gga' = GgaRecord([k \in 0..8 |-> Field(sentGga', k)])
      BY <2>2, <3>1, <3>3
    <3>5. (sentRmc' # <<>> /\ rmc'.position_status >= 0) => rmc' = RmcRecord([k \in 0..8 |-> Field(sentRmc', k)])
      BY <1>3 DEF GpsIInv, RecordsDecode
    <3>6. rmc'.position_status \in {-1, 0, 1} /\ "position_status" \in DOMAIN rmc'
      BY <1>3 DEF GpsIInv, Typed, TypeOK
    <3>7. QED BY <2>2, <3>3, <3>4, <3>5, <3>6 DEF RecordsDecode
  <2>3. QED BY <1>4, <2>1, <2>2
<1>8. QED BY <1>5, <1>6, <1>7, Gather

LEMMA RmcStep ==
  ASSUME GpsIInv, outside = "no", NEW fields \in RmcFields, parse_rmc(fields)
  PROVE  GpsIInv'
<1>1. fields \in FieldList
  BY GpsAssumption DEF FieldList
<1>2. PICK line \in Lines(fields) :
        LET conv == data_conversion(line, RMC_SECTION_MAX)
            F == [k \in 0..8 |-> line[conv.section[k]]]
        IN  /\ \/ /\ conv.count < PARSE_RMC_MESSAGE_MAX_LEN
                  /\ rmc' = RmcRefused /\ sentRmc' = fields
                  /\ UNCHANGED outside
               \/ /\ conv.count >= PARSE_RMC_MESSAGE_MAX_LEN
                  /\ IF Missing(conv, 0..8)
                     THEN outside' = Undefined(line) /\ UNCHANGED <<rmc, sentRmc>>
                     ELSE rmc' = RmcRecord(F) /\ sentRmc' = fields /\ UNCHANGED outside
            /\ UNCHANGED <<gga, gsv, epe, sentGga, receiver>>
  BY Zenon DEF parse_rmc
<1> DEFINE conv == data_conversion(line, 12)
           F == [k \in 0..8 |-> line[conv.section[k]]]
           G == [k \in 0..8 |-> Field(fields, k)]
<1>3. UNCHANGED <<gga, gsv, epe, sentGga, receiver>>
  BY <1>2
<1>4. \/ rmc' = RmcRefused /\ UNCHANGED outside
      \/ /\ conv.count >= 9 /\ Missing(conv, 0..8)
         /\ outside' = Undefined(line) /\ UNCHANGED <<rmc, sentRmc>>
      \/ /\ ~Missing(conv, 0..8)
         /\ rmc' = RmcRecord(F) /\ sentRmc' = fields /\ UNCHANGED outside
  BY <1>2, Zenon DEF RMC_SECTION_MAX, PARSE_RMC_MESSAGE_MAX_LEN
<1>5. TableIsCycle' /\ TableTyped(gsv') /\ cycle' \in Cycle
  BY <1>3, TableKept
<1>6. SectionsFound'
  <2>1. 12 \in {12, 14} /\ 9 \in {8, 9} /\ "no" # "too short" /\ "star first" # "too short"
    OBVIOUS
  <2>2. conv.count >= 9 /\ Missing(conv, 0..8) => Undefined(line) = "star first"
    BY <1>1, <2>1, MissingIsStarFirst, Zenon
  <2> HIDE DEF conv
  <2>3. QED BY <1>4, <2>1, <2>2 DEF SectionsFound
<1>7. /\ RecordsDecode' /\ rmc'.position_status \in {-1, 0, 1} /\ "position_status" \in DOMAIN rmc'
      /\ gga'.sat_in_view \in 0..(ByteRange - 1)
  <2>0. /\ sentGga' # <<>> => gga' = GgaRecord([k \in 0..8 |-> Field(sentGga', k)])
        /\ gga'.sat_in_view \in 0..(ByteRange - 1)
    BY <1>3 DEF GpsIInv, Typed, TypeOK, RecordsDecode
  <2>1. CASE UNCHANGED <<rmc, sentRmc>>
    BY <1>3, <2>1, RecordsKept
  <2>2. CASE ~Missing(conv, 0..8) /\ rmc' = RmcRecord(F) /\ sentRmc' = fields
    <3>1. 12 \in {12, 14} /\ F = [k \in 0..8 |-> line[data_conversion(line, 12).section[k]]] /\ G = [k \in 0..8 |-> Field(fields, k)]
      OBVIOUS
    <3>2. ~Missing(data_conversion(line, 12), 0..8)
      BY <2>2
    <3> HIDE DEF F, G
    <3>3. /\ RmcRecord(F) = RmcRecord(G)
          /\ RmcRecord(F).position_status \in {-1, 0, 1} /\ "position_status" \in DOMAIN RmcRecord(F)
      BY <1>1, <3>1, <3>2, Decoded
    <3>4. rmc' = RmcRecord([k \in 0..8 |-> Field(sentRmc', k)])
      BY <2>2, <3>1, <3>3
    <3>5. QED BY <2>0, <2>2, <3>3, <3>4 DEF RecordsDecode
  <2>3. CASE rmc' = RmcRefused
    <3>1. rmc'.position_status = -1 /\ "position_status" \in DOMAIN rmc'
      BY <2>3 DEF RmcRefused, GpsIInv, Typed
    <3>2. QED BY <2>0, <3>1 DEF RecordsDecode
  <2>4. QED BY <1>4, <2>1, <2>2, <2>3
<1>8. QED BY <1>5, <1>6, <1>7, Gather

LEMMA EpeStep ==
  ASSUME GpsIInv, parse_epe
  PROVE  GpsIInv'
<1>1. UNCHANGED <<gga, rmc, gsv, sentVars, receiver, outside>>
  BY DEF parse_epe
<1>2. SectionsFound'
  BY <1>1 DEF GpsIInv, SectionsFound
<1>3. QED BY <1>1, <1>2, RecordsKept, TableKept, Gather DEF sentVars

\* What a step of the receiver leaves alone.
LEMMA GsvGather ==
  ASSUME GpsIInv, UNCHANGED <<gga, rmc, sentVars, outside>>,
         TableTyped(gsv'), cycle' \in Cycle, TableIsCycle'
  PROVE  GpsIInv'
<1>1. SectionsFound'
  BY DEF GpsIInv, SectionsFound
<1>2. QED BY <1>1, RecordsKept, Gather DEF sentVars

LEMMA NextMessage ==
  ASSUME cycle \in Cycle, cycle' = [cycle EXCEPT !.next = cycle.next + 1]
  PROVE  cycle' \in Cycle /\ cycle'.n = cycle.n /\ cycle'.parity = cycle.parity
  BY DEF Cycle

\* Whatever number a message of the receiver carries, the table keeps its type.
LEMMA ParsedTyped ==
  ASSUME GpsIInv, NEW fields \in FieldList, NEW line \in Lines(fields), parse_gsv(line)
  PROVE  TableTyped(gsv')
<1> DEFINE conv == data_conversion(line, 19)
           no == TakenAs(line, conv)
<1>1. TableTyped(gsv)
  BY TypedMeans DEF GpsIInv, Typed
<1>2. gsv' = IF no < 1 THEN gsv ELSE Filled(line, conv, no)
  BY Zenon DEF parse_gsv, GSV_SECTION_MAX
<1>3. line \in Seq(Int) /\ no \in Nat /\ (no # 0 => AllFound(line, conv, 19, fields))
  BY TakenMeans
<1> HIDE DEF no, conv
<1>4. CASE no < 1
  BY <1>1, <1>2, <1>4
<1>5. CASE ~(no < 1)
  <2>1. no \in Nat \ {0}
    BY <1>3, <1>5
  <2>2. TableTyped(Filled(line, conv, no))
    BY <1>1, <1>3, <2>1, FilledTyped
  <2>3. QED BY <1>2, <1>5, <2>2
<1>6. QED BY <1>4, <1>5

LEMMA ReceiveGsvStep ==
  ASSUME GpsIInv, ReceiveGsv
  PROVE  GpsIInv'
<1> DEFINE f == GsvFields(cycle, cycle.next, cycle.next)
<1>1. PICK line \in Lines(f) :
        /\ cycle.next <= Total(cycle.n)
        /\ parse_gsv(line)
        /\ cycle' = [cycle EXCEPT !.next = cycle.next + 1]
        /\ got' = CASE Taken(line) = 0 -> IF cycle.next = 1 THEN {} ELSE got
                    [] Taken(line) = 1 -> {1}
                    [] OTHER -> IF got = {} THEN {} ELSE got \cup {cycle.next}
        /\ UNCHANGED <<gga, rmc, epe, sentVars, cycles, outside>>
  BY Zenon DEF ReceiveGsv
<1> DEFINE conv == data_conversion(line, 19)
           no == cycle.next
           t == TakenAs(line, conv)
<1>2. cycle \in Cycle /\ no \in Nat \ {0} /\ no \in Nat /\ no <= Total(cycle.n)
  BY <1>1 DEF GpsIInv, Typed, Cycle
<1>3. f \in FieldList /\ f[2] = no
  BY <1>2, GsvFieldsAre
<1>4. cycle' \in Cycle /\ cycle'.n = cycle.n /\ cycle'.parity = cycle.parity
  BY <1>1, <1>2, NextMessage
<1>5. TableTyped(gsv) /\ ((got # {} /\ 0 \notin got) => Holds(gsv, cycle, got))
  BY TypedMeans, TableMeans DEF GpsIInv, Typed
<1>6. t = 0 \/ (t = no /\ AllFound(line, conv, 19, f) /\ conv.count >= 7)
  <2>1. t # 0 => AllFound(line, conv, 19, f) /\ conv.count >= 7 /\ t = atoi(f[2]) % ByteRange
    BY <1>3, TakenMeans
  <2>2. no < ByteRange /\ ByteRange \in Nat
    BY <1>2, MessageBounds
  <2> HIDE DEF t, conv, f, no
  <2>3. atoi(no) % ByteRange = no
    BY <1>2, <2>2 DEF atoi
  <2>4. QED BY <1>3, <2>1, <2>3
<1>7. gsv' = IF t < 1 THEN gsv ELSE Filled(line, conv, t)
  BY <1>1, Zenon DEF parse_gsv, GSV_SECTION_MAX
<1>8. got' = CASE t = 0 -> IF no = 1 THEN {} ELSE got
               [] t = 1 -> {1}
               [] OTHER -> IF got = {} THEN {} ELSE got \cup {no}
  BY <1>1, Zenon DEF Taken, GSV_SECTION_MAX
<1>9. TableTyped(gsv')
  BY <1>1, <1>3, ParsedTyped
<1>10. (got' # {} /\ 0 \notin got') => Holds(gsv', cycle, got')
  <2> SUFFICES ASSUME got' # {}, 0 \notin got' PROVE Holds(gsv', cycle, got')
    OBVIOUS
  <2>1. CASE t = 0
    <3> HIDE DEF t, no
    <3>1. gsv' = gsv /\ got' = IF no = 1 THEN {} ELSE got
      BY <1>7, <1>8, <2>1
    <3>2. got' = got
      BY <3>1
    <3>3. QED BY <1>5, <3>1, <3>2
  <2>2. CASE t # 0
    <3>1. t = no /\ AllFound(line, conv, 19, f) /\ conv.count >= 7
      BY <1>6, <2>2
    <3> HIDE DEF t, conv
    <3>2. gsv' = Filled(line, conv, no)
      BY <1>2, <1>7, <3>1
    <3>3. no # 1 => Holds(gsv, cycle, got)
      <4> SUFFICES ASSUME no # 1 PROVE Holds(gsv, cycle, got)
        OBVIOUS
      <4>1. got' = IF got = {} THEN {} ELSE got \cup {no}
        BY <1>8, <2>2, <3>1
      <4>2. got # {} /\ 0 \notin got
        BY <4>1
      <4>3. QED BY <1>5, <4>2
    <3>4. Holds(Filled(line, conv, no), cycle, IF no = 1 THEN {1} ELSE got \cup {no})
      BY <1>2, <1>5, <3>1, <3>3, OwnMessage
    <3>5. got' = IF no = 1 THEN {1} ELSE got \cup {no}
      BY <1>8, <2>2, <3>1
    <3>6. QED BY <3>2, <3>4, <3>5
  <2>3. QED BY <2>1, <2>2
<1>11. TableIsCycle'
  <2>1. (got' # {} /\ 0 \notin got') => Holds(gsv', cycle', got')
    BY <1>4, <1>10 DEF Holds
  <2>2. QED BY <2>1, Zenon DEF TableIsCycle, Holds, Kept, Slot
<1>12. QED BY <1>1, <1>4, <1>9, <1>11, GsvGather

LEMMA ReceiveOddGsvStep ==
  ASSUME GpsIInv, ReceiveOddGsv
  PROVE  GpsIInv'
<1>1. PICK no \in OddNumbers :
        /\ cycle.next <= Total(cycle.n)
        /\ parse_gsv(Line(GsvFields(cycle, cycle.next, no)))
        /\ cycle' = [cycle EXCEPT !.next = cycle.next + 1]
        /\ got' = {0}
        /\ UNCHANGED <<gga, rmc, epe, sentVars, cycles, outside>>
  BY Zenon DEF ReceiveOddGsv
<1> DEFINE f == GsvFields(cycle, cycle.next, no)
<1>2. cycle \in Cycle /\ cycle.next \in Nat \ {0} /\ no \in Nat
  BY GpsAssumption DEF GpsIInv, Typed, Cycle
<1>3. f \in FieldList
  BY <1>1, <1>2, GsvFieldsAre
<1> HIDE DEF f
<1>4. Line(f) \in Lines(f) /\ parse_gsv(Line(f))
  BY <1>1, Zenon DEF Lines, f
<1>5. TableTyped(gsv')
  BY <1>3, <1>4, ParsedTyped
<1>6. cycle' \in Cycle
  BY <1>1, <1>2, NextMessage
<1>7. TableIsCycle'
  BY <1>1 DEF TableIsCycle
<1>8. QED BY <1>1, <1>5, <1>6, <1>7, GsvGather

LEMMA LoseGsvStep ==
  ASSUME GpsIInv, LoseGsv
  PROVE  GpsIInv'
<1>1. /\ cycle' = [cycle EXCEPT !.next = cycle.next + 1]
      /\ got' = IF cycle.next = 1 THEN {} ELSE got
      /\ UNCHANGED <<gga, rmc, gsv, sentVars, outside>>
  BY DEF LoseGsv, records
<1>2. cycle' \in Cycle /\ cycle'.n = cycle.n /\ cycle'.parity = cycle.parity
  BY <1>1, NextMessage DEF GpsIInv, Typed
<1>3. TableTyped(gsv') /\ ((got # {} /\ 0 \notin got) => Holds(gsv, cycle, got))
  BY <1>1, TypedMeans, TableMeans DEF GpsIInv, Typed
<1>4. (got' # {} /\ 0 \notin got') => Holds(gsv', cycle', got')
  BY <1>1, <1>2, <1>3 DEF Holds
<1>5. TableIsCycle'
  BY <1>4, Zenon DEF TableIsCycle, Holds, Kept, Slot
<1>6. QED BY <1>1, <1>2, <1>3, <1>5, GsvGather

LEMMA NewCycleStep ==
  ASSUME GpsIInv, NewCycle
  PROVE  GpsIInv'
<1>1. PICK n \in SatCounts : cycle' = [cycle EXCEPT !.n = n, !.parity = 1 - cycle.parity, !.next = 1]
  BY DEF NewCycle
<1>2. got' = {} /\ UNCHANGED <<gga, rmc, gsv, sentVars, outside>>
  BY DEF NewCycle, records
<1>3. cycle' \in Cycle
  <2>1. cycle \in Cycle
    BY DEF GpsIInv, Typed
  <2>2. 1 - cycle.parity \in {0, 1}
    <3>1. cycle.parity \in {0, 1}
      BY <2>1, Zenon DEF Cycle
    <3>2. QED BY <3>1
  <2> DEFINE p == 1 - cycle.parity
  <2>3. p \in {0, 1} /\ 1 \in Nat \ {0} /\ cycle' = [cycle EXCEPT !.n = n, !.parity = p, !.next = 1]
    BY <1>1, <2>2
  <2> HIDE DEF p
  <2>4. QED BY <2>1, <2>3 DEF Cycle
<1>4. TableTyped(gsv')
  BY <1>2, TypedMeans DEF GpsIInv, Typed
<1>5. TableIsCycle'
  BY <1>2 DEF TableIsCycle
<1>6. QED BY <1>2, <1>3, <1>4, <1>5, GsvGather

LEMMA GpsStutter ==
  ASSUME GpsIInv, UNCHANGED vars
  PROVE  GpsIInv'
<1>1. UNCHANGED <<gga, rmc, gsv, sentVars, receiver, outside>>
  BY DEF vars, records
<1>2. TableIsCycle' /\ TableTyped(gsv') /\ cycle' \in Cycle
  BY <1>1, TableKept
<1>3. QED BY <1>1, <1>2, GsvGather

LEMMA GpsNext ==
  ASSUME GpsIInv, [Next]_vars
  PROVE  GpsIInv'
<1>1. CASE outside = "no" /\ \E fields \in GgaFields : parse_gga(fields)
  BY <1>1, GgaStep
<1>2. CASE outside = "no" /\ \E fields \in RmcFields : parse_rmc(fields)
  BY <1>2, RmcStep
<1>3. CASE parse_epe
  BY <1>3, EpeStep
<1>4. CASE ReceiveGsv
  BY <1>4, ReceiveGsvStep
<1>5. CASE ReceiveOddGsv
  BY <1>5, ReceiveOddGsvStep
<1>6. CASE LoseGsv
  BY <1>6, LoseGsvStep
<1>7. CASE NewCycle
  BY <1>7, NewCycleStep
<1>8. CASE UNCHANGED vars
  BY <1>8, GpsStutter
<1>9. QED BY <1>1, <1>2, <1>3, <1>4, <1>5, <1>6, <1>7, <1>8, Zenon DEF Next

LEMMA GpsInvariant == Spec => []GpsIInv
  BY GpsInit, GpsNext, PTL DEF Spec
-----------------------------------------------------------------------------
(* The theorems.                                                           *)

\* parse_gsv never writes outside rsv and keeps every uint8_t it fills in its
\* width, whatever number the message carries; parse_rmc's status is -1, 0 or 1.
THEOREM TypeCorrect == Spec => []TypeOK
<1>1. GpsIInv => TypeOK
  BY DEF GpsIInv, Typed
<1>2. QED BY <1>1, GpsInvariant, PTL

\* A line that passes the test of the number of sections in parse_gga and
\* parse_rmc has every section they read, for every list of fields, unless a
\* star stands before its first comma.
THEOREM SectionsAlwaysFound == Spec => []SectionsFound
<1>1. GpsIInv => SectionsFound
  BY DEF GpsIInv
<1>2. QED BY <1>1, GpsInvariant, PTL

\* What parse_gga and parse_rmc leave in g_nmea_parse are the fields of one
\* line, each in its place whatever fields are empty, or is marked invalid.
THEOREM RecordsHoldTheirLine == Spec => []RecordsDecode
<1>1. GpsIInv => RecordsDecode
  BY DEF GpsIInv
<1>2. QED BY <1>1, GpsInvariant, PTL

\* After a message 1 that parse_gsv took, the table holds the satellites of the
\* messages taken since, in their slots, and nothing of an earlier cycle.
THEOREM TableHoldsCycle == Spec => []TableIsCycle
<1>1. GpsIInv => TableIsCycle
  BY DEF GpsIInv
<1>2. QED BY <1>1, GpsInvariant, PTL
=============================================================================
