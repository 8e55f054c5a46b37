-------------------------- MODULE NmeaScanfProofs --------------------------
(***************************************************************************)
(* nmea_scanf goes through format and sentence in step, field by field,    *)
(* until it stops; what it stored by then is what the fields say.          *)
(***************************************************************************)
EXTENDS NmeaScanf, SequenceTheorems, WellFoundedInduction, TLAPS

-----------------------------------------------------------------------------
(* Induction over an interval, with the induction predicate as a set.      *)

LEMMA IntervalInduction ==
  ASSUME NEW n \in Nat, NEW S, 0 \in S, \A k \in 0..(n - 1) : k \in S => k + 1 \in S
  PROVE  \A k \in 0..n : k \in S
<1> DEFINE D == {k \in 0..n : k \notin S}
<1>1. SUFFICES ASSUME D # {} PROVE FALSE
  OBVIOUS
<1>2. PICK m \in D : \A q \in D : ~(<<q, m>> \in OpToRel(<, Nat))
  <2>1. D \subseteq Nat
    OBVIOUS
  <2> HIDE DEF D
  <2>2. QED BY <1>1, <2>1, NatLessThanWellFounded, WFMin, Zenon
<1>3. m \in 0..n /\ m \notin S /\ m # 0
  BY <1>2
<1>4. m - 1 \in 0..(n - 1) /\ m - 1 < m /\ (m - 1) + 1 = m /\ m - 1 \in 0..n /\ m - 1 \in Nat /\ m \in Nat
  BY <1>3
<1>5. m - 1 \notin S
  BY <1>3, <1>4
<1>6. m - 1 \in D
  BY <1>4, <1>5
<1>7. <<m - 1, m>> \in OpToRel(<, Nat)
  BY <1>4 DEF OpToRel
<1>8. QED BY <1>2, <1>6, <1>7
-----------------------------------------------------------------------------
(* The two recursive functions, unfolded.                                  *)

StartState == [pos |-> 1, fail |-> FALSE, toks |-> <<>>]

\* t has the state of the loop after every turn.
Turns(t, text, format) ==
  /\ t[0] = StartState
  /\ \A k \in 1..Len(format) : t[k] = Turn(text, format, t[k - 1], k)

LEMMA ScanfUnfold ==
  ASSUME NEW text, NEW format, Len(format) \in Nat
  PROVE  \E t : Turns(t, text, format) /\ nmea_scanf(text, format) = t[Len(format)].toks
<1> DEFINE n == Len(format)
           F(t) == [k \in 0..n |-> IF k = 0 THEN [pos |-> 1, fail |-> FALSE, toks |-> <<>>]
                                   ELSE Turn(text, format, t[k - 1], k)]
           C == CHOOSE t : t = F(t)
           S == {m \in 0..n : \E f : /\ DOMAIN f = 0..m /\ f = [k \in DOMAIN f |-> f[k]]
                                     /\ f[0] = StartState
                                     /\ \A k \in 1..m : f[k] = Turn(text, format, f[k - 1], k)}
<1>1. nmea_scanf(text, format) = C[n].toks
  BY Zenon DEF nmea_scanf
<1>2. 0 \in S
  <2> DEFINE f == [k \in 0..0 |-> StartState]
  <2>1. DOMAIN f = 0..0 /\ f = [k \in DOMAIN f |-> f[k]] /\ f[0] = StartState /\ \A k \in 1..0 : f[k] = Turn(text, format, f[k - 1], k)
    OBVIOUS
  <2> HIDE DEF f
  <2>2. 0 \in 0..n
    OBVIOUS
  <2>3. QED BY <2>1, <2>2
<1>3. ASSUME NEW m \in 0..(n - 1), m \in S PROVE m + 1 \in S
  <2>1. PICK f : /\ DOMAIN f = 0..m /\ f[0] = StartState
                 /\ \A k \in 1..m : f[k] = Turn(text, format, f[k - 1], k)
    BY <1>3
  <2> DEFINE g == [k \in 0..(m + 1) |-> IF k = m + 1 THEN Turn(text, format, f[m], m + 1) ELSE f[k]]
  <2>2. DOMAIN g = 0..(m + 1) /\ g = [k \in DOMAIN g |-> g[k]]
    OBVIOUS
  <2>3. \A k \in 0..m : g[k] = f[k]
    OBVIOUS
  <2>4. g[m + 1] = Turn(text, format, f[m], m + 1)
    OBVIOUS
  <2> HIDE DEF g
  <2>5. g[0] = StartState
    BY <2>1, <2>3
  <2>6. ASSUME NEW k \in 1..(m + 1) PROVE g[k] = Turn(text, format, g[k - 1], k)
    <3>1. CASE k = m + 1
      <4>1. k - 1 = m /\ m \in 0..m
        BY <3>1
      <4>2. QED BY <2>3, <2>4, <3>1, <4>1
    <3>2. CASE k # m + 1
      <4>1. k \in 1..m /\ k \in 0..m /\ k - 1 \in 0..m
        BY <3>2
      <4>2. QED BY <2>1, <2>3, <4>1
    <3>3. QED BY <3>1, <3>2
  <2>7. m + 1 \in 0..n
    OBVIOUS
  <2>8. QED BY <2>2, <2>5, <2>6, <2>7
<1>4. n \in S
  <2>1. n \in Nat /\ n \in 0..n
    OBVIOUS
  <2> HIDE DEF S, n
  <2>2. \A k \in 0..n : k \in S
    BY <1>2, <1>3, <2>1, IntervalInduction
  <2>3. QED BY <2>1, <2>2
<1>5. PICK f : /\ DOMAIN f = 0..n /\ f = [k \in DOMAIN f |-> f[k]] /\ f[0] = StartState
               /\ \A k \in 1..n : f[k] = Turn(text, format, f[k - 1], k)
  BY <1>4
<1>6. f = F(f)
  <2>1. \A k \in 0..n : f[k] = IF k = 0 THEN [pos |-> 1, fail |-> FALSE, toks |-> <<>>]
                                   ELSE Turn(text, format, f[k - 1], k)
    <3> TAKE k \in 0..n
    <3>1. k = 0 \/ k \in 1..n
      OBVIOUS
    <3>2. QED BY <1>5, <3>1 DEF StartState
  <2>2. QED BY <1>5, <2>1, Zenon
<1>7. C = F(C)
  BY <1>6, Zenon
<1>8. \A k \in 0..n : C[k] = IF k = 0 THEN [pos |-> 1, fail |-> FALSE, toks |-> <<>>]
                             ELSE Turn(text, format, C[k - 1], k)
  BY <1>7, Zenon
<1> HIDE DEF C
<1>9. Turns(C, text, format)
  <2>1. 0 \in 0..n /\ \A k \in 1..n : k \in 0..n /\ k # 0
    OBVIOUS
  <2>2. QED BY <1>8, <2>1, Zenon DEF Turns, StartState, n
<1>10. QED BY <1>1, <1>9

\* Where the members of s start in FlattenSeq(s): O[k] members are before the
\* k-th.
Offsets(O, s) ==
  /\ O \in [1..(Len(s) + 1) -> Nat] /\ O[1] = 0
  /\ \A k \in 1..Len(s) : O[k + 1] = O[k] + Len(s[k])

Flat(F, O, s, T) ==
  /\ F \in Seq(T) /\ Len(F) = O[Len(s) + 1]
  /\ \A k \in 1..Len(s) : \A j \in 1..Len(s[k]) : O[k] + j \in 1..Len(F) /\ F[O[k] + j] = s[k][j]

LEMMA FlattenUnfold ==
  ASSUME NEW T, NEW s \in Seq(Seq(T)), Len(s) # 0
  PROVE  \E f : /\ \A i \in 1..Len(s) : f[i] = IF i = 1 THEN s[i] ELSE f[i - 1] \o s[i]
                /\ FlattenSeq(s) = f[Len(s)]
<1> DEFINE n == Len(s)
           F(f) == [i \in 1..n |-> IF i = 1 THEN s[i] ELSE f[i - 1] \o s[i]]
           C == CHOOSE f : f = F(f)
           S == {m \in 0..n : \E f : /\ DOMAIN f = 1..m /\ f = [k \in DOMAIN f |-> f[k]]
                                     /\ \A i \in 1..m : f[i] = IF i = 1 THEN s[i] ELSE f[i - 1] \o s[i]}
<1>0. n \in Nat
  OBVIOUS
<1>1. FlattenSeq(s) = C[n]
  BY Zenon DEF FlattenSeq
<1>2. 0 \in S
  <2> DEFINE f == [k \in 1..0 |-> 0]
  <2>1. DOMAIN f = 1..0 /\ f = [k \in DOMAIN f |-> f[k]] /\ \A i \in 1..0 : f[i] = IF i = 1 THEN s[i] ELSE f[i - 1] \o s[i]
    OBVIOUS
  <2> HIDE DEF f
  <2>2. 0 \in 0..n
    BY <1>0
  <2>3. QED BY <2>1, <2>2
<1>3. ASSUME NEW m \in 0..(n - 1), m \in S PROVE m + 1 \in S
  <2>1. PICK f : \A i \in 1..m : f[i] = IF i = 1 THEN s[i] ELSE f[i - 1] \o s[i]
    BY <1>3
  <2> DEFINE top == IF m = 0 THEN s[1] ELSE f[m] \o s[m + 1]
             g == [i \in 1..(m + 1) |-> IF i = m + 1 THEN top ELSE f[i]]
  <2>2. DOMAIN g = 1..(m + 1) /\ g = [k \in DOMAIN g |-> g[k]]
    OBVIOUS
  <2>3. \A i \in 1..m : g[i] = f[i]
    OBVIOUS
  <2>4. g[m + 1] = top
    OBVIOUS
  <2> HIDE DEF g
  <2>5. ASSUME NEW i \in 1..(m + 1) PROVE g[i] = IF i = 1 THEN s[i] ELSE g[i - 1] \o s[i]
    <3>1. CASE i = m + 1
      <4>1. CASE m = 0
        BY <2>4, <3>1, <4>1
      <4>2. CASE m # 0
        <5>1. i # 1 /\ i - 1 = m /\ m \in 1..m
          BY <3>1, <4>2
        <5>2. QED BY <2>3, <2>4, <3>1, <4>2, <5>1
      <4>3. QED BY <4>1, <4>2
    <3>2. CASE i # m + 1
      <4>1. i \in 1..m /\ (i # 1 => i - 1 \in 1..m)
        BY <3>2
      <4>2. g[i] = f[i] /\ (i # 1 => g[i - 1] = f[i - 1])
        BY <2>3, <4>1
      <4>3. QED BY <2>1, <4>1, <4>2
    <3>3. QED BY <3>1, <3>2
  <2>6. m + 1 \in 0..n
    BY <1>0
  <2>7. QED BY <2>2, <2>5, <2>6
<1>4. n \in S
  <2> HIDE DEF S, n
  <2>1. \A k \in 0..n : k \in S
    BY <1>0, <1>2, <1>3, IntervalInduction
  <2>2. QED BY <1>0, <2>1
<1>5. PICK f : /\ DOMAIN f = 1..n /\ f = [k \in DOMAIN f |-> f[k]]
               /\ \A i \in 1..n : f[i] = IF i = 1 THEN s[i] ELSE f[i - 1] \o s[i]
  BY <1>4
<1>6. f = F(f)
  BY <1>5, Zenon
<1>7. C = F(C)
  BY <1>6, Zenon
<1>8. \A i \in 1..n : C[i] = IF i = 1 THEN s[i] ELSE C[i - 1] \o s[i]
  BY <1>7, Zenon
<1>9. QED BY <1>1, <1>8

\* FlattenSeq puts the members of s behind each other.
LEMMA FlattenLaid ==
  ASSUME NEW T, NEW s \in Seq(Seq(T)), Len(s) # 0
  PROVE  \E O : Offsets(O, s) /\ Flat(FlattenSeq(s), O, s, T)
<1> DEFINE n == Len(s)
<1>0. n \in Nat /\ n # 0
  OBVIOUS
<1>1. PICK f : /\ \A i \in 1..n : f[i] = IF i = 1 THEN s[i] ELSE f[i - 1] \o s[i]
               /\ FlattenSeq(s) = f[n]
  BY FlattenUnfold
<1>2. \A i \in 1..n : s[i] \in Seq(T) /\ Len(s[i]) \in Nat
  OBVIOUS
<1> HIDE DEF n
<1> DEFINE O == [k \in 1..(n + 1) |-> IF k = 1 THEN 0 ELSE Len(f[k - 1])]
           At(i, k) == \A j \in 1..Len(s[k]) : O[k] + j \in 1..Len(f[i]) /\ f[i][O[k] + j] = s[k][j]
           Good(i) == /\ f[i] \in Seq(T) /\ O[i] \in Nat /\ O[i + 1] \in Nat /\ O[i + 1] = O[i] + Len(s[i])
                      /\ O[i + 1] = Len(f[i]) /\ \A k \in 1..i : At(i, k)
           S == {i \in 0..n : i = 0 \/ Good(i)}
<1>3. O[1] = 0 /\ \A k \in 1..n : O[k + 1] = Len(f[k])
  BY <1>0
<1> HIDE DEF O
<1>4. 0 \in S
  BY <1>0
<1>5. ASSUME NEW m \in 0..(n - 1), m \in S PROVE m + 1 \in S
  <2>1. m + 1 \in 1..n /\ m + 1 \in 0..n /\ (m # 0 => m \in 1..n)
    BY <1>0
  <2>2. s[m + 1] \in Seq(T) /\ O[(m + 1) + 1] = Len(f[m + 1])
    BY <1>2, <1>3, <2>1
  <2>3. CASE m = 0
    <3>1. f[1] = s[1]
      BY <1>0, <1>1
    <3>2. f[1] \in Seq(T) /\ O[1] = 0 /\ O[1 + 1] = Len(f[1]) /\ Len(f[1]) \in Nat
      <4>1. 1 \in 1..n
        BY <1>0
      <4>2. s[1] \in Seq(T) /\ Len(s[1]) \in Nat
        BY <1>2, <4>1
      <4>3. QED BY <1>3, <3>1, <4>1, <4>2
    <3>3. At(1, 1)
      BY <3>1, <3>2
    <3>4. Good(1)
      BY <3>1, <3>2, <3>3
    <3>5. m + 1 = 1
      BY <2>3
    <3> HIDE DEF Good
    <3>6. QED BY <2>1, <3>4, <3>5, Zenon
  <2>4. CASE m # 0
    <3>1. Good(m)
      BY <1>5, <2>4
    <3> DEFINE a == f[m]
               b == s[m + 1]
    <3>2. f[m + 1] = a \o b
      <4>1. m + 1 # 1 /\ (m + 1) - 1 = m
        BY <2>4
      <4>2. QED BY <1>1, <2>1, <4>1
    <3>3. a \in Seq(T) /\ b \in Seq(T)
      BY <2>2, <3>1
    <3>4. /\ a \o b \in Seq(T) /\ Len(a \o b) = Len(a) + Len(b) /\ Len(a) \in Nat /\ Len(b) \in Nat
          /\ \A i \in 1..(Len(a) + Len(b)) : (a \o b)[i] = IF i <= Len(a) THEN a[i] ELSE b[i - Len(a)]
      <4> HIDE DEF a, b
      <4> QED BY <3>3, ConcatProperties
    <3>5. O[m + 1] = Len(a) /\ Len(s[m + 1]) = Len(b)
      BY <3>1
    <3>6. At(m + 1, m + 1)
      <4> SUFFICES ASSUME NEW j \in 1..Len(b)
                   PROVE  O[m + 1] + j \in 1..Len(f[m + 1]) /\ f[m + 1][O[m + 1] + j] = b[j]
        OBVIOUS
      <4> HIDE DEF a, b
      <4>1. Len(a) + j \in 1..(Len(a) + Len(b)) /\ ~(Len(a) + j <= Len(a)) /\ (Len(a) + j) - Len(a) = j
        BY <3>4
      <4>2. QED BY <3>2, <3>4, <3>5, <4>1
    <3>7. ASSUME NEW k \in 1..m PROVE At(m + 1, k)
      <4> SUFFICES ASSUME NEW j \in 1..Len(s[k])
                   PROVE  O[k] + j \in 1..Len(f[m + 1]) /\ f[m + 1][O[k] + j] = s[k][j]
        OBVIOUS
      <4>1. O[k] + j \in 1..Len(a) /\ a[O[k] + j] = s[k][j]
        BY <3>1
      <4> HIDE DEF a, b
      <4>2. O[k] + j \in 1..(Len(a) + Len(b)) /\ O[k] + j <= Len(a)
        BY <3>4, <4>1
      <4>3. QED BY <3>2, <3>4, <4>1, <4>2
    <3>8. \A k \in 1..(m + 1) : At(m + 1, k)
      <4> HIDE DEF At
      <4>1. \A k \in 1..(m + 1) : k \in 1..m \/ k = m + 1
        OBVIOUS
      <4>2. QED BY <3>6, <3>7, <4>1
    <3>9. Good(m + 1)
      <4> HIDE DEF At
      <4>1. O[m + 1] \in Nat /\ O[(m + 1) + 1] = O[m + 1] + Len(s[m + 1]) /\ O[(m + 1) + 1] \in Nat
        <5> HIDE DEF a, b
        <5> QED BY <2>2, <3>2, <3>4, <3>5
      <4>2. QED BY <2>2, <3>2, <3>4, <3>8, <4>1
    <3>10. QED BY <2>1, <3>9
  <2>5. QED BY <2>3, <2>4
<1>6. \A i \in 1..n : Good(i)
  <2>1. \A i \in 0..n : i \in S
    <3> HIDE DEF S
    <3> QED BY <1>0, <1>4, <1>5, IntervalInduction
  <2> HIDE DEF Good
  <2>2. \A i \in 1..n : i \in 0..n /\ i # 0
    BY <1>0
  <2>3. QED BY <2>1, <2>2
<1>7. Offsets(O, s)
  <2>1. \A k \in 1..(n + 1) : O[k] \in Nat
    <3>1. \A k \in 1..(n + 1) : k = 1 \/ (k - 1 \in 1..n /\ (k - 1) + 1 = k)
      BY <1>0
    <3> HIDE DEF At
    <3>2. QED BY <1>3, <1>6, <3>1
  <2>2. O \in [1..(n + 1) -> Nat]
    BY <2>1 DEF O
  <2>3. \A k \in 1..n : O[k + 1] = O[k] + Len(s[k])
    BY <1>6
  <2>4. QED BY <1>3, <2>2, <2>3 DEF Offsets, n
<1>8. Flat(FlattenSeq(s), O, s, T)
  <2>1. n \in 1..n
    BY <1>0
  <2>2. Good(n) /\ f[n] = FlattenSeq(s)
    BY <1>1, <1>6, <2>1
  <2>3. QED BY <2>2 DEF Flat, n
<1>9. QED BY <1>7, <1>8

LEMMA SingleSeq ==
  ASSUME NEW T, NEW x \in T
  PROVE  <<x>> \in Seq(T) /\ Len(<<x>>) = 1 /\ <<x>>[1] = x
  OBVIOUS

LEMMA FunSeq ==
  ASSUME NEW T, NEW n \in Nat, NEW s \in [1..n -> T]
  PROVE  s \in Seq(T) /\ Len(s) = n
  OBVIOUS

Joint(J, a, b, T) ==
  /\ J \in Seq(T) /\ Len(J) = Len(a) + Len(b) /\ Len(a) \in Nat /\ Len(b) \in Nat
  /\ \A i \in 1..(Len(a) + Len(b)) : J[i] = IF i <= Len(a) THEN a[i] ELSE b[i - Len(a)]

LEMMA ConcatJoint ==
  ASSUME NEW T, NEW a \in Seq(T), NEW b \in Seq(T)
  PROVE  Joint(a \o b, a, b, T)
<1>1. Len(a) \in Nat /\ Len(b) \in Nat
  OBVIOUS
<1>2. QED BY <1>1, ConcatProperties, Zenon DEF Joint

LEMMA Behind ==
  ASSUME NEW T, NEW a \in Seq(T), NEW b \in Seq(T)
  PROVE  /\ a \o b \in Seq(T) /\ Len(a \o b) = Len(a) + Len(b) /\ Len(a) \in Nat /\ Len(b) \in Nat
         /\ \A i \in 1..(Len(a) + Len(b)) : (a \o b)[i] = IF i <= Len(a) THEN a[i] ELSE b[i - Len(a)]
<1>1. Len(a) \in Nat /\ Len(b) \in Nat
  OBVIOUS
<1>2. QED BY <1>1, ConcatProperties, Zenon

LEMMA OffsetsType ==
  ASSUME NEW T, NEW s \in Seq(Seq(T)), NEW O, Offsets(O, s), NEW n, n = Len(s)
  PROVE  /\ n \in Nat /\ O[1] = 0 /\ \A k \in 1..(n + 1) : O[k] \in Nat
         /\ \A k \in 1..n : O[k + 1] = O[k] + Len(s[k]) /\ Len(s[k]) \in Nat
<1>1. n \in Nat /\ \A k \in 1..n : Len(s[k]) \in Nat
  OBVIOUS
<1>2. O \in [1..(n + 1) -> Nat] /\ O[1] = 0 /\ \A k \in 1..n : O[k + 1] = O[k] + Len(s[k])
  BY Zenon DEF Offsets
<1>3. QED BY <1>1, <1>2

LEMMA OffsetsGrow ==
  ASSUME NEW T, NEW s \in Seq(Seq(T)), NEW O, Offsets(O, s), NEW m \in 1..(Len(s) + 1)
  PROVE  O[m] \in Nat /\ \A k \in 1..m : O[k] <= O[m]
<1> DEFINE n == Len(s)
           S == {i \in 0..n : \A k \in 1..(i + 1) : O[k] <= O[i + 1]}
<1>1. n \in Nat /\ O[1] = 0 /\ \A k \in 1..(n + 1) : O[k] \in Nat
  BY OffsetsType
<1>2. \A k \in 1..n : O[k + 1] = O[k] + Len(s[k]) /\ Len(s[k]) \in Nat
  BY OffsetsType
<1> HIDE DEF n
<1>3. 0 \in S
  <2>1. 0 \in 0..n /\ \A k \in 1..(0 + 1) : O[k] <= O[0 + 1]
    BY <1>1
  <2>2. QED BY <2>1
<1>4. ASSUME NEW i \in 0..(n - 1), i \in S PROVE i + 1 \in S
  <2>1. i + 1 \in 1..n /\ i + 1 \in 0..n
    BY <1>1
  <2>2. O[(i + 1) + 1] = O[i + 1] + Len(s[i + 1]) /\ Len(s[i + 1]) \in Nat
    BY <1>2, <2>1
  <2>3. ASSUME NEW k \in 1..((i + 1) + 1) PROVE O[k] <= O[(i + 1) + 1]
    <3>1. O[k] \in Nat /\ O[i + 1] \in Nat
      BY <1>1, <2>1
    <3>2. CASE k = (i + 1) + 1
      BY <3>1, <3>2
    <3>3. CASE k # (i + 1) + 1
      <4>1. k \in 1..(i + 1)
        BY <3>3
      <4>2. O[k] <= O[i + 1]
        BY <1>4, <4>1
      <4>3. QED BY <2>2, <3>1, <4>2
    <3>4. QED BY <3>2, <3>3
  <2>4. QED BY <2>1, <2>3
<1>5. \A i \in 0..n : i \in S
  <2> HIDE DEF S
  <2> QED BY <1>1, <1>3, <1>4, IntervalInduction
<1>6. m - 1 \in 0..n /\ (m - 1) + 1 = m /\ m \in 1..(n + 1)
  BY <1>1 DEF n
<1>7. QED BY <1>1, <1>5, <1>6

\* Every place belongs to a member.
Covered(O, s, m, p) == \E k \in 1..m : \E j \in 1..Len(s[k]) : p = O[k] + j

LEMMA OffsetsCover ==
  ASSUME NEW T, NEW s \in Seq(Seq(T)), NEW O, Offsets(O, s), NEW m \in Nat, m <= Len(s),
         NEW p \in 1..O[m + 1]
  PROVE  Covered(O, s, m, p)
<1> SUFFICES \E k \in 1..m : \E j \in 1..Len(s[k]) : p = O[k] + j
  BY Zenon DEF Covered
<1> DEFINE n == Len(s)
           In(i, q) == \E k \in 1..i : \E j \in 1..Len(s[k]) : q = O[k] + j
           S == {i \in 0..n : \A q \in 1..O[i + 1] : In(i, q)}
<1>1. n \in Nat /\ O[1] = 0 /\ \A k \in 1..(n + 1) : O[k] \in Nat
  BY OffsetsType
<1>2. \A k \in 1..n : O[k + 1] = O[k] + Len(s[k]) /\ Len(s[k]) \in Nat
  BY OffsetsType
<1>0. m \in 0..n
  OBVIOUS
<1> HIDE DEF n
<1>3. 0 \in S
  <2>1. 0 \in 0..n /\ 0 + 1 = 1 /\ 1..O[1] = {}
    BY <1>1
  <2>2. QED BY <2>1
<1>4. ASSUME NEW i \in 0..(n - 1), i \in S PROVE i + 1 \in S
  <2>1. i + 1 \in 1..n /\ i + 1 \in 0..n /\ i + 1 \in 1..(n + 1)
    BY <1>1
  <2>2. O[(i + 1) + 1] = O[i + 1] + Len(s[i + 1]) /\ Len(s[i + 1]) \in Nat /\ O[i + 1] \in Nat
    BY <1>1, <1>2, <2>1
  <2>3. ASSUME NEW q \in 1..O[(i + 1) + 1] PROVE In(i + 1, q)
    <3>1. CASE q <= O[i + 1]
      <4>1. q \in 1..O[i + 1]
        BY <2>2, <3>1
      <4>2. PICK k \in 1..i : \E j \in 1..Len(s[k]) : q = O[k] + j
        BY <1>4, <4>1
      <4>3. k \in 1..(i + 1)
        OBVIOUS
      <4>4. QED BY <4>2, <4>3
    <3>2. CASE ~(q <= O[i + 1])
      <4>1. q - O[i + 1] \in 1..Len(s[i + 1]) /\ q = O[i + 1] + (q - O[i + 1])
        <5> DEFINE o == O[i + 1]
                   l == Len(s[i + 1])
                   r == O[(i + 1) + 1]
        <5>1. r = o + l /\ l \in Nat /\ o \in Nat /\ q \in 1..r /\ ~(q <= o)
          BY <2>2, <2>3, <3>2, Zenon
        <5> HIDE DEF o, l, r
        <5>2. q - o \in 1..l /\ q = o + (q - o)
          BY ONLY <5>1
        <5>3. QED BY <5>2, Zenon DEF o, l
      <4>2. i + 1 \in 1..(i + 1)
        OBVIOUS
      <4>3. QED BY <4>1, <4>2, Zenon
    <3>3. QED BY <3>1, <3>2
  <2>4. QED BY <2>1, <2>3
<1>5. \A i \in 0..n : i \in S
  <2> HIDE DEF S
  <2> QED BY <1>1, <1>3, <1>4, IntervalInduction
<1>6. QED BY <1>0, <1>5

\* Two lists whose first members have the same lengths.
SameSizes(s, r, m) == m <= Len(s) /\ m <= Len(r) /\ \A k \in 1..m : Len(s[k]) = Len(r[k])
SamePlaces(O, P, m) == \A k \in 1..(m + 1) : O[k] = P[k]

LEMMA OffsetsAgree ==
  ASSUME NEW T, NEW s \in Seq(Seq(T)), NEW O, Offsets(O, s),
         NEW U, NEW r \in Seq(Seq(U)), NEW P, Offsets(P, r), NEW m \in Nat, SameSizes(s, r, m)
  PROVE  SamePlaces(O, P, m)
<1> SUFFICES \A k \in 1..(m + 1) : O[k] = P[k]
  BY Zenon DEF SamePlaces
<1>0. m <= Len(s) /\ m <= Len(r) /\ \A k \in 1..m : Len(s[k]) = Len(r[k])
  BY Zenon DEF SameSizes
<1> DEFINE S == {i \in 0..m : O[i + 1] = P[i + 1]}
<1>1. Len(s) \in Nat /\ Len(r) \in Nat /\ O[1] = 0 /\ P[1] = 0
  BY DEF Offsets
<1>2. 0 \in S
  <2>1. 0 \in 0..m /\ 0 + 1 = 1
    OBVIOUS
  <2>2. QED BY <1>1, <2>1
<1>3. ASSUME NEW i \in 0..(m - 1), i \in S PROVE i + 1 \in S
  <2>1. i + 1 \in 0..m /\ i + 1 \in 1..m /\ i + 1 \in 1..Len(s) /\ i + 1 \in 1..Len(r)
    BY <1>0, <1>1
  <2>2. O[(i + 1) + 1] = O[i + 1] + Len(s[i + 1]) /\ P[(i + 1) + 1] = P[i + 1] + Len(r[i + 1])
    BY <2>1 DEF Offsets
  <2>3. Len(s[i + 1]) = Len(r[i + 1]) /\ O[i + 1] = P[i + 1]
    BY <1>0, <1>3, <2>1
  <2>4. QED BY <2>1, <2>2, <2>3
<1>4. \A i \in 0..m : i \in S
  <2> HIDE DEF S
  <2> QED BY <1>2, <1>3, IntervalInduction
<1>5. \A k \in 1..(m + 1) : k - 1 \in 0..m /\ (k - 1) + 1 = k
  OBVIOUS
<1>6. QED BY <1>4, <1>5
-----------------------------------------------------------------------------
(* Sentences and formats.                                                  *)

\* What texts and formats are made of.
Symbol == Char \cup Conversions \cup {",", "*", "9", "cr", "lf", ".", "behind", "unset"}
Strings == Seq(Symbol)

\* Where the members of L stand in J: B[k] is the separator of the k-th.
Laid(J, L, tail, B, T, sep) ==
  /\ J \in Seq(T) /\ Len(L) \in Nat /\ Len(L) # 0 /\ Len(tail) \in Nat
  /\ \A k \in 1..Len(L) : Len(L[k]) \in Nat
  /\ \A k \in 1..(Len(L) + 1) : B[k] \in Nat /\ 1 <= B[k] /\ B[k] <= B[Len(L) + 1]
  /\ B[1] = 1 /\ \A k \in 1..Len(L) : B[k + 1] = (B[k] + 1) + Len(L[k])
  /\ Len(J) = (B[Len(L) + 1] - 1) + Len(tail)
  /\ \A k \in 1..Len(L) : J[B[k]] = sep /\ \A j \in 1..Len(L[k]) : J[B[k] + j] = L[k][j]
  /\ \A j \in 1..Len(tail) : J[(B[Len(L) + 1] - 1) + j] = tail[j]

LEMMA Separated ==
  ASSUME NEW T, NEW sep \in T, NEW x \in Seq(T), NEW y, y = <<sep>> \o x
  PROVE  /\ y \in Seq(T) /\ Len(y) = 1 + Len(x) /\ Len(x) \in Nat /\ y[1] = sep
         /\ \A j \in 1..Len(x) : y[1 + j] = x[j]
<1> DEFINE c == <<sep>>
<1>1. c \in Seq(T) /\ Len(c) = 1 /\ c[1] = sep
  OBVIOUS
<1> HIDE DEF c
<1>2. /\ c \o x \in Seq(T) /\ Len(c \o x) = Len(c) + Len(x) /\ Len(x) \in Nat
      /\ \A i \in 1..(Len(c) + Len(x)) : (c \o x)[i] = IF i <= Len(c) THEN c[i] ELSE x[i - Len(c)]
  BY <1>1, Behind, Zenon
<1>3. (c \o x)[1] = sep
  BY <1>1, <1>2
<1>4. ASSUME NEW j \in 1..Len(x) PROVE (c \o x)[1 + j] = x[j]
  <2>1. 1 + j \in 1..(1 + Len(x)) /\ ~(1 + j <= 1) /\ (1 + j) - 1 = j
    BY <1>2
  <2>2. QED BY <1>1, <1>2, <2>1
<1>5. y = c \o x
  BY DEF c
<1>6. QED BY <1>1, <1>2, <1>3, <1>4, <1>5

LEMMA SeparatedLaid ==
  ASSUME NEW T, NEW sep \in T, NEW L \in Seq(Seq(T)), Len(L) # 0, NEW tail \in Seq(T),
         NEW J, J = FlattenSeq([k \in 1..Len(L) |-> <<sep>> \o L[k]]) \o tail
  PROVE  \E B : Laid(J, L, tail, B, T, sep)
<1> DEFINE n == Len(L)
           s == [k \in 1..n |-> <<sep>> \o L[k]]
           F == FlattenSeq(s)
<1>1. n \in Nat /\ n # 0 /\ \A k \in 1..n : L[k] \in Seq(T)
  OBVIOUS
<1>2. \A k \in 1..n : s[k] = <<sep>> \o L[k]
  OBVIOUS
<1>3. /\ s \in Seq(Seq(T)) /\ Len(s) = n
      /\ \A k \in 1..n : /\ Len(s[k]) = 1 + Len(L[k]) /\ Len(L[k]) \in Nat /\ s[k][1] = sep
                         /\ \A j \in 1..Len(L[k]) : s[k][1 + j] = L[k][j]
  <2>1. \A k \in 1..n : <<sep>> \o L[k] \in Seq(T)
    BY <1>1, Separated
  <2>2. s \in [1..n -> Seq(T)]
    <3> HIDE DEF n
    <3> QED BY <2>1
  <2> HIDE DEF s, n
  <2>3. s \in Seq(Seq(T)) /\ Len(s) = n
    BY <1>1, <2>2, FunSeq
  <2>4. ASSUME NEW k \in 1..n
        PROVE  /\ Len(s[k]) = 1 + Len(L[k]) /\ Len(L[k]) \in Nat /\ s[k][1] = sep
               /\ \A j \in 1..Len(L[k]) : s[k][1 + j] = L[k][j]
    <3>1. L[k] \in Seq(T) /\ s[k] = <<sep>> \o L[k]
      BY <1>1, <1>2
    <3>2. QED BY <3>1, Separated, SMT
  <2>5. QED BY <2>3, <2>4
<1>5. J = F \o tail
  OBVIOUS
<1> HIDE DEF s, n
<1>4. PICK O : Offsets(O, s) /\ Flat(F, O, s, T)
  BY <1>1, <1>3, FlattenLaid
<1>6. /\ O[1] = 0 /\ \A k \in 1..n : O[k + 1] = O[k] + Len(s[k])
      /\ F \in Seq(T) /\ Len(F) = O[n + 1]
      /\ \A k \in 1..n : \A j \in 1..Len(s[k]) : O[k] + j \in 1..Len(F) /\ F[O[k] + j] = s[k][j]
  BY <1>3, <1>4, Zenon DEF Offsets, Flat
<1>7. \A k \in 1..(n + 1) : O[k] \in Nat /\ O[k] <= O[n + 1]
  <2>1. n + 1 \in 1..(n + 1)
    BY <1>1
  <2>2. n + 1 \in 1..(Len(s) + 1)
    BY <1>3, <2>1
  <2>3. \A k \in 1..(n + 1) : O[k] <= O[n + 1]
    BY <1>3, <1>4, <2>2, OffsetsGrow, Zenon
  <2>4. \A k \in 1..(n + 1) : O[k] \in Nat
    BY <1>3, <1>4, OffsetsType, Zenon
  <2>5. QED BY <2>3, <2>4
<1> HIDE DEF F
<1>8. /\ J \in Seq(T) /\ Len(J) = Len(F) + Len(tail) /\ Len(tail) \in Nat /\ Len(F) \in Nat
      /\ \A i \in 1..(Len(F) + Len(tail)) : J[i] = IF i <= Len(F) THEN F[i] ELSE tail[i - Len(F)]
  <2>1. F \in Seq(T) /\ tail \in Seq(T) /\ J = F \o tail
    BY <1>5, <1>6
  <2>2. Joint(J, F, tail, T)
    BY ONLY <2>1, ConcatJoint, Zenon
  <2>3. QED BY <2>2, Zenon DEF Joint
<1> DEFINE B == [k \in 1..(n + 1) |-> O[k] + 1]
<1>9. \A k \in 1..(n + 1) : B[k] = O[k] + 1
  OBVIOUS
<1>10. n + 1 \in 1..(n + 1) /\ 1 \in 1..(n + 1) /\ \A k \in 1..n : k \in 1..(n + 1) /\ k + 1 \in 1..(n + 1)
  BY <1>1
<1> HIDE DEF B
<1>11. /\ \A k \in 1..(n + 1) : B[k] \in Nat /\ 1 <= B[k] /\ B[k] <= B[n + 1]
       /\ B[1] = 1 /\ Len(J) = (B[n + 1] - 1) + Len(tail)
  <2>1. \A k \in 1..(n + 1) : B[k] \in Nat /\ 1 <= B[k] /\ B[k] <= B[n + 1]
    <3> TAKE k \in 1..(n + 1)
    <3>1. B[k] = O[k] + 1 /\ B[n + 1] = O[n + 1] + 1 /\ O[k] \in Nat /\ O[n + 1] \in Nat /\ O[k] <= O[n + 1]
      BY <1>7, <1>9, <1>10
    <3> DEFINE o == O[k]
               r == O[n + 1]
    <3>2. B[k] = o + 1 /\ B[n + 1] = r + 1 /\ o \in Nat /\ r \in Nat /\ o <= r
      BY <3>1, Zenon
    <3> HIDE DEF o, r
    <3>3. o + 1 \in Nat /\ 1 <= o + 1 /\ o + 1 <= r + 1
      BY ONLY <3>2
    <3>4. QED BY <3>2, <3>3, Zenon
  <2>2. B[1] = 1
    BY <1>6, <1>9, <1>10
  <2>3. B[n + 1] = Len(F) + 1
    BY <1>6, <1>9, <1>10
  <2>4. QED BY <1>8, <2>1, <2>2, <2>3
<1>12. ASSUME NEW k \in 1..n PROVE B[k + 1] = (B[k] + 1) + Len(L[k])
  <2>1. B[k + 1] = O[k + 1] + 1 /\ B[k] = O[k] + 1 /\ O[k] \in Nat
    BY <1>7, <1>9, <1>10
  <2>2. O[k + 1] = O[k] + (1 + Len(L[k])) /\ Len(L[k]) \in Nat
    <3>1. Len(s[k]) = 1 + Len(L[k]) /\ O[k + 1] = O[k] + Len(s[k]) /\ Len(L[k]) \in Nat
      BY <1>3, <1>6, Zenon
    <3>2. QED BY <3>1
  <2> DEFINE l == Len(L[k])
             o == O[k]
             p == O[k + 1]
  <2>3. B[k + 1] = p + 1 /\ B[k] = o + 1 /\ o \in Nat /\ l \in Nat /\ p = o + (1 + l)
    BY <2>1, <2>2
  <2> HIDE DEF l, o, p
  <2>4. B[k + 1] = (B[k] + 1) + l
    BY <2>3
  <2>5. QED BY <2>4 DEF l
<1>13. ASSUME NEW k \in 1..n
       PROVE  J[B[k]] = sep /\ \A j \in 1..Len(L[k]) : J[B[k] + j] = L[k][j]
  <2>1. O[k] \in Nat /\ B[k] = O[k] + 1 /\ Len(L[k]) \in Nat
    BY <1>3, <1>7, <1>9, <1>10
  <2>2. \A j \in 1..(1 + Len(L[k])) : J[O[k] + j] = s[k][j]
    <3> TAKE j \in 1..(1 + Len(L[k]))
    <3>0. 1 + Len(L[k]) = Len(s[k])
      BY <1>3, Zenon
    <3>1. O[k] + j \in 1..Len(F) /\ F[O[k] + j] = s[k][j]
      BY <1>6, <3>0, Zenon
    <3>2. O[k] + j \in 1..(Len(F) + Len(tail)) /\ O[k] + j <= Len(F)
      BY <1>8, <3>1
    <3>3. QED BY <1>8, <3>1, <3>2
  <2>3. J[B[k]] = sep
    <3>1. 1 \in 1..(1 + Len(L[k]))
      BY <2>1
    <3>2. QED BY <1>3, <2>1, <2>2, <3>1
  <2>4. ASSUME NEW j \in 1..Len(L[k]) PROVE J[B[k] + j] = L[k][j]
    <3>1. 1 + j \in 1..(1 + Len(L[k]))
      BY <2>1
    <3>3. B[k] + j = O[k] + (1 + j)
      <4> DEFINE o == O[k]
                 b == B[k]
      <4>1. o \in Nat /\ b = o + 1
        BY <2>1
      <4> HIDE DEF o, b
      <4>2. b + j = o + (1 + j)
        BY <4>1
      <4>3. QED BY <4>2 DEF o, b
    <3>2. QED BY <1>3, <2>2, <3>1, <3>3
  <2>5. QED BY <2>3, <2>4
<1>14. ASSUME NEW j \in 1..Len(tail) PROVE J[(B[n + 1] - 1) + j] = tail[j]
  <2>1. (B[n + 1] - 1) + j = Len(F) + j
    <3>1. B[n + 1] = Len(F) + 1
      BY <1>6, <1>9, <1>10
    <3>2. QED BY <1>8, <3>1
  <2>2. Len(F) + j \in 1..(Len(F) + Len(tail)) /\ ~(Len(F) + j <= Len(F)) /\ (Len(F) + j) - Len(F) = j
    BY <1>8
  <2>3. QED BY <1>8, <2>1, <2>2
<1>15. \A k \in 1..n : Len(L[k]) \in Nat
  BY <1>3
<1>16. Laid(J, L, tail, B, T, sep)
  BY <1>1, <1>8, <1>11, <1>12, <1>13, <1>14, <1>15, Zenon DEF Laid, n
<1>17. QED BY <1>16
-----------------------------------------------------------------------------
(* One turn of the loop.                                                   *)

LEMMA LeastExists ==
  ASSUME NEW S, S \subseteq Nat, S # {}
  PROVE  \E m \in S : \A q \in S : m <= q
<1>1. PICK m \in S : \A q \in S : ~(<<q, m>> \in OpToRel(<, Nat))
  BY NatLessThanWellFounded, WFMin, Zenon
<1>2. ASSUME NEW q \in S PROVE m <= q
  <2>1. m \in Nat /\ q \in Nat
    OBVIOUS
  <2>2. q < m => <<q, m>> \in OpToRel(<, Nat)
    BY <2>1 DEF OpToRel
  <2>3. ~(q < m)
    BY <1>1, <2>2, Zenon
  <2>4. QED BY <2>1, <2>3
<1>3. QED BY <1>2

\* Where Find ends: at the first c from pos on, or behind the text.
Found(text, pos, c, e) ==
  /\ e \in Nat /\ pos <= e /\ e <= Len(text) + 1
  /\ \A p \in Nat : pos <= p /\ p < e => text[p] # c
  /\ e <= Len(text) => text[e] = c

LEMMA FindFound ==
  ASSUME NEW text, Len(text) \in Nat, NEW pos \in Nat, pos <= Len(text) + 1, NEW c
  PROVE  Found(text, pos, c, Find(text, pos, c))
<1> DEFINE l == Len(text)
           hits == {p \in pos..l : text[p] = c}
           e == CHOOSE p \in hits : \A q \in hits : p <= q
<1>0. l \in Nat /\ pos <= l + 1
  OBVIOUS
<1>1. Find(text, pos, c) = IF hits = {} THEN l + 1 ELSE e
  BY Zenon DEF Find
<1> HIDE DEF l
<1>2. CASE hits = {}
  <2>1. \A p \in Nat : pos <= p /\ p < l + 1 => text[p] # c
    BY <1>0, <1>2
  <2>2. QED BY <1>0, <1>1, <1>2, <2>1 DEF Found, l
<1>3. CASE hits # {}
  <2>1. hits \subseteq Nat
    BY <1>0
  <2>2. \E p \in hits : \A q \in hits : p <= q
    <3> HIDE DEF hits
    <3> QED BY <1>3, <2>1, LeastExists
  <2>3. e \in hits /\ \A q \in hits : e <= q
    <3> HIDE DEF hits
    <3> QED BY <2>2, Zenon
  <2> HIDE DEF e
  <2>4. e \in Nat /\ pos <= e /\ e <= l /\ text[e] = c
    BY <1>0, <2>3
  <2>5. \A p \in Nat : pos <= p /\ p < e => text[p] # c
    <3> SUFFICES ASSUME NEW p \in Nat, pos <= p, p < e, text[p] = c PROVE FALSE
      OBVIOUS
    <3>1. p \in hits
      BY <1>0, <2>4
    <3>2. QED BY <2>3, <2>4, <3>1
  <2>6. Find(text, pos, c) = e
    BY <1>1, <1>3
  <2>7. QED BY <1>0, <2>4, <2>5, <2>6 DEF Found, l
<1>4. QED BY <1>2, <1>3

LEMMA FoundUnique ==
  ASSUME NEW text, Len(text) \in Nat, NEW pos \in Nat, NEW c, NEW e, NEW f,
         Found(text, pos, c, e), Found(text, pos, c, f)
  PROVE  e = f
<1>1. e \in Nat /\ f \in Nat
  BY DEF Found
<1>2. CASE e < f
  BY <1>1, <1>2 DEF Found
<1>3. CASE f < e
  BY <1>1, <1>3 DEF Found
<1>4. QED BY <1>1, <1>2, <1>3

\* Where the token of a conversion ends.
Ends(text, pos, conv, after, e) ==
  CASE conv = "2d" -> e = pos + 2
    [] conv = "C" -> e = IF text[pos] # after THEN pos + 1 ELSE pos
    [] OTHER -> Found(text, pos, after, e)

LEMMA TokenEnds ==
  ASSUME NEW text, Len(text) \in Nat, NEW pos \in Nat, pos <= Len(text), NEW conv, NEW after
  PROVE  Ends(text, pos, conv, after, TokenEnd(text, pos, conv, after))
<1>1. Found(text, pos, after, Find(text, pos, after))
  BY FindFound
<1>2. CASE conv = "2d"
  BY <1>2 DEF Ends, TokenEnd, Width
<1>3. CASE conv = "C" /\ text[pos] # after
  BY <1>3 DEF Ends, TokenEnd, CharWidth
<1>4. CASE conv = "C" /\ text[pos] = after
  <2>1. Found(text, pos, after, pos)
    BY <1>4 DEF Found
  <2>2. Find(text, pos, after) = pos
    BY <1>1, <2>1, FoundUnique
  <2>3. QED BY <1>4, <2>2 DEF Ends, TokenEnd, CharWidth
<1>5. CASE conv # "2d" /\ conv # "C"
  BY <1>1, <1>5 DEF Ends, TokenEnd, Width
<1>6. QED BY <1>2, <1>3, <1>4, <1>5

States == [pos : Nat, fail : BOOLEAN, toks : Seq(Nat \X Nat)]
Stopped(st, text) == st.fail \/ st.pos > Len(text)
After(format, k) == IF k < Len(format) THEN format[k + 1] ELSE ""

LEMMA TurnStopped ==
  ASSUME NEW text, NEW format, NEW st, NEW k, Stopped(st, text)
  PROVE  Turn(text, format, st, k) = st
  BY DEF Stopped, Turn

\* A literal is compared.
Compared(st, new, text, format, k) ==
  /\ new \in States /\ new.pos = st.pos + 1 /\ new.toks = st.toks
  /\ new.fail = (text[st.pos] # format[k])

LEMMA TurnLiteral ==
  ASSUME NEW text, NEW format, NEW st \in States, NEW k, ~Stopped(st, text),
         format[k] \notin Conversions, NEW new, new = Turn(text, format, st, k)
  PROVE  Compared(st, new, text, format, k)
<1> DEFINE b == text[st.pos] # format[k]
<1>1. new = [st EXCEPT !.pos = st.pos + 1, !.fail = b]
  BY DEF Stopped, Turn, Differs
<1>2. b \in BOOLEAN
  BY Zenon
<1> HIDE DEF b
<1>3. new.pos = st.pos + 1 /\ new.toks = st.toks /\ new.fail = b
  BY <1>1 DEF States
<1>5. new \in States
  <2>1. st.pos + 1 \in Nat
    BY DEF States
  <2> DEFINE q == st.pos + 1
  <2> HIDE DEF q
  <2>2. new = [st EXCEPT !.pos = q, !.fail = b] /\ q \in Nat
    BY <1>1, <2>1 DEF q
  <2>3. QED BY <1>2, <2>2, Zenon DEF States
<1>4. QED BY <1>3, <1>5, Zenon DEF b, Compared

\* A conversion takes the characters up to e, unless these are not all there.
Takes(st, new, text, format, k, e) ==
  /\ Ends(text, st.pos, format[k], After(format, k), e) /\ new \in States
  /\ IF e <= Len(text) + 1
     THEN new.pos = e /\ new.toks = Append(st.toks, <<st.pos, e>>) /\ ~new.fail
     ELSE new.toks = st.toks /\ new.fail /\ new.pos = st.pos

LEMMA TurnToken ==
  ASSUME NEW text, Len(text) \in Nat, NEW format, NEW st \in States, NEW k, ~Stopped(st, text),
         format[k] \in Conversions, NEW new, new = Turn(text, format, st, k)
  PROVE  \E e \in Nat : Takes(st, new, text, format, k, e)
<1> DEFINE e == TokenEnd(text, st.pos, format[k], After(format, k))
<1>1. new = IF e <= Len(text) + 1
            THEN [st EXCEPT !.pos = e, !.toks = Append(st.toks, <<st.pos, e>>)]
            ELSE [st EXCEPT !.fail = TRUE]
  BY Zenon DEF Stopped, Turn, InBuffer, After
<1>2. st.pos \in Nat /\ st.pos <= Len(text) /\ st.fail = FALSE /\ st.toks \in Seq(Nat \X Nat)
  BY DEF States, Stopped
<1>3. Ends(text, st.pos, format[k], After(format, k), e)
  BY <1>2, TokenEnds
<1> HIDE DEF e
<1>4. e \in Nat
  BY <1>2, <1>3 DEF Ends, Found
<1>5. CASE e <= Len(text) + 1
  <2>1. new = [st EXCEPT !.pos = e, !.toks = Append(st.toks, <<st.pos, e>>)]
    BY <1>1, <1>5
  <2>2. Append(st.toks, <<st.pos, e>>) \in Seq(Nat \X Nat)
    BY <1>2, <1>4
  <2>3. /\ new \in States /\ new.pos = e /\ new.toks = Append(st.toks, <<st.pos, e>>) /\ ~new.fail
    <3> DEFINE a == Append(st.toks, <<st.pos, e>>)
    <3> HIDE DEF a
    <3>1. new = [st EXCEPT !.pos = e, !.toks = a] /\ a \in Seq(Nat \X Nat)
      BY <2>1, <2>2 DEF a
    <3>2. new \in States /\ new.pos = e /\ new.toks = a /\ new.fail = st.fail
      BY <1>4, <3>1 DEF States
    <3>3. QED BY <1>2, <3>2 DEF a
  <2>4. Takes(st, new, text, format, k, e)
    BY <1>3, <1>5, <2>3 DEF Takes
  <2>5. QED BY <1>4, <2>4
<1>6. CASE ~(e <= Len(text) + 1)
  <2>1. new = [st EXCEPT !.fail = TRUE]
    BY <1>1, <1>6
  <2>2. new \in States /\ new.toks = st.toks /\ new.fail /\ new.pos = st.pos
    BY <2>1 DEF States
  <2>3. Takes(st, new, text, format, k, e)
    BY <1>3, <1>6, <2>2 DEF Takes
  <2>4. QED BY <1>4, <2>3
<1>7. QED BY <1>5, <1>6

\* The tokens taken so far follow each other, and end before pos.
Ordered(ts, pos) ==
  \A k \in 1..Len(ts) : /\ ts[k][1] <= ts[k][2] /\ ts[k][2] <= pos
                        /\ k > 1 => ts[k - 1][2] <= ts[k][1]

InText(st, text) ==
  st \in States /\ 1 <= st.pos /\ st.pos <= Len(text) + 1 /\ Ordered(st.toks, st.pos)

LEMMA TokenType ==
  ASSUME NEW ts \in Seq(Nat \X Nat)
  PROVE  Len(ts) \in Nat /\ \A k \in 1..Len(ts) : ts[k][1] \in Nat /\ ts[k][2] \in Nat
<1>1. Len(ts) \in Nat /\ \A k \in 1..Len(ts) : ts[k] \in Nat \X Nat
  OBVIOUS
<1>2. QED BY <1>1

LEMMA OrderedLater ==
  ASSUME NEW ts \in Seq(Nat \X Nat), NEW p \in Nat, NEW q \in Nat, p <= q, Ordered(ts, p)
  PROVE  Ordered(ts, q)
<1>1. Len(ts) \in Nat /\ \A k \in 1..Len(ts) : ts[k][1] \in Nat /\ ts[k][2] \in Nat
  BY TokenType
<1>2. QED BY <1>1 DEF Ordered

Appended(us, ts, p, q) ==
  /\ Len(us) = Len(ts) + 1 /\ us[Len(ts) + 1][1] = p /\ us[Len(ts) + 1][2] = q
  /\ \A k \in 1..Len(ts) : us[k] = ts[k]

LEMMA OrderedAppend ==
  ASSUME NEW ts \in Seq(Nat \X Nat), NEW p \in Nat, NEW q \in Nat, p <= q, Ordered(ts, p),
         NEW us, us = Append(ts, <<p, q>>)
  PROVE  Ordered(us, q) /\ Appended(us, ts, p, q)
<1>1. Len(ts) \in Nat /\ \A k \in 1..Len(ts) : ts[k][1] \in Nat /\ ts[k][2] \in Nat
  BY TokenType
<1>2. /\ Len(us) = Len(ts) + 1 /\ us[Len(ts) + 1] = <<p, q>>
      /\ \A k \in 1..Len(ts) : us[k] = ts[k]
  OBVIOUS
<1>3. us[Len(ts) + 1][1] = p /\ us[Len(ts) + 1][2] = q
  BY <1>2
<1>4. ASSUME NEW k \in 1..Len(us)
      PROVE  us[k][1] <= us[k][2] /\ us[k][2] <= q /\ (k > 1 => us[k - 1][2] <= us[k][1])
  <2>1. CASE k \in 1..Len(ts)
    <3>1. us[k] = ts[k] /\ ts[k][1] <= ts[k][2] /\ ts[k][2] <= p /\ ts[k][1] \in Nat /\ ts[k][2] \in Nat
      BY <1>1, <1>2, <2>1 DEF Ordered
    <3>2. ASSUME k > 1 PROVE us[k - 1][2] <= us[k][1]
      <4>1. k - 1 \in 1..Len(ts)
        BY <1>1, <2>1, <3>2
      <4>2. us[k - 1] = ts[k - 1]
        BY <1>2, <4>1
      <4>3. ts[k - 1][2] <= ts[k][1]
        BY <2>1, <3>2 DEF Ordered
      <4>4. QED BY <3>1, <4>2, <4>3
    <3>3. us[k][1] <= us[k][2] /\ us[k][2] <= q
      <4> DEFINE x == ts[k][1]
                 y == ts[k][2]
      <4>1. us[k][1] = x /\ us[k][2] = y /\ x <= y /\ y <= p /\ x \in Nat /\ y \in Nat
        BY <3>1
      <4>2. p \in Nat /\ q \in Nat /\ p <= q
        OBVIOUS
      <4> HIDE DEF x, y
      <4>3. y <= q
        BY ONLY <4>1, <4>2
      <4>4. QED BY <4>1, <4>3, Zenon
    <3>4. QED BY <3>2, <3>3
  <2>2. CASE k = Len(ts) + 1
    <3>1. k > 1 => k - 1 \in 1..Len(ts)
      BY <1>1, <2>2
    <3>2. k > 1 => us[k - 1][2] <= p
      BY <1>1, <1>2, <3>1 DEF Ordered
    <3>3. QED BY <1>3, <2>2, <3>2
  <2>3. QED BY <1>1, <1>2, <2>1, <2>2
<1>5. Appended(us, ts, p, q)
  BY <1>2, <1>3 DEF Appended
<1>6. QED BY <1>4, <1>5 DEF Ordered

GoodTurn(st, new, text, format, k) ==
  /\ InText(new, text) /\ Len(st.toks) \in Nat /\ Len(new.toks) \in Nat
  /\ Len(new.toks) <= Len(st.toks) + 1
  /\ format[k] \notin Conversions => new.toks = st.toks

LEMMA TurnInText ==
  ASSUME NEW text, Len(text) \in Nat, NEW format, NEW st, InText(st, text), NEW k,
         NEW new, new = Turn(text, format, st, k)
  PROVE  GoodTurn(st, new, text, format, k)
<1>1. st \in States /\ st.pos \in Nat /\ st.toks \in Seq(Nat \X Nat) /\ Len(st.toks) \in Nat
  BY DEF InText, States
<1>2. CASE Stopped(st, text)
  <2>1. new = st
    BY <1>2, TurnStopped
  <2>2. QED BY <1>1, <2>1 DEF GoodTurn
<1>3. CASE ~Stopped(st, text) /\ format[k] \notin Conversions
  <2>1. Compared(st, new, text, format, k)
    BY <1>1, <1>3, TurnLiteral, Zenon
  <2>0. new \in States /\ new.pos = st.pos + 1 /\ new.toks = st.toks
    BY <2>1 DEF Compared
  <2>2. st.pos <= Len(text)
    BY <1>1, <1>3 DEF Stopped
  <2>3. Ordered(st.toks, st.pos)
    BY DEF InText
  <2>4. st.pos + 1 \in Nat /\ st.pos <= st.pos + 1 /\ 1 <= st.pos + 1 /\ st.pos + 1 <= Len(text) + 1
    BY <1>1, <2>2
  <2>5. Ordered(st.toks, st.pos + 1)
    BY <1>1, <2>3, <2>4, OrderedLater
  <2>6. InText(new, text)
    BY <2>0, <2>4, <2>5 DEF InText
  <2>7. QED BY <1>1, <2>0, <2>6 DEF GoodTurn
<1>4. CASE ~Stopped(st, text) /\ format[k] \in Conversions
  <2>1. PICK e \in Nat : Takes(st, new, text, format, k, e)
    BY <1>1, <1>4, TurnToken, Zenon
  <2>2. st.pos <= e
    BY <1>1, <2>1 DEF Takes, Ends, Found
  <2>3. Ordered(st.toks, st.pos) /\ 1 <= st.pos
    BY DEF InText
  <2>4. CASE e <= Len(text) + 1
    <3>1. new.pos = e /\ new.toks = Append(st.toks, <<st.pos, e>>)
      BY <2>1, <2>4 DEF Takes
    <3>2. Ordered(new.toks, e) /\ Appended(new.toks, st.toks, st.pos, e)
      BY <1>1, <2>2, <2>3, <3>1, OrderedAppend, Zenon
    <3>3. InText(new, text)
      BY <1>1, <2>1, <2>2, <2>3, <2>4, <3>1, <3>2 DEF InText, Takes
    <3>4. QED BY <1>1, <1>4, <3>2, <3>3 DEF GoodTurn, Appended
  <2>5. CASE ~(e <= Len(text) + 1)
    <3>1. new.toks = st.toks /\ new.pos = st.pos
      BY <2>1, <2>5 DEF Takes
    <3>2. InText(new, text)
      BY <2>1, <3>1 DEF InText, Takes
    <3>3. QED BY <1>1, <3>1, <3>2 DEF GoodTurn
  <2>6. QED BY <2>4, <2>5
<1>5. QED BY <1>2, <1>3, <1>4

LEMMA TurnsInText ==
  ASSUME NEW text, Len(text) \in Nat, NEW format, Len(format) \in Nat, NEW t, Turns(t, text, format)
  PROVE  \A k \in 0..Len(format) : InText(t[k], text)
<1> DEFINE n == Len(format)
           S == {k \in 0..n : InText(t[k], text)}
<1>1. 0 \in S
  <2>1. t[0] = StartState
    BY DEF Turns
  <2>2. StartState \in States /\ StartState.pos = 1 /\ StartState.toks = <<>>
    BY DEF StartState, States
  <2>3. Ordered(<<>>, 1)
    BY DEF Ordered
  <2>4. InText(StartState, text)
    BY <2>2, <2>3 DEF InText
  <2>5. QED BY <2>1, <2>4
<1>2. ASSUME NEW k \in 0..(n - 1), k \in S PROVE k + 1 \in S
  <2>1. k + 1 \in 1..n /\ k + 1 \in 0..n /\ (k + 1) - 1 = k
    OBVIOUS
  <2>2. t[k + 1] = Turn(text, format, t[k], k + 1)
    BY <2>1 DEF Turns
  <2>3. InText(t[k], text)
    BY <1>2
  <2>4. GoodTurn(t[k], t[k + 1], text, format, k + 1)
    BY <2>2, <2>3, TurnInText, Zenon
  <2>5. QED BY <2>1, <2>4 DEF GoodTurn
<1>3. \A k \in 0..n : k \in S
  <2>0. n \in Nat
    OBVIOUS
  <2> HIDE DEF S, n
  <2> QED BY <1>1, <1>2, <2>0, IntervalInduction
<1>4. QED BY <1>3
-----------------------------------------------------------------------------
(* Format and sentence, field by field.                                    *)

Comma == ","
Star == "*"

\* Where the conversions stand in the format.
InFormat(format, lay, FB) ==
  /\ Len(lay) \in Nat /\ Len(lay) # 0 /\ Len(format) = FB[Len(lay) + 1] /\ FB[1] = 1
  /\ \A a \in 1..(Len(lay) + 1) : FB[a] \in Nat /\ 1 <= FB[a] /\ FB[a] <= FB[Len(lay) + 1]
  /\ \A a \in 1..Len(lay) : Len(lay[a]) \in Nat /\ FB[a + 1] = (FB[a] + 1) + Len(lay[a])
  /\ \A a \in 1..Len(lay) : format[FB[a]] = Comma
  /\ \A a \in 1..Len(lay) : \A j \in 1..Len(lay[a]) :
        format[FB[a] + j] = lay[a][j] /\ lay[a][j] \in Conversions
  /\ format[FB[Len(lay) + 1]] = Star

\* Where the fields stand in the sentence.
InSentence(text, flds, TB) ==
  /\ Len(flds) \in Nat /\ Len(flds) # 0 /\ Len(text) = TB[Len(flds) + 1] + 4 /\ TB[1] = 1
  /\ \A a \in 1..(Len(flds) + 1) : TB[a] \in Nat /\ 1 <= TB[a] /\ TB[a] <= TB[Len(flds) + 1]
  /\ \A a \in 1..Len(flds) : Len(flds[a]) \in Nat /\ TB[a + 1] = (TB[a] + 1) + Len(flds[a])
  /\ \A a \in 1..Len(flds) : text[TB[a]] = Comma
  /\ \A a \in 1..Len(flds) : \A j \in 1..Len(flds[a]) :
        text[TB[a] + j] = flds[a][j] /\ flds[a][j] \in Char
  /\ text[TB[Len(flds) + 1]] = Star
  /\ \A j \in 0..4 : text[TB[Len(flds) + 1] + j] # Comma

\* The separators are neither characters of a field nor conversions.
LEMMA Separators ==
  /\ Comma # Star /\ Comma \notin Char /\ Star \notin Char
  /\ Comma \notin Conversions /\ Star \notin Conversions
<1>1. Char \cap {",", "*", ""} = {}
  BY ScanfAssumption
<1>2. QED BY <1>1 DEF Comma, Star, Conversions

LEMMA FormatPlaces ==
  ASSUME NEW format, NEW lay, NEW FB, InFormat(format, lay, FB), NEW n, n = Len(lay)
  PROVE  /\ n \in Nat /\ n # 0 /\ Len(format) \in Nat /\ Len(format) = FB[n + 1] /\ FB[1] = 1
         /\ \A a \in 1..(n + 1) : FB[a] \in Nat /\ 1 <= FB[a] /\ FB[a] <= Len(format)
         /\ \A a \in 1..n : Len(lay[a]) \in Nat /\ FB[a + 1] = (FB[a] + 1) + Len(lay[a])
<1>1. n \in Nat /\ n # 0 /\ Len(format) = FB[n + 1] /\ FB[1] = 1
  BY Zenon DEF InFormat
<1>2. n + 1 \in 1..(n + 1)
  BY <1>1
<1>3. \A a \in 1..(n + 1) : FB[a] \in Nat /\ 1 <= FB[a] /\ FB[a] <= Len(format)
  BY <1>1, Zenon DEF InFormat
<1>4. \A a \in 1..n : Len(lay[a]) \in Nat /\ FB[a + 1] = (FB[a] + 1) + Len(lay[a])
  BY Zenon DEF InFormat
<1>5. QED BY <1>1, <1>2, <1>3, <1>4

\* The conversions of field a, between two separators.
Spans(format, lay, FB, a) ==
  /\ Len(format) \in Nat /\ FB[a] \in Nat /\ 1 <= FB[a] /\ FB[a + 1] \in Nat
  /\ FB[a + 1] <= Len(format) /\ Len(lay[a]) \in Nat /\ FB[a + 1] = (FB[a] + 1) + Len(lay[a])

LEMMA FormatAt ==
  ASSUME NEW format, NEW lay, NEW FB, InFormat(format, lay, FB), NEW a \in 1..Len(lay)
  PROVE  Spans(format, lay, FB, a)
<1> DEFINE n == Len(lay)
<1>1. /\ n \in Nat /\ Len(format) = FB[n + 1]
      /\ \A i \in 1..(n + 1) : FB[i] \in Nat /\ 1 <= FB[i] /\ FB[i] <= FB[n + 1]
      /\ \A i \in 1..n : Len(lay[i]) \in Nat /\ FB[i + 1] = (FB[i] + 1) + Len(lay[i])
  BY Zenon DEF InFormat
<1>2. a \in 1..n
  OBVIOUS
<1> HIDE DEF n
<1>3. a \in 1..(n + 1) /\ a + 1 \in 1..(n + 1) /\ n + 1 \in 1..(n + 1)
  BY <1>1, <1>2
<1>4. QED BY <1>1, <1>2, <1>3, Zenon DEF Spans

LEMMA FormatSize ==
  ASSUME NEW format, NEW lay, NEW FB, InFormat(format, lay, FB)
  PROVE  Len(lay) \in Nat /\ Len(format) \in Nat /\ Len(format) = FB[Len(lay) + 1]
<1> DEFINE n == Len(lay)
<1>1. /\ n \in Nat /\ Len(format) = FB[n + 1] /\ \A i \in 1..(n + 1) : FB[i] \in Nat
  BY Zenon DEF InFormat
<1> HIDE DEF n
<1>2. n + 1 \in 1..(n + 1)
  BY <1>1
<1>3. QED BY <1>1, <1>2, Zenon DEF n

LEMMA SentenceSize ==
  ASSUME NEW text, NEW flds, NEW TB, InSentence(text, flds, TB)
  PROVE  Len(flds) \in Nat /\ Len(text) \in Nat
<1> DEFINE f == Len(flds)
<1>1. f \in Nat /\ Len(text) = TB[f + 1] + 4 /\ \A a \in 1..(f + 1) : TB[a] \in Nat
  BY Zenon DEF InSentence
<1> HIDE DEF f
<1>2. f + 1 \in 1..(f + 1)
  BY <1>1
<1>3. TB[f + 1] \in Nat
  BY <1>1, <1>2, Zenon
<1>4. QED BY <1>1, <1>3 DEF f

\* A conversion takes one token at most, a literal none.
LEMMA TurnsCount ==
  ASSUME NEW text, Len(text) \in Nat, NEW format, NEW lay, NEW FB, InFormat(format, lay, FB),
         NEW t, Turns(t, text, format)
  PROVE  Len(t[Len(format)].toks) <= FB[Len(lay) + 1] - (Len(lay) + 1)
<1> DEFINE n == Len(lay)
           m == Len(format)
           At(k, a, j) == k = FB[a] + j => Len(t[k].toks) <= (FB[a] - a) + j
           S == {k \in 0..m : \A a \in 1..n : \A j \in 0..Len(lay[a]) : At(k, a, j)}
<1>1. /\ n \in Nat /\ n # 0 /\ m \in Nat /\ m = FB[n + 1] /\ FB[1] = 1
      /\ \A a \in 1..(n + 1) : FB[a] \in Nat /\ 1 <= FB[a] /\ FB[a] <= m
      /\ \A a \in 1..n : Len(lay[a]) \in Nat /\ FB[a + 1] = (FB[a] + 1) + Len(lay[a])
  BY FormatPlaces
<1>2. /\ \A a \in 1..n : format[FB[a]] = Comma
      /\ \A a \in 1..n : \A j \in 1..Len(lay[a]) : format[FB[a] + j] = lay[a][j] /\ lay[a][j] \in Conversions
      /\ format[FB[n + 1]] = Star
  BY Zenon DEF InFormat
<1>3. \A k \in 0..m : InText(t[k], text)
  BY <1>1, TurnsInText
<1> HIDE DEF n, m
<1>4. ASSUME NEW k \in 1..m
      PROVE  /\ Len(t[k - 1].toks) \in Nat /\ Len(t[k].toks) \in Nat
             /\ Len(t[k].toks) <= Len(t[k - 1].toks) + 1
             /\ format[k] \notin Conversions => t[k].toks = t[k - 1].toks
  <2>1. t[k] = Turn(text, format, t[k - 1], k)
    BY DEF Turns, m
  <2>2. InText(t[k - 1], text)
    <3>1. k - 1 \in 0..m
      BY <1>1
    <3>2. QED BY <1>3, <3>1
  <2>3. GoodTurn(t[k - 1], t[k], text, format, k)
    BY <2>1, <2>2, TurnInText, Zenon
  <2>4. QED BY <2>3 DEF GoodTurn
<1>5. 0 \in S
  BY <1>1
<1>6. ASSUME NEW i \in 0..(m - 1), i \in S PROVE i + 1 \in S
  <2> DEFINE k == i + 1
  <2>1. k \in 1..m /\ k \in 0..m /\ k - 1 = i
    BY <1>1
  <2> HIDE DEF k
  <2>2. SUFFICES ASSUME NEW a \in 1..n, NEW j \in 0..Len(lay[a]), k = FB[a] + j
                 PROVE  Len(t[k].toks) <= (FB[a] - a) + j
    BY <2>1 DEF k
  <2>3. FB[a] \in Nat /\ Len(lay[a]) \in Nat /\ a \in Nat /\ j \in Nat
    BY <1>1
  <2>4. Len(t[i].toks) \in Nat /\ Len(t[k].toks) \in Nat /\ Len(t[k].toks) <= Len(t[i].toks) + 1
    BY <1>4, <2>1
  <2>5. format[k] \notin Conversions => t[k].toks = t[i].toks
    BY <1>4, <2>1
  <2>6. CASE j # 0
    <3>1. j - 1 \in 0..Len(lay[a]) /\ i = FB[a] + (j - 1)
      BY <2>1, <2>2, <2>3, <2>6
    <3>2. Len(t[i].toks) <= (FB[a] - a) + (j - 1)
      BY <1>6, <3>1
    <3> DEFINE x == Len(t[i].toks)
               y == Len(t[k].toks)
               f == FB[a]
    <3>3. x <= (f - a) + (j - 1) /\ y <= x + 1 /\ x \in Nat /\ y \in Nat /\ f \in Nat
      BY <2>3, <2>4, <3>2
    <3> HIDE DEF x, y, f
    <3>4. y <= (f - a) + j
      BY <2>3, <3>3
    <3>5. QED BY <3>4 DEF y, f
  <2>7. CASE j = 0
    <3>1. k = FB[a]
      BY <2>2, <2>3, <2>7
    <3>2. t[k].toks = t[i].toks
      BY <1>2, <2>5, <3>1, Separators
    <3>3. CASE a = 1
      <4>1. i = 0
        BY <1>1, <2>1, <3>1, <3>3
      <4>2. t[i].toks = <<>>
        BY <4>1 DEF Turns, StartState
      <4>3. Len(t[k].toks) = 0
        BY <3>2, <4>2
      <4>4. FB[a] = 1
        BY <1>1, <3>3
      <4>5. QED BY <2>7, <3>3, <4>3, <4>4
    <3>4. CASE a # 1
      <4> DEFINE b == a - 1
      <4>1. b \in 1..n /\ b + 1 = a /\ b \in Nat
        BY <1>1, <3>4
      <4> HIDE DEF b
      <4>2. FB[a] = (FB[b] + 1) + Len(lay[b]) /\ Len(lay[b]) \in Nat /\ FB[b] \in Nat
        <5>1. FB[b + 1] = (FB[b] + 1) + Len(lay[b]) /\ Len(lay[b]) \in Nat
          BY <1>1, <4>1, Zenon
        <5>2. b \in 1..(n + 1)
          BY <1>1, <4>1
        <5>3. QED BY <1>1, <4>1, <5>1, <5>2, Zenon
      <4>3. Len(lay[b]) \in 0..Len(lay[b]) /\ i = FB[b] + Len(lay[b])
        <5> DEFINE o == FB[b]
                   l == Len(lay[b])
                   r == FB[a]
        <5>1. r = (o + 1) + l /\ l \in Nat /\ o \in Nat /\ k = r
          BY <3>1, <4>2, Zenon
        <5> HIDE DEF o, l, r
        <5>2. l \in 0..l /\ i = o + l
          BY <2>1, <5>1
        <5>3. QED BY <5>2, Zenon DEF o, l
      <4>4. Len(t[i].toks) <= (FB[b] - b) + Len(lay[b])
        BY <1>6, <4>1, <4>3
      <4> DEFINE x == Len(t[i].toks)
                 f == FB[a]
                 g == FB[b]
                 l == Len(lay[b])
      <4>5. x <= (g - b) + l /\ f = (g + 1) + l /\ g \in Nat /\ l \in Nat /\ x \in Nat /\ f \in Nat
        BY <2>3, <2>4, <4>2, <4>4, Zenon
      <4> HIDE DEF x, f, g, l
      <4>6. x <= (f - a) + j
        BY <2>7, <4>1, <4>5
      <4>7. QED BY <3>2, <4>6 DEF x, f
    <3>5. QED BY <3>3, <3>4
  <2>8. QED BY <2>6, <2>7
<1>7. \A k \in 0..m : k \in S
  <2> HIDE DEF S
  <2> QED BY <1>1, <1>5, <1>6, IntervalInduction
<1>8. /\ n \in 1..n /\ Len(lay[n]) \in Nat /\ m = (FB[n] + 1) + Len(lay[n]) /\ FB[n] \in Nat
      /\ m \in 1..m /\ m - 1 \in 0..m
  <2>1. n \in 1..n /\ n \in 1..(n + 1)
    BY <1>1
  <2>2. Len(lay[n]) \in Nat /\ m = (FB[n] + 1) + Len(lay[n]) /\ FB[n] \in Nat
    BY <1>1, <2>1
  <2>3. m \in 1..m /\ m - 1 \in 0..m
    <3> DEFINE o == FB[n]
               l == Len(lay[n])
    <3>1. l \in Nat /\ m = (o + 1) + l /\ o \in Nat
      BY <2>2, Zenon
    <3> HIDE DEF o, l
    <3>2. QED BY ONLY <3>1
  <2>4. QED BY <2>1, <2>2, <2>3, Zenon
<1>9. Len(t[m - 1].toks) <= (FB[n] - n) + Len(lay[n])
  <2>1. m - 1 = FB[n] + Len(lay[n]) /\ Len(lay[n]) \in 0..Len(lay[n])
    <3> DEFINE o == FB[n]
               l == Len(lay[n])
    <3>1. m = (o + 1) + l /\ o \in Nat /\ l \in Nat
      BY <1>8, Zenon
    <3> HIDE DEF o, l
    <3>2. m - 1 = o + l /\ l \in 0..l
      BY ONLY <3>1
    <3>3. QED BY <3>2, Zenon DEF o, l
  <2>2. m - 1 \in S
    BY <1>7, <1>8
  <2>3. QED BY <1>8, <2>1, <2>2
<1>10. t[m].toks = t[m - 1].toks
  <2>1. format[m] \notin Conversions
    BY <1>1, <1>2, Separators
  <2>2. QED BY <1>4, <1>8, <2>1
<1>11. Len(t[m].toks) <= m - (n + 1)
  <2> DEFINE x == Len(t[m].toks)
             f == FB[n]
             l == Len(lay[n])
  <2>1. x <= (f - n) + l /\ m = (f + 1) + l /\ f \in Nat /\ l \in Nat /\ x \in Nat
    BY <1>4, <1>8, <1>9, <1>10
  <2> HIDE DEF x, f, l
  <2>2. x <= m - (n + 1)
    BY <1>1, <2>1
  <2>3. QED BY <2>2 DEF x
<1>12. QED BY <1>1, <1>11 DEF n, m
-----------------------------------------------------------------------------
(* The formats of the sentences.                                           *)

FieldS == <<"s">>
FieldC == <<"C">>
FieldF == <<"f">>
FieldD == <<"d">>
FieldDate == <<"2d", "2d", "2d">>
Shapes == {FieldS, FieldC, FieldF, FieldD, FieldDate}

LEMMA Record5 ==
  ASSUME NEW a, NEW b, NEW c, NEW d, NEW e, NEW R,
         R = [GGA |-> a, GSA |-> b, GSV |-> c, RMC |-> d, VTG |-> e]
  PROVE  /\ R["GGA"] = a /\ R["GSA"] = b /\ R["GSV"] = c /\ R["RMC"] = d /\ R["VTG"] = e
         /\ DOMAIN R = {"GGA", "GSA", "GSV", "RMC", "VTG"}
  OBVIOUS

LEMMA LayoutRecord ==
  /\ DOMAIN Layout = {"GGA", "GSA", "GSV", "RMC", "VTG"}
  /\ Layout["GGA"] = <<FieldS, FieldF, FieldC, FieldF, FieldC, FieldD, FieldD, FieldF,
                       FieldF, FieldC, FieldF, FieldC, FieldF, FieldD>>
  /\ Layout["GSA"] = <<FieldC>> \o Fields(13, FieldD) \o Fields(3, FieldF)
  /\ Layout["GSV"] = Fields(19, FieldD)
  /\ Layout["RMC"] = <<FieldS, FieldC, FieldF, FieldC, FieldF, FieldC, FieldF, FieldF,
                       FieldDate, FieldF, FieldC, FieldC>>
  /\ Layout["VTG"] = <<FieldF, FieldC, FieldF, FieldC, FieldF, FieldC, FieldF, FieldC>>
<1> DEFINE a == <<FieldS, FieldF, FieldC, FieldF, FieldC, FieldD, FieldD, FieldF,
                  FieldF, FieldC, FieldF, FieldC, FieldF, FieldD>>
           b == <<FieldC>> \o Fields(13, FieldD) \o Fields(3, FieldF)
           c == Fields(19, FieldD)
           d == <<FieldS, FieldC, FieldF, FieldC, FieldF, FieldC, FieldF, FieldF,
                  FieldDate, FieldF, FieldC, FieldC>>
           e == <<FieldF, FieldC, FieldF, FieldC, FieldF, FieldC, FieldF, FieldC>>
<1>1. Layout = [GGA |-> a, GSA |-> b, GSV |-> c, RMC |-> d, VTG |-> e]
  BY Zenon DEF Layout, FieldS, FieldC, FieldF, FieldD, FieldDate
<1> HIDE DEF a, b, c, d, e
<1>2. /\ Layout["GGA"] = a /\ Layout["GSA"] = b /\ Layout["GSV"] = c /\ Layout["RMC"] = d
      /\ Layout["VTG"] = e /\ DOMAIN Layout = {"GGA", "GSA", "GSV", "RMC", "VTG"}
  BY <1>1, Record5, Zenon
<1>3. QED BY <1>2, Zenon DEF a, b, c, d, e

Single(c, x) == c = <<x>> /\ Len(c) = 1 /\ c[1] = x

LEMMA SingleIs == ASSUME NEW x PROVE Single(<<x>>, x)
  BY DEF Single

LEMMA TripleIs ==
  ASSUME NEW x, NEW c, c = <<x, x, x>>
  PROVE  Len(c) = 3 /\ \A j \in 1..3 : c[j] = x
  OBVIOUS

LEMMA ShapeFacts ==
  /\ Single(FieldS, "s") /\ Single(FieldC, "C") /\ Single(FieldF, "f") /\ Single(FieldD, "d")
  /\ Len(FieldDate) = 3 /\ \A j \in 1..3 : FieldDate[j] = "2d"
<1>1. Single(FieldS, "s") /\ Single(FieldC, "C") /\ Single(FieldF, "f") /\ Single(FieldD, "d")
  BY SingleIs, Zenon DEF FieldS, FieldC, FieldF, FieldD
<1>2. Len(FieldDate) = 3 /\ \A j \in 1..3 : FieldDate[j] = "2d"
  BY TripleIs, Zenon DEF FieldDate
<1>3. QED BY <1>1, <1>2

LEMMA ShapesDiffer ==
  /\ FieldS # FieldC /\ FieldS # FieldF /\ FieldS # FieldD /\ FieldS # FieldDate
  /\ FieldC # FieldF /\ FieldC # FieldD /\ FieldC # FieldDate
  /\ FieldF # FieldD /\ FieldF # FieldDate /\ FieldD # FieldDate
<1>1. /\ FieldS[1] = "s" /\ FieldC[1] = "C" /\ FieldF[1] = "f" /\ FieldD[1] = "d" /\ FieldDate[1] = "2d"
  <2>1. 1 \in 1..3
    OBVIOUS
  <2>2. QED BY <2>1, ShapeFacts, Zenon DEF Single
<1>2. QED BY <1>1

LEMMA ShapeTypes ==
  ASSUME NEW x \in Shapes
  PROVE  x \in Seq(Conversions) /\ (Len(x) = 1 \/ Len(x) = 3) /\ ((Len(x) = 1) <=> (x # FieldDate))
<1>1. \A c : c \in Conversions => <<c>> \in Seq(Conversions) /\ <<c, c, c>> \in Seq(Conversions)
  OBVIOUS
<1>2. "s" \in Conversions /\ "C" \in Conversions /\ "f" \in Conversions /\ "d" \in Conversions /\ "2d" \in Conversions
  BY Zenon DEF Conversions
<1>3. /\ FieldS \in Seq(Conversions) /\ FieldC \in Seq(Conversions) /\ FieldF \in Seq(Conversions)
      /\ FieldD \in Seq(Conversions) /\ FieldDate \in Seq(Conversions)
  BY <1>1, <1>2, Zenon DEF FieldS, FieldC, FieldF, FieldD, FieldDate
<1>4. Len(FieldS) = 1 /\ Len(FieldC) = 1 /\ Len(FieldF) = 1 /\ Len(FieldD) = 1 /\ Len(FieldDate) = 3
  BY ShapeFacts, Zenon DEF Single
<1>5. x = FieldS \/ x = FieldC \/ x = FieldF \/ x = FieldD \/ x = FieldDate
  BY Zenon DEF Shapes
<1>6. x \in Seq(Conversions)
  BY <1>3, <1>5, Zenon
<1>7. Len(x) = 1 \/ Len(x) = 3
  BY <1>4, <1>5, Zenon
<1>8. (Len(x) = 1) <=> (x # FieldDate)
  <2>1. CASE x = FieldDate
    BY <1>4, <2>1
  <2>2. CASE x # FieldDate
    BY <1>4, <1>5, <2>2, Zenon
  <2>3. QED BY <2>1, <2>2
<1>9. QED BY <1>6, <1>7, <1>8, Zenon

LikeGGA(lay, T, s, f, c, d) ==
  /\ lay \in Seq(T) /\ Len(lay) = 14 /\ lay[1] = s /\ lay[14] = d
  /\ \A k \in 2..14 : lay[k] = f \/ lay[k] = c \/ lay[k] = d

LikeGSA(lay, T, f, c, d) ==
  /\ lay \in Seq(T) /\ Len(lay) = 17 /\ lay[17] = f
  /\ \A k \in 1..17 : lay[k] = f \/ lay[k] = c \/ lay[k] = d

LikeRMC(lay, T, s, f, c, d) ==
  /\ lay \in Seq(T) /\ Len(lay) = 12 /\ lay[1] = s /\ lay[9] = d /\ lay[11] = c /\ lay[12] = c
  /\ \A k \in 2..12 : k # 9 => lay[k] = f \/ lay[k] = c

LikeVTG(lay, T, f, c) ==
  /\ lay \in Seq(T) /\ Len(lay) = 8 /\ \A k \in 1..8 : lay[k] = f \/ lay[k] = c
  /\ lay[2] = c /\ lay[4] = c /\ lay[6] = c /\ lay[8] = c

Uniform(lay, T, n, f) == lay \in Seq(T) /\ Len(lay) = n /\ \A k \in 1..n : lay[k] = f

LEMMA GGAShape ==
  ASSUME NEW T, NEW s \in T, NEW f \in T, NEW c \in T, NEW d \in T, NEW lay,
         lay = <<s, f, c, f, c, d, d, f, f, c, f, c, f, d>>
  PROVE  LikeGGA(lay, T, s, f, c, d)
  BY DEF LikeGGA

LEMMA RMCShape ==
  ASSUME NEW T, NEW s \in T, NEW f \in T, NEW c \in T, NEW d \in T, NEW lay,
         lay = <<s, c, f, c, f, c, f, f, d, f, c, c>>
  PROVE  LikeRMC(lay, T, s, f, c, d)
  BY DEF LikeRMC

LEMMA VTGShape ==
  ASSUME NEW T, NEW f \in T, NEW c \in T, NEW lay, lay = <<f, c, f, c, f, c, f, c>>
  PROVE  LikeVTG(lay, T, f, c)
  BY DEF LikeVTG

LEMMA FieldsShape ==
  ASSUME NEW T, NEW n \in Nat, NEW f \in T, NEW lay, lay = Fields(n, f)
  PROVE  Uniform(lay, T, n, f)
<1>1. lay \in [1..n -> T] /\ \A k \in 1..n : lay[k] = f
  BY DEF Fields
<1>2. QED BY <1>1, FunSeq DEF Uniform

LEMMA GSAShape ==
  ASSUME NEW T, NEW f \in T, NEW c \in T, NEW d \in T, NEW lay,
         lay = <<c>> \o Fields(13, d) \o Fields(3, f)
  PROVE  LikeGSA(lay, T, f, c, d)
<1> DEFINE x == <<c>>
           y == Fields(13, d)
           u == x \o y
           z == Fields(3, f)
<1>1. x \in Seq(T) /\ Len(x) = 1 /\ x[1] = c
  OBVIOUS
<1>2. y \in Seq(T) /\ Len(y) = 13 /\ \A k \in 1..13 : y[k] = d
  <2>1. 13 \in Nat
    OBVIOUS
  <2>2. Uniform(y, T, 13, d)
    BY <2>1, FieldsShape, Zenon
  <2>3. QED BY <2>2, Zenon DEF Uniform
<1>3. z \in Seq(T) /\ Len(z) = 3 /\ \A k \in 1..3 : z[k] = f
  <2>1. 3 \in Nat
    OBVIOUS
  <2>2. Uniform(z, T, 3, f)
    BY <2>1, FieldsShape, Zenon
  <2>3. QED BY <2>2, Zenon DEF Uniform
<1>4. lay = u \o z
  OBVIOUS
<1> HIDE DEF x, y, z
<1>5. Joint(u, x, y, T)
  BY <1>1, <1>2, ConcatJoint, Zenon
<1> HIDE DEF u
<1>6. u \in Seq(T) /\ Len(u) = 14 /\ \A k \in 1..14 : u[k] = c \/ u[k] = d
  <2>1. u \in Seq(T) /\ Len(u) = 14
    BY <1>1, <1>2, <1>5 DEF Joint
  <2>2. ASSUME NEW k \in 1..14 PROVE u[k] = c \/ u[k] = d
    <3>1. u[k] = IF k <= 1 THEN x[k] ELSE y[k - 1]
      BY <1>1, <1>2, <1>5 DEF Joint
    <3>2. CASE k = 1
      BY <1>1, <3>1, <3>2
    <3>3. CASE k # 1
      <4>1. ~(k <= 1) /\ k - 1 \in 1..13
        BY <3>3
      <4>2. QED BY <1>2, <3>1, <4>1, Zenon
    <3>4. QED BY <3>2, <3>3
  <2>3. QED BY <2>1, <2>2
<1>7. Joint(lay, u, z, T)
  BY <1>3, <1>4, <1>6, ConcatJoint, Zenon
<1>8. lay \in Seq(T) /\ Len(lay) = 14 + 3 /\ Len(lay) = 17
  <2>1. lay \in Seq(T) /\ Len(lay) = 14 + 3
    BY <1>3, <1>6, <1>7, Zenon DEF Joint
  <2>2. QED BY <2>1
<1>9. ASSUME NEW k \in 1..17 PROVE lay[k] = IF k <= 14 THEN u[k] ELSE z[k - 14]
  <2>1. \A i \in 1..(14 + 3) : lay[i] = IF i <= 14 THEN u[i] ELSE z[i - 14]
    BY ONLY <1>3, <1>6, <1>7 DEF Joint
  <2>2. QED BY ONLY <2>1, k \in 1..17
<1>10. lay[17] = f
  <2>1. 17 \in 1..17 /\ ~(17 <= 14) /\ 17 - 14 = 3 /\ 3 \in 1..3
    OBVIOUS
  <2>2. lay[17] = z[3]
    BY <1>9, <2>1
  <2>3. QED BY <1>3, <2>1, <2>2
<1>11. ASSUME NEW k \in 1..17 PROVE lay[k] = f \/ lay[k] = c \/ lay[k] = d
  <2>1. CASE k <= 14
    <3>1. k \in 1..14
      BY <2>1
    <3>2. lay[k] = u[k]
      BY <1>9, <2>1
    <3>3. QED BY <1>6, <3>1, <3>2, Zenon
  <2>2. CASE ~(k <= 14)
    <3>1. k - 14 \in 1..3
      BY <2>2
    <3>2. lay[k] = z[k - 14]
      BY <1>9, <2>2
    <3>3. QED BY <1>3, <3>1, <3>2, Zenon
  <2>3. QED BY <2>1, <2>2
<1>12. QED BY <1>8, <1>10, <1>11 DEF LikeGSA

\* The shape of every format, and what the argument needs of each.
Shaped(lay, n) == lay \in Seq(Shapes) /\ Len(lay) = n
Plain(lay, from, n) ==
  \A k \in from..n : lay[k] = FieldF \/ lay[k] = FieldC \/ lay[k] = FieldD

LEMMA LayoutShapes ==
  /\ LET lay == Layout["GGA"] IN Shaped(lay, 14) /\ lay[1] = FieldS /\ lay[14] = FieldD /\ Plain(lay, 2, 14)
  /\ LET lay == Layout["GSA"] IN Shaped(lay, 17) /\ lay[17] = FieldF /\ Plain(lay, 1, 17)
  /\ LET lay == Layout["GSV"] IN Shaped(lay, 19) /\ \A k \in 1..19 : lay[k] = FieldD
  /\ LET lay == Layout["RMC"]
     IN  /\ Shaped(lay, 12) /\ lay[1] = FieldS /\ lay[9] = FieldDate /\ lay[11] = FieldC /\ lay[12] = FieldC
         /\ Plain(lay, 2, 8) /\ Plain(lay, 10, 12)
  /\ LET lay == Layout["VTG"]
     IN  /\ Shaped(lay, 8) /\ Plain(lay, 1, 8)
         /\ lay[2] = FieldC /\ lay[4] = FieldC /\ lay[6] = FieldC /\ lay[8] = FieldC
<1>1. /\ FieldS \in Shapes /\ FieldC \in Shapes /\ FieldF \in Shapes /\ FieldD \in Shapes /\ FieldDate \in Shapes
  BY Zenon DEF Shapes
<1>2. LET lay == Layout["GGA"] IN Shaped(lay, 14) /\ lay[1] = FieldS /\ lay[14] = FieldD /\ Plain(lay, 2, 14)
  <2> DEFINE lay == Layout["GGA"]
  <2>1. LikeGGA(lay, Shapes, FieldS, FieldF, FieldC, FieldD)
    BY <1>1, LayoutRecord, GGAShape, Zenon
  <2>2. QED BY <2>1, Zenon DEF LikeGGA, Shaped, Plain
<1>3. LET lay == Layout["GSA"] IN Shaped(lay, 17) /\ lay[17] = FieldF /\ Plain(lay, 1, 17)
  <2> DEFINE lay == Layout["GSA"]
  <2>1. LikeGSA(lay, Shapes, FieldF, FieldC, FieldD)
    BY <1>1, LayoutRecord, GSAShape, Zenon
  <2>2. QED BY <2>1, Zenon DEF LikeGSA, Shaped, Plain
<1>4. LET lay == Layout["GSV"] IN Shaped(lay, 19) /\ \A k \in 1..19 : lay[k] = FieldD
  <2> DEFINE lay == Layout["GSV"]
  <2>0. 19 \in Nat
    OBVIOUS
  <2>1. Uniform(lay, Shapes, 19, FieldD)
    BY <1>1, <2>0, LayoutRecord, FieldsShape, Zenon
  <2>2. QED BY <2>1, Zenon DEF Uniform, Shaped
<1>5. LET lay == Layout["RMC"]
      IN  /\ Shaped(lay, 12) /\ lay[1] = FieldS /\ lay[9] = FieldDate /\ lay[11] = FieldC /\ lay[12] = FieldC
          /\ Plain(lay, 2, 8) /\ Plain(lay, 10, 12)
  <2> DEFINE lay == Layout["RMC"]
  <2>1. LikeRMC(lay, Shapes, FieldS, FieldF, FieldC, FieldDate)
    BY <1>1, LayoutRecord, RMCShape, Zenon
  <2>2. \A k \in 2..8 : k \in 2..12 /\ k # 9
    OBVIOUS
  <2>3. \A k \in 10..12 : k \in 2..12 /\ k # 9
    OBVIOUS
  <2>4. QED BY <2>1, <2>2, <2>3, Zenon DEF LikeRMC, Shaped, Plain
<1>6. LET lay == Layout["VTG"]
      IN  /\ Shaped(lay, 8) /\ Plain(lay, 1, 8)
          /\ lay[2] = FieldC /\ lay[4] = FieldC /\ lay[6] = FieldC /\ lay[8] = FieldC
  <2> DEFINE lay == Layout["VTG"]
  <2>1. LikeVTG(lay, Shapes, FieldF, FieldC)
    BY <1>1, LayoutRecord, VTGShape, Zenon
  <2>2. QED BY <2>1, Zenon DEF LikeVTG, Shaped, Plain
<1>7. QED BY <1>2, <1>3, <1>4, <1>5, <1>6, Zenon
-----------------------------------------------------------------------------
(* Formats and sentences are laid out that way.                            *)

LEMMA SeqLarger ==
  ASSUME NEW T, NEW U, T \subseteq U, NEW s \in Seq(T)
  PROVE  s \in Seq(U)
<1>1. Len(s) \in Nat /\ s \in [1..Len(s) -> T]
  OBVIOUS
<1>2. s \in [1..Len(s) -> U]
  BY <1>1
<1>3. QED BY <1>1, <1>2, FunSeq

LEMMA SeqSeqLarger ==
  ASSUME NEW T, NEW U, T \subseteq U, NEW s \in Seq(Seq(T))
  PROVE  s \in Seq(Seq(U))
<1>1. Seq(T) \subseteq Seq(U)
  BY SeqLarger, Zenon
<1>2. QED BY <1>1, SeqLarger, Zenon

LEMMA LayoutType ==
  ASSUME NEW kd \in DOMAIN Layout
  PROVE  /\ Layout[kd] \in Seq(Shapes) /\ Len(Layout[kd]) # 0 /\ Layout[kd] \in Seq(Seq(Conversions))
         /\ Layout[kd] \in Seq(Seq(Symbol))
<1>1. kd = "GGA" \/ kd = "GSA" \/ kd = "GSV" \/ kd = "RMC" \/ kd = "VTG"
  BY LayoutRecord, Zenon
<1>2. Shaped(Layout[kd], 14) \/ Shaped(Layout[kd], 17) \/ Shaped(Layout[kd], 19)
      \/ Shaped(Layout[kd], 12) \/ Shaped(Layout[kd], 8)
  BY <1>1, LayoutShapes, Zenon
<1>3. Layout[kd] \in Seq(Shapes) /\ (Len(Layout[kd]) = 14 \/ Len(Layout[kd]) = 17 \/ Len(Layout[kd]) = 19
                                     \/ Len(Layout[kd]) = 12 \/ Len(Layout[kd]) = 8)
  BY <1>2, Zenon DEF Shaped
<1>4. Len(Layout[kd]) # 0
  <2> DEFINE n == Len(Layout[kd])
  <2>1. n = 14 \/ n = 17 \/ n = 19 \/ n = 12 \/ n = 8
    BY <1>3
  <2> HIDE DEF n
  <2>2. n # 0
    BY <2>1
  <2>3. QED BY <2>2 DEF n
<1>5. Shapes \subseteq Seq(Conversions)
  BY ShapeTypes, Zenon
<1>6. Layout[kd] \in Seq(Seq(Conversions))
  BY <1>3, <1>5, SeqLarger, Zenon
<1>7. Conversions \subseteq Symbol
  BY Zenon DEF Symbol
<1>8. Layout[kd] \in Seq(Seq(Symbol))
  BY <1>6, <1>7, SeqSeqLarger, Zenon
<1>9. QED BY <1>3, <1>4, <1>6, <1>8, Zenon

LEMMA SymbolHas == Comma \in Symbol /\ Star \in Symbol /\ "9" \in Symbol /\ "cr" \in Symbol /\ "lf" \in Symbol
  BY Zenon DEF Symbol, Comma, Star

LEMMA FormatLaid ==
  ASSUME NEW kd \in DOMAIN Layout
  PROVE  \E FB : InFormat(Format(kd), Layout[kd], FB)
<1> DEFINE lay == Layout[kd]
           J == Format(kd)
           tail == <<Star>>
           n == Len(lay)
<1>1. lay \in Seq(Seq(Symbol)) /\ Len(lay) # 0 /\ lay \in Seq(Seq(Conversions))
  BY LayoutType, Zenon
<1>2. J = FlattenSeq([k \in 1..Len(lay) |-> <<Comma>> \o lay[k]]) \o tail
  BY Zenon DEF Format, Joined, Comma, Star
<1>3. tail \in Seq(Symbol)
  BY SymbolHas, SingleSeq, Zenon
<1>4. Single(tail, Star)
  BY SingleIs, Zenon
<1> HIDE DEF lay, J, tail
<1>5. PICK B : Laid(J, lay, tail, B, Symbol, Comma)
  BY <1>1, <1>2, <1>3, SymbolHas, SeparatedLaid, Zenon
<1>6. /\ n \in Nat /\ n # 0 /\ B[1] = 1 /\ Len(J) = (B[n + 1] - 1) + Len(tail)
      /\ \A k \in 1..n : Len(lay[k]) \in Nat
      /\ \A k \in 1..(n + 1) : B[k] \in Nat /\ 1 <= B[k] /\ B[k] <= B[n + 1]
      /\ \A k \in 1..n : B[k + 1] = (B[k] + 1) + Len(lay[k])
      /\ \A k \in 1..n : J[B[k]] = Comma /\ \A j \in 1..Len(lay[k]) : J[B[k] + j] = lay[k][j]
      /\ \A j \in 1..Len(tail) : J[(B[n + 1] - 1) + j] = tail[j]
  BY <1>5, Zenon DEF Laid
<1>7. \A k \in 1..n : \A j \in 1..Len(lay[k]) : lay[k][j] \in Conversions
  <2>1. \A k \in 1..n : lay[k] \in Seq(Conversions)
    BY <1>1
  <2>2. \A x \in Seq(Conversions) : \A j \in 1..Len(x) : x[j] \in Conversions
    OBVIOUS
  <2>3. QED BY <2>1, <2>2, Zenon
<1> HIDE DEF n
<1>8. B[n + 1] \in Nat
  <2>1. n + 1 \in 1..(n + 1)
    BY <1>6
  <2>2. QED BY <1>6, <2>1, Zenon
<1>9. Len(tail) = 1 /\ tail[1] = Star
  BY <1>4, Zenon DEF Single
<1>10. Len(J) = B[n + 1] /\ J[B[n + 1]] = Star
  <2> DEFINE b == B[n + 1]
  <2>1. Len(J) = (b - 1) + 1 /\ b \in Nat
    BY <1>6, <1>8, <1>9, Zenon
  <2>2. 1 \in 1..1
    OBVIOUS
  <2>3. J[(b - 1) + 1] = Star
    BY <1>6, <1>9, <2>2, Zenon
  <2> HIDE DEF b
  <2>4. (b - 1) + 1 = b
    BY <2>1
  <2>5. Len(J) = b /\ J[b] = Star
    BY <2>1, <2>3, <2>4, Zenon
  <2>6. QED BY <2>5 DEF b
<1>11. InFormat(J, lay, B)
  BY <1>6, <1>7, <1>10, Zenon DEF InFormat, n
<1>12. QED BY <1>11, Zenon DEF J, lay

SentenceTail == <<"*", "9", "9", "cr", "lf">>

FiveOf(x, T, a, b, c, d) ==
  x \in Seq(T) /\ Len(x) = 5 /\ x[1] = a /\ x[2] = b /\ x[3] = b /\ x[4] = c /\ x[5] = d

LEMMA TailShape ==
  ASSUME NEW T, NEW a \in T, NEW b \in T, NEW c \in T, NEW d \in T, NEW x, x = <<a, b, b, c, d>>
  PROVE  FiveOf(x, T, a, b, c, d)
  BY DEF FiveOf

LEMMA TailFacts == SentenceTail \in Seq(Symbol) /\ Len(SentenceTail) = 5 /\ SentenceTail[1] = Star /\ \A j \in 1..5 : SentenceTail[j] # Comma
<1>1. /\ SentenceTail \in Seq(Symbol) /\ Len(SentenceTail) = 5 /\ SentenceTail[1] = Star /\ SentenceTail[2] = "9" /\ SentenceTail[3] = "9"
      /\ SentenceTail[4] = "cr" /\ SentenceTail[5] = "lf"
  <2>1. FiveOf(SentenceTail, Symbol, Star, "9", "cr", "lf")
    BY SymbolHas, TailShape, Zenon DEF SentenceTail, Star
  <2>2. QED BY <2>1, Zenon DEF FiveOf
<1>2. "9" # Comma /\ "cr" # Comma /\ "lf" # Comma
  BY DEF Comma
<1>3. \A j \in 1..5 : j = 1 \/ j = 2 \/ j = 3 \/ j = 4 \/ j = 5
  OBVIOUS
<1>4. \A j \in 1..5 : SentenceTail[j] # Comma
  BY <1>1, <1>2, <1>3, Separators, Zenon
<1>5. QED BY <1>1, <1>4, Zenon

LEMMA TextLaid ==
  ASSUME NEW flds \in Seq(Seq(Char)), Len(flds) # 0
  PROVE  \E TB : InSentence(Text(flds), flds, TB)
<1> DEFINE J == Text(flds)
           n == Len(flds)
<1>1. flds \in Seq(Seq(Symbol))
  <2>1. Char \subseteq Symbol
    BY Zenon DEF Symbol
  <2>2. QED BY <2>1, SeqSeqLarger, Zenon
<1>2. J = FlattenSeq([k \in 1..Len(flds) |-> <<Comma>> \o flds[k]]) \o SentenceTail
  BY Zenon DEF Text, Joined, Comma, SentenceTail
<1> HIDE DEF J
<1>3. PICK B : Laid(J, flds, SentenceTail, B, Symbol, Comma)
  BY <1>1, <1>2, TailFacts, SymbolHas, SeparatedLaid, Zenon
<1>4. /\ n \in Nat /\ n # 0 /\ B[1] = 1 /\ Len(J) = (B[n + 1] - 1) + Len(SentenceTail)
      /\ \A k \in 1..n : Len(flds[k]) \in Nat
      /\ \A k \in 1..(n + 1) : B[k] \in Nat /\ 1 <= B[k] /\ B[k] <= B[n + 1]
      /\ \A k \in 1..n : B[k + 1] = (B[k] + 1) + Len(flds[k])
      /\ \A k \in 1..n : J[B[k]] = Comma /\ \A j \in 1..Len(flds[k]) : J[B[k] + j] = flds[k][j]
      /\ \A j \in 1..Len(SentenceTail) : J[(B[n + 1] - 1) + j] = SentenceTail[j]
  BY <1>3, Zenon DEF Laid
<1>5. \A k \in 1..n : \A j \in 1..Len(flds[k]) : flds[k][j] \in Char
  <2>1. \A k \in 1..n : flds[k] \in Seq(Char)
    OBVIOUS
  <2>2. \A x \in Seq(Char) : \A j \in 1..Len(x) : x[j] \in Char
    OBVIOUS
  <2>3. QED BY <2>1, <2>2, Zenon
<1> HIDE DEF n
<1> DEFINE b == B[n + 1]
<1>6. b \in Nat
  <2>1. n + 1 \in 1..(n + 1)
    BY <1>4
  <2>2. QED BY <1>4, <2>1, Zenon
<1>7. Len(J) = (b - 1) + 5 /\ \A j \in 1..5 : J[(b - 1) + j] = SentenceTail[j]
  BY <1>4, TailFacts, Zenon
<1> HIDE DEF b
<1>8. Len(J) = b + 4 /\ J[b] = Star /\ \A j \in 0..4 : J[b + j] # Comma
  <2>1. (b - 1) + 5 = b + 4 /\ (b - 1) + 1 = b /\ 1 \in 1..5 /\ \A j \in 0..4 : j + 1 \in 1..5 /\ (b - 1) + (j + 1) = b + j
    BY <1>6
  <2>2. Len(J) = b + 4 /\ J[b] = Star
    BY <1>7, <2>1, TailFacts, Zenon
  <2>3. ASSUME NEW j \in 0..4 PROVE J[b + j] # Comma
    <3>1. j + 1 \in 1..5 /\ b + j = (b - 1) + (j + 1)
      BY <2>1
    <3>2. J[b + j] = SentenceTail[j + 1]
      BY <1>7, <3>1, Zenon
    <3>3. QED BY <3>1, <3>2, TailFacts, Zenon
  <2>4. QED BY <2>2, <2>3
<1>9. InSentence(J, flds, B)
  BY <1>4, <1>5, <1>8, Zenon DEF InSentence, n, b
<1>10. QED BY <1>9, Zenon DEF J

LEMMA ConvsLaid ==
  ASSUME NEW kd \in DOMAIN Layout
  PROVE  \E O : Offsets(O, Layout[kd]) /\ Flat(Convs(kd), O, Layout[kd], Conversions)
<1>1. Layout[kd] \in Seq(Seq(Conversions)) /\ Len(Layout[kd]) # 0
  BY LayoutType, Zenon
<1>2. Convs(kd) = FlattenSeq(Layout[kd])
  BY Zenon DEF Convs
<1>3. QED BY <1>1, <1>2, FlattenLaid, Zenon

\* A comma for every field is all that the format has besides the conversions.
LEMMA PlacesAgree ==
  ASSUME NEW T, NEW lay \in Seq(Seq(T)), NEW format, NEW FB, InFormat(format, lay, FB),
         NEW O, Offsets(O, lay)
  PROVE  \A k \in 1..(Len(lay) + 1) : FB[k] = O[k] + k
<1> DEFINE n == Len(lay)
           S == {i \in 0..n : FB[i + 1] = O[i + 1] + (i + 1)}
<1>1. n \in Nat /\ O[1] = 0 /\ \A k \in 1..(n + 1) : O[k] \in Nat
  BY OffsetsType
<1>2. \A k \in 1..n : O[k + 1] = O[k] + Len(lay[k]) /\ Len(lay[k]) \in Nat
  BY OffsetsType
<1>3. FB[1] = 1 /\ \A k \in 1..n : FB[k + 1] = (FB[k] + 1) + Len(lay[k])
  BY Zenon DEF InFormat
<1> HIDE DEF n
<1>4. 0 \in S
  <2>1. 0 \in 0..n /\ 0 + 1 = 1
    BY <1>1
  <2>2. QED BY <1>1, <1>3, <2>1
<1>5. ASSUME NEW i \in 0..(n - 1), i \in S PROVE i + 1 \in S
  <2>1. i + 1 \in 1..n /\ i + 1 \in 0..n /\ i + 1 \in 1..(n + 1)
    BY <1>1
  <2> DEFINE k == i + 1
             o == O[k]
             l == Len(lay[k])
  <2>2. FB[k + 1] = (FB[k] + 1) + l /\ O[k + 1] = o + l /\ l \in Nat /\ o \in Nat
    BY <1>1, <1>2, <1>3, <2>1, Zenon
  <2>3. FB[k] = o + k /\ k \in Nat
    BY <1>5, <2>1
  <2> HIDE DEF o, l, k
  <2>4. FB[k + 1] = O[k + 1] + (k + 1)
    BY <2>2, <2>3
  <2>5. QED BY <2>1, <2>4 DEF k
<1>6. \A i \in 0..n : i \in S
  <2> HIDE DEF S
  <2> QED BY <1>1, <1>4, <1>5, IntervalInduction
<1>7. \A k \in 1..(n + 1) : k - 1 \in 0..n /\ (k - 1) + 1 = k
  BY <1>1
<1>8. QED BY <1>6, <1>7 DEF n

InOrder(ts, text, most) ==
  /\ ts \in Seq(Nat \X Nat) /\ Len(ts) \in Nat /\ Len(ts) <= most
  /\ \A k \in 1..Len(ts) : /\ ts[k][1] <= ts[k][2] /\ ts[k][2] <= Len(text) + 1
                           /\ k > 1 => ts[k - 1][2] <= ts[k][1]

LEMMA TokensInOrder ==
  ASSUME NEW kd \in DOMAIN Layout, NEW flds \in Seq(Seq(Char)), Len(flds) # 0
  PROVE  InOrder(nmea_scanf(Text(flds), Format(kd)), Text(flds), Len(Convs(kd)))
<1> DEFINE text == Text(flds)
           format == Format(kd)
           lay == Layout[kd]
           n == Len(lay)
<1>1. PICK FB : InFormat(format, lay, FB)
  BY FormatLaid, Zenon
<1>2. PICK TB : InSentence(text, flds, TB)
  BY TextLaid, Zenon
<1>3. PICK O : Offsets(O, lay) /\ Flat(Convs(kd), O, lay, Conversions)
  BY ConvsLaid, Zenon
<1>4. lay \in Seq(Seq(Conversions))
  BY LayoutType, Zenon
<1> HIDE DEF text, format, lay
<1>5. Len(text) \in Nat
  BY <1>2, SentenceSize, Zenon
<1>6. n \in Nat /\ Len(format) \in Nat /\ Len(format) = FB[n + 1]
  BY <1>1, FormatSize, Zenon
<1>7. PICK t : Turns(t, text, format) /\ nmea_scanf(text, format) = t[Len(format)].toks
  BY <1>6, ScanfUnfold
<1>8. Len(t[Len(format)].toks) <= FB[n + 1] - (n + 1)
  BY <1>1, <1>5, <1>7, TurnsCount, Zenon
<1>9. FB[n + 1] - (n + 1) = Len(Convs(kd))
  <2>1. Len(Convs(kd)) = O[n + 1]
    BY <1>3, Zenon DEF Flat
  <2>2. n + 1 \in 1..(n + 1)
    BY <1>6
  <2>0. \A k \in 1..(Len(lay) + 1) : FB[k] = O[k] + k
    BY <1>1, <1>3, <1>4, PlacesAgree
  <2>3. FB[n + 1] = O[n + 1] + (n + 1)
    BY <2>0, <2>2, Zenon
  <2>5. O[n + 1] \in Nat
    BY <1>3, <1>4, <2>2, OffsetsGrow, Zenon
  <2> HIDE DEF n
  <2>6. QED BY <1>6, <2>1, <2>3, <2>5
<1>10. InText(t[Len(format)], text)
  <2>1. Len(format) \in 0..Len(format)
    BY <1>6
  <2>2. QED BY <1>5, <1>6, <1>7, <2>1, TurnsInText, Zenon
<1> DEFINE st == t[Len(format)]
           ts == st.toks
<1>11. st \in States /\ st.pos <= Len(text) + 1 /\ Ordered(ts, st.pos)
  BY <1>10, Zenon DEF InText
<1>12. Len(ts) <= Len(Convs(kd))
  BY <1>8, <1>9
<1> HIDE DEF st
<1>13. ts \in Seq(Nat \X Nat) /\ st.pos \in Nat
  BY <1>11 DEF States
<1> HIDE DEF ts
<1>14. Len(ts) \in Nat /\ \A k \in 1..Len(ts) : ts[k][1] \in Nat /\ ts[k][2] \in Nat
  BY <1>13, TokenType, Zenon
<1>15. \A k \in 1..Len(ts) : /\ ts[k][1] <= ts[k][2] /\ ts[k][2] <= Len(text) + 1
                             /\ k > 1 => ts[k - 1][2] <= ts[k][1]
  <2> TAKE k \in 1..Len(ts)
  <2> DEFINE q == st.pos
             y == ts[k][2]
  <2>1. ts[k][1] <= y /\ y <= q /\ (k > 1 => ts[k - 1][2] <= ts[k][1])
    BY <1>11, Zenon DEF Ordered
  <2>2. y \in Nat /\ q \in Nat /\ q <= Len(text) + 1
    BY <1>11, <1>13, <1>14
  <2> HIDE DEF q, y
  <2>3. y <= Len(text) + 1
    BY <1>5, <2>1, <2>2
  <2>4. QED BY <2>1, <2>3, Zenon DEF y
<1>16. InOrder(ts, text, Len(Convs(kd)))
  BY <1>12, <1>13, <1>14, <1>15, Zenon DEF InOrder
<1>17. QED BY <1>7, <1>16, Zenon DEF ts, st, text, format
-----------------------------------------------------------------------------
(* The invariant: what the handlers leave.                                 *)

\* What the handler of the sentence may return.
Answers(ok) ==
  /\ kind = "GGA" => ok \in (IF Len(Values) = 14 THEN _nmea_parse_time(Values[1]) ELSE {FALSE})
  /\ kind = "GSA" => ok = (Len(Values) = 17)
  /\ kind = "GSV" => ok \in (IF Len(Values) = 19 THEN {TRUE} ELSE BOOLEAN)
  /\ kind = "RMC" => ok \in (IF Len(Values) \in {13, 14} THEN _nmea_parse_time(Values[1]) ELSE {FALSE})
  /\ kind = "VTG" => ok = (/\ Len(Values) = 8
                           /\ Values[2] = <<"T">> /\ Values[4] = <<"M">>
                           /\ Values[6] = <<"N">> /\ Values[8] = <<"K">>)

Accepted == DollarFound /\ ret = "1" /\ toks = Tokens /\ Answers(TRUE)
Refused == ret = "0" /\ IF DollarFound THEN toks = Tokens /\ Answers(FALSE) ELSE toks = <<>>
Done == Accepted \/ Refused

ScanfInv ==
  /\ kind \in DOMAIN Layout /\ fields \in Seq(Seq(Char)) /\ Len(fields) # 0
  /\ (ret = "none" /\ toks = <<>>) \/ Done

LEMMA ReplacedSeq ==
  ASSUME NEW T, NEW s \in Seq(T), Len(s) # 0, NEW i \in 1..Len(s), NEW x \in T, NEW r,
         r = [s EXCEPT ![i] = x]
  PROVE  r \in Seq(T) /\ Len(r) # 0
  OBVIOUS

LEMMA TimeBoolean == ASSUME NEW v PROVE _nmea_parse_time(v) \subseteq BOOLEAN
<1>1. TimeScans(v) \in BOOLEAN
  BY Zenon DEF TimeScans
<1>2. QED BY <1>1, Zenon DEF _nmea_parse_time

LEMMA ParseDone ==
  ASSUME ScanfInv, NEW knd, NEW outcomes, Parse(knd, outcomes),
         outcomes \subseteq BOOLEAN, \A ok \in outcomes : Answers(ok)
  PROVE  ScanfInv'
<1>1. /\ kind = knd /\ ret = "none" /\ UNCHANGED <<kind, fields, first, edits>>
      /\ toks' = IF DollarFound THEN Tokens ELSE <<>>
      /\ \E ok \in (IF DollarFound THEN outcomes ELSE {FALSE}) : ret' = IF ok THEN "1" ELSE "0"
  BY Zenon DEF Parse
<1>2. kind' = kind /\ fields' = fields /\ (DollarFound' <=> DollarFound)
  BY <1>1 DEF DollarFound
<1>3. Tokens' = Tokens /\ Values' = Values
  BY <1>2, Zenon DEF Tokens, Values
<1>4. \A b : Answers(b)' <=> Answers(b)
  BY <1>2, <1>3, Zenon DEF Answers
<1>5. ASSUME DollarFound PROVE Done'
  <2>1. toks' = Tokens /\ \E ok \in outcomes : ret' = IF ok THEN "1" ELSE "0"
    BY <1>1, <1>5, Zenon
  <2>2. PICK ok \in outcomes : ret' = IF ok THEN "1" ELSE "0"
    BY <2>1, Zenon
  <2>3. ok = TRUE \/ ok = FALSE
    BY Zenon
  <2>4. CASE ok = TRUE
    <3>1. ret' = "1" /\ Answers(TRUE)'
      BY <1>4, <2>2, <2>4
    <3>2. DollarFound' /\ toks' = Tokens'
      BY <1>2, <1>3, <1>5, <2>1, Zenon
    <3>3. Accepted'
      BY <3>1, <3>2, Zenon DEF Accepted
    <3>4. QED BY <3>3, Zenon DEF Done
  <2>5. CASE ok = FALSE
    <3>1. ret' = "0" /\ Answers(FALSE)'
      BY <1>4, <2>2, <2>5
    <3>2. DollarFound' /\ toks' = Tokens'
      BY <1>2, <1>3, <1>5, <2>1, Zenon
    <3>3. Refused'
      BY <3>1, <3>2, Zenon DEF Refused
    <3>4. QED BY <3>3, Zenon DEF Done
  <2>6. QED BY <2>3, <2>4, <2>5, Zenon
<1>6. ASSUME ~DollarFound PROVE Done'
  <2>1. toks' = <<>> /\ ret' = "0"
    BY <1>1, <1>6, Zenon
  <2>2. ~DollarFound'
    BY <1>2, <1>6, Zenon
  <2>3. Refused'
    BY <2>1, <2>2, Zenon DEF Refused
  <2>4. QED BY <2>3, Zenon DEF Done
<1>7. Done'
  BY <1>5, <1>6, Zenon
<1>8. QED BY <1>2, <1>7, Zenon DEF ScanfInv

\* Every handler leaves the tokens of its sentence and an answer they allow, or none
\* of them and a refusal.
LEMMA InvariantHolds == Spec => []ScanfInv
<1>1. Init => ScanfInv
  <2> SUFFICES ASSUME Init PROVE ScanfInv
    OBVIOUS
  <2>1. kind \in DOMAIN Base /\ DOMAIN Base \subseteq DOMAIN Layout /\ Base[kind] \in Seq(Seq(Char))
    BY ScanfAssumption DEF Init
  <2>2. PICK n \in 1..Len(Base[kind]) : fields = SubSeq(Base[kind], 1, n)
    BY Zenon DEF Init
  <2>3. \A T : \A s \in Seq(T) : \A i \in 1..Len(s) : SubSeq(s, 1, i) \in Seq(T) /\ Len(SubSeq(s, 1, i)) # 0
    OBVIOUS
  <2>4. fields \in Seq(Seq(Char)) /\ Len(fields) # 0
    BY <2>1, <2>2, <2>3, Zenon
  <2>5. ret = "none" /\ toks = <<>>
    BY Zenon DEF Init
  <2>6. QED BY <2>1, <2>4, <2>5, Zenon DEF ScanfInv
<1>2. ScanfInv /\ [Next]_vars => ScanfInv'
  <2> SUFFICES ASSUME ScanfInv, [Next]_vars PROVE ScanfInv'
    OBVIOUS
  <2>1. CASE Replace
    <3>1. PICK k \in 1..Len(fields), c \in Contents : fields' = [fields EXCEPT ![k] = c]
      BY <2>1, Zenon DEF Replace
    <3>2. fields \in Seq(Seq(Char)) /\ Len(fields) # 0 /\ c \in Seq(Char)
      BY ScanfAssumption, Zenon DEF ScanfInv
    <3>4. fields' \in Seq(Seq(Char)) /\ Len(fields') # 0
      BY <3>1, <3>2, ReplacedSeq, Zenon
    <3>5. ret = "none" /\ ret' = ret /\ toks' = toks /\ kind' = kind
      BY <2>1 DEF Replace
    <3>6. toks = <<>> /\ kind \in DOMAIN Layout
      BY <3>5 DEF ScanfInv, Done, Accepted, Refused
    <3>7. QED BY <3>4, <3>5, <3>6, Zenon DEF ScanfInv
  <2>2. CASE nmea_parse_gga
    <3> DEFINE out == IF Len(Values) = 14 THEN _nmea_parse_time(Values[1]) ELSE {FALSE}
    <3>1. Parse("GGA", out)
      BY <2>2, Zenon DEF nmea_parse_gga
    <3>2. out \subseteq BOOLEAN
      BY TimeBoolean, Zenon
    <3>3. kind = "GGA"
      BY <3>1, Zenon DEF Parse
    <3>4. \A ok \in out : Answers(ok)
      BY <3>3 DEF Answers
    <3> HIDE DEF out
    <3>5. QED BY <3>1, <3>2, <3>4, ParseDone, Zenon
  <2>3. CASE nmea_parse_gsa
    <3> DEFINE out == {Len(Values) = 17}
    <3>1. Parse("GSA", out)
      BY <2>3, Zenon DEF nmea_parse_gsa
    <3>2. out \subseteq BOOLEAN
      BY Zenon
    <3>3. kind = "GSA"
      BY <3>1, Zenon DEF Parse
    <3>4. \A ok \in out : Answers(ok)
      BY <3>3 DEF Answers
    <3> HIDE DEF out
    <3>5. QED BY <3>1, <3>2, <3>4, ParseDone, Zenon
  <2>4. CASE nmea_parse_gsv
    <3> DEFINE out == IF Len(Values) = 19 THEN {TRUE} ELSE BOOLEAN
    <3>1. Parse("GSV", out)
      BY <2>4, Zenon DEF nmea_parse_gsv
    <3>2. out \subseteq BOOLEAN
      BY Zenon
    <3>3. kind = "GSV"
      BY <3>1, Zenon DEF Parse
    <3>4. \A ok \in out : Answers(ok)
      BY <3>3 DEF Answers
    <3> HIDE DEF out
    <3>5. QED BY <3>1, <3>2, <3>4, ParseDone, Zenon
  <2>5. CASE nmea_parse_rmc
    <3> DEFINE out == IF Len(Values) \in {13, 14} THEN _nmea_parse_time(Values[1]) ELSE {FALSE}
    <3>1. Parse("RMC", out)
      BY <2>5, Zenon DEF nmea_parse_rmc
    <3>2. out \subseteq BOOLEAN
      BY TimeBoolean, Zenon
    <3>3. kind = "RMC"
      BY <3>1, Zenon DEF Parse
    <3>4. \A ok \in out : Answers(ok)
      BY <3>3 DEF Answers
    <3> HIDE DEF out
    <3>5. QED BY <3>1, <3>2, <3>4, ParseDone, Zenon
  <2>6. CASE nmea_parse_vtg
    <3> DEFINE out == {/\ Len(Values) = 8
                       /\ Values[2] = <<"T">> /\ Values[4] = <<"M">>
                       /\ Values[6] = <<"N">> /\ Values[8] = <<"K">>}
    <3>1. Parse("VTG", out)
      BY <2>6, Zenon DEF nmea_parse_vtg
    <3>2. out \subseteq BOOLEAN
      BY Zenon
    <3>3. kind = "VTG"
      BY <3>1, Zenon DEF Parse
    <3>4. \A ok \in out : Answers(ok)
      BY <3>3, Zenon DEF Answers
    <3> HIDE DEF out
    <3>5. QED BY <3>1, <3>2, <3>4, ParseDone, Zenon
  <2>7. CASE UNCHANGED vars
    <3>1. kind' = kind /\ fields' = fields /\ (DollarFound' <=> DollarFound) /\ ret' = ret /\ toks' = toks
      BY <2>7 DEF vars, DollarFound
    <3>2. Tokens' = Tokens /\ Values' = Values
      BY <3>1, Zenon DEF Tokens, Values
    <3>3. \A b : Answers(b)' <=> Answers(b)
      BY <3>1, <3>2, Zenon DEF Answers
    <3>4. Done' <=> Done
      BY <3>1, <3>2, <3>3, Zenon DEF Done, Accepted, Refused
    <3>5. QED BY <3>1, <3>4, Zenon DEF ScanfInv
  <2>8. CASE ReplaceFirst
    <3>1. ret = "none" /\ UNCHANGED <<kind, fields, ret, toks>>
      BY <2>8 DEF ReplaceFirst
    <3>2. toks = <<>>
      BY <3>1 DEF ScanfInv, Done, Accepted, Refused
    <3>3. QED BY <3>1, <3>2, Zenon DEF ScanfInv
  <2>9. QED BY <2>1, <2>2, <2>3, <2>4, <2>5, <2>6, <2>7, <2>8, Zenon DEF Next
<1>3. QED BY <1>1, <1>2, PTL DEF Spec

\* Whatever stands in the fields and however many there are, nmea_scanf takes its
\* tokens from left to right inside the sentence, and no more of them than the
\* format has conversions.
THEOREM TypeCorrect == Spec => []TypeOK
<1>1. ScanfInv => TypeOK
  <2> SUFFICES ASSUME ScanfInv PROVE TypeOK
    OBVIOUS
  <2>1. CASE (ret = "none" \/ ret = "0") /\ toks = <<>>
    <3>1. PICK O : Offsets(O, Layout[kind]) /\ Flat(Convs(kind), O, Layout[kind], Conversions)
      BY ConvsLaid, Zenon DEF ScanfInv
    <3>2. Convs(kind) \in Seq(Conversions)
      BY <3>1, Zenon DEF Flat
    <3>3. \A s \in Seq(Conversions) : Len(<<>>) <= Len(s)
      OBVIOUS
    <3>4. Len(toks) <= Len(Convs(kind)) /\ DOMAIN toks = {}
      BY <2>1, <3>2, <3>3
    <3>5. QED BY <2>1, <3>4, Zenon DEF TypeOK
  <2>2. CASE toks = Tokens /\ (ret = "1" \/ ret = "0")
    <3>1. InOrder(Tokens, Text(fields), Len(Convs(kind)))
      BY TokensInOrder, Zenon DEF ScanfInv, Tokens
    <3>3. InOrder(toks, Text(fields), Len(Convs(kind)))
      BY <2>2, <3>1, Zenon
    <3>4. toks \in Seq(Nat \X Nat)
      BY <3>3, Zenon DEF InOrder
    <3>5. DOMAIN toks = 1..Len(toks)
      BY <3>4
    <3>6. QED BY <2>2, <3>3, <3>5, Zenon DEF TypeOK, InOrder
  <2>3. QED BY <2>1, <2>2, Zenon DEF ScanfInv, Done, Accepted, Refused
<1>2. QED BY <1>1, InvariantHolds, PTL
-----------------------------------------------------------------------------
(* The token of a field.                                                   *)

\* The characters of a token.
Chars(s, text, p, e) ==
  /\ s = [j \in 1..(e - p) |-> text[(p - 1) + j]]
  /\ \A j \in 1..(e - p) : s[j] = text[(p - 1) + j]
  /\ Len(s) = e - p

Token12(tk, p, e) == tk[1] = p /\ tk[2] = e

LEMMA TokenChars ==
  ASSUME NEW text, Len(text) \in Nat, NEW p \in Nat, 1 <= p, NEW e \in Nat, p <= e, e <= Len(text) + 1,
         NEW tk, Token12(tk, p, e), NEW s, s = Token(text, tk)
  PROVE  Chars(s, text, p, e)
<1>1. s = [j \in 1..(e - p) |-> IF p + j - 1 <= Len(text) THEN text[p + j - 1] ELSE "behind"]
  BY Zenon DEF Token, Token12
<1>2. \A j \in 1..(e - p) : p + j - 1 <= Len(text) /\ p + j - 1 = (p - 1) + j
  OBVIOUS
<1>3. s = [j \in 1..(e - p) |-> text[(p - 1) + j]]
  BY <1>1, <1>2
<1>4. e - p \in Nat
  OBVIOUS
<1>5. QED BY <1>3, <1>4 DEF Chars

\* A number ends before the first character that is not part of it, and what
\* follows that does not matter.
Continues(s, r, allowed) ==
  /\ Len(s) \in Nat /\ Len(r) \in Nat /\ Len(r) <= Len(s)
  /\ s = [j \in 1..Len(s) |-> s[j]] /\ r = [j \in 1..Len(r) |-> r[j]]
  /\ \A j \in 1..Len(r) : s[j] = r[j]
  /\ Len(r) < Len(s) => s[Len(r) + 1] \notin allowed

LEMMA NumberStops ==
  ASSUME NEW s, NEW r, NEW allowed, Continues(s, r, allowed)
  PROVE  Number(s, allowed) = Number(r, allowed)
<1>0. /\ Len(s) \in Nat /\ Len(r) \in Nat /\ Len(r) <= Len(s)
      /\ s = [j \in 1..Len(s) |-> s[j]] /\ r = [j \in 1..Len(r) |-> r[j]]
      /\ \A j \in 1..Len(r) : s[j] = r[j]
      /\ Len(r) < Len(s) => s[Len(r) + 1] \notin allowed
  BY Zenon DEF Continues
<1> DEFINE n == Len(s)
           m == Len(r)
           B == {k \in 1..n : s[k] \notin allowed}
           D == {k \in 1..m : r[k] \notin allowed}
           b == CHOOSE k \in B : \A j \in B : k <= j
           d == CHOOSE k \in D : \A j \in D : k <= j
<1>1. Number(s, allowed) = IF B = {} THEN s ELSE SubSeq(s, 1, b - 1)
  BY Zenon DEF Number
<1>2. Number(r, allowed) = IF D = {} THEN r ELSE SubSeq(r, 1, d - 1)
  BY Zenon DEF Number
<1>3. n \in Nat /\ m \in Nat /\ m <= n
  BY <1>0
<1>4. B # {} => b \in B /\ \A j \in B : b <= j
  <2>1. B \subseteq Nat
    OBVIOUS
  <2> HIDE DEF B
  <2>2. B # {} => \E k \in B : \A j \in B : k <= j
    BY <2>1, LeastExists, Zenon
  <2>3. QED BY <2>2, Zenon
<1>5. D # {} => d \in D /\ \A j \in D : d <= j
  <2>1. D \subseteq Nat
    OBVIOUS
  <2> HIDE DEF D
  <2>2. D # {} => \E k \in D : \A j \in D : k <= j
    BY <2>1, LeastExists, Zenon
  <2>3. QED BY <2>2, Zenon
<1> HIDE DEF b, d, n, m
<1>6. /\ \A j \in 1..m : s[j] = r[j]
      /\ m < n => s[m + 1] \notin allowed
      /\ s = [j \in 1..n |-> s[j]] /\ r = [j \in 1..m |-> r[j]]
  BY <1>0, Zenon DEF n, m
<1>7. \A k : k \in D <=> k \in B /\ k \in 1..m
  <2>1. \A k \in 1..m : k \in 1..n
    BY <1>3
  <2>2. \A k \in 1..m : s[k] = r[k]
    BY <1>6
  <2>3. QED BY <2>1, <2>2, Zenon
<1>8. CASE D # {}
  <2>1. d \in D /\ \A j \in D : d <= j
    BY <1>5, <1>8
  <2>2. d \in B /\ d \in 1..m /\ B # {}
    BY <1>7, <2>1
  <2>3. b \in B /\ b <= d
    BY <1>4, <2>2
  <2>4. b \in 1..m
    BY <1>3, <2>2, <2>3
  <2>5. b = d
    BY <1>7, <2>1, <2>2, <2>3, <2>4
  <2>6. SubSeq(s, 1, d - 1) = SubSeq(r, 1, d - 1)
    <3>1. SubSeq(s, 1, d - 1) = [i \in 1..(d - 1) |-> s[i]]
      BY <2>2
    <3>2. SubSeq(r, 1, d - 1) = [i \in 1..(d - 1) |-> r[i]]
      BY <2>2
    <3>3. \A i \in 1..(d - 1) : s[i] = r[i]
      <4>1. \A i \in 1..(d - 1) : i \in 1..m
        BY <1>3, <2>2
      <4>2. QED BY <1>6, <4>1, Zenon
    <3>4. QED BY <3>1, <3>2, <3>3
  <2>7. QED BY <1>1, <1>2, <1>8, <2>2, <2>5, <2>6, Zenon
<1>9. CASE D = {} /\ m = n
  <2>1. B = {}
    BY <1>7, <1>9
  <2>2. s = r
    BY <1>6, <1>9
  <2>3. QED BY <1>1, <1>2, <1>9, <2>1, <2>2, Zenon
<1>10. CASE D = {} /\ m # n
  <2>1. m < n /\ m + 1 \in 1..n
    BY <1>3, <1>10
  <2>2. m + 1 \in B
    BY <1>6, <2>1
  <2>3. b \in B /\ b <= m + 1
    BY <1>4, <2>2
  <2>4. b \notin 1..m
    BY <1>7, <1>10, <2>3
  <2>5. b = m + 1
    BY <1>3, <2>3, <2>4
  <2>6. SubSeq(s, 1, b - 1) = r
    <3>1. b - 1 = m
      BY <1>3, <2>5
    <3>2. SubSeq(s, 1, m) = [i \in 1..m |-> s[i]]
      BY <1>3
    <3>3. QED BY <1>6, <3>1, <3>2
  <2>7. QED BY <1>1, <1>2, <1>10, <2>2, <2>6, Zenon
<1>11. QED BY <1>8, <1>9, <1>10

\* Where a field stands: from p to the separator at q.
Stands(text, p, q, f) ==
  /\ f \in Seq(Char) /\ Len(text) \in Nat /\ p \in Nat /\ 1 <= p /\ Len(f) \in Nat
  /\ q = p + Len(f) /\ q <= Len(text)
  /\ \A j \in 1..Len(f) : text[(p - 1) + j] = f[j] /\ f[j] \in Char
  /\ text[q] = Comma \/ text[q] = Star

\* Where the token of a conversion for the whole field ends.
FieldEnds(text, p, q, f, c, after, e) ==
  /\ e \in Nat /\ p <= e /\ e <= Len(text) + 1
  /\ c # "C" => q <= e /\ (text[q] = after => e = q)
  /\ c = "C" /\ Len(f) # 0 => e = p + 1
  /\ c = "C" /\ Len(f) = 0 => e = IF text[q] = after THEN q ELSE q + 1

LEMMA FieldEnd ==
  ASSUME NEW text, NEW p, NEW q, NEW f, Stands(text, p, q, f),
         NEW c, c # "2d", NEW after, after = Comma \/ after = Star,
         NEW e, Ends(text, p, c, after, e)
  PROVE  FieldEnds(text, p, q, f, c, after, e)
<1>1. /\ Len(text) \in Nat /\ p \in Nat /\ 1 <= p /\ Len(f) \in Nat
      /\ q = p + Len(f) /\ q <= Len(text)
      /\ \A j \in 1..Len(f) : text[(p - 1) + j] = f[j] /\ f[j] \in Char
  BY Zenon DEF Stands
<1>2. after \notin Char
  BY Separators, Zenon
<1>3. \A i \in Nat : p <= i /\ i < q => text[i] # after
  <2> SUFFICES ASSUME NEW i \in Nat, p <= i, i < q PROVE text[i] # after
    OBVIOUS
  <2> DEFINE j == i - (p - 1)
  <2>1. j \in 1..Len(f) /\ (p - 1) + j = i
    BY <1>1
  <2> HIDE DEF j
  <2>2. text[i] = f[j] /\ f[j] \in Char
    BY <1>1, <2>1
  <2>3. QED BY <1>2, <2>2
<1>4. CASE c # "C"
  <2>1. Found(text, p, after, e)
    BY <1>4, Zenon DEF Ends
  <2>2. /\ e \in Nat /\ p <= e /\ e <= Len(text) + 1
        /\ \A i \in Nat : p <= i /\ i < e => text[i] # after
        /\ e <= Len(text) => text[e] = after
    BY <2>1, Zenon DEF Found
  <2>3. q <= e
    BY <1>1, <1>3, <2>2
  <2>4. text[q] = after => e = q
    BY <1>1, <2>2, <2>3
  <2>5. QED BY <1>4, <2>2, <2>3, <2>4, Zenon DEF FieldEnds
<1>5. CASE c = "C"
  <2>1. e = IF text[p] # after THEN p + 1 ELSE p
    BY <1>5 DEF Ends
  <2>2. e \in Nat /\ p <= e /\ e <= Len(text) + 1
    BY <1>1, <2>1
  <2>3. CASE Len(f) # 0
    <3>1. text[p] # after
      BY <1>1, <1>3, <2>3
    <3>2. e = p + 1
      BY <2>1, <3>1
    <3>3. QED BY <1>5, <2>2, <2>3, <3>2, Zenon DEF FieldEnds
  <2>4. CASE Len(f) = 0
    <3>1. p = q
      BY <1>1, <2>4
    <3>2. e = IF text[q] = after THEN q ELSE q + 1
      BY <2>1, <3>1
    <3>3. QED BY <1>5, <2>2, <2>4, <3>2, Zenon DEF FieldEnds
  <2>5. QED BY <2>3, <2>4
<1>6. QED BY <1>4, <1>5

\* The numbers of integers and of reals.
Ints == {"9"}
Reals == {"9", "."}

LEMMA ValueIs ==
  ASSUME NEW s
  PROVE  /\ Value("C", s) = IF s = <<>> THEN <<>> ELSE <<s[1]>>
         /\ Value("f", s) = Number(s, Reals) /\ Value("d", s) = Number(s, Ints)
         /\ Value("2d", s) = Number(s, Ints)
         /\ Value("s", s) = IF s = <<>> THEN Unset ELSE s
<1>1. /\ "C" # "s" /\ "f" # "s" /\ "f" # "C" /\ "d" # "s" /\ "d" # "C" /\ "d" # "f"
      /\ "2d" # "s" /\ "2d" # "C" /\ "2d" # "f" /\ "2d" # "d"
  OBVIOUS
<1>2. "d" \in {"d", "2d"} /\ "2d" \in {"d", "2d"} /\ "C" \notin {"d", "2d"} /\ "f" \notin {"d", "2d"} /\ "s" \notin {"d", "2d"}
  BY Zenon
<1>3. Value("C", s) = IF s = <<>> THEN <<>> ELSE <<s[1]>>
  BY <1>1, <1>2, Zenon DEF Value
<1>4. Value("f", s) = Number(s, Reals)
  BY <1>1, <1>2, Zenon DEF Value, Reals
<1>5. Value("d", s) = Number(s, Ints)
  BY <1>1, <1>2, Zenon DEF Value, Ints
<1>6. Value("2d", s) = Number(s, Ints)
  BY <1>1, <1>2, Zenon DEF Value, Ints
<1>7. Value("s", s) = IF s = <<>> THEN Unset ELSE s
  BY <1>1, <1>2, Zenon DEF Value
<1>8. QED BY <1>3, <1>4, <1>5, <1>6, <1>7, Zenon

LEMMA ValueChar == ASSUME NEW s, s # <<>> PROVE Value("C", s) = <<s[1]>>
  BY ValueIs, Zenon

LEMMA ValueNumber ==
  ASSUME NEW s, NEW r, Number(s, Reals) = Number(r, Reals), Number(s, Ints) = Number(r, Ints)
  PROVE  Value("f", s) = Value("f", r) /\ Value("d", s) = Value("d", r)
<1>1. Value("f", s) = Number(s, Reals) /\ Value("f", r) = Number(r, Reals)
  BY ValueIs, Zenon
<1>2. Value("d", s) = Number(s, Ints) /\ Value("d", r) = Number(r, Ints)
  BY ValueIs, Zenon
<1>3. QED BY <1>1, <1>2, Zenon

LEMMA EmptyIs == ASSUME NEW s, Len(s) # 0 PROVE s # <<>>
  OBVIOUS

Certain(c, f, z, after) ==
  ((c = "s" \/ c = "C") /\ z = after) \/ c = "f" \/ c = "d" \/ (c = "C" /\ Len(f) # 0)

SameValue(c, s, f) == Value(c, s) = Value(c, f)

\* The value is the field's, unless the field is open: its text does not end with
\* the character that the format has behind the conversion.
LEMMA FieldValue ==
  ASSUME NEW text, NEW p, NEW q, NEW f, Stands(text, p, q, f), NEW c, NEW after, NEW e,
         FieldEnds(text, p, q, f, c, after, e), NEW tk, Token12(tk, p, e),
         Certain(c, f, text[q], after)
  PROVE  SameValue(c, Token(text, tk), f)
<1> SUFFICES Value(c, Token(text, tk)) = Value(c, f)
  BY Zenon DEF SameValue
<1> DEFINE s == Token(text, tk)
           m == Len(f)
<1>1. /\ Len(text) \in Nat /\ p \in Nat /\ 1 <= p /\ m \in Nat /\ f \in Seq(Char)
      /\ q = p + m /\ q <= Len(text)
      /\ \A j \in 1..m : text[(p - 1) + j] = f[j]
      /\ text[q] = Comma \/ text[q] = Star
  BY Zenon DEF Stands
<1>2. e \in Nat /\ p <= e /\ e <= Len(text) + 1
  BY Zenon DEF FieldEnds
<1>3. /\ s = [j \in 1..(e - p) |-> text[(p - 1) + j]]
      /\ \A j \in 1..(e - p) : s[j] = text[(p - 1) + j]
      /\ Len(s) = e - p
  <2> HIDE DEF s
  <2>1. s = Token(text, tk)
    BY DEF s
  <2>2. Chars(s, text, p, e)
    BY <1>1, <1>2, <2>1, TokenChars, Zenon
  <2>3. QED BY <2>2, Zenon DEF Chars
<1>4. f = [j \in 1..m |-> f[j]]
  BY <1>1
<1> HIDE DEF s, m
<1>5. CASE e = q
  <2>1. e - p = m
    BY <1>1, <1>5
  <2>2. s = [j \in 1..m |-> text[(p - 1) + j]]
    BY <1>3, <2>1
  <2>3. s = f
    BY <1>1, <1>4, <2>2
  <2>4. QED BY <2>3, Zenon DEF s
<1>6. CASE c = "C" /\ m # 0
  <2>1. e = p + 1
    BY <1>6, Zenon DEF FieldEnds, m
  <2>2. e - p = 1 /\ 1 \in 1..1 /\ 1 \in 1..m
    BY <1>1, <1>6, <2>1
  <2>3. s[1] = f[1] /\ Len(s) = 1
    BY <1>1, <1>3, <2>2
  <2>4. s # <<>> /\ f # <<>>
    <3>1. Len(s) # 0 /\ Len(f) # 0
      BY <1>6, <2>3 DEF m
    <3>2. QED BY <3>1, EmptyIs, Zenon
  <2>5. Value("C", s) = Value("C", f)
    <3>1. Value("C", s) = <<s[1]>> /\ Value("C", f) = <<f[1]>>
      BY <2>4, ValueChar, Zenon
    <3>2. QED BY <2>3, <3>1, Zenon
  <2>6. QED BY <1>6, <2>5, Zenon DEF s
<1>7. CASE c = "f" \/ c = "d"
  <2>1. c # "C"
    BY <1>7
  <2>2. q <= e
    BY <2>1, Zenon DEF FieldEnds
  <2>3. m <= Len(s) /\ Len(s) \in Nat
    BY <1>1, <1>2, <1>3, <2>2
  <2>4. \A j \in 1..m : s[j] = f[j]
    <3>1. \A j \in 1..m : j \in 1..(e - p)
      BY <1>1, <1>2, <2>2
    <3>2. QED BY <1>1, <1>3, <3>1, Zenon
  <2>5. \A A : Comma \notin A /\ Star \notin A => Number(s, A) = Number(f, A)
    <3> SUFFICES ASSUME NEW A, Comma \notin A, Star \notin A PROVE Number(s, A) = Number(f, A)
      OBVIOUS
    <3>1. m < Len(s) => s[m + 1] \notin A
      <4> SUFFICES ASSUME m < Len(s) PROVE s[m + 1] \notin A
        OBVIOUS
      <4>1. m + 1 \in 1..(e - p) /\ (p - 1) + (m + 1) = q
        BY <1>1, <1>2, <1>3
      <4>2. s[m + 1] = text[q]
        BY <1>3, <4>1
      <4>3. QED BY <1>1, <4>2, Zenon
    <3>2. s = [j \in 1..Len(s) |-> s[j]]
      <4>1. e - p = Len(s)
        BY <1>3
      <4>2. QED BY <1>3, <4>1
    <3>3. /\ Len(s) \in Nat /\ Len(f) \in Nat /\ Len(f) <= Len(s)
          /\ f = [j \in 1..Len(f) |-> f[j]] /\ \A j \in 1..Len(f) : s[j] = f[j]
          /\ Len(f) < Len(s) => s[Len(f) + 1] \notin A
      BY <1>1, <1>4, <2>3, <2>4, <3>1, Zenon DEF m
    <3>4. Continues(s, f, A)
      BY ONLY <3>2, <3>3, Zenon DEF Continues
    <3>5. QED BY ONLY <3>4, NumberStops, Zenon
  <2>6. Comma \notin Reals /\ Star \notin Reals /\ Comma \notin Ints /\ Star \notin Ints
    BY DEF Comma, Star, Reals, Ints
  <2>7. Number(s, Reals) = Number(f, Reals) /\ Number(s, Ints) = Number(f, Ints)
    BY <2>5, <2>6, Zenon
  <2>8. Value("f", s) = Value("f", f) /\ Value("d", s) = Value("d", f)
    BY <2>7, ValueNumber, Zenon
  <2>9. QED BY <1>7, <2>8, Zenon DEF s
<1>8. CASE (c = "s" \/ c = "C") /\ text[q] = after /\ ~(c = "C" /\ m # 0)
  <2>1. CASE c = "s"
    <3>1. c # "C"
      BY <2>1
    <3>2. e = q
      BY <1>8, <3>1, Zenon DEF FieldEnds
    <3>3. QED BY <1>5, <3>2
  <2>2. CASE c = "C"
    <3>1. e = IF text[q] = after THEN q ELSE q + 1
      BY <1>8, <2>2, Zenon DEF FieldEnds, m
    <3>2. e = q
      BY <1>8, <3>1
    <3>3. QED BY <1>5, <3>2
  <2>3. QED BY <1>8, <2>1, <2>2
<1>9. QED BY <1>6, <1>7, <1>8, Zenon DEF m, Certain

TakesSeparator(text, tk, q) == Value("C", Token(text, tk)) = <<text[q]>>

\* An open empty character field stores what stands behind it.
LEMMA OpenChar ==
  ASSUME NEW text, NEW p, NEW q, NEW f, Stands(text, p, q, f), NEW after, NEW e,
         FieldEnds(text, p, q, f, "C", after, e), NEW tk, Token12(tk, p, e),
         Len(f) = 0, text[q] # after
  PROVE  TakesSeparator(text, tk, q)
<1> SUFFICES Value("C", Token(text, tk)) = <<text[q]>>
  BY Zenon DEF TakesSeparator
<1> DEFINE s == Token(text, tk)
<1>1. Len(text) \in Nat /\ p \in Nat /\ 1 <= p /\ q = p + 0 /\ q <= Len(text)
  BY Zenon DEF Stands
<1>2. e = q + 1
  BY Zenon DEF FieldEnds
<1>3. p = q /\ e \in Nat /\ p <= e /\ e <= Len(text) + 1 /\ e - p = 1 /\ (p - 1) + 1 = q /\ 1 \in 1..1
  BY <1>1, <1>2
<1>4. s = Token(text, tk)
  OBVIOUS
<1> HIDE DEF s
<1>5. (\A j \in 1..(e - p) : s[j] = text[(p - 1) + j]) /\ Len(s) = e - p
  <2>1. Chars(s, text, p, e)
    BY <1>1, <1>3, <1>4, TokenChars, Zenon
  <2>2. QED BY <2>1, Zenon DEF Chars
<1>6. s[1] = text[q] /\ Len(s) = 1
  BY <1>3, <1>5
<1>7. s # <<>>
  <2>1. Len(s) # 0
    BY <1>6
  <2>2. QED BY <2>1, EmptyIs, Zenon
<1>8. Value("C", s) = <<s[1]>>
  BY <1>7, ValueChar, Zenon
<1>9. QED BY <1>6, <1>8, Zenon DEF s
-----------------------------------------------------------------------------
(* The turns of a field.                                                   *)

Extends(us, ts, m) ==
  Len(ts) \in Nat /\ Len(us) = Len(ts) + m /\ \A i \in 1..Len(ts) : us[i] = ts[i]

\* What field f says to conversion j of shape x.
SaidBy(x, f, j) == IF Len(x) = 1 THEN Value(x[1], f) ELSE Value("2d", Piece(f, j))

\* Whether the value of the field is certain: z is what ends it in the text, after
\* what ends it in the format.
Sure(x, f, z, after) ==
  z = after \/ x = FieldF \/ x = FieldD \/ x = FieldDate \/ (x = FieldC /\ Len(f) # 0)

Overlong(x, f) == x = FieldC /\ Len(f) > 1

\* The tokens behind the first l are read as the field says.
ReadsRight(ts, l, text, x, f) ==
  \A j \in 1..Len(x) : Value(x[j], Token(text, ts[l + j])) = SaidBy(x, f, j)

\* State new, after the field of state st.
FieldRead(st, new, text, x, f, q, after) ==
  /\ new \in States /\ ~new.fail /\ Extends(new.toks, st.toks, Len(x))
  /\ Overlong(x, f) => new.pos <= Len(text) /\ text[new.pos] \in Char
  /\ ~Overlong(x, f) => q <= new.pos /\ (text[q] = after => new.pos = q)
  /\ Sure(x, f, text[q], after) => ReadsRight(new.toks, Len(st.toks), text, x, f)
  /\ x = FieldC /\ Len(f) = 0 /\ text[q] # after =>
        TakesSeparator(text, new.toks[Len(st.toks) + 1], q)

LEMMA StateFields ==
  ASSUME NEW st \in States
  PROVE  st.pos \in Nat /\ st.fail \in BOOLEAN /\ st.toks \in Seq(Nat \X Nat) /\ Len(st.toks) \in Nat
  BY DEF States

LEMMA AppendIs ==
  ASSUME NEW ts \in Seq(Nat \X Nat), NEW p \in Nat, NEW e \in Nat, NEW us, us = Append(ts, <<p, e>>)
  PROVE  us \in Seq(Nat \X Nat) /\ Appended(us, ts, p, e)
  BY DEF Appended

LEMMA TokenRead ==
  ASSUME NEW text, NEW p, NEW q, NEW f, Stands(text, p, q, f), NEW c, c \in Conversions, c # "2d",
         NEW after, NEW e, FieldEnds(text, p, q, f, c, after, e),
         NEW st \in States, NEW new \in States, ~new.fail, new.pos = e, Appended(new.toks, st.toks, p, e),
         NEW x \in Shapes, Single(x, c)
  PROVE  FieldRead(st, new, text, x, f, q, after)
<1>1. FieldEnds(text, p, q, f, c, after, e) /\ new.pos = e
  OBVIOUS
<1> DEFINE l == Len(st.toks)
           tk == new.toks[l + 1]
<1>2. l \in Nat
  BY StateFields
<1>3. /\ Len(new.toks) = l + 1 /\ tk[1] = p /\ tk[2] = e
      /\ \A i \in 1..l : new.toks[i] = st.toks[i]
  BY Zenon DEF Appended
<1>4. Len(x) = 1 /\ x[1] = c
  BY Zenon DEF Single
<1>5. Extends(new.toks, st.toks, Len(x))
  BY <1>2, <1>3, <1>4, Zenon DEF Extends
<1>6. /\ x = FieldC <=> c = "C"
      /\ x = FieldF <=> c = "f"
      /\ x = FieldD <=> c = "d"
      /\ x = FieldS <=> c = "s"
      /\ x # FieldDate
  <2>1. /\ Single(FieldS, "s") /\ Single(FieldC, "C") /\ Single(FieldF, "f") /\ Single(FieldD, "d")
        /\ Len(FieldDate) = 3 /\ 3 # 1
    BY ShapeFacts
  <2>2. FieldS[1] = "s" /\ FieldC[1] = "C" /\ FieldF[1] = "f" /\ FieldD[1] = "d"
    BY <2>1, Zenon DEF Single
  <2>3. x # FieldDate
    BY <1>4, <2>1, Zenon
  <2>4. x = FieldS \/ x = FieldC \/ x = FieldF \/ x = FieldD
    BY <2>3, Zenon DEF Shapes
  <2>5. "C" # "f" /\ "C" # "d" /\ "C" # "s" /\ "f" # "d" /\ "f" # "s" /\ "d" # "s"
    OBVIOUS
  <2>6. QED BY <1>4, <2>2, <2>3, <2>4, <2>5, Zenon
<1>7. /\ Len(text) \in Nat /\ p \in Nat /\ 1 <= p /\ Len(f) \in Nat
      /\ q = p + Len(f) /\ q <= Len(text)
      /\ \A j \in 1..Len(f) : text[(p - 1) + j] = f[j] /\ f[j] \in Char
  BY Zenon DEF Stands
<1>8. Overlong(x, f) => new.pos <= Len(text) /\ text[new.pos] \in Char
  <2> SUFFICES ASSUME Overlong(x, f) PROVE new.pos <= Len(text) /\ text[new.pos] \in Char
    OBVIOUS
  <2>1. c = "C" /\ Len(f) > 1
    BY <1>6, Zenon DEF Overlong
  <2>2. Len(f) # 0
    BY <1>7, <2>1
  <2>3. e = p + 1
    BY <1>1, <2>1, <2>2, Zenon DEF FieldEnds
  <2>4. 2 \in 1..Len(f) /\ (p - 1) + 2 = e /\ e <= Len(text)
    BY <1>7, <2>1, <2>3
  <2>5. QED BY <1>1, <1>7, <2>4, Zenon
<1>9. ~Overlong(x, f) => q <= new.pos /\ (text[q] = after => new.pos = q)
  <2> SUFFICES ASSUME ~Overlong(x, f) PROVE q <= e /\ (text[q] = after => e = q)
    BY <1>1
  <2>1. CASE c # "C"
    BY <1>1, <2>1, Zenon DEF FieldEnds
  <2>2. CASE c = "C" /\ Len(f) # 0
    <3>1. ~(Len(f) > 1)
      BY <1>6, <2>2, Zenon DEF Overlong
    <3>0. Len(f) \in Nat
      BY <1>7, Zenon
    <3>2. Len(f) = 1
      BY ONLY <2>2, <3>0, <3>1
    <3>3. e = p + 1
      BY <1>1, <2>2, Zenon DEF FieldEnds
    <3>4. QED BY <1>7, <3>2, <3>3
  <2>3. CASE c = "C" /\ Len(f) = 0
    <3>1. e = IF text[q] = after THEN q ELSE q + 1
      BY <1>1, <2>3, Zenon DEF FieldEnds
    <3>2. QED BY <1>7, <3>1
  <2>4. QED BY <2>1, <2>2, <2>3
<1>10. Sure(x, f, text[q], after) => ReadsRight(new.toks, Len(st.toks), text, x, f)
  <2> SUFFICES ASSUME Sure(x, f, text[q], after), NEW j \in 1..Len(x)
               PROVE  Value(x[j], Token(text, new.toks[l + j])) = SaidBy(x, f, j)
    BY Zenon DEF ReadsRight
  <2>1. j = 1
    BY <1>4
  <2>2. SaidBy(x, f, j) = Value(c, f)
    BY <1>4, Zenon DEF SaidBy
  <2>3. c = "s" \/ c = "C" \/ c = "f" \/ c = "d"
    BY Zenon DEF Conversions
  <2>4. Certain(c, f, text[q], after)
    BY <1>6, <2>3, Zenon DEF Sure, Certain
  <2>5. Value(c, Token(text, tk)) = Value(c, f)
    <3> HIDE DEF tk
    <3>1. Token12(tk, p, e)
      BY <1>3, Zenon DEF Token12
    <3>2. Stands(text, p, q, f) /\ FieldEnds(text, p, q, f, c, after, e)
      OBVIOUS
    <3>3. SameValue(c, Token(text, tk), f)
      BY ONLY <2>4, <3>1, <3>2, FieldValue, Zenon
    <3>4. QED BY <3>3, Zenon DEF SameValue
  <2>6. QED BY <1>4, <2>1, <2>2, <2>5, Zenon
<1>11. x = FieldC /\ Len(f) = 0 /\ text[q] # after =>
         TakesSeparator(text, new.toks[Len(st.toks) + 1], q)
  <2> SUFFICES ASSUME x = FieldC, Len(f) = 0, text[q] # after
               PROVE  TakesSeparator(text, tk, q)
    OBVIOUS
  <2>1. FieldEnds(text, p, q, f, "C", after, e)
    BY <1>1, <1>6, Zenon
  <2>2. Token12(tk, p, e)
    BY <1>3, Zenon DEF Token12
  <2> HIDE DEF tk
  <2>3. QED BY <2>1, <2>2, OpenChar, Zenon
<1>12. new \in States /\ ~new.fail
  OBVIOUS
<1>13. QED BY ONLY <1>5, <1>8, <1>9, <1>10, <1>11, <1>12 DEF FieldRead

LEMMA SingleRead ==
  ASSUME NEW text, NEW p, NEW q, NEW f, Stands(text, p, q, f), NEW format, NEW k, NEW c,
         format[k] = c, c \in Conversions, c # "2d", NEW after, After(format, k) = after,
         after = Comma \/ after = Star, NEW st \in States, ~st.fail, st.pos = p,
         NEW new, new = Turn(text, format, st, k), NEW x \in Shapes, Single(x, c)
  PROVE  FieldRead(st, new, text, x, f, q, after)
<1>1. Len(text) \in Nat /\ p \in Nat /\ Len(f) \in Nat /\ q = p + Len(f) /\ q <= Len(text)
  BY Zenon DEF Stands
<1>2. p <= Len(text)
  BY <1>1
<1>3. ~Stopped(st, text)
  BY <1>1, <1>2 DEF Stopped
<1>4. PICK e \in Nat : Takes(st, new, text, format, k, e)
  BY <1>1, <1>3, TurnToken, Zenon
<1>5. Ends(text, p, c, after, e)
  BY <1>4, Zenon DEF Takes
<1>6. FieldEnds(text, p, q, f, c, after, e)
  BY <1>5, FieldEnd, Zenon
<1>7. e <= Len(text) + 1
  BY <1>6, Zenon DEF FieldEnds
<1>8. new \in States /\ new.pos = e /\ new.toks = Append(st.toks, <<p, e>>) /\ ~new.fail
  BY <1>4, <1>7, Zenon DEF Takes
<1>9. Appended(new.toks, st.toks, p, e)
  BY <1>1, <1>8, StateFields, AppendIs, Zenon
<1>10. QED BY <1>6, <1>8, <1>9, TokenRead, Zenon

\* A pair of digits.
LEMMA PairTurn ==
  ASSUME NEW text, Len(text) \in Nat, NEW p \in Nat, p + 1 <= Len(text), NEW format, NEW k,
         format[k] = "2d", NEW st \in States, ~st.fail, st.pos = p,
         NEW new, new = Turn(text, format, st, k), NEW r, r = p + 2
  PROVE  new \in States /\ ~new.fail /\ new.pos = r /\ Appended(new.toks, st.toks, p, r)
<1>1. ~Stopped(st, text) /\ r \in Nat /\ r <= Len(text) + 1
  BY DEF Stopped
<1>2. "2d" \in Conversions
  BY Zenon DEF Conversions
<1>3. PICK e \in Nat : Takes(st, new, text, format, k, e)
  BY <1>1, <1>2, TurnToken, Zenon
<1>4. Ends(text, p, "2d", After(format, k), e)
  BY <1>3, Zenon DEF Takes
<1>5. e = p + 2
  BY <1>4 DEF Ends
<1>6. e = r
  BY <1>5
<1>7. new \in States /\ new.pos = r /\ new.toks = Append(st.toks, <<p, r>>) /\ ~new.fail
  BY <1>1, <1>3, <1>6, Zenon DEF Takes
<1>8. Appended(new.toks, st.toks, p, r)
  BY <1>1, <1>7, StateFields, AppendIs, Zenon
<1>9. QED BY <1>7, <1>8, Zenon

LEMMA PairValue ==
  ASSUME NEW text, NEW p, NEW q, NEW f, Stands(text, p, q, f), Len(f) = 6, NEW j \in 1..3,
         NEW b, b = p + 2 * (j - 1), NEW e, e = b + 2, NEW tk, Token12(tk, b, e)
  PROVE  SameValue("2d", Token(text, tk), Piece(f, j))
<1> DEFINE s == Token(text, tk)
<1>1. /\ Len(text) \in Nat /\ p \in Nat /\ 1 <= p /\ q = p + Len(f) /\ q <= Len(text) /\ f \in Seq(Char)
      /\ \A i \in 1..Len(f) : text[(p - 1) + i] = f[i]
  BY Zenon DEF Stands
<1>2. b \in Nat /\ 1 <= b /\ e \in Nat /\ b <= e /\ e <= Len(text) + 1 /\ e - b = 2
  <2> DEFINE n == Len(text)
  <2>1. /\ n \in Nat /\ p \in Nat /\ 1 <= p /\ q = p + 6 /\ q <= n /\ j \in 1..3
        /\ b = p + 2 * (j - 1) /\ e = b + 2
    BY <1>1, Zenon
  <2> HIDE DEF n
  <2>2. b \in Nat /\ 1 <= b /\ e \in Nat /\ b <= e /\ e <= n + 1 /\ e - b = 2
    BY ONLY <2>1
  <2>3. QED BY <2>2, Zenon DEF n
<1>3. s = Token(text, tk)
  OBVIOUS
<1> HIDE DEF s
<1>4. s = [i \in 1..(e - b) |-> text[(b - 1) + i]]
  <2>1. Chars(s, text, b, e)
    BY <1>1, <1>2, <1>3, TokenChars, Zenon
  <2>2. QED BY <2>1, Zenon DEF Chars
<1>5. s = [i \in 1..2 |-> text[(b - 1) + i]]
  BY <1>2, <1>4
<1>6. Piece(f, j) = [i \in 1..2 |-> f[2 * (j - 1) + i]]
  <2>1. SubSeq(f, 2 * j - 1, 2 * j) = [i \in 1..2 |-> f[2 * (j - 1) + i]]
    <3>1. CASE j = 1
      BY <1>1, <3>1
    <3>2. CASE j = 2
      BY <1>1, <3>2
    <3>3. CASE j = 3
      BY <1>1, <3>3
    <3>4. QED BY <3>1, <3>2, <3>3
  <2>2. QED BY <2>1, Zenon DEF Piece
<1>7. ASSUME NEW i \in 1..2 PROVE text[(b - 1) + i] = f[2 * (j - 1) + i]
  <2>1. 2 * (j - 1) + i \in 1..6 /\ (b - 1) + i = (p - 1) + (2 * (j - 1) + i)
    <3>1. p \in Nat /\ b = p + 2 * (j - 1) /\ j \in 1..3 /\ i \in 1..2
      BY <1>1, Zenon
    <3>2. QED BY ONLY <3>1
  <2>2. QED BY <1>1, <2>1
<1>8. s = Piece(f, j)
  BY <1>5, <1>6, <1>7
<1>9. QED BY <1>8, Zenon DEF SameValue, s

LEMMA DateRead ==
  ASSUME NEW text, NEW p, NEW q, NEW f, Stands(text, p, q, f), Len(f) = 6,
         NEW format, NEW k \in Nat, format[k] = "2d", format[k + 1] = "2d", format[k + 2] = "2d",
         NEW after, NEW st \in States, ~st.fail, st.pos = p,
         NEW s1, s1 = Turn(text, format, st, k), NEW s2, s2 = Turn(text, format, s1, k + 1),
         NEW new, new = Turn(text, format, s2, k + 2)
  PROVE  FieldRead(st, new, text, FieldDate, f, q, after)
<1> DEFINE l == Len(st.toks)
           x == FieldDate
<1>1. /\ Len(text) \in Nat /\ p \in Nat /\ 1 <= p /\ q = p + Len(f) /\ q <= Len(text)
  BY Zenon DEF Stands
<1>2. q = p + 6
  BY <1>1
<1> DEFINE p1 == p + 2
           p2 == p1 + 2
           p3 == p2 + 2
<1>3. /\ p1 \in Nat /\ p2 \in Nat /\ p + 1 <= Len(text) /\ p1 + 1 <= Len(text) /\ p2 + 1 <= Len(text)
      /\ p3 = q /\ p1 = p + 2 /\ p2 = p1 + 2 /\ p3 = p2 + 2
  BY <1>1, <1>2
<1> HIDE DEF p1, p2, p3
<1>4. s1 \in States /\ ~s1.fail /\ s1.pos = p1 /\ Appended(s1.toks, st.toks, p, p1)
  BY <1>1, <1>3, PairTurn
<1>5. s2 \in States /\ ~s2.fail /\ s2.pos = p2 /\ Appended(s2.toks, s1.toks, p1, p2)
  BY <1>1, <1>3, <1>4, PairTurn
<1>6. new \in States /\ ~new.fail /\ new.pos = p3 /\ Appended(new.toks, s2.toks, p2, p3)
  BY <1>1, <1>3, <1>5, PairTurn
<1>7. l \in Nat
  BY StateFields
<1>8. /\ Len(new.toks) = l + 3 /\ \A i \in 1..l : new.toks[i] = st.toks[i]
      /\ Token12(new.toks[l + 1], p, p1) /\ Token12(new.toks[l + 2], p1, p2) /\ Token12(new.toks[l + 3], p2, p3)
  <2> DEFINE a == s1.toks
             b == s2.toks
             c == new.toks
             o == st.toks
  <2>1. Len(a) = l + 1 /\ Token12(a[l + 1], p, p1) /\ \A i \in 1..l : a[i] = o[i]
    BY <1>4, Zenon DEF Appended, Token12
  <2>2. Len(b) = Len(a) + 1 /\ Token12(b[Len(a) + 1], p1, p2) /\ \A i \in 1..Len(a) : b[i] = a[i]
    BY <1>5, Zenon DEF Appended, Token12
  <2>3. Len(c) = Len(b) + 1 /\ Token12(c[Len(b) + 1], p2, p3) /\ \A i \in 1..Len(b) : c[i] = b[i]
    BY <1>6, Zenon DEF Appended, Token12
  <2> HIDE DEF a, b, c, o, l
  <2>4. Len(b) = l + 2 /\ Token12(b[l + 2], p1, p2)
    <3>1. Len(a) + 1 = l + 2
      BY <1>7, <2>1
    <3>2. QED BY <2>2, <3>1, Zenon
  <2>5. Len(c) = l + 3 /\ Token12(c[l + 3], p2, p3)
    <3>1. Len(b) + 1 = l + 3
      BY <1>7, <2>4
    <3>2. QED BY <2>3, <3>1, Zenon
  <2>6. \A i \in 1..(l + 1) : c[i] = a[i]
    <3>1. \A i \in 1..(l + 1) : i \in 1..Len(a) /\ i \in 1..Len(b)
      BY <1>7, <2>1, <2>4
    <3>2. QED BY <2>2, <2>3, <3>1, Zenon
  <2>7. c[l + 1] = a[l + 1] /\ \A i \in 1..l : c[i] = o[i]
    <3>1. l + 1 \in 1..(l + 1) /\ \A i \in 1..l : i \in 1..(l + 1)
      BY <1>7
    <3>2. QED BY <2>1, <2>6, <3>1, Zenon
  <2>8. c[l + 2] = b[l + 2]
    <3>1. l + 2 \in 1..Len(b)
      BY <1>7, <2>4
    <3>2. QED BY <2>3, <3>1, Zenon
  <2>9. QED BY <2>1, <2>4, <2>5, <2>7, <2>8, Zenon DEF c, o, l
<1>9. Len(x) = 3 /\ \A j \in 1..3 : x[j] = "2d"
  BY ShapeFacts, Zenon
<1>10. Extends(new.toks, st.toks, Len(x))
  BY <1>7, <1>8, <1>9, Zenon DEF Extends
<1>11. x # FieldC
  BY ShapesDiffer, Zenon
<1>12. q <= new.pos /\ new.pos = q
  BY <1>1, <1>2, <1>3, <1>6
<1>13. ReadsRight(new.toks, l, text, x, f)
  <2> SUFFICES ASSUME NEW j \in 1..Len(x)
               PROVE  Value(x[j], Token(text, new.toks[l + j])) = SaidBy(x, f, j)
    BY Zenon DEF ReadsRight
  <2>1. j \in 1..3 /\ x[j] = "2d" /\ Len(x) # 1
    BY <1>9
  <2>2. SaidBy(x, f, j) = Value("2d", Piece(f, j))
    BY <2>1, Zenon DEF SaidBy
  <2> DEFINE b == p + 2 * (j - 1)
             e == b + 2
             tk == new.toks[l + j]
  <2>3. Token12(tk, b, e)
    <3>1. CASE j = 1
      <4>1. b = p /\ e = p1 /\ l + j = l + 1
        BY <1>1, <1>3, <3>1
      <4>2. QED BY <1>8, <4>1
    <3>2. CASE j = 2
      <4>1. b = p1 /\ e = p2 /\ l + j = l + 2
        BY <1>1, <1>3, <3>2
      <4>2. QED BY <1>8, <4>1
    <3>3. CASE j = 3
      <4>1. b = p2 /\ e = p3 /\ l + j = l + 3
        BY <1>1, <1>3, <3>3
      <4>2. QED BY <1>8, <4>1
    <3>4. QED BY <2>1, <3>1, <3>2, <3>3
  <2>4. b = p + 2 * (j - 1) /\ e = b + 2
    OBVIOUS
  <2> HIDE DEF b, e, tk
  <2>5. Stands(text, p, q, f) /\ Len(f) = 6 /\ j \in 1..3
    BY <2>1
  <2>6. SameValue("2d", Token(text, tk), Piece(f, j))
    BY ONLY <2>3, <2>4, <2>5, PairValue, Zenon
  <2>7. QED BY <2>1, <2>2, <2>6, Zenon DEF SameValue, tk
<1>14. ~Overlong(x, f)
  BY <1>11, Zenon DEF Overlong
<1> HIDE DEF x
<1>15. QED BY ONLY <1>6, <1>10, <1>11, <1>12, <1>13, <1>14 DEF FieldRead, x
-----------------------------------------------------------------------------
(* Format and sentence in step.                                            *)

\* A sentence on its way through the loop.
Scanned(text, format, lay, flds, FB, TB, t) ==
  /\ lay \in Seq(Shapes) /\ flds \in Seq(Seq(Char))
  /\ InFormat(format, lay, FB) /\ InSentence(text, flds, TB) /\ Turns(t, text, format)
  /\ \A a \in 1..Len(lay) : a <= Len(flds) /\ lay[a] = FieldDate => Len(flds[a]) = 6

\* What ends a field in the format, and in the sentence.
Separator(c) == c = Comma \/ c = Star

LEMMA FormatEnd ==
  ASSUME NEW format, NEW lay, NEW FB, InFormat(format, lay, FB), NEW a \in 1..Len(lay)
  PROVE  /\ format[FB[a + 1]] = IF a < Len(lay) THEN Comma ELSE Star
         /\ Separator(format[FB[a + 1]])
<1>1. /\ Len(lay) \in Nat /\ format[FB[Len(lay) + 1]] = Star
      /\ \A b \in 1..Len(lay) : format[FB[b]] = Comma
  BY Zenon DEF InFormat
<1>2. CASE a < Len(lay)
  <2>1. a + 1 \in 1..Len(lay)
    BY <1>1, <1>2
  <2>2. QED BY <1>1, <1>2, <2>1, Zenon DEF Separator
<1>3. CASE ~(a < Len(lay))
  <2>1. a = Len(lay)
    BY <1>1, <1>3
  <2>2. QED BY <1>1, <1>3, <2>1, Zenon DEF Separator
<1>4. QED BY <1>2, <1>3

LEMMA SentenceEnd ==
  ASSUME NEW text, NEW flds, NEW TB, InSentence(text, flds, TB), NEW a \in 1..Len(flds)
  PROVE  text[TB[a + 1]] = IF a < Len(flds) THEN Comma ELSE Star
<1>1. /\ Len(flds) \in Nat /\ text[TB[Len(flds) + 1]] = Star
      /\ \A b \in 1..Len(flds) : text[TB[b]] = Comma
  BY Zenon DEF InSentence
<1>2. CASE a < Len(flds)
  <2>1. a + 1 \in 1..Len(flds)
    BY <1>1, <1>2
  <2>2. QED BY <1>1, <1>2, <2>1, Zenon
<1>3. CASE ~(a < Len(flds))
  <2>1. a = Len(flds)
    BY <1>1, <1>3
  <2>2. QED BY <1>1, <1>3, <2>1, Zenon
<1>4. QED BY <1>2, <1>3

LEMMA FieldStands ==
  ASSUME NEW text, NEW flds \in Seq(Seq(Char)), NEW TB, InSentence(text, flds, TB), NEW a \in 1..Len(flds)
  PROVE  Stands(text, TB[a] + 1, TB[a + 1], flds[a]) /\ TB[a] \in Nat
<1> DEFINE n == Len(flds)
           f == flds[a]
           b == TB[a]
           q == TB[a + 1]
           z == TB[n + 1]
<1>1. /\ n \in Nat /\ Len(text) = z + 4 /\ Len(f) \in Nat /\ q = (b + 1) + Len(f)
      /\ \A j \in 1..Len(f) : text[b + j] = f[j] /\ f[j] \in Char
      /\ \A i \in 1..(n + 1) : TB[i] \in Nat /\ 1 <= TB[i] /\ TB[i] <= z
  BY Zenon DEF InSentence
<1>2. f \in Seq(Char)
  OBVIOUS
<1>3. text[q] = Comma \/ text[q] = Star
  BY SentenceEnd, Zenon
<1>4. a \in 1..(n + 1) /\ a + 1 \in 1..(n + 1) /\ n + 1 \in 1..(n + 1)
  BY <1>1
<1>5. b \in Nat /\ 1 <= b /\ q \in Nat /\ q <= z /\ z \in Nat
  BY <1>1, <1>4, Zenon
<1> HIDE DEF n, f, b, q, z
<1>6. \A j \in 1..Len(f) : text[((b + 1) - 1) + j] = f[j] /\ f[j] \in Char
  <2>1. (b + 1) - 1 = b
    BY <1>5
  <2>2. QED BY <1>1, <2>1, Zenon
<1>7. Len(text) \in Nat /\ b + 1 \in Nat /\ 1 <= b + 1 /\ q <= Len(text)
  BY <1>1, <1>5
<1>8. Stands(text, b + 1, q, f)
  BY <1>1, <1>2, <1>3, <1>6, <1>7, Zenon DEF Stands
<1>9. QED BY <1>5, <1>8, Zenon DEF f, b, q

LEMMA TurnAt ==
  ASSUME NEW text, NEW format, NEW t, Turns(t, text, format), Len(format) \in Nat,
         NEW k \in Nat, k + 1 <= Len(format)
  PROVE  t[k + 1] = Turn(text, format, t[k], k + 1)
<1>1. k + 1 \in 1..Len(format) /\ (k + 1) - 1 = k
  OBVIOUS
<1>2. QED BY <1>1 DEF Turns

\* From the comma in front of a field to its end.
LEMMA FieldTurns ==
  ASSUME NEW text, NEW format, NEW lay, NEW flds, NEW FB, NEW TB, NEW t,
         Scanned(text, format, lay, flds, FB, TB, t),
         NEW a \in 1..Len(lay), a <= Len(flds),
         t[FB[a]] \in States, ~t[FB[a]].fail, t[FB[a]].pos = TB[a] + 1
  PROVE  FieldRead(t[FB[a]], t[FB[a + 1] - 1], text, lay[a], flds[a], TB[a + 1], format[FB[a + 1]])
<1> DEFINE k == FB[a]
           st == t[k]
           x == lay[a]
           f == flds[a]
           p == TB[a] + 1
           q == TB[a + 1]
           z == FB[a + 1]
           after == format[z]
<1>1. /\ lay \in Seq(Shapes) /\ flds \in Seq(Seq(Char)) /\ InFormat(format, lay, FB)
      /\ InSentence(text, flds, TB) /\ Turns(t, text, format)
      /\ x = FieldDate => Len(f) = 6
  BY Zenon DEF Scanned
<1>2. x \in Shapes
  BY <1>1
<1>3. a \in 1..Len(flds)
  <2>1. Len(flds) \in Nat
    BY <1>1
  <2>2. QED BY <2>1
<1>4. Stands(text, p, q, f)
  BY <1>1, <1>3, FieldStands, Zenon
<1>5. /\ Len(format) \in Nat /\ k \in Nat /\ 1 <= k /\ z \in Nat /\ z <= Len(format)
      /\ Len(x) \in Nat /\ z = (k + 1) + Len(x)
  <2>1. Spans(format, lay, FB, a)
    BY <1>1, FormatAt, Zenon
  <2>2. QED BY <2>1, Zenon DEF Spans
<1>6. \A j \in 1..Len(x) : format[k + j] = x[j] /\ x[j] \in Conversions
  BY <1>1, Zenon DEF InFormat
<1>7. after = Comma \/ after = Star
  <2>1. Separator(format[FB[a + 1]])
    BY <1>1, FormatEnd, Zenon
  <2>2. QED BY <2>1, Zenon DEF Separator
<1>8. st \in States /\ ~st.fail /\ st.pos = p
  OBVIOUS
<1>9. ASSUME NEW i \in Nat, i + 1 <= Len(format) PROVE t[i + 1] = Turn(text, format, t[i], i + 1)
  <2>1. Turns(t, text, format) /\ Len(format) \in Nat /\ i \in Nat /\ i + 1 <= Len(format)
    BY <1>1, <1>5, <1>9
  <2>2. QED BY ONLY <2>1, TurnAt
<1> HIDE DEF k, st, x, f, p, q, z, after
<1>10. CASE x = FieldDate
  <2>1. Len(x) = 3 /\ (\A j \in 1..3 : x[j] = "2d") /\ Len(f) = 6
    BY <1>1, <1>10, ShapeFacts, Zenon
  <2>2. format[k + 1] = "2d" /\ format[(k + 1) + 1] = "2d" /\ format[(k + 1) + 2] = "2d"
    <3>1. 1 \in 1..3 /\ 2 \in 1..3 /\ 3 \in 1..3 /\ (k + 1) + 1 = k + 2 /\ (k + 1) + 2 = k + 3
      BY <1>5
    <3>2. QED BY <1>6, <2>1, <3>1, Zenon
  <2>3. /\ k + 1 \in Nat /\ k + 1 <= Len(format) /\ (k + 1) + 1 <= Len(format) /\ (k + 2) + 1 <= Len(format)
        /\ k + 2 \in Nat /\ (k + 1) + 1 = k + 2 /\ (k + 2) + 1 = (k + 1) + 2 /\ (k + 1) + 2 = z - 1
    BY <1>5, <2>1
  <2>4. t[k + 1] = Turn(text, format, st, k + 1)
    BY <1>5, <1>9, <2>3, Zenon DEF st
  <2>5. t[k + 2] = Turn(text, format, t[k + 1], (k + 1) + 1)
    BY <1>9, <2>3, Zenon
  <2>6. t[z - 1] = Turn(text, format, t[k + 2], (k + 1) + 2)
    BY <1>9, <2>3, Zenon
  <2>7. FieldRead(st, t[z - 1], text, FieldDate, f, q, after)
    BY ONLY <1>4, <1>8, <2>1, <2>2, <2>3, <2>4, <2>5, <2>6, DateRead
  <2>8. QED BY <1>10, <2>7, Zenon DEF st, x, f, q, z, after, k
<1>11. CASE x # FieldDate
  <2>1. PICK c : Single(x, c) /\ c # "2d"
    <3>1. x = FieldS \/ x = FieldC \/ x = FieldF \/ x = FieldD
      BY <1>2, <1>11, Zenon DEF Shapes
    <3>2. "s" # "2d" /\ "C" # "2d" /\ "f" # "2d" /\ "d" # "2d"
      OBVIOUS
    <3>3. QED BY <3>1, <3>2, ShapeFacts, Zenon
  <2>2. Len(x) = 1 /\ x[1] = c
    BY <2>1, Zenon DEF Single
  <2>3. format[k + 1] = c /\ c \in Conversions
    <3>1. 1 \in 1..1
      OBVIOUS
    <3>2. QED BY <1>6, <2>2, <3>1, Zenon
  <2>4. k + 1 < Len(format) /\ k + 1 <= Len(format) /\ (k + 1) + 1 = z /\ z - 1 = k + 1
    BY <1>5, <2>2
  <2>5. After(format, k + 1) = after
    BY <2>4, Zenon DEF After, after
  <2>6. t[k + 1] = Turn(text, format, st, k + 1)
    BY <1>5, <1>9, <2>4, Zenon DEF st
  <2>7. FieldRead(st, t[k + 1], text, x, f, q, after)
    BY ONLY <1>2, <1>4, <1>7, <1>8, <2>1, <2>3, <2>5, <2>6, SingleRead
  <2>8. QED BY <2>4, <2>7, Zenon DEF st, x, f, q, z, after, k
<1>12. QED BY <1>10, <1>11

LEMMA StaysStopped ==
  ASSUME NEW text, NEW format, NEW t, Turns(t, text, format), Len(format) \in Nat,
         NEW k \in Nat, k <= Len(format), Stopped(t[k], text), NEW j \in Nat, k <= j, j <= Len(format)
  PROVE  t[j] = t[k]
<1> DEFINE m == Len(format) - k
           S == {i \in 0..m : t[k + i] = t[k]}
<1>1. m \in Nat
  OBVIOUS
<1>2. 0 \in S
  <2>1. k + 0 = k /\ 0 \in 0..m
    OBVIOUS
  <2>2. QED BY <2>1
<1>3. ASSUME NEW i \in 0..(m - 1), i \in S PROVE i + 1 \in S
  <2>1. k + i \in Nat /\ (k + i) + 1 <= Len(format) /\ i + 1 \in 0..m /\ k + (i + 1) = (k + i) + 1
    OBVIOUS
  <2>2. t[(k + i) + 1] = Turn(text, format, t[k + i], (k + i) + 1)
    BY <2>1, TurnAt
  <2>3. t[k + i] = t[k]
    BY <1>3
  <2>4. t[(k + i) + 1] = t[k]
    BY <2>2, <2>3, TurnStopped, Zenon
  <2>5. QED BY <2>1, <2>4, Zenon
<1>4. \A i \in 0..m : i \in S
  <2> HIDE DEF S, m
  <2> QED BY <1>1, <1>2, <1>3, IntervalInduction
<1>5. j - k \in 0..m /\ k + (j - k) = j
  OBVIOUS
<1>6. QED BY <1>4, <1>5

\* The tokens of the first a fields are read as the fields say.
ReadUpTo(ts, text, lay, flds, O, a) ==
  \A b \in 1..a : \A j \in 1..Len(lay[b]) : O[b] + j <= Len(ts) =>
     Value(lay[b][j], Token(text, ts[O[b] + j])) = SaidBy(lay[b], flds[b], j)

\* Behind the comma of field a: in step, or stopped at an overlong character field.
InStep(st, text, lay, flds, O, TB, a) ==
  /\ st \in States /\ ReadUpTo(st.toks, text, lay, flds, O, a - 1)
  /\ \/ ~st.fail /\ st.pos = TB[a] + 1 /\ Len(st.toks) = O[a]
     \/ st.fail /\ Len(st.toks) <= O[a] /\ \E b \in 1..(a - 1) : Overlong(lay[b], flds[b])

Placed(lay, O, FB) ==
  Offsets(O, lay) /\ \A k \in 1..(Len(lay) + 1) : FB[k] = O[k] + k

\* The first comma.
LEMMA FirstStep ==
  ASSUME NEW text, NEW format, NEW lay, NEW flds, NEW FB, NEW TB, NEW t, NEW O,
         Scanned(text, format, lay, flds, FB, TB, t), Placed(lay, O, FB)
  PROVE  InStep(t[FB[1]], text, lay, flds, O, TB, 1)
<1>1. InFormat(format, lay, FB) /\ InSentence(text, flds, TB) /\ Turns(t, text, format)
  BY Zenon DEF Scanned
<1>2. FB[1] = 1 /\ Len(lay) \in Nat /\ Len(lay) # 0 /\ \A a \in 1..Len(lay) : format[FB[a]] = Comma
  BY <1>1, Zenon DEF InFormat
<1>3. TB[1] = 1 /\ Len(flds) \in Nat /\ Len(flds) # 0 /\ \A a \in 1..Len(flds) : text[TB[a]] = Comma
  BY <1>1, Zenon DEF InSentence
<1>4. format[1] = Comma /\ text[1] = Comma
  <2>1. 1 \in 1..Len(lay) /\ 1 \in 1..Len(flds)
    BY <1>2, <1>3
  <2>2. QED BY <1>2, <1>3, <2>1, Zenon
<1>5. Len(format) \in Nat /\ 0 + 1 <= Len(format) /\ Len(text) \in Nat /\ 1 <= Len(text)
  <2>1. 1 \in 1..Len(lay) /\ 1 \in 1..Len(flds)
    BY <1>2, <1>3
  <2>2. Spans(format, lay, FB, 1)
    BY <1>1, <2>1, FormatAt, Zenon
  <2>3. Len(format) \in Nat /\ 0 + 1 <= Len(format)
    BY <1>2, <2>2 DEF Spans
  <2>4. flds \in Seq(Seq(Char))
    BY Zenon DEF Scanned
  <2>5. Stands(text, TB[1] + 1, TB[1 + 1], flds[1])
    BY <1>1, <2>1, <2>4, FieldStands, Zenon
  <2>6. Len(text) \in Nat /\ 1 <= Len(text)
    BY <1>3, <2>5 DEF Stands
  <2>7. QED BY <2>3, <2>6
<1>6. t[0] = StartState
  BY <1>1 DEF Turns
<1>7. t[0 + 1] = Turn(text, format, t[0], 0 + 1)
  <2>1. 0 \in Nat
    OBVIOUS
  <2>2. QED BY <1>1, <1>5, <2>1, TurnAt, Zenon
<1>8. t[1] = Turn(text, format, StartState, 1)
  <2>1. 0 + 1 = 1
    OBVIOUS
  <2>2. QED BY <1>6, <1>7, <2>1, Zenon
<1>9. StartState \in States /\ StartState.pos = 1 /\ ~StartState.fail /\ StartState.toks = <<>>
  BY DEF StartState, States
<1>10. ~Stopped(StartState, text)
  BY <1>5, <1>9 DEF Stopped
<1>11. format[1] \notin Conversions
  BY <1>4, Separators, Zenon
<1>12. Compared(StartState, t[1], text, format, 1)
  BY <1>8, <1>9, <1>10, <1>11, TurnLiteral, Zenon
<1> DEFINE st == t[1]
<1>13. st \in States /\ st.pos = 1 + 1 /\ st.toks = <<>> /\ ~st.fail
  BY <1>4, <1>9, <1>12, Zenon DEF Compared
<1> HIDE DEF st
<1>14. Len(st.toks) = O[1]
  <2>1. O[1] = 0
    BY Zenon DEF Placed, Offsets
  <2>2. QED BY <1>13, <2>1
<1>15. ReadUpTo(st.toks, text, lay, flds, O, 1 - 1)
  <2>1. 1..(1 - 1) = {}
    OBVIOUS
  <2>2. QED BY <2>1, Zenon DEF ReadUpTo
<1>16. InStep(st, text, lay, flds, O, TB, 1)
  BY <1>3, <1>13, <1>14, <1>15, Zenon DEF InStep
<1>17. QED BY <1>2, <1>16, Zenon DEF st

LEMMA ShapesSeqs ==
  ASSUME NEW lay \in Seq(Shapes)
  PROVE  lay \in Seq(Seq(Conversions))
<1>1. Shapes \subseteq Seq(Conversions)
  BY ShapeTypes, Zenon
<1>2. QED BY <1>1, SeqLarger, Zenon

\* What was read stays read.
LEMMA KeepsRead ==
  ASSUME NEW text, NEW lay \in Seq(Shapes), NEW flds, NEW O, Offsets(O, lay), NEW a \in 1..Len(lay),
         NEW ts, NEW us, NEW m, Extends(us, ts, m), Len(ts) = O[a],
         ReadUpTo(ts, text, lay, flds, O, a - 1)
  PROVE  ReadUpTo(us, text, lay, flds, O, a - 1)
<1>0. lay \in Seq(Seq(Conversions))
  BY ShapesSeqs, Zenon
<1>1. /\ Len(lay) \in Nat /\ \A k \in 1..(Len(lay) + 1) : O[k] \in Nat
      /\ \A k \in 1..Len(lay) : O[k + 1] = O[k] + Len(lay[k]) /\ Len(lay[k]) \in Nat
  BY <1>0, OffsetsType
<1>2. \A k \in 1..a : O[k] <= O[a]
  <2>1. a \in 1..(Len(lay) + 1)
    BY <1>1
  <2>2. QED BY <1>0, <2>1, OffsetsGrow, Zenon
<1>3. \A i \in 1..Len(ts) : us[i] = ts[i]
  BY Zenon DEF Extends
<1>4. ASSUME NEW b \in 1..(a - 1), NEW j \in 1..Len(lay[b]) PROVE O[b] + j \in 1..Len(ts) /\ O[b] + j <= Len(ts)
  <2>1. b \in 1..Len(lay) /\ b + 1 \in 1..a /\ a \in 1..(Len(lay) + 1) /\ b \in 1..(Len(lay) + 1) /\ b + 1 \in 1..(Len(lay) + 1)
    BY <1>1
  <2>2. O[b + 1] = O[b] + Len(lay[b]) /\ Len(lay[b]) \in Nat /\ O[b] \in Nat /\ O[b + 1] <= O[a] /\ O[a] \in Nat
    BY <1>1, <1>2, <2>1
  <2> DEFINE o == O[b]
             l == Len(lay[b])
             r == O[b + 1]
             g == O[a]
  <2>3. r = o + l /\ l \in Nat /\ o \in Nat /\ r <= g /\ g \in Nat
    BY <2>2, Zenon
  <2>4. j \in 1..l
    OBVIOUS
  <2> DEFINE n == Len(ts)
  <2>5. n = g
    BY Zenon
  <2> HIDE DEF o, l, r, g, n
  <2>6. o + j \in 1..n /\ o + j <= n
    BY ONLY <2>3, <2>4, <2>5
  <2>7. QED BY <2>6, Zenon DEF o, n
<1>5. QED BY <1>3, <1>4, Zenon DEF ReadUpTo

LEMMA ReadsOn ==
  ASSUME NEW text, NEW lay \in Seq(Shapes), NEW flds, NEW O, Offsets(O, lay), NEW a \in 1..Len(lay),
         NEW us, ReadUpTo(us, text, lay, flds, O, a - 1), ReadsRight(us, O[a], text, lay[a], flds[a])
  PROVE  ReadUpTo(us, text, lay, flds, O, a)
<1>1. \A b \in 1..a : b \in 1..(a - 1) \/ b = a
  OBVIOUS
<1>2. QED BY <1>1, Zenon DEF ReadUpTo, ReadsRight

\* Nothing was read of field a.
LEMMA ReadsNone ==
  ASSUME NEW text, NEW lay \in Seq(Shapes), NEW flds, NEW O, Offsets(O, lay), NEW a \in 1..Len(lay),
         NEW us, Len(us) \in Nat, Len(us) <= O[a], ReadUpTo(us, text, lay, flds, O, a - 1)
  PROVE  ReadUpTo(us, text, lay, flds, O, a)
<1>0. lay \in Seq(Seq(Conversions))
  BY ShapesSeqs, Zenon
<1>1. Len(lay) \in Nat /\ \A k \in 1..(Len(lay) + 1) : O[k] \in Nat
  BY <1>0, OffsetsType
<1>2. O[a] \in Nat /\ Len(lay[a]) \in Nat
  <2>1. a \in 1..(Len(lay) + 1)
    BY <1>1
  <2>2. QED BY <1>0, <1>1, <2>1
<1>3. \A j \in 1..Len(lay[a]) : ~(O[a] + j <= Len(us))
  BY <1>2
<1>4. \A b \in 1..a : b \in 1..(a - 1) \/ b = a
  OBVIOUS
<1>5. QED BY <1>3, <1>4, Zenon DEF ReadUpTo

\* The turns of field a and what the state is in front of its end.
FieldDone(s, text, lay, flds, O, TB, a, after) ==
  /\ s \in States /\ ~s.fail /\ Len(s.toks) = O[a + 1]
  /\ ReadUpTo(s.toks, text, lay, flds, O, a - 1)
  /\ Overlong(lay[a], flds[a]) => s.pos <= Len(text) /\ text[s.pos] \in Char
  /\ ~Overlong(lay[a], flds[a]) => TB[a + 1] <= s.pos /\ (text[TB[a + 1]] = after => s.pos = TB[a + 1])
  /\ Sure(lay[a], flds[a], text[TB[a + 1]], after) => ReadUpTo(s.toks, text, lay, flds, O, a)
  /\ lay[a] = FieldC /\ Len(flds[a]) = 0 /\ text[TB[a + 1]] # after =>
        TakesSeparator(text, s.toks[O[a] + 1], TB[a + 1])

LEMMA DoneField ==
  ASSUME NEW text, NEW format, NEW lay, NEW flds, NEW FB, NEW TB, NEW t, NEW O,
         Scanned(text, format, lay, flds, FB, TB, t), Placed(lay, O, FB),
         NEW a \in 1..Len(lay), a <= Len(flds), InStep(t[FB[a]], text, lay, flds, O, TB, a),
         ~t[FB[a]].fail
  PROVE  FieldDone(t[FB[a + 1] - 1], text, lay, flds, O, TB, a, format[FB[a + 1]])
<1> DEFINE s == t[FB[a]]
           u == t[FB[a + 1] - 1]
           x == lay[a]
           f == flds[a]
           q == TB[a + 1]
           after == format[FB[a + 1]]
<1>1. s \in States /\ ~s.fail /\ s.pos = TB[a] + 1 /\ Len(s.toks) = O[a] /\ ReadUpTo(s.toks, text, lay, flds, O, a - 1)
  BY Zenon DEF InStep
<1>2. lay \in Seq(Shapes)
  BY Zenon DEF Scanned
<1>3. Offsets(O, lay)
  BY Zenon DEF Placed
<1>4. FieldRead(s, u, text, x, f, q, after)
  BY <1>1, FieldTurns, Zenon
<1>5. O[a + 1] = O[a] + Len(lay[a])
  BY <1>3, Zenon DEF Offsets
<1>6. a \in 1..Len(lay)
  OBVIOUS
<1> HIDE DEF s, u
<1>7. /\ u \in States /\ ~u.fail /\ Extends(u.toks, s.toks, Len(x))
      /\ Overlong(x, f) => u.pos <= Len(text) /\ text[u.pos] \in Char
      /\ ~Overlong(x, f) => q <= u.pos /\ (text[q] = after => u.pos = q)
      /\ Sure(x, f, text[q], after) => ReadsRight(u.toks, Len(s.toks), text, x, f)
      /\ x = FieldC /\ Len(f) = 0 /\ text[q] # after =>
            TakesSeparator(text, u.toks[Len(s.toks) + 1], q)
  BY <1>4, Zenon DEF FieldRead
<1>8. Len(u.toks) = O[a + 1]
  BY <1>1, <1>5, <1>7, Zenon DEF Extends
<1>9. ReadUpTo(u.toks, text, lay, flds, O, a - 1)
  BY ONLY <1>1, <1>2, <1>3, <1>6, <1>7, KeepsRead, Zenon
<1>10. ReadsRight(u.toks, O[a], text, x, f) => ReadUpTo(u.toks, text, lay, flds, O, a)
  BY ONLY <1>2, <1>3, <1>6, <1>9, ReadsOn, Zenon DEF x, f
<1>11. QED BY ONLY <1>1, <1>7, <1>8, <1>9, <1>10, Zenon DEF FieldDone, u, x, f, q, after

LEMMA StepNext ==
  ASSUME NEW text, NEW format, NEW lay, NEW flds, NEW FB, NEW TB, NEW t, NEW O,
         Scanned(text, format, lay, flds, FB, TB, t), Placed(lay, O, FB),
         NEW a \in 1..Len(lay), a < Len(lay), a < Len(flds),
         InStep(t[FB[a]], text, lay, flds, O, TB, a)
  PROVE  InStep(t[FB[a + 1]], text, lay, flds, O, TB, a + 1)
<1> DEFINE k == FB[a]
           z == FB[a + 1]
<1>1. /\ lay \in Seq(Shapes) /\ flds \in Seq(Seq(Char)) /\ InFormat(format, lay, FB)
      /\ InSentence(text, flds, TB) /\ Turns(t, text, format)
  BY Zenon DEF Scanned
<1>2. Offsets(O, lay)
  BY Zenon DEF Placed
<1>3. /\ Len(format) \in Nat /\ k \in Nat /\ z \in Nat /\ z <= Len(format) /\ Len(lay[a]) \in Nat
      /\ z = (k + 1) + Len(lay[a])
  <2>1. Spans(format, lay, FB, a)
    BY <1>1, FormatAt, Zenon
  <2>2. QED BY <2>1, Zenon DEF Spans
<1>4. O[a] \in Nat /\ O[a + 1] = O[a] + Len(lay[a])
  <2>1. Len(lay) \in Nat /\ \A i \in 1..(Len(lay) + 1) : O[i] \in Nat
    BY <1>1, <1>2, ShapesSeqs, OffsetsType
  <2>2. a \in 1..(Len(lay) + 1)
    BY <2>1
  <2>3. O[a + 1] = O[a] + Len(lay[a])
    BY <1>2, Zenon DEF Offsets
  <2>4. QED BY <2>1, <2>2, <2>3, Zenon
<1>5. t[k] \in States /\ ReadUpTo(t[k].toks, text, lay, flds, O, a - 1)
  BY Zenon DEF InStep
<1>6. (a + 1) - 1 = a /\ a \in 1..((a + 1) - 1) /\ \A b \in 1..(a - 1) : b \in 1..((a + 1) - 1)
  OBVIOUS
<1>7. CASE t[k].fail
  <2>1. Len(t[k].toks) <= O[a] /\ \E b \in 1..(a - 1) : Overlong(lay[b], flds[b])
    BY <1>7, Zenon DEF InStep
  <2>2. t[z] = t[k]
    <3>1. Stopped(t[k], text) /\ k <= Len(format) /\ k <= z
      BY <1>3, <1>7 DEF Stopped
    <3> HIDE DEF k, z
    <3>2. Turns(t, text, format) /\ Len(format) \in Nat /\ k \in Nat /\ z \in Nat /\ z <= Len(format)
      BY <1>1, <1>3, Zenon
    <3>3. QED BY ONLY <3>1, <3>2, StaysStopped
  <2>3. Len(t[k].toks) \in Nat
    BY <1>5, StateFields, Zenon
  <2>4. ReadUpTo(t[k].toks, text, lay, flds, O, a)
    <3>1. a \in 1..Len(lay)
      OBVIOUS
    <3>2. QED BY ONLY <1>1, <1>2, <1>5, <2>1, <2>3, <3>1, ReadsNone, Zenon
  <2>5. Len(t[k].toks) <= O[a + 1]
    <3> DEFINE l == Len(t[k].toks)
               o == O[a]
               m == Len(lay[a])
    <3>1. l \in Nat /\ o \in Nat /\ m \in Nat /\ l <= o /\ O[a + 1] = o + m
      BY <1>3, <1>4, <2>1, <2>3, Zenon
    <3> HIDE DEF l, o, m
    <3>2. QED BY <3>1 DEF l
  <2>6. \E b \in 1..((a + 1) - 1) : Overlong(lay[b], flds[b])
    BY <1>6, <2>1, Zenon
  <2>7. QED BY <1>5, <1>6, <1>7, <2>2, <2>4, <2>5, <2>6, Zenon DEF InStep
<1>8. CASE ~t[k].fail
  <2> DEFINE u == t[z - 1]
             w == t[z]
             q == TB[a + 1]
  <2>0. a <= Len(flds) /\ a \in 1..Len(flds)
    <3>1. Len(flds) \in Nat
      BY <1>1
    <3>2. QED BY <3>1
  <2>1. FieldDone(u, text, lay, flds, O, TB, a, format[z])
    BY <1>8, <2>0, DoneField, Zenon
  <2>2. format[z] = Comma /\ text[q] = Comma
    <3>1. format[z] = IF a < Len(lay) THEN Comma ELSE Star
      BY <1>1, FormatEnd, Zenon
    <3>2. text[q] = IF a < Len(flds) THEN Comma ELSE Star
      BY <1>1, <2>0, SentenceEnd, Zenon
    <3>3. QED BY <3>1, <3>2, Zenon
  <2>3. w = Turn(text, format, u, z)
    <3>1. z - 1 \in Nat /\ (z - 1) + 1 = z /\ (z - 1) + 1 <= Len(format)
      <4> DEFINE n == Len(format)
                 l == Len(lay[a])
      <4> HIDE DEF n, l, z, k
      <4>1. n \in Nat /\ k \in Nat /\ z \in Nat /\ z <= n /\ l \in Nat /\ z = (k + 1) + l
        BY <1>3 DEF n, l
      <4>2. z - 1 \in Nat /\ (z - 1) + 1 = z /\ (z - 1) + 1 <= n
        BY ONLY <4>1
      <4>3. QED BY <4>2, Zenon DEF n
    <3> DEFINE i == z - 1
    <3>2. Turns(t, text, format) /\ Len(format) \in Nat /\ i \in Nat /\ i + 1 <= Len(format)
      BY <1>1, <1>3, <3>1, Zenon
    <3> HIDE DEF i
    <3>3. t[i + 1] = Turn(text, format, t[i], i + 1)
      BY ONLY <3>2, TurnAt
    <3>4. QED BY <3>1, <3>3, Zenon DEF i
  <2>4. q <= Len(text)
    BY <1>1, <2>0, FieldStands, Zenon DEF Stands
  <2> HIDE DEF u, w, q, k, z
  <2>5. /\ u \in States /\ ~u.fail /\ Len(u.toks) = O[a + 1]
        /\ Overlong(lay[a], flds[a]) => u.pos <= Len(text) /\ text[u.pos] \in Char
        /\ ~Overlong(lay[a], flds[a]) => u.pos = q
        /\ ReadUpTo(u.toks, text, lay, flds, O, a)
    BY ONLY <2>1, <2>2, Zenon DEF FieldDone, Sure, q
  <2>6. u.pos <= Len(text)
    BY <2>4, <2>5, Zenon
  <2>7. Compared(u, w, text, format, z)
    <3>1. ~Stopped(u, text)
      BY <1>1, <2>5, <2>6, StateFields, SentenceSize DEF Stopped
    <3>2. format[z] \notin Conversions
      BY <2>2, Separators, Zenon
    <3>3. QED BY <2>3, <2>5, <3>1, <3>2, TurnLiteral, Zenon
  <2>8. w \in States /\ w.pos = u.pos + 1 /\ w.toks = u.toks /\ w.fail = (text[u.pos] # Comma)
    BY <2>2, <2>7, Zenon DEF Compared
  <2>9. ReadUpTo(w.toks, text, lay, flds, O, (a + 1) - 1)
    BY <1>6, <2>5, <2>8, Zenon
  <2>10. CASE Overlong(lay[a], flds[a])
    <3>1. w.fail
      BY <2>5, <2>8, <2>10, Separators, Zenon
    <3>2. Len(w.toks) <= O[a + 1]
      BY <1>3, <1>4, <2>5, <2>8
    <3>3. QED BY <1>6, <2>8, <2>9, <2>10, <3>1, <3>2, Zenon DEF InStep, w, z
  <2>11. CASE ~Overlong(lay[a], flds[a])
    <3>1. ~w.fail /\ w.pos = q + 1 /\ Len(w.toks) = O[a + 1]
      BY <2>2, <2>5, <2>8, <2>11, Zenon
    <3>2. QED BY <2>8, <2>9, <3>1, Zenon DEF InStep, w, z, q
  <2>12. QED BY <2>10, <2>11
<1>9. QED BY <1>7, <1>8

LEMMA Steps ==
  ASSUME NEW text, NEW format, NEW lay, NEW flds, NEW FB, NEW TB, NEW t, NEW O,
         Scanned(text, format, lay, flds, FB, TB, t), Placed(lay, O, FB),
         NEW m \in Nat, m # 0, m <= Len(lay), m <= Len(flds)
  PROVE  InStep(t[FB[m]], text, lay, flds, O, TB, m)
<1> DEFINE S == {i \in 0..(m - 1) : InStep(t[FB[i + 1]], text, lay, flds, O, TB, i + 1)}
<1>0. Len(lay) \in Nat /\ Len(flds) \in Nat
  BY DEF Scanned
<1>1. 0 \in S
  <2>1. 0 \in 0..(m - 1) /\ 0 + 1 = 1
    OBVIOUS
  <2>2. InStep(t[FB[1]], text, lay, flds, O, TB, 1)
    BY FirstStep, Zenon
  <2>3. QED BY <2>1, <2>2, Zenon
<1>2. ASSUME NEW i \in 0..((m - 1) - 1), i \in S PROVE i + 1 \in S
  <2>1. i + 1 \in 1..Len(lay) /\ i + 1 < Len(lay) /\ i + 1 < Len(flds) /\ i + 1 \in 0..(m - 1)
    BY <1>0
  <2>2. InStep(t[FB[i + 1]], text, lay, flds, O, TB, i + 1)
    BY <1>2, Zenon
  <2>3. InStep(t[FB[(i + 1) + 1]], text, lay, flds, O, TB, (i + 1) + 1)
    BY <2>1, <2>2, StepNext, Zenon
  <2>4. QED BY <2>1, <2>3, Zenon
<1>3. \A i \in 0..(m - 1) : i \in S
  <2>1. m - 1 \in Nat
    OBVIOUS
  <2> HIDE DEF S
  <2>2. QED BY <1>1, <1>2, <2>1, IntervalInduction
<1>4. m - 1 \in 0..(m - 1) /\ (m - 1) + 1 = m
  OBVIOUS
<1>5. m - 1 \in S
  BY <1>3, <1>4, Zenon
<1>6. InStep(t[FB[(m - 1) + 1]], text, lay, flds, O, TB, (m - 1) + 1)
  BY <1>5, Zenon
<1>7. QED BY <1>4, <1>6

\* What nmea_scanf leaves, after the m fields that sentence and format have both.
Outcome(ts, text, lay, flds, O, TB, m, after) ==
  /\ Len(ts) \in Nat /\ ReadUpTo(ts, text, lay, flds, O, m - 1)
  /\ \/ Len(ts) <= O[m] /\ \E b \in 1..(m - 1) : Overlong(lay[b], flds[b])
     \/ /\ Len(ts) = O[m + 1]
        /\ Sure(lay[m], flds[m], text[TB[m + 1]], after) => ReadUpTo(ts, text, lay, flds, O, m)
        /\ lay[m] = FieldC /\ Len(flds[m]) = 0 /\ text[TB[m + 1]] # after =>
              TakesSeparator(text, ts[O[m] + 1], TB[m + 1])

\* Behind the last field of the sentence nothing compares equal to a comma.
LEMMA StopsAtEnd ==
  ASSUME NEW text, NEW format, NEW flds, NEW TB, InSentence(text, flds, TB), NEW z, format[z] = Comma,
         NEW u \in States, ~u.fail,
         (u.pos <= Len(text) /\ text[u.pos] \in Char) \/ TB[Len(flds) + 1] <= u.pos,
         NEW w, w = Turn(text, format, u, z)
  PROVE  Stopped(w, text)
<1> DEFINE q == TB[Len(flds) + 1]
<1>1. Len(text) = q + 4 /\ q \in Nat /\ \A j \in 0..4 : text[q + j] # Comma
  <2>1. Len(flds) \in Nat /\ Len(text) = q + 4 /\ \A j \in 0..4 : text[q + j] # Comma
    BY Zenon DEF InSentence
  <2>2. Len(flds) + 1 \in 1..(Len(flds) + 1)
    BY <2>1
  <2>3. q \in Nat
    BY <2>2, Zenon DEF InSentence
  <2>4. QED BY <2>1, <2>3
<1>2. u.pos \in Nat
  BY StateFields
<1> HIDE DEF q
<1>3. CASE u.pos > Len(text)
  <2>1. Stopped(u, text)
    BY <1>3 DEF Stopped
  <2>2. w = u
    BY <2>1, TurnStopped, Zenon
  <2>3. QED BY <2>1, <2>2, Zenon
<1>4. CASE ~(u.pos > Len(text))
  <2>1. text[u.pos] # Comma
    <3>1. CASE text[u.pos] \in Char
      BY <3>1, Separators, Zenon
    <3>2. CASE q <= u.pos
      <4>1. u.pos - q \in 0..4 /\ q + (u.pos - q) = u.pos
        BY <1>1, <1>2, <1>4, <3>2
      <4>2. QED BY <1>1, <4>1
    <3>3. QED BY <3>1, <3>2 DEF q
  <2>2. ~Stopped(u, text)
    BY <1>4 DEF Stopped
  <2>3. Compared(u, w, text, format, z)
    BY <2>2, Separators, TurnLiteral, Zenon
  <2>4. w.fail
    BY <2>1, <2>3, Zenon DEF Compared
  <2>5. QED BY <2>4 DEF Stopped
<1>5. QED BY <1>3, <1>4

LEMMA OutcomeHolds ==
  ASSUME NEW text, NEW format, NEW lay, NEW flds, NEW FB, NEW TB, NEW t, NEW O,
         Scanned(text, format, lay, flds, FB, TB, t), Placed(lay, O, FB),
         NEW m \in Nat, m # 0, m <= Len(lay), m <= Len(flds), m = Len(lay) \/ m = Len(flds)
  PROVE  Outcome(t[Len(format)].toks, text, lay, flds, O, TB, m, format[FB[m + 1]])
<1> DEFINE N == Len(format)
           k == FB[m]
           z == FB[m + 1]
           q == TB[m + 1]
           s == t[k]
           u == t[z - 1]
           w == t[z]
<1>1. /\ lay \in Seq(Shapes) /\ flds \in Seq(Seq(Char)) /\ InFormat(format, lay, FB)
      /\ InSentence(text, flds, TB) /\ Turns(t, text, format)
  BY Zenon DEF Scanned
<1>2. m \in 1..Len(lay) /\ m \in 1..Len(flds)
  <2>1. Len(lay) \in Nat /\ Len(flds) \in Nat
    BY <1>1
  <2>2. QED BY <2>1
<1>3. N \in Nat /\ k \in Nat /\ z \in Nat /\ z <= N /\ k <= N /\ 1 <= z
  <2>1. Spans(format, lay, FB, m)
    BY <1>1, <1>2, FormatAt, Zenon
  <2> DEFINE l == Len(lay[m])
  <2>2. /\ N \in Nat /\ k \in Nat /\ z \in Nat /\ z <= N /\ l \in Nat /\ z = (k + 1) + l
        /\ 1 <= k
    BY <2>1, Zenon DEF Spans
  <2> HIDE DEF N, k, z, l
  <2>3. QED BY ONLY <2>2
<1>4. InStep(s, text, lay, flds, O, TB, m)
  BY Steps, Zenon
<1>5. Len(text) \in Nat
  BY <1>1, SentenceSize, Zenon
<1>6. s \in States /\ ReadUpTo(s.toks, text, lay, flds, O, m - 1)
  BY <1>4, Zenon DEF InStep
<1> HIDE DEF N, k
<1>7. CASE s.fail
  <2>1. Stopped(s, text)
    BY <1>7, Zenon DEF Stopped
  <2>2. t[N] = s
    <3>1. N <= N
      BY <1>3
    <3> HIDE DEF z
    <3>2. Turns(t, text, format) /\ N = Len(format) /\ N \in Nat /\ k \in Nat /\ k <= N /\ Stopped(t[k], text)
      BY <1>1, <1>3, <2>1, Zenon DEF N, s
    <3>3. t[N] = t[k]
      BY ONLY <3>1, <3>2, StaysStopped
    <3>4. QED BY <3>3, Zenon DEF s
  <2>3. Len(s.toks) \in Nat
    BY <1>6, StateFields, Zenon
  <2>4. Len(s.toks) <= O[m] /\ \E b \in 1..(m - 1) : Overlong(lay[b], flds[b])
    BY <1>4, <1>7, Zenon DEF InStep
  <2>5. QED BY <1>6, <2>2, <2>3, <2>4, Zenon DEF Outcome, N
<1>8. CASE ~s.fail
  <2> DEFINE after == format[z]
  <2>1. FieldDone(u, text, lay, flds, O, TB, m, after)
    BY <1>2, <1>4, <1>8, DoneField, Zenon DEF k
  <2>2. /\ u \in States /\ ~u.fail /\ Len(u.toks) = O[m + 1] /\ ReadUpTo(u.toks, text, lay, flds, O, m - 1)
        /\ Overlong(lay[m], flds[m]) => u.pos <= Len(text) /\ text[u.pos] \in Char
        /\ ~Overlong(lay[m], flds[m]) => q <= u.pos
        /\ Sure(lay[m], flds[m], text[q], after) => ReadUpTo(u.toks, text, lay, flds, O, m)
        /\ lay[m] = FieldC /\ Len(flds[m]) = 0 /\ text[q] # after =>
              TakesSeparator(text, u.toks[O[m] + 1], q)
    BY <2>1, Zenon DEF FieldDone
  <2>3. z - 1 \in Nat /\ (z - 1) + 1 = z /\ (z - 1) + 1 <= N /\ z - 1 \in 0..N
    BY <1>3
  <2>4. w = Turn(text, format, u, z)
    <3>1. t[(z - 1) + 1] = Turn(text, format, u, (z - 1) + 1)
      <4> HIDE DEF z
      <4>1. QED BY <1>1, <1>3, <2>3, TurnAt DEF N
    <3>2. QED BY <2>3, <3>1
  <2>5. after = IF m < Len(lay) THEN Comma ELSE Star
    BY <1>1, <1>2, FormatEnd, Zenon
  <2>6. after \notin Conversions
    BY <2>5, Separators, Zenon
  <2>7. w.toks = u.toks
    <3>1. InText(u, text)
      BY <1>1, <1>3, <1>5, <2>3, TurnsInText, Zenon DEF N
    <3>2. GoodTurn(u, w, text, format, z)
      BY <1>5, <2>4, <3>1, TurnInText, Zenon
    <3>3. QED BY <2>6, <3>2, Zenon DEF GoodTurn
  <2>8. t[N].toks = u.toks
    <3>1. CASE m = Len(lay)
      <4>1. N = z
        BY <1>1, <3>1, FormatSize, Zenon DEF N
      <4>2. QED BY <2>7, <4>1, Zenon
    <3>2. CASE m # Len(lay)
      <4>1. m < Len(lay) /\ m = Len(flds)
        BY <1>2, <3>2
      <4>2. format[z] = Comma
        BY <2>5, <4>1, Zenon
      <4>3. (u.pos <= Len(text) /\ text[u.pos] \in Char) \/ TB[Len(flds) + 1] <= u.pos
        BY <2>2, <4>1, Zenon
      <4>4. InSentence(text, flds, TB) /\ u \in States /\ ~u.fail
        BY <1>1, <2>2, Zenon
      <4> HIDE DEF u, w, z
      <4>5. Stopped(w, text)
        BY ONLY <2>4, <4>2, <4>3, <4>4, StopsAtEnd, Zenon
      <4>6. Turns(t, text, format) /\ N = Len(format) /\ N \in Nat /\ z \in Nat /\ z <= N /\ Stopped(t[z], text) /\ N <= N
        <5>1. N <= N
          BY <1>3
        <5>2. QED BY <1>1, <1>3, <4>5, <5>1, Zenon DEF N, w
      <4>7. t[N] = t[z]
        BY ONLY <4>6, StaysStopped
      <4>8. QED BY <2>7, <4>7, Zenon DEF w
    <3>3. QED BY <3>1, <3>2
  <2>9. Len(u.toks) \in Nat
    BY <2>2, StateFields, Zenon
  <2>10. QED BY <2>2, <2>8, <2>9, Zenon DEF Outcome, N
<1>9. QED BY <1>7, <1>8

\* The same, for a sentence of kind kd: z ends the last field that is read in the
\* text, after in the format.
ScanRead(ts, text, lay, flds, O, m, z, after) ==
  /\ Len(ts) \in Nat /\ ReadUpTo(ts, text, lay, flds, O, m - 1)
  /\ \/ Len(ts) <= O[m] /\ \E b \in 1..(m - 1) : Overlong(lay[b], flds[b])
     \/ /\ Len(ts) = O[m + 1]
        /\ Sure(lay[m], flds[m], z, after) => ReadUpTo(ts, text, lay, flds, O, m)
        /\ lay[m] = FieldC /\ Len(flds[m]) = 0 /\ z # after =>
              Value("C", Token(text, ts[O[m] + 1])) = <<z>>

Common(lay, flds, m) == m \in Nat /\ m # 0 /\ m <= Len(lay) /\ m <= Len(flds) /\ (m = Len(lay) \/ m = Len(flds))

Dated(lay, flds) == \A a \in 1..Len(lay) : a <= Len(flds) /\ lay[a] = FieldDate => Len(flds[a]) = 6

Behind1(flds, m) == IF m < Len(flds) THEN Comma ELSE Star

LEMMA SentenceRead ==
  ASSUME NEW kd \in DOMAIN Layout, NEW flds \in Seq(Seq(Char)), Len(flds) # 0,
         Dated(Layout[kd], flds), NEW m, Common(Layout[kd], flds, m)
  PROVE  \E O : /\ Offsets(O, Layout[kd]) /\ Flat(Convs(kd), O, Layout[kd], Conversions)
                /\ ScanRead(nmea_scanf(Text(flds), Format(kd)), Text(flds), Layout[kd], flds, O, m,
                            Behind1(flds, m), Behind1(Layout[kd], m))
<1> DEFINE lay == Layout[kd]
           text == Text(flds)
           format == Format(kd)
           n == Len(format)
<1>1. lay \in Seq(Shapes) /\ lay \in Seq(Seq(Conversions))
  BY LayoutType, Zenon
<1>2. PICK FB : InFormat(format, lay, FB)
  BY FormatLaid, Zenon
<1>3. PICK TB : InSentence(text, flds, TB)
  BY TextLaid, Zenon
<1>4. PICK O : Offsets(O, lay) /\ Flat(Convs(kd), O, lay, Conversions)
  BY ConvsLaid, Zenon
<1>5. n \in Nat /\ Len(text) \in Nat
  BY <1>2, <1>3, FormatSize, SentenceSize, Zenon
<1>6. PICK t : Turns(t, text, format) /\ nmea_scanf(text, format) = t[n].toks
  BY <1>5, ScanfUnfold, Zenon
<1>7. Common(lay, flds, m) /\ Dated(lay, flds) /\ flds \in Seq(Seq(Char))
  OBVIOUS
<1> DEFINE ts == nmea_scanf(text, format)
<1>8. ts = t[n].toks
  BY <1>6, Zenon
<1> HIDE DEF lay, text, format, ts
<1>9. Scanned(text, format, lay, flds, FB, TB, t)
  BY <1>1, <1>2, <1>3, <1>6, <1>7, Zenon DEF Scanned, Dated
<1>10. Placed(lay, O, FB)
  <2>1. \A k \in 1..(Len(lay) + 1) : FB[k] = O[k] + k
    BY ONLY <1>1, <1>2, <1>4, PlacesAgree
  <2>2. QED BY <1>4, <2>1, Zenon DEF Placed
<1>11. m \in Nat /\ m # 0 /\ m <= Len(lay) /\ m <= Len(flds) /\ (m = Len(lay) \/ m = Len(flds))
  BY <1>7, Zenon DEF Common
<1>12. Outcome(ts, text, lay, flds, O, TB, m, format[FB[m + 1]])
  BY <1>8, <1>9, <1>10, <1>11, OutcomeHolds, Zenon
<1>13. m \in 1..Len(lay) /\ m \in 1..Len(flds)
  <2>1. Len(lay) \in Nat /\ Len(flds) \in Nat
    BY <1>1, <1>7
  <2>2. QED BY <1>11, <2>1
<1>14. format[FB[m + 1]] = Behind1(lay, m) /\ text[TB[m + 1]] = Behind1(flds, m)
  BY <1>2, <1>3, <1>13, FormatEnd, SentenceEnd, Zenon DEF Behind1
<1>15. ScanRead(ts, text, lay, flds, O, m, Behind1(flds, m), Behind1(lay, m))
  BY <1>12, <1>14, Zenon DEF Outcome, ScanRead, TakesSeparator
<1>16. QED BY <1>4, <1>15, Zenon DEF lay, text, format, ts
-----------------------------------------------------------------------------
(* The tokens and the reference.                                           *)

\* What the first m fields say, flattened.
Says(R, lay, flds, O, m) ==
  /\ R = [i \in 1..O[m + 1] |-> R[i]] /\ Len(R) = O[m + 1]
  /\ \A k \in 1..m : \A j \in 1..Len(lay[k]) : R[O[k] + j] = SaidBy(lay[k], flds[k], j)

FieldValuesOf(x, f) ==
  IF Len(x) = 1 THEN <<Value(x[1], f)>> ELSE [j \in 1..3 |-> Value("2d", Piece(f, j))]

LEMMA FieldSays ==
  ASSUME NEW x \in Shapes, NEW f, NEW v, v = FieldValuesOf(x, f), NEW T,
         \A j \in 1..Len(x) : SaidBy(x, f, j) \in T
  PROVE  v \in Seq(T) /\ Len(v) = Len(x) /\ \A j \in 1..Len(x) : v[j] = SaidBy(x, f, j)
<1>1. CASE Len(x) = 1
  <2> DEFINE a == Value(x[1], f)
  <2>1. v = <<a>>
    BY <1>1, Zenon DEF FieldValuesOf
  <2>2. \A j \in 1..Len(x) : j = 1 /\ SaidBy(x, f, j) = a
    BY <1>1 DEF SaidBy
  <2>3. a \in T
    <3>1. 1 \in 1..Len(x)
      BY <1>1
    <3>2. QED BY <2>2, <3>1, Zenon
  <2> HIDE DEF a
  <2>4. v \in Seq(T) /\ Len(v) = 1 /\ v[1] = a
    BY <2>1, <2>3
  <2>5. QED BY <1>1, <2>2, <2>4, Zenon
<1>2. CASE Len(x) # 1
  <2>1. Len(x) = 3
    BY <1>2, ShapeTypes, Zenon
  <2>2. v = [j \in 1..3 |-> Value("2d", Piece(f, j))]
    BY <1>2, Zenon DEF FieldValuesOf
  <2>3. \A j \in 1..3 : SaidBy(x, f, j) = Value("2d", Piece(f, j))
    BY <1>2, Zenon DEF SaidBy
  <2>4. v = [j \in 1..3 |-> SaidBy(x, f, j)]
    BY <2>2, <2>3, Zenon
  <2>5. v \in [1..3 -> T] /\ \A j \in 1..3 : v[j] = SaidBy(x, f, j)
    BY <2>1, <2>4, Zenon
  <2>6. v \in Seq(T) /\ Len(v) = 3
    <3>1. 3 \in Nat
      OBVIOUS
    <3>2. QED BY <2>5, <3>1, FunSeq, Zenon
  <2>7. QED BY <2>1, <2>5, <2>6, Zenon
<1>3. QED BY <1>1, <1>2

LEMMA ReadIs ==
  ASSUME kind \in DOMAIN Layout, fields \in Seq(Seq(Char)), NEW m, Common(Layout[kind], fields, m)
  PROVE  Read = 1..m
<1>1. Layout[kind] \in Seq(Shapes)
  BY LayoutType, Zenon
<1> DEFINE n == Len(fields)
           l == Len(Layout[kind])
<1>2. n \in Nat /\ l \in Nat /\ DOMAIN fields = 1..n
  BY <1>1
<1>3. m \in Nat /\ m <= l /\ m <= n /\ (m = l \/ m = n)
  BY Zenon DEF Common
<1>4. Read = {k \in 1..n : k <= l}
  BY <1>2, Zenon DEF Read
<1> HIDE DEF n, l
<1>5. QED BY <1>2, <1>3, <1>4

\* The reference has the values of the fields where the tokens have theirs.
LEMMA ReferenceSays ==
  ASSUME kind \in DOMAIN Layout, fields \in Seq(Seq(Char)), NEW m, Common(Layout[kind], fields, m),
         NEW O, Offsets(O, Layout[kind])
  PROVE  Says(Reference, Layout[kind], fields, O, m)
<1> DEFINE lay == Layout[kind]
           s == [k \in 1..m |-> FieldValues(k)]
           T == {SaidBy(lay[k], fields[k], j) : k \in 1..m, j \in 1..3}
<1>1. lay \in Seq(Shapes) /\ lay \in Seq(Seq(Conversions))
  BY LayoutType, Zenon
<1>2. m \in Nat /\ m # 0 /\ m <= Len(lay) /\ \A k \in 1..m : k \in 1..Len(lay)
  <2>1. m \in Nat /\ m # 0 /\ m <= Len(lay)
    BY Zenon DEF Common
  <2>2. Len(lay) \in Nat
    BY <1>1
  <2>3. QED BY <2>1, <2>2
<1>3. Reference = FlattenSeq(s)
  BY ReadIs, Zenon DEF Reference
<1>4. ASSUME NEW k \in 1..m
      PROVE  /\ s[k] \in Seq(T) /\ Len(s[k]) = Len(lay[k])
             /\ \A j \in 1..Len(lay[k]) : s[k][j] = SaidBy(lay[k], fields[k], j)
  <2>1. lay[k] \in Shapes
    BY <1>1, <1>2
  <2>2. s[k] = FieldValuesOf(lay[k], fields[k])
    BY Zenon DEF FieldValues, FieldValuesOf
  <2>3. \A j \in 1..Len(lay[k]) : j \in 1..3
    <3> DEFINE n == Len(lay[k])
    <3>1. n = 1 \/ n = 3
      BY <2>1, ShapeTypes, Zenon
    <3> HIDE DEF n
    <3>2. \A j \in 1..n : j \in 1..3
      BY <3>1
    <3>3. QED BY <3>2, Zenon DEF n
  <2>4. \A j \in 1..Len(lay[k]) : SaidBy(lay[k], fields[k], j) \in T
    <3> SUFFICES ASSUME NEW j \in 1..Len(lay[k]) PROVE SaidBy(lay[k], fields[k], j) \in T
      OBVIOUS
    <3>1. k \in 1..m /\ j \in 1..3
      BY <2>3
    <3>2. QED BY <3>1
  <2> HIDE DEF s, T, lay
  <2>5. QED BY <2>1, <2>2, <2>4, FieldSays, Zenon
<1>5. s \in Seq(Seq(T)) /\ Len(s) = m
  <2>1. s = [k \in 1..m |-> s[k]]
    BY Zenon
  <2> HIDE DEF s, T
  <2>2. s \in [1..m -> Seq(T)]
    BY <1>4, <2>1, Zenon
  <2>3. QED BY <1>2, <2>2, FunSeq, Zenon
<1> HIDE DEF s, T, lay
<1>6. PICK P : Offsets(P, s) /\ Flat(FlattenSeq(s), P, s, T)
  BY <1>2, <1>5, FlattenLaid, Zenon
<1>7. \A k \in 1..(m + 1) : O[k] = P[k]
  <2>1. Offsets(O, lay) /\ SameSizes(lay, s, m)
    <3>1. m <= m
      BY <1>2
    <3>2. Offsets(O, lay)
      BY Zenon DEF lay
    <3>3. QED BY <1>2, <1>4, <1>5, <3>1, <3>2, Zenon DEF SameSizes
  <2>2. m \in Nat /\ m <= Len(lay) /\ lay \in Seq(Seq(Conversions)) /\ s \in Seq(Seq(T)) /\ Offsets(P, s)
    BY <1>1, <1>2, <1>5, <1>6, Zenon
  <2>3. SamePlaces(O, P, m)
    BY ONLY <2>1, <2>2, OffsetsAgree, Zenon
  <2>4. QED BY <2>3, Zenon DEF SamePlaces
<1>8. O[m + 1] = P[m + 1]
  <2>1. m + 1 \in 1..(m + 1)
    BY <1>2
  <2>2. QED BY <1>7, <2>1, Zenon
<1>9. Reference \in Seq(T) /\ Len(Reference) = O[m + 1]
  BY <1>3, <1>5, <1>6, <1>8, Zenon DEF Flat
<1>10. Reference = [i \in 1..O[m + 1] |-> Reference[i]]
  BY <1>9
<1>11. ASSUME NEW k \in 1..m, NEW j \in 1..Len(lay[k])
       PROVE  Reference[O[k] + j] = SaidBy(lay[k], fields[k], j)
  <2>1. k \in 1..(m + 1) /\ k \in 1..Len(s)
    BY <1>2, <1>5
  <2>2. Reference[P[k] + j] = s[k][j]
    BY <1>3, <1>4, <1>6, <2>1, Zenon DEF Flat
  <2>3. QED BY <1>4, <1>7, <2>1, <2>2, Zenon
<1>12. QED BY <1>9, <1>10, <1>11, Zenon DEF Says, lay

\* Values that agree with the reference up to where they end.
Agrees(V, R, i) == \A p \in 1..i : p <= Len(V) => V[p] = R[p]

LEMMA ReadAgrees ==
  ASSUME NEW kd \in DOMAIN Layout, NEW flds, NEW text, NEW ts, Len(ts) \in Nat, NEW O,
         Offsets(O, Layout[kd]), Flat(Convs(kd), O, Layout[kd], Conversions),
         NEW m \in Nat, m <= Len(Layout[kd]), NEW R, Says(R, Layout[kd], flds, O, m),
         NEW a \in Nat, a <= m, ReadUpTo(ts, text, Layout[kd], flds, O, a)
  PROVE  Agrees(Stored(kd, text, ts), R, O[a + 1])
<1> DEFINE lay == Layout[kd]
           V == Stored(kd, text, ts)
<1>1. lay \in Seq(Seq(Conversions)) /\ Len(lay) \in Nat
  BY LayoutType
<1>2. V = [k \in 1..Len(ts) |-> Value(Convs(kd)[k], Token(text, ts[k]))]
  BY Zenon DEF Stored
<1>3. Len(V) = Len(ts) /\ \A k \in 1..Len(ts) : V[k] = Value(Convs(kd)[k], Token(text, ts[k]))
  BY <1>2
<1> HIDE DEF V, lay
<1>4. ASSUME NEW p \in 1..O[a + 1], p <= Len(ts) PROVE V[p] = R[p]
  <2>1. a <= Len(lay)
    BY <1>1 DEF lay
  <2>2. PICK k \in 1..a : \E j \in 1..Len(lay[k]) : p = O[k] + j
    <3>1. Offsets(O, lay)
      BY DEF lay
    <3>2. p \in 1..O[a + 1]
      OBVIOUS
    <3>3. a \in Nat
      OBVIOUS
    <3>4. Covered(O, lay, a, p)
      BY ONLY <1>1, <2>1, <3>1, <3>2, <3>3, OffsetsCover, Zenon
    <3>5. QED BY <3>4, Zenon DEF Covered
  <2>3. PICK j \in 1..Len(lay[k]) : p = O[k] + j
    BY <2>2, Zenon
  <2>4. k \in 1..m /\ k \in 1..Len(lay)
    BY <1>1 DEF lay
  <2>5. R[p] = SaidBy(lay[k], flds[k], j)
    BY <2>3, <2>4, Zenon DEF Says, lay
  <2>6. Convs(kd)[p] = lay[k][j]
    BY <2>3, <2>4, Zenon DEF Flat, lay
  <2>7. Value(lay[k][j], Token(text, ts[p])) = SaidBy(lay[k], flds[k], j)
    BY <1>4, <2>3, Zenon DEF ReadUpTo, lay
  <2>8. p \in 1..Len(ts)
    <3> HIDE DEF lay
    <3>1. a + 1 \in 1..(Len(lay) + 1)
      BY <2>1, <1>1
    <3>2. O[a + 1] \in Nat
      BY <1>1, <3>1, OffsetsType DEF lay
    <3>3. QED BY <1>4, <3>2
  <2>9. QED BY <1>3, <2>5, <2>6, <2>7, <2>8, Zenon
<1>5. QED BY <1>3, <1>4, Zenon DEF Agrees, V

\* A list of n values.
Whole(V, n) == n \in Nat /\ Len(V) = n /\ V = [i \in 1..n |-> V[i]]

LEMMA PrefixIs ==
  ASSUME NEW V, NEW n, Whole(V, n), NEW R, NEW l, Whole(R, l), n <= l, Agrees(V, R, l)
  PROVE  IsPrefix(V, R)
<1>1. n \in Nat /\ l \in Nat /\ Len(V) = n /\ Len(R) = l
  BY Zenon DEF Whole
<1>2. SubSeq(V, 1, n) = [i \in 1..n |-> V[i]]
  BY <1>1
<1>3. SubSeq(R, 1, n) = [i \in 1..n |-> R[i]]
  BY <1>1
<1>4. \A i \in 1..n : V[i] = R[i]
  <2>1. \A i \in 1..n : i \in 1..l /\ i <= n
    BY <1>1
  <2>2. QED BY <1>1, <2>1, Zenon DEF Agrees
<1>5. SubSeq(V, 1, n) = SubSeq(R, 1, n)
  BY <1>2, <1>3, <1>4
<1>6. QED BY <1>1, <1>5, Zenon DEF IsPrefix

\* What the tokens of a sentence say, compared with its fields.
Decoded(V, R, lay, flds, O, m, z, after) ==
  /\ Whole(V, Len(V)) /\ Whole(R, O[m + 1]) /\ Says(R, lay, flds, O, m) /\ Agrees(V, R, O[m])
  /\ \/ Len(V) <= O[m] /\ \E b \in 1..(m - 1) : Overlong(lay[b], flds[b])
     \/ /\ Len(V) = O[m + 1]
        /\ Sure(lay[m], flds[m], z, after) => Agrees(V, R, O[m + 1])
        /\ lay[m] = FieldC /\ Len(flds[m]) = 0 /\ z # after => V[O[m] + 1] = <<z>>

LEMMA Decoding ==
  ASSUME kind \in DOMAIN Layout, fields \in Seq(Seq(Char)), Len(fields) # 0,
         Dated(Layout[kind], fields), NEW m, Common(Layout[kind], fields, m)
  PROVE  \E O : /\ Offsets(O, Layout[kind])
                /\ Decoded(Values, Reference, Layout[kind], fields, O, m,
                           Behind1(fields, m), Behind1(Layout[kind], m))
<1> DEFINE lay == Layout[kind]
           text == Text(fields)
           ts == Tokens
           z == Behind1(fields, m)
           after == Behind1(lay, m)
           V == Values
           R == Reference
<1>1. PICK O : Offsets(O, lay) /\ Flat(Convs(kind), O, lay, Conversions)
                /\ ScanRead(ts, text, lay, fields, O, m, z, after)
  BY SentenceRead, Zenon DEF Tokens
<1>2. lay \in Seq(Seq(Conversions)) /\ lay \in Seq(Shapes)
  BY LayoutType, Zenon
<1>3. m \in Nat /\ m # 0 /\ m <= Len(lay)
  BY Zenon DEF Common
<1>4. Len(lay) \in Nat /\ m \in 1..Len(lay) /\ m - 1 \in Nat /\ m - 1 <= m /\ (m - 1) + 1 = m /\ m <= m
  <2>1. Len(lay) \in Nat
    BY <1>2
  <2>2. QED BY <1>3, <2>1
<1>5. O[m] \in Nat /\ O[m + 1] \in Nat /\ O[m + 1] = O[m] + Len(lay[m])
  <2>1. m \in 1..(Len(lay) + 1) /\ m + 1 \in 1..(Len(lay) + 1)
    BY <1>4
  <2>2. \A k \in 1..(Len(lay) + 1) : O[k] \in Nat
    BY <1>1, <1>2, OffsetsType
  <2>3. O[m + 1] = O[m] + Len(lay[m])
    BY <1>1, <1>4, Zenon DEF Offsets
  <2>4. QED BY <2>1, <2>2, <2>3, Zenon
<1>6. Says(R, lay, fields, O, m)
  BY <1>1, ReferenceSays, Zenon
<1>7. Whole(R, O[m + 1])
  BY <1>5, <1>6, Zenon DEF Says, Whole
<1>8. V = Stored(kind, text, ts)
  BY Zenon DEF Values
<1>9. Len(ts) \in Nat /\ V = [k \in 1..Len(ts) |-> Value(Convs(kind)[k], Token(text, ts[k]))]
  BY <1>1, <1>8, Zenon DEF Stored, ScanRead
<1> HIDE DEF V, R, ts, text, z, after
<1>10. Len(V) = Len(ts) /\ \A k \in 1..Len(ts) : V[k] = Value(Convs(kind)[k], Token(text, ts[k]))
  BY <1>9
<1>11. Whole(V, Len(V))
  <2>1. V = [k \in 1..Len(ts) |-> V[k]]
    BY <1>9
  <2>2. QED BY <1>9, <1>10, <2>1, Zenon DEF Whole
<1>12. ASSUME NEW a \in Nat, a <= m, ReadUpTo(ts, text, lay, fields, O, a) PROVE Agrees(V, R, O[a + 1])
  <2>1. Agrees(Stored(kind, text, ts), R, O[a + 1])
    BY <1>1, <1>3, <1>6, <1>9, <1>12, ReadAgrees, Zenon
  <2>2. QED BY <1>8, <2>1, Zenon
<1>13. Agrees(V, R, O[m])
  <2>1. ReadUpTo(ts, text, lay, fields, O, m - 1)
    BY <1>1, Zenon DEF ScanRead
  <2>2. Agrees(V, R, O[(m - 1) + 1])
    BY <1>4, <1>12, <2>1, Zenon
  <2>3. QED BY <1>4, <2>2
<1>14. CASE Len(ts) <= O[m] /\ \E b \in 1..(m - 1) : Overlong(lay[b], fields[b])
  <2>1. Decoded(V, R, lay, fields, O, m, z, after)
    BY <1>6, <1>7, <1>10, <1>11, <1>13, <1>14, Zenon DEF Decoded
  <2>2. QED BY <1>1, <2>1, Zenon DEF lay, z, after, V, R
<1>15. CASE /\ Len(ts) = O[m + 1]
            /\ Sure(lay[m], fields[m], z, after) => ReadUpTo(ts, text, lay, fields, O, m)
            /\ lay[m] = FieldC /\ Len(fields[m]) = 0 /\ z # after =>
                  Value("C", Token(text, ts[O[m] + 1])) = <<z>>
  <2>1. Sure(lay[m], fields[m], z, after) => Agrees(V, R, O[m + 1])
    BY <1>3, <1>4, <1>12, <1>15, Zenon
  <2>2. ASSUME lay[m] = FieldC, Len(fields[m]) = 0, z # after PROVE V[O[m] + 1] = <<z>>
    <3>1. Len(lay[m]) = 1 /\ lay[m][1] = "C"
      BY <2>2, ShapeFacts, Zenon DEF Single
    <3>2. O[m] + 1 \in 1..Len(ts) /\ 1 \in 1..Len(lay[m])
      BY <1>5, <1>15, <3>1
    <3>3. Convs(kind)[O[m] + 1] = "C"
      BY <1>1, <1>4, <3>1, <3>2, Zenon DEF Flat
    <3>4. V[O[m] + 1] = Value("C", Token(text, ts[O[m] + 1]))
      BY <1>10, <3>2, <3>3, Zenon
    <3>5. QED BY <1>15, <2>2, <3>4, Zenon
  <2>3. Decoded(V, R, lay, fields, O, m, z, after)
    BY <1>6, <1>7, <1>10, <1>11, <1>13, <1>15, <2>1, <2>2, Zenon DEF Decoded
  <2>4. QED BY <1>1, <2>3, Zenon DEF lay, z, after, V, R
<1>16. QED BY <1>1, <1>14, <1>15, Zenon DEF ScanRead

LEMMA OffsetsAt ==
  ASSUME NEW lay \in Seq(Shapes), NEW O, Offsets(O, lay), NEW m \in 1..Len(lay)
  PROVE  O[m] \in Nat /\ O[m + 1] \in Nat /\ O[m + 1] = O[m] + Len(lay[m]) /\ Len(lay[m]) \in Nat
<1>1. lay \in Seq(Seq(Conversions)) /\ Len(lay) \in Nat
  BY ShapesSeqs
<1>2. /\ \A k \in 1..(Len(lay) + 1) : O[k] \in Nat
      /\ \A k \in 1..Len(lay) : O[k + 1] = O[k] + Len(lay[k]) /\ Len(lay[k]) \in Nat
  BY <1>1, OffsetsType
<1>3. m \in 1..(Len(lay) + 1) /\ m + 1 \in 1..(Len(lay) + 1)
  BY <1>1
<1>4. QED BY <1>2, <1>3, Zenon

LEMMA DecodedPrefix ==
  ASSUME NEW lay \in Seq(Shapes), NEW O, Offsets(O, lay), NEW m \in 1..Len(lay), NEW flds,
         NEW V, NEW R, NEW z, NEW after, Decoded(V, R, lay, flds, O, m, z, after),
         Sure(lay[m], flds[m], z, after)
  PROVE  IsPrefix(V, R)
<1>1. O[m] \in Nat /\ O[m + 1] \in Nat /\ O[m + 1] = O[m] + Len(lay[m]) /\ Len(lay[m]) \in Nat
  BY OffsetsAt, Zenon
<1>2. Whole(V, Len(V)) /\ Whole(R, O[m + 1]) /\ Agrees(V, R, O[m]) /\ Len(V) \in Nat
  BY Zenon DEF Decoded, Whole
<1>3. Len(V) <= O[m + 1] /\ Agrees(V, R, O[m + 1])
  <2>1. CASE Len(V) <= O[m]
    <3> DEFINE n == Len(V)
               o == O[m]
               r == O[m + 1]
               d == Len(lay[m])
    <3>1. n \in Nat /\ o \in Nat /\ r = o + d /\ d \in Nat /\ n <= o
      BY <1>1, <1>2, <2>1, Zenon
    <3> HIDE DEF n, o, r, d
    <3>2. n <= r /\ \A p \in 1..r : p <= n => p \in 1..o
      BY <3>1
    <3>3. \A p \in 1..o : p <= n => V[p] = R[p]
      BY <1>2, Zenon DEF Agrees, n, o
    <3>4. QED BY <3>2, <3>3, Zenon DEF Agrees, n, r
  <2>2. CASE ~(Len(V) <= O[m])
    <3>1. Len(V) = O[m + 1] /\ Agrees(V, R, O[m + 1])
      BY <2>2, Zenon DEF Decoded
    <3>2. O[m + 1] <= O[m + 1]
      BY <1>1
    <3>3. QED BY <3>1, <3>2, Zenon
  <2>3. QED BY <2>1, <2>2
<1>4. QED BY <1>2, <1>3, PrefixIs, Zenon

Changed(Q, R, l, i, x) == Whole(Q, l) /\ Q[i] = x /\ \A j \in 1..l : j # i => Q[j] = R[j]

LEMMA ExceptWhole ==
  ASSUME NEW R, NEW l, Whole(R, l), NEW i \in 1..l, NEW x, NEW Q, Q = [R EXCEPT ![i] = x]
  PROVE  Changed(Q, R, l, i, x)
<1>1. l \in Nat /\ R = [j \in 1..l |-> R[j]]
  BY Zenon DEF Whole
<1>2. DOMAIN R = 1..l
  BY <1>1, Zenon
<1>3. Q = [j \in 1..l |-> IF j = i THEN x ELSE R[j]]
  BY <1>2
<1>4. Q[i] = x /\ \A j \in 1..l : j # i => Q[j] = R[j]
  BY <1>3
<1>5. Len(Q) = l
  BY <1>1, <1>3
<1>6. Q = [j \in 1..l |-> Q[j]]
  BY <1>3
<1>7. QED BY <1>1, <1>4, <1>5, <1>6, Zenon DEF Changed, Whole

\* An open character field at the end: the separator of the sentence is stored.
LEMMA OpenPrefix ==
  ASSUME NEW lay \in Seq(Shapes), NEW O, Offsets(O, lay), NEW m \in 1..Len(lay), NEW flds,
         NEW V, NEW R, NEW z, NEW after, Decoded(V, R, lay, flds, O, m, z, after),
         lay[m] = FieldC, Len(flds[m]) = 0, z # after
  PROVE  IsPrefix(V, [R EXCEPT ![O[m] + 1] = <<z>>])
<1> DEFINE i == O[m] + 1
           Q == [R EXCEPT ![i] = <<z>>]
           o == O[m]
           n == Len(V)
<1>0. Len(lay[m]) = 1
  BY ShapeFacts, Zenon DEF Single
<1>1. o \in Nat /\ O[m + 1] = i /\ i = o + 1
  BY <1>0, OffsetsAt, Zenon
<1>2. Whole(V, n) /\ Whole(R, i) /\ Agrees(V, R, o) /\ n \in Nat
  BY <1>1, Zenon DEF Decoded, Whole
<1>3. n <= o \/ (n = i /\ V[i] = <<z>>)
  BY <1>1, Zenon DEF Decoded
<1> HIDE DEF Q, o, n, i
<1>4. Whole(Q, i) /\ Q[i] = <<z>> /\ \A j \in 1..i : j # i => Q[j] = R[j]
  <2>1. i \in 1..i
    BY <1>1
  <2>2. Q = [R EXCEPT ![i] = <<z>>]
    BY Zenon DEF Q
  <2>3. Changed(Q, R, i, i, <<z>>)
    BY ONLY <1>2, <2>1, <2>2, ExceptWhole, Zenon
  <2>4. QED BY <2>3, Zenon DEF Changed
<1>5. n <= i
  BY <1>1, <1>2, <1>3
<1>6. Agrees(V, Q, i)
  <2> SUFFICES ASSUME NEW p \in 1..i, p <= n PROVE V[p] = Q[p]
    BY Zenon DEF Agrees, n
  <2>1. CASE p = i
    <3>1. ~(n <= o)
      BY <1>1, <1>2, <2>1
    <3>2. QED BY <1>3, <1>4, <2>1, <3>1, Zenon
  <2>2. CASE p # i
    <3>1. p \in 1..o
      BY <1>1, <2>2
    <3>2. V[p] = R[p]
      BY <1>2, <3>1, Zenon DEF Agrees, n
    <3>3. QED BY <1>4, <2>2, <3>2, Zenon
  <2>3. QED BY <2>1, <2>2
<1>7. IsPrefix(V, Q)
  BY <1>2, <1>4, <1>5, <1>6, PrefixIs, Zenon
<1>8. QED BY <1>7, Zenon DEF Q, i

\* The first h fields have one conversion each.
LEMMA OffsetsPlain ==
  ASSUME NEW lay \in Seq(Shapes), NEW O, Offsets(O, lay), NEW h \in Nat, h <= Len(lay),
         \A k \in 1..h : lay[k] # FieldDate
  PROVE  \A k \in 1..(h + 1) : O[k] = k - 1
<1> DEFINE S == {i \in 0..h : O[i + 1] = i}
<1>0. Len(lay) \in Nat /\ O[1] = 0
  BY DEF Offsets
<1>1. 0 \in S
  BY <1>0
<1>2. ASSUME NEW i \in 0..(h - 1), i \in S PROVE i + 1 \in S
  <2>1. i + 1 \in 1..h /\ i + 1 \in 1..Len(lay) /\ i + 1 \in 0..h
    BY <1>0
  <2>2. O[(i + 1) + 1] = O[i + 1] + Len(lay[i + 1])
    BY <2>1, OffsetsAt, Zenon
  <2>3. Len(lay[i + 1]) = 1
    <3>1. lay[i + 1] \in Shapes /\ lay[i + 1] # FieldDate
      BY <2>1
    <3>2. QED BY <3>1, ShapeTypes, Zenon
  <2>4. O[i + 1] = i
    BY <1>2
  <2>5. QED BY <2>1, <2>2, <2>3, <2>4
<1>3. \A i \in 0..h : i \in S
  <2> HIDE DEF S
  <2> QED BY <1>1, <1>2, IntervalInduction
<1>4. \A k \in 1..(h + 1) : k - 1 \in 0..h /\ (k - 1) + 1 = k
  OBVIOUS
<1>5. QED BY <1>3, <1>4
-----------------------------------------------------------------------------
(* What is accepted was read field by field, sentence by sentence.         *)

LEMMA CommonExists ==
  ASSUME kind \in DOMAIN Layout, fields \in Seq(Seq(Char)), Len(fields) # 0
  PROVE  \E m : Common(Layout[kind], fields, m) /\ m \in 1..Len(Layout[kind])
<1> DEFINE l == Len(Layout[kind])
           n == Len(fields)
           m == IF n < l THEN n ELSE l
<1>1. l \in Nat /\ l # 0 /\ n \in Nat /\ n # 0
  BY LayoutType
<1>2. m \in Nat /\ m # 0 /\ m <= l /\ m <= n /\ (m = l \/ m = n) /\ m \in 1..l
  <2> HIDE DEF l, n
  <2>1. QED BY <1>1
<1>3. Common(Layout[kind], fields, m) /\ m \in 1..Len(Layout[kind])
  BY <1>2, Zenon DEF Common
<1>4. QED BY <1>3, Zenon

\* No more values than the fields that were read have.
LEMMA DecodedSize ==
  ASSUME NEW lay \in Seq(Shapes), NEW O, Offsets(O, lay), NEW m \in 1..Len(lay), NEW flds,
         NEW V, NEW R, NEW z, NEW after, Decoded(V, R, lay, flds, O, m, z, after)
  PROVE  Len(V) \in Nat /\ Len(V) <= O[m + 1]
<1> DEFINE n == Len(V)
           o == O[m]
           r == O[m + 1]
           d == Len(lay[m])
<1>1. o \in Nat /\ r = o + d /\ d \in Nat
  BY OffsetsAt, Zenon
<1>2. n \in Nat /\ (n <= o \/ n = r)
  BY Zenon DEF Decoded, Whole
<1> HIDE DEF n, o, r, d
<1>3. n \in Nat /\ n <= r
  BY <1>1, <1>2
<1>4. QED BY <1>3 DEF n, r

\* A sentence without a date, all of whose conversions took a token.
LEMMA PlainRead ==
  ASSUME kind \in DOMAIN Layout, fields \in Seq(Seq(Char)), Len(fields) # 0,
         NEW N, N = Len(Layout[kind]), \A k \in 1..N : Layout[kind][k] # FieldDate,
         Len(Values) = N
  PROVE  \E O : /\ Offsets(O, Layout[kind]) /\ O[N] + 1 = N /\ O[N + 1] = N
                /\ Decoded(Values, Reference, Layout[kind], fields, O, N, Behind1(fields, N), Star)
<1> DEFINE lay == Layout[kind]
<1>1. lay \in Seq(Shapes) /\ Len(lay) # 0
  BY LayoutType, Zenon
<1>2. N \in Nat /\ N # 0 /\ N <= Len(lay) /\ N \in 1..Len(lay) /\ N \in 1..(N + 1) /\ N + 1 \in 1..(N + 1)
  BY <1>1
<1>3. PICK m : Common(lay, fields, m) /\ m \in 1..Len(lay)
  BY CommonExists, Zenon
<1>4. Dated(lay, fields)
  BY Zenon DEF Dated
<1>5. PICK O : /\ Offsets(O, lay)
               /\ Decoded(Values, Reference, lay, fields, O, m, Behind1(fields, m), Behind1(lay, m))
  BY <1>3, <1>4, Decoding, Zenon
<1>6. \A k \in 1..(N + 1) : O[k] = k - 1
  <2>1. \A k \in 1..N : lay[k] # FieldDate
    OBVIOUS
  <2> HIDE DEF lay
  <2>2. QED BY ONLY <1>1, <1>2, <1>5, <2>1, OffsetsPlain
<1>7. Len(Values) <= O[m + 1]
  BY <1>1, <1>3, <1>5, DecodedSize, Zenon
<1>8. m + 1 \in 1..(N + 1) /\ m \in Nat /\ m <= N
  BY <1>2, <1>3
<1>9. O[m + 1] = (m + 1) - 1
  BY <1>6, <1>8
<1>10. m = N
  BY <1>2, <1>7, <1>8, <1>9
<1>11. O[N] + 1 = N /\ O[N + 1] = N
  <2>1. O[N] = N - 1 /\ O[N + 1] = (N + 1) - 1
    BY <1>2, <1>6, Zenon
  <2>2. QED BY <1>2, <2>1
<1>12. Behind1(lay, N) = Star
  <2>1. ~(N < Len(lay))
    BY <1>2
  <2>2. QED BY <2>1, Zenon DEF Behind1
<1>13. Decoded(Values, Reference, lay, fields, O, N, Behind1(fields, N), Star)
  BY <1>5, <1>10, <1>12, Zenon
<1>14. QED BY <1>5, <1>11, <1>13, Zenon

\* The formats without a date.
LEMMA Dateless ==
  ASSUME NEW kd \in {"GGA", "GSA", "GSV", "VTG"}
  PROVE  \A k \in 1..Len(Layout[kd]) : Layout[kd][k] # FieldDate
<1>1. CASE kd = "GGA"
  <2>1. Len(Layout[kd]) = 14 /\ Layout[kd][1] = FieldS /\ Plain(Layout[kd], 2, 14)
    BY <1>1, LayoutShapes, Zenon DEF Shaped
  <2>2. \A k \in 1..14 : k = 1 \/ k \in 2..14
    OBVIOUS
  <2>3. QED BY <2>1, <2>2, ShapesDiffer, Zenon DEF Plain
<1>2. CASE kd = "GSA"
  <2>1. Len(Layout[kd]) = 17 /\ Plain(Layout[kd], 1, 17)
    BY <1>2, LayoutShapes, Zenon DEF Shaped
  <2>2. QED BY <2>1, ShapesDiffer, Zenon DEF Plain
<1>3. CASE kd = "GSV"
  <2>1. Len(Layout[kd]) = 19 /\ \A k \in 1..19 : Layout[kd][k] = FieldD
    BY <1>3, LayoutShapes, Zenon DEF Shaped
  <2>2. QED BY <2>1, ShapesDiffer, Zenon
<1>4. CASE kd = "VTG"
  <2>1. Len(Layout[kd]) = 8 /\ Plain(Layout[kd], 1, 8)
    BY <1>4, LayoutShapes, Zenon DEF Shaped
  <2>2. QED BY <2>1, ShapesDiffer, Zenon DEF Plain
<1>5. QED BY <1>1, <1>2, <1>3, <1>4, Zenon

LEMMA LastCharPlain ==
  ASSUME NEW v,
         ~(kind = "RMC" /\ Len(fields) = 11 /\ fields[11] = <<>>),
         ~(kind = "RMC" /\ Len(fields) > 12 /\ fields[12] = <<>>)
  PROVE  LastChar(v) = v
  BY Zenon DEF LastChar

\* GGA and GSA end with a number, GSV has nothing else.
LEMMA NumberDecodes ==
  ASSUME fields \in Seq(Seq(Char)), Len(fields) # 0, kind \in {"GGA", "GSA", "GSV"},
         kind = "GGA" => Len(Values) = 14, kind = "GSA" => Len(Values) = 17
  PROVE  IsPrefix(Values, LastChar(Reference))
<1> DEFINE lay == Layout[kind]
           N == Len(lay)
<1>1. kind \in DOMAIN Layout /\ kind \in {"GGA", "GSA", "GSV", "VTG"} /\ kind # "RMC"
  <2>1. "GGA" # "RMC" /\ "GSA" # "RMC" /\ "GSV" # "RMC"
    OBVIOUS
  <2>2. QED BY <2>1, LayoutRecord, Zenon
<1>2. lay \in Seq(Shapes)
  BY <1>1, LayoutType, Zenon
<1>3. \A k \in 1..N : lay[k] # FieldDate
  BY <1>1, Dateless, Zenon
<1>4. IsPrefix(Values, Reference)
  <2>1. CASE kind = "GSV"
    <3>1. PICK m : Common(lay, fields, m) /\ m \in 1..N
      BY <1>1, CommonExists, Zenon
    <3>2. Dated(lay, fields)
      BY <1>3, Zenon DEF Dated
    <3>3. PICK O : /\ Offsets(O, lay)
                   /\ Decoded(Values, Reference, lay, fields, O, m, Behind1(fields, m), Behind1(lay, m))
      BY <1>1, <3>1, <3>2, Decoding, Zenon
    <3>4. N = 19 /\ \A k \in 1..19 : lay[k] = FieldD
      BY <2>1, LayoutShapes, Zenon DEF Shaped
    <3>5. Sure(lay[m], fields[m], Behind1(fields, m), Behind1(lay, m))
      BY <3>1, <3>4, Zenon DEF Sure
    <3>6. QED BY <1>2, <3>1, <3>3, <3>5, DecodedPrefix, Zenon
  <2>2. CASE kind \in {"GGA", "GSA"}
    <3>1. N \in Nat /\ N \in 1..N /\ Len(Values) = N /\ (lay[N] = FieldD \/ lay[N] = FieldF)
      <4>1. CASE kind = "GGA"
        <5>1. N = 14 /\ lay[14] = FieldD
          BY <4>1, LayoutShapes, Zenon DEF Shaped
        <5>2. N \in Nat /\ N \in 1..N
          BY <5>1
        <5>3. QED BY <4>1, <5>1, <5>2, Zenon
      <4>2. CASE kind = "GSA"
        <5>1. N = 17 /\ lay[17] = FieldF
          BY <4>2, LayoutShapes, Zenon DEF Shaped
        <5>2. N \in Nat /\ N \in 1..N
          BY <5>1
        <5>3. QED BY <4>2, <5>1, <5>2, Zenon
      <4>3. QED BY <2>2, <4>1, <4>2, Zenon
    <3>2. PICK O : /\ Offsets(O, lay)
                   /\ Decoded(Values, Reference, lay, fields, O, N, Behind1(fields, N), Star)
      BY <1>1, <1>3, <3>1, PlainRead, Zenon
    <3>3. Sure(lay[N], fields[N], Behind1(fields, N), Star)
      BY <3>1, Zenon DEF Sure
    <3>4. QED BY <1>2, <3>1, <3>2, <3>3, DecodedPrefix, Zenon
  <2>3. QED BY <2>1, <2>2, Zenon
<1>5. LastChar(Reference) = Reference
  BY <1>1, LastCharPlain, Zenon
<1>6. QED BY <1>4, <1>5, Zenon

LEMMA LenOne == ASSUME NEW a, NEW b, <<a>> = <<b>> PROVE a = b
  OBVIOUS

\* VTG ends with a unit, which must be there.
LEMMA VTGDecodes ==
  ASSUME fields \in Seq(Seq(Char)), Len(fields) # 0, kind = "VTG", Len(Values) = 8, Values[8] = <<"K">>
  PROVE  IsPrefix(Values, LastChar(Reference))
<1> DEFINE lay == Layout[kind]
           z == Behind1(fields, 8)
<1>1. kind \in DOMAIN Layout /\ kind \in {"GGA", "GSA", "GSV", "VTG"} /\ kind # "RMC"
  <2>1. "VTG" # "RMC"
    OBVIOUS
  <2>2. QED BY <2>1, LayoutRecord, Zenon
<1>2. lay \in Seq(Shapes)
  BY <1>1, LayoutType, Zenon
<1>3. \A k \in 1..Len(lay) : lay[k] # FieldDate
  BY <1>1, Dateless, Zenon
<1>4. Len(lay) = 8 /\ lay[8] = FieldC
  BY LayoutShapes, Zenon DEF Shaped
<1>5. PICK O : /\ Offsets(O, lay) /\ O[8] + 1 = 8 /\ O[8 + 1] = 8
               /\ Decoded(Values, Reference, lay, fields, O, 8, z, Star)
  BY <1>1, <1>3, <1>4, PlainRead, Zenon
<1>6. 8 \in 1..Len(lay)
  BY <1>4
<1>7. Sure(lay[8], fields[8], z, Star)
  <2>1. CASE z = Star \/ Len(fields[8]) # 0
    BY <1>4, <2>1, Zenon DEF Sure
  <2>2. CASE z # Star /\ Len(fields[8]) = 0
    <3>1. z = Comma
      BY <2>2, Zenon DEF Behind1
    <3>2. ~(Len(Values) <= O[8])
      <4>1. O[8] \in Nat
        BY <1>2, <1>5, <1>6, OffsetsAt, Zenon
      <4>2. QED BY <1>5, <4>1
    <3>3. Values[O[8] + 1] = <<z>>
      BY <1>4, <1>5, <2>2, <3>2, Zenon DEF Decoded
    <3>4. <<"K">> = <<Comma>>
      BY <1>5, <3>1, <3>3, Zenon
    <3>5. "K" = Comma
      BY <3>4, LenOne, Zenon
    <3>6. QED BY <3>5 DEF Comma
  <2>3. QED BY <2>1, <2>2
<1>8. IsPrefix(Values, Reference)
  BY <1>2, <1>5, <1>6, <1>7, DecodedPrefix, Zenon
<1>9. LastChar(Reference) = Reference
  BY <1>1, LastCharPlain, Zenon
<1>10. QED BY <1>8, <1>9, Zenon

\* The places of an RMC: the date is three conversions.
RMCPlaces(O) ==
  /\ O[1] = 0 /\ O[2] = 1 /\ O[11] = 12 /\ O[12] = 13 /\ O[13] = 14
  /\ \A k \in 1..11 : O[k] \in Nat /\ O[k] <= 12

LEMMA RMCAt ==
  ASSUME NEW O, Offsets(O, Layout["RMC"])
  PROVE  RMCPlaces(O)
<1> DEFINE lay == Layout["RMC"]
<1>1. /\ lay \in Seq(Shapes) /\ Len(lay) = 12 /\ lay[1] = FieldS /\ lay[9] = FieldDate
      /\ lay[11] = FieldC /\ lay[12] = FieldC /\ Plain(lay, 2, 8) /\ Plain(lay, 10, 12)
  BY LayoutShapes, Zenon DEF Shaped
<1>2. Len(FieldDate) = 3 /\ Len(FieldC) = 1
  BY ShapeFacts, Zenon DEF Single
<1>3. \A k \in 1..8 : lay[k] # FieldDate
  <2>1. \A k \in 1..8 : k = 1 \/ k \in 2..8
    OBVIOUS
  <2>2. QED BY <1>1, <2>1, ShapesDiffer, Zenon DEF Plain
<1>4. lay[10] # FieldDate /\ lay[10] \in Shapes
  <2>1. 10 \in 10..12 /\ 10 \in 1..12
    OBVIOUS
  <2>2. lay[10] # FieldDate
    BY <1>1, <2>1, ShapesDiffer, Zenon DEF Plain
  <2>3. lay[10] \in Shapes
    BY <1>1, <2>1
  <2>4. QED BY <2>2, <2>3
<1>5. Len(lay[10]) = 1
  BY <1>4, ShapeTypes, Zenon
<1> HIDE DEF lay
<1>6. Offsets(O, lay)
  BY DEF lay
<1>7. \A k \in 1..9 : O[k] = k - 1
  <2>1. 8 \in Nat /\ 8 <= Len(lay) /\ 8 + 1 = 9
    BY <1>1
  <2>2. \A k \in 1..(8 + 1) : O[k] = k - 1
    BY ONLY <1>1, <1>3, <1>6, <2>1, OffsetsPlain
  <2>3. QED BY <2>2
<1>8. O[9] = 8 /\ O[1] = 0 /\ O[2] = 1
  BY <1>7
<1>9. \A k \in 1..12 : O[k + 1] = O[k] + Len(lay[k])
  BY <1>1, <1>6, Zenon DEF Offsets
<1>10. O[10] = 11 /\ O[11] = 12 /\ O[12] = 13 /\ O[13] = 14
  <2>1. O[9 + 1] = O[9] + 3 /\ O[10 + 1] = O[10] + 1 /\ O[11 + 1] = O[11] + 1 /\ O[12 + 1] = O[12] + 1
    <3>1. 9 \in 1..12 /\ 10 \in 1..12 /\ 11 \in 1..12 /\ 12 \in 1..12
      OBVIOUS
    <3>2. QED BY <1>1, <1>2, <1>5, <1>9, <3>1, Zenon
  <2>2. QED BY <1>8, <2>1
<1>11. \A k \in 1..11 : O[k] \in Nat /\ O[k] <= 12
  <2> TAKE k \in 1..11
  <2>1. k \in 1..9 \/ k = 10 \/ k = 11
    OBVIOUS
  <2>2. QED BY <1>7, <1>10, <2>1
<1>12. QED BY <1>8, <1>10, <1>11, Zenon DEF RMCPlaces

LEMMA NoMembers == ASSUME NEW T, NEW s \in Seq(T), Len(s) = 0 PROVE s = <<>>
  OBVIOUS

FieldCases(n, m) ==
  /\ m = 11 => n = 11 /\ ~(n > 12) /\ ~(m < n) /\ m < 12
  /\ m = 12 => n # 11 /\ ~(m < 12)
  /\ m = 12 /\ n = 12 => ~(m < n) /\ ~(n > 12)
  /\ m = 12 /\ n # 12 => m < n /\ n > 12
  /\ m \in 1..n

LEMMA FieldNumbers ==
  ASSUME NEW n \in Nat, NEW m, m = 11 \/ m = 12, m <= n, m = 12 \/ m = n
  PROVE  FieldCases(n, m)
  BY DEF FieldCases

LEMMA LastCharStar ==
  ASSUME NEW v, kind = "RMC", Len(fields) = 11, ~(Len(fields) > 12), fields[11] = <<>>
  PROVE  LastChar(v) = [v EXCEPT ![13] = <<"*">>]
  BY Zenon DEF LastChar

LEMMA LastCharComma ==
  ASSUME NEW v, kind = "RMC", Len(fields) # 11, Len(fields) > 12, fields[12] = <<>>
  PROVE  LastChar(v) = [v EXCEPT ![14] = <<",">>]
  BY Zenon DEF LastChar

\* RMC ends with one or two characters, which may be missing.
LEMMA RMCDecodes ==
  ASSUME fields \in Seq(Seq(Char)), Len(fields) # 0, kind = "RMC", Dated(Layout[kind], fields),
         Len(Values) \in {13, 14}
  PROVE  IsPrefix(Values, LastChar(Reference))
<1> DEFINE lay == Layout[kind]
           V == Values
           R == Reference
<1>1. kind \in DOMAIN Layout
  BY LayoutRecord, Zenon
<1>2. lay \in Seq(Shapes) /\ Len(lay) = 12 /\ lay[11] = FieldC /\ lay[12] = FieldC
  BY LayoutShapes, Zenon DEF Shaped
<1>3. PICK m : Common(lay, fields, m) /\ m \in 1..Len(lay)
  BY <1>1, CommonExists, Zenon
<1>4. PICK O : Offsets(O, lay) /\ Decoded(V, R, lay, fields, O, m, Behind1(fields, m), Behind1(lay, m))
  BY <1>1, <1>3, Decoding, Zenon
<1>5. RMCPlaces(O)
  BY <1>4, RMCAt, Zenon
<1>6. Len(V) \in Nat /\ Len(V) <= O[m + 1]
  BY <1>2, <1>3, <1>4, DecodedSize, Zenon
<1> HIDE DEF V, R
<1>7. m = 11 \/ m = 12
  <2>1. m \in 1..12
    BY <1>2, <1>3
  <2>2. ~(m + 1 \in 1..11)
    <3> SUFFICES ASSUME m + 1 \in 1..11 PROVE FALSE
      OBVIOUS
    <3> DEFINE n == Len(V)
               o == O[m + 1]
    <3>1. o \in Nat /\ o <= 12 /\ n <= o /\ n \in {13, 14}
      BY <1>5, <1>6, Zenon DEF RMCPlaces, V
    <3> HIDE DEF n, o
    <3>2. QED BY <3>1
  <2>3. QED BY <2>1, <2>2
<1>8. Len(fields) \in Nat /\ m <= Len(fields) /\ (m = 12 \/ m = Len(fields))
  <2>1. Len(fields) \in Nat
    OBVIOUS
  <2>2. QED BY <1>2, <1>3, <2>1, Zenon DEF Common
<1>9. m \in 1..Len(lay)
  BY <1>3
<1>12. /\ m = 11 => /\ Len(fields) = 11 /\ ~(Len(fields) > 12)
                    /\ ~(m < Len(fields)) /\ m < Len(lay)
       /\ m = 12 => Len(fields) # 11 /\ ~(m < Len(lay))
       /\ m = 12 /\ Len(fields) = 12 => ~(m < Len(fields)) /\ ~(Len(fields) > 12)
       /\ m = 12 /\ Len(fields) # 12 => m < Len(fields) /\ Len(fields) > 12
       /\ m \in 1..Len(fields)
  <2>1. FieldCases(Len(fields), m)
    BY <1>7, <1>8, FieldNumbers, Zenon
  <2>2. QED BY <1>2, <2>1, Zenon DEF FieldCases
<1>13. (m = 11 => O[m] + 1 = 13) /\ (m = 12 => O[m] + 1 = 14)
  <2>1. O[11] + 1 = 13 /\ O[12] + 1 = 14
    BY <1>5 DEF RMCPlaces
  <2>2. QED BY <2>1, Zenon
<1>10. CASE Len(fields[m]) # 0
  <2>1. Sure(lay[m], fields[m], Behind1(fields, m), Behind1(lay, m))
    BY <1>2, <1>7, <1>10, Zenon DEF Sure
  <2>2. IsPrefix(V, R)
    BY <1>2, <1>4, <1>9, <2>1, DecodedPrefix, Zenon
  <2>3. LastChar(R) = R
    <3>1. fields[m] # <<>>
      BY <1>10, EmptyIs, Zenon
    <3>2. CASE m = 11
      <4>1. Len(fields) = 11 /\ ~(Len(fields) > 12)
        BY <1>12, <3>2, Zenon
      <4>2. QED BY <3>1, <3>2, <4>1, LastCharPlain, Zenon
    <3>3. CASE m = 12
      <4>1. Len(fields) # 11
        BY <1>12, <3>3, Zenon
      <4>2. QED BY <3>1, <3>3, <4>1, LastCharPlain, Zenon
    <3>4. QED BY <1>7, <3>2, <3>3
  <2>4. QED BY <2>2, <2>3, Zenon DEF V, R
<1>11. CASE Len(fields[m]) = 0
  <2>0. fields[m] = <<>>
    <3>1. m \in 1..Len(fields)
      BY <1>12
    <3>2. fields[m] \in Seq(Char)
      BY <3>1
    <3>3. QED BY <1>11, <3>2, NoMembers, Zenon
  <2>1. CASE m = 11
    <3>1. Len(fields) = 11 /\ ~(m < Len(fields)) /\ m < Len(lay) /\ O[m] + 1 = 13
      BY <1>12, <1>13, <2>1, Zenon
    <3>2. Behind1(fields, m) = Star /\ Behind1(lay, m) = Comma /\ Star # Comma
      BY <3>1, Separators, Zenon DEF Behind1
    <3>3. lay[m] = FieldC
      BY <1>2, <2>1
    <3>4. IsPrefix(V, [R EXCEPT ![13] = <<Star>>])
      <4>1. IsPrefix(V, [R EXCEPT ![O[m] + 1] = <<Star>>])
        BY <1>2, <1>4, <1>9, <1>11, <3>2, <3>3, OpenPrefix, Zenon
      <4>2. QED BY <3>1, <4>1, Zenon
    <3>5. LastChar(R) = [R EXCEPT ![13] = <<"*">>]
      BY <1>12, <2>0, <2>1, <3>1, LastCharStar, Zenon
    <3>6. QED BY <3>4, <3>5, Zenon DEF V, R, Star
  <2>2. CASE m = 12 /\ Len(fields) = 12
    <3>1. ~(m < Len(fields)) /\ ~(m < Len(lay)) /\ Len(fields) # 11 /\ ~(Len(fields) > 12)
      BY <1>12, <2>2, Zenon
    <3>2. Sure(lay[m], fields[m], Behind1(fields, m), Behind1(lay, m))
      BY <3>1, Zenon DEF Behind1, Sure
    <3>3. IsPrefix(V, R)
      BY <1>2, <1>4, <1>9, <3>2, DecodedPrefix, Zenon
    <3>4. LastChar(R) = R
      BY <3>1, LastCharPlain, Zenon
    <3>5. QED BY <3>3, <3>4, Zenon DEF V, R
  <2>3. CASE m = 12 /\ Len(fields) # 12
    <3>1. m < Len(fields) /\ ~(m < Len(lay)) /\ Len(fields) # 11 /\ Len(fields) > 12 /\ O[m] + 1 = 14
      BY <1>12, <1>13, <2>3, Zenon
    <3>2. Behind1(fields, m) = Comma /\ Behind1(lay, m) = Star /\ Comma # Star
      BY <3>1, Separators, Zenon DEF Behind1
    <3>3. lay[m] = FieldC
      BY <1>2, <2>3
    <3>4. IsPrefix(V, [R EXCEPT ![14] = <<Comma>>])
      <4>1. IsPrefix(V, [R EXCEPT ![O[m] + 1] = <<Comma>>])
        BY <1>2, <1>4, <1>9, <1>11, <3>2, <3>3, OpenPrefix, Zenon
      <4>2. QED BY <3>1, <4>1, Zenon
    <3>5. LastChar(R) = [R EXCEPT ![14] = <<",">>]
      BY <2>0, <2>3, <3>1, LastCharComma, Zenon
    <3>6. QED BY <3>4, <3>5, Zenon DEF V, R, Comma
  <2>4. QED BY <1>7, <2>1, <2>2, <2>3
<1>14. QED BY <1>10, <1>11

\* What is accepted starts with '$' and holds what its fields say, one by one, up to
\* where nmea_scanf stopped, whatever stands in the other fields: an overlong or an
\* empty field never shifts the values behind it unnoticed.  The date of an RMC is
\* the exception, and the open character at the end of one.
THEOREM AcceptedAsSent == Spec => []AcceptedDecodes
<1>1. ScanfInv => AcceptedDecodes
  <2> SUFFICES ASSUME ScanfInv, ret = "1", DateOk
               PROVE  first = "$" /\ IsPrefix(Stored(kind, Text(fields), toks), LastChar(Reference))
    BY Zenon DEF AcceptedDecodes
  <2>1. kind \in DOMAIN Layout /\ fields \in Seq(Seq(Char)) /\ Len(fields) # 0
    BY Zenon DEF ScanfInv
  <2>2. DollarFound /\ toks = Tokens /\ Answers(TRUE)
    <3>1. "1" # "none" /\ "1" # "0"
      OBVIOUS
    <3>2. QED BY <3>1, Zenon DEF ScanfInv, Done, Accepted, Refused
  <2>3. Stored(kind, Text(fields), toks) = Values
    BY <2>2, Zenon DEF Values
  <2>4. IsPrefix(Values, LastChar(Reference))
    <3>1. CASE kind \in {"GGA", "GSA", "GSV"}
      <4>1. kind = "GGA" => Len(Values) = 14
        BY <2>2 DEF Answers
      <4>2. kind = "GSA" => Len(Values) = 17
        BY <2>2 DEF Answers
      <4>3. QED BY <2>1, <3>1, <4>1, <4>2, NumberDecodes, Zenon
    <3>2. CASE kind = "VTG"
      <4>1. Len(Values) = 8 /\ Values[8] = <<"K">>
        BY <2>2, <3>2, Zenon DEF Answers
      <4>2. QED BY <2>1, <3>2, <4>1, VTGDecodes, Zenon
    <3>3. CASE kind = "RMC"
      <4>1. Len(Values) \in {13, 14}
        BY <2>2, <3>3 DEF Answers
      <4>2. Dated(Layout[kind], fields)
        <5>1. /\ Len(Layout[kind]) = 12 /\ Layout[kind][1] = FieldS
              /\ Plain(Layout[kind], 2, 8) /\ Plain(Layout[kind], 10, 12)
          BY <3>3, LayoutShapes, Zenon DEF Shaped
        <5>2. \A a \in 1..12 : a = 1 \/ a \in 2..8 \/ a = 9 \/ a \in 10..12
          OBVIOUS
        <5>3. \A a \in 1..12 : Layout[kind][a] = FieldDate => a = 9
          BY <5>1, <5>2, ShapesDiffer, Zenon DEF Plain
        <5>4. Len(fields) >= 9 => Len(fields[9]) = 6
          BY <3>3 DEF DateOk
        <5>5. \A a \in 1..12 : a = 9 /\ a <= Len(fields) => Len(fields[a]) = 6
          BY <2>1, <5>4
        <5>6. QED BY <5>1, <5>3, <5>5, Zenon DEF Dated
      <4>3. QED BY <2>1, <3>3, <4>1, <4>2, RMCDecodes, Zenon
    <3>4. QED BY <2>1, <3>1, <3>2, <3>3, LayoutRecord, Zenon
  <2>5. first = "$"
    BY <2>2, Zenon DEF DollarFound, Differs
  <2>6. QED BY <2>3, <2>4, <2>5, Zenon
<1>2. QED BY <1>1, InvariantHolds, PTL
-----------------------------------------------------------------------------
(* The time of day.                                                        *)

FiveTurns(g, p, c, d) ==
  /\ Len(g) = 5 /\ g[1] = p /\ g[2] = p /\ g[3] = p /\ g[4] = c /\ g[5] = d

LEMMA FiveTurnsIs ==
  ASSUME NEW p, NEW c, NEW d, NEW g, g = <<p, p, p, c, d>>
  PROVE  FiveTurns(g, p, c, d)
  BY DEF FiveTurns

Starts(st, text, n, p) == st \in States /\ ~st.fail /\ st.pos = p /\ Len(st.toks) = n

\* The three pairs of digits that every time begins with.
LEMMA PairTurns ==
  ASSUME NEW text, Len(text) \in Nat, Len(text) >= 6, NEW format, Len(format) \in Nat, Len(format) >= 3,
         \A k \in 1..3 : format[k] = "2d", NEW t, Turns(t, text, format)
  PROVE  Starts(t[3], text, 3, 7)
<1>0. t[0] = StartState
  BY DEF Turns
<1>1. Starts(t[0], text, 0, 1)
  <2>1. StartState \in States /\ StartState.pos = 1 /\ ~StartState.fail /\ Len(StartState.toks) = 0
    BY DEF StartState, States
  <2>2. QED BY <1>0, <2>1, Zenon DEF Starts
<1>2. ASSUME NEW k \in 0..2, NEW p \in 1..5, NEW r, r = p + 2, Starts(t[k], text, k, p)
      PROVE  Starts(t[k + 1], text, k + 1, r)
  <2>1. k \in Nat /\ k + 1 <= Len(format) /\ k + 1 \in 1..3 /\ p \in Nat /\ p + 1 <= Len(text)
    BY <1>2
  <2>2. t[k + 1] = Turn(text, format, t[k], k + 1)
    BY <2>1, TurnAt
  <2>3. format[k + 1] = "2d"
    BY <2>1, Zenon
  <2>4. t[k] \in States /\ ~t[k].fail /\ t[k].pos = p /\ Len(t[k].toks) = k
    BY <1>2, Zenon DEF Starts
  <2> DEFINE st == t[k]
             new == t[k + 1]
  <2>5. /\ new = Turn(text, format, st, k + 1) /\ st \in States /\ ~st.fail /\ st.pos = p
        /\ Len(text) \in Nat /\ r = p + 2
    BY <1>2, <2>2, <2>4
  <2> HIDE DEF st, new
  <2>6. new \in States /\ ~new.fail /\ new.pos = r /\ Appended(new.toks, st.toks, p, r)
    BY ONLY <2>1, <2>3, <2>5, PairTurn
  <2>7. Len(new.toks) = k + 1
    BY <2>4, <2>6, Zenon DEF Appended, st
  <2>8. QED BY <2>6, <2>7, Zenon DEF Starts, new
<1>3. Starts(t[0 + 1], text, 0 + 1, 3)
  <2>1. 0 \in 0..2 /\ 1 \in 1..5 /\ 3 = 1 + 2
    OBVIOUS
  <2>2. QED BY <1>1, <1>2, <2>1, Zenon
<1>4. Starts(t[1 + 1], text, 1 + 1, 5)
  <2>1. 1 \in 0..2 /\ 3 \in 1..5 /\ 5 = 3 + 2 /\ 0 + 1 = 1
    OBVIOUS
  <2>2. QED BY <1>2, <1>3, <2>1, Zenon
<1>5. Starts(t[2 + 1], text, 2 + 1, 7)
  <2>1. 2 \in 0..2 /\ 5 \in 1..5 /\ 7 = 5 + 2 /\ 1 + 1 = 2
    OBVIOUS
  <2>2. QED BY <1>2, <1>4, <2>1, Zenon
<1>6. 2 + 1 = 3
  OBVIOUS
<1>7. QED BY <1>5, <1>6, Zenon

PairFormat == <<"2d", "2d", "2d">>
TimeFormat == <<"2d", "2d", "2d", ".", "d">>

\* A time without and with decimals of the second is read completely.
LEMMA TimeRead ==
  ASSUME NEW f \in Seq(Char), Len(f) = 6 \/ (Len(f) \in 8..10 /\ f[7] = ".")
  PROVE  TimeScans(f)
<1>1. CASE Len(f) = 6
  <2>1. Len(PairFormat) = 3 /\ \A j \in 1..3 : PairFormat[j] = "2d"
    BY TripleIs, Zenon DEF PairFormat
  <2>2. Len(f) \in Nat /\ Len(f) >= 6 /\ Len(PairFormat) \in Nat /\ Len(PairFormat) >= 3
    BY <1>1, <2>1
  <2>3. PICK t : Turns(t, f, PairFormat) /\ nmea_scanf(f, PairFormat) = t[Len(PairFormat)].toks
    BY <2>2, ScanfUnfold, Zenon
  <2>4. Starts(t[3], f, 3, 7)
    BY <2>1, <2>2, <2>3, PairTurns, Zenon
  <2>5. Len(nmea_scanf(f, PairFormat)) = 3
    BY <2>1, <2>3, <2>4, Zenon DEF Starts
  <2>6. 6 \notin 8..10
    OBVIOUS
  <2>7. QED BY <1>1, <2>5, <2>6, Zenon DEF TimeScans, PairFormat
<1>2. CASE Len(f) \in 8..10 /\ f[7] = "."
  <2> DEFINE g == TimeFormat
  <2>1. FiveTurns(g, "2d", ".", "d")
    BY FiveTurnsIs, Zenon DEF TimeFormat
  <2>2. /\ Len(g) = 5 /\ g[4] = "." /\ g[5] = "d" /\ g[1] = "2d" /\ g[2] = "2d" /\ g[3] = "2d"
    BY <2>1, Zenon DEF FiveTurns
  <2> HIDE DEF g
  <2>3. \A k \in 1..3 : g[k] = "2d"
    <3>1. \A k \in 1..3 : k = 1 \/ k = 2 \/ k = 3
      OBVIOUS
    <3>2. QED BY <2>2, <3>1, Zenon
  <2>4. Len(f) \in Nat /\ Len(f) >= 6 /\ Len(g) \in Nat /\ Len(g) >= 3
    BY <1>2, <2>2
  <2>5. PICK t : Turns(t, f, g) /\ nmea_scanf(f, g) = t[Len(g)].toks
    BY <2>4, ScanfUnfold, Zenon
  <2>6. Starts(t[3], f, 3, 7)
    BY <2>3, <2>4, <2>5, PairTurns, Zenon
  <2>7. t[4] = Turn(f, g, t[3], 4) /\ t[5] = Turn(f, g, t[4], 5)
    <3>1. 4 \in 1..Len(g) /\ 5 \in 1..Len(g) /\ 4 - 1 = 3 /\ 5 - 1 = 4
      BY <2>2
    <3>2. \A k \in 1..Len(g) : t[k] = Turn(f, g, t[k - 1], k)
      BY <2>5, Zenon DEF Turns
    <3>3. t[4] = Turn(f, g, t[4 - 1], 4) /\ t[5] = Turn(f, g, t[5 - 1], 5)
      BY <3>1, <3>2, Zenon
    <3>4. QED BY <3>1, <3>3
  <2>8. t[3] \in States /\ ~t[3].fail /\ t[3].pos = 7 /\ Len(t[3].toks) = 3
    BY <2>6, Zenon DEF Starts
  <2>9. "." \notin Conversions /\ "d" \in Conversions
    BY DEF Conversions
  <2> DEFINE n == Len(f)
             u == t[4]
             w == t[5]
  <2>10. n \in 8..10
    BY <1>2
  <2>11. Compared(t[3], u, f, g, 4)
    <3>1. ~Stopped(t[3], f)
      <4> HIDE DEF n
      <4>1. ~(7 > n)
        BY <2>10
      <4>2. QED BY <2>8, <4>1, Zenon DEF Stopped, n
    <3>2. QED BY <2>2, <2>7, <2>8, <2>9, <3>1, TurnLiteral, Zenon
  <2>12. u \in States /\ ~u.fail /\ u.pos = 8 /\ Len(u.toks) = 3
    <3>1. u \in States /\ u.pos = 7 + 1 /\ u.toks = t[3].toks /\ u.fail = (f[7] # ".")
      BY <2>2, <2>8, <2>11, Zenon DEF Compared
    <3>2. 7 + 1 = 8
      OBVIOUS
    <3>3. QED BY <1>2, <2>8, <3>1, <3>2, Zenon
  <2>13. PICK e \in Nat : Takes(u, w, f, g, 5, e)
    <3>1. ~Stopped(u, f)
      <4> HIDE DEF n
      <4>1. ~(8 > n)
        BY <2>10
      <4>2. QED BY <2>12, <4>1, Zenon DEF Stopped, n
    <3>2. QED BY <2>2, <2>4, <2>7, <2>9, <2>12, <3>1, TurnToken, Zenon
  <2>14. e <= Len(f) + 1
    <3>1. Ends(f, u.pos, "d", After(g, 5), e)
      BY <2>2, <2>13, Zenon DEF Takes
    <3>2. "d" # "2d" /\ "d" # "C"
      OBVIOUS
    <3>3. Found(f, u.pos, After(g, 5), e)
      BY <3>1, <3>2, Zenon DEF Ends
    <3>4. QED BY <3>3, Zenon DEF Found
  <2>15. w.toks = Append(u.toks, <<u.pos, e>>)
    BY <2>13, <2>14, Zenon DEF Takes
  <2>16. Len(w.toks) = 4
    <3>1. u.toks \in Seq(Nat \X Nat) /\ u.pos \in Nat
      BY <2>12, StateFields, Zenon
    <3>2. Appended(w.toks, u.toks, u.pos, e)
      BY <2>13, <2>15, <3>1, AppendIs, Zenon
    <3>3. Len(w.toks) = Len(u.toks) + 1
      BY <3>2, Zenon DEF Appended
    <3>4. 3 + 1 = 4
      OBVIOUS
    <3>5. QED BY <2>12, <3>3, <3>4, Zenon
  <2>17. Len(nmea_scanf(f, g)) = 4
    BY <2>2, <2>5, <2>16, Zenon
  <2>18. Len(f) # 6
    <3> HIDE DEF n
    <3>1. n # 6
      BY <2>10
    <3>2. QED BY <3>1, Zenon DEF n
  <2>19. QED BY <1>2, <2>17, <2>18, Zenon DEF TimeScans, g, TimeFormat
<1>3. QED BY <1>1, <1>2
-----------------------------------------------------------------------------
(* A sentence of the right shape is read to its end.                       *)

RightRead(m, O) ==
  /\ Offsets(O, Layout[kind]) /\ m \in 1..Len(Layout[kind])
  /\ m = Len(Layout[kind]) \/ (kind = "RMC" /\ m = 11)
  /\ Says(Reference, Layout[kind], fields, O, m) /\ Agrees(Values, Reference, O[m])
  /\ Len(Values) = O[m + 1]
  /\ Sure(Layout[kind][m], fields[m], Behind1(fields, m), Behind1(Layout[kind], m)) =>
        Agrees(Values, Reference, O[m + 1])

LEMMA WellRead ==
  ASSUME kind \in DOMAIN Layout, fields \in Seq(Seq(Char)), Len(fields) # 0, WellFormed
  PROVE  \E m, O : RightRead(m, O)
<1> DEFINE lay == Layout[kind]
           l == Len(lay)
           n == Len(fields)
<1>1. lay \in Seq(Shapes) /\ l \in Nat /\ n \in Nat
  BY LayoutType
<1>2. PICK m : Common(lay, fields, m) /\ m \in 1..Len(lay)
  BY CommonExists, Zenon
<1>3. \A k \in 1..m : FieldOk(k)
  BY <1>2, ReadIs, Zenon DEF WellFormed
<1>4. m \in Nat /\ m <= l /\ m <= n /\ (m = l \/ m = n)
  BY <1>2, Zenon DEF Common
<1>5. LengthOk /\ (kind = "RMC" => l = 12)
  <2>1. kind = "RMC" => l = 12
    BY LayoutShapes, Zenon DEF Shaped
  <2>2. QED BY <2>1, Zenon DEF WellFormed
<1>6. m = l \/ (kind = "RMC" /\ m = 11)
  <2>1. n >= l \/ (kind = "RMC" /\ n = 11)
    BY <1>5, Zenon DEF LengthOk
  <2> HIDE DEF l, n
  <2>2. QED BY <1>1, <1>4, <1>5, <2>1
<1>7. Dated(lay, fields)
  <2> SUFFICES ASSUME NEW a \in 1..Len(lay), a <= Len(fields), lay[a] = FieldDate PROVE Len(fields[a]) = 6
    BY Zenon DEF Dated
  <2>1. Len(lay[a]) = 3
    BY ShapeFacts, Zenon
  <2>2. a \in 1..m
    <3>1. a \in 1..l /\ a <= n
      OBVIOUS
    <3> HIDE DEF l, n
    <3>2. QED BY <1>1, <1>4, <3>1
  <2>3. QED BY <1>3, <2>1, <2>2, Zenon DEF FieldOk
<1>8. PICK O : /\ Offsets(O, lay)
               /\ Decoded(Values, Reference, lay, fields, O, m, Behind1(fields, m), Behind1(lay, m))
  BY <1>2, <1>7, Decoding, Zenon
<1>9. \A b \in 1..(m - 1) : ~Overlong(lay[b], fields[b])
  <2> TAKE b \in 1..(m - 1)
  <2>1. b \in 1..m
    BY <1>4
  <2>2. FieldOk(b)
    BY <1>3, <2>1, Zenon
  <2>3. lay[b] = FieldC => Len(fields[b]) <= 1
    BY <2>2, Zenon DEF FieldOk, FieldC
  <2>4. b \in 1..n
    BY <1>4
  <2>5. fields[b] \in Seq(Char)
    BY <2>4
  <2> DEFINE x == Len(fields[b])
  <2>6. x \in Nat
    BY <2>5
  <2> HIDE DEF x
  <2>7. x <= 1 => ~(x > 1)
    BY <2>6
  <2>8. QED BY <2>3, <2>7, Zenon DEF Overlong, x
<1>10. RightRead(m, O)
  BY <1>2, <1>6, <1>8, <1>9, Zenon DEF RightRead, Decoded
<1>11. QED BY <1>10, Zenon

\* What a field of one conversion says.
SaysAt(R, i, c, f) == R[i] = Value(c, f)

LEMMA SaysValue ==
  ASSUME NEW R, NEW lay, NEW flds, NEW O, NEW m, Says(R, lay, flds, O, m), NEW k \in 1..m,
         NEW c, Single(lay[k], c)
  PROVE  SaysAt(R, O[k] + 1, c, flds[k])
<1>1. Len(lay[k]) = 1 /\ lay[k][1] = c
  BY Zenon DEF Single
<1>2. 1 \in 1..Len(lay[k])
  BY <1>1
<1>3. R[O[k] + 1] = SaidBy(lay[k], flds[k], 1)
  BY <1>2, Zenon DEF Says
<1>4. QED BY <1>1, <1>3, Zenon DEF SaidBy, SaysAt

\* A sentence that begins with the time is accepted for it.
LEMMA TimeAccepted ==
  ASSUME kind \in DOMAIN Layout, fields \in Seq(Seq(Char)), Len(fields) # 0, WellFormed,
         NEW m, NEW O, RightRead(m, O), 1 <= m, 1 <= O[m], O[m] \in Nat, O[m] <= Len(Values),
         Layout[kind][1] = FieldS
  PROVE  _nmea_parse_time(Values[1]) = {TRUE}
<1> DEFINE f == fields[1]
<1>1. 1 \in 1..m /\ O[1] + 1 = 1 /\ 1 <= Len(Values) /\ 1 \in 1..O[m] /\ f \in Seq(Char) /\ m \in Nat
  <2>1. m \in 1..Len(Layout[kind]) /\ O[1] = 0
    BY Zenon DEF RightRead, Offsets
  <2>2. Len(Layout[kind]) \in Nat
    BY LayoutType
  <2>3. Len(Values) = O[m + 1] /\ Offsets(O, Layout[kind])
    BY Zenon DEF RightRead
  <2>4. O[m + 1] \in Nat
    BY <2>1, <2>3, LayoutType, OffsetsAt, Zenon
  <2> DEFINE v == Len(Values)
             o == O[m]
             l == Len(Layout[kind])
  <2>5. v \in Nat /\ o \in Nat /\ o <= v /\ 1 <= o
    BY <2>3, <2>4
  <2>6. f \in Seq(Char)
    OBVIOUS
  <2> HIDE DEF v, o, l, f
  <2>7. 1 <= v /\ 1 \in 1..o
    BY <2>5
  <2>8. 1 \in 1..m /\ m \in Nat
    BY <2>1, <2>2
  <2>9. O[1] + 1 = 1
    BY <2>1
  <2>10. QED BY <2>6, <2>7, <2>8, <2>9, Zenon DEF v, o
<1>2. Values[1] = Reference[1]
  BY <1>1, Zenon DEF RightRead, Agrees
<1>3. Reference[1] = Value("s", f)
  <2>1. Single(Layout[kind][1], "s")
    BY ShapeFacts, Zenon
  <2>2. Says(Reference, Layout[kind], fields, O, m)
    BY Zenon DEF RightRead
  <2>3. SaysAt(Reference, O[1] + 1, "s", f)
    BY <1>1, <2>1, <2>2, SaysValue, Zenon
  <2>4. QED BY <1>1, <2>3, Zenon DEF SaysAt
<1>4. Len(f) = 6 \/ (Len(f) \in 8..10 /\ f[7] = ".")
  <2>1. 1 \in Read
    <3>1. 1 \in DOMAIN fields
      <4> DEFINE n == Len(fields)
      <4>1. n \in Nat /\ n # 0 /\ DOMAIN fields = 1..n
        OBVIOUS
      <4> HIDE DEF n
      <4>2. QED BY ONLY <4>1
    <3>2. 1 <= Len(Layout[kind])
      BY LayoutType
    <3>3. QED BY <3>1, <3>2, Zenon DEF Read
  <2>2. FieldOk(1)
    BY <2>1, Zenon DEF WellFormed
  <2>3. QED BY <2>2, Zenon DEF FieldOk, FieldS
<1> HIDE DEF f
<1>5. f # <<>> /\ f # Unset
  <2>1. Len(Unset) = 1
    BY DEF Unset
  <2>2. Len(<<>>) = 0
    OBVIOUS
  <2>3. Len(f) # 0 /\ Len(f) # 1
    <3> DEFINE n == Len(f)
    <3>1. n = 6 \/ n \in 8..10
      BY <1>4, Zenon
    <3> HIDE DEF n
    <3>2. n # 0 /\ n # 1
      BY <3>1
    <3>3. QED BY <3>2, Zenon DEF n
  <2>4. QED BY <2>1, <2>2, <2>3, Zenon
<1>6. Values[1] = f
  BY <1>2, <1>3, <1>5, ValueIs, Zenon
<1>7. TimeScans(f)
  BY <1>1, <1>4, TimeRead, Zenon
<1>8. QED BY <1>5, <1>6, <1>7, Zenon DEF _nmea_parse_time

\* Without a date every field has one place.
InPlaces(N, m, O) == m = N /\ Len(Values) = N /\ \A k \in 1..(N + 1) : O[k] = k - 1

LEMMA PlainPlaces ==
  ASSUME kind \in {"GGA", "GSA", "GSV", "VTG"}, kind \in DOMAIN Layout, NEW m, NEW O, RightRead(m, O)
  PROVE  InPlaces(Len(Layout[kind]), m, O)
<1> DEFINE lay == Layout[kind]
           N == Len(lay)
<1>1. lay \in Seq(Shapes) /\ N \in Nat
  BY LayoutType
<1>2. kind # "RMC"
  <2>1. "GGA" # "RMC" /\ "GSA" # "RMC" /\ "GSV" # "RMC" /\ "VTG" # "RMC"
    OBVIOUS
  <2>2. QED BY <2>1, Zenon
<1>3. m = N /\ Offsets(O, lay) /\ Len(Values) = O[N + 1]
  BY <1>2, Zenon DEF RightRead
<1>4. \A k \in 1..N : lay[k] # FieldDate
  BY Dateless, Zenon
<1> HIDE DEF lay
<1>5. N <= Len(lay)
  BY <1>1
<1>6. \A k \in 1..(N + 1) : O[k] = k - 1
  BY ONLY <1>1, <1>3, <1>4, <1>5, OffsetsPlain, Zenon
<1> HIDE DEF N
<1>7. N + 1 \in 1..(N + 1) /\ (N + 1) - 1 = N
  BY <1>1
<1>8. Len(Values) = N
  BY <1>3, <1>6, <1>7, Zenon
<1>9. QED BY <1>3, <1>6, <1>8, Zenon DEF InPlaces, N, lay

LEMMA GGAAccepted ==
  ASSUME kind = "GGA", kind \in DOMAIN Layout, fields \in Seq(Seq(Char)), Len(fields) # 0, WellFormed,
         NEW m, NEW O, RightRead(m, O)
  PROVE  ~Answers(FALSE)
<1>1. InPlaces(Len(Layout[kind]), m, O)
  BY PlainPlaces, Zenon
<1>2. Len(Layout[kind]) = 14 /\ Layout[kind][1] = FieldS
  BY LayoutShapes, Zenon DEF Shaped
<1>3. m = 14 /\ Len(Values) = 14 /\ \A k \in 1..(14 + 1) : O[k] = k - 1
  BY <1>1, <1>2, Zenon DEF InPlaces
<1>4. O[14] = 13
  <2>1. 14 \in 1..(14 + 1) /\ 14 - 1 = 13
    OBVIOUS
  <2>2. QED BY <1>3, <2>1, Zenon
<1>5. 1 <= m /\ 1 <= O[m] /\ O[m] \in Nat /\ O[m] <= Len(Values)
  <2>1. 1 <= 14 /\ 1 <= 13 /\ 13 \in Nat /\ 13 <= 14
    OBVIOUS
  <2>2. QED BY <1>3, <1>4, <2>1, Zenon
<1>6. _nmea_parse_time(Values[1]) = {TRUE}
  BY <1>2, <1>5, TimeAccepted, Zenon
<1>7. QED BY <1>3, <1>6, Zenon DEF Answers

LEMMA RMCAccepted ==
  ASSUME kind = "RMC", kind \in DOMAIN Layout, fields \in Seq(Seq(Char)), Len(fields) # 0, WellFormed,
         NEW m, NEW O, RightRead(m, O)
  PROVE  ~Answers(FALSE)
<1>1. Len(Layout[kind]) = 12 /\ Layout[kind][1] = FieldS
  BY LayoutShapes, Zenon DEF Shaped
<1>2. RMCPlaces(O)
  BY RMCAt, Zenon DEF RightRead
<1>3. (m = 12 \/ m = 11) /\ Len(Values) = O[m + 1]
  BY <1>1, Zenon DEF RightRead
<1>4. Len(Values) \in {13, 14} /\ 1 <= m /\ 1 <= O[m] /\ O[m] \in Nat /\ O[m] <= Len(Values)
  <2>1. O[11] = 12 /\ O[12] = 13 /\ O[13] = 14
    BY <1>2, Zenon DEF RMCPlaces
  <2>2. 12 + 1 = 13 /\ 11 + 1 = 12 /\ 1 <= 11 /\ 1 <= 12 /\ 1 <= 13 /\ 12 <= 13 /\ 13 <= 14 /\ 12 \in Nat /\ 13 \in Nat
    OBVIOUS
  <2>3. CASE m = 12
    <3>1. Len(Values) = 14 /\ O[m] = 13
      BY <1>3, <2>1, <2>2, <2>3, Zenon
    <3>2. QED BY <2>2, <2>3, <3>1, Zenon
  <2>4. CASE m = 11
    <3>1. Len(Values) = 13 /\ O[m] = 12
      BY <1>3, <2>1, <2>2, <2>4, Zenon
    <3>2. QED BY <2>2, <2>4, <3>1, Zenon
  <2>5. QED BY <1>3, <2>3, <2>4
<1>5. _nmea_parse_time(Values[1]) = {TRUE}
  BY <1>1, <1>4, TimeAccepted, Zenon
<1>6. QED BY <1>4, <1>5, Zenon DEF Answers

\* A unit of a VTG.
Unit(lay, flds, O, m, k, u) ==
  k \in 1..m /\ k \in 1..8 /\ O[k] = k - 1 /\ lay[k] = FieldC /\ flds[k] = <<u>>

Holds(V, k, u) == V[k] = <<u>>
AllRight(V, R, lay, flds, O, m) == Says(R, lay, flds, O, m) /\ Agrees(V, R, 8) /\ Len(V) = 8

LEMMA UnitRead ==
  ASSUME NEW V, NEW R, NEW lay, NEW flds, NEW O, NEW m, AllRight(V, R, lay, flds, O, m),
         NEW k, NEW u, Unit(lay, flds, O, m, k, u)
  PROVE  Holds(V, k, u)
<1>0. k \in 1..m /\ k \in 1..8 /\ O[k] = k - 1 /\ lay[k] = FieldC /\ flds[k] = <<u>>
  BY Zenon DEF Unit
<1>1. k <= Len(V) /\ O[k] + 1 = k
  BY <1>0 DEF AllRight
<1>2. V[k] = R[k]
  BY <1>0, <1>1, Zenon DEF Agrees, AllRight
<1>3. SaysAt(R, O[k] + 1, "C", flds[k])
  BY <1>0, SaysValue, ShapeFacts, Zenon DEF AllRight
<1>4. R[k] = Value("C", flds[k])
  BY <1>1, <1>3, Zenon DEF SaysAt
<1>5. flds[k] # <<>> /\ flds[k][1] = u
  BY ONLY <1>0
<1>6. V[k] = <<u>>
  BY <1>2, <1>4, <1>5, ValueChar, Zenon
<1>7. QED BY <1>6, Zenon DEF Holds

LEMMA VTGAccepted ==
  ASSUME kind = "VTG", kind \in DOMAIN Layout, fields \in Seq(Seq(Char)), Len(fields) # 0, WellFormed,
         NEW m, NEW O, RightRead(m, O)
  PROVE  ~Answers(FALSE)
<1> DEFINE lay == Layout[kind]
<1>1. InPlaces(Len(lay), m, O)
  BY PlainPlaces, Zenon
<1>2. Len(lay) = 8 /\ lay[2] = FieldC /\ lay[4] = FieldC /\ lay[6] = FieldC /\ lay[8] = FieldC
  BY LayoutShapes, Zenon DEF Shaped
<1>3. m = 8 /\ Len(Values) = 8 /\ \A k \in 1..(8 + 1) : O[k] = k - 1
  BY <1>1, <1>2, Zenon DEF InPlaces
<1>4. fields[2] = <<"T">> /\ fields[4] = <<"M">> /\ fields[6] = <<"N">> /\ fields[8] = <<"K">>
  <2> DEFINE q == <<"T", "M", "N", "K">>
  <2>1. \A k \in 1..4 : fields[2 * k] = <<q[k]>>
    BY Zenon DEF WellFormed, UnitsOk
  <2>2. q[1] = "T" /\ q[2] = "M" /\ q[3] = "N" /\ q[4] = "K"
    OBVIOUS
  <2>3. 1 \in 1..4 /\ 2 \in 1..4 /\ 3 \in 1..4 /\ 4 \in 1..4 /\ 2 * 1 = 2 /\ 2 * 2 = 4 /\ 2 * 3 = 6 /\ 2 * 4 = 8
    OBVIOUS
  <2> HIDE DEF q
  <2>4. fields[2 * 1] = <<q[1]>> /\ fields[2 * 2] = <<q[2]>> /\ fields[2 * 3] = <<q[3]>> /\ fields[2 * 4] = <<q[4]>>
    BY <2>1, <2>3, Zenon
  <2>5. QED BY <2>2, <2>3, <2>4, Zenon
<1>5. Agrees(Values, Reference, 8) /\ Says(Reference, lay, fields, O, m)
  <2>1. Len(fields[8]) # 0
    <3>1. Len(<<"K">>) # 0
      OBVIOUS
    <3>2. QED BY <1>4, <3>1, Zenon
  <2>2. Sure(lay[m], fields[m], Behind1(fields, m), Behind1(lay, m))
    BY <1>2, <1>3, <2>1, Zenon DEF Sure
  <2>3. O[m + 1] = 8
    BY <1>3, Zenon DEF RightRead
  <2>4. QED BY <2>2, <2>3, Zenon DEF RightRead
<1>6. \A k \in 1..8 : k \in 1..m /\ O[k] = k - 1
  BY <1>3
<1>7. 2 \in 1..8 /\ 4 \in 1..8 /\ 6 \in 1..8 /\ 8 \in 1..8
  OBVIOUS
<1> HIDE DEF lay
<1>8. Values[2] = <<"T">> /\ Values[4] = <<"M">> /\ Values[6] = <<"N">> /\ Values[8] = <<"K">>
  <2>1. /\ Unit(lay, fields, O, m, 2, "T") /\ Unit(lay, fields, O, m, 4, "M")
        /\ Unit(lay, fields, O, m, 6, "N") /\ Unit(lay, fields, O, m, 8, "K")
    BY <1>2, <1>4, <1>6, <1>7, Zenon DEF Unit
  <2>2. ASSUME NEW k, NEW u, Unit(lay, fields, O, m, k, u) PROVE Holds(Values, k, u)
    <3>1. AllRight(Values, Reference, lay, fields, O, m)
      BY <1>3, <1>5, Zenon DEF AllRight
    <3>2. QED BY ONLY <2>2, <3>1, UnitRead, Zenon
  <2>3. QED BY <2>1, <2>2, Zenon DEF Holds
<1>9. QED BY <1>3, <1>8, Zenon DEF Answers

\* A sentence that starts with '$' and has all its fields, or an RMC without its last
\* one, is accepted when the time and the date have their lengths, characters are
\* single and the units of a VTG are the four that its handler asks for; numbers and
\* the other characters may be empty.  The handlers reject nothing of that shape.
THEOREM WellFormedAccepted == Spec => []GoodAccepted
<1>1. ScanfInv => GoodAccepted
  <2> SUFFICES ASSUME ScanfInv, WellFormed, ret = "0" PROVE FALSE
    BY Zenon DEF GoodAccepted
  <2>1. kind \in DOMAIN Layout /\ fields \in Seq(Seq(Char)) /\ Len(fields) # 0
    BY Zenon DEF ScanfInv
  <2>2. Answers(FALSE)
    <3>1. "0" # "none" /\ "0" # "1"
      OBVIOUS
    <3>2. DollarFound
      BY Zenon DEF WellFormed, DollarFound, Differs
    <3>3. QED BY <3>1, <3>2, Zenon DEF ScanfInv, Done, Accepted, Refused
  <2>3. PICK m, O : RightRead(m, O)
    BY <2>1, WellRead, Zenon
  <2>4. CASE kind = "GGA"
    BY <2>1, <2>2, <2>3, <2>4, GGAAccepted, Zenon
  <2>5. CASE kind = "RMC"
    BY <2>1, <2>2, <2>3, <2>5, RMCAccepted, Zenon
  <2>6. CASE kind = "VTG"
    BY <2>1, <2>2, <2>3, <2>6, VTGAccepted, Zenon
  <2>7. CASE kind = "GSA" \/ kind = "GSV"
    <3>1. InPlaces(Len(Layout[kind]), m, O)
      BY <2>1, <2>3, <2>7, PlainPlaces, Zenon
    <3>2. (kind = "GSA" => Len(Values) = 17) /\ (kind = "GSV" => Len(Values) = 19)
      BY <3>1, LayoutShapes, Zenon DEF InPlaces, Shaped
    <3>3. QED BY <2>2, <2>7, <3>2, Zenon DEF Answers
  <2>8. QED BY <2>1, <2>4, <2>5, <2>6, <2>7, LayoutRecord, Zenon
<1>2. QED BY <1>1, InvariantHolds, PTL
=============================================================================
