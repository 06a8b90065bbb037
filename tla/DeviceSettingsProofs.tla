------------------------ MODULE DeviceSettingsProofs ------------------------
(***************************************************************************)
(* Proofs about DeviceSettings, for any sensors, presets, option sets and  *)
(* messages.  First what the conversions compute: flattening, the numbers  *)
(* in bytes, the packets in a payload; then what a program that asks is    *)
(* told, and what its callbacks get: the invariant Inv, action by action.  *)
(***************************************************************************)
EXTENDS DeviceSettings, SequenceTheorems, WellFoundedInduction, TLAPS

----------------------------------------------------------------------------
\* Induction.

\* A set of natural numbers up to some bound that contains each number below
\* which it contains all contains them all.
LEMMA AllBelow ==
  ASSUME NEW n \in Nat, NEW P \in SUBSET (0 .. n),
         \A i \in 0 .. n : (\A j \in 0 .. i - 1 : j \in P) => i \in P
  PROVE  P = 0 .. n
<1> SUFFICES ASSUME P # 0 .. n PROVE FALSE
  OBVIOUS
<1> DEFINE Bad == (0 .. n) \ P
<1>1. Bad # {} /\ Bad \in SUBSET Nat
  <2>1. 0 .. n \in SUBSET Nat
    OBVIOUS
  <2> QED BY <2>1, Zenon
<1>2. PICK i \in Bad : \A m \in Bad : ~(<<m, i>> \in OpToRel(<, Nat))
  BY <1>1, NatLessThanWellFounded, WFMin, Zenon
<1>3. \A m \in Bad : ~(m < i)
  BY <1>1, <1>2 DEF OpToRel
<1>4. i \in 0 .. n /\ \A j \in 0 .. i - 1 : j \in P
  BY <1>3
<1> QED BY <1>4

\* ... or that contains zero, and the successor of each.
LEMMA Upward ==
  ASSUME NEW n \in Nat, NEW P \in SUBSET (0 .. n), 0 \in P,
         \A i \in 0 .. n - 1 : i \in P => i + 1 \in P
  PROVE  P = 0 .. n
<1>1. ASSUME NEW i \in 0 .. n, \A j \in 0 .. i - 1 : j \in P PROVE i \in P
  <2>1. CASE i = 0
    BY <2>1
  <2>2. CASE i # 0
    <3>1. i - 1 \in 0 .. i - 1 /\ i - 1 \in 0 .. n - 1 /\ (i - 1) + 1 = i
      BY <2>2
    <3> QED BY <3>1, <1>1
  <2> QED BY <2>1, <2>2
<1> QED BY <1>1, AllBelow

\* A table that is filled from zero upwards, each entry from the one before it.
Filled(f, n, V, first, step) ==
  /\ f \in [0 .. n -> V] /\ f[0] = first
  /\ \A i \in 1 .. n : f[i] = step[i][f[i - 1]]

Steps(step, n, V) == \A i \in 1 .. n : \A v \in V : step[i][v] \in V

LEMMA TableExists ==
  ASSUME NEW n \in Nat, NEW V, NEW first \in V, NEW step, Steps(step, n, V)
  PROVE  \E f : Filled(f, n, V, first, step)
<1> USE DEF Filled, Steps
<1> DEFINE P == {k \in 0 .. n : \E f : Filled(f, k, V, first, step)}
<1>1. 0 \in P
  <2> DEFINE f == [i \in 0 .. 0 |-> first]
  <2>1. Filled(f, 0, V, first, step)
    OBVIOUS
  <2> HIDE DEF f
  <2>2. \E g : Filled(g, 0, V, first, step)
    BY <2>1
  <2> QED BY <2>2
<1>2. ASSUME NEW k \in 0 .. n - 1, k \in P PROVE k + 1 \in P
  <2>1. PICK g : Filled(g, k, V, first, step)
    BY <1>2
  <2>2. g[k] \in V /\ k + 1 \in 1 .. n /\ step[k + 1][g[k]] \in V
    BY <2>1
  <2> DEFINE f == [i \in 0 .. k + 1 |-> IF i = k + 1 THEN step[k + 1][g[k]] ELSE g[i]]
  <2>3. f \in [0 .. k + 1 -> V] /\ f[0] = first
    BY <2>1, <2>2
  <2>4. ASSUME NEW i \in 1 .. k + 1 PROVE f[i] = step[i][f[i - 1]]
    <3>1. CASE i = k + 1
      <4>1. (k + 1) - 1 = k /\ f[k] = g[k] /\ f[k + 1] = step[k + 1][g[k]]
        OBVIOUS
      <4> HIDE DEF f
      <4> QED BY <3>1, <4>1
    <3>2. CASE i \in 1 .. k
      BY <2>1, <3>2
    <3> QED BY <3>1, <3>2
  <2> HIDE DEF f
  <2>5. \E h : Filled(h, k + 1, V, first, step)
    BY <2>3, <2>4
  <2> QED BY <2>5
<1>3. P = 0 .. n
  <2>1. P \in SUBSET (0 .. n)
    OBVIOUS
  <2> HIDE DEF P
  <2> QED BY <1>1, <1>2, <2>1, Upward, Zenon
<1>4. \E f : Filled(f, n, V, first, step)
  BY <1>3
<1> QED BY <1>4

----------------------------------------------------------------------------
\* Numbers in bytes.

Numbers(bytes) ==
  CHOOSE number : number =
    [i \in 0 .. Len(bytes) |-> IF i = 0 THEN 0 ELSE 256 * number[i - 1] + bytes[i]]

LEMMA FromBytesIs == ASSUME NEW bytes PROVE FromBytes(bytes) = Numbers(bytes)[Len(bytes)]
  BY DEF FromBytes, Numbers

LEMMA NumbersUnfold ==
  ASSUME NEW b \in Seq(Int)
  PROVE  /\ Numbers(b) \in [0 .. Len(b) -> Int]
         /\ Numbers(b)[0] = 0
         /\ \A i \in 1 .. Len(b) : Numbers(b)[i] = 256 * Numbers(b)[i - 1] + b[i]
<1> DEFINE n == Len(b)
           step == [i \in 1 .. n |-> [v \in Int |-> 256 * v + b[i]]]
<1>1. n \in Nat /\ \A i \in 1 .. n : b[i] \in Int
  OBVIOUS
<1>2. Steps(step, n, Int)
  BY <1>1 DEF Steps
<1>3. PICK f : Filled(f, n, Int, 0, step)
  <2>1. 0 \in Int
    OBVIOUS
  <2> HIDE DEF step, n
  <2> QED BY <1>1, <1>2, <2>1, TableExists, Zenon
<1>10. /\ f \in [0 .. n -> Int] /\ f[0] = 0
      /\ \A i \in 1 .. n : f[i] = step[i][f[i - 1]]
  BY <1>3, Zenon DEF Filled
<1>4. ASSUME NEW i \in 1 .. n PROVE f[i] = 256 * f[i - 1] + b[i]
  <2>1. i \in 1 .. n /\ f[i - 1] \in Int
    <3> HIDE DEF step, n
    <3> QED BY <1>10, <1>1
  <2>2. step[i][f[i - 1]] = 256 * f[i - 1] + b[i]
    BY <2>1
  <2> QED BY <1>10, <2>2
<1> HIDE DEF step
<1>5. f = [i \in 0 .. n |-> IF i = 0 THEN 0 ELSE 256 * f[i - 1] + b[i]]
  <2>1. \A i \in 0 .. n : f[i] = IF i = 0 THEN 0 ELSE 256 * f[i - 1] + b[i]
    BY <1>10, <1>4
  <2>2. f = [i \in 0 .. n |-> f[i]]
    BY <1>10
  <2> QED BY <2>1, <2>2, Zenon
<1>6. Numbers(b) = [i \in 0 .. n |-> IF i = 0 THEN 0 ELSE 256 * Numbers(b)[i - 1] + b[i]]
  BY <1>5, Zenon DEF Numbers
<1> DEFINE N == Numbers(b)
<1>7. N = [i \in 0 .. n |-> IF i = 0 THEN 0 ELSE 256 * N[i - 1] + b[i]]
  BY <1>6
<1> HIDE DEF N
<1>8. \A i \in 0 .. n : N[i] = IF i = 0 THEN 0 ELSE 256 * N[i - 1] + b[i]
  BY <1>7, Zenon
<1>9. N = f
  <2> DEFINE P == {i \in 0 .. n : N[i] = f[i]}
  <2>1. 0 \in P
    BY <1>10, <1>8
  <2>2. ASSUME NEW i \in 0 .. n - 1, i \in P PROVE i + 1 \in P
    <3>1. i + 1 \in 1 .. n /\ (i + 1) - 1 = i
      OBVIOUS
    <3>2. N[i + 1] = 256 * N[i] + b[i + 1] /\ f[i + 1] = 256 * f[i] + b[i + 1]
      BY <3>1, <1>4, <1>8
    <3> QED BY <2>2, <3>1, <3>2
  <2>3. P = 0 .. n
    <3>1. P \in SUBSET (0 .. n)
      OBVIOUS
    <3> HIDE DEF P
    <3> QED BY <1>1, <2>1, <2>2, <3>1, Upward, Zenon
  <2>4. N = [i \in 0 .. n |-> N[i]]
    BY <1>7
  <2>5. f = [i \in 0 .. n |-> f[i]]
    BY <1>10
  <2>6. \A i \in 0 .. n : N[i] = f[i]
    BY <2>3
  <2> HIDE DEF n
  <2> QED BY <2>4, <2>5, <2>6, Zenon
<1> QED BY <1>10, <1>4, <1>9 DEF N

\* The number in two bytes.
LEMMA FromTwo ==
  ASSUME NEW high \in Int, NEW low \in Int
  PROVE  FromBytes(<<high, low>>) = 256 * high + low
<1> DEFINE b == <<high, low>>
           N == Numbers(b)
<1>1. b \in Seq(Int) /\ Len(b) = 2 /\ b[1] = high /\ b[2] = low
  OBVIOUS
<1> HIDE DEF b
<1>2. N[0] = 0 /\ \A i \in 1 .. 2 : N[i] = 256 * N[i - 1] + b[i]
  BY <1>1, NumbersUnfold
<1> HIDE DEF N
<1>3. N[1] = 256 * N[0] + b[1] /\ N[2] = 256 * N[1] + b[2]
  <2>1. 1 \in 1 .. 2 /\ 2 \in 1 .. 2 /\ 1 - 1 = 0 /\ 2 - 1 = 1
    OBVIOUS
  <2> QED BY <1>2, <2>1
<1>4. FromBytes(b) = N[2]
  BY <1>1, FromBytesIs DEF N
<1> QED BY <1>1, <1>2, <1>3, <1>4 DEF b

\* An ID or a rate, sent and read.
LEMMA FromTwoBytes ==
  ASSUME NEW n \in Nat
  PROVE  FromBytes(TwoBytes(n)) = n
<1>1. n \div 256 \in Int /\ n % 256 \in Int /\ 256 * (n \div 256) + (n % 256) = n
  OBVIOUS
<1> QED BY <1>1, FromTwo DEF TwoBytes

----------------------------------------------------------------------------
\* Flattening.

Flat(s) ==
  CHOOSE flatten : flatten =
    [i \in 1 .. Len(s) |-> IF i = 1 THEN s[i] ELSE flatten[i - 1] \o s[i]]

\* Where the k-th part ends.
Ends(s) == [k \in 0 .. Len(s) |-> IF k = 0 THEN 0 ELSE Len(Flat(s)[k])]

LEMMA FlattenIs ==
  ASSUME NEW s
  PROVE  FlattenSeq(s) = IF Len(s) = 0 THEN s ELSE Flat(s)[Len(s)]
  BY DEF FlattenSeq, Flat

LEMMA Joined ==
  ASSUME NEW D, NEW a \in Seq(D), NEW b \in Seq(D)
  PROVE  /\ a \o b \in Seq(D)
         /\ Len(a) \in Nat /\ Len(b) \in Nat /\ Len(a \o b) = Len(a) + Len(b)
         /\ \A j \in 1 .. Len(a) : (a \o b)[j] = a[j]
         /\ \A j \in 1 .. Len(b) : (a \o b)[Len(a) + j] = b[j]
  OBVIOUS

LEMMA Lengths ==
  ASSUME NEW D, NEW a \in Seq(D), NEW b \in Seq(D), NEW c, c = a \o b
  PROVE  c \in Seq(D) /\ Len(c) = Len(a) + Len(b) /\ Len(c) \in Nat /\ Len(a) \in Nat
  OBVIOUS

LEMMA Places ==
  ASSUME NEW D, NEW a \in Seq(D), NEW b \in Seq(D), NEW c, c = a \o b
  PROVE  /\ Len(c) = Len(a) + Len(b) /\ Len(a) \in Nat /\ Len(b) \in Nat
         /\ \A j \in 1 .. Len(a) : c[j] = a[j]
         /\ \A j \in 1 .. Len(b) : c[Len(a) + j] = b[j]
  BY Joined

LEMMA FlatUnfolds ==
  ASSUME NEW D, NEW s \in Seq(Seq(D))
  PROVE  \A i \in 1 .. Len(s) :
            /\ Flat(s)[i] \in Seq(D)
            /\ Flat(s)[i] = IF i = 1 THEN s[i] ELSE Flat(s)[i - 1] \o s[i]
<1> DEFINE n == Len(s)
           V == Seq(D)
           step == [i \in 1 .. n |-> [v \in V |-> v \o s[i]]]
<1>1. n \in Nat /\ \A i \in 1 .. n : s[i] \in V
  OBVIOUS
<1>2. \A v \in V, w \in V : v \o w \in V
  OBVIOUS
<1>3. <<>> \in V /\ \A v \in V : <<>> \o v = v
  OBVIOUS
<1> HIDE DEF V, n
<1>4. Steps(step, n, V)
  BY <1>1, <1>2 DEF Steps
<1>5. PICK f : Filled(f, n, V, <<>>, step)
  <2> HIDE DEF step
  <2> QED BY <1>1, <1>3, <1>4, TableExists, Zenon
<1>6. /\ f \in [0 .. n -> V] /\ f[0] = <<>>
      /\ \A i \in 1 .. n : f[i] = step[i][f[i - 1]]
  BY <1>5, Zenon DEF Filled
<1>7. ASSUME NEW i \in 1 .. n PROVE f[i - 1] \in V /\ f[i] = f[i - 1] \o s[i]
  <2>1. i \in 1 .. n /\ f[i - 1] \in V
    <3> HIDE DEF step
    <3> QED BY <1>6, <1>1
  <2>2. step[i][f[i - 1]] = f[i - 1] \o s[i]
    BY <2>1
  <2> QED BY <1>6, <2>1, <2>2
<1> HIDE DEF step
<1> DEFINE g == [i \in 1 .. n |-> f[i]]
<1>8. ASSUME NEW i \in 1 .. n PROVE g[i] = IF i = 1 THEN s[i] ELSE g[i - 1] \o s[i]
  <2>1. CASE i = 1
    <3>1. i - 1 = 0
      BY <2>1
    <3>2. f[i] = f[0] \o s[i] /\ s[i] \in V
      BY <1>1, <1>7, <3>1
    <3>3. f[i] = s[i]
      BY <1>3, <1>6, <3>2
    <3> QED BY <2>1, <3>3
  <2>2. CASE i # 1
    <3>1. i - 1 \in 1 .. n
      BY <2>2, <1>1
    <3> QED BY <2>2, <3>1, <1>7
  <2> QED BY <2>1, <2>2
<1>9. g = [i \in 1 .. n |-> IF i = 1 THEN s[i] ELSE g[i - 1] \o s[i]]
  <2>1. g = [i \in 1 .. n |-> g[i]]
    OBVIOUS
  <2> HIDE DEF g
  <2> QED BY <1>8, <2>1, Zenon
<1> HIDE DEF g
<1> DEFINE F == Flat(s)
<1>10. F = [i \in 1 .. n |-> IF i = 1 THEN s[i] ELSE F[i - 1] \o s[i]]
  BY <1>9, Zenon DEF Flat, n
<1> HIDE DEF F
<1>11. \A i \in 1 .. n : F[i] = IF i = 1 THEN s[i] ELSE F[i - 1] \o s[i]
  BY <1>10, Zenon
<1> DEFINE P == {i \in 0 .. n : i # 0 => F[i] \in V}
<1>12. 0 \in P
  BY <1>1
<1>13. ASSUME NEW i \in 0 .. n - 1, i \in P PROVE i + 1 \in P
  <2>1. i + 1 \in 1 .. n /\ i + 1 \in 0 .. n /\ (i + 1) - 1 = i /\ (i + 1 = 1 => i = 0)
    BY <1>1
  <2>2. F[i + 1] = IF i + 1 = 1 THEN s[i + 1] ELSE F[i] \o s[i + 1]
    BY <2>1, <1>11
  <2>3. i # 0 => F[i] \in V
    BY <1>13
  <2>4. F[i + 1] \in V
    BY <2>1, <2>2, <2>3, <1>1, <1>2
  <2> QED BY <2>1, <2>4
<1>14. P = 0 .. n
  <2>1. P \in SUBSET (0 .. n)
    OBVIOUS
  <2> HIDE DEF P
  <2> QED BY <1>1, <1>12, <1>13, <2>1, Upward, Zenon
<1>15. \A i \in 1 .. n : F[i] \in V
  <2>1. \A i \in 1 .. n : i \in 0 .. n /\ i # 0
    OBVIOUS
  <2> QED BY <1>14, <2>1
<1> QED BY <1>11, <1>15 DEF F, n, V

LEMMA FlattenType ==
  ASSUME NEW D, NEW s \in Seq(Seq(D))
  PROVE  FlattenSeq(s) \in Seq(D)
<1>1. CASE Len(s) = 0
  <2>1. s = <<>> /\ <<>> \in Seq(D)
    BY <1>1
  <2>2. FlattenSeq(s) = s
    BY <1>1, FlattenIs
  <2> QED BY <2>1, <2>2
<1>2. CASE Len(s) # 0
  <2>1. Len(s) \in 1 .. Len(s)
    BY <1>2
  <2> QED BY <1>2, <2>1, FlattenIs, FlatUnfolds
<1> QED BY <1>1, <1>2

\* The parts, one behind the other.
LEMMA EndsAre ==
  ASSUME NEW D, NEW s \in Seq(Seq(D))
  PROVE  /\ Ends(s)[0] = 0
         /\ Ends(s)[Len(s)] = Len(FlattenSeq(s))
         /\ \A k \in 0 .. Len(s) : Ends(s)[k] \in Nat
         /\ \A k \in 1 .. Len(s) : Ends(s)[k] = Ends(s)[k - 1] + Len(s[k])
<1> DEFINE n == Len(s)
           E == Ends(s)
<1>1. n \in Nat /\ \A k \in 1 .. n : s[k] \in Seq(D) /\ Len(s[k]) \in Nat
  OBVIOUS
<1>2. \A k \in 0 .. n : E[k] = IF k = 0 THEN 0 ELSE Len(Flat(s)[k])
  BY DEF Ends
<1>3. ASSUME NEW k \in 1 .. n
      PROVE  E[k] = Len(Flat(s)[k]) /\ E[k] \in Nat /\ E[k] = E[k - 1] + Len(s[k])
  <2> HIDE DEF E
  <2>1. E[k] = Len(Flat(s)[k]) /\ Flat(s)[k] \in Seq(D) /\ s[k] \in Seq(D)
    BY <1>1, <1>2, FlatUnfolds
  <2>2. Len(Flat(s)[k]) \in Nat /\ Len(s[k]) \in Nat
    BY <2>1, Zenon, LenProperties
  <2>3. CASE k = 1
    <3>1. k - 1 = 0 /\ 0 \in 0 .. n
      BY <1>1, <2>3
    <3>2. E[k - 1] = 0
      BY <1>2, <3>1
    <3>3. Flat(s)[k] = s[k]
      BY <2>3, FlatUnfolds
    <3> QED BY <2>1, <2>2, <3>2, <3>3
  <2>4. CASE k # 1
    <3>1. k - 1 \in 1 .. n /\ k - 1 \in 0 .. n /\ k - 1 # 0
      BY <1>1, <2>4
    <3>2. E[k - 1] = Len(Flat(s)[k - 1]) /\ Flat(s)[k - 1] \in Seq(D)
      BY <3>1, <1>2, FlatUnfolds
    <3>3. Flat(s)[k] = Flat(s)[k - 1] \o s[k]
      BY <2>4, FlatUnfolds
    <3>4. Len(Flat(s)[k]) = Len(Flat(s)[k - 1]) + Len(s[k])
      <4>1. Flat(s)[k - 1] \in Seq(D)
        BY <3>2
      <4>2. s[k] \in Seq(D)
        BY <2>1
      <4> QED BY <4>1, <4>2, <3>3, Lengths
    <3> QED BY <2>1, <2>2, <3>2, <3>4
  <2> QED BY <2>3, <2>4
<1>4. E[0] = 0
  BY <1>1, <1>2
<1>5. E[n] = Len(FlattenSeq(s))
  BY <1>1, <1>2, FlattenIs
<1>6. \A k \in 0 .. n : k = 0 \/ k \in 1 .. n
  BY <1>1
<1> HIDE DEF E
<1>7. \A k \in 0 .. n : E[k] \in Nat
  BY <1>3, <1>4, <1>6
<1> QED BY <1>3, <1>4, <1>5, <1>7 DEF E

\* Where they stand.
LEMMA PartIs ==
  ASSUME NEW D, NEW s \in Seq(Seq(D)), NEW k \in 1 .. Len(s)
  PROVE  /\ Ends(s)[k] <= Len(FlattenSeq(s))
         /\ \A j \in 1 .. Len(s[k]) : FlattenSeq(s)[Ends(s)[k - 1] + j] = s[k][j]
<1> DEFINE n == Len(s)
           F == Flat(s)
           E == Ends(s)
           Holds(i) == /\ E[k] <= Len(F[i])
                       /\ \A j \in 1 .. Len(s[k]) : F[i][E[k - 1] + j] = s[k][j]
           P == {i \in 0 .. n : i >= k => Holds(i)}
<1>1. n \in Nat /\ k \in 1 .. n /\ s[k] \in Seq(D) /\ Len(s[k]) \in Nat
  OBVIOUS
<1>2. /\ \A i \in 1 .. n : F[i] \in Seq(D) /\ E[i] = Len(F[i]) /\ s[i] \in Seq(D)
      /\ \A i \in 2 .. n : F[i] = F[i - 1] \o s[i]
      /\ F[1] = s[1]
  <2>1. \A i \in 2 .. n : i \in 1 .. n /\ i # 1
    OBVIOUS
  <2>2. \A i \in 1 .. n : F[i] \in Seq(D) /\ F[i] = IF i = 1 THEN s[i] ELSE F[i - 1] \o s[i]
    BY FlatUnfolds
  <2>3. \A i \in 1 .. n : E[i] = Len(F[i])
    BY DEF Ends
  <2>4. 1 \in 1 .. n
    BY <1>1
  <2>5. \A i \in 1 .. n : s[i] \in Seq(D)
    OBVIOUS
  <2> HIDE DEF F, E, n
  <2>6. \A i \in 2 .. n : F[i] = F[i - 1] \o s[i]
    BY <2>1, <2>2
  <2>7. F[1] = s[1]
    BY <2>2, <2>4
  <2> QED BY <2>2, <2>3, <2>5, <2>6, <2>7
<1>3. E[k - 1] \in Nat /\ E[k] = E[k - 1] + Len(s[k]) /\ E[0] = 0
  BY <1>1, EndsAre
<1> HIDE DEF F, E, n
<1>4. Holds(k)
  <2>1. CASE k = 1
    BY <1>1, <1>2, <1>3, <2>1
  <2>2. CASE k # 1
    <3>1. k - 1 \in 1 .. n /\ k \in 2 .. n
      BY <1>1, <2>2
    <3>2. F[k] = F[k - 1] \o s[k] /\ E[k - 1] = Len(F[k - 1]) /\ F[k - 1] \in Seq(D)
      BY <1>2, <3>1
    <3>3. /\ Len(F[k]) = Len(F[k - 1]) + Len(s[k])
          /\ \A j \in 1 .. Len(s[k]) : F[k][Len(F[k - 1]) + j] = s[k][j]
      <4>1. F[k - 1] \in Seq(D)
        BY <3>2
      <4>2. s[k] \in Seq(D)
        BY <1>1
      <4>3. F[k] = F[k - 1] \o s[k]
        BY <3>2
      <4> DEFINE a == F[k - 1]
                 b == s[k]
                 c == F[k]
      <4>4. a \in Seq(D) /\ b \in Seq(D) /\ c = a \o b
        BY <4>1, <4>2, <4>3
      <4> HIDE DEF a, b, c
      <4>5. /\ Len(c) = Len(a) + Len(b)
            /\ \A j \in 1 .. Len(b) : c[Len(a) + j] = b[j]
        BY <4>4, Places
      <4> QED BY <4>5 DEF a, b, c
    <3>4. E[k] <= Len(F[k])
      BY <1>1, <1>3, <3>2, <3>3
    <3> QED BY <3>2, <3>3, <3>4
  <2> QED BY <2>1, <2>2
<1>5. 0 \in P
  BY <1>1
<1>6. ASSUME NEW i \in 0 .. n - 1, i \in P PROVE i + 1 \in P
  <2> SUFFICES ASSUME i + 1 >= k PROVE Holds(i + 1)
    BY <1>1
  <2>1. CASE i + 1 = k
    BY <1>4, <2>1
  <2>2. CASE i >= k
    <3>1. Holds(i) /\ i \in 1 .. n /\ i + 1 \in 2 .. n /\ (i + 1) - 1 = i /\ i + 1 \in 1 .. n
      BY <1>1, <1>6, <2>2
    <3>2. F[i + 1] = F[i] \o s[i + 1] /\ F[i] \in Seq(D) /\ s[i + 1] \in Seq(D)
      BY <1>2, <3>1
    <3>3. /\ Len(F[i + 1]) >= Len(F[i])
          /\ \A j \in 1 .. Len(F[i]) : F[i + 1][j] = F[i][j]
      <4>1. /\ Len(F[i]) \in Nat /\ Len(s[i + 1]) \in Nat
            /\ Len(F[i + 1]) = Len(F[i]) + Len(s[i + 1])
            /\ \A j \in 1 .. Len(F[i]) : F[i + 1][j] = F[i][j]
        <5> DEFINE a == F[i]
                   b == s[i + 1]
                   c == F[i + 1]
        <5>1. a \in Seq(D) /\ b \in Seq(D) /\ c = a \o b
          BY <3>2
        <5> HIDE DEF a, b, c
        <5>2. /\ Len(a) \in Nat /\ Len(b) \in Nat /\ Len(c) = Len(a) + Len(b)
              /\ \A j \in 1 .. Len(a) : c[j] = a[j]
          BY <5>1, Places
        <5> QED BY <5>2 DEF a, b, c
      <4>2. Len(F[i + 1]) >= Len(F[i])
        <5> DEFINE x == Len(F[i])
                   y == Len(s[i + 1])
                   z == Len(F[i + 1])
        <5>1. x \in Nat /\ y \in Nat /\ z = x + y
          BY <4>1
        <5> HIDE DEF x, y, z
        <5>2. z >= x
          BY <5>1
        <5> QED BY <5>2 DEF x, z
      <4> QED BY <4>1, <4>2
    <3>4. E[k] \in Nat /\ Len(F[i]) \in Nat /\ Len(F[i + 1]) \in Nat
      <4>1. Len(F[i]) \in Nat /\ Len(F[i + 1]) \in Nat
        BY <3>2, Lengths
      <4> QED BY <4>1, <1>1, <1>3
    <3>5. \A j \in 1 .. Len(s[k]) : E[k - 1] + j \in 1 .. Len(F[i])
      BY <1>1, <1>3, <3>1, <3>4
    <3>6. E[k] <= Len(F[i + 1])
      BY <3>1, <3>3, <3>4
    <3>7. \A j \in 1 .. Len(s[k]) : F[i + 1][E[k - 1] + j] = s[k][j]
      BY <3>1, <3>3, <3>5
    <3> QED BY <3>6, <3>7
  <2> QED BY <1>1, <2>1, <2>2
<1>7. P = 0 .. n
  <2>1. P \in SUBSET (0 .. n)
    OBVIOUS
  <2> HIDE DEF P
  <2> QED BY <1>1, <1>5, <1>6, <2>1, Upward, Zenon
<1>8. Holds(n) /\ n # 0
  <2>1. n \in 0 .. n /\ n >= k /\ n # 0
    BY <1>1
  <2> QED BY <1>7, <2>1
<1> QED BY <1>8, FlattenIs DEF F, E, n

\* One part more.
LEMMA FlattenAppend ==
  ASSUME NEW D, NEW s \in Seq(Seq(D)), NEW x \in Seq(D)
  PROVE  FlattenSeq(Append(s, x)) = FlattenSeq(s) \o x
<1> DEFINE n == Len(s)
           t == Append(s, x)
           F == Flat(s)
           G == Flat(t)
           P == {i \in 0 .. n : i # 0 => G[i] = F[i]}
<1>1. /\ n \in Nat /\ t \in Seq(Seq(D)) /\ Len(t) = n + 1 /\ t[n + 1] = x
      /\ \A i \in 1 .. n : t[i] = s[i]
  OBVIOUS
<1>2. \A i \in 1 .. n : F[i] = IF i = 1 THEN s[i] ELSE F[i - 1] \o s[i]
  BY FlatUnfolds
<1>3. \A i \in 1 .. n + 1 : G[i] = IF i = 1 THEN t[i] ELSE G[i - 1] \o t[i]
  BY <1>1, FlatUnfolds
<1>4. FlattenSeq(s) = IF n = 0 THEN s ELSE F[n]
  BY FlattenIs
<1>5. FlattenSeq(t) = G[n + 1]
  <2>1. Len(t) = n + 1 /\ n + 1 # 0
    BY <1>1
  <2>2. FlattenSeq(t) = IF Len(t) = 0 THEN t ELSE G[Len(t)]
    BY FlattenIs
  <2> HIDE DEF n, t, G
  <2> QED BY <2>1, <2>2
<1>6. n = 0 => s = <<>> /\ <<>> \o x = x
  OBVIOUS
<1> HIDE DEF n, t, F, G
<1>7. 0 \in P
  BY <1>1
<1>8. ASSUME NEW i \in 0 .. n - 1, i \in P PROVE i + 1 \in P
  <2>1. i + 1 \in 1 .. n /\ i + 1 \in 1 .. n + 1 /\ i + 1 \in 0 .. n /\ (i + 1) - 1 = i
    BY <1>1
  <2>2. F[i + 1] = IF i + 1 = 1 THEN s[i + 1] ELSE F[i] \o s[i + 1]
    BY <1>2, <2>1
  <2>3. G[i + 1] = IF i + 1 = 1 THEN s[i + 1] ELSE G[i] \o s[i + 1]
    BY <1>1, <1>3, <2>1
  <2>4. i + 1 = 1 \/ G[i] = F[i]
    BY <1>8
  <2>5. G[i + 1] = F[i + 1]
    BY <2>2, <2>3, <2>4, Zenon
  <2> QED BY <2>1, <2>5
<1>9. P = 0 .. n
  <2>1. P \in SUBSET (0 .. n)
    OBVIOUS
  <2> HIDE DEF P
  <2> QED BY <1>1, <1>7, <1>8, <2>1, Upward, Zenon
<1>10. CASE n = 0
  <2>1. G[1] = t[1] /\ t[1] = x
    BY <1>1, <1>3, <1>10
  <2> QED BY <1>4, <1>5, <1>6, <1>10, <2>1 DEF t
<1>11. CASE n # 0
  <2>1. n \in 0 .. n /\ n + 1 \in 1 .. n + 1 /\ n + 1 # 1 /\ (n + 1) - 1 = n
    BY <1>1, <1>11
  <2>2. G[n] = F[n]
    BY <1>9, <1>11, <2>1
  <2>3. G[n + 1] = G[n] \o x
    BY <1>1, <1>3, <2>1
  <2> QED BY <1>4, <1>5, <1>11, <2>2, <2>3 DEF t
<1> QED BY <1>10, <1>11

----------------------------------------------------------------------------
\* Keep.

KeepParts(list, places) ==
  [i \in DOMAIN list |-> IF i \in places THEN <<list[i]>> ELSE <<>>]

LEMMA KeepPartsType ==
  ASSUME NEW D, NEW n \in Nat, NEW list, DOMAIN list = 1 .. n, NEW places,
         \A i \in 1 .. n : i \in places => list[i] \in D
  PROVE  KeepParts(list, places) \in Seq(Seq(D)) /\ Len(KeepParts(list, places)) = n
<1> DEFINE V == Seq(D)
           part == [i \in 1 .. n |-> IF i \in places THEN <<list[i]>> ELSE <<>>]
<1>1. \A i \in 1 .. n : (IF i \in places THEN <<list[i]>> ELSE <<>>) \in V
  OBVIOUS
<1>2. part = KeepParts(list, places)
  BY DEF KeepParts
<1> HIDE DEF V
<1>3. part \in [1 .. n -> V]
  BY <1>1
<1> HIDE DEF part
<1>4. part \in Seq(V) /\ Len(part) = n
  BY <1>3
<1> QED BY <1>2, <1>4 DEF V

\* What is kept stood at one of the places.
LEMMA KeepType ==
  ASSUME NEW D, NEW n \in Nat, NEW list, DOMAIN list = 1 .. n, NEW places,
         \A i \in 1 .. n : i \in places => list[i] \in D
  PROVE  Keep(list, places) \in Seq(D)
<1>1. KeepParts(list, places) \in Seq(Seq(D))
  BY KeepPartsType
<1>2. Keep(list, places) = FlattenSeq(KeepParts(list, places))
  BY DEF Keep, KeepParts
<1> QED BY <1>1, <1>2, FlattenType

LEMMA KeepEmpty ==
  ASSUME NEW places PROVE Keep(<<>>, places) = <<>>
<1> DEFINE parts == KeepParts(<<>>, places)
<1>1. parts = <<>> /\ Len(parts) = 0
  BY DEF KeepParts
<1>2. Keep(<<>>, places) = FlattenSeq(parts)
  BY DEF Keep, KeepParts
<1> QED BY <1>1, <1>2, FlattenIs

\* One element more.
LEMMA KeepAppend ==
  ASSUME NEW D, NEW list \in Seq(D), NEW x \in D, NEW places, NEW more,
         \A i \in DOMAIN list : i \in places <=> i \in more
  PROVE  Keep(Append(list, x), more) =
           IF Len(list) + 1 \in more THEN Append(Keep(list, places), x)
                                     ELSE Keep(list, places)
<1> DEFINE n == Len(list)
           longer == Append(list, x)
           V == Seq(D)
           s == KeepParts(list, places)
           last == IF n + 1 \in more THEN <<x>> ELSE <<>>
<1>1. /\ n \in Nat /\ DOMAIN list = 1 .. n /\ DOMAIN longer = 1 .. n + 1
      /\ longer[n + 1] = x /\ \A i \in 1 .. n : longer[i] = list[i] /\ list[i] \in D
  OBVIOUS
<1>2. s \in Seq(V) /\ Len(s) = n
  BY <1>1, KeepPartsType
<1>3. last \in V
  OBVIOUS
<1>4. \A i \in 1 .. n : s[i] = IF i \in more THEN <<list[i]>> ELSE <<>>
  BY <1>1 DEF KeepParts
<1> HIDE DEF n, V, s, longer, last
<1>5. KeepParts(longer, more) = Append(s, last)
  <2>1. /\ DOMAIN Append(s, last) = 1 .. n + 1 /\ Append(s, last)[n + 1] = last
        /\ \A i \in 1 .. n : Append(s, last)[i] = s[i]
        /\ Append(s, last) = [i \in 1 .. n + 1 |-> Append(s, last)[i]]
    <3>1. n \in Nat
      BY <1>1
    <3>2. s \in Seq(V) /\ Len(s) = n /\ last \in V
      BY <1>2, <1>3
    <3>3. Append(s, last) \in Seq(V) /\ Len(Append(s, last)) = n + 1
      BY <3>2
    <3>4. Append(s, last)[n + 1] = last /\ \A i \in 1 .. n : Append(s, last)[i] = s[i]
      BY <3>1, <3>2, AppendProperties
    <3> DEFINE a == Append(s, last)
    <3>5. a \in Seq(V) /\ Len(a) = n + 1
      BY <3>3
    <3> HIDE DEF a
    <3>6. DOMAIN a = 1 .. n + 1 /\ a = [i \in 1 .. n + 1 |-> a[i]]
      BY <3>1, <3>5
    <3> QED BY <3>4, <3>6 DEF a
  <2>2. \A i \in 1 .. n + 1 : i \in 1 .. n \/ i = n + 1
    BY <1>1
  <2>3. \A i \in 1 .. n + 1 : Append(s, last)[i] = IF i \in more THEN <<longer[i]>> ELSE <<>>
    BY <1>1, <1>4, <2>1, <2>2 DEF last
  <2> DEFINE a == Append(s, last)
  <2> HIDE DEF a
  <2>4. a = [i \in 1 .. n + 1 |-> a[i]]
    BY <2>1 DEF a
  <2>5. \A i \in 1 .. n + 1 : a[i] = IF i \in more THEN <<longer[i]>> ELSE <<>>
    BY <2>3 DEF a
  <2>6. a = [i \in 1 .. n + 1 |-> IF i \in more THEN <<longer[i]>> ELSE <<>>]
    BY <2>4, <2>5, Zenon
  <2> QED BY <1>1, <2>6 DEF KeepParts, a
<1>6. FlattenSeq(Append(s, last)) = FlattenSeq(s) \o last
  BY <1>2, <1>3, FlattenAppend DEF V
<1>7. Keep(list, places) = FlattenSeq(s) /\ Keep(longer, more) = FlattenSeq(Append(s, last))
  BY <1>5 DEF Keep, KeepParts, s
<1>8. FlattenSeq(s) \in V
  BY <1>2, FlattenType DEF V
<1>9. \A v \in V : v \o <<x>> = Append(v, x) /\ v \o <<>> = v
  BY DEF V
<1> QED BY <1>6, <1>7, <1>8, <1>9 DEF last, longer, n

----------------------------------------------------------------------------
\* The output configuration.

OutputEntries == Seq([id : Nat, rate : Nat])

LEMMA ListIs ==
  ASSUME NEW D, NEW list \in Seq(D)
  PROVE  /\ Len(list) \in Nat /\ DOMAIN list = 1 .. Len(list)
         /\ list = [i \in 1 .. Len(list) |-> list[i]]
         /\ \A i \in 1 .. Len(list) : list[i] \in D
  OBVIOUS

LEMMA PairAt ==
  ASSUME NEW D, NEW p \in Seq(D), NEW i \in Int, 1 <= i, i + 1 <= Len(p)
  PROVE  SubSeq(p, i, i + 1) = <<p[i], p[i + 1]>>
<1> DEFINE q == SubSeq(p, i, i + 1)
<1>1. Len(q) = 2 /\ q \in Seq(D) /\ q[1] = p[i] /\ q[2] = p[i + 1]
  OBVIOUS
<1> HIDE DEF q
<1>2. q = <<q[1], q[2]>>
  BY <1>1
<1> QED BY <1>1, <1>2 DEF q

LEMMA TwoBytesType ==
  ASSUME NEW n \in Nat
  PROVE  /\ TwoBytes(n) \in Seq(Nat) /\ Len(TwoBytes(n)) = 2
         /\ TwoBytes(n) = <<TwoBytes(n)[1], TwoBytes(n)[2]>>
<1>1. n \div 256 \in Nat /\ n % 256 \in Nat
  OBVIOUS
<1> QED BY <1>1 DEF TwoBytes

LEMMA TwoPairs ==
  ASSUME NEW D, NEW a \in Seq(D), NEW b \in Seq(D), Len(a) = 2, Len(b) = 2
  PROVE  /\ a \o b \in Seq(D) /\ Len(a \o b) = 4
         /\ (a \o b)[1] = a[1] /\ (a \o b)[2] = a[2]
         /\ (a \o b)[3] = b[1] /\ (a \o b)[4] = b[2]
<1> DEFINE c == a \o b
           l == Len(a)
           m == Len(b)
<1>1. c \in Seq(D) /\ Len(c) = l + m /\ \A i \in 1 .. l + m : c[i] = IF i <= l THEN a[i] ELSE b[i - l]
  BY ConcatProperties
<1>2. l = 2 /\ m = 2
  OBVIOUS
<1> HIDE DEF c, l, m
<1>3. \A i \in 1 .. 4 : c[i] = IF i <= 2 THEN a[i] ELSE b[i - 2]
  BY <1>1, <1>2
<1>4. c[1] = a[1] /\ c[2] = a[2] /\ c[3] = b[1] /\ c[4] = b[2]
  BY <1>3
<1> QED BY <1>1, <1>2, <1>4 DEF c

\* What is written is what is read.
LEMMA EntriesBack ==
  ASSUME NEW e \in OutputEntries
  PROVE  /\ OutputsToPayload(e) \in Seq(Nat)
         /\ Len(OutputsToPayload(e)) = 4 * Len(e)
         /\ Entries(OutputsToPayload(e)) = e
<1> DEFINE n == Len(e)
           part(i) == TwoBytes(e[i].id) \o TwoBytes(e[i].rate)
           s == [i \in 1 .. n |-> part(i)]
           V == Seq(Nat)
           p == OutputsToPayload(e)
           E == Ends(s)
<1>1. n \in Nat /\ DOMAIN e = 1 .. n /\ e = [i \in 1 .. n |-> e[i]]
  BY ListIs, Zenon DEF OutputEntries
<1>2. \A i \in 1 .. n : /\ e[i] = [id |-> e[i].id, rate |-> e[i].rate]
                        /\ e[i].id \in Nat /\ e[i].rate \in Nat
  <2>1. \A i \in 1 .. n : e[i] \in [id : Nat, rate : Nat]
    BY ListIs, Zenon DEF OutputEntries
  <2> HIDE DEF n
  <2> QED BY <2>1
<1>3. ASSUME NEW i \in 1 .. n
      PROVE  /\ part(i) \in V /\ Len(part(i)) = 4
             /\ part(i)[1] = TwoBytes(e[i].id)[1] /\ part(i)[2] = TwoBytes(e[i].id)[2]
             /\ part(i)[3] = TwoBytes(e[i].rate)[1] /\ part(i)[4] = TwoBytes(e[i].rate)[2]
  <2> DEFINE a == TwoBytes(e[i].id)
             b == TwoBytes(e[i].rate)
  <2>1. a \in Seq(Nat) /\ Len(a) = 2 /\ b \in Seq(Nat) /\ Len(b) = 2
    BY <1>2, TwoBytesType
  <2> HIDE DEF a, b
  <2> QED BY <2>1, TwoPairs DEF a, b
<1>4. p = FlattenSeq(s)
  BY <1>1 DEF OutputsToPayload
<1>5. \A i \in 1 .. n : s[i] = part(i)
  OBVIOUS
<1> HIDE DEF part, V, n
<1>6. s \in Seq(V) /\ Len(s) = n
  <2>1. s \in [1 .. n -> V]
    BY <1>3
  <2> HIDE DEF s
  <2> QED BY <1>1, <2>1
<1> HIDE DEF s
<1>7. p \in Seq(Nat)
  BY <1>4, <1>6, FlattenType DEF V
<1>8. E[0] = 0 /\ E[n] = Len(p) /\ \A k \in 1 .. n : E[k] = E[k - 1] + 4
  <2>1. /\ E[0] = 0 /\ E[Len(s)] = Len(FlattenSeq(s))
        /\ \A k \in 1 .. Len(s) : E[k] = E[k - 1] + Len(s[k])
    BY <1>6, EndsAre DEF V
  <2> HIDE DEF E
  <2>2. \A k \in 1 .. n : Len(s[k]) = 4
    BY <1>3, <1>5
  <2> QED BY <1>4, <1>6, <2>1, <2>2
<1>9. \A k \in 1 .. n : /\ E[k] <= Len(p)
                        /\ \A j \in 1 .. 4 : p[E[k - 1] + j] = part(k)[j]
  <2>1. \A k \in 1 .. Len(s) :
           /\ E[k] <= Len(FlattenSeq(s))
           /\ \A j \in 1 .. Len(s[k]) : FlattenSeq(s)[E[k - 1] + j] = s[k][j]
    BY <1>6, PartIs DEF V
  <2> HIDE DEF E
  <2>2. \A k \in 1 .. n : Len(s[k]) = 4 /\ s[k] = part(k)
    BY <1>3, <1>5
  <2>3. Len(s) = n
    BY <1>6
  <2> HIDE DEF p
  <2>4. ASSUME NEW k \in 1 .. n
        PROVE  /\ E[k] <= Len(p) /\ \A j \in 1 .. 4 : p[E[k - 1] + j] = part(k)[j]
    <3>1. /\ E[k] <= Len(p) /\ \A j \in 1 .. Len(s[k]) : p[E[k - 1] + j] = s[k][j]
      BY <1>4, <2>1, <2>3
    <3> QED BY <2>2, <3>1
  <2> QED BY <2>4
<1> HIDE DEF p, E
<1>10. \A k \in 0 .. n : E[k] = 4 * k
  <2> DEFINE P == {k \in 0 .. n : E[k] = 4 * k}
  <2>1. 0 \in P
    BY <1>1, <1>8
  <2>2. ASSUME NEW k \in 0 .. n - 1, k \in P PROVE k + 1 \in P
    <3>1. k + 1 \in 1 .. n /\ (k + 1) - 1 = k
      BY <1>1
    <3>2. E[k + 1] = E[k] + 4
      BY <1>8, <3>1
    <3> QED BY <2>2, <3>1, <3>2
  <2>3. P = 0 .. n
    <3>1. P \in SUBSET (0 .. n)
      OBVIOUS
    <3> HIDE DEF P
    <3> QED BY <1>1, <2>1, <2>2, <3>1, Upward, Zenon
  <2> QED BY <2>3
<1>11. Len(p) = 4 * n
  BY <1>1, <1>8, <1>10
<1>12. ASSUME NEW k \in 1 .. n
       PROVE  /\ FromBytes(SubSeq(p, 4 * k - 3, 4 * k - 2)) = e[k].id
              /\ FromBytes(SubSeq(p, 4 * k - 1, 4 * k)) = e[k].rate
  <2>1. k - 1 \in 0 .. n /\ E[k - 1] = 4 * k - 4
    BY <1>1, <1>10
  <2>2. /\ 4 * k - 4 + 1 = 4 * k - 3 /\ 4 * k - 4 + 2 = 4 * k - 2
        /\ 4 * k - 4 + 3 = 4 * k - 1 /\ 4 * k - 4 + 4 = 4 * k
    OBVIOUS
  <2>3. \A j \in 1 .. 4 : p[4 * k - 4 + j] = part(k)[j]
    BY <1>9, <2>1
  <2>4. /\ p[4 * k - 3] = TwoBytes(e[k].id)[1] /\ p[4 * k - 2] = TwoBytes(e[k].id)[2]
        /\ p[4 * k - 1] = TwoBytes(e[k].rate)[1] /\ p[4 * k] = TwoBytes(e[k].rate)[2]
    BY <1>3, <2>2, <2>3
  <2>5. 4 * k <= Len(p) /\ 1 <= 4 * k - 3 /\ 4 * k \in Int
    BY <1>1, <1>11
  <2>6. ASSUME NEW i \in Int, 1 <= i, i + 1 <= Len(p)
        PROVE  SubSeq(p, i, i + 1) = <<p[i], p[i + 1]>>
    BY <1>7, <2>6, PairAt
  <2>7. SubSeq(p, 4 * k - 3, 4 * k - 2) = <<p[4 * k - 3], p[4 * k - 2]>>
    <3>1. 4 * k - 3 \in Int /\ 4 * k - 3 + 1 = 4 * k - 2 /\ 4 * k - 3 + 1 <= Len(p)
      BY <2>5, <1>7
    <3> QED BY <2>5, <2>6, <3>1
  <2>8. SubSeq(p, 4 * k - 1, 4 * k) = <<p[4 * k - 1], p[4 * k]>>
    <3>1. 4 * k - 1 \in Int /\ 4 * k - 1 + 1 = 4 * k /\ 1 <= 4 * k - 1
      BY <2>5
    <3> QED BY <2>5, <2>6, <3>1
  <2>9. /\ SubSeq(p, 4 * k - 3, 4 * k - 2) = TwoBytes(e[k].id)
        /\ SubSeq(p, 4 * k - 1, 4 * k) = TwoBytes(e[k].rate)
    BY <1>2, <2>4, <2>7, <2>8, TwoBytesType
  <2> QED BY <1>2, <2>9, FromTwoBytes
<1>13. Len(p) \div 4 = n
  BY <1>1, <1>11
<1>14. Entries(p) = [k \in 1 .. n |-> [id |-> e[k].id, rate |-> e[k].rate]]
  BY <1>12, <1>13 DEF Entries
<1>15. Entries(p) = e
  BY <1>1, <1>2, <1>14
<1> QED BY <1>7, <1>11, <1>15 DEF p, n

----------------------------------------------------------------------------
\* The filter profiles.

LEMMA MinIs ==
  ASSUME NEW n \in Nat, NEW I \in SUBSET (1 .. n), I # {}
  PROVE  Min(I) \in I
<1>1. I \in SUBSET Nat
  <2>1. 1 .. n \in SUBSET Nat
    OBVIOUS
  <2> QED BY <2>1, Zenon
<1>2. PICK i \in I : \A m \in I : ~(<<m, i>> \in OpToRel(<, Nat))
  BY <1>1, NatLessThanWellFounded, WFMin, Zenon
<1>3. \A m \in I : ~(m < i)
  BY <1>1, <1>2 DEF OpToRel
<1>4. \E m \in I : \A y \in I : m <= y
  BY <1>1, <1>3
<1> QED BY <1>4 DEF Min

UsedSlots(slots) == {i \in DOMAIN slots : slots[i].type # 0}

ProfileOf(slot) ==
  [label |-> <<slot.label>>, version |-> slot.version, index |-> slot.type]

\* The list holds the profiles of the used slots.
LEMMA ListIsOfSlots ==
  ASSUME NEW S, NEW slots \in Seq(S)
  PROVE  LET available == ListFromPayload(slots)
         IN  /\ Len(available) \in Nat /\ DOMAIN available = 1 .. Len(available)
             /\ \A k \in 1 .. Len(available) :
                   \E i \in UsedSlots(slots) : available[k] = ProfileOf(slots[i])
<1> DEFINE D == {slots[i] : i \in UsedSlots(slots)}
           used == Keep(slots, UsedSlots(slots))
           available == [k \in DOMAIN used |-> ProfileOf(used[k])]
<1>1. used \in Seq(D)
  <2>1. Len(slots) \in Nat /\ DOMAIN slots = 1 .. Len(slots)
    OBVIOUS
  <2>2. \A i \in 1 .. Len(slots) : i \in UsedSlots(slots) => slots[i] \in D
    OBVIOUS
  <2> HIDE DEF D
  <2> QED BY <2>1, <2>2, KeepType
<1> HIDE DEF used
<1>2. /\ Len(used) \in Nat /\ DOMAIN used = 1 .. Len(used)
      /\ \A k \in 1 .. Len(used) : used[k] \in D
  <2> HIDE DEF D
  <2> QED BY <1>1, ListIs
<1>3. Len(available) = Len(used) /\ DOMAIN available = 1 .. Len(used)
  BY <1>2
<1>4. \A k \in 1 .. Len(used) : \E i \in UsedSlots(slots) : available[k] = ProfileOf(slots[i])
  BY <1>2
<1>5. available = ListFromPayload(slots)
  BY DEF ListFromPayload, ProfileOf, used, UsedSlots
<1> HIDE DEF available
<1> QED BY <1>2, <1>3, <1>4, <1>5

\* No two of them have the same type or label.
LEMMA ProfilesDiffer ==
  ASSUME NEW k \in Kinds
  PROVE  LET available == ListFromPayload(k.slots)
         IN  /\ Len(available) \in Nat /\ DOMAIN available = 1 .. Len(available)
             /\ \A i \in DOMAIN available :
                  /\ available[i] = [label   |-> available[i].label,
                                     version |-> available[i].version,
                                     index   |-> available[i].index]
                  /\ available[i].label = <<available[i].label[1]>>
             /\ \A i, j \in DOMAIN available :
                  \/ available[i].index = available[j].index
                  \/ available[i].label = available[j].label
                  => available[i] = available[j]
<1> DEFINE slots == k.slots
           available == ListFromPayload(slots)
<1>1. slots \in Seq([type : Byte, version : Byte, label : STRING])
  BY KindsAssumption
<1>2. \A i, j \in UsedSlots(slots) :
         slots[i].type = slots[j].type \/ slots[i].label = slots[j].label => i = j
  BY KindsAssumption DEF UsedSlots
<1> HIDE DEF slots
<1>3. /\ Len(available) \in Nat /\ DOMAIN available = 1 .. Len(available)
      /\ \A i \in 1 .. Len(available) :
            \E u \in UsedSlots(slots) : available[i] = ProfileOf(slots[u])
  BY <1>1, ListIsOfSlots
<1> HIDE DEF available
<1>4. \A slot : /\ ProfileOf(slot).label = <<slot.label>>
                /\ ProfileOf(slot).version = slot.version
                /\ ProfileOf(slot).index = slot.type
                /\ <<slot.label>>[1] = slot.label
  BY DEF ProfileOf
<1>5. ASSUME NEW i \in DOMAIN available
      PROVE  /\ available[i] = [label   |-> available[i].label,
                                version |-> available[i].version,
                                index   |-> available[i].index]
             /\ available[i].label = <<available[i].label[1]>>
  <2>1. PICK u \in UsedSlots(slots) : available[i] = ProfileOf(slots[u])
    BY <1>3
  <2> QED BY <1>4, <2>1 DEF ProfileOf
<1>6. ASSUME NEW i \in DOMAIN available, NEW j \in DOMAIN available,
             \/ available[i].index = available[j].index
             \/ available[i].label = available[j].label
      PROVE  available[i] = available[j]
  <2>1. PICK u \in UsedSlots(slots) : available[i] = ProfileOf(slots[u])
    BY <1>3
  <2>2. PICK v \in UsedSlots(slots) : available[j] = ProfileOf(slots[v])
    BY <1>3
  <2>3. slots[u].type = slots[v].type \/ slots[u].label = slots[v].label
    BY <1>4, <1>6, <2>1, <2>2
  <2> QED BY <1>2, <2>1, <2>2, <2>3
<1> QED BY <1>3, <1>5, <1>6 DEF available, slots

LEMMA TwoLabels ==
  ASSUME NEW x, NEW y PROVE <<x>> \o <<y>> = <<x, y>>
<1> DEFINE c == <<x>> \o <<y>>
           a == <<x>>
           b == <<y>>
<1>1. a \in Seq({x, y}) /\ b \in Seq({x, y}) /\ Len(a) = 1 /\ Len(b) = 1
      /\ a[1] = x /\ b[1] = y
  OBVIOUS
<1> HIDE DEF a, b
<1>2. c = a \o b
  BY DEF a, b
<1> HIDE DEF c
<1>3. c \in Seq({x, y}) /\ Len(c) = Len(a) + Len(b)
      /\ \A i \in 1 .. Len(a) + Len(b) : c[i] = IF i <= Len(a) THEN a[i] ELSE b[i - Len(a)]
  BY <1>1, <1>2, ConcatProperties
<1>4. Len(c) = 2 /\ \A i \in 1 .. 2 : c[i] = IF i <= 1 THEN a[i] ELSE b[i - 1]
  BY <1>1, <1>3
<1>5. c[1] = x /\ c[2] = y
  BY <1>1, <1>4
<1>6. c = <<c[1], c[2]>>
  <2> DEFINE D == {x, y}
  <2>1. c \in Seq(D) /\ Len(c) = 2
    BY <1>3, <1>4
  <2> HIDE DEF D
  <2> QED BY <2>1
<1> QED BY <1>5, <1>6 DEF c

\* What the sensor accepted is resolved to what was selected.
LEMMA ProfileBack ==
  ASSUME kind \in Kinds, product \in {0, kind.model},
         NEW value \in Selectable, Accepts(EncodeFilterProfile(value))
  PROVE  ResolveFilterProfile(ProfileFromPayload(EncodeFilterProfile(value)),
                              ListFromPayload(kind.slots)) = value
<1> DEFINE available == ListFromPayload(kind.slots)
           reported == ProfileFromPayload(EncodeFilterProfile(value))
           n == Len(available)
           Same == {i \in 1 .. n : available[i].index = reported.index}
           Named == {i \in 1 .. n : available[i].label = reported.label}
           Base == {i \in 1 .. n : available[i].label = <<reported.label[1]>>}
           same == IF Same # {} THEN Min(Same) ELSE 0
           named == IF Named # {} THEN Min(Named) ELSE 0
           base == IF Base # {} THEN Min(Base) ELSE 0
<1>1. ResolveFilterProfile(reported, available) =
        CASE reported.label = <<>> /\ same # 0 -> available[same]
          [] reported.label # <<>> /\ named # 0 -> available[named]
          [] Len(reported.label) > 1 /\ named = 0 /\ base # 0 ->
               [available[base] EXCEPT !.label = reported.label]
          [] OTHER -> reported
  BY DEF ResolveFilterProfile, SelectInSeq
<1>2. /\ n \in Nat /\ DOMAIN available = 1 .. n
      /\ \A i \in 1 .. n : /\ available[i] = [label   |-> available[i].label,
                                              version |-> available[i].version,
                                              index   |-> available[i].index]
                           /\ available[i].label = <<available[i].label[1]>>
      /\ \A i, j \in 1 .. n :
           \/ available[i].index = available[j].index
           \/ available[i].label = available[j].label
           => available[i] = available[j]
  BY ProfilesDiffer
<1>3. /\ value \in ToSet(available)
      \/ /\ UsesModernFilterProfile(kind.model)
         /\ \E i, j \in DOMAIN available : value = Combined(available, i, j)
  BY DEF Selectable
<1>4. EncodeFilterProfile(value) = IF UsesModernFilterProfile(product)
                                   THEN [form |-> "label", label |-> value.label]
                                   ELSE [form |-> "type", type |-> value.index]
  BY DEF EncodeFilterProfile
<1>5. UsesModernFilterProfile(product) <=> UsesModernFilterProfile(kind.model)
  <2>1. ~UsesModernFilterProfile(0)
    BY DEF UsesModernFilterProfile
  <2>2. UsesModernFilterProfile(kind.model) => EncodeFilterProfile(value).form = "label"
    BY DEF Accepts
  <2>3. ~UsesModernFilterProfile(product) => EncodeFilterProfile(value).form = "type"
    BY <1>4
  <2> QED BY <2>1, <2>2, <2>3
<1> HIDE DEF available
<1>6. CASE ~UsesModernFilterProfile(kind.model)
  <2>1. reported = [label |-> <<>>, version |-> 0, index |-> value.index]
    BY <1>4, <1>5, <1>6 DEF ProfileFromPayload
  <2>2. reported.label = <<>> /\ reported.index = value.index
    BY <2>1
  <2> HIDE DEF reported, n
  <2>3. PICK i \in 1 .. n : value = available[i]
    BY <1>2, <1>3, <1>6 DEF ToSet
  <2>4. i \in Same
    BY <2>2, <2>3
  <2>5. same \in Same
    <3>1. Same \in SUBSET (1 .. n) /\ Same # {}
      BY <2>4
    <3> HIDE DEF Same
    <3> QED BY <1>2, <3>1, MinIs
  <2>6. same \in 1 .. n /\ available[same].index = value.index
    BY <2>2, <2>5
  <2> HIDE DEF same, named, base
  <2>7. available[same] = value
    BY <1>2, <2>3, <2>6
  <2>8. same # 0
    BY <1>2, <2>6
  <2> QED BY <1>1, <2>2, <2>7, <2>8 DEF reported, available
<1>7. CASE UsesModernFilterProfile(kind.model)
  <2>1. reported = [label |-> value.label, version |-> 0, index |-> 0]
    BY <1>4, <1>5, <1>7 DEF ProfileFromPayload
  <2>2. reported.label = value.label
    BY <2>1
  <2>3. value.label # <<>>
    BY <1>4, <1>5, <1>7 DEF Accepts
  <2> HIDE DEF reported, n
  <2>4. CASE value \in ToSet(available)
    <3>1. PICK i \in 1 .. n : value = available[i]
      BY <1>2, <2>4 DEF ToSet
    <3>2. i \in Named
      BY <2>2, <3>1
    <3>3. named \in Named
      <4>1. Named \in SUBSET (1 .. n) /\ Named # {}
        BY <3>2
      <4> HIDE DEF Named
      <4> QED BY <1>2, <4>1, MinIs
    <3>4. named \in 1 .. n /\ available[named].label = value.label
      BY <2>2, <3>3
    <3> HIDE DEF same, named, base
    <3>5. available[named] = value
      BY <1>2, <3>1, <3>4
    <3>6. named # 0
      BY <1>2, <3>4
    <3> QED BY <1>1, <2>2, <2>3, <3>5, <3>6 DEF reported, available
  <2>5. CASE \E i, j \in DOMAIN available : value = Combined(available, i, j)
    <3>1. PICK i \in 1 .. n, j \in 1 .. n : value = Combined(available, i, j)
      BY <1>2, <2>5
    <3> DEFINE a == available[i].label[1]
               b == available[j].label[1]
    <3>2. available[i].label = <<a>> /\ available[j].label = <<b>>
      BY <1>2
    <3>3. value = [label   |-> available[i].label \o available[j].label,
                   version |-> available[i].version, index |-> available[i].index]
      <4>1. available[i] = [label |-> available[i].label, version |-> available[i].version,
                            index |-> available[i].index]
        BY <1>2
      <4> DEFINE l == available[i].label
                 v == available[i].version
                 x == available[i].index
                 r == available[i]
                 m == available[j].label
      <4>2. r = [label |-> l, version |-> v, index |-> x]
        BY <4>1
      <4>3. value = [r EXCEPT !.label = @ \o m]
        BY <3>1 DEF Combined
      <4>4. r.label = l
        OBVIOUS
      <4> HIDE DEF l, v, x, r, m
      <4> DEFINE p == r.label \o m
      <4>5. [r EXCEPT !.label = @ \o m] = [r EXCEPT !.label = p]
        OBVIOUS
      <4> HIDE DEF p
      <4>6. [r EXCEPT !.label = p] = [label |-> p, version |-> v, index |-> x]
        BY <4>2
      <4>7. [r EXCEPT !.label = @ \o m] = [label |-> r.label \o m, version |-> v, index |-> x]
        BY <4>5, <4>6, Zenon DEF p
      <4>8. value = [label |-> l \o m, version |-> v, index |-> x]
        BY <4>3, <4>4, <4>7
      <4> QED BY <4>8 DEF l, v, x, m
    <3> HIDE DEF a, b
    <3>4. value.label = available[i].label \o available[j].label
      BY <3>3
    <3>5. value.label = <<a, b>> /\ Len(value.label) = 2 /\ value.label[1] = a
      <4>1. <<a>> \o <<b>> = <<a, b>> /\ Len(<<a, b>>) = 2 /\ <<a, b>>[1] = a
        <5>1. <<a>> \o <<b>> = <<a, b>>
          BY TwoLabels
        <5> QED BY <5>1
      <4>2. value.label = <<a>> \o <<b>>
        BY <3>2, <3>4, Zenon
      <4> QED BY <4>1, <4>2, Zenon
    <3>6. \A k \in 1 .. n : Len(available[k].label) = 1
      <4>1. \A x : Len(<<x>>) = 1
        OBVIOUS
      <4> QED BY <1>2, <4>1
    <3>7. Named = {}
      BY <2>2, <3>5, <3>6
    <3>8. named = 0
      BY <3>7
    <3>9. i \in Base
      BY <2>2, <3>2, <3>5
    <3>10. base \in Base
      <4>1. Base \in SUBSET (1 .. n) /\ Base # {}
        BY <3>9
      <4> HIDE DEF Base
      <4> QED BY <1>2, <4>1, MinIs
    <3>11. base \in 1 .. n /\ available[base].label = <<a>>
      BY <2>2, <3>5, <3>10
    <3> HIDE DEF same, named, base
    <3>12. available[base] = available[i] /\ base # 0
      BY <1>2, <3>2, <3>11
    <3>13. [available[base] EXCEPT !.label = reported.label] = value
      <4>1. available[i] = [label |-> available[i].label, version |-> available[i].version,
                            index |-> available[i].index]
        BY <1>2
      <4> DEFINE l == available[i].label
                 v == available[i].version
                 x == available[i].index
                 r == available[i]
      <4>2. r = [label |-> l, version |-> v, index |-> x]
        BY <4>1
      <4>3. value = [label |-> value.label, version |-> v, index |-> x]
        BY <3>3
      <4> HIDE DEF l, v, x, r
      <4>4. [r EXCEPT !.label = value.label] = [label |-> value.label, version |-> v, index |-> x]
        BY <4>2
      <4> QED BY <2>2, <3>12, <4>3, <4>4 DEF r
    <3>14. reported.label # <<>> /\ Len(reported.label) > 1
      BY <2>2, <2>3, <3>5
    <3> QED BY <1>1, <3>8, <3>12, <3>13, <3>14 DEF available, reported
  <2> QED BY <1>3, <2>4, <2>5
<1> QED BY <1>6, <1>7

----------------------------------------------------------------------------
\* The packets in a payload.

PacketStep(p, From, offset) ==
  IF offset + 3 > Len(p) THEN [packets |-> <<>>, truncated |-> FALSE]
  ELSE LET id   == FromBytes(SubSeq(p, offset + 1, offset + 2))
           next == offset + 3 + p[offset + 3]
       IN  IF next > Len(p)
           THEN [packets |-> <<>>, truncated |-> TRUE]
           ELSE IF id \notin PacketIDs THEN From[next]
           ELSE LET packet == [id |-> id, data |-> SubSeq(p, offset + 4, next)]
                IN  [From[next] EXCEPT !.packets = <<packet>> \o @]

PacketsFrom(p) ==
  CHOOSE From : From = [offset \in 0 .. Len(p) |-> PacketStep(p, From, offset)]

LEMMA PacketsAre == ASSUME NEW p PROVE Packets(p) = PacketsFrom(p)[0]
  BY DEF Packets, PacketsFrom, PacketStep

LEMMA PacketStepLooksAhead ==
  ASSUME NEW p \in Seq(Nat), NEW o \in 0 .. Len(p), NEW F, NEW G,
         \A q \in o + 1 .. Len(p) : F[q] = G[q]
  PROVE  PacketStep(p, F, o) = PacketStep(p, G, o)
<1> DEFINE next == o + 3 + p[o + 3]
<1>1. CASE o + 3 > Len(p) \/ next > Len(p)
  BY <1>1 DEF PacketStep
<1>2. CASE ~(o + 3 > Len(p)) /\ ~(next > Len(p))
  <2>1. o + 3 \in 1 .. Len(p) /\ p[o + 3] \in Nat /\ Len(p) \in Nat
    BY <1>2
  <2>2. next \in o + 1 .. Len(p)
    BY <1>2, <2>1
  <2>3. F[next] = G[next]
    BY <2>2
  <2> QED BY <1>2, <2>3 DEF PacketStep
<1> QED BY <1>1, <1>2

LEMMA PacketsUnfold ==
  ASSUME NEW p \in Seq(Nat)
  PROVE  \A o \in 0 .. Len(p) : PacketsFrom(p)[o] = PacketStep(p, PacketsFrom(p), o)
<1> DEFINE n == Len(p)
           Part(k, F) == F = [o \in n - k .. n |-> PacketStep(p, F, o)]
           P == {k \in 0 .. n : \E F : Part(k, F)}
<1>1. n \in Nat
  OBVIOUS
<1>2. ASSUME NEW k \in 0 .. n, NEW G, \A o \in n - k + 1 .. n : G[o] = PacketStep(p, G, o)
      PROVE  k \in P
  <2> DEFINE F == [o \in n - k .. n |-> IF o = n - k THEN PacketStep(p, G, n - k) ELSE G[o]]
  <2>1. ASSUME NEW o \in n - k .. n PROVE F[o] = PacketStep(p, F, o)
    <3>1. \A q \in o + 1 .. n : F[q] = G[q]
      BY <1>1
    <3>2. o \in 0 .. Len(p)
      BY <1>1
    <3>3. PacketStep(p, F, o) = PacketStep(p, G, o)
      <4> HIDE DEF F
      <4> QED BY <3>1, <3>2, PacketStepLooksAhead
    <3>4. F[o] = PacketStep(p, G, o)
      BY <1>1, <1>2
    <3> QED BY <3>3, <3>4
  <2>2. F = [o \in n - k .. n |-> F[o]]
    OBVIOUS
  <2>3. Part(k, F)
    <3> HIDE DEF F
    <3> QED BY <2>1, <2>2, Zenon
  <2> HIDE DEF F, Part
  <2>4. \E H : Part(k, H)
    BY <2>3
  <2> QED BY <2>4
<1>3. 0 \in P
  <2>1. 0 \in 0 .. n /\ \A G : \A o \in n - 0 + 1 .. n : G[o] = PacketStep(p, G, o)
    BY <1>1
  <2> HIDE DEF P
  <2> QED BY <1>2, <2>1
<1>4. ASSUME NEW k \in 0 .. n - 1, k \in P PROVE k + 1 \in P
  <2>1. PICK G : Part(k, G)
    BY <1>4
  <2>2. k + 1 \in 0 .. n /\ n - (k + 1) + 1 = n - k
    BY <1>1
  <2>3. \A o \in n - k .. n : G[o] = PacketStep(p, G, o)
    BY <2>1, Zenon
  <2> HIDE DEF P
  <2> QED BY <1>2, <2>2, <2>3
<1>5. P = 0 .. n
  <2>1. P \in SUBSET (0 .. n)
    OBVIOUS
  <2> HIDE DEF P
  <2> QED BY <1>1, <1>3, <1>4, <2>1, Upward, Zenon
<1>6. PICK F : F = [o \in 0 .. n |-> PacketStep(p, F, o)]
  <2>1. n \in P /\ n - n = 0
    BY <1>1, <1>5
  <2>2. \E F : Part(n, F)
    BY <2>1
  <2> QED BY <2>1, <2>2
<1>7. PacketsFrom(p) = [o \in 0 .. n |-> PacketStep(p, PacketsFrom(p), o)]
  BY <1>6, Zenon DEF PacketsFrom
<1> DEFINE G == PacketsFrom(p)
<1>8. G = [o \in 0 .. n |-> PacketStep(p, G, o)]
  BY <1>7
<1> HIDE DEF G
<1>9. \A o \in 0 .. n : G[o] = PacketStep(p, G, o)
  BY <1>8, Zenon
<1> QED BY <1>9 DEF G

AllPackets == {[id |-> i, data |-> d] : i \in PacketIDs, d \in Seq(Nat)}

LEMMA PacketType ==
  ASSUME NEW i \in PacketIDs, NEW d \in Seq(Nat)
  PROVE  [id |-> i, data |-> d] \in AllPackets
  BY DEF AllPackets

LEMMA PacketsType ==
  ASSUME NEW p \in Seq(Nat)
  PROVE  \A o \in 0 .. Len(p) :
            /\ PacketsFrom(p)[o] = [packets   |-> PacketsFrom(p)[o].packets,
                                    truncated |-> PacketsFrom(p)[o].truncated]
            /\ PacketsFrom(p)[o].packets \in Seq(AllPackets)
<1> DEFINE n == Len(p)
           F == PacketsFrom(p)
           Typed(r) == /\ r = [packets |-> r.packets, truncated |-> r.truncated]
                       /\ r.packets \in Seq(AllPackets)
           P == {k \in 0 .. n : Typed(F[n - k])}
<1>1. n \in Nat
  OBVIOUS
<1>2. \A b : Typed([packets |-> <<>>, truncated |-> b])
  OBVIOUS
<1>3. ASSUME NEW r, Typed(r), NEW packet \in AllPackets
      PROVE  Typed([r EXCEPT !.packets = <<packet>> \o @])
  <2> DEFINE a == r.packets
             b == r.truncated
             l == <<packet>> \o a
  <2>1. r = [packets |-> a, truncated |-> b] /\ a \in Seq(AllPackets)
    BY <1>3
  <2>2. <<packet>> \in Seq(AllPackets)
    OBVIOUS
  <2>3. l \in Seq(AllPackets)
    <3> HIDE DEF a
    <3> QED BY <2>1, <2>2, ConcatProperties
  <2>4. [r EXCEPT !.packets = <<packet>> \o @] = [r EXCEPT !.packets = l]
    OBVIOUS
  <2> HIDE DEF a, b, l
  <2>5. [r EXCEPT !.packets = l] = [packets |-> l, truncated |-> b]
    BY <2>1
  <2>6. Typed([packets |-> l, truncated |-> b])
    BY <2>3
  <2> QED BY <2>4, <2>5, <2>6, Zenon
<1>4. ASSUME NEW k \in 0 .. n, \A j \in 0 .. k - 1 : j \in P PROVE k \in P
  <2> DEFINE o == n - k
             next == o + 3 + p[o + 3]
             id == FromBytes(SubSeq(p, o + 1, o + 2))
             packet == [id |-> id, data |-> SubSeq(p, o + 4, next)]
  <2>1. o \in 0 .. n /\ F[o] = PacketStep(p, F, o)
    BY <1>1, PacketsUnfold
  <2>2. CASE o + 3 > n
    <3>1. F[o] = [packets |-> <<>>, truncated |-> FALSE]
      BY <2>1, <2>2 DEF PacketStep
    <3> HIDE DEF F, Typed
    <3> QED BY <1>2, <3>1
  <2>3. CASE ~(o + 3 > n) /\ next > n
    <3>1. F[o] = [packets |-> <<>>, truncated |-> TRUE]
      BY <2>1, <2>3 DEF PacketStep
    <3> HIDE DEF F, Typed
    <3> QED BY <1>2, <3>1
  <2>4. CASE ~(o + 3 > n) /\ ~(next > n)
    <3>1. o + 3 \in 1 .. n /\ p[o + 3] \in Nat
      BY <1>1, <2>1, <2>4
    <3>2. next \in o + 1 .. n /\ next \in Nat
      BY <1>1, <2>1, <2>4, <3>1
    <3>3. n - next \in 0 .. k - 1 /\ n - (n - next) = next
      BY <1>1, <2>1, <3>2
    <3>4. Typed(F[next])
      <4> HIDE DEF Typed, next
      <4> QED BY <1>4, <3>3
    <3>5. CASE id \notin PacketIDs
      <4>1. F[o] = F[next]
        BY <2>1, <2>4, <3>5 DEF PacketStep
      <4> HIDE DEF F, Typed, next
      <4> QED BY <3>4, <4>1
    <3>6. CASE id \in PacketIDs
      <4>1. F[o] = [F[next] EXCEPT !.packets = <<packet>> \o @]
        BY <2>1, <2>4, <3>6 DEF PacketStep
      <4>2. SubSeq(p, o + 4, next) \in Seq(Nat)
        <5>1. o + 4 \in Int /\ next \in Int /\ \A i \in o + 4 .. next : p[i] \in Nat
          <6>1. \A i \in 1 .. n : p[i] \in Nat
            OBVIOUS
          <6> HIDE DEF next
          <6>2. o + 4 \in Int /\ next \in Int /\ \A i \in o + 4 .. next : i \in 1 .. n
            BY <1>1, <2>1, <3>2
          <6> QED BY <6>1, <6>2
        <5> HIDE DEF next, o
        <5> QED BY <5>1, SubSeqProperties
      <4>3. packet \in AllPackets
        BY <3>6, <4>2, PacketType
      <4> HIDE DEF F, Typed, next, packet
      <4>4. Typed(F[o])
        BY <1>3, <3>4, <4>1, <4>3
      <4> QED BY <4>4
    <3> QED BY <3>5, <3>6
  <2> QED BY <2>2, <2>3, <2>4
<1>5. P = 0 .. n
  <2>1. P \in SUBSET (0 .. n)
    OBVIOUS
  <2> HIDE DEF P
  <2> QED BY <1>1, <1>4, <2>1, AllBelow, Zenon
<1>6. ASSUME NEW o \in 0 .. n PROVE Typed(F[o])
  <2>1. n - o \in 0 .. n /\ n - (n - o) = o
    BY <1>1
  <2> HIDE DEF Typed
  <2> QED BY <1>5, <2>1
<1> QED BY <1>6

----------------------------------------------------------------------------
\* What is kept of the beginning of a list.

KeepUpTo(list, k, places) == Keep(SubSeq(list, 1, k), places)

LEMMA BeginningIs ==
  ASSUME NEW D, NEW list \in Seq(D), NEW k \in 0 .. Len(list)
  PROVE  /\ SubSeq(list, 1, k) \in Seq(D) /\ Len(SubSeq(list, 1, k)) = k
         /\ DOMAIN SubSeq(list, 1, k) = 1 .. k
         /\ \A i \in 1 .. k : SubSeq(list, 1, k)[i] = list[i]
         /\ k = 0 => SubSeq(list, 1, k) = <<>>
         /\ k = Len(list) => SubSeq(list, 1, k) = list
         /\ k < Len(list) => SubSeq(list, 1, k + 1) = Append(SubSeq(list, 1, k), list[k + 1])
<1> DEFINE b == SubSeq(list, 1, k)
<1>1. /\ Len(list) \in Nat /\ k \in Nat /\ k <= Len(list)
      /\ \A i \in 1 .. k : list[i] \in D
  OBVIOUS
<1>2. b \in Seq(D) /\ Len(b) = k /\ \A i \in 1 .. k : b[i] = list[i]
  OBVIOUS
<1>3. DOMAIN b = 1 .. k
  <2> HIDE DEF b
  <2> QED BY <1>2
<1>4. k = 0 => b = <<>>
  <2> HIDE DEF b
  <2> QED BY <1>2
<1>5. k = Len(list) => b = list
  <2> HIDE DEF b
  <2> QED BY <1>2
<1>6. ASSUME k < Len(list) PROVE SubSeq(list, 1, k + 1) = Append(b, list[k + 1])
  <2> DEFINE c == SubSeq(list, 1, k + 1)
  <2>1. k + 1 \in 0 .. Len(list) /\ list[k + 1] \in D
    BY <1>1, <1>6
  <2>2. c \in Seq(D) /\ Len(c) = k + 1 /\ \A i \in 1 .. k + 1 : c[i] = list[i]
    BY <2>1
  <2> HIDE DEF b, c
  <2>3. c = Append(b, list[k + 1])
    BY <1>1, <1>2, <2>1, <2>2
  <2> QED BY <2>3 DEF c
<1> HIDE DEF b
<1> QED BY <1>1, <1>2, <1>3, <1>4, <1>5, <1>6 DEF b

KeepsNext(D, list, places) ==
  /\ KeepUpTo(list, 0, places) = <<>>
  /\ KeepUpTo(list, Len(list), places) = Keep(list, places)
  /\ \A k \in 0 .. Len(list) : KeepUpTo(list, k, places) \in Seq(D)
  /\ \A k \in 0 .. Len(list) - 1 :
        KeepUpTo(list, k + 1, places) =
          IF k + 1 \in places THEN Append(KeepUpTo(list, k, places), list[k + 1])
                              ELSE KeepUpTo(list, k, places)

LEMMA KeepNext ==
  ASSUME NEW D, NEW list \in Seq(D), NEW places
  PROVE  KeepsNext(D, list, places)
<1> DEFINE n == Len(list)
           part(k) == SubSeq(list, 1, k)
<1>1. n \in Nat /\ 0 \in 0 .. n /\ n \in 0 .. n /\ \A i \in 1 .. n : list[i] \in D
  OBVIOUS
<1>2. \A k \in 0 .. n : /\ part(k) \in Seq(D) /\ Len(part(k)) = k /\ DOMAIN part(k) = 1 .. k
                        /\ \A i \in 1 .. k : part(k)[i] = list[i]
  BY BeginningIs
<1>3. part(0) = <<>> /\ part(n) = list
  BY <1>1, BeginningIs
<1>4. ASSUME NEW k \in 0 .. n - 1
      PROVE  k \in 0 .. n /\ k + 1 \in 1 .. n /\ part(k + 1) = Append(part(k), list[k + 1])
  <2>1. k \in 0 .. n /\ k < n /\ k + 1 \in 1 .. n
    BY <1>1
  <2> QED BY <2>1, BeginningIs
<1> HIDE DEF n, part
<1>5. KeepUpTo(list, 0, places) = <<>>
  BY <1>3, KeepEmpty DEF KeepUpTo, part
<1>6. KeepUpTo(list, n, places) = Keep(list, places)
  BY <1>3 DEF KeepUpTo, part
<1>7. ASSUME NEW k \in 0 .. n PROVE KeepUpTo(list, k, places) \in Seq(D)
  <2>1. k \in Nat /\ DOMAIN part(k) = 1 .. k /\ \A i \in 1 .. k : part(k)[i] \in D
    BY <1>1, <1>2
  <2>2. Keep(part(k), places) \in Seq(D)
    BY <2>1, KeepType
  <2> QED BY <2>2 DEF KeepUpTo, part
<1>8. ASSUME NEW k \in 0 .. n - 1
      PROVE  KeepUpTo(list, k + 1, places) =
               IF k + 1 \in places THEN Append(KeepUpTo(list, k, places), list[k + 1])
                                   ELSE KeepUpTo(list, k, places)
  <2> DEFINE l == part(k)
             x == list[k + 1]
  <2>1. l \in Seq(D) /\ x \in D /\ Len(l) = k /\ part(k + 1) = Append(l, x)
    BY <1>1, <1>2, <1>4
  <2> HIDE DEF l, x
  <2>2. Keep(Append(l, x), places) = IF Len(l) + 1 \in places
                                     THEN Append(Keep(l, places), x) ELSE Keep(l, places)
    BY <2>1, KeepAppend
  <2>3. Keep(part(k + 1), places) = IF k + 1 \in places
                                    THEN Append(Keep(l, places), x) ELSE Keep(l, places)
    BY <2>1, <2>2
  <2> QED BY <2>3 DEF KeepUpTo, part, l, x
<1> QED BY <1>5, <1>6, <1>7, <1>8 DEF n, KeepsNext

\* It is a prefix of what is kept of more of the list.
LEMMA KeepGrows ==
  ASSUME NEW D, NEW list \in Seq(D), NEW places, NEW k \in 0 .. Len(list)
  PROVE  /\ Len(KeepUpTo(list, k, places)) <= Len(Keep(list, places))
         /\ \A i \in 1 .. Len(KeepUpTo(list, k, places)) :
               KeepUpTo(list, k, places)[i] = Keep(list, places)[i]
<1> DEFINE n == Len(list)
           K(m) == KeepUpTo(list, m, places)
           Longer(m) == /\ Len(K(k)) <= Len(K(m))
                        /\ \A i \in 1 .. Len(K(k)) : K(k)[i] = K(m)[i]
           P == {m \in 0 .. n : m >= k => Longer(m)}
<1>1. n \in Nat /\ k \in 0 .. n
  OBVIOUS
<1>2. /\ K(n) = Keep(list, places)
      /\ \A m \in 0 .. n : K(m) \in Seq(D)
      /\ \A m \in 0 .. n - 1 : K(m + 1) = IF m + 1 \in places THEN Append(K(m), list[m + 1])
                                          ELSE K(m)
  <2>1. KeepsNext(D, list, places)
    BY KeepNext
  <2> QED BY <2>1, Zenon DEF KeepsNext
<1>3. \A i \in 1 .. n : list[i] \in D
  OBVIOUS
<1> HIDE DEF n, K
<1>4. \A m \in 0 .. n : Len(K(m)) \in Nat
  BY <1>2
<1>5. ASSUME NEW m \in 0 .. n, Longer(m), m + 1 \in 0 .. n PROVE Longer(m + 1)
  <2>1. CASE K(m + 1) = K(m)
    BY <1>5, <2>1
  <2>2. CASE K(m + 1) = Append(K(m), list[m + 1])
    <3>1. K(m) \in Seq(D) /\ list[m + 1] \in D /\ Len(K(m)) \in Nat /\ Len(K(k)) \in Nat
      BY <1>1, <1>2, <1>3, <1>4, <1>5
    <3>2. /\ Len(K(m + 1)) = Len(K(m)) + 1
          /\ \A i \in 1 .. Len(K(m)) : K(m + 1)[i] = K(m)[i]
      BY <2>2, <3>1, AppendProperties
    <3> QED BY <1>5, <3>1, <3>2
  <2>3. m \in 0 .. n - 1
    BY <1>1, <1>5
  <2> QED BY <1>2, <2>1, <2>2, <2>3
<1>6. Longer(k)
  BY <1>1, <1>4
<1>7. 0 \in P
  <2>1. 0 \in 0 .. n /\ (0 >= k => k = 0)
    BY <1>1
  <2> QED BY <1>6, <2>1
<1>8. ASSUME NEW m \in 0 .. n - 1, m \in P PROVE m + 1 \in P
  <2>1. m \in 0 .. n /\ m + 1 \in 0 .. n /\ (m + 1 >= k => m + 1 = k \/ m >= k)
    BY <1>1
  <2> HIDE DEF Longer
  <2> QED BY <1>5, <1>6, <1>8, <2>1
<1>9. P = 0 .. n
  <2>1. P \in SUBSET (0 .. n)
    OBVIOUS
  <2> HIDE DEF P
  <2> QED BY <1>1, <1>7, <1>8, <2>1, Upward, Zenon
<1>10. Longer(n)
  <2>1. n \in 0 .. n /\ n >= k
    BY <1>1
  <2> HIDE DEF Longer
  <2> QED BY <1>9, <2>1
<1> QED BY <1>2, <1>10 DEF n, K

\* What stands at one of the places is kept.
LEMMA KeptIs ==
  ASSUME NEW D, NEW list \in Seq(D), NEW places,
         NEW k \in 0 .. Len(list), NEW i \in 1 .. k, i \in places
  PROVE  \E j \in 1 .. Len(KeepUpTo(list, k, places)) : KeepUpTo(list, k, places)[j] = list[i]
<1> DEFINE n == Len(list)
           K(m) == KeepUpTo(list, m, places)
           Has(m) == \E j \in 1 .. Len(K(m)) : K(m)[j] = list[i]
           P == {m \in 0 .. n : m >= i => Has(m)}
<1>1. n \in Nat /\ k \in 0 .. n /\ i \in 1 .. k /\ i \in 1 .. n
  OBVIOUS
<1>2. /\ \A m \in 0 .. n : K(m) \in Seq(D)
      /\ \A m \in 0 .. n - 1 : K(m + 1) = IF m + 1 \in places THEN Append(K(m), list[m + 1])
                                          ELSE K(m)
  BY KeepNext, Zenon DEF KeepsNext
<1>3. \A m \in 1 .. n : list[m] \in D
  OBVIOUS
<1> HIDE DEF n, K
<1>4. ASSUME NEW m \in 0 .. n - 1, m + 1 \in places
      PROVE  /\ Len(K(m)) \in Nat /\ Len(K(m + 1)) = Len(K(m)) + 1
             /\ \A j \in 1 .. Len(K(m)) : K(m + 1)[j] = K(m)[j]
             /\ K(m + 1)[Len(K(m)) + 1] = list[m + 1]
  <2>1. /\ K(m) \in Seq(D) /\ list[m + 1] \in D /\ K(m + 1) = Append(K(m), list[m + 1])
        /\ Len(K(m)) \in Nat
    <3>1. m \in 0 .. n /\ m + 1 \in 1 .. n
      BY <1>1
    <3>2. K(m) \in Seq(D) /\ list[m + 1] \in D
      BY <1>2, <1>3, <3>1
    <3>3. K(m + 1) = Append(K(m), list[m + 1])
      BY <1>2, <1>4
    <3>4. Len(K(m)) \in Nat
      BY <3>2
    <3> QED BY <3>2, <3>3, <3>4
  <2> QED BY <2>1, AppendProperties
<1>5. ASSUME NEW m \in 0 .. n - 1, m >= i => Has(m), m + 1 >= i PROVE Has(m + 1)
  <2>1. CASE m + 1 = i
    <3>1. m + 1 \in places
      BY <2>1
    <3>2. Len(K(m)) + 1 \in 1 .. Len(K(m + 1)) /\ K(m + 1)[Len(K(m)) + 1] = list[i]
      BY <1>4, <2>1, <3>1
    <3> QED BY <3>2
  <2>2. CASE m >= i /\ m + 1 \in places
    <3>1. PICK j \in 1 .. Len(K(m)) : K(m)[j] = list[i]
      BY <1>5, <2>2
    <3>2. j \in 1 .. Len(K(m + 1)) /\ K(m + 1)[j] = list[i]
      BY <1>4, <2>2, <3>1
    <3> QED BY <3>2
  <2>3. CASE m >= i /\ m + 1 \notin places
    <3>1. K(m + 1) = K(m)
      BY <1>2, <2>3
    <3> QED BY <1>5, <2>3, <3>1
  <2> QED BY <1>1, <1>5, <2>1, <2>2, <2>3
<1>6. 0 \in P
  BY <1>1
<1>7. ASSUME NEW m \in 0 .. n - 1, m \in P PROVE m + 1 \in P
  <2>1. m + 1 \in 0 .. n
    BY <1>1
  <2> HIDE DEF Has
  <2> QED BY <1>5, <1>7, <2>1
<1>8. P = 0 .. n
  <2>1. P \in SUBSET (0 .. n)
    OBVIOUS
  <2> HIDE DEF P
  <2> QED BY <1>1, <1>6, <1>7, <2>1, Upward, Zenon
<1>9. Has(k)
  <2>1. k \in 0 .. n /\ k >= i
    BY <1>1
  <2> HIDE DEF Has
  <2> QED BY <1>8, <2>1
<1> QED BY <1>9 DEF K

----------------------------------------------------------------------------
\* The packets of a message that is whole, or lacks its end.

AnyPackets == {[id |-> i, data |-> d] : i \in Nat, d \in Seq(Nat)}

LEMMA AnyPacketType ==
  ASSUME NEW i \in Nat, NEW d \in Seq(Nat)
  PROVE  [id |-> i, data |-> d] \in AnyPackets
  BY DEF AnyPackets

LEMMA IDsAreNumbers == PacketIDs \in SUBSET Nat
<1>1. \A type \in Types : PacketID[type] \in Nat
  BY DEF Types, PacketID, ID
<1> QED BY <1>1 DEF PacketIDs

LEMMA KnownPackets == \A l \in Seq(AllPackets) : l \in Seq(AnyPackets)
<1>1. AllPackets \subseteq AnyPackets
  <2> SUFFICES ASSUME NEW i \in PacketIDs, NEW d \in Seq(Nat)
               PROVE  [id |-> i, data |-> d] \in AnyPackets
    BY DEF AllPackets
  <2> QED BY IDsAreNumbers, AnyPacketType
<1> HIDE DEF AllPackets, AnyPackets
<1> QED BY <1>1

LEMMA Associate ==
  ASSUME NEW D, NEW a \in Seq(D), NEW b \in Seq(D), NEW x \in D
  PROVE  Append(a, x) \o b = a \o (<<x>> \o b)
  OBVIOUS

\* A packet: three bytes, and the data.
LEMMA PacketIs ==
  ASSUME NEW id \in Nat, NEW d \in Seq(Nat)
  PROVE  /\ Packet(id, d) \in Seq(Nat)
         /\ Len(d) \in Nat /\ Len(Packet(id, d)) = 3 + Len(d)
         /\ Packet(id, d)[1] = TwoBytes(id)[1] /\ Packet(id, d)[2] = TwoBytes(id)[2]
         /\ Packet(id, d)[3] = Len(d)
         /\ \A j \in 1 .. Len(d) : Packet(id, d)[3 + j] = d[j]
<1> DEFINE a == TwoBytes(id)
           b == <<Len(d)>>
           c == a \o b
           w == c \o d
           l == Len(a)
           m == Len(b)
           k == Len(d)
           h == Len(c)
<1>1. a \in Seq(Nat) /\ l = 2
  BY TwoBytesType
<1>2. b \in Seq(Nat) /\ m = 1 /\ b[1] = k /\ k \in Nat
  OBVIOUS
<1>3. w = Packet(id, d)
  BY DEF Packet
<1>10. c = a \o b /\ w = c \o d
  OBVIOUS
<1>4. /\ c \in Seq(Nat) /\ h = l + m
      /\ \A j \in 1 .. l : c[j] = a[j]
      /\ \A j \in 1 .. m : c[l + j] = b[j]
  <2>1. a \in Seq(Nat) /\ b \in Seq(Nat)
    BY <1>1, <1>2
  <2> HIDE DEF a, b, c, w
  <2>2. c \in Seq(Nat)
    BY <1>10, <2>1, Lengths
  <2> QED BY <1>10, <2>1, <2>2, Places
<1>5. /\ w \in Seq(Nat) /\ Len(w) = h + k
      /\ \A j \in 1 .. h : w[j] = c[j]
      /\ \A j \in 1 .. k : w[h + j] = d[j]
  <2> HIDE DEF a, b, c, w
  <2>1. w \in Seq(Nat)
    BY <1>4, <1>10, Lengths
  <2> QED BY <1>4, <1>10, <2>1, Places
<1> HIDE DEF a, b, c, w, l, m, h, k
<1>6. h = 3
  BY <1>1, <1>2, <1>4
<1>7. w[1] = a[1] /\ w[2] = a[2]
  <2>1. w[1] = c[1] /\ w[2] = c[2]
    BY <1>5, <1>6
  <2>2. c[1] = a[1] /\ c[2] = a[2]
    BY <1>1, <1>4
  <2> QED BY <2>1, <2>2
<1>8. w[3] = k
  <2>1. w[3] = c[3]
    BY <1>5, <1>6
  <2>2. 1 \in 1 .. m /\ l + 1 = 3
    BY <1>1, <1>2
  <2>3. c[3] = b[1]
    BY <1>4, <2>2
  <2> QED BY <1>2, <2>1, <2>3
<1> QED BY <1>2, <1>3, <1>5, <1>6, <1>7, <1>8 DEF a, k

Laid(ids, data) == [k \in DOMAIN ids |-> Packet(ids[k], data[k])]

IDsWith(ids, data) == [k \in DOMAIN ids |-> [id |-> ids[k], data |-> data[k]]]

\* Where the k-th packet stands.
LEMMA LaidAt ==
  ASSUME NEW n \in Nat, NEW ids \in [1 .. n -> Nat], NEW data \in [1 .. n -> Seq(Nat)]
  PROVE  LET s == Laid(ids, data)
         IN  /\ s \in Seq(Seq(Nat)) /\ Len(s) = n
             /\ Ends(s)[0] = 0 /\ Ends(s)[n] = Len(FlattenSeq(s))
             /\ \A k \in 0 .. n : Ends(s)[k] \in Nat /\ Ends(s)[k] <= Len(FlattenSeq(s))
             /\ \A k \in 1 .. n :
                  /\ Len(data[k]) \in Nat
                  /\ Ends(s)[k] = Ends(s)[k - 1] + 3 + Len(data[k])
                  /\ FlattenSeq(s)[Ends(s)[k - 1] + 1] = TwoBytes(ids[k])[1]
                  /\ FlattenSeq(s)[Ends(s)[k - 1] + 2] = TwoBytes(ids[k])[2]
                  /\ FlattenSeq(s)[Ends(s)[k - 1] + 3] = Len(data[k])
                  /\ \A j \in 1 .. Len(data[k]) :
                       FlattenSeq(s)[Ends(s)[k - 1] + 3 + j] = data[k][j]
<1> DEFINE s == Laid(ids, data)
           E == Ends(s)
           w == FlattenSeq(s)
           V == Seq(Nat)
<1>1. \A k \in 1 .. n : s[k] = Packet(ids[k], data[k])
  BY DEF Laid
<1>2. \A k \in 1 .. n :
         /\ s[k] \in V
         /\ Len(data[k]) \in Nat /\ Len(s[k]) = 3 + Len(data[k])
         /\ s[k][1] = TwoBytes(ids[k])[1] /\ s[k][2] = TwoBytes(ids[k])[2]
         /\ s[k][3] = Len(data[k])
         /\ \A j \in 1 .. Len(data[k]) : s[k][3 + j] = data[k][j]
  <2> HIDE DEF s
  <2> TAKE k \in 1 .. n
  <2> DEFINE i == ids[k]
             d == data[k]
  <2>1. s[k] = Packet(i, d) /\ i \in Nat /\ d \in Seq(Nat)
    BY <1>1
  <2> HIDE DEF i, d
  <2> DEFINE p == Packet(i, d)
             t == TwoBytes(i)
  <2>2. /\ p \in Seq(Nat)
        /\ Len(d) \in Nat /\ Len(p) = 3 + Len(d)
        /\ p[1] = t[1] /\ p[2] = t[2] /\ p[3] = Len(d)
        /\ \A j \in 1 .. Len(d) : p[3 + j] = d[j]
    BY <2>1, PacketIs
  <2>3. s[k] = p
    BY <2>1
  <2> HIDE DEF p, t
  <2> QED BY <2>2, <2>3, Zenon DEF V, i, d, t
<1>3. s \in Seq(V) /\ Len(s) = n
  <2>1. s = [k \in 1 .. n |-> s[k]]
    BY DEF Laid
  <2> HIDE DEF s, V
  <2>2. s \in [1 .. n -> V]
    BY <1>2, <2>1
  <2> QED BY <2>2
<1> HIDE DEF s
<1>4. /\ E[0] = 0 /\ E[n] = Len(w)
      /\ \A k \in 0 .. n : E[k] \in Nat
      /\ \A k \in 1 .. n : E[k] = E[k - 1] + Len(s[k])
  BY <1>3, EndsAre DEF V
<1>5. \A k \in 1 .. n : /\ E[k] <= Len(w)
                        /\ \A j \in 1 .. Len(s[k]) : w[E[k - 1] + j] = s[k][j]
  BY <1>3, PartIs DEF V
<1> HIDE DEF E, w
<1>6. ASSUME NEW k \in 0 .. n PROVE E[k] <= Len(w)
  <2>1. k \in 1 .. n \/ k = 0
    OBVIOUS
  <2>2. n \in 1 .. n \/ n = 0
    OBVIOUS
  <2>3. 0 <= Len(w)
    BY <1>4
  <2> QED BY <1>4, <1>5, <2>1, <2>3
<1>7. ASSUME NEW k \in 1 .. n
      PROVE  /\ Len(data[k]) \in Nat
             /\ E[k] = E[k - 1] + 3 + Len(data[k])
             /\ w[E[k - 1] + 1] = TwoBytes(ids[k])[1]
             /\ w[E[k - 1] + 2] = TwoBytes(ids[k])[2]
             /\ w[E[k - 1] + 3] = Len(data[k])
             /\ \A j \in 1 .. Len(data[k]) : w[E[k - 1] + 3 + j] = data[k][j]
  <2> DEFINE l == Len(data[k])
             e == E[k - 1]
  <2>1. k - 1 \in 0 .. n
    OBVIOUS
  <2>2. l \in Nat /\ Len(s[k]) = 3 + l /\ e \in Nat
    BY <1>2, <1>4, <2>1
  <2>3. \A j \in 1 .. 3 + l : w[e + j] = s[k][j]
    BY <1>5, <2>2
  <2>4. E[k] = e + (3 + l)
    BY <1>4, <2>2
  <2>5. \A j \in 1 .. l : s[k][3 + j] = data[k][j]
    BY <1>2
  <2>6. s[k][1] = TwoBytes(ids[k])[1] /\ s[k][2] = TwoBytes(ids[k])[2] /\ s[k][3] = l
    BY <1>2
  <2> HIDE DEF l, e
  <2>7. w[e + 1] = s[k][1] /\ w[e + 2] = s[k][2] /\ w[e + 3] = s[k][3]
    BY <2>2, <2>3
  <2>8. ASSUME NEW j \in 1 .. l PROVE w[e + 3 + j] = data[k][j]
    <3>1. 3 + j \in 1 .. 3 + l /\ e + 3 + j = e + (3 + j)
      BY <2>2
    <3> QED BY <2>3, <2>5, <3>1
  <2>9. E[k] = e + 3 + l
    BY <2>2, <2>4
  <2> QED BY <2>2, <2>6, <2>7, <2>8, <2>9 DEF l, e
<1> QED BY <1>3, <1>4, <1>6, <1>7 DEF E, w, s, V

LEMMA PartOf ==
  ASSUME NEW D, NEW p \in Seq(D), NEW d \in Seq(D), NEW e \in Nat,
         e + Len(d) <= Len(p), \A j \in 1 .. Len(d) : p[e + j] = d[j]
  PROVE  SubSeq(p, e + 1, e + Len(d)) = d
<1> DEFINE l == Len(d)
           q == SubSeq(p, e + 1, e + l)
<1>1. l \in Nat /\ d = [j \in 1 .. l |-> d[j]]
  OBVIOUS
<1>2. Len(q) = l /\ q = [j \in 1 .. l |-> q[j]] /\ \A j \in 1 .. l : q[j] = p[e + j]
  OBVIOUS
<1>3. \A j \in 1 .. l : q[j] = d[j]
  BY <1>2
<1> HIDE DEF q, l
<1>4. q = d
  BY <1>1, <1>2, <1>3, Zenon
<1> QED BY <1>4 DEF q, l

\* p is the beginning of w.
Begins(p, w) == Len(p) <= Len(w) /\ \A i \in 1 .. Len(p) : p[i] = w[i]

\* What the loop does at the k-th packet.
StepIs(ids, data, p, F, k) ==
  LET here == Ends(Laid(ids, data))[k - 1]
      next == Ends(Laid(ids, data))[k]
  IN  /\ next > Len(p) => PacketStep(p, F, here).packets = <<>>
      /\ next <= Len(p) =>
           PacketStep(p, F, here) =
             IF ids[k] \notin PacketIDs THEN F[next]
             ELSE [F[next] EXCEPT !.packets = <<IDsWith(ids, data)[k]>> \o @]

LEMMA StepAt ==
  ASSUME NEW n \in Nat, NEW ids \in [1 .. n -> Nat], NEW data \in [1 .. n -> Seq(Nat)],
         NEW p \in Seq(Nat), Begins(p, FlattenSeq(Laid(ids, data))),
         NEW k \in 1 .. n, NEW F
  PROVE  StepIs(ids, data, p, F, k)
<1> DEFINE w == FlattenSeq(Laid(ids, data))
           here == Ends(Laid(ids, data))[k - 1]
           next == Ends(Laid(ids, data))[k]
           d == data[k]
           l == Len(d)
           t == TwoBytes(ids[k])
           m == Len(p)
           id == FromBytes(SubSeq(p, here + 1, here + 2))
           part == SubSeq(p, here + 4, here + 3 + p[here + 3])
<1>1. m \in Nat /\ \A i \in 1 .. m : p[i] = w[i]
  BY DEF Begins
<1>2. here \in Nat /\ k - 1 \in 0 .. n
  <2>1. k - 1 \in 0 .. n
    OBVIOUS
  <2> QED BY <2>1, LaidAt
<1>3. /\ l \in Nat /\ next = here + 3 + l
      /\ w[here + 1] = t[1] /\ w[here + 2] = t[2] /\ w[here + 3] = l
      /\ \A j \in 1 .. l : w[here + 3 + j] = d[j]
  BY LaidAt
<1>4. t = <<t[1], t[2]>> /\ FromBytes(t) = ids[k] /\ d \in Seq(Nat)
  BY TwoBytesType, FromTwoBytes
<1>5. PacketStep(p, F, here) =
        IF here + 3 > m THEN [packets |-> <<>>, truncated |-> FALSE]
        ELSE IF here + 3 + p[here + 3] > m THEN [packets |-> <<>>, truncated |-> TRUE]
        ELSE IF id \notin PacketIDs THEN F[here + 3 + p[here + 3]]
        ELSE [F[here + 3 + p[here + 3]] EXCEPT !.packets = <<[id |-> id, data |-> part]>> \o @]
  BY DEF PacketStep
<1> HIDE DEF w, here, next, d, l, t, m, id, part
<1>6. ASSUME here + 3 <= m PROVE p[here + 3] = l
  <2>1. here + 3 \in 1 .. m
    BY <1>1, <1>2, <1>6
  <2> QED BY <1>1, <1>3, <2>1
<1>7. ASSUME next > m PROVE PacketStep(p, F, here).packets = <<>>
  <2>1. CASE here + 3 > m
    BY <1>5, <2>1
  <2>2. CASE here + 3 <= m
    <3>1. here + 3 + p[here + 3] > m /\ ~(here + 3 > m)
      BY <1>1, <1>2, <1>3, <1>6, <1>7, <2>2
    <3> QED BY <1>5, <3>1
  <2> QED BY <1>1, <1>2, <2>1, <2>2
<1>8. ASSUME next <= m
      PROVE  PacketStep(p, F, here) =
               IF ids[k] \notin PacketIDs THEN F[next]
               ELSE [F[next] EXCEPT !.packets = <<[id |-> ids[k], data |-> d]>> \o @]
  <2>1. /\ ~(here + 3 > m) /\ p[here + 3] = l /\ here + 3 + p[here + 3] = next
        /\ ~(here + 3 + p[here + 3] > m)
    <3>1. here + 3 <= m
      BY <1>1, <1>2, <1>3, <1>8
    <3>2. p[here + 3] = l
      BY <3>1, <1>6
    <3> QED BY <1>1, <1>2, <1>3, <1>8, <3>1, <3>2
  <2>2. id = ids[k]
    <3>1. here + 1 \in 1 .. m /\ here + 2 \in 1 .. m
      BY <1>1, <1>2, <1>3, <1>8
    <3>2. p[here + 1] = t[1] /\ p[here + 2] = t[2]
      BY <1>1, <1>3, <3>1
    <3>3. SubSeq(p, here + 1, here + 2) = <<p[here + 1], p[here + 2]>>
      <4>1. here + 1 \in Int /\ 1 <= here + 1 /\ (here + 1) + 1 <= Len(p)
            /\ (here + 1) + 1 = here + 2
        BY <1>1, <1>2, <1>3, <1>8 DEF m
      <4> QED BY <4>1, PairAt
    <3> QED BY <1>4, <3>2, <3>3 DEF id
  <2>3. part = d
    <3> DEFINE e == here + 3
    <3>1. e \in Nat /\ e + l <= m /\ next = e + l /\ e + 1 = here + 4
      BY <1>1, <1>2, <1>3, <1>8
    <3>2. ASSUME NEW j \in 1 .. l PROVE p[e + j] = d[j]
      <4>1. e + j \in 1 .. m
        BY <1>1, <1>3, <3>1
      <4> QED BY <1>1, <1>3, <4>1
    <3> HIDE DEF e
    <3>3. SubSeq(p, e + 1, e + l) = d
      BY <1>4, <3>1, <3>2, PartOf DEF l, m
    <3>4. part = SubSeq(p, here + 4, next)
      BY <2>1 DEF part
    <3> QED BY <3>1, <3>3, <3>4
  <2> QED BY <1>5, <2>1, <2>2, <2>3
<1>9. IDsWith(ids, data)[k] = [id |-> ids[k], data |-> d]
  BY DEF IDsWith, d
<1> QED BY <1>7, <1>8, <1>9 DEF here, next, m, StepIs

\* Of a beginning of a message, the library gets the known ones of its first
\* K packets; of the whole message, of all of them.
LEMMA BeginningDecoded ==
  ASSUME NEW n \in Nat, NEW ids \in [1 .. n -> Nat], NEW data \in [1 .. n -> Seq(Nat)],
         NEW p \in Seq(Nat), Begins(p, FlattenSeq(Laid(ids, data)))
  PROVE  \E K \in 0 .. n :
           /\ Packets(p).packets =
                KeepUpTo(IDsWith(ids, data), K, {i \in 1 .. n : ids[i] \in PacketIDs})
           /\ Len(p) = Len(FlattenSeq(Laid(ids, data))) => K = n /\ ~Packets(p).truncated
<1> DEFINE w == FlattenSeq(Laid(ids, data))
           E == Ends(Laid(ids, data))
           Q == IDsWith(ids, data)
           places == {i \in 1 .. n : ids[i] \in PacketIDs}
           F == PacketsFrom(p)
           m == Len(p)
           kept(k) == KeepUpTo(Q, k, places)
           P == {k \in 0 .. n : \A j \in 0 .. k : E[j] <= m}
<1>1. /\ E[0] = 0 /\ E[n] = Len(w)
      /\ \A k \in 0 .. n : E[k] \in Nat /\ E[k] <= Len(w)
      /\ m \in Nat /\ m <= Len(w)
  <2>1. m \in Nat /\ m <= Len(w)
    BY DEF Begins
  <2>2. E[0] = 0 /\ E[n] = Len(w)
    BY LaidAt
  <2>3. \A k \in 0 .. n : E[k] \in Nat /\ E[k] <= Len(w)
    BY LaidAt
  <2> QED BY <2>1, <2>2, <2>3
<1>2. /\ Q \in Seq(AnyPackets) /\ Len(Q) = n
  <2>1. \A k \in 1 .. n : [id |-> ids[k], data |-> data[k]] \in AnyPackets
    BY AnyPacketType
  <2> HIDE DEF F
  <2> QED BY <2>1 DEF IDsWith
<1>3. \A o \in 0 .. m : /\ F[o] = PacketStep(p, F, o)
                        /\ F[o] = [packets |-> F[o].packets, truncated |-> F[o].truncated]
                        /\ F[o].packets \in Seq(AnyPackets)
  BY PacketsUnfold, PacketsType, KnownPackets
<1>4. \A k \in 1 .. n :
         /\ E[k] > m => PacketStep(p, F, E[k - 1]).packets = <<>>
         /\ E[k] <= m => PacketStep(p, F, E[k - 1]) =
                           IF ids[k] \notin PacketIDs THEN F[E[k]]
                           ELSE [F[E[k]] EXCEPT !.packets = <<Q[k]>> \o @]
  <2> TAKE k \in 1 .. n
  <2>1. StepIs(ids, data, p, F, k)
    <3> HIDE DEF F
    <3> QED BY StepAt
  <2> QED BY <2>1, Zenon DEF StepIs
<1>5. /\ kept(0) = <<>>
      /\ \A k \in 0 .. n : kept(k) \in Seq(AnyPackets)
      /\ \A k \in 0 .. n - 1 : kept(k + 1) = IF k + 1 \in places THEN Append(kept(k), Q[k + 1])
                                             ELSE kept(k)
  <2> HIDE DEF Q, places
  <2>1. KeepsNext(AnyPackets, Q, places)
    BY <1>2, KeepNext
  <2>2. Len(Q) = n
    BY <1>2
  <2> QED BY <2>1, <2>2, Zenon DEF KeepsNext
<1>6. \A k \in 1 .. n : Q[k] \in AnyPackets
  <2> HIDE DEF Q
  <2> QED BY <1>2
<1>7. \A k \in 1 .. n : k \in places <=> ids[k] \in PacketIDs
  OBVIOUS
<1>8. Packets(p) = F[0]
  BY PacketsAre
<1> HIDE DEF w, E, Q, places, F, m, kept
<1>9. PICK K \in 0 .. n : (\A j \in 0 .. K : E[j] <= m) /\ (K = n \/ (K \in 0 .. n - 1 /\ E[K + 1] > m))
  <2>1. 0 \in P
    <3>1. \A j \in 0 .. 0 : j = 0
      OBVIOUS
    <3> QED BY <1>1, <3>1
  <2>2. CASE n \in P
    BY <2>2
  <2>3. CASE n \notin P
    <3>1. PICK k \in 0 .. n - 1 : k \in P /\ k + 1 \notin P
      <4>3. n \in 0 .. n /\ P \in SUBSET (0 .. n)
        OBVIOUS
      <4>1. P \in SUBSET (0 .. n) /\ P # 0 .. n
        BY <2>3, <4>3, Zenon
      <4> HIDE DEF P
      <4>2. ~ \A k \in 0 .. n - 1 : k \in P => k + 1 \in P
        BY <2>1, <4>1, Upward
      <4> QED BY <4>2
    <3>2. k \in 0 .. n /\ k + 1 \in 0 .. n /\ \A j \in 0 .. k + 1 : j \in 0 .. k \/ j = k + 1
      OBVIOUS
    <3>3. \A j \in 0 .. k : E[j] <= m
      BY <3>1
    <3>4. ~(\A j \in 0 .. k + 1 : E[j] <= m)
      BY <3>1, <3>2
    <3>5. E[k + 1] > m
      BY <1>1, <3>2, <3>3, <3>4
    <3> QED BY <3>2, <3>3, <3>5
  <2> QED BY <2>2, <2>3
<1> HIDE DEF P
<1>10. F[E[K]].packets = <<>>
  <2>1. E[K] \in 0 .. m
    BY <1>1, <1>9
  <2>2. CASE K = n
    <3>1. E[K] + 3 > m
      BY <1>1, <2>2
    <3>2. PacketStep(p, F, E[K]).packets = <<>>
      BY <3>1 DEF PacketStep, m
    <3> QED BY <1>3, <2>1, <3>2
  <2>3. CASE K \in 0 .. n - 1 /\ E[K + 1] > m
    <3>1. K + 1 \in 1 .. n /\ (K + 1) - 1 = K
      BY <2>3
    <3>2. PacketStep(p, F, E[K]).packets = <<>>
      BY <1>4, <2>3, <3>1
    <3> QED BY <1>3, <2>1, <3>2
  <2> QED BY <1>9, <2>2, <2>3
<1> DEFINE R(k) == /\ kept(k) \o F[E[k]].packets = F[0].packets
                   /\ F[E[k]].truncated = F[0].truncated
           B == {k \in 0 .. K : R(k)}
<1>11. 0 \in B
  <2>1. 0 \in 0 .. m
    BY <1>1
  <2>2. F[0].packets \in Seq(AnyPackets)
    BY <1>3, <2>1
  <2>3. \A x \in Seq(AnyPackets) : <<>> \o x = x
    OBVIOUS
  <2>4. kept(0) \o F[0].packets = F[0].packets
    BY <1>5, <2>2, <2>3
  <2>5. R(0)
    BY <1>1, <2>4
  <2>6. 0 \in 0 .. K
    OBVIOUS
  <2> HIDE DEF R
  <2> QED BY <2>5, <2>6
<1>12. ASSUME NEW k \in 0 .. K - 1, R(k) PROVE R(k + 1)
  <2>1. /\ k + 1 \in 1 .. n /\ k \in 0 .. n /\ k + 1 \in 0 .. K /\ k \in 0 .. K /\ k \in 0 .. n - 1
        /\ k + 1 \in 0 .. n /\ (k + 1) - 1 = k
    OBVIOUS
  <2>2. E[k] \in 0 .. m /\ E[k + 1] \in 0 .. m /\ E[k + 1] <= m
    BY <1>1, <1>9, <2>1
  <2> DEFINE f == F[E[k]]
             g == F[E[k + 1]]
             x == Q[k + 1]
             a == kept(k)
             b == g.packets
             c == g.truncated
  <2>3. f = IF ids[k + 1] \notin PacketIDs THEN g ELSE [g EXCEPT !.packets = <<x>> \o @]
    BY <1>3, <1>4, <2>1, <2>2
  <2>4. g = [packets |-> b, truncated |-> c] /\ b \in Seq(AnyPackets)
    BY <1>3, <2>2
  <2>5. a \in Seq(AnyPackets) /\ x \in AnyPackets
    BY <1>5, <1>6, <2>1
  <2>6. kept(k + 1) = IF ids[k + 1] \in PacketIDs THEN Append(a, x) ELSE a
    BY <1>5, <1>7, <2>1
  <2>7. a \o f.packets = F[0].packets /\ f.truncated = F[0].truncated
    BY <1>12
  <2> HIDE DEF f, g, x, a, b, c
  <2>8. CASE ids[k + 1] \notin PacketIDs
    BY <2>3, <2>6, <2>7, <2>8 DEF g
  <2>9. CASE ids[k + 1] \in PacketIDs
    <3> DEFINE l == <<x>> \o b
    <3>1. [g EXCEPT !.packets = <<x>> \o @] = [packets |-> l, truncated |-> c]
      <4>1. [g EXCEPT !.packets = <<x>> \o @] = [g EXCEPT !.packets = l]
        BY DEF b
      <4> HIDE DEF l
      <4>2. [g EXCEPT !.packets = l] = [packets |-> l, truncated |-> c]
        BY <2>4
      <4> QED BY <4>1, <4>2
    <3>2. f.packets = l /\ f.truncated = c
      <4> HIDE DEF l
      <4> QED BY <2>3, <2>9, <3>1
    <3>3. Append(a, x) \o b = a \o l
      BY <2>4, <2>5, Associate
    <3> HIDE DEF l
    <3>4. kept(k + 1) \o b = F[0].packets
      BY <2>6, <2>7, <2>9, <3>2, <3>3
    <3> QED BY <2>7, <3>2, <3>4 DEF b, c, g
  <2> QED BY <2>8, <2>9
<1>13. R(K)
  <2>1. B \in SUBSET (0 .. K) /\ K \in Nat
    OBVIOUS
  <2>2. ASSUME NEW k \in 0 .. K - 1, k \in B PROVE k + 1 \in B
    <3>1. k + 1 \in 0 .. K
      OBVIOUS
    <3> HIDE DEF R
    <3> QED BY <1>12, <2>2, <3>1
  <2> HIDE DEF B
  <2>3. B = 0 .. K
    BY <1>11, <2>1, <2>2, Upward
  <2>4. K \in B
    BY <2>1, <2>3
  <2> QED BY <2>4 DEF B
<1>14. kept(K) = Packets(p).packets /\ Packets(p).truncated = F[E[K]].truncated
  <2>1. \A x \in Seq(AnyPackets) : x \o <<>> = x
    OBVIOUS
  <2>2. kept(K) \in Seq(AnyPackets)
    BY <1>5
  <2> QED BY <1>8, <1>10, <1>13, <2>1, <2>2
<1>15. ASSUME m = Len(w) PROVE K = n /\ ~Packets(p).truncated
  <2>1. K = n
    <3>1. SUFFICES ASSUME K \in 0 .. n - 1, E[K + 1] > m PROVE FALSE
      BY <1>9
    <3>2. K + 1 \in 0 .. n
      BY <3>1
    <3> QED BY <1>1, <1>15, <3>1, <3>2
  <2>2. E[n] \in 0 .. m /\ E[n] + 3 > m
    BY <1>1, <1>15
  <2>3. PacketStep(p, F, E[n]).truncated = FALSE
    BY <2>2 DEF PacketStep, m
  <2> QED BY <1>3, <1>14, <2>1, <2>2, <2>3
<1> QED BY <1>14, <1>15 DEF kept, Q, places, m, w
----------------------------------------------------------------------------
\* What the sensor measured, and what is unpacked.

Sums(widths) ==
  CHOOSE sum : sum =
    [i \in 0 .. Len(widths) |-> IF i = 0 THEN 0 ELSE sum[i - 1] + widths[i]]

LEMMA SumIs == ASSUME NEW widths PROVE SumOf(widths) = Sums(widths)[Len(widths)]
  BY DEF SumOf, Sums

LEMMA SumsUnfold ==
  ASSUME NEW b \in Seq(Int)
  PROVE  /\ Sums(b) \in [0 .. Len(b) -> Int]
         /\ Sums(b)[0] = 0
         /\ \A i \in 1 .. Len(b) : Sums(b)[i] = Sums(b)[i - 1] + b[i]
<1> DEFINE n == Len(b)
           step == [i \in 1 .. n |-> [v \in Int |-> v + b[i]]]
<1>1. n \in Nat /\ \A i \in 1 .. n : b[i] \in Int
  OBVIOUS
<1>2. Steps(step, n, Int)
  BY <1>1 DEF Steps
<1>3. PICK f : Filled(f, n, Int, 0, step)
  <2>1. 0 \in Int
    OBVIOUS
  <2> HIDE DEF step, n
  <2> QED BY <1>1, <1>2, <2>1, TableExists, Zenon
<1>10. /\ f \in [0 .. n -> Int] /\ f[0] = 0
      /\ \A i \in 1 .. n : f[i] = step[i][f[i - 1]]
  BY <1>3, Zenon DEF Filled
<1>4. ASSUME NEW i \in 1 .. n PROVE f[i] = f[i - 1] + b[i]
  <2>1. i \in 1 .. n /\ f[i - 1] \in Int
    <3> HIDE DEF step, n
    <3> QED BY <1>10, <1>1
  <2>2. step[i][f[i - 1]] = f[i - 1] + b[i]
    BY <2>1
  <2> QED BY <1>10, <2>2
<1> HIDE DEF step
<1>5. f = [i \in 0 .. n |-> IF i = 0 THEN 0 ELSE f[i - 1] + b[i]]
  <2>1. \A i \in 0 .. n : f[i] = IF i = 0 THEN 0 ELSE f[i - 1] + b[i]
    BY <1>10, <1>4
  <2>2. f = [i \in 0 .. n |-> f[i]]
    BY <1>10
  <2> QED BY <2>1, <2>2, Zenon
<1>6. Sums(b) = [i \in 0 .. n |-> IF i = 0 THEN 0 ELSE Sums(b)[i - 1] + b[i]]
  BY <1>5, Zenon DEF Sums
<1> DEFINE N == Sums(b)
<1>7. N = [i \in 0 .. n |-> IF i = 0 THEN 0 ELSE N[i - 1] + b[i]]
  BY <1>6
<1> HIDE DEF N
<1>8. \A i \in 0 .. n : N[i] = IF i = 0 THEN 0 ELSE N[i - 1] + b[i]
  BY <1>7, Zenon
<1>9. N = f
  <2> DEFINE P == {i \in 0 .. n : N[i] = f[i]}
  <2>1. 0 \in P
    BY <1>10, <1>8
  <2>2. ASSUME NEW i \in 0 .. n - 1, i \in P PROVE i + 1 \in P
    <3>1. i + 1 \in 1 .. n /\ (i + 1) - 1 = i
      OBVIOUS
    <3>2. N[i + 1] = N[i] + b[i + 1] /\ f[i + 1] = f[i] + b[i + 1]
      BY <3>1, <1>4, <1>8
    <3> QED BY <2>2, <3>1, <3>2
  <2>3. P = 0 .. n
    <3>1. P \in SUBSET (0 .. n)
      OBVIOUS
    <3> HIDE DEF P
    <3> QED BY <1>1, <2>1, <2>2, <3>1, Upward, Zenon
  <2>4. N = [i \in 0 .. n |-> N[i]]
    BY <1>7
  <2>5. f = [i \in 0 .. n |-> f[i]]
    BY <1>10
  <2>6. \A i \in 0 .. n : N[i] = f[i]
    BY <2>3
  <2> HIDE DEF n
  <2> QED BY <2>4, <2>5, <2>6, Zenon
<1> QED BY <1>10, <1>4, <1>9 DEF N

\* The bytes of the i-th field, and what they stand for.
Field(width, i) == [byte \in 1 .. width |-> IF byte = width THEN i ELSE 0]

LEMMA FieldIs ==
  ASSUME NEW w \in Nat \ {0}, NEW i \in Nat
  PROVE  /\ Field(w, i) \in Seq(Nat) /\ Len(Field(w, i)) = w
         /\ FromBytes(Field(w, i)) = i
<1> DEFINE b == Field(w, i)
           N == Numbers(b)
           P == {j \in 0 .. w - 1 : N[j] = 0}
<1>1. /\ b \in Seq(Nat) /\ Len(b) = w /\ b[w] = i
      /\ \A j \in 1 .. w - 1 : b[j] = 0
  BY DEF Field
<1> HIDE DEF b
<1>2. b \in Seq(Int)
  BY <1>1
<1>3. N[0] = 0 /\ \A j \in 1 .. w : N[j] = 256 * N[j - 1] + b[j]
  BY <1>1, <1>2, NumbersUnfold
<1>4. FromBytes(b) = N[w]
  BY <1>1, FromBytesIs
<1> HIDE DEF N
<1>5. 0 \in P
  BY <1>3
<1>6. ASSUME NEW j \in 0 .. (w - 1) - 1, j \in P PROVE j + 1 \in P
  <2>1. j + 1 \in 1 .. w - 1 /\ j + 1 \in 1 .. w /\ (j + 1) - 1 = j /\ j + 1 \in 0 .. w - 1
    OBVIOUS
  <2>2. N[j + 1] = 256 * N[j] + b[j + 1] /\ b[j + 1] = 0 /\ N[j] = 0
    BY <1>1, <1>3, <1>6, <2>1
  <2> QED BY <2>1, <2>2
<1>7. P = 0 .. w - 1
  <2>1. P \in SUBSET (0 .. w - 1) /\ w - 1 \in Nat
    OBVIOUS
  <2> HIDE DEF P
  <2> QED BY <1>5, <1>6, <2>1, Upward, Zenon
<1>8. N[w - 1] = 0
  <2>1. w - 1 \in 0 .. w - 1
    OBVIOUS
  <2> QED BY <1>7, <2>1
<1>9. N[w] = 256 * N[w - 1] + b[w]
  BY <1>3
<1> QED BY <1>1, <1>4, <1>8, <1>9 DEF b

Fields(format) == [i \in DOMAIN format |-> Field(format[i], i)]

\* Each field is found where it stands.
LEMMA UnpackIs ==
  ASSUME NEW format \in Seq(Nat \ {0})
  PROVE  /\ FlattenSeq(Fields(format)) \in Seq(Nat)
         /\ Len(FlattenSeq(Fields(format))) = SumOf(format)
         /\ format # <<>> => FlattenSeq(Fields(format)) # <<>>
         /\ Unpack(format, FlattenSeq(Fields(format))) = [i \in DOMAIN format |-> i]
<1> DEFINE n == Len(format)
           s == Fields(format)
           E == Ends(s)
           w == FlattenSeq(s)
           V == Seq(Nat)
           first(i) == SumOf(SubSeq(format, 1, i - 1))
<1>1. /\ n \in Nat /\ DOMAIN format = 1 .. n /\ format \in Seq(Int)
      /\ \A i \in 1 .. n : format[i] \in Nat \ {0}
  OBVIOUS
<1>2. \A i \in 1 .. n : s[i] \in V /\ Len(s[i]) = format[i] /\ FromBytes(s[i]) = i
  <2> TAKE i \in 1 .. n
  <2>1. format[i] \in Nat \ {0} /\ i \in Nat /\ s[i] = Field(format[i], i)
    BY <1>1 DEF Fields
  <2> HIDE DEF s
  <2> QED BY <2>1, FieldIs
<1>3. s \in Seq(V) /\ Len(s) = n
  <2>1. s = [i \in 1 .. n |-> s[i]]
    BY <1>1 DEF Fields
  <2> HIDE DEF s, V, n
  <2>2. s \in [1 .. n -> V]
    BY <1>2, <2>1
  <2> QED BY <1>1, <2>2
<1> HIDE DEF s
<1>4. /\ E[0] = 0 /\ E[n] = Len(w)
      /\ \A i \in 0 .. n : E[i] \in Nat
      /\ \A i \in 1 .. n : E[i] = E[i - 1] + Len(s[i])
  BY <1>3, EndsAre DEF V
<1>5. \A i \in 1 .. n : /\ E[i] <= Len(w)
                        /\ \A j \in 1 .. Len(s[i]) : w[E[i - 1] + j] = s[i][j]
  BY <1>3, PartIs DEF V
<1>6. w \in Seq(Nat)
  BY <1>3, FlattenType DEF V
<1> HIDE DEF E, w, V
<1>7. ASSUME NEW i \in 0 .. n PROVE SumOf(SubSeq(format, 1, i)) = E[i]
  <2> DEFINE g == SubSeq(format, 1, i)
             S == Sums(g)
             P == {j \in 0 .. i : S[j] = E[j]}
  <2>1. g \in Seq(Int) /\ Len(g) = i /\ \A j \in 1 .. i : g[j] = format[j]
    BY <1>1, BeginningIs
  <2> HIDE DEF g
  <2>2. S[0] = 0 /\ \A j \in 1 .. i : S[j] = S[j - 1] + g[j]
    BY <2>1, SumsUnfold
  <2>3. SumOf(g) = S[i]
    BY <2>1, SumIs
  <2> HIDE DEF S
  <2>4. 0 \in P
    BY <1>4, <2>2
  <2>5. ASSUME NEW j \in 0 .. i - 1, j \in P PROVE j + 1 \in P
    <3>1. j + 1 \in 1 .. i /\ j + 1 \in 1 .. n /\ (j + 1) - 1 = j /\ j + 1 \in 0 .. i
      BY <1>1
    <3>2. S[j + 1] = S[j] + format[j + 1]
      BY <2>1, <2>2, <3>1
    <3>3. E[j + 1] = E[j] + format[j + 1]
      BY <1>2, <1>4, <3>1
    <3> QED BY <2>5, <3>1, <3>2, <3>3
  <2>6. P = 0 .. i
    <3>1. P \in SUBSET (0 .. i) /\ i \in Nat
      OBVIOUS
    <3> HIDE DEF P
    <3> QED BY <2>4, <2>5, <3>1, Upward, Zenon
  <2>7. i \in 0 .. i
    BY <1>1
  <2> QED BY <2>3, <2>6, <2>7 DEF g
<1>8. Len(w) = SumOf(format)
  <2>1. n \in 0 .. n /\ SubSeq(format, 1, n) = format
    BY <1>1, BeginningIs
  <2> HIDE DEF n
  <2> QED BY <1>4, <1>7, <2>1
<1>9. ASSUME NEW i \in 1 .. n
      PROVE  FromBytes(SubSeq(w, first(i) + 1, first(i) + format[i])) = i
  <2>1. i - 1 \in 0 .. n
    BY <1>1
  <2>2. first(i) = E[i - 1] /\ E[i - 1] \in Nat /\ E[i] = E[i - 1] + format[i]
    BY <1>2, <1>4, <1>7, <2>1
  <2> DEFINE e == E[i - 1]
             d == s[i]
  <2>3. /\ d \in Seq(Nat) /\ e \in Nat /\ e + Len(d) <= Len(w)
        /\ \A j \in 1 .. Len(d) : w[e + j] = d[j]
    BY <1>2, <1>5, <2>2 DEF V
  <2>4. Len(d) = format[i] /\ FromBytes(d) = i /\ first(i) = e
    BY <1>2, <2>2
  <2> HIDE DEF e, d, first
  <2>5. SubSeq(w, e + 1, e + Len(d)) = d
    BY <1>6, <2>3, PartOf
  <2> QED BY <2>4, <2>5
<1>10. Unpack(format, w) = [i \in 1 .. n |-> i]
  BY <1>1, <1>9 DEF Unpack
<1>11. ASSUME format # <<>> PROVE w # <<>>
  <2>1. 1 \in 1 .. n /\ 1 - 1 = 0
    BY <1>11
  <2>2. E[1] > 0
    BY <1>1, <1>2, <1>4, <2>1
  <2>3. Len(w) > 0
    BY <1>4, <1>5, <1>6, <2>1, <2>2
  <2> QED BY <2>3
<1> QED BY <1>1, <1>6, <1>8, <1>10, <1>11 DEF w, s

\* The formats have the lengths that are asked for.
Widths == Seq(Nat \ {0})

LEMMA WidthsAreInts == \A b \in Widths : b \in Seq(Int)
  BY DEF Widths

LEMMA WordsFit ==
  ASSUME NEW n \in Nat
  PROVE  Words(n) \in Widths /\ Len(Words(n)) = n /\ SumOf(Words(n)) = 4 * n
<1> DEFINE b == Words(n)
           S == Sums(b)
           P == {i \in 0 .. n : S[i] = 4 * i}
<1>1. b \in Widths /\ Len(b) = n /\ \A i \in 1 .. n : b[i] = 4
  BY DEF Words, Widths
<1> HIDE DEF b
<1>2. S[0] = 0 /\ \A i \in 1 .. n : S[i] = S[i - 1] + b[i]
  BY <1>1, WidthsAreInts, SumsUnfold
<1>3. SumOf(b) = S[n]
  BY <1>1, SumIs
<1> HIDE DEF S
<1>4. 0 \in P
  BY <1>2
<1>5. ASSUME NEW i \in 0 .. n - 1, i \in P PROVE i + 1 \in P
  <2>1. i + 1 \in 1 .. n /\ (i + 1) - 1 = i /\ i + 1 \in 0 .. n
    OBVIOUS
  <2>2. S[i + 1] = S[i] + 4
    BY <1>1, <1>2, <2>1
  <2> QED BY <1>5, <2>1, <2>2
<1>6. P = 0 .. n
  <2>1. P \in SUBSET (0 .. n)
    OBVIOUS
  <2> HIDE DEF P
  <2> QED BY <1>4, <1>5, <2>1, Upward, Zenon
<1>7. n \in 0 .. n
  OBVIOUS
<1> QED BY <1>1, <1>3, <1>6, <1>7 DEF b

LEMMA OneFits ==
  ASSUME NEW w \in Nat \ {0}
  PROVE  <<w>> \in Widths /\ SumOf(<<w>>) = w
<1> DEFINE b == <<w>>
           S == Sums(b)
<1>1. b \in Widths /\ Len(b) = 1 /\ b[1] = w
  BY DEF Widths
<1> HIDE DEF b
<1>2. S[0] = 0 /\ \A i \in 1 .. 1 : S[i] = S[i - 1] + b[i]
  BY <1>1, WidthsAreInts, SumsUnfold
<1>3. SumOf(b) = S[1]
  BY <1>1, SumIs
<1> HIDE DEF S
<1>4. S[1] = S[0] + b[1]
  <2>1. 1 \in 1 .. 1 /\ 1 - 1 = 0
    OBVIOUS
  <2> QED BY <1>2, <2>1
<1> QED BY <1>1, <1>2, <1>3, <1>4 DEF b

UtcTime == <<4, 2, 1, 1, 1, 1, 1, 1>>

LEMMA UtcTimeFits == UtcTime \in Widths /\ SumOf(UtcTime) = 12
<1> DEFINE b == UtcTime
           S == Sums(b)
<1>1. /\ b \in Widths /\ Len(b) = 8 /\ b[1] = 4 /\ b[2] = 2
      /\ b[3] = 1 /\ b[4] = 1 /\ b[5] = 1 /\ b[6] = 1 /\ b[7] = 1 /\ b[8] = 1
  BY DEF Widths, UtcTime
<1> HIDE DEF b
<1>2. S[0] = 0 /\ \A i \in 1 .. 8 : S[i] = S[i - 1] + b[i]
  BY <1>1, WidthsAreInts, SumsUnfold
<1>3. SumOf(b) = S[8]
  BY <1>1, SumIs
<1> HIDE DEF S
<1>4. /\ S[1] = S[0] + b[1] /\ S[2] = S[1] + b[2] /\ S[3] = S[2] + b[3] /\ S[4] = S[3] + b[4]
      /\ S[5] = S[4] + b[5] /\ S[6] = S[5] + b[6] /\ S[7] = S[6] + b[7] /\ S[8] = S[7] + b[8]
  BY <1>2
<1> QED BY <1>1, <1>2, <1>3, <1>4 DEF b

LEMMA GnssPvtFits == GnssPvtFormat \in Widths /\ Len(GnssPvtFormat) = 35
<1> DEFINE D == Nat \ {0}
           a == <<4, 2, 1, 1, 1, 1, 1, 1, 4, 4, 1, 1, 1, 1>>
           b == Words(14)
           c == a \o b
           d == [i \in 1 .. 7 |-> 2]
           e == c \o d
           l == Len(a)
           m == Len(b)
           n == Len(d)
<1>1. a \in Seq(D) /\ l = 14
  OBVIOUS
<1>2. b \in Seq(D) /\ m = 14
  BY WordsFit DEF Widths
<1>3. d \in Seq(D) /\ n = 7
  OBVIOUS
<1>4. c = a \o b /\ e = c \o d /\ e = GnssPvtFormat
  BY DEF GnssPvtFormat
<1>5. a \in Seq(D) /\ b \in Seq(D) /\ d \in Seq(D)
  BY <1>1, <1>2, <1>3
<1> HIDE DEF D, a, b, c, d, e
<1>6. c \in Seq(D) /\ Len(c) = l + m
  BY <1>4, <1>5, Lengths
<1>7. e \in Seq(D) /\ Len(e) = Len(c) + n
  BY <1>4, <1>5, <1>6, Lengths
<1>8. Len(e) = l + m + n
  BY <1>6, <1>7
<1> HIDE DEF l, m, n
<1>9. Len(e) = 35
  BY <1>1, <1>2, <1>3, <1>8
<1> QED BY <1>4, <1>7, <1>9 DEF Widths, D

Fits(type) == /\ Format[type] \in Widths /\ Format[type] # <<>>
              /\ SumOf(Format[type]) = ExpectedLength[type]

LEMMA FormatsFit == \A type \in Types : Fits(type)
<1>1. /\ Format["TEMPERATURE"] = Words(1) /\ ExpectedLength["TEMPERATURE"] = 4 * 1
      /\ Format["SAMPLE_TIME_FINE"] = Words(1) /\ ExpectedLength["SAMPLE_TIME_FINE"] = 4 * 1
      /\ Format["BARO_PRESSURE"] = Words(1) /\ ExpectedLength["BARO_PRESSURE"] = 4 * 1
      /\ Format["ALTITUDE_ELLIPSOID"] = Words(1) /\ ExpectedLength["ALTITUDE_ELLIPSOID"] = 4 * 1
      /\ Format["STATUS_WORD"] = Words(1) /\ ExpectedLength["STATUS_WORD"] = 4 * 1
      /\ Format["POSITION_LL_ELLIPSOID"] = Words(2) /\ ExpectedLength["POSITION_LL_ELLIPSOID"] = 4 * 2
  BY DEF Format, ExpectedLength
<1>2. /\ Format["ORIENTATION_EULER"] = Words(3) /\ ExpectedLength["ORIENTATION_EULER"] = 4 * 3
      /\ Format["DELTA_V"] = Words(3) /\ ExpectedLength["DELTA_V"] = 4 * 3
      /\ Format["ACCELERATION"] = Words(3) /\ ExpectedLength["ACCELERATION"] = 4 * 3
      /\ Format["FREE_ACCELERATION"] = Words(3) /\ ExpectedLength["FREE_ACCELERATION"] = 4 * 3
      /\ Format["RATE_OF_TURN"] = Words(3) /\ ExpectedLength["RATE_OF_TURN"] = 4 * 3
      /\ Format["MAGNETIC_FIELD"] = Words(3) /\ ExpectedLength["MAGNETIC_FIELD"] = 4 * 3
      /\ Format["POSITION_ECEF"] = Words(3) /\ ExpectedLength["POSITION_ECEF"] = 4 * 3
      /\ Format["VELOCITY_NED"] = Words(3) /\ ExpectedLength["VELOCITY_NED"] = 4 * 3
      /\ Format["ORIENTATION_QUATERNION"] = Words(4) /\ ExpectedLength["ORIENTATION_QUATERNION"] = 4 * 4
      /\ Format["DELTA_Q"] = Words(4) /\ ExpectedLength["DELTA_Q"] = 4 * 4
  BY DEF Format, ExpectedLength
<1>3. /\ Format["PACKET_COUNTER"] = <<2>> /\ ExpectedLength["PACKET_COUNTER"] = 2
      /\ Format["STATUS_BYTE"] = <<1>> /\ ExpectedLength["STATUS_BYTE"] = 1
      /\ Format["UTC_TIME"] = UtcTime /\ ExpectedLength["UTC_TIME"] = 12
      /\ Format["GNSS_PVT"] = GnssPvtFormat
      /\ ExpectedLength["GNSS_PVT"] = SumOf(GnssPvtFormat)
  BY DEF Format, ExpectedLength, UtcTime
<1>4. Types = {"TEMPERATURE", "SAMPLE_TIME_FINE", "BARO_PRESSURE", "ALTITUDE_ELLIPSOID",
               "STATUS_WORD", "POSITION_LL_ELLIPSOID"}
              \cup {"ORIENTATION_EULER", "DELTA_V", "ACCELERATION", "FREE_ACCELERATION",
                    "RATE_OF_TURN", "MAGNETIC_FIELD", "POSITION_ECEF", "VELOCITY_NED",
                    "ORIENTATION_QUATERNION", "DELTA_Q"}
              \cup {"PACKET_COUNTER", "STATUS_BYTE", "UTC_TIME", "GNSS_PVT"}
  BY DEF Types, PacketID
<1>5. ASSUME NEW n \in 1 .. 4
      PROVE  Words(n) \in Widths /\ Words(n) # <<>> /\ SumOf(Words(n)) = 4 * n
  <2>1. n \in Nat /\ n # 0
    OBVIOUS
  <2>2. Words(n) \in Widths /\ SumOf(Words(n)) = 4 * n /\ Len(Words(n)) = n
    BY <2>1, WordsFit
  <2> QED BY <2>1, <2>2
<1>6. \A type \in {"TEMPERATURE", "SAMPLE_TIME_FINE", "BARO_PRESSURE", "ALTITUDE_ELLIPSOID",
                   "STATUS_WORD", "POSITION_LL_ELLIPSOID"} : Fits(type)
  BY <1>1, <1>5 DEF Fits
<1>7. \A type \in {"ORIENTATION_EULER", "DELTA_V", "ACCELERATION", "FREE_ACCELERATION",
                   "RATE_OF_TURN", "MAGNETIC_FIELD", "POSITION_ECEF", "VELOCITY_NED",
                   "ORIENTATION_QUATERNION", "DELTA_Q"} : Fits(type)
  BY <1>2, <1>5 DEF Fits
<1>8. \A type \in {"PACKET_COUNTER", "STATUS_BYTE", "UTC_TIME", "GNSS_PVT"} : Fits(type)
  <2>1. <<2>> \in Widths /\ SumOf(<<2>>) = 2 /\ <<1>> \in Widths /\ SumOf(<<1>>) = 1
    BY OneFits
  <2>2. <<2>> # <<>> /\ <<1>> # <<>> /\ UtcTime # <<>>
    BY DEF UtcTime
  <2>3. GnssPvtFormat # <<>>
    <3>1. Len(<<>>) = 0 /\ 35 # 0
      OBVIOUS
    <3>2. Len(GnssPvtFormat) = 35
      BY GnssPvtFits
    <3> QED BY <3>1, <3>2, Zenon
  <2> QED BY <1>3, <2>1, <2>2, <2>3, UtcTimeFits, GnssPvtFits DEF Fits
<1> QED BY <1>4, <1>6, <1>7, <1>8, Zenon

LEMMA TypeOfIs == \A id \in PacketIDs : TypeOf[id] \in Types
<1> SUFFICES ASSUME NEW id \in PacketIDs PROVE TypeOf[id] \in Types
  OBVIOUS
<1>1. \E type \in Types : PacketID[type] = id
  BY DEF PacketIDs
<1>2. TypeOf[id] = CHOOSE type \in Types : PacketID[type] = id
  BY DEF TypeOf
<1> QED BY <1>1, <1>2

\* The library reads what the sensor measured.
LEMMA DataIs ==
  ASSUME NEW id \in PacketIDs
  PROVE  /\ Data(id) \in Seq(Nat) /\ Data(id) # <<>>
         /\ HasLength([id |-> id, data |-> Data(id)])
         /\ Decode([id |-> id, data |-> Data(id)]) = Reading[TypeOf[id]]
<1> DEFINE type == TypeOf[id]
           format == Format[type]
           packet == [id |-> id, data |-> Data(id)]
           d == Data(id)
<1>1. type \in Types
  BY TypeOfIs
<1>2. format \in Widths /\ format # <<>> /\ SumOf(format) = ExpectedLength[type]
  BY <1>1, FormatsFit DEF Fits
<1>3. d = FlattenSeq(Fields(format))
  BY DEF Data, Fields, Field
<1> HIDE DEF format, d
<1>4. /\ d \in Seq(Nat) /\ Len(d) = SumOf(format) /\ d # <<>>
      /\ Unpack(format, d) = [i \in DOMAIN format |-> i]
  BY <1>2, <1>3, UnpackIs DEF Widths
<1>5. packet.id = id /\ packet.data = d
  BY DEF d
<1> HIDE DEF packet
<1>6. HasLength(packet)
  BY <1>2, <1>4, <1>5 DEF HasLength
<1>7. Decode(packet) =
        [type   |-> type,
         values |-> IF type = "GNSS_PVT" THEN RemoveAt(Unpack(format, d), 14)
                    ELSE Unpack(format, d)]
  BY <1>5 DEF Decode, format
<1>8. Reading[type] =
        [type   |-> type,
         values |-> IF type = "GNSS_PVT" THEN RemoveAt([i \in 1 .. 35 |-> i], 14)
                    ELSE [i \in DOMAIN format |-> i]]
  BY <1>1, Zenon DEF Reading, format
<1>9. CASE type = "GNSS_PVT"
  <2>1. format = GnssPvtFormat
    BY <1>9 DEF format, Format
  <2>2. DOMAIN format = 1 .. 35
    BY <2>1, GnssPvtFits DEF Widths
  <2>3. Unpack(format, d) = [i \in 1 .. 35 |-> i]
    BY <1>4, <2>2
  <2>4. Decode(packet) = Reading[type]
    BY <1>7, <1>8, <1>9, <2>3, Zenon
  <2> QED BY <1>4, <1>6, <2>4 DEF packet, d
<1>10. CASE type # "GNSS_PVT"
  <2>1. Decode(packet) = Reading[type]
    BY <1>4, <1>7, <1>8, <1>10, Zenon
  <2> QED BY <1>4, <1>6, <2>1 DEF packet, d
<1> QED BY <1>9, <1>10

\* Without its last byte, the data has the wrong length.
LEMMA FrontIs ==
  ASSUME NEW d \in Seq(Nat)
  PROVE  Front(d) \in Seq(Nat) /\ (d # <<>> => Len(Front(d)) # Len(d))
  BY DEF Front

LEMMA MapAppend ==
  ASSUME NEW D, NEW R, NEW f \in [D -> R], NEW l \in Seq(D), NEW x \in D
  PROVE  LET image(s) == [i \in DOMAIN s |-> f[s[i]]]
         IN  image(l) \in Seq(R) /\ Len(image(l)) = Len(l)
             /\ image(Append(l, x)) = Append(image(l), f[x])
<1> DEFINE n == Len(l)
           m == Append(l, x)
           a == [i \in 1 .. n |-> f[l[i]]]
           b == [i \in 1 .. n + 1 |-> f[m[i]]]
           y == f[x]
<1>1. /\ n \in Nat /\ DOMAIN l = 1 .. n /\ DOMAIN m = 1 .. n + 1
      /\ \A i \in 1 .. n : l[i] \in D /\ m[i] = l[i]
      /\ m[n + 1] = x
  OBVIOUS
<1>2. a \in Seq(R) /\ Len(a) = n /\ y \in R
  BY <1>1
<1>3. b = [i \in 1 .. n + 1 |-> b[i]] /\ b[n + 1] = y /\ \A i \in 1 .. n : b[i] = a[i]
  BY <1>1
<1>4. /\ a = [i \in DOMAIN l |-> f[l[i]]]
      /\ b = [i \in DOMAIN m |-> f[m[i]]]
  BY <1>1
<1> HIDE DEF n, m, a, b, y
<1> DEFINE c == Append(a, y)
<1>5. c \in Seq(R) /\ Len(c) = n + 1 /\ c[n + 1] = y /\ \A i \in 1 .. n : c[i] = a[i]
  BY <1>1, <1>2
<1> HIDE DEF c
<1>6. c = [i \in 1 .. n + 1 |-> c[i]]
  BY <1>1, <1>5
<1>7. \A i \in 1 .. n + 1 : b[i] = c[i]
  <2>1. \A i \in 1 .. n + 1 : i \in 1 .. n \/ i = n + 1
    BY <1>1
  <2> QED BY <1>3, <1>5, <2>1
<1>8. b = c
  BY <1>3, <1>6, <1>7, Zenon
<1> QED BY <1>2, <1>4, <1>8 DEF c, y, m, n

----------------------------------------------------------------------------
\* The samples of a message.

LEMMA HandleAppend ==
  ASSUME NEW R, NEW a \in Seq(R), NEW y \in R, NEW wanted
  PROVE  HandleMeasurements(Append(a, y), wanted) =
           IF y.type \in wanted THEN Append(HandleMeasurements(a, wanted), y)
                                ELSE HandleMeasurements(a, wanted)
<1> DEFINE n == Len(a)
           b == Append(a, y)
           places == {i \in DOMAIN a : a[i].type \in wanted}
           more == {i \in DOMAIN b : b[i].type \in wanted}
<1>1. /\ n \in Nat /\ DOMAIN a = 1 .. n /\ DOMAIN b = 1 .. n + 1
      /\ b[n + 1] = y /\ \A i \in 1 .. n : b[i] = a[i]
  OBVIOUS
<1> HIDE DEF n, b
<1>2. \A i \in DOMAIN a : i \in places <=> i \in more
  <2> SUFFICES ASSUME NEW i \in DOMAIN a PROVE i \in places <=> i \in more
    OBVIOUS
  <2>1. i \in DOMAIN b /\ b[i] = a[i]
    BY <1>1
  <2> QED BY <2>1
<1>3. n + 1 \in more <=> y.type \in wanted
  BY <1>1
<1>4. /\ HandleMeasurements(a, wanted) = Keep(a, places)
      /\ HandleMeasurements(b, wanted) = Keep(b, more)
  BY DEF HandleMeasurements
<1> HIDE DEF places, more
<1>5. Keep(Append(a, y), more) = IF Len(a) + 1 \in more THEN Append(Keep(a, places), y)
                                                        ELSE Keep(a, places)
  BY <1>2, KeepAppend
<1> QED BY <1>3, <1>4, <1>5 DEF b, n

Decoded(packets) == [i \in DOMAIN packets |-> Decode(packets[i])]

LEMMA DecodedAppend ==
  ASSUME NEW l \in Seq(AnyPackets), NEW x \in AnyPackets
  PROVE  /\ Decoded(l) \in Seq({Decode(p) : p \in AnyPackets})
         /\ Decoded(Append(l, x)) = Append(Decoded(l), Decode(x))
<1> DEFINE R == {Decode(p) : p \in AnyPackets}
           f == [p \in AnyPackets |-> Decode(p)]
           image(s) == [i \in DOMAIN s |-> f[s[i]]]
           m == Append(l, x)
<1>1. f \in [AnyPackets -> R] /\ \A p \in AnyPackets : f[p] = Decode(p)
  OBVIOUS
<1>2. m \in Seq(AnyPackets)
  OBVIOUS
<1> HIDE DEF R, f, m
<1>3. /\ image(l) \in Seq(R)
      /\ image(m) = Append(image(l), f[x])
  BY <1>1, MapAppend DEF m
<1>4. ASSUME NEW s \in Seq(AnyPackets) PROVE image(s) = Decoded(s)
  <2>1. \A i \in DOMAIN s : f[s[i]] = Decode(s[i])
    BY <1>1
  <2> QED BY <2>1 DEF Decoded
<1> QED BY <1>1, <1>2, <1>3, <1>4 DEF R, m

Readings(l) == [i \in DOMAIN l |-> Reading[TypeOf[l[i]]]]

LEMMA ReadingsAppend ==
  ASSUME NEW l \in Seq(Nat), NEW x \in Nat
  PROVE  Readings(Append(l, x)) = Append(Readings(l), Reading[TypeOf[x]])
<1> DEFINE R == {Reading[TypeOf[i]] : i \in Nat}
           f == [i \in Nat |-> Reading[TypeOf[i]]]
           image(s) == [i \in DOMAIN s |-> f[s[i]]]
           m == Append(l, x)
<1>1. f \in [Nat -> R] /\ \A i \in Nat : f[i] = Reading[TypeOf[i]]
  OBVIOUS
<1>2. m \in Seq(Nat)
  OBVIOUS
<1> HIDE DEF R, f, m
<1>3. image(m) = Append(image(l), f[x])
  BY <1>1, MapAppend DEF m
<1>4. ASSUME NEW s \in Seq(Nat) PROVE image(s) = Readings(s)
  <2>1. \A i \in DOMAIN s : f[s[i]] = Reading[TypeOf[s[i]]]
    BY <1>1
  <2> QED BY <2>1 DEF Readings
<1> QED BY <1>1, <1>2, <1>3, <1>4 DEF m

Known(ids) == {i \in DOMAIN ids : ids[i] \in PacketIDs}

Asked(ids, wanted) ==
  {i \in DOMAIN ids : ids[i] \in PacketIDs /\ TypeOf[ids[i]] \in wanted}

\* As long as the packets are whole, the samples are what the sensor measured.
LEMMA SamplesUpTo ==
  ASSUME NEW n \in Nat, NEW ids \in [1 .. n -> Nat], NEW data \in [1 .. n -> Seq(Nat)],
         NEW K \in 0 .. n, NEW wanted,
         \A i \in 1 .. K : ids[i] \in PacketIDs => data[i] = Data(ids[i])
  PROVE  HandleMeasurements(Decoded(KeepUpTo(IDsWith(ids, data), K, Known(ids))), wanted) =
           Readings(KeepUpTo(ids, K, Asked(ids, wanted)))
<1> DEFINE Q == IDsWith(ids, data)
           places == Known(ids)
           asked == Asked(ids, wanted)
           kept(k) == KeepUpTo(Q, k, places)
           some(k) == KeepUpTo(ids, k, asked)
           H(k) == HandleMeasurements(Decoded(kept(k)), wanted)
           P == {k \in 0 .. K : H(k) = Readings(some(k))}
<1>1. Q \in Seq(AnyPackets) /\ Len(Q) = n /\ ids \in Seq(Nat) /\ Len(ids) = n
  <2>1. \A k \in 1 .. n : [id |-> ids[k], data |-> data[k]] \in AnyPackets
    BY AnyPacketType
  <2>2. ids \in Seq(Nat) /\ Len(ids) = n
    OBVIOUS
  <2> QED BY <2>1, <2>2 DEF IDsWith
<1>2. \A i \in 1 .. n :
         /\ Q[i] = [id |-> ids[i], data |-> data[i]]
         /\ i \in places <=> ids[i] \in PacketIDs
         /\ i \in asked <=> ids[i] \in PacketIDs /\ TypeOf[ids[i]] \in wanted
  BY DEF IDsWith, Known, Asked
<1> HIDE DEF Q, places, asked
<1>3. /\ kept(0) = <<>>
      /\ \A k \in 0 .. n : kept(k) \in Seq(AnyPackets)
      /\ \A k \in 0 .. n - 1 : kept(k + 1) = IF k + 1 \in places THEN Append(kept(k), Q[k + 1])
                                             ELSE kept(k)
  <2>1. KeepsNext(AnyPackets, Q, places)
    BY <1>1, KeepNext
  <2>2. Len(Q) = n
    BY <1>1
  <2> QED BY <2>1, <2>2, Zenon DEF KeepsNext
<1>4. /\ some(0) = <<>>
      /\ \A k \in 0 .. n : some(k) \in Seq(Nat)
      /\ \A k \in 0 .. n - 1 : some(k + 1) = IF k + 1 \in asked THEN Append(some(k), ids[k + 1])
                                             ELSE some(k)
  <2>1. KeepsNext(Nat, ids, asked)
    BY <1>1, KeepNext
  <2>2. Len(ids) = n
    BY <1>1
  <2> QED BY <2>1, <2>2, Zenon DEF KeepsNext
<1>5. \A k \in 1 .. n : Q[k] \in AnyPackets
  BY <1>1
<1> HIDE DEF kept, some
<1>6. 0 \in P
  <2>1. Decoded(kept(0)) = <<>> /\ Readings(some(0)) = <<>>
    BY <1>3, <1>4 DEF Decoded, Readings
  <2>2. H(0) = <<>>
    BY <2>1, KeepEmpty DEF HandleMeasurements
  <2> QED BY <2>1, <2>2
<1>7. ASSUME NEW k \in 0 .. K - 1, H(k) = Readings(some(k)) PROVE H(k + 1) = Readings(some(k + 1))
  <2> DEFINE id == ids[k + 1]
             x == Q[k + 1]
             l == kept(k)
             a == Decoded(l)
             y == Decode(x)
  <2>1. k + 1 \in 1 .. n /\ k \in 0 .. n - 1 /\ k \in 0 .. n /\ k + 1 \in 1 .. K
    OBVIOUS
  <2>2. CASE id \notin PacketIDs
    <3>1. kept(k + 1) = kept(k) /\ some(k + 1) = some(k)
      BY <1>2, <1>3, <1>4, <2>1, <2>2
    <3> QED BY <1>7, <3>1
  <2>3. CASE id \in PacketIDs
    <3>1. kept(k + 1) = Append(l, x)
      BY <1>2, <1>3, <2>1, <2>3
    <3>2. l \in Seq(AnyPackets) /\ x \in AnyPackets
      BY <1>3, <1>5, <2>1
    <3>3. y = Reading[TypeOf[id]]
      <4>1. x = [id |-> id, data |-> Data(id)]
        BY <1>2, <2>1, <2>3
      <4> QED BY <2>3, <4>1, DataIs
    <3>4. y.type = TypeOf[id]
      <4>1. TypeOf[id] \in Types
        BY <2>3, TypeOfIs
      <4> DEFINE t == TypeOf[id]
      <4> HIDE DEF t, id, y
      <4>2. y = Reading[t] /\ t \in Types
        BY <3>3, <4>1 DEF t
      <4>3. Reading[t].type = t
        BY <4>2 DEF Reading
      <4> QED BY <4>2, <4>3 DEF t
    <3> HIDE DEF id, x, l, y
    <3>5. a \in Seq({Decode(p) : p \in AnyPackets}) /\ Decoded(kept(k + 1)) = Append(a, y)
      BY <3>1, <3>2, DecodedAppend DEF y
    <3>6. y \in {Decode(p) : p \in AnyPackets}
      BY <3>2 DEF y
    <3> HIDE DEF a
    <3>7. H(k + 1) = IF y.type \in wanted THEN Append(HandleMeasurements(a, wanted), y)
                     ELSE HandleMeasurements(a, wanted)
      <4> DEFINE R == {Decode(p) : p \in AnyPackets}
      <4>1. a \in Seq(R) /\ y \in R
        BY <3>5, <3>6
      <4> HIDE DEF R
      <4>2. HandleMeasurements(Append(a, y), wanted) =
              IF y.type \in wanted THEN Append(HandleMeasurements(a, wanted), y)
                                   ELSE HandleMeasurements(a, wanted)
        BY <4>1, HandleAppend
      <4> QED BY <3>5, <4>2, Zenon
    <3>8. HandleMeasurements(a, wanted) = Readings(some(k))
      BY <1>7 DEF a, l
    <3>9. CASE TypeOf[id] \in wanted
      <4>1. some(k + 1) = Append(some(k), id)
        BY <1>2, <1>4, <2>1, <2>3, <3>9 DEF id
      <4>2. some(k) \in Seq(Nat) /\ id \in Nat
        BY <1>4, <2>1 DEF id
      <4>3. Readings(some(k + 1)) = Append(Readings(some(k)), Reading[TypeOf[id]])
        BY <4>1, <4>2, ReadingsAppend
      <4> QED BY <3>3, <3>4, <3>7, <3>8, <3>9, <4>3
    <3>10. CASE TypeOf[id] \notin wanted
      <4>1. some(k + 1) = some(k)
        BY <1>2, <1>4, <2>1, <3>10 DEF id
      <4> QED BY <3>4, <3>7, <3>8, <3>10, <4>1
    <3> QED BY <3>9, <3>10
  <2> QED BY <2>2, <2>3
<1>8. P = 0 .. K
  <2>1. P \in SUBSET (0 .. K) /\ K \in Nat
    OBVIOUS
  <2>2. ASSUME NEW k \in 0 .. K - 1, k \in P PROVE k + 1 \in P
    <3>1. k + 1 \in 0 .. K
      OBVIOUS
    <3> HIDE DEF H
    <3> QED BY <1>7, <2>2, <3>1
  <2> HIDE DEF P
  <2> QED BY <1>6, <2>1, <2>2, Upward, Zenon
<1>9. K \in 0 .. K
  OBVIOUS
<1> QED BY <1>8, <1>9 DEF kept, some, Q, places, asked

----------------------------------------------------------------------------
\* The messages.

LEMMA BytesAreNumbers == \A l \in Seq(Byte) : l \in Seq(Nat)
<1>1. \A b \in Byte : b \in Nat
  BY DEF Byte
<1> SUFFICES ASSUME NEW l \in Seq(Byte) PROVE l \in Seq(Nat)
  OBVIOUS
<1>2. /\ Len(l) \in Nat /\ l = [i \in 1 .. Len(l) |-> l[i]]
      /\ \A i \in 1 .. Len(l) : l[i] \in Byte
  BY ListIs
<1>3. \A i \in 1 .. Len(l) : l[i] \in Nat
  BY <1>1, <1>2
<1> QED BY <1>2, <1>3

LEMMA EntriesType ==
  ASSUME NEW p \in Seq(Nat)
  PROVE  Entries(p) \in OutputEntries
<1> DEFINE n == Len(p) \div 4
           entry(k) == [id   |-> FromBytes(SubSeq(p, 4 * k - 3, 4 * k - 2)),
                        rate |-> FromBytes(SubSeq(p, 4 * k - 1, 4 * k))]
<1>1. n \in Nat /\ Len(p) \in Nat /\ 4 * n <= Len(p)
  OBVIOUS
<1>2. ASSUME NEW i \in Nat, 1 <= i, i + 1 <= Len(p)
      PROVE  FromBytes(SubSeq(p, i, i + 1)) \in Nat
  <2>1. i \in Int /\ p[i] \in Nat /\ p[i + 1] \in Nat
    BY <1>1, <1>2
  <2> DEFINE high == p[i]
             low == p[i + 1]
  <2>2. SubSeq(p, i, i + 1) = <<high, low>>
    BY <1>2, <2>1, PairAt
  <2>3. high \in Nat /\ low \in Nat /\ high \in Int /\ low \in Int
    BY <2>1
  <2> HIDE DEF high, low
  <2>4. FromBytes(<<high, low>>) = 256 * high + low
    BY <2>3, FromTwo
  <2>5. 256 * high + low \in Nat
    BY <2>3
  <2> QED BY <2>2, <2>4, <2>5 DEF high, low
<1>3. ASSUME NEW k \in 1 .. n PROVE entry(k) \in [id : Nat, rate : Nat]
  <2> DEFINE i == 4 * k - 3
             j == 4 * k - 1
  <2>1. /\ i \in Nat /\ 1 <= i /\ i + 1 <= Len(p) /\ i + 1 = 4 * k - 2
        /\ j \in Nat /\ 1 <= j /\ j + 1 <= Len(p) /\ j + 1 = 4 * k
    <3> HIDE DEF n
    <3> QED BY <1>1
  <2> HIDE DEF i, j
  <2>2. FromBytes(SubSeq(p, i, i + 1)) \in Nat /\ FromBytes(SubSeq(p, j, j + 1)) \in Nat
    BY <1>2, <2>1
  <2>3. entry(k) = [id |-> FromBytes(SubSeq(p, i, i + 1)), rate |-> FromBytes(SubSeq(p, j, j + 1))]
    BY <2>1 DEF i, j
  <2> QED BY <2>2, <2>3
<1>4. Entries(p) = [k \in 1 .. n |-> entry(k)]
  BY DEF Entries
<1> DEFINE V == [id : Nat, rate : Nat]
<1> HIDE DEF n, entry, V
<1>5. [k \in 1 .. n |-> entry(k)] \in Seq(V)
  BY <1>1, <1>3 DEF V
<1> QED BY <1>4, <1>5 DEF OutputEntries, V

LEMMA DueType ==
  ASSUME NEW p \in Seq(Nat), NEW slowest
  PROVE  Due(p, slowest) \in Seq(Nat)
<1> DEFINE entries == Entries(p)
           V == [id : Nat, rate : Nat]
           places == {i \in DOMAIN entries : entries[i].rate >= slowest}
           due == Keep(entries, places)
<1>1. entries \in Seq(V)
  BY EntriesType DEF OutputEntries
<1> HIDE DEF entries, V, places
<1>2. Len(entries) \in Nat /\ DOMAIN entries = 1 .. Len(entries)
      /\ \A i \in 1 .. Len(entries) : entries[i] \in V
  BY <1>1
<1>3. due \in Seq(V)
  BY <1>2, KeepType
<1>4. Due(p, slowest) = [i \in DOMAIN due |-> due[i].id]
  BY DEF Due, entries, places
<1> HIDE DEF due
<1>5. \A i \in 1 .. Len(due) : due[i].id \in Nat
  <2>1. \A v \in V : v.id \in Nat
    BY DEF V
  <2> QED BY <1>3, <2>1
<1> QED BY <1>3, <1>4, <1>5

LEMMA PresetType ==
  ASSUME NEW name \in DOMAIN PresetBase, NEW rate \in Nat
  PROVE  GetPreset(name, rate) \in OutputEntries
<1> DEFINE base == PresetBase[name]
           V == [id : Nat, rate : Nat]
<1>1. base \in Seq(Types)
  <2>1. /\ "PACKET_COUNTER" \in Types /\ "SAMPLE_TIME_FINE" \in Types
        /\ "ORIENTATION_QUATERNION" \in Types /\ "ACCELERATION" \in Types
        /\ "RATE_OF_TURN" \in Types /\ "MAGNETIC_FIELD" \in Types
        /\ "STATUS_WORD" \in Types /\ "VELOCITY_NED" \in Types
        /\ "POSITION_LL_ELLIPSOID" \in Types /\ "ALTITUDE_ELLIPSOID" \in Types
        /\ "GNSS_PVT" \in Types
    BY DEF Types, PacketID
  <2>2. ImuBase \in Seq(Types)
    BY <2>1 DEF ImuBase
  <2>3. VruBase \in Seq(Types)
    BY <2>1 DEF VruBase
  <2>4. GnssBase \in Seq(Types)
    BY <2>1 DEF GnssBase
  <2> QED BY <2>2, <2>3, <2>4 DEF PresetBase
<1>2. \A type \in Types : PacketID[type] \in Nat
  BY DEF Types, PacketID, ID
<1> HIDE DEF base
<1>3. ASSUME NEW i \in 1 .. Len(base)
      PROVE  [id |-> PacketID[base[i]],
              rate |-> IF base[i] = "GNSS_PVT" /\ rate > 4 THEN 4 ELSE rate] \in V
  <2>1. PacketID[base[i]] \in Nat
    BY <1>1, <1>2
  <2> QED BY <2>1
<1>4. GetPreset(name, rate) =
        [i \in 1 .. Len(base) |->
           [id |-> PacketID[base[i]],
            rate |-> IF base[i] = "GNSS_PVT" /\ rate > 4 THEN 4 ELSE rate]]
  BY <1>1 DEF GetPreset, base
<1> QED BY <1>1, <1>3, <1>4 DEF OutputEntries

\* What a sensor is configured to send.
LEMMA ConfigurationsType == \A p \in Configurations : p \in Seq(Nat)
<1>1. \A k \in Kinds : k.outputs \in Seq(Nat)
  BY KindsAssumption, BytesAreNumbers
<1>2. ASSUME NEW name \in PresetNames, NEW rate \in Rates \cap ValidRates
      PROVE  OutputsToPayload(GetPreset(name, rate)) \in Seq(Nat)
  <2>1. name \in DOMAIN PresetBase /\ rate \in Nat
    BY CallsAssumption
  <2>2. GetPreset(name, rate) \in OutputEntries
    BY <2>1, PresetType
  <2> QED BY <2>2, EntriesBack
<1> QED BY <1>1, <1>2 DEF Configurations

LEMMA MessageType ==
  ASSUME NEW message \in Messages
  PROVE  /\ message.ids \in Seq(Nat) /\ Len(message.ids) >= 1
         /\ message.cut \in {0, 1, 5} /\ message.short \in BOOLEAN
<1>1. /\ message.ids \in {Due(p, slowest) : p \in Configurations, slowest \in {1, 5}}
      /\ message.cut \in {0, 1, 5} /\ message.short \in BOOLEAN /\ message.ids # <<>>
  BY DEF Messages
<1>2. message.ids \in Seq(Nat)
  BY <1>1, ConfigurationsType, DueType
<1> QED BY <1>1, <1>2

LEMMA DataType ==
  ASSUME NEW id
  PROVE  Data(id) \in Seq(Nat)
<1>1. CASE id \in PacketIDs
  BY <1>1, DataIs
<1>2. CASE id \notin PacketIDs
  <2>1. Data(id) = ForeignData
    BY <1>2 DEF Data
  <2> QED BY <2>1, CallsAssumption, BytesAreNumbers
<1> QED BY <1>1, <1>2

LEMMA ReadingsType ==
  ASSUME NEW l \in Seq(Nat)
  PROVE  /\ Readings(l) \in Seq({Reading[TypeOf[i]] : i \in Nat})
         /\ Len(Readings(l)) = Len(l)
         /\ \A i \in 1 .. Len(l) : Readings(l)[i] = Reading[TypeOf[l[i]]]
<1>1. Len(l) \in Nat /\ DOMAIN l = 1 .. Len(l) /\ \A i \in 1 .. Len(l) : l[i] \in Nat
  OBVIOUS
<1> DEFINE R == {Reading[TypeOf[i]] : i \in Nat}
<1>2. \A i \in 1 .. Len(l) : Reading[TypeOf[l[i]]] \in R
  BY <1>1
<1>3. Readings(l) = [i \in 1 .. Len(l) |-> Reading[TypeOf[l[i]]]]
  BY <1>1 DEF Readings
<1> HIDE DEF R
<1>4. Readings(l) \in Seq(R)
  BY <1>1, <1>2, <1>3
<1> QED BY <1>1, <1>3, <1>4 DEF R

LEMMA EmptyIsPrefix ==
  ASSUME NEW D, NEW m \in Seq(D)
  PROVE  IsPrefix(<<>>, m)
<1>1. Len(<<>>) = 0 /\ SubSeq(<<>>, 1, 0) = <<>> /\ SubSeq(m, 1, 0) = <<>> /\ 0 <= Len(m)
  OBVIOUS
<1> QED BY <1>1, Zenon DEF IsPrefix

LEMMA PrefixOf ==
  ASSUME NEW l \in Seq(Nat), NEW m \in Seq(Nat),
         Len(l) <= Len(m), \A i \in 1 .. Len(l) : l[i] = m[i]
  PROVE  IsPrefix(Readings(l), Readings(m))
<1> DEFINE R == {Reading[TypeOf[i]] : i \in Nat}
           a == Readings(l)
           b == Readings(m)
           n == Len(a)
           c == SubSeq(a, 1, n)
           d == SubSeq(b, 1, n)
<1>1. /\ a \in Seq(R) /\ n = Len(l)
      /\ b \in Seq(R) /\ Len(b) = Len(m)
      /\ \A i \in 1 .. n : a[i] = Reading[TypeOf[l[i]]]
      /\ \A i \in 1 .. Len(b) : b[i] = Reading[TypeOf[m[i]]]
  <2> HIDE DEF a, b
  <2> QED BY ReadingsType DEF a, b
<1>2. n \in Nat /\ n <= Len(b) /\ Len(b) \in Nat
  BY <1>1
<1>3. ASSUME NEW i \in 1 .. n PROVE a[i] = b[i]
  <2>1. i \in 1 .. Len(l) /\ i \in 1 .. Len(b) /\ l[i] = m[i]
    <3> HIDE DEF a, b
    <3> QED BY <1>1, <1>2
  <2> HIDE DEF a, b
  <2> QED BY <1>1, <2>1
<1> HIDE DEF R, a, b
<1>4. n \in 0 .. Len(a) /\ n \in 0 .. Len(b)
  BY <1>2
<1>5. /\ c \in Seq(R) /\ Len(c) = n /\ \A i \in 1 .. n : c[i] = a[i]
      /\ d \in Seq(R) /\ Len(d) = n /\ \A i \in 1 .. n : d[i] = b[i]
  BY <1>1, <1>4, BeginningIs
<1> HIDE DEF c, d
<1>6. c = [i \in 1 .. n |-> c[i]] /\ d = [i \in 1 .. n |-> d[i]]
  BY <1>5
<1>7. \A i \in 1 .. n : c[i] = d[i]
  BY <1>3, <1>5
<1>8. c = d
  BY <1>6, <1>7, Zenon
<1> QED BY <1>2, <1>8 DEF IsPrefix, a, b, c, d

LEMMA AskedType ==
  ASSUME NEW ids \in Seq(Nat), NEW wanted, NEW k \in 0 .. Len(ids)
  PROVE  KeepUpTo(ids, k, Asked(ids, wanted)) \in Seq(PacketIDs)
<1> DEFINE part == SubSeq(ids, 1, k)
           asked == Asked(ids, wanted)
<1>1. k \in Nat /\ DOMAIN part = 1 .. k /\ \A i \in 1 .. k : part[i] = ids[i]
  BY BeginningIs
<1>2. \A i \in asked : ids[i] \in PacketIDs
  BY DEF Asked
<1> HIDE DEF part, asked
<1>3. \A i \in 1 .. k : i \in asked => part[i] \in PacketIDs
  BY <1>1, <1>2
<1>4. Keep(part, asked) \in Seq(PacketIDs)
  BY <1>1, <1>3, KeepType
<1> QED BY <1>4 DEF KeepUpTo, part, asked

\* The data in a message: that of its first packet may lack a byte.
DataIn(message) ==
  [i \in DOMAIN message.ids |-> IF i = 1 /\ message.short THEN Front(Data(message.ids[i]))
                                ELSE Data(message.ids[i])]

\* The message is a beginning of its packets.
LEMMA PayloadIs ==
  ASSUME NEW message \in Messages
  PROVE  LET w == FlattenSeq(Laid(message.ids, DataIn(message)))
             n == Len(message.ids)
         IN  /\ n \in Nat /\ message.ids \in [1 .. n -> Nat]
             /\ DataIn(message) \in [1 .. n -> Seq(Nat)]
             /\ Payload(message) \in Seq(Nat) /\ Begins(Payload(message), w)
             /\ message.cut = 0 => Len(Payload(message)) = Len(w)
<1> DEFINE ids == message.ids
           n == Len(ids)
           data == DataIn(message)
           w == FlattenSeq(Laid(ids, data))
           p == Payload(message)
           m == Len(w) - message.cut
<1>1. n \in Nat /\ ids \in [1 .. n -> Nat] /\ DOMAIN ids = 1 .. n
  BY MessageType
<1>2. message.cut \in {0, 1, 5}
  BY MessageType
<1>3. data \in [1 .. n -> Seq(Nat)]
  <2>1. \A i \in 1 .. n : Data(ids[i]) \in Seq(Nat) /\ Front(Data(ids[i])) \in Seq(Nat)
    BY DataType, FrontIs
  <2> QED BY <1>1, <2>1 DEF DataIn
<1>4. p = SubSeq(w, 1, m)
  <2>1. [i \in DOMAIN ids |-> Packet(ids[i], IF i = 1 /\ message.short THEN Front(Data(ids[i]))
                                            ELSE Data(ids[i]))]
          = Laid(ids, data)
    BY DEF Laid, DataIn
  <2> QED BY <2>1 DEF Payload
<1> HIDE DEF ids, n, data, p
<1>5. w \in Seq(Nat)
  BY <1>1, <1>3, LaidAt, FlattenType
<1> HIDE DEF w
<1>6. Len(w) \in Nat /\ m \in Int /\ m <= Len(w) /\ (message.cut = 0 => m = Len(w))
  BY <1>2, <1>5
<1> HIDE DEF m
<1>7. /\ SubSeq(w, 1, m) \in Seq(Nat)
      /\ Len(SubSeq(w, 1, m)) = IF 1 <= m THEN m ELSE 0
      /\ \A i \in 1 .. m : SubSeq(w, 1, m)[i] = w[i]
  BY <1>5, <1>6
<1>8. p \in Seq(Nat) /\ Begins(p, w)
  BY <1>4, <1>6, <1>7 DEF Begins
<1>9. message.cut = 0 => Len(p) = Len(w)
  BY <1>4, <1>6, <1>7
<1> QED BY <1>1, <1>3, <1>8, <1>9 DEF ids, n, data, w, p

\* Of a message, the library gets a beginning of what the sensor measured; of
\* a whole message, everything.
LEMMA SamplesAre ==
  ASSUME NEW message \in Messages, NEW wanted
  PROVE  LET decoded  == DecodeAll(Payload(message))
             samples  == HandleMeasurements(decoded.measurements, wanted)
             expected == Readings(Keep(message.ids, Asked(message.ids, wanted)))
         IN  /\ IsPrefix(samples, expected)
             /\ message.cut = 0 /\ ~message.short => ~decoded.raised /\ samples = expected
             /\ \A i \in DOMAIN samples : samples[i].type \in Types
<1> DEFINE ids == message.ids
           n == Len(ids)
           data == DataIn(message)
           Q == IDsWith(ids, data)
           w == FlattenSeq(Laid(ids, data))
           p == Payload(message)
           split == Packets(p)
           decoded == DecodeAll(p)
           samples == HandleMeasurements(decoded.measurements, wanted)
           asked == Asked(ids, wanted)
           all == Keep(ids, asked)
           expected == Readings(all)
           whole == message.cut = 0 /\ ~message.short
<1>1. /\ n \in Nat /\ ids \in [1 .. n -> Nat] /\ DOMAIN ids = 1 .. n
      /\ data \in [1 .. n -> Seq(Nat)]
      /\ p \in Seq(Nat) /\ Begins(p, w)
      /\ whole => Len(p) = Len(w)
  BY PayloadIs
<1>2. ids \in Seq(Nat) /\ n >= 1 /\ message.short \in BOOLEAN
  BY MessageType
<1>3. \A i \in 1 .. n :
         /\ i = 1 /\ message.short => data[i] = Front(Data(ids[i]))
         /\ ~(i = 1 /\ message.short) => data[i] = Data(ids[i])
  BY <1>1 DEF DataIn
<1>4. PICK K \in 0 .. n :
         /\ split.packets = KeepUpTo(Q, K, {i \in 1 .. n : ids[i] \in PacketIDs})
         /\ Len(p) = Len(w) => K = n /\ ~split.truncated
  <2> HIDE DEF ids, n, data, p
  <2> QED BY <1>1, BeginningDecoded
<1> DEFINE known == Known(ids)
           kept == KeepUpTo(Q, K, known)
           some == KeepUpTo(ids, K, asked)
<1>5. split.packets = kept /\ (whole => K = n /\ ~split.truncated)
  BY <1>1, <1>4 DEF Known
<1>6. /\ decoded.raised = (split.truncated \/ \E i \in DOMAIN split.packets :
                                                ~HasLength(split.packets[i]))
      /\ decoded.raised => decoded.measurements = <<>>
      /\ ~decoded.raised => decoded.measurements = Decoded(split.packets)
  BY DEF DecodeAll, Decoded
<1>7. /\ Q \in Seq(AnyPackets) /\ Len(Q) = n
      /\ \A i \in 1 .. n : Q[i] = [id |-> ids[i], data |-> data[i]]
  <2> HIDE DEF ids, n, data
  <2>1. \A k \in 1 .. n : [id |-> ids[k], data |-> data[k]] \in AnyPackets
    BY <1>1, AnyPacketType
  <2> QED BY <1>1, <2>1 DEF IDsWith
<1>8. \A i \in 1 .. n : i \in known <=> ids[i] \in PacketIDs
  BY <1>1 DEF Known
<1> HIDE DEF ids, n, data, Q, w, p, split, decoded, known, whole
<1>9. K \in 0 .. Len(ids) /\ K \in 0 .. Len(Q)
  BY <1>7 DEF n
<1>10. all \in Seq(Nat) /\ some \in Seq(Nat) /\ some \in Seq(PacketIDs)
       /\ (K = n => some = all)
  <2>1. KeepsNext(Nat, ids, asked)
    BY <1>2, KeepNext
  <2>2. 0 <= n /\ n \in 0 .. n
    BY <1>1
  <2>3. Len(ids) = n
    BY DEF n
  <2> HIDE DEF asked
  <2>4. KeepUpTo(ids, n, asked) = all /\ KeepUpTo(ids, n, asked) \in Seq(Nat) /\ some \in Seq(Nat)
    BY <2>1, <2>2, <2>3 DEF KeepsNext
  <2>5. some \in Seq(PacketIDs)
    BY <1>2, <1>9, AskedType DEF asked
  <2> QED BY <2>4, <2>5
<1>11. expected \in Seq({Reading[TypeOf[i]] : i \in Nat})
  <2> HIDE DEF all
  <2> QED BY <1>10, ReadingsType DEF all
<1>12. ASSUME decoded.raised
       PROVE  ~whole /\ IsPrefix(samples, expected)
              /\ \A i \in DOMAIN samples : samples[i].type \in Types
  <2>1. samples = <<>>
    <3>1. HandleMeasurements(<<>>, wanted) = <<>>
      BY KeepEmpty DEF HandleMeasurements
    <3> QED BY <1>6, <1>12, <3>1
  <2>2. IsPrefix(<<>>, expected)
    <3> HIDE DEF expected
    <3> QED BY <1>11, EmptyIsPrefix
  <2>3. SUFFICES ASSUME whole PROVE FALSE
    <3> HIDE DEF samples, expected
    <3> QED BY <2>1, <2>2
  <2>4. K = n /\ ~split.truncated
    BY <1>5, <2>3
  <2> DEFINE Good == {packet \in AnyPackets : HasLength(packet)}
  <2>5. \A i \in 1 .. n : i \in known => Q[i] \in Good
    <3> SUFFICES ASSUME NEW i \in 1 .. n, i \in known PROVE Q[i] \in Good
      OBVIOUS
    <3>1. data[i] = Data(ids[i])
      BY <1>3, <2>3 DEF whole
    <3>2. ids[i] \in PacketIDs
      BY <1>8
    <3>3. HasLength(Q[i])
      BY <1>7, <3>1, <3>2, DataIs
    <3>4. Q[i] \in AnyPackets
      BY <1>7
    <3> QED BY <3>3, <3>4
  <2>6. split.packets \in Seq(Good)
    <3>1. KeepsNext(AnyPackets, Q, known)
      BY <1>7, KeepNext
    <3>2. kept = Keep(Q, known)
      <4>1. Len(Q) = K
        BY <1>7, <2>4
      <4> QED BY <3>1, <4>1, Zenon DEF KeepsNext
    <3>3. DOMAIN Q = 1 .. n
      BY <1>7
    <3> HIDE DEF Good
    <3>4. Keep(Q, known) \in Seq(Good)
      BY <1>1, <2>5, <3>3, KeepType
    <3> QED BY <1>5, <3>2, <3>4
  <2>7. \A i \in DOMAIN split.packets : HasLength(split.packets[i])
    <3> DEFINE l == split.packets
    <3>1. l \in Seq(Good)
      BY <2>6
    <3> HIDE DEF l, Good
    <3>2. \A i \in DOMAIN l : l[i] \in Good
      BY <3>1
    <3> QED BY <3>2 DEF l, Good
  <2> QED BY <1>6, <1>12, <2>4, <2>7
<1>13. ASSUME ~decoded.raised
       PROVE  /\ IsPrefix(samples, expected) /\ (whole => samples = expected)
              /\ \A i \in DOMAIN samples : samples[i].type \in Types
  <2>1. \A i \in DOMAIN kept : HasLength(kept[i])
    BY <1>5, <1>6, <1>13
  <2>2. ASSUME NEW i \in 1 .. K, ids[i] \in PacketIDs PROVE data[i] = Data(ids[i])
    <3>1. i \in 1 .. n
      BY <1>1
    <3>2. CASE ~(i = 1 /\ message.short)
      BY <1>3, <3>1, <3>2
    <3>3. CASE i = 1 /\ message.short
      <4>1. data[i] = Front(Data(ids[i]))
        BY <1>3, <3>1, <3>3
      <4>2. i \in known
        BY <1>8, <2>2, <3>1
      <4>3. PICK j \in 1 .. Len(kept) : kept[j] = Q[i]
        BY <1>7, <1>9, <4>2, KeptIs
      <4>4. DOMAIN kept = 1 .. Len(kept)
        <5>1. KeepsNext(AnyPackets, Q, known)
          BY <1>7, KeepNext
        <5>2. kept \in Seq(AnyPackets)
          BY <1>9, <5>1 DEF KeepsNext
        <5> HIDE DEF kept
        <5> QED BY <5>2
      <4>5. HasLength(Q[i])
        <5> HIDE DEF kept
        <5> QED BY <2>1, <4>3, <4>4
      <4> DEFINE id == ids[i]
                 d == Data(id)
      <4>6. d \in Seq(Nat) /\ d # <<>> /\ HasLength([id |-> id, data |-> d])
        BY <2>2, DataIs
      <4>7. HasLength([id |-> id, data |-> Front(d)])
        BY <1>7, <3>1, <4>1, <4>5
      <4> HIDE DEF id, d
      <4>8. Len(Front(d)) # Len(d)
        BY <4>6, FrontIs
      <4> QED BY <4>6, <4>7, <4>8 DEF HasLength
    <3> QED BY <3>2, <3>3
  <2>3. samples = Readings(some)
    <3>1. samples = HandleMeasurements(Decoded(kept), wanted)
      BY <1>5, <1>6, <1>13
    <3>2. HandleMeasurements(Decoded(kept), wanted) = Readings(some)
      BY <1>1, <2>2, SamplesUpTo DEF Q, known
    <3> QED BY <3>1, <3>2
  <2>4. IsPrefix(samples, expected)
    <3>1. Len(some) <= Len(all) /\ \A i \in 1 .. Len(some) : some[i] = all[i]
      BY <1>2, <1>9, KeepGrows
    <3> HIDE DEF some, all, samples
    <3> QED BY <1>10, <2>3, <3>1, PrefixOf
  <2>5. whole => samples = expected
    BY <1>5, <1>10, <2>3
  <2>6. \A i \in DOMAIN samples : samples[i].type \in Types
    <3> HIDE DEF some, samples
    <3>1. /\ Readings(some) \in Seq({Reading[TypeOf[i]] : i \in Nat})
          /\ Len(Readings(some)) = Len(some)
          /\ \A i \in 1 .. Len(some) : Readings(some)[i] = Reading[TypeOf[some[i]]]
      BY <1>10, ReadingsType
    <3>2. DOMAIN Readings(some) = 1 .. Len(some)
      BY <3>1
    <3>3. \A i \in 1 .. Len(some) : some[i] \in PacketIDs
      BY <1>10
    <3>4. \A type \in Types : Reading[type].type = type
      BY DEF Reading
    <3> QED BY <2>3, <3>1, <3>2, <3>3, <3>4, TypeOfIs
  <2> QED BY <2>4, <2>5, <2>6
<1> HIDE DEF samples, expected
<1>14. /\ IsPrefix(samples, expected)
       /\ whole => ~decoded.raised /\ samples = expected
       /\ \A i \in DOMAIN samples : samples[i].type \in Types
  <2>1. decoded.raised \in BOOLEAN
    BY <1>6
  <2> QED BY <1>12, <1>13, <2>1
<1> QED BY <1>14 DEF samples, expected, decoded, p, ids, whole

----------------------------------------------------------------------------
(***************************************************************************)
(* The invariant.  Why a request returns what was set: the sensor's        *)
(* settings are what the program's last successful calls made of them.     *)
(***************************************************************************)
ProfileKept(value) == /\ value \in Selectable
                      /\ profile = EncodeFilterProfile(value)
                      /\ Accepts(profile)

SettingsKept ==
  /\ \A options \in told["options"] : \A field \in Options :
       OptionFlag[field] \in kind.supported =>
         (OptionFlag[field] \in flags <=> field \in options)
  /\ \A value \in told["profile"] : ProfileKept(value)
  /\ \A value \in told["outputs"] : RatesOf(Entries(outputs)) = value

Inv == TypeOK /\ SettingsKept /\ ReadsBack /\ SamplesMatchOutputs

LEMMA FlagsDiffer ==
  \A field \in Options, other \in Options :
    OptionFlag[field] = OptionFlag[other] => field = other
  BY DEF Options, OptionFlag

\* Of no setting is told more than of the one that was written.
LEMMA ToldIs ==
  ASSUME DOMAIN told = Settings, NEW what \in Settings, NEW value,
         told' = [told EXCEPT ![what] = value]
  PROVE  /\ DOMAIN told' = Settings /\ told'[what] = value
         /\ \A other \in Settings \ {what} : told'[other] = told[other]
  OBVIOUS

\* An answer that returns nothing breaks no promise.
LEMMA NothingReturned ==
  ASSUME answer'.of = "nothing"
  PROVE  ReadsBack' /\ SamplesMatchOutputs'
  BY DEF ReadsBack, SamplesMatchOutputs

LEMMA NothingIs == Nothing.of = "nothing" /\ Raised.of = "nothing"
  BY DEF Nothing, Raised

\* What depends on the sensor alone.
LEMMA SameSensor ==
  ASSUME UNCHANGED <<kind, product>>
  PROVE  /\ Selectable' = Selectable
         /\ \A value : EncodeFilterProfile(value)' = EncodeFilterProfile(value)
         /\ \A payload : Accepts(payload)' = Accepts(payload)
  BY DEF Selectable, EncodeFilterProfile, Accepts, Combined

LEMMA SameProfile ==
  ASSUME UNCHANGED <<kind, product, profile>>
  PROVE  \A value : ProfileKept(value)' = ProfileKept(value)
<1>1. Selectable' = Selectable
  BY SameSensor
<1>2. \A value : (profile = EncodeFilterProfile(value))' = (profile = EncodeFilterProfile(value))
  BY DEF EncodeFilterProfile
<1>3. Accepts(profile)' = Accepts(profile)
  BY DEF Accepts
<1> QED BY <1>1, <1>2, <1>3 DEF ProfileKept

\* A call that changes no setting and returns none.
LEMMA NothingChanges ==
  ASSUME TypeOK, SettingsKept, answer'.of = "nothing",
         UNCHANGED <<kind, product, sensorVars, told>>, measuring' \in BOOLEAN
  PROVE  Inv'
<1>1. kind' = kind /\ product' = product /\ flags' = flags /\ profile' = profile
      /\ outputs' = outputs /\ told' = told
  BY DEF sensorVars
<1>2. TypeOK'
  BY <1>1 DEF TypeOK
<1>3. SettingsKept'
  <2>1. \A value : ProfileKept(value)' = ProfileKept(value)
    BY <1>1, SameProfile
  <2> QED BY <1>1, <2>1 DEF SettingsKept
<1> QED BY <1>2, <1>3, NothingReturned DEF Inv

LEMMA KindIs ==
  ASSUME TypeOK
  PROVE  /\ kind \in Kinds /\ product \in {0, kind.model}
         /\ kind.supported \subseteq 0 .. 31
         /\ kind.code \in DOMAIN BaudCodeRates /\ kind.rate = BaudCodeRates[kind.code]
         /\ kind.slots \in Seq([type : Byte, version : Byte, label : STRING])
         /\ kind.slots # <<>> /\ kind.slots[1].type # 0
  BY KindsAssumption DEF TypeOK

LEMMA OptionsWritten ==
  ASSUME TypeOK, SettingsKept, NEW options \in OptionChoices, SetOptions(options)
  PROVE  Inv'
<1>1. options \subseteq Options
  BY CallsAssumption
<1>2. /\ kind' = kind /\ product' = product /\ measuring' = measuring
      /\ profile' = profile /\ outputs' = outputs
      /\ answer' \in {Nothing, Raised}
  BY DEF SetOptions, Written, NotWritten
<1>3. answer'.of = "nothing"
  BY <1>2, NothingIs
<1> DEFINE payload == OptionsToPayload(options)
<1>4. \/ flags' = flags /\ told' = [told EXCEPT !["options"] = {}]
      \/ TakeOptions(payload) /\ told' = [told EXCEPT !["options"] = {}]
      \/ TakeOptions(payload) /\ told' = [told EXCEPT !["options"] = {options}]
  BY DEF SetOptions, Written, NotWritten
<1>5. DOMAIN told = Settings /\ "options" \in Settings
  BY DEF TypeOK, Settings
<1>6. /\ DOMAIN told' = Settings
      /\ told'["profile"] = told["profile"] /\ told'["outputs"] = told["outputs"]
      /\ \/ told'["options"] = {}
         \/ told'["options"] = {options} /\ TakeOptions(payload)
  BY <1>4, <1>5 DEF Settings
<1>7. ASSUME TakeOptions(payload), NEW field \in Options, OptionFlag[field] \in kind.supported
      PROVE  OptionFlag[field] \in flags' <=> field \in options
  <2> DEFINE bit == OptionFlag[field]
  <2>1. bit \in payload.set <=> field \in options
    BY <1>1, FlagsDiffer DEF OptionsToPayload
  <2>2. bit \in payload.clear <=> field \notin options
    BY <1>1, FlagsDiffer DEF OptionsToPayload
  <2>3. flags' = (flags \cup (payload.set \cap kind.supported))
                   \ (payload.clear \cap kind.supported)
    BY <1>7 DEF TakeOptions
  <2> HIDE DEF payload
  <2> QED BY <1>7, <2>1, <2>2, <2>3
<1>8. \A bit \in flags' : bit \in 0 .. 31
  <2>1. TakeOptions(payload) => \A bit \in flags' : bit \in flags \/ bit \in kind.supported
    BY DEF TakeOptions
  <2>2. \A bit \in flags : bit \in 0 .. 31
    BY DEF TypeOK
  <2> HIDE DEF payload
  <2> QED BY <1>4, <2>1, <2>2, KindIs
<1> HIDE DEF payload
<1>9. TypeOK'
  <2>1. \A o \in told'["options"] : o \subseteq Options
    BY <1>1, <1>6
  <2> QED BY <1>2, <1>3, <1>6, <1>8, <2>1 DEF TypeOK
<1>10. SettingsKept'
  <2>1. \A o \in told'["options"] : \A field \in Options :
          OptionFlag[field] \in kind.supported => (OptionFlag[field] \in flags' <=> field \in o)
    BY <1>6, <1>7
  <2>2. \A value : ProfileKept(value)' = ProfileKept(value)
    BY <1>2, SameProfile
  <2>3. \A value \in told'["profile"] : ProfileKept(value)'
    BY <1>6, <2>2 DEF SettingsKept
  <2>4. \A value \in told'["outputs"] : RatesOf(Entries(outputs')) = value
    BY <1>2, <1>6 DEF SettingsKept
  <2> QED BY <1>2, <2>1, <2>3, <2>4 DEF SettingsKept
<1> QED BY <1>3, <1>9, <1>10, NothingReturned DEF Inv

\* What the sensor accepts is of a type it has.
LEMMA AcceptedType ==
  ASSUME TypeOK, NEW payload, Accepts(payload)
  PROVE  payload.form = "type" => payload.type \in 1 .. 255
<1> SUFFICES ASSUME payload.form = "type" PROVE payload.type \in 1 .. 255
  OBVIOUS
<1>1. PICK i \in DOMAIN kind.slots : kind.slots[i].type # 0 /\ payload.type = kind.slots[i].type
  BY DEF Accepts
<1>2. kind.slots[i] \in [type : Byte, version : Byte, label : STRING]
  <2> DEFINE S == [type : Byte, version : Byte, label : STRING]
             slots == kind.slots
  <2>1. slots \in Seq(S)
    BY KindIs
  <2>2. i \in DOMAIN slots
    OBVIOUS
  <2> HIDE DEF S, slots
  <2>3. slots[i] \in S
    BY <2>1, <2>2
  <2> QED BY <2>3 DEF S, slots
<1>3. kind.slots[i].type \in 0 .. 255
  BY <1>2 DEF Byte
<1> QED BY <1>1, <1>3

LEMMA ProfileWritten ==
  ASSUME TypeOK, SettingsKept, NEW selected \in Selectable, SetFilterProfile(selected)
  PROVE  Inv'
<1> DEFINE payload == EncodeFilterProfile(selected)
<1>1. /\ kind' = kind /\ product' = product /\ measuring' = measuring
      /\ flags' = flags /\ outputs' = outputs
      /\ answer' \in {Nothing, Raised}
  BY DEF SetFilterProfile, Written, NotWritten
<1>2. answer'.of = "nothing"
  BY <1>1, NothingIs
<1>3. \/ profile' = profile /\ told' = [told EXCEPT !["profile"] = {}]
      \/ Accepts(payload) /\ profile' = payload /\ told' = [told EXCEPT !["profile"] = {}]
      \/ Accepts(payload) /\ profile' = payload /\ told' = [told EXCEPT !["profile"] = {selected}]
  BY DEF SetFilterProfile, Written, NotWritten
<1>4. DOMAIN told = Settings /\ "profile" \in Settings
  BY DEF TypeOK, Settings
<1> HIDE DEF payload
<1>5. /\ DOMAIN told' = Settings
      /\ told'["options"] = told["options"] /\ told'["outputs"] = told["outputs"]
      /\ \/ told'["profile"] = {}
         \/ told'["profile"] = {selected} /\ Accepts(payload) /\ profile' = payload
  BY <1>3, <1>4 DEF Settings
<1>6. profile'.form = "type" => profile'.type \in 1 .. 255
  <2>1. CASE profile' = profile
    BY <2>1 DEF TypeOK
  <2>2. CASE Accepts(payload) /\ profile' = payload
    BY <2>2, AcceptedType
  <2> QED BY <1>3, <2>1, <2>2
<1>7. TypeOK'
  BY <1>1, <1>2, <1>5, <1>6 DEF TypeOK
<1>8. ASSUME Accepts(payload), profile' = payload PROVE ProfileKept(selected)'
  <2>1. (selected \in Selectable)'
    BY <1>1, SameSensor
  <2>2. (profile = EncodeFilterProfile(selected))'
    <3>1. EncodeFilterProfile(selected)' = payload
      BY <1>1, SameSensor DEF payload
    <3> QED BY <1>8, <3>1
  <2>3. Accepts(profile)'
    BY <1>1, <1>8 DEF Accepts
  <2> QED BY <2>1, <2>2, <2>3 DEF ProfileKept
<1>9. SettingsKept'
  <2>1. \A options \in told'["options"] : \A field \in Options :
          OptionFlag[field] \in kind'.supported =>
            (OptionFlag[field] \in flags' <=> field \in options)
    BY <1>1, <1>5 DEF SettingsKept
  <2>2. \A value \in told'["profile"] : ProfileKept(value)'
    BY <1>5, <1>8
  <2>3. \A value \in told'["outputs"] : RatesOf(Entries(outputs')) = value
    BY <1>1, <1>5 DEF SettingsKept
  <2> QED BY <2>1, <2>2, <2>3 DEF SettingsKept
<1> QED BY <1>2, <1>7, <1>9, NothingReturned DEF Inv

LEMMA OutputsWritten ==
  ASSUME TypeOK, SettingsKept, NEW entries \in OutputEntries, SetOutputConfig(entries)
  PROVE  Inv'
<1> DEFINE payload == OutputsToPayload(entries)
           value == RatesOf(entries)
<1>1. /\ kind' = kind /\ product' = product /\ measuring' = measuring
      /\ flags' = flags /\ profile' = profile
      /\ answer' \in {Nothing, Raised}
  BY DEF SetOutputConfig, Written, NotWritten
<1>2. answer'.of = "nothing"
  BY <1>1, NothingIs
<1>3. \/ outputs' = outputs /\ told' = [told EXCEPT !["outputs"] = {}]
      \/ outputs' = payload /\ told' = [told EXCEPT !["outputs"] = {}]
      \/ outputs' = payload /\ told' = [told EXCEPT !["outputs"] = {value}]
  BY DEF SetOutputConfig, Written, NotWritten
<1>4. DOMAIN told = Settings /\ "outputs" \in Settings
  BY DEF TypeOK, Settings
<1>5. Entries(payload) = entries /\ Len(payload) % 4 = 0
  <2>1. Len(payload) = 4 * Len(entries) /\ Entries(payload) = entries
    BY EntriesBack
  <2>2. Len(entries) \in Nat
    BY DEF OutputEntries
  <2> HIDE DEF payload
  <2> QED BY <2>1, <2>2
<1> HIDE DEF payload, value
<1>6. /\ DOMAIN told' = Settings
      /\ told'["options"] = told["options"] /\ told'["profile"] = told["profile"]
      /\ \/ told'["outputs"] = {}
         \/ told'["outputs"] = {value} /\ outputs' = payload
  BY <1>3, <1>4 DEF Settings
<1>7. TypeOK'
  <2>1. Len(outputs') % 4 = 0
    BY <1>3, <1>5 DEF TypeOK
  <2> QED BY <1>1, <1>2, <1>6, <2>1 DEF TypeOK
<1>8. SettingsKept'
  <2>1. \A options \in told'["options"] : \A field \in Options :
          OptionFlag[field] \in kind'.supported =>
            (OptionFlag[field] \in flags' <=> field \in options)
    BY <1>1, <1>6 DEF SettingsKept
  <2>2. \A v : ProfileKept(v)' = ProfileKept(v)
    BY <1>1, SameProfile
  <2>3. \A v \in told'["profile"] : ProfileKept(v)'
    BY <1>6, <2>2 DEF SettingsKept
  <2>4. \A v \in told'["outputs"] : RatesOf(Entries(outputs')) = v
    BY <1>5, <1>6 DEF value
  <2> QED BY <2>1, <2>3, <2>4 DEF SettingsKept
<1> QED BY <1>2, <1>7, <1>8, NothingReturned DEF Inv

\* A call that reads a setting.
RequestKeeps(what, value) ==
  /\ what = "options" => \A options \in told["options"] :
       \A field \in Options : OptionFlag[field] \in kind.supported =>
         (field \in value <=> field \in options)
  /\ what \in {"profile", "outputs"} => \A set \in told[what] : value = set
  /\ what = "baudrate" => value = kind.rate
  /\ what = "outputs" => DOMAIN value \subseteq PacketIDs

LEMMA Requested ==
  ASSUME TypeOK, SettingsKept, NEW what \in Settings \cup {"baudrate"}, NEW value,
         Request(what, value), RequestKeeps(what, value)
  PROVE  Inv'
<1>1. /\ UNCHANGED <<kind, product, sensorVars, told>> /\ measuring' = measuring
      /\ answer' = [of |-> what, raised |-> FALSE, value |-> value] \/ answer' = Raised
  BY DEF Request
<1>2. kind' = kind /\ product' = product /\ flags' = flags /\ profile' = profile
      /\ outputs' = outputs /\ told' = told
  BY <1>1 DEF sensorVars
<1>3. CASE answer' = Raised
  <2>1. answer'.of = "nothing" /\ measuring' \in BOOLEAN
    BY <1>1, <1>3, NothingIs DEF TypeOK
  <2> QED BY <1>1, <2>1, NothingChanges
<1>4. CASE answer' = [of |-> what, raised |-> FALSE, value |-> value]
  <2>1. answer'.of = what /\ answer'.value = value /\ what # "samples" /\ what # "nothing"
    BY <1>4 DEF Settings
  <2>2. TypeOK'
    BY <1>1, <1>2, <2>1 DEF TypeOK, RequestKeeps
  <2>3. SettingsKept'
    <3>1. \A v : ProfileKept(v)' = ProfileKept(v)
      BY <1>2, SameProfile
    <3> QED BY <1>2, <3>1 DEF SettingsKept
  <2>4. ReadsBack'
    BY <1>2, <2>1 DEF ReadsBack, RequestKeeps
  <2>5. SamplesMatchOutputs'
    BY <2>1 DEF SamplesMatchOutputs
  <2> QED BY <2>2, <2>3, <2>4, <2>5 DEF Inv
<1> QED BY <1>1, <1>3, <1>4

LEMMA OptionsRequested ==
  ASSUME TypeOK, SettingsKept, RequestOptions
  PROVE  Inv'
<1>1. RequestKeeps("options", OptionsFromPayload(flags))
  BY DEF RequestKeeps, SettingsKept, OptionsFromPayload
<1>2. "options" \in Settings \cup {"baudrate"}
  BY DEF Settings
<1> QED BY <1>1, <1>2, Requested DEF RequestOptions

LEMMA ProfileRequested ==
  ASSUME TypeOK, SettingsKept, RequestFilterProfile
  PROVE  Inv'
<1> DEFINE value == ResolveFilterProfile(ProfileFromPayload(profile), ListFromPayload(kind.slots))
<1>1. ASSUME NEW set \in told["profile"] PROVE value = set
  <2>1. set \in Selectable /\ profile = EncodeFilterProfile(set) /\ Accepts(profile)
    BY <1>1 DEF SettingsKept, ProfileKept
  <2> QED BY <2>1, KindIs, ProfileBack
<1> HIDE DEF value
<1>2. RequestKeeps("profile", value)
  BY <1>1 DEF RequestKeeps
<1>3. "profile" \in Settings \cup {"baudrate"}
  BY DEF Settings
<1> QED BY <1>2, <1>3, Requested DEF RequestFilterProfile, value

LEMMA OutputsRequested ==
  ASSUME TypeOK, SettingsKept, RequestOutputConfig
  PROVE  Inv'
<1> DEFINE entries == Entries(outputs)
           value == RatesOf(entries)
<1>1. \A set \in told["outputs"] : value = set
  BY DEF SettingsKept
<1>2. DOMAIN value \subseteq PacketIDs
  <2>1. \A k \in DOMAIN entries : entries[k].id \in PacketIDs
    BY DEF RequestOutputConfig, KnownEntries
  <2>2. DOMAIN value = {entries[k].id : k \in DOMAIN entries}
    BY DEF RatesOf
  <2> HIDE DEF entries, value
  <2> QED BY <2>1, <2>2
<1> HIDE DEF entries, value
<1>3. RequestKeeps("outputs", value)
  BY <1>1, <1>2 DEF RequestKeeps
<1>4. "outputs" \in Settings \cup {"baudrate"}
  BY DEF Settings
<1> QED BY <1>3, <1>4, Requested DEF RequestOutputConfig, value, entries

\* The baud rate is the sensor's, asked for or discovered.
LEMMA BaudrateRequested ==
  ASSUME TypeOK, SettingsKept, RequestBaudrate \/ DiscoverBaudrate
  PROVE  Inv'
<1>1. ASSUME Request("baudrate", kind.rate) PROVE Inv'
  <2>1. RequestKeeps("baudrate", kind.rate)
    BY DEF RequestKeeps
  <2> QED BY <1>1, <2>1, Requested
<1>2. CASE RequestBaudrate
  <2>1. BaudCodeRates[kind.code] = kind.rate
    BY KindIs
  <2> QED BY <1>1, <1>2, <2>1 DEF RequestBaudrate
<1>3. CASE DiscoverBaudrate
  <2> DEFINE same == {j \in 1 .. Len(BaudRates) : BaudRates[j] = kind.rate}
             i == SelectInSeq(BaudRates, LAMBDA rate : rate = kind.rate)
  <2>1. i = IF same # {} THEN Min(same) ELSE 0
    BY DEF SelectInSeq
  <2>2. i # 0 /\ Request("baudrate", BaudRates[i])
    BY <1>3 DEF DiscoverBaudrate
  <2>3. Len(BaudRates) \in Nat /\ same \in SUBSET (1 .. Len(BaudRates))
    BY DEF BaudRates
  <2> HIDE DEF i
  <2>4. i \in same
    <3> HIDE DEF same
    <3> QED BY <2>1, <2>2, <2>3, MinIs
  <2>5. BaudRates[i] = kind.rate
    BY <2>4
  <2> QED BY <1>1, <2>2, <2>5
<1> QED BY <1>2, <1>3

LEMMA Streamed ==
  ASSUME TypeOK, SettingsKept, NEW received \in Received, NEW wanted, Stream(received, wanted)
  PROVE  Inv'
<1>1. PICK message \in Messages :
         received = [message |-> message, decoded |-> DecodeAll(Payload(message))]
  BY DEF Received
<1> DEFINE decoded == DecodeAll(Payload(message))
           samples == HandleMeasurements(decoded.measurements, wanted)
           expected == Readings(Keep(message.ids, Asked(message.ids, wanted)))
<1>2. received.message = message /\ received.decoded = decoded
  BY <1>1
<1>3. /\ IsPrefix(samples, expected)
      /\ message.cut = 0 /\ ~message.short => ~decoded.raised /\ samples = expected
      /\ \A i \in DOMAIN samples : samples[i].type \in Types
  BY SamplesAre
<1>4. /\ UNCHANGED <<kind, product, sensorVars, told>> /\ measuring' = measuring
      /\ answer' = [of |-> "samples", raised |-> decoded.raised, message |-> message,
                    wanted |-> wanted, samples |-> samples]
  <2> HIDE DEF decoded
  <2> QED BY <1>2 DEF Stream
<1> HIDE DEF decoded, samples, expected
<1>5. /\ answer'.of = "samples" /\ answer'.raised = decoded.raised
      /\ answer'.message = message /\ answer'.wanted = wanted /\ answer'.samples = samples
  BY <1>4
<1>6. kind' = kind /\ product' = product /\ flags' = flags /\ profile' = profile
      /\ outputs' = outputs /\ told' = told
  BY <1>4 DEF sensorVars
<1>7. TypeOK'
  BY <1>3, <1>4, <1>5, <1>6 DEF TypeOK
<1>8. SettingsKept'
  <2>1. \A v : ProfileKept(v)' = ProfileKept(v)
    BY <1>6, SameProfile
  <2> QED BY <1>6, <2>1 DEF SettingsKept
<1>9. ReadsBack'
  BY <1>5 DEF ReadsBack
<1>10. SamplesMatchOutputs'
  <2>1. expected = [i \in DOMAIN Keep(message.ids, Asked(message.ids, wanted)) |->
                      Reading[TypeOf[Keep(message.ids, Asked(message.ids, wanted))[i]]]]
    BY DEF expected, Readings
  <2> QED BY <1>3, <1>5, <2>1 DEF SamplesMatchOutputs, Asked
<1> QED BY <1>7, <1>8, <1>9, <1>10 DEF Inv

LEMMA InitInv == Init => Inv
<1> SUFFICES ASSUME Init PROVE Inv
  OBVIOUS
<1>1. kind \in Kinds /\ product \in {0, kind.model} /\ measuring = FALSE /\ answer = Nothing
      /\ told = [what \in Settings |-> {}] /\ outputs = kind.outputs
  BY DEF Init
<1>2. answer.of = "nothing"
  BY <1>1, NothingIs
<1>3. \A bit \in flags : bit \in 0 .. 31
  BY DEF Init
<1>4. profile.form = "type" => profile.type \in 1 .. 255
  <2>1. profile.form = "type" => profile.type = kind.slots[1].type
    BY DEF Init
  <2>2. kind.slots[1].type \in 1 .. 255
    <3> DEFINE S == [type : Byte, version : Byte, label : STRING]
               slots == kind.slots
    <3>1. slots \in Seq(S) /\ slots # <<>> /\ slots[1].type # 0
      BY <1>1, KindsAssumption
    <3> HIDE DEF S, slots
    <3>2. slots[1] \in S
      BY <3>1
    <3>3. slots[1].type \in 0 .. 255
      BY <3>2 DEF S, Byte
    <3> QED BY <3>1, <3>3 DEF slots
  <2> QED BY <2>1, <2>2
<1>5. Len(outputs) % 4 = 0
  BY <1>1, KindsAssumption
<1>6. DOMAIN told = Settings /\ told["options"] = {} /\ told["profile"] = {} /\ told["outputs"] = {}
  BY <1>1 DEF Settings
<1>7. TypeOK
  BY <1>1, <1>2, <1>3, <1>4, <1>5, <1>6 DEF TypeOK
<1>8. SettingsKept
  BY <1>6 DEF SettingsKept
<1>9. ReadsBack /\ SamplesMatchOutputs
  BY <1>2 DEF ReadsBack, SamplesMatchOutputs
<1> QED BY <1>7, <1>8, <1>9 DEF Inv

LEMMA NextInv == Inv /\ [Next]_vars => Inv'
<1> SUFFICES ASSUME Inv, [Next]_vars PROVE Inv'
  OBVIOUS
<1>1. TypeOK /\ SettingsKept
  BY DEF Inv
<1>2. ASSUME NEW options \in OptionChoices, SetOptions(options) PROVE Inv'
  BY <1>1, <1>2, OptionsWritten
<1>3. ASSUME NEW selected \in Selectable, SetFilterProfile(selected) PROVE Inv'
  BY <1>1, <1>3, ProfileWritten
<1>4. ASSUME NEW name \in PresetNames, NEW rate \in Rates, SetPreset(name, rate) PROVE Inv'
  <2>1. name \in DOMAIN PresetBase /\ rate \in Nat
    BY CallsAssumption
  <2>2. GetPreset(name, rate) \in OutputEntries
    BY <2>1, PresetType
  <2>3. SetOutputConfig(GetPreset(name, rate))
    BY <1>4 DEF SetPreset
  <2> QED BY <1>1, <2>2, <2>3, OutputsWritten
<1>5. ASSUME answer' \in {Nothing, Raised}, measuring' \in BOOLEAN,
             UNCHANGED <<kind, product, sensorVars, told>>
      PROVE  Inv'
  BY <1>1, <1>5, NothingIs, NothingChanges
<1>6. ASSUME NEW rate \in Rates, RefusePreset(rate) PROVE Inv'
  BY <1>1, <1>5, <1>6 DEF RefusePreset, TypeOK
<1>7. CASE RequestForeignConfig
  BY <1>1, <1>5, <1>7 DEF RequestForeignConfig, TypeOK
<1>8. CASE RequestOptions \/ RequestFilterProfile \/ RequestOutputConfig
           \/ RequestBaudrate \/ DiscoverBaudrate
  BY <1>1, <1>8, OptionsRequested, ProfileRequested, OutputsRequested, BaudrateRequested
<1>9. CASE GotoMeasurement \/ GotoConfig
  BY <1>5, <1>9 DEF GotoMeasurement, GotoConfig
<1>10. ASSUME NEW received \in Received, NEW wanted, Stream(received, wanted) PROVE Inv'
  BY <1>1, <1>10, Streamed
<1>11. CASE UNCHANGED vars
  <2>1. kind' = kind /\ product' = product /\ flags' = flags /\ profile' = profile
        /\ outputs' = outputs /\ measuring' = measuring /\ told' = told /\ answer' = answer
    BY <1>11 DEF vars, sensorVars
  <2>2. TypeOK'
    BY <1>1, <2>1 DEF TypeOK
  <2>3. SettingsKept'
    <3>1. \A v : ProfileKept(v)' = ProfileKept(v)
      BY <2>1, SameProfile
    <3> QED BY <1>1, <2>1, <3>1 DEF SettingsKept
  <2>4. ReadsBack'
    <3>1. ReadsBack
      BY DEF Inv
    <3> QED BY <2>1, <3>1 DEF ReadsBack
  <2>5. SamplesMatchOutputs'
    <3>1. SamplesMatchOutputs
      BY DEF Inv
    <3> QED BY <2>1, <3>1 DEF SamplesMatchOutputs
  <2> QED BY <2>2, <2>3, <2>4, <2>5 DEF Inv
<1> QED
  <2>1. CASE Next
    BY <1>2, <1>3, <1>4, <1>6, <1>7, <1>8, <1>9, <1>10, <2>1 DEF Next
  <2> QED BY <1>11, <2>1

----------------------------------------------------------------------------
\* The settings and answers are of their types, always.
THEOREM TypeCorrect == Spec => []TypeOK
<1>1. Inv => TypeOK
  BY DEF Inv
<1> QED BY <1>1, InitInv, NextInv, PTL DEF Spec

\* What a program set is what it gets when it asks, whatever the sensor: options
\* where the sensor supports them, the filter profile although the sensor reports
\* a part of it, the output configuration after two conversions, the baud rate
\* on either way.
THEOREM ReadsBackAlways == Spec => []ReadsBack
<1>1. Inv => ReadsBack
  BY DEF Inv
<1> QED BY <1>1, InitInv, NextInv, PTL DEF Spec

\* The callbacks get what the sensor measured: all of a whole message, in its
\* order, and a beginning of one that is not.
THEOREM SamplesMatchOutputsAlways == Spec => []SamplesMatchOutputs
<1>1. Inv => SamplesMatchOutputs
  BY DEF Inv
<1> QED BY <1>1, InitInv, NextInv, PTL DEF Spec
=============================================================================
