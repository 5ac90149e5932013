------------------------- MODULE AsyncLoggingProofs -------------------------
(* AsyncLogging for every set of threads and messages and every size of a   *)
(* buffer: the numbers of a line are right, no line is lost, and there is   *)
(* always a buffer.                                                         *)
EXTENDS AsyncLogging, TLAPS, SequenceTheorems, NaturalsInduction, WellFoundedInduction

-----------------------------------------------------------------------------
(* Induction and recursion over the naturals.  The library states them for  *)
(* an operator; here they are stated for a set and for a function.          *)
(* A set that has 0 and the successor of each of its naturals has them all. *)
LEMMA NatInd ==
    ASSUME NEW S, 0 \in S, \A n \in Nat : n \in S => n + 1 \in S
    PROVE  \A n \in Nat : n \in S
  <1> DEFINE T == {n \in Nat : n \notin S}
  <1> SUFFICES ASSUME T # {} PROVE FALSE
    BY DEF T
  <1>1. IsWellFoundedOn(OpToRel(<, Nat), Nat)
    BY NatLessThanWellFounded DEF OpToRel
  <1>2. T \subseteq Nat
    BY DEF T
  <1>3. PICK m \in T : \A y \in T : ~ (<<y, m>> \in OpToRel(<, Nat))
    BY <1>1, <1>2, WFMin DEF OpToRel
  <1>4. \A y \in T : ~ (y < m)
    BY <1>2, <1>3 DEF OpToRel
  <1>5. m \in Nat /\ m \notin S /\ m # 0
    BY <1>3 DEF T
  <1>6. m - 1 \in Nat /\ m - 1 < m
    BY <1>5
  <1>7. m - 1 \in S
    BY <1>4, <1>6
  <1>8. m - 1 + 1 \in S
    BY <1>6, <1>7
  <1> QED BY <1>5, <1>6, <1>8

Iterates(V, v, n, step) ==
    \E f \in [0 .. n -> V] :
       f[0] = v /\ \A k \in 1 .. n : f[k] = step[k][f[k - 1]]

(* A step that can be taken n times from v leads through n values.          *)
LEMMA Iterate ==
    ASSUME NEW V, NEW v \in V, NEW n \in Nat, NEW step \in [1 .. n -> [V -> V]]
    PROVE  Iterates(V, v, n, step)
  <1> DEFINE Goes(m, f) == f[0] = v /\ \A k \in 1 .. m : f[k] = step[k][f[k - 1]]
             S == {m \in Nat : m <= n => \E f \in [0 .. m -> V] : Goes(m, f)}
  <1>1. 0 \in S
    <2> DEFINE g == [k \in 0 .. 0 |-> v]
    <2>1. g \in [0 .. 0 -> V] /\ Goes(0, g)
      OBVIOUS
    <2> QED BY <2>1
  <1>2. ASSUME NEW m \in Nat, m \in S PROVE m + 1 \in S
    <2> SUFFICES ASSUME m + 1 <= n
                 PROVE  \E f \in [0 .. m + 1 -> V] : Goes(m + 1, f)
      OBVIOUS
    <2>1. PICK f \in [0 .. m -> V] : Goes(m, f)
      BY <1>2
    <2> DEFINE g == [k \in 0 .. m + 1 |-> IF k <= m THEN f[k] ELSE step[m + 1][f[m]]]
    <2>2. f[m] \in V /\ step[m + 1][f[m]] \in V
      BY <2>1
    <2>3. g \in [0 .. m + 1 -> V]
      BY <2>1, <2>2
    <2>4. g[0] = v /\ \A k \in 0 .. m : g[k] = f[k]
      BY <2>1
    <2>5. g[m + 1] = step[m + 1][f[m]]
      OBVIOUS
    <2> HIDE DEF g
    <2>6. ASSUME NEW k \in 1 .. m + 1 PROVE g[k] = step[k][g[k - 1]]
      <3>1. CASE k = m + 1
        BY <3>1, <2>4, <2>5
      <3>2. CASE k # m + 1
        <4>1. k \in 1 .. m /\ k - 1 \in 0 .. m /\ k \in 0 .. m
          BY <3>2
        <4>2. f[k] = step[k][f[k - 1]]
          BY <4>1, <2>1
        <4> QED BY <4>1, <4>2, <2>4
      <3> QED BY <3>1, <3>2
    <2> QED BY <2>3, <2>4, <2>6
  <1>3. n \in S
    <2> HIDE DEF S
    <2> QED BY <1>1, <1>2, NatInd
  <1> QED BY <1>3 DEF Iterates

-----------------------------------------------------------------------------
(* The folds of LogStream.                                                  *)
(* The sum is the last of those of the prefixes.                           *)
LEMMA TotalIs ==
    ASSUME NEW w \in Seq(Int)
    PROVE  /\ \E f \in [0 .. Len(w) -> Int] :
                 f[0] = 0 /\ \A k \in 1 .. Len(w) : f[k] = f[k - 1] + w[k]
           /\ \A f \in [0 .. Len(w) -> Int] :
                 f[0] = 0 /\ (\A k \in 1 .. Len(w) : f[k] = f[k - 1] + w[k])
                    => Total(w) = f[Len(w)]
  <1>1. Len(w) \in Nat /\ w \in [1 .. Len(w) -> Int]
    BY LenProperties
  <1>2. \E f \in [0 .. Len(w) -> Int] :
            f[0] = 0 /\ \A k \in 1 .. Len(w) : f[k] = f[k - 1] + w[k]
    <2> DEFINE V == Int
               v == 0
               n == Len(w)
               step == [k \in 1 .. n |-> [x \in V |-> x + w[k]]]
    <2>1. v \in V /\ n \in Nat
      BY <1>1
    <2>2. \A k \in 1 .. n : \A x \in V : (x + w[k]) \in V
      BY <1>1
    <2>3. step \in [1 .. n -> [V -> V]]
      BY <2>2
    <2>4. Iterates(V, v, n, step)
      <3> HIDE DEF V, v, n, step
      <3> QED BY <2>1, <2>3, Iterate
    <2>5. PICK f \in [0 .. n -> V] :
              f[0] = v /\ \A k \in 1 .. n : f[k] = step[k][f[k - 1]]
      BY <2>4 DEF Iterates
    <2>6. ASSUME NEW k \in 1 .. n PROVE f[k] = f[k - 1] + w[k]
      <3>1. k - 1 \in 0 .. n /\ f[k - 1] \in V
        <4> HIDE DEF V, v, n, step
        <4> QED BY <2>1, <2>5
      <3> QED BY <2>5, <3>1
    <2> QED BY <2>5, <2>6
  <1> DEFINE upTo[k \in 0 .. Len(w)] == IF k = 0 THEN 0 ELSE upTo[k - 1] + w[k]
  <1>3. upTo = [k \in 0 .. Len(w) |-> IF k = 0 THEN 0 ELSE upTo[k - 1] + w[k]]
    <2>1. PICK f \in [0 .. Len(w) -> Int] :
              f[0] = 0 /\ \A k \in 1 .. Len(w) : f[k] = f[k - 1] + w[k]
      BY <1>2
    <2>2. f = [k \in 0 .. Len(w) |-> IF k = 0 THEN 0 ELSE f[k - 1] + w[k]]
      BY <1>1, <2>1
    <2> QED BY <2>2
  <1>4. Total(w) = upTo[Len(w)]
    BY DEF Total
  <1> HIDE DEF upTo
  <1>5. ASSUME NEW f \in [0 .. Len(w) -> Int], f[0] = 0,
               \A k \in 1 .. Len(w) : f[k] = f[k - 1] + w[k]
        PROVE  Total(w) = f[Len(w)]
    <2> DEFINE S == {m \in Nat : m <= Len(w) => upTo[m] = f[m]}
    <2>1. 0 \in S
      BY <1>1, <1>3, <1>5
    <2>2. ASSUME NEW m \in Nat, m \in S PROVE m + 1 \in S
      <3> SUFFICES ASSUME m + 1 <= Len(w) PROVE upTo[m + 1] = f[m + 1]
        OBVIOUS
      <3>1. /\ m + 1 \in 1 .. Len(w) /\ m + 1 \in 0 .. Len(w) /\ m + 1 # 0
            /\ (m + 1) - 1 = m /\ upTo[m] = f[m]
        BY <1>1, <2>2
      <3>2. f[m + 1] = f[m] + w[m + 1]
        BY <1>5, <3>1
      <3>3. upTo[m + 1] = upTo[m] + w[m + 1]
        BY <1>3, <3>1
      <3> QED BY <3>1, <3>2, <3>3
    <2>3. \A m \in Nat : m \in S
      <3> HIDE DEF S
      <3> QED BY <2>1, <2>2, NatInd
    <2> QED BY <1>1, <1>4, <2>3
  <1> QED BY <1>2, <1>5

(* A power is the last of those with lesser exponents.                     *)
LEMMA PowerIs ==
    ASSUME NEW b \in Nat, NEW e \in Nat
    PROVE  /\ \E f \in [0 .. e -> Nat] :
                 f[0] = 1 /\ \A k \in 1 .. e : f[k] = b * f[k - 1]
           /\ \A f \in [0 .. e -> Nat] :
                 f[0] = 1 /\ (\A k \in 1 .. e : f[k] = b * f[k - 1])
                    => Power(b, e) = f[e]
  <1>1. e \in Nat /\ b \in Nat
    OBVIOUS
  <1>2. \E f \in [0 .. e -> Nat] :
            f[0] = 1 /\ \A k \in 1 .. e : f[k] = b * f[k - 1]
    <2> DEFINE V == Nat
               v == 1
               n == e
               step == [k \in 1 .. n |-> [x \in V |-> b * x]]
    <2>1. v \in V /\ n \in Nat
      BY <1>1
    <2>2. \A k \in 1 .. n : \A x \in V : (b * x) \in V
      BY <1>1
    <2>3. step \in [1 .. n -> [V -> V]]
      BY <2>2
    <2>4. Iterates(V, v, n, step)
      <3> HIDE DEF V, v, n, step
      <3> QED BY <2>1, <2>3, Iterate
    <2>5. PICK f \in [0 .. n -> V] :
              f[0] = v /\ \A k \in 1 .. n : f[k] = step[k][f[k - 1]]
      BY <2>4 DEF Iterates
    <2>6. ASSUME NEW k \in 1 .. n PROVE f[k] = b * f[k - 1]
      <3>1. k - 1 \in 0 .. n /\ f[k - 1] \in V
        <4> HIDE DEF V, v, n, step
        <4> QED BY <2>1, <2>5
      <3> QED BY <2>5, <3>1
    <2> QED BY <2>5, <2>6
  <1> DEFINE upTo[k \in 0 .. e] == IF k = 0 THEN 1 ELSE b * upTo[k - 1]
  <1>3. upTo = [k \in 0 .. e |-> IF k = 0 THEN 1 ELSE b * upTo[k - 1]]
    <2>1. PICK f \in [0 .. e -> Nat] :
              f[0] = 1 /\ \A k \in 1 .. e : f[k] = b * f[k - 1]
      BY <1>2
    <2>2. f = [k \in 0 .. e |-> IF k = 0 THEN 1 ELSE b * f[k - 1]]
      BY <1>1, <2>1
    <2> QED BY <2>2
  <1>4. Power(b, e) = upTo[e]
    BY DEF Power
  <1> HIDE DEF upTo
  <1>5. ASSUME NEW f \in [0 .. e -> Nat], f[0] = 1,
               \A k \in 1 .. e : f[k] = b * f[k - 1]
        PROVE  Power(b, e) = f[e]
    <2> DEFINE S == {m \in Nat : m <= e => upTo[m] = f[m]}
    <2>1. 0 \in S
      BY <1>1, <1>3, <1>5
    <2>2. ASSUME NEW m \in Nat, m \in S PROVE m + 1 \in S
      <3> SUFFICES ASSUME m + 1 <= e PROVE upTo[m + 1] = f[m + 1]
        OBVIOUS
      <3>1. /\ m + 1 \in 1 .. e /\ m + 1 \in 0 .. e /\ m + 1 # 0
            /\ (m + 1) - 1 = m /\ upTo[m] = f[m]
        BY <1>1, <2>2
      <3>2. f[m + 1] = b * f[m]
        BY <1>5, <3>1
      <3>3. upTo[m + 1] = b * upTo[m]
        BY <1>3, <3>1
      <3> QED BY <3>1, <3>2, <3>3
    <2>3. \A m \in Nat : m \in S
      <3> HIDE DEF S
      <3> QED BY <2>1, <2>2, NatInd
    <2> QED BY <1>1, <1>4, <2>3
  <1> QED BY <1>2, <1>5

(* Another number is added.                                                 *)
LEMMA TotalAppend ==
    ASSUME NEW w \in Seq(Int), NEW x \in Int
    PROVE  /\ Total(w) \in Int /\ Total(<<>>) = 0
           /\ Total(Append(w, x)) = Total(w) + x
  <1> DEFINE n == Len(w)
             u == Append(w, x)
  <1>1. /\ n \in Nat /\ u \in Seq(Int) /\ Len(u) = n + 1 /\ u[n + 1] = x
        /\ \A k \in 1 .. n : u[k] = w[k]
    BY AppendProperties, LenProperties
  <1>2. PICK g \in [0 .. n + 1 -> Int] :
            /\ g[0] = 0 /\ \A k \in 1 .. n + 1 : g[k] = g[k - 1] + u[k]
            /\ Total(u) = g[n + 1]
    <2> HIDE DEF u, n
    <2>1. PICK g \in [0 .. Len(u) -> Int] :
              g[0] = 0 /\ \A k \in 1 .. Len(u) : g[k] = g[k - 1] + u[k]
      BY <1>1, TotalIs
    <2>2. Total(u) = g[Len(u)]
      BY <1>1, <2>1, TotalIs
    <2> QED BY <1>1, <2>1, <2>2
  <1> DEFINE h == [k \in 0 .. n |-> g[k]]
  <1>3. /\ h \in [0 .. n -> Int] /\ h[0] = 0
        /\ \A k \in 1 .. n : h[k] = h[k - 1] + w[k]
    <2> HIDE DEF u, n
    <2> QED BY <1>1, <1>2
  <1>4. Total(w) = h[n]
    <2> HIDE DEF h
    <2> QED BY <1>3, TotalIs
  <1>5. h[n] \in Int /\ g[n + 1] = h[n] + x
    <2>1. n \in 0 .. n /\ n + 1 \in 1 .. n + 1 /\ (n + 1) - 1 = n
      BY <1>1
    <2> HIDE DEF u, n
    <2> QED BY <1>1, <1>2, <2>1
  <1>6. Total(<<>>) = 0
    <2>1. <<>> \in Seq(Int) /\ Len(<<>>) = 0
      BY EmptySeq
    <2> QED BY <2>1, TotalIs
  <1> QED BY <1>2, <1>4, <1>5, <1>6

(* A sum of naturals is one.                                                *)
LEMMA TotalNat ==
    ASSUME NEW w \in Seq(Nat)
    PROVE  Total(w) \in Nat
  <1> DEFINE n == Len(w)
  <1>1. w \in Seq(Int) /\ n \in Nat /\ \A k \in 1 .. n : w[k] \in Nat
    BY SeqMonotonic, LenProperties, ElementOfSeq
  <1>2. PICK g \in [0 .. n -> Int] :
            /\ g[0] = 0 /\ \A k \in 1 .. n : g[k] = g[k - 1] + w[k]
            /\ Total(w) = g[n]
    BY <1>1, TotalIs
  <1> DEFINE S == {m \in Nat : m <= n => g[m] \in Nat}
  <1>3. 0 \in S
    BY <1>2
  <1>4. ASSUME NEW m \in Nat, m \in S PROVE m + 1 \in S
    <2> SUFFICES ASSUME m + 1 <= n PROVE g[m + 1] \in Nat
      OBVIOUS
    <2>1. m + 1 \in 1 .. n /\ (m + 1) - 1 = m /\ g[m] \in Nat
      BY <1>1, <1>4
    <2>2. g[m + 1] = g[m] + w[m + 1] /\ w[m + 1] \in Nat
      <3> HIDE DEF n
      <3> QED BY <1>1, <1>2, <2>1
    <2> QED BY <2>1, <2>2
  <1>5. n \in S
    <2> HIDE DEF S
    <2> QED BY <1>1, <1>3, <1>4, NatInd
  <1> QED BY <1>2, <1>5

(* The exponent is one more.                                                *)
LEMMA PowerNext ==
    ASSUME NEW b \in Nat, NEW e \in Nat
    PROVE  /\ Power(b, e) \in Nat /\ Power(b, 0) = 1
           /\ Power(b, e + 1) = b * Power(b, e)
  <1>1. PICK g \in [0 .. e + 1 -> Nat] :
            /\ g[0] = 1 /\ \A k \in 1 .. e + 1 : g[k] = b * g[k - 1]
            /\ Power(b, e + 1) = g[e + 1]
    <2>1. e + 1 \in Nat
      OBVIOUS
    <2> QED BY <2>1, PowerIs
  <1> DEFINE h == [k \in 0 .. e |-> g[k]]
  <1>2. /\ h \in [0 .. e -> Nat] /\ h[0] = 1
        /\ \A k \in 1 .. e : h[k] = b * h[k - 1]
    BY <1>1
  <1>3. Power(b, e) = h[e]
    <2> HIDE DEF h
    <2> QED BY <1>2, PowerIs
  <1>4. h[e] \in Nat /\ g[e + 1] = b * h[e]
    <2>1. e \in 0 .. e /\ e + 1 \in 1 .. e + 1 /\ (e + 1) - 1 = e
      OBVIOUS
    <2> QED BY <1>1, <2>1
  <1>5. Power(b, 0) = 1
    <2>1. PICK f \in [0 .. 0 -> Nat] :
              f[0] = 1 /\ \A k \in 1 .. 0 : f[k] = b * f[k - 1]
      BY PowerIs
    <2> QED BY <2>1, PowerIs
  <1> QED BY <1>1, <1>3, <1>4, <1>5

(* What digits mean is told by those in front and the last one.             *)
LEMMA MagnitudeIs ==
    ASSUME NEW ds \in Seq(Nat), NEW base \in Nat
    PROVE  /\ \E f \in [0 .. Len(ds) -> Nat] :
                 f[0] = 0 /\ \A k \in 1 .. Len(ds) : f[k] = f[k - 1] * base + ds[k]
           /\ \A f \in [0 .. Len(ds) -> Nat] :
                 f[0] = 0 /\ (\A k \in 1 .. Len(ds) : f[k] = f[k - 1] * base + ds[k])
                    => Magnitude(ds, base) = f[Len(ds)]
  <1>1. Len(ds) \in Nat /\ base \in Nat /\ ds \in [1 .. Len(ds) -> Nat]
    BY LenProperties
  <1>2. \E f \in [0 .. Len(ds) -> Nat] :
            f[0] = 0 /\ \A k \in 1 .. Len(ds) : f[k] = f[k - 1] * base + ds[k]
    <2> DEFINE V == Nat
               v == 0
               n == Len(ds)
               step == [k \in 1 .. n |-> [x \in V |-> x * base + ds[k]]]
    <2>1. v \in V /\ n \in Nat
      BY <1>1
    <2>2. \A k \in 1 .. n : \A x \in V : (x * base + ds[k]) \in V
      BY <1>1
    <2>3. step \in [1 .. n -> [V -> V]]
      BY <2>2
    <2>4. Iterates(V, v, n, step)
      <3> HIDE DEF V, v, n, step
      <3> QED BY <2>1, <2>3, Iterate
    <2>5. PICK f \in [0 .. n -> V] :
              f[0] = v /\ \A k \in 1 .. n : f[k] = step[k][f[k - 1]]
      BY <2>4 DEF Iterates
    <2>6. ASSUME NEW k \in 1 .. n PROVE f[k] = f[k - 1] * base + ds[k]
      <3>1. k - 1 \in 0 .. n /\ f[k - 1] \in V
        <4> HIDE DEF V, v, n, step
        <4> QED BY <2>1, <2>5
      <3> QED BY <2>5, <3>1
    <2> QED BY <2>5, <2>6
  <1> DEFINE upTo[k \in 0 .. Len(ds)] == IF k = 0 THEN 0 ELSE upTo[k - 1] * base + ds[k]
  <1>3. upTo = [k \in 0 .. Len(ds) |-> IF k = 0 THEN 0 ELSE upTo[k - 1] * base + ds[k]]
    <2>1. PICK f \in [0 .. Len(ds) -> Nat] :
              f[0] = 0 /\ \A k \in 1 .. Len(ds) : f[k] = f[k - 1] * base + ds[k]
      BY <1>2
    <2>2. f = [k \in 0 .. Len(ds) |-> IF k = 0 THEN 0 ELSE f[k - 1] * base + ds[k]]
      BY <1>1, <2>1
    <2> QED BY <2>2
  <1>4. Magnitude(ds, base) = upTo[Len(ds)]
    BY DEF Magnitude
  <1> HIDE DEF upTo
  <1>5. ASSUME NEW f \in [0 .. Len(ds) -> Nat], f[0] = 0,
               \A k \in 1 .. Len(ds) : f[k] = f[k - 1] * base + ds[k]
        PROVE  Magnitude(ds, base) = f[Len(ds)]
    <2> DEFINE S == {m \in Nat : m <= Len(ds) => upTo[m] = f[m]}
    <2>1. 0 \in S
      BY <1>1, <1>3, <1>5
    <2>2. ASSUME NEW m \in Nat, m \in S PROVE m + 1 \in S
      <3> SUFFICES ASSUME m + 1 <= Len(ds) PROVE upTo[m + 1] = f[m + 1]
        OBVIOUS
      <3>1. /\ m + 1 \in 1 .. Len(ds) /\ m + 1 \in 0 .. Len(ds) /\ m + 1 # 0
            /\ (m + 1) - 1 = m /\ upTo[m] = f[m]
        BY <1>1, <2>2
      <3>2. f[m + 1] = f[m] * base + ds[m + 1]
        BY <1>5, <3>1
      <3>3. upTo[m + 1] = upTo[m] * base + ds[m + 1]
        BY <1>3, <3>1
      <3> QED BY <3>1, <3>2, <3>3
    <2>3. \A m \in Nat : m \in S
      <3> HIDE DEF S
      <3> QED BY <2>1, <2>2, NatInd
    <2> QED BY <1>1, <1>4, <2>3
  <1> QED BY <1>2, <1>5

(* Another digit.                                                           *)
LEMMA MagnitudeAppend ==
    ASSUME NEW ds \in Seq(Nat), NEW d \in Nat, NEW base \in Nat
    PROVE  /\ Magnitude(ds, base) \in Nat /\ Magnitude(<<>>, base) = 0
           /\ Magnitude(Append(ds, d), base) = Magnitude(ds, base) * base + d
  <1> DEFINE n == Len(ds)
             u == Append(ds, d)
  <1>1. /\ n \in Nat /\ u \in Seq(Nat) /\ Len(u) = n + 1 /\ u[n + 1] = d
        /\ \A k \in 1 .. n : u[k] = ds[k]
    BY AppendProperties, LenProperties
  <1>2. PICK g \in [0 .. n + 1 -> Nat] :
            /\ g[0] = 0 /\ \A k \in 1 .. n + 1 : g[k] = g[k - 1] * base + u[k]
            /\ Magnitude(u, base) = g[n + 1]
    <2> HIDE DEF u, n
    <2>1. PICK g \in [0 .. Len(u) -> Nat] :
              g[0] = 0 /\ \A k \in 1 .. Len(u) : g[k] = g[k - 1] * base + u[k]
      BY <1>1, MagnitudeIs
    <2>2. Magnitude(u, base) = g[Len(u)]
      BY <1>1, <2>1, MagnitudeIs
    <2> QED BY <1>1, <2>1, <2>2
  <1> DEFINE h == [k \in 0 .. n |-> g[k]]
  <1>3. /\ h \in [0 .. n -> Nat] /\ h[0] = 0
        /\ \A k \in 1 .. n : h[k] = h[k - 1] * base + ds[k]
    <2> HIDE DEF u, n
    <2>1. h \in [0 .. n -> Nat] /\ h[0] = 0
      <3>1. g[0] = 0
        BY <1>2
      <3> QED BY <1>1, <3>1
    <2>2. ASSUME NEW k \in 1 .. n PROVE h[k] = h[k - 1] * base + ds[k]
      <3>1. k \in 1 .. n + 1 /\ h[k] = g[k] /\ h[k - 1] = g[k - 1] /\ u[k] = ds[k]
        BY <1>1, <1>2
      <3> HIDE DEF h
      <3> QED BY <1>2, <3>1
    <2> QED BY <2>1, <2>2
  <1>4. Magnitude(ds, base) = h[n]
    <2> HIDE DEF h
    <2> QED BY <1>3, MagnitudeIs
  <1>5. h[n] \in Nat /\ g[n + 1] = h[n] * base + d
    <2>1. n \in 0 .. n /\ n + 1 \in 1 .. n + 1 /\ (n + 1) - 1 = n
      BY <1>1
    <2> HIDE DEF u, n
    <2> QED BY <1>1, <1>2, <2>1
  <1>6. Magnitude(<<>>, base) = 0
    <2>1. <<>> \in Seq(Nat) /\ Len(<<>>) = 0
      BY EmptySeq
    <2>2. PICK f \in [0 .. Len(<<>>) -> Nat] :
              f[0] = 0 /\ \A k \in 1 .. Len(<<>>) : f[k] = f[k - 1] * base + <<>>[k]
      BY <2>1, MagnitudeIs
    <2> QED BY <2>1, <2>2, MagnitudeIs
  <1> QED BY <1>2, <1>4, <1>5, <1>6

-----------------------------------------------------------------------------
(* Numbers: the digits that convert and convertHex write.                   *)
(* Division that truncates: zero(lsd) is the magnitude of the remainder.    *)
LEMMA QuotientIs ==
    ASSUME NEW x \in Int, NEW base \in {10, 16}
    PROVE  LET q == Quotient(x, base)
               d == zero(Remainder(x, base))
           IN  /\ q \in Int /\ d \in Nat /\ zero(x) \in Nat /\ zero(q) \in Nat
               /\ zero(x) = zero(q) * base + d
               /\ q = 0 <=> zero(x) < base
               /\ x # 0 => zero(q) < zero(x)
               /\ \A P \in Nat : zero(x) < base * P => zero(q) < P
  <1>1. CASE base = 10
    BY <1>1 DEF Quotient, Remainder, zero
  <1>2. CASE base = 16
    BY <1>2 DEF Quotient, Remainder, zero
  <1> QED BY <1>1, <1>2

(* A quotient is nearer to zero.                                            *)
LEMMA QuotientWithin ==
    ASSUME NEW x \in Int, NEW base \in {10, 16}, NEW m \in Nat
    PROVE  /\ x \in -m .. m => Quotient(x, base) \in -m .. m
           /\ x \in -(m + 1) .. m + 1 => Quotient(x, base) \in -m .. m
  <1>1. CASE base = 10
    BY <1>1 DEF Quotient
  <1>2. CASE base = 16
    BY <1>2 DEF Quotient
  <1> QED BY <1>1, <1>2

(* The loop of convert from every value on, up to a magnitude.                  *)
LEMMA DigitsExist ==
    ASSUME NEW base \in {10, 16}, NEW M \in Nat
    PROVE  \E f \in [-M .. M -> Seq(Nat)] :
              \A x \in -M .. M :
                 f[x] = IF Quotient(x, base) = 0 THEN <<zero(Remainder(x, base))>>
                        ELSE Append(f[Quotient(x, base)], zero(Remainder(x, base)))
  <1> DEFINE q(x) == Quotient(x, base)
             lsd(x) == zero(Remainder(x, base))
             Loop(m, f) == \A x \in -m .. m :
                 f[x] = IF q(x) = 0 THEN <<lsd(x)>> ELSE Append(f[q(x)], lsd(x))
             S == {m \in Nat : \E f \in [-m .. m -> Seq(Nat)] : Loop(m, f)}
  <1>1. ASSUME NEW x \in Int
        PROVE  /\ q(x) \in Int /\ lsd(x) \in Nat
               /\ \A m \in Nat : x \in -m .. m => q(x) \in -m .. m
               /\ \A m \in Nat : x \in -(m + 1) .. m + 1 => q(x) \in -m .. m
    BY QuotientIs, QuotientWithin
  <1> HIDE DEF q, lsd
  <1>2. 0 \in S
    <2> DEFINE f == [x \in -0 .. 0 |-> <<lsd(0)>>]
    <2>1. q(0) = 0
      BY QuotientIs DEF q, zero
    <2>2. <<lsd(0)>> \in Seq(Nat)
      BY <1>1
    <2>3. f \in [-0 .. 0 -> Seq(Nat)] /\ Loop(0, f)
      BY <2>1, <2>2
    <2> QED BY <2>3
  <1>3. ASSUME NEW m \in Nat, m \in S PROVE m + 1 \in S
    <2>1. PICK f \in [-m .. m -> Seq(Nat)] : Loop(m, f)
      BY <1>3
    <2> DEFINE n == m + 1
               g == [x \in -n .. n |-> IF q(x) = 0 THEN <<lsd(x)>>
                                       ELSE Append(f[q(x)], lsd(x))]
    <2>2. n \in Nat /\ \A x \in -n .. n : q(x) \in -m .. m /\ lsd(x) \in Nat
      <3>1. ASSUME NEW x \in -n .. n PROVE q(x) \in -m .. m /\ lsd(x) \in Nat
        <4>1. x \in Int /\ x \in -(m + 1) .. m + 1
          OBVIOUS
        <4> QED BY <4>1, <1>1
      <3> QED BY <3>1
    <2>3. g \in [-n .. n -> Seq(Nat)]
      <3>1. ASSUME NEW x \in -n .. n
            PROVE  <<lsd(x)>> \in Seq(Nat) /\ Append(f[q(x)], lsd(x)) \in Seq(Nat)
        <4>1. f[q(x)] \in Seq(Nat) /\ lsd(x) \in Nat
          BY <2>1, <2>2
        <4> HIDE DEF n
        <4> QED BY <4>1, AppendProperties
      <3> QED BY <3>1
    <2>4. \A x \in -m .. m : g[x] = f[x]
      <3> TAKE x \in -m .. m
      <3>1. x \in -n .. n
        OBVIOUS
      <3> HIDE DEF n
      <3> QED BY <2>1, <3>1
    <2>5. Loop(n, g)
      <3> SUFFICES ASSUME NEW x \in -n .. n
                   PROVE  g[x] = IF q(x) = 0 THEN <<lsd(x)>> ELSE Append(g[q(x)], lsd(x))
        OBVIOUS
      <3>1. g[q(x)] = f[q(x)]
        <4> HIDE DEF g, n
        <4> QED BY <2>2, <2>4
      <3>2. g[x] = IF q(x) = 0 THEN <<lsd(x)>> ELSE Append(f[q(x)], lsd(x))
        OBVIOUS
      <3> HIDE DEF g, n
      <3> QED BY <3>1, <3>2
    <2> QED BY <2>2, <2>3, <2>5
  <1>4. M \in S
    <2> HIDE DEF S
    <2> QED BY <1>2, <1>3, NatInd
  <1> QED BY <1>4 DEF q, lsd

(* What convert and convertHex write of a value is that value, without its  *)
(* sign, in as few digits as it takes.                                      *)
LEMMA DigitsRight ==
    ASSUME NEW value \in Int, NEW base \in {10, 16}
    PROVE  /\ Digits(value, base) \in Seq(Nat)
           /\ Magnitude(Digits(value, base), base) = zero(value)
           /\ \A m \in Nat \ {0} :
                 zero(value) < Power(base, m) => Len(Digits(value, base)) <= m
  <1> DEFINE M == zero(value)
             digits[x \in -zero(value) .. zero(value)] ==
                LET last == zero(Remainder(x, base)) IN
                IF Quotient(x, base) = 0 THEN <<last>>
                ELSE Append(digits[Quotient(x, base)], last)
             q(x) == Quotient(x, base)
             lsd(x) == zero(Remainder(x, base))
  <1>1. M \in Nat /\ value \in -M .. M
    BY DEF zero
  <1>2. digits = [x \in -M .. M |->
                     IF q(x) = 0 THEN <<lsd(x)>> ELSE Append(digits[q(x)], lsd(x))]
    <2>1. PICK f \in [-M .. M -> Seq(Nat)] :
              \A x \in -M .. M :
                 f[x] = IF q(x) = 0 THEN <<lsd(x)>> ELSE Append(f[q(x)], lsd(x))
      BY <1>1, DigitsExist
    <2>2. f = [x \in -zero(value) .. zero(value) |->
                  LET last == zero(Remainder(x, base)) IN
                  IF Quotient(x, base) = 0 THEN <<last>>
                  ELSE Append(f[Quotient(x, base)], last)]
      BY <2>1
    <2> QED BY <2>2
  <1>3. Digits(value, base) = digits[value]
    BY DEF Digits
  <1> DEFINE Right(x) ==
                /\ digits[x] \in Seq(Nat)
                /\ Magnitude(digits[x], base) = zero(x)
                /\ \A m \in Nat \ {0} : zero(x) < Power(base, m) => Len(digits[x]) <= m
             S == {n \in Nat : \A x \in -M .. M : zero(x) <= n => Right(x)}
  <1>within. \A x \in -M .. M : x \in Int
    BY <1>1
  <1> HIDE DEF digits, M
  <1>4. ASSUME NEW x \in -M .. M, q(x) = 0 PROVE Right(x)
    <2>1. /\ x \in Int /\ digits[x] = <<lsd(x)>> /\ lsd(x) \in Nat
          /\ zero(x) = lsd(x)
      <3>1. x \in Int /\ digits[x] = <<lsd(x)>>
        BY <1>2, <1>within, <1>4
      <3>2. lsd(x) \in Nat /\ zero(x) = zero(0) * base + lsd(x)
        BY <3>1, <1>4, QuotientIs
      <3>3. zero(0) = 0
        BY DEF zero
      <3> QED BY <3>1, <3>2, <3>3
    <2>2. <<lsd(x)>> = Append(<<>>, lsd(x)) /\ <<lsd(x)>> \in Seq(Nat)
      BY <2>1
    <2>3. Magnitude(<<lsd(x)>>, base) = lsd(x)
      <3>1. <<>> \in Seq(Nat) /\ base \in Nat
        OBVIOUS
      <3>2. Magnitude(Append(<<>>, lsd(x)), base) = 0 * base + lsd(x)
        BY <2>1, <3>1, MagnitudeAppend
      <3> QED BY <2>1, <2>2, <3>1, <3>2
    <2>4. Len(digits[x]) = 1
      BY <2>1
    <2> QED BY <2>1, <2>2, <2>3, <2>4
  <1>5. ASSUME NEW x \in -M .. M, q(x) # 0, q(x) \in -M .. M, Right(q(x)) PROVE Right(x)
    <2>1. /\ x \in Int /\ q(x) \in Int /\ lsd(x) \in Nat
          /\ digits[x] = Append(digits[q(x)], lsd(x))
      <3>1. x \in Int /\ digits[x] = Append(digits[q(x)], lsd(x))
        BY <1>2, <1>within, <1>5
      <3> QED BY <3>1, QuotientIs
    <2>2. /\ zero(x) = zero(q(x)) * base + lsd(x) /\ ~ (zero(x) < base)
          /\ \A P \in Nat : zero(x) < base * P => zero(q(x)) < P
      BY <2>1, <1>5, QuotientIs
    <2>3. /\ digits[x] \in Seq(Nat) /\ Len(digits[x]) = Len(digits[q(x)]) + 1
          /\ Len(digits[q(x)]) \in Nat
      BY <2>1, <1>5, AppendProperties, LenProperties
    <2>4. Magnitude(digits[x], base) = zero(x)
      <3>1. base \in Nat
        OBVIOUS
      <3>2. Magnitude(digits[x], base) = Magnitude(digits[q(x)], base) * base + lsd(x)
        BY <2>1, <3>1, <1>5, MagnitudeAppend
      <3> QED BY <2>2, <3>2, <1>5
    <2>5. ASSUME NEW m \in Nat \ {0}, zero(x) < Power(base, m) PROVE Len(digits[x]) <= m
      <3>1. base \in Nat /\ m - 1 \in Nat /\ m = (m - 1) + 1
        OBVIOUS
      <3>2. /\ Power(base, m) = base * Power(base, m - 1)
            /\ Power(base, m - 1) \in Nat /\ Power(base, 0) = 1
        BY <3>1, PowerNext
      <3>3. m - 1 # 0
        BY <2>2, <2>5, <3>2
      <3>4. zero(q(x)) < Power(base, m - 1)
        BY <2>2, <2>5, <3>2
      <3>5. Len(digits[q(x)]) <= m - 1
        BY <3>1, <3>3, <3>4, <1>5
      <3> QED BY <2>3, <3>5
    <2> QED BY <2>3, <2>4, <2>5
  <1> HIDE DEF Right
  <1>6. \A x \in -M .. M : q(x) \in -M .. M /\ (q(x) # 0 => zero(q(x)) < zero(x))
    <2> TAKE x \in -M .. M
    <2>1. x \in Int /\ q(x) \in -M .. M
      BY <1>1, <1>within, QuotientWithin
    <2>2. q(x) = 0 \/ zero(q(x)) < zero(x)
      <3>1. x = 0 => q(x) = 0
        BY DEF Quotient
      <3> QED BY <2>1, <3>1, QuotientIs
    <2> QED BY <2>1, <2>2
  <1>7. 0 \in S
    <2>1. \A x \in -M .. M : zero(x) <= 0 => q(x) = 0
      <3> TAKE x \in -M .. M
      <3>1. zero(x) \in Nat /\ (q(x) = 0 <=> zero(x) < base)
        BY <1>within, QuotientIs
      <3> QED BY <3>1
    <2> QED BY <2>1, <1>4
  <1>8. ASSUME NEW n \in Nat, n \in S PROVE n + 1 \in S
    <2> SUFFICES ASSUME NEW x \in -M .. M, zero(x) <= n + 1 PROVE Right(x)
      OBVIOUS
    <2>1. CASE q(x) = 0
      BY <2>1, <1>4
    <2>2. CASE q(x) # 0
      <3>1. q(x) \in -M .. M /\ zero(q(x)) <= n
        BY <1>6, <2>2, <1>within DEF zero
      <3> QED BY <1>5, <1>8, <2>2, <3>1
    <2> QED BY <2>1, <2>2
  <1>9. M \in S
    <2> HIDE DEF S, M
    <2> QED BY <1>1, <1>7, <1>8, NatInd
  <1>10. Right(value)
    <2>1. zero(value) <= M
      BY <1>1 DEF M
    <2> QED BY <1>1, <1>9, <2>1
  <1> QED BY <1>3, <1>10 DEF Right

(* A greater base has the greater powers, and none is zero.                 *)
LEMMA PowerGrows ==
    ASSUME NEW e \in Nat
    PROVE  1 <= Power(10, e) /\ Power(10, e) <= Power(16, e) /\ 1 <= Power(2, e)
  <1> DEFINE S == {n \in Nat : /\ 1 <= Power(10, n) /\ Power(10, n) <= Power(16, n)
                               /\ 1 <= Power(2, n)}
  <1>1. 0 \in S
    <2>1. Power(10, 0) = 1 /\ Power(16, 0) = 1 /\ Power(2, 0) = 1
      BY PowerNext
    <2> QED BY <2>1
  <1>2. ASSUME NEW n \in Nat, n \in S PROVE n + 1 \in S
    <2>1. /\ Power(10, n) \in Nat /\ Power(10, n + 1) = 10 * Power(10, n)
          /\ Power(16, n) \in Nat /\ Power(16, n + 1) = 16 * Power(16, n)
          /\ Power(2, n) \in Nat /\ Power(2, n + 1) = 2 * Power(2, n)
      BY PowerNext
    <2>2. n + 1 \in Nat
      OBVIOUS
    <2> QED BY <1>2, <2>1, <2>2
  <1>3. e \in S
    <2> HIDE DEF S
    <2> QED BY <1>1, <1>2, NatInd
  <1> QED BY <1>3

StringPiece == [kind : {"string"}, len : Nat]
HeaderPiece == [kind : {"header"}, time : Nat, len : {HeaderLen}]
NumberPiece == [kind : {"number"}, base : {10, 16}, minus : BOOLEAN,
                digits : Seq(Nat), len : Nat]

Piece == StringPiece \cup HeaderPiece \cup NumberPiece

(* The static_assert: the room asked for suffices for every number, and the *)
(* number is read back as it was given.                                     *)
THEOREM ConvertRight ==
    ASSUME NEW v \in Int_t
    PROVE  /\ convert(v) \in NumberPiece /\ convert(v).len < kMaxNumbericSize
           /\ ReadBack(convert(v)) = v
  <1> DEFINE m == kMaxNumbericSize - 10
             p == Power(2, Bits - 1)
             ds == Digits(v, 10)
  <1>1. m \in Nat \ {0} /\ Bits - 1 \in Nat
    BY LogStreamAssumption
  <1>2. p \in Nat /\ 1 <= p
    BY <1>1, PowerNext, PowerGrows
  <1>3. v \in Int /\ -p <= v /\ v < p
    BY <1>2 DEF Int_t
  <1>4. zero(v) < Power(10, m)
    <2>1. Power(10, m) \in Nat /\ 1 <= Power(10, m)
      BY <1>1, PowerNext, PowerGrows
    <2>2. Power(10, m) - 1 \notin -p .. p - 1
      BY LogStreamAssumption DEF staticCheck, Int_t
    <2> HIDE DEF m, p
    <2> QED BY <1>2, <1>3, <2>1, <2>2 DEF zero
  <1>5. ds \in Seq(Nat) /\ Magnitude(ds, 10) = zero(v) /\ Len(ds) <= m /\ Len(ds) \in Nat
    <2>1. 10 \in {10, 16}
      OBVIOUS
    <2>2. ds \in Seq(Nat) /\ Magnitude(ds, 10) = zero(v) /\ Len(ds) <= m
      <3> HIDE DEF m
      <3> QED BY <1>1, <1>3, <1>4, <2>1, DigitsRight
    <2> QED BY <2>2, LenProperties
  <1>6. convert(v) = [kind |-> "number", base |-> 10, minus |-> v < 0, digits |-> ds,
                      len |-> (IF v < 0 THEN 1 ELSE 0) + Len(ds)]
    BY DEF convert, Converted
  <1> HIDE DEF ds
  <1>7. convert(v) \in NumberPiece /\ convert(v).len < kMaxNumbericSize
    BY <1>3, <1>5, <1>6, LogStreamAssumption DEF NumberPiece
  <1>8. ReadBack(convert(v)) = v
    <2>1. /\ convert(v).minus = (v < 0) /\ convert(v).digits = ds
          /\ convert(v).base = 10
      BY <1>6
    <2>2. CASE v < 0
      <3>1. ReadBack(convert(v)) = -Magnitude(ds, 10)
        BY <2>1, <2>2 DEF ReadBack
      <3> QED BY <1>3, <1>5, <2>2, <3>1 DEF zero
    <2>3. CASE ~ (v < 0)
      <3>1. ReadBack(convert(v)) = Magnitude(ds, 10)
        BY <2>1, <2>3 DEF ReadBack
      <3> QED BY <1>3, <1>5, <2>3, <3>1 DEF zero
    <2> QED BY <2>2, <2>3
  <1> QED BY <1>7, <1>8

(* The same for a pointer, which is wider than an int.                      *)
LEMMA ConvertHexRight ==
    ASSUME NEW v \in uintptr_t
    PROVE  /\ convertHex(v) \in NumberPiece /\ convertHex(v).len < kMaxNumbericSize
           /\ ReadBack(convertHex(v)) = v
  <1> DEFINE m == kMaxNumbericSize - 10
             p == Power(2, Bits - 1)
             ds == Digits(v, 16)
  <1>1. m \in Nat \ {0} /\ m + 1 \in Nat \ {0} /\ Bits - 1 \in Nat /\ Bits = (Bits - 1) + 1
    BY LogStreamAssumption
  <1>2. p \in Nat /\ 1 <= p /\ Power(2, Bits) = 2 * p
    BY <1>1, PowerNext, PowerGrows
  <1>3. v \in Int /\ 0 <= v /\ v < 2 * p
    BY <1>2 DEF uintptr_t
  <1>4. zero(v) < Power(16, m + 1)
    <2>1. /\ Power(10, m) \in Nat /\ 1 <= Power(10, m) /\ Power(10, m) <= Power(16, m)
          /\ Power(16, m) \in Nat /\ Power(16, m + 1) = 16 * Power(16, m)
      BY <1>1, PowerNext, PowerGrows
    <2>2. Power(10, m) - 1 \notin -p .. p - 1
      BY LogStreamAssumption DEF staticCheck, Int_t
    <2> HIDE DEF m, p
    <2> QED BY <1>2, <1>3, <2>1, <2>2 DEF zero
  <1>5. /\ ds \in Seq(Nat) /\ Magnitude(ds, 16) = zero(v) /\ Len(ds) <= m + 1
        /\ Len(ds) \in Nat
    <2>1. 16 \in {10, 16}
      OBVIOUS
    <2>2. ds \in Seq(Nat) /\ Magnitude(ds, 16) = zero(v) /\ Len(ds) <= m + 1
      <3> HIDE DEF m
      <3> QED BY <1>1, <1>3, <1>4, <2>1, DigitsRight
    <2> QED BY <2>2, LenProperties
  <1>6. convertHex(v) = [kind |-> "number", base |-> 16, minus |-> FALSE, digits |-> ds,
                         len |-> 2 + Len(ds)]
    BY DEF convertHex, Converted
  <1> HIDE DEF ds
  <1>7. convertHex(v) \in NumberPiece /\ convertHex(v).len < kMaxNumbericSize
    BY <1>3, <1>5, <1>6, LogStreamAssumption DEF NumberPiece
  <1>8. ReadBack(convertHex(v)) = v
    <2>1. ReadBack(convertHex(v)) = Magnitude(ds, 16)
      BY <1>6 DEF ReadBack
    <2> QED BY <1>3, <1>5, <2>1 DEF zero
  <1> QED BY <1>7, <1>8
-----------------------------------------------------------------------------
(* Texts.                                                                   *)
(* A piece has a length, and a number piece is a number.                    *)
LEMMA PieceIs ==
    ASSUME NEW p \in Piece
    PROVE  /\ p.len \in Nat
           /\ p.kind = "number" => ReadBack(p) \in Int
           /\ p.kind = "number" <=> p \in NumberPiece
  <1>1. HeaderLen \in Nat
    BY LogStreamAssumption
  <1>2. p.len \in Nat /\ (p.kind = "number" <=> p \in NumberPiece)
    BY <1>1 DEF Piece, StringPiece, HeaderPiece, NumberPiece
  <1>3. ASSUME p \in NumberPiece PROVE ReadBack(p) \in Int
    <2>1. p.digits \in Seq(Nat) /\ p.base \in Nat /\ p.minus \in BOOLEAN
      BY <1>3 DEF NumberPiece
    <2>2. Magnitude(p.digits, p.base) \in Nat
      <3>1. 0 \in Nat
        OBVIOUS
      <3> QED BY <2>1, <3>1, MagnitudeAppend
    <2> QED BY <2>1, <2>2 DEF ReadBack
  <1> QED BY <1>2, <1>3

(* A text with another piece is longer by it.                               *)
LEMMA LengthAppend ==
    ASSUME NEW text \in Seq(Piece), NEW p \in Piece
    PROVE  /\ length(text) \in Nat /\ length(<<>>) = 0
           /\ length(Append(text, p)) = length(text) + p.len
  <1> DEFINE w == [j \in DOMAIN text |-> text[j].len]
             u == Append(text, p)
             x == [j \in DOMAIN u |-> u[j].len]
  <1>1. w \in Seq(Nat) /\ Len(w) = Len(text) /\ Len(text) \in Nat
    <2>1. Len(text) \in Nat /\ DOMAIN text = 1 .. Len(text)
          /\ \A j \in 1 .. Len(text) : text[j] \in Piece
      BY LenProperties, ElementOfSeq
    <2>2. \A j \in 1 .. Len(text) : text[j].len \in Nat
      BY <2>1, PieceIs
    <2> QED BY <2>1, <2>2, IsASeq
  <1>2. p.len \in Nat
    BY PieceIs
  <1>3. x = Append(w, p.len)
    <2>1. /\ u \in Seq(Piece) /\ Len(u) = Len(text) + 1 /\ u[Len(text) + 1] = p
          /\ \A j \in 1 .. Len(text) : u[j] = text[j]
          /\ DOMAIN u = 1 .. Len(text) + 1 /\ DOMAIN text = 1 .. Len(text)
      BY AppendProperties, LenProperties
    <2>2. /\ Append(w, p.len) \in Seq(Nat) /\ Len(Append(w, p.len)) = Len(text) + 1
          /\ Append(w, p.len)[Len(text) + 1] = p.len
          /\ \A j \in 1 .. Len(text) : Append(w, p.len)[j] = w[j]
      BY <1>1, <1>2, AppendProperties
    <2>3. \A j \in 1 .. Len(text) : w[j] = text[j].len
      BY <2>1
    <2>4. /\ DOMAIN x = 1 .. Len(text) + 1
          /\ \A j \in 1 .. Len(text) + 1 : x[j] = u[j].len
      BY <2>1
    <2>5. DOMAIN Append(w, p.len) = 1 .. Len(text) + 1
      BY <2>2, LenProperties
    <2>6. \A j \in 1 .. Len(text) + 1 : x[j] = Append(w, p.len)[j]
      <3> TAKE j \in 1 .. Len(text) + 1
      <3> HIDE DEF w, u, x
      <3>1. CASE j = Len(text) + 1
        BY <3>1, <2>1, <2>2, <2>4
      <3>2. CASE j \in 1 .. Len(text)
        BY <3>2, <2>1, <2>2, <2>3, <2>4
      <3> QED BY <1>1, <3>1, <3>2
    <2>7. x = [j \in 1 .. Len(text) + 1 |-> x[j]]
          /\ Append(w, p.len) = [j \in 1 .. Len(text) + 1 |-> Append(w, p.len)[j]]
      <3>1. x = [j \in DOMAIN x |-> x[j]]
        OBVIOUS
      <3>2. Append(w, p.len) = [j \in 1 .. Len(Append(w, p.len)) |-> Append(w, p.len)[j]]
        <4> HIDE DEF w
        <4> QED BY <2>2
      <3> HIDE DEF w, x
      <3> QED BY <2>2, <2>4, <3>1, <3>2
    <2> HIDE DEF w, x
    <2> QED BY <2>6, <2>7
  <1>4. Total(w) \in Nat
    BY <1>1, TotalNat
  <1>5. Total(Append(w, p.len)) = Total(w) + p.len /\ Total(<<>>) = 0
    <2>1. w \in Seq(Int) /\ p.len \in Int
      BY <1>1, <1>2, SeqMonotonic
    <2> HIDE DEF w
    <2> QED BY <2>1, TotalAppend
  <1>6. length(<<>>) = 0
    <2>1. [j \in DOMAIN <<>> |-> <<>>[j].len] = <<>>
      OBVIOUS
    <2> QED BY <1>5, <2>1 DEF length
  <1>7. length(text) = Total(w) /\ length(u) = Total(x)
    BY DEF length
  <1> HIDE DEF w, u, x
  <1>8. length(u) = length(text) + p.len
    BY <1>3, <1>5, <1>7
  <1> QED BY <1>4, <1>6, <1>7, <1>8 DEF u
(* What a piece adds to the numbers shown, an item to those asked for.      *)
WithNumber(x, p) == IF p.kind # "number" THEN x ELSE Append(x, ReadBack(p))

WithAsked(x, item) ==
    IF item.kind \notin {"number", "pointer"} THEN x ELSE Append(x, item.value)

USE DEF WithNumber, WithAsked

(* The numbers in a text are those in front and, if it is one, the last.   *)
LEMMA ShownIs ==
    ASSUME NEW text \in Seq(Piece)
    PROVE  /\ \E f \in [0 .. Len(text) -> Seq(Int)] :
                 /\ f[0] = <<>>
                 /\ \A k \in 1 .. Len(text) : f[k] = WithNumber(f[k - 1], text[k])
           /\ \A f \in [0 .. Len(text) -> Seq(Int)] :
                 f[0] = <<>>
                 /\ (\A k \in 1 .. Len(text) : f[k] = WithNumber(f[k - 1], text[k]))
                    => Shown(text) = f[Len(text)]
  <1>1. Len(text) \in Nat
    BY LenProperties
  <1>typed. \A k \in 1 .. Len(text) :
              text[k].kind = "number" => ReadBack(text[k]) \in Int
    <2>1. \A k \in 1 .. Len(text) : text[k] \in Piece
      BY <1>1, ElementOfSeq
    <2> QED BY <2>1, PieceIs
  <1>2. \E f \in [0 .. Len(text) -> Seq(Int)] :
            /\ f[0] = <<>>
            /\ \A k \in 1 .. Len(text) : f[k] = WithNumber(f[k - 1], text[k])
    <2> DEFINE V == Seq(Int)
               v == <<>>
               n == Len(text)
               step == [k \in 1 .. n |-> [x \in V |-> WithNumber(x, text[k])]]
    <2>1. v \in V /\ n \in Nat
      BY <1>1
    <2>2. \A k \in 1 .. n : \A x \in V : WithNumber(x, text[k]) \in V
      BY <1>1, <1>typed
    <2>3. step \in [1 .. n -> [V -> V]]
      BY <2>2
    <2>4. Iterates(V, v, n, step)
      <3> HIDE DEF V, v, n, step
      <3> QED BY <2>1, <2>3, Iterate
    <2>5. PICK f \in [0 .. n -> V] :
              f[0] = v /\ \A k \in 1 .. n : f[k] = step[k][f[k - 1]]
      BY <2>4 DEF Iterates
    <2>6. ASSUME NEW k \in 1 .. n PROVE f[k] = WithNumber(f[k - 1], text[k])
      <3>1. k - 1 \in 0 .. n /\ f[k - 1] \in V
        <4> HIDE DEF V, v, n, step
        <4> QED BY <2>1, <2>5
      <3> QED BY <2>5, <3>1
    <2> QED BY <2>5, <2>6
  <1> DEFINE upTo[k \in 0 .. Len(text)] ==
        IF k = 0 THEN <<>> ELSE WithNumber(upTo[k - 1], text[k])
  <1>3. upTo = [k \in 0 .. Len(text) |->
        IF k = 0 THEN <<>> ELSE WithNumber(upTo[k - 1], text[k])]
    <2>1. PICK f \in [0 .. Len(text) -> Seq(Int)] :
              /\ f[0] = <<>>
              /\ \A k \in 1 .. Len(text) : f[k] = WithNumber(f[k - 1], text[k])
      BY <1>2
    <2>2. ASSUME NEW k \in 0 .. Len(text) PROVE f[k] =
          IF k = 0 THEN <<>> ELSE WithNumber(f[k - 1], text[k])
      <3>1. CASE k = 0
        BY <2>1, <3>1
      <3>2. CASE k # 0
        <4>1. k \in 1 .. Len(text)
          BY <1>1, <3>2
        <4> QED BY <2>1, <3>2, <4>1
      <3> QED BY <3>1, <3>2
    <2>3. f = [k \in 0 .. Len(text) |-> f[k]]
      BY <2>1
    <2>4. f = [k \in 0 .. Len(text) |->
          IF k = 0 THEN <<>> ELSE WithNumber(f[k - 1], text[k])]
      BY <2>2, <2>3
    <2> QED BY <2>4
  <1>4. Shown(text) = upTo[Len(text)]
    BY DEF Shown
  <1> HIDE DEF upTo
  <1>5. ASSUME NEW f \in [0 .. Len(text) -> Seq(Int)], f[0] = <<>>,
               \A k \in 1 .. Len(text) : f[k] = WithNumber(f[k - 1], text[k])
        PROVE  Shown(text) = f[Len(text)]
    <2> DEFINE S == {m \in Nat : m <= Len(text) => upTo[m] = f[m]}
    <2>1. 0 \in S
      BY <1>1, <1>3, <1>5
    <2>2. ASSUME NEW m \in Nat, m \in S PROVE m + 1 \in S
      <3> SUFFICES ASSUME m + 1 <= Len(text) PROVE upTo[m + 1] = f[m + 1]
        OBVIOUS
      <3>1. /\ m + 1 \in 1 .. Len(text) /\ m + 1 \in 0 .. Len(text) /\ m + 1 # 0
            /\ (m + 1) - 1 = m /\ upTo[m] = f[m]
        BY <1>1, <2>2
      <3>2. f[m + 1] = WithNumber(f[m], text[m + 1])
        BY <1>5, <3>1
      <3>3. upTo[m + 1] = WithNumber(upTo[m], text[m + 1])
        BY <1>3, <3>1
      <3> QED BY <3>1, <3>2, <3>3
    <2>3. \A m \in Nat : m \in S
      <3> HIDE DEF S
      <3> QED BY <2>1, <2>2, NatInd
    <2> QED BY <1>1, <1>4, <2>3
  <1> QED BY <1>2, <1>5

(* What can be asked for is a number.                                       *)
LEMMA ItemIs ==
    ASSUME NEW item \in Item
    PROVE  /\ item.kind \in {"string", "number", "pointer", "double"}
           /\ item.kind = "number" => item.value \in Int_t
           /\ item.kind = "pointer" => item.value \in uintptr_t
           /\ item.kind \in {"number", "pointer"} => item.value \in Int
           /\ item.kind = "string" => item \in StringPiece
           /\ item.kind = "double" => item.len \in Nat /\ item.len < kMaxNumbericSize
  <1>1. Int_t \subseteq Int /\ uintptr_t \subseteq Int
    BY DEF Int_t, uintptr_t
  <1>2. CASE item \in [kind : {"string"}, len : Nat]
    BY <1>2 DEF StringPiece
  <1>3. CASE item \in [kind : {"number"}, value : Int_t]
    BY <1>1, <1>3
  <1>4. CASE item \in [kind : {"pointer"}, value : uintptr_t]
    BY <1>1, <1>4
  <1>5. CASE item \in [kind : {"double"}, len : 0 .. kMaxNumbericSize - 1]
    BY <1>5, LogStreamAssumption
  <1> QED BY <1>2, <1>3, <1>4, <1>5 DEF Item

(* A text with another piece shows one number more, if the piece is one.    *)
LEMMA ShownAppend ==
    ASSUME NEW text \in Seq(Piece), NEW p \in Piece
    PROVE  /\ Shown(text) \in Seq(Int) /\ Shown(<<>>) = <<>>
           /\ Shown(Append(text, p)) =
                 IF p.kind # "number" THEN Shown(text) ELSE Append(Shown(text), ReadBack(p))
  <1> DEFINE n == Len(text)
             u == Append(text, p)
  <1>1. /\ n \in Nat /\ u \in Seq(Piece) /\ Len(u) = n + 1 /\ u[n + 1] = p
        /\ \A k \in 1 .. n : u[k] = text[k]
    BY AppendProperties, LenProperties
  <1>2. PICK g \in [0 .. n + 1 -> Seq(Int)] :
            /\ g[0] = <<>>
            /\ \A k \in 1 .. n + 1 :
                  g[k] = WithNumber(g[k - 1], u[k])
            /\ Shown(u) = g[n + 1]
    <2> HIDE DEF u, n
    <2>1. PICK g \in [0 .. Len(u) -> Seq(Int)] :
              g[0] = <<>> /\ \A k \in 1 .. Len(u) :
                  g[k] = WithNumber(g[k - 1], u[k])
      BY <1>1, ShownIs
    <2>2. Shown(u) = g[Len(u)]
      BY <1>1, <2>1, ShownIs
    <2> QED BY <1>1, <2>1, <2>2
  <1> DEFINE h == [k \in 0 .. n |-> g[k]]
  <1>3. /\ h \in [0 .. n -> Seq(Int)] /\ h[0] = <<>>
        /\ \A k \in 1 .. n :
              h[k] = WithNumber(h[k - 1], text[k])
    <2>1. h \in [0 .. n -> Seq(Int)] /\ h[0] = <<>>
      <3> HIDE DEF u, n
      <3> QED BY <1>1, <1>2
    <2>2. ASSUME NEW k \in 1 .. n
          PROVE  h[k] = WithNumber(h[k - 1], text[k])
      <3>1. /\ k \in 1 .. n + 1 /\ k \in 0 .. n /\ k - 1 \in 0 .. n
            /\ u[k] = text[k]
        BY <1>1
      <3>2. h[k] = g[k] /\ h[k - 1] = g[k - 1]
        BY <3>1
      <3> HIDE DEF u, n, h
      <3> QED BY <1>2, <3>1, <3>2
    <2> QED BY <2>1, <2>2
  <1>4. Shown(text) = h[n]
    <2> HIDE DEF h
    <2> QED BY <1>3, ShownIs
  <1>5. /\ h[n] \in Seq(Int)
        /\ g[n + 1] = IF p.kind # "number" THEN h[n] ELSE Append(h[n], ReadBack(p))
    <2>1. n \in 0 .. n /\ n + 1 \in 1 .. n + 1 /\ (n + 1) - 1 = n
      BY <1>1
    <2> HIDE DEF u, n
    <2> QED BY <1>1, <1>2, <2>1
  <1>6. Shown(<<>>) = <<>>
    <2>1. <<>> \in Seq(Piece) /\ Len(<<>>) = 0
      BY EmptySeq
    <2>2. PICK f \in [0 .. Len(<<>>) -> Seq(Int)] :
              f[0] = <<>> /\ \A k \in 1 .. Len(<<>>) :
                  f[k] = IF <<>>[k].kind # "number" THEN f[k - 1]
                         ELSE Append(f[k - 1], ReadBack(<<>>[k]))
      BY <2>1, ShownIs
    <2> QED BY <2>1, <2>2, ShownIs
  <1> QED BY <1>2, <1>4, <1>5, <1>6

(* The numbers asked for are those of the items in front and the last.      *)
LEMMA AskedIs ==
    ASSUME NEW items \in Seq(Item)
    PROVE  /\ \E f \in [0 .. Len(items) -> Seq(Int)] :
                 /\ f[0] = <<>>
                 /\ \A k \in 1 .. Len(items) : f[k] = WithAsked(f[k - 1], items[k])
           /\ \A f \in [0 .. Len(items) -> Seq(Int)] :
                 f[0] = <<>>
                 /\ (\A k \in 1 .. Len(items) : f[k] = WithAsked(f[k - 1], items[k]))
                    => Asked(items) = f[Len(items)]
  <1>1. Len(items) \in Nat
    BY LenProperties
  <1>typed. \A k \in 1 .. Len(items) :
              items[k].kind \in {"number", "pointer"} => items[k].value \in Int
    <2>1. \A k \in 1 .. Len(items) : items[k] \in Item
      BY <1>1, ElementOfSeq
    <2> QED BY <2>1, ItemIs
  <1>2. \E f \in [0 .. Len(items) -> Seq(Int)] :
            /\ f[0] = <<>>
            /\ \A k \in 1 .. Len(items) : f[k] = WithAsked(f[k - 1], items[k])
    <2> DEFINE V == Seq(Int)
               v == <<>>
               n == Len(items)
               step == [k \in 1 .. n |-> [x \in V |-> WithAsked(x, items[k])]]
    <2>1. v \in V /\ n \in Nat
      BY <1>1
    <2>2. \A k \in 1 .. n : \A x \in V : WithAsked(x, items[k]) \in V
      BY <1>1, <1>typed
    <2>3. step \in [1 .. n -> [V -> V]]
      BY <2>2
    <2>4. Iterates(V, v, n, step)
      <3> HIDE DEF V, v, n, step
      <3> QED BY <2>1, <2>3, Iterate
    <2>5. PICK f \in [0 .. n -> V] :
              f[0] = v /\ \A k \in 1 .. n : f[k] = step[k][f[k - 1]]
      BY <2>4 DEF Iterates
    <2>6. ASSUME NEW k \in 1 .. n PROVE f[k] = WithAsked(f[k - 1], items[k])
      <3>1. k - 1 \in 0 .. n /\ f[k - 1] \in V
        <4> HIDE DEF V, v, n, step
        <4> QED BY <2>1, <2>5
      <3> QED BY <2>5, <3>1
    <2> QED BY <2>5, <2>6
  <1> DEFINE upTo[k \in 0 .. Len(items)] ==
        IF k = 0 THEN <<>> ELSE WithAsked(upTo[k - 1], items[k])
  <1>3. upTo = [k \in 0 .. Len(items) |->
        IF k = 0 THEN <<>> ELSE WithAsked(upTo[k - 1], items[k])]
    <2>1. PICK f \in [0 .. Len(items) -> Seq(Int)] :
              /\ f[0] = <<>>
              /\ \A k \in 1 .. Len(items) : f[k] = WithAsked(f[k - 1], items[k])
      BY <1>2
    <2>2. ASSUME NEW k \in 0 .. Len(items) PROVE f[k] =
          IF k = 0 THEN <<>> ELSE WithAsked(f[k - 1], items[k])
      <3>1. CASE k = 0
        BY <2>1, <3>1
      <3>2. CASE k # 0
        <4>1. k \in 1 .. Len(items)
          BY <1>1, <3>2
        <4> QED BY <2>1, <3>2, <4>1
      <3> QED BY <3>1, <3>2
    <2>3. f = [k \in 0 .. Len(items) |-> f[k]]
      BY <2>1
    <2>4. f = [k \in 0 .. Len(items) |->
          IF k = 0 THEN <<>> ELSE WithAsked(f[k - 1], items[k])]
      BY <2>2, <2>3
    <2> QED BY <2>4
  <1>4. Asked(items) = upTo[Len(items)]
    BY DEF Asked
  <1> HIDE DEF upTo
  <1>5. ASSUME NEW f \in [0 .. Len(items) -> Seq(Int)], f[0] = <<>>,
               \A k \in 1 .. Len(items) : f[k] = WithAsked(f[k - 1], items[k])
        PROVE  Asked(items) = f[Len(items)]
    <2> DEFINE S == {m \in Nat : m <= Len(items) => upTo[m] = f[m]}
    <2>1. 0 \in S
      BY <1>1, <1>3, <1>5
    <2>2. ASSUME NEW m \in Nat, m \in S PROVE m + 1 \in S
      <3> SUFFICES ASSUME m + 1 <= Len(items) PROVE upTo[m + 1] = f[m + 1]
        OBVIOUS
      <3>1. /\ m + 1 \in 1 .. Len(items) /\ m + 1 \in 0 .. Len(items) /\ m + 1 # 0
            /\ (m + 1) - 1 = m /\ upTo[m] = f[m]
        BY <1>1, <2>2
      <3>2. f[m + 1] = WithAsked(f[m], items[m + 1])
        BY <1>5, <3>1
      <3>3. upTo[m + 1] = WithAsked(upTo[m], items[m + 1])
        BY <1>3, <3>1
      <3> QED BY <3>1, <3>2, <3>3
    <2>3. \A m \in Nat : m \in S
      <3> HIDE DEF S
      <3> QED BY <2>1, <2>2, NatInd
    <2> QED BY <1>1, <1>4, <2>3
  <1> QED BY <1>2, <1>5
-----------------------------------------------------------------------------
(* Lines.                                                                   *)

(* A text begun in a second that is to show some numbers.                   *)
Sound(text, wanted, second) ==
    /\ text \in Seq(Piece) /\ text # <<>> /\ text[1].time = second
    /\ length(text) < kSmallBuffer
    /\ Range(Shown(text)) \subseteq Range(wanted)
    /\ length(text) <= kSmallBuffer - kMaxNumbericSize => Shown(text) = wanted

(* A piece that fits leaves the text what it was, and its beginning too.    *)
LEMMA SoundAppend ==
    ASSUME NEW text, NEW wanted \in Seq(Int), NEW second, Sound(text, wanted, second),
           NEW p \in Piece, avail(text) > p.len
    PROVE  LET u == Append(text, p) IN
           /\ u \in Seq(Piece) /\ u # <<>> /\ u[1].time = second
           /\ length(u) = length(text) + p.len /\ length(u) < kSmallBuffer
           /\ length(text) \in Nat /\ p.len \in Nat
           /\ Shown(u) = IF p.kind # "number" THEN Shown(text)
                         ELSE Append(Shown(text), ReadBack(p))
  <1>1. text \in Seq(Piece) /\ text # <<>> /\ text[1].time = second
    BY DEF Sound
  <1>2. Append(text, p) \in Seq(Piece) /\ Append(text, p) # <<>>
        /\ Append(text, p)[1].time = second
    <2>1. Len(text) \in Nat \ {0} /\ 1 \in 1 .. Len(text)
      BY <1>1, EmptySeq, LenProperties
    <2>2. /\ Append(text, p) \in Seq(Piece) /\ Append(text, p) # <<>>
          /\ Append(text, p)[1] = text[1]
      BY <1>1, <2>1, AppendProperties
    <2> QED BY <1>1, <2>2
  <1>3. /\ length(text) \in Nat /\ p.len \in Nat
        /\ length(Append(text, p)) = length(text) + p.len
    BY <1>1, LengthAppend, PieceIs
  <1>4. length(Append(text, p)) < kSmallBuffer
    BY <1>3, LogStreamAssumption DEF avail
  <1>5. Shown(Append(text, p)) = IF p.kind # "number" THEN Shown(text)
                                 ELSE Append(Shown(text), ReadBack(p))
    BY <1>1, ShownAppend
  <1> QED BY <1>2, <1>3, <1>4, <1>5

(* A string goes in whole or not at all.                                    *)
LEMMA SoundString ==
    ASSUME NEW text, NEW wanted \in Seq(Int), NEW second, Sound(text, wanted, second),
           NEW p \in StringPiece
    PROVE  Sound(append(text, p), wanted, second)
  <1>1. CASE avail(text) > p.len
    <2>1. p \in Piece /\ p.kind # "number"
      BY DEF Piece, StringPiece
    <2>2. append(text, p) = Append(text, p)
      BY <1>1 DEF append
    <2>3. LET u == Append(text, p) IN
          /\ u \in Seq(Piece) /\ u # <<>> /\ u[1].time = second
          /\ length(u) = length(text) + p.len /\ length(u) < kSmallBuffer
          /\ length(text) \in Nat /\ p.len \in Nat
          /\ Shown(u) = Shown(text)
      BY <1>1, <2>1, SoundAppend
    <2> QED BY <2>2, <2>3, LogStreamAssumption DEF Sound
  <1>2. CASE ~ (avail(text) > p.len)
    BY <1>2 DEF append
  <1> QED BY <1>1, <1>2

(* A double that finds the room asked for leaves the numbers what they are. *)
LEMMA SoundDouble ==
    ASSUME NEW text, NEW wanted \in Seq(Int), NEW second, Sound(text, wanted, second),
           NEW len \in Nat, len < kMaxNumbericSize
    PROVE  Sound(formatDouble(text, len), wanted, second)
  <1>1. CASE Roomy(text)
    <2>1. String(len) \in StringPiece /\ String(len).len = len
      BY DEF String, StringPiece
    <2>2. length(text) \in Nat
      <3>1. text \in Seq(Piece) /\ String(len) \in Piece
        BY <2>1 DEF Sound, Piece
      <3> QED BY <3>1, LengthAppend
    <2>3. avail(text) > String(len).len
      BY <1>1, <2>1, <2>2, LogStreamAssumption DEF avail, Roomy
    <2>4. formatDouble(text, len) = append(text, String(len))
      BY <1>1, <2>3 DEF formatDouble, append
    <2> QED BY <2>1, <2>4, SoundString
  <1>2. CASE ~Roomy(text)
    BY <1>2 DEF formatDouble
  <1> QED BY <1>1, <1>2

(* A number that finds no room is missed in a text that is too long.        *)
LEMMA SoundNumber ==
    ASSUME NEW text, NEW wanted \in Seq(Int), NEW second, Sound(text, wanted, second),
           NEW p \in NumberPiece, p.len < kMaxNumbericSize
    PROVE  Sound(IF Roomy(text) THEN Append(text, p) ELSE text,
                 Append(wanted, ReadBack(p)), second)
  <1> DEFINE v == ReadBack(p)
             w == Append(wanted, v)
  <1>1. p \in Piece /\ p.kind = "number" /\ v \in Int
    <2>1. p \in Piece
      BY DEF Piece
    <2> QED BY <2>1, PieceIs
  <1>2. text \in Seq(Piece) /\ length(text) \in Nat /\ p.len \in Nat
    <2>1. text \in Seq(Piece)
      BY DEF Sound
    <2> QED BY <1>1, <2>1, LengthAppend, PieceIs
  <1>3. CASE Roomy(text)
    <2>1. length(text) <= kSmallBuffer - kMaxNumbericSize /\ avail(text) > p.len
      BY <1>2, <1>3, LogStreamAssumption DEF avail, Roomy
    <2>2. Shown(text) = wanted
      BY <2>1 DEF Sound
    <2>3. LET u == Append(text, p) IN
          /\ u \in Seq(Piece) /\ u # <<>> /\ u[1].time = second
          /\ length(u) < kSmallBuffer
          /\ Shown(u) = w
      <3> HIDE DEF v
      <3> QED BY <1>1, <2>1, <2>2, SoundAppend DEF v
    <2> HIDE DEF w, v
    <2> QED BY <1>3, <2>3 DEF Sound, w, v
  <1>4. CASE ~Roomy(text)
    <2>1. ~ (length(text) <= kSmallBuffer - kMaxNumbericSize)
      BY <1>2, <1>4, LogStreamAssumption DEF avail, Roomy
    <2>2. Range(wanted) \subseteq Range(w)
      <3>1. Len(wanted) \in Nat /\ DOMAIN wanted = 1 .. Len(wanted)
        BY LenProperties
      <3>2. /\ \A k \in 1 .. Len(wanted) : w[k] = wanted[k]
            /\ DOMAIN w = 1 .. Len(wanted) + 1
        BY <1>1, <3>1, AppendProperties, LenProperties
      <3> HIDE DEF w
      <3>3. \A k \in DOMAIN wanted : k \in DOMAIN w /\ w[k] = wanted[k]
        BY <3>1, <3>2
      <3> QED BY <3>3 DEF Range
    <2>3. Sound(text, w, second)
      <3> HIDE DEF w
      <3> QED BY <2>1, <2>2 DEF Sound
    <2> QED BY <1>4, <2>3
  <1> QED BY <1>3, <1>4

(* formatInteger: all the digits of a number, or none.                      *)
LEMMA SoundInteger ==
    ASSUME NEW text, NEW wanted \in Seq(Int), NEW second, Sound(text, wanted, second),
           NEW v \in Int_t
    PROVE  Sound(formatInteger(text, v), Append(wanted, v), second)
  <1>1. /\ convert(v) \in NumberPiece /\ convert(v).len < kMaxNumbericSize
        /\ ReadBack(convert(v)) = v
    BY ConvertRight
  <1>2. Sound(IF Roomy(text) THEN Append(text, convert(v)) ELSE text,
              Append(wanted, ReadBack(convert(v))), second)
    BY <1>1, SoundNumber
  <1> QED BY <1>1, <1>2 DEF formatInteger

(* formatPointer: all the digits of an address, or none.                    *)
LEMMA SoundPointer ==
    ASSUME NEW text, NEW wanted \in Seq(Int), NEW second, Sound(text, wanted, second),
           NEW v \in uintptr_t
    PROVE  Sound(formatPointer(text, v), Append(wanted, v), second)
  <1>1. /\ convertHex(v) \in NumberPiece /\ convertHex(v).len < kMaxNumbericSize
        /\ ReadBack(convertHex(v)) = v
    BY ConvertHexRight
  <1>2. Sound(IF Roomy(text) THEN Append(text, convertHex(v)) ELSE text,
              Append(wanted, ReadBack(convertHex(v))), second)
    BY <1>1, SoundNumber
  <1> QED BY <1>1, <1>2 DEF formatPointer

(* Each of the operators <<.                                                *)
LEMMA StreamSound ==
    ASSUME NEW text, NEW wanted \in Seq(Int), NEW second, Sound(text, wanted, second),
           NEW item \in Item
    PROVE  Sound(Stream(text, item),
                 IF item.kind \notin {"number", "pointer"} THEN wanted
                 ELSE Append(wanted, item.value), second)
  <1>1. CASE item.kind = "string"
    <2>1. item \in StringPiece
      BY <1>1, ItemIs
    <2>2. Stream(text, item) = append(text, item)
      BY <1>1 DEF Stream
    <2>3. Sound(append(text, item), wanted, second)
      BY <2>1, SoundString
    <2> QED BY <1>1, <2>2, <2>3
  <1>2. CASE item.kind = "number"
    <2>1. item.value \in Int_t
      BY <1>2, ItemIs
    <2>2. Stream(text, item) = formatInteger(text, item.value)
      BY <1>2 DEF Stream
    <2>3. Sound(formatInteger(text, item.value), Append(wanted, item.value), second)
      BY <2>1, SoundInteger
    <2> QED BY <1>2, <2>2, <2>3
  <1>3. CASE item.kind = "pointer"
    <2>1. item.value \in uintptr_t
      BY <1>3, ItemIs
    <2>2. Stream(text, item) = formatPointer(text, item.value)
      BY <1>3 DEF Stream
    <2>3. Sound(formatPointer(text, item.value), Append(wanted, item.value), second)
      BY <2>1, SoundPointer
    <2> QED BY <1>3, <2>2, <2>3
  <1>4. CASE item.kind = "double"
    <2>1. item.len \in Nat /\ item.len < kMaxNumbericSize
      BY <1>4, ItemIs
    <2>2. Stream(text, item) = formatDouble(text, item.len)
      BY <1>4 DEF Stream
    <2>3. Sound(formatDouble(text, item.len), wanted, second)
      BY <2>1, SoundDouble
    <2> QED BY <1>4, <2>2, <2>3
  <1>5. item.kind \in {"string", "number", "pointer", "double"}
    BY ItemIs
  <1> QED BY <1>1, <1>2, <1>3, <1>4, <1>5

(* What is streamed is a text.                                              *)
LEMMA StreamTyped ==
    ASSUME NEW text \in Seq(Piece), NEW item \in Item
    PROVE  Stream(text, item) \in Seq(Piece)
  <1>1. ASSUME NEW p \in Piece
        PROVE  Append(text, p) \in Seq(Piece)
    BY AppendProperties
  <1>2. CASE item.kind = "string"
    <2>1. item \in Piece
      BY <1>2, ItemIs DEF Piece
    <2>2. Stream(text, item) = append(text, item)
      BY <1>2 DEF Stream
    <2> QED BY <1>1, <2>1, <2>2 DEF append
  <1>3. CASE item.kind = "number"
    <2>1. convert(item.value) \in Piece
      BY <1>3, ItemIs, ConvertRight DEF Piece
    <2>2. Stream(text, item) = formatInteger(text, item.value)
      BY <1>3 DEF Stream
    <2> QED BY <1>1, <2>1, <2>2 DEF formatInteger
  <1>4. CASE item.kind = "pointer"
    <2>1. convertHex(item.value) \in Piece
      BY <1>4, ItemIs, ConvertHexRight DEF Piece
    <2>2. Stream(text, item) = formatPointer(text, item.value)
      BY <1>4 DEF Stream
    <2> QED BY <1>1, <2>1, <2>2 DEF formatPointer
  <1>5. CASE item.kind = "double"
    <2>1. String(item.len) \in Piece
      BY <1>5, ItemIs DEF Piece, String, StringPiece
    <2>2. Stream(text, item) = formatDouble(text, item.len)
      BY <1>5 DEF Stream
    <2> QED BY <1>1, <2>1, <2>2 DEF formatDouble
  <1>6. item.kind \in {"string", "number", "pointer", "double"}
    BY ItemIs
  <1> QED BY <1>2, <1>3, <1>4, <1>5, <1>6

(* What is streamed onto a text is streamed one item after another.         *)
LEMMA StreamedIs ==
    ASSUME NEW text \in Seq(Piece), NEW items \in Seq(Item)
    PROVE  /\ \E f \in [0 .. Len(items) -> Seq(Piece)] :
                 /\ f[0] = text
                 /\ \A k \in 1 .. Len(items) : f[k] = Stream(f[k - 1], items[k])
           /\ \A f \in [0 .. Len(items) -> Seq(Piece)] :
                 f[0] = text
                 /\ (\A k \in 1 .. Len(items) : f[k] = Stream(f[k - 1], items[k]))
                    => Streamed(text, items) = f[Len(items)]
  <1>1. Len(items) \in Nat
    BY LenProperties
  <1>typed. \A k \in 1 .. Len(items) :
              \A x \in Seq(Piece) : Stream(x, items[k]) \in Seq(Piece)
    <2>1. \A k \in 1 .. Len(items) : items[k] \in Item
      BY <1>1, ElementOfSeq
    <2> QED BY <2>1, StreamTyped
  <1>2. \E f \in [0 .. Len(items) -> Seq(Piece)] :
            f[0] = text /\ \A k \in 1 .. Len(items) : f[k] = Stream(f[k - 1], items[k])
    <2> DEFINE V == Seq(Piece)
               v == text
               n == Len(items)
               step == [k \in 1 .. n |-> [x \in V |-> Stream(x, items[k])]]
    <2>1. v \in V /\ n \in Nat
      BY <1>1
    <2>2. \A k \in 1 .. n : \A x \in V : (Stream(x, items[k])) \in V
      BY <1>1, <1>typed
    <2>3. step \in [1 .. n -> [V -> V]]
      BY <2>2
    <2>4. Iterates(V, v, n, step)
      <3> HIDE DEF V, v, n, step
      <3> QED BY <2>1, <2>3, Iterate
    <2>5. PICK f \in [0 .. n -> V] :
              f[0] = v /\ \A k \in 1 .. n : f[k] = step[k][f[k - 1]]
      BY <2>4 DEF Iterates
    <2>6. ASSUME NEW k \in 1 .. n PROVE f[k] = Stream(f[k - 1], items[k])
      <3>1. k - 1 \in 0 .. n /\ f[k - 1] \in V
        <4> HIDE DEF V, v, n, step
        <4> QED BY <2>1, <2>5
      <3> QED BY <2>5, <3>1
    <2> QED BY <2>5, <2>6
  <1> DEFINE upTo[k \in 0 .. Len(items)] ==
        IF k = 0 THEN text ELSE Stream(upTo[k - 1], items[k])
  <1>3. upTo = [k \in 0 .. Len(items) |->
        IF k = 0 THEN text ELSE Stream(upTo[k - 1], items[k])]
    <2>1. PICK f \in [0 .. Len(items) -> Seq(Piece)] :
              /\ f[0] = text
              /\ \A k \in 1 .. Len(items) : f[k] = Stream(f[k - 1], items[k])
      BY <1>2
    <2>2. ASSUME NEW k \in 0 .. Len(items) PROVE f[k] =
          IF k = 0 THEN text ELSE Stream(f[k - 1], items[k])
      <3>1. CASE k = 0
        BY <2>1, <3>1
      <3>2. CASE k # 0
        <4>1. k \in 1 .. Len(items)
          BY <1>1, <3>2
        <4> QED BY <2>1, <3>2, <4>1
      <3> QED BY <3>1, <3>2
    <2>3. f = [k \in 0 .. Len(items) |-> f[k]]
      BY <2>1
    <2>4. f = [k \in 0 .. Len(items) |->
          IF k = 0 THEN text ELSE Stream(f[k - 1], items[k])]
      BY <2>2, <2>3
    <2> QED BY <2>4
  <1>4. Streamed(text, items) = upTo[Len(items)]
    BY DEF Streamed
  <1> HIDE DEF upTo
  <1>5. ASSUME NEW f \in [0 .. Len(items) -> Seq(Piece)], f[0] = text,
               \A k \in 1 .. Len(items) : f[k] = Stream(f[k - 1], items[k])
        PROVE  Streamed(text, items) = f[Len(items)]
    <2> DEFINE S == {m \in Nat : m <= Len(items) => upTo[m] = f[m]}
    <2>1. 0 \in S
      BY <1>1, <1>3, <1>5
    <2>2. ASSUME NEW m \in Nat, m \in S PROVE m + 1 \in S
      <3> SUFFICES ASSUME m + 1 <= Len(items) PROVE upTo[m + 1] = f[m + 1]
        OBVIOUS
      <3>1. /\ m + 1 \in 1 .. Len(items) /\ m + 1 \in 0 .. Len(items) /\ m + 1 # 0
            /\ (m + 1) - 1 = m /\ upTo[m] = f[m]
        BY <1>1, <2>2
      <3>2. f[m + 1] = Stream(f[m], items[m + 1])
        BY <1>5, <3>1
      <3>3. upTo[m + 1] = Stream(upTo[m], items[m + 1])
        BY <1>3, <3>1
      <3> QED BY <3>1, <3>2, <3>3
    <2>3. \A m \in Nat : m \in S
      <3> HIDE DEF S
      <3> QED BY <2>1, <2>2, NatInd
    <2> QED BY <1>1, <1>4, <2>3
  <1> QED BY <1>2, <1>5

(* An element behind two sequences is behind the second.                    *)
LEMMA ConcatAppend ==
    ASSUME NEW s \in Seq(Int), NEW t \in Seq(Int), NEW e \in Int
    PROVE  Append(s \o t, e) = s \o Append(t, e)
  <1>1. s \o t \in Seq(Int) /\ <<e>> \in Seq(Int)
    BY ConcatProperties
  <1>2. Append(s \o t, e) = (s \o t) \o <<e>> /\ Append(t, e) = t \o <<e>>
    BY <1>1, AppendIsConcat
  <1>3. (s \o t) \o <<e>> = s \o (t \o <<e>>)
    BY <1>1, ConcatAssociative
  <1> QED BY <1>2, <1>3

(* The whole of what a user streams.                                        *)
LEMMA StreamedSound ==
    ASSUME NEW text, NEW wanted \in Seq(Int), NEW second, Sound(text, wanted, second),
           NEW items \in Seq(Item)
    PROVE  /\ Asked(items) \in Seq(Int)
           /\ Sound(Streamed(text, items), wanted \o Asked(items), second)
  <1> DEFINE n == Len(items)
  <1>1. text \in Seq(Piece) /\ n \in Nat /\ \A k \in 1 .. n : items[k] \in Item
    BY LenProperties, ElementOfSeq DEF Sound
  <1>2. PICK f \in [0 .. n -> Seq(Piece)] :
            /\ f[0] = text /\ \A k \in 1 .. n : f[k] = Stream(f[k - 1], items[k])
            /\ Streamed(text, items) = f[n]
    <2>1. PICK f \in [0 .. n -> Seq(Piece)] :
              f[0] = text /\ \A k \in 1 .. n : f[k] = Stream(f[k - 1], items[k])
      BY <1>1, StreamedIs
    <2>2. Streamed(text, items) = f[n]
      BY <1>1, <2>1, StreamedIs
    <2> QED BY <2>1, <2>2
  <1>3. PICK g \in [0 .. n -> Seq(Int)] :
            /\ g[0] = <<>>
            /\ \A k \in 1 .. n :
                  g[k] = WithAsked(g[k - 1], items[k])
            /\ Asked(items) = g[n]
    <2>1. PICK g \in [0 .. n -> Seq(Int)] :
              /\ g[0] = <<>>
              /\ \A k \in 1 .. n :
                    g[k] = WithAsked(g[k - 1], items[k])
      BY <1>1, AskedIs
    <2>2. Asked(items) = g[n]
      BY <1>1, <2>1, AskedIs
    <2> QED BY <2>1, <2>2
  <1> DEFINE S == {m \in Nat : m <= n => Sound(f[m], wanted \o g[m], second)}
  <1>4. 0 \in S
    <2>1. wanted \o <<>> = wanted
      BY ConcatEmptySeq
    <2> QED BY <1>2, <1>3, <2>1
  <1>5. ASSUME NEW m \in Nat, m \in S PROVE m + 1 \in S
    <2> SUFFICES ASSUME m + 1 <= n PROVE Sound(f[m + 1], wanted \o g[m + 1], second)
      OBVIOUS
    <2> DEFINE item == items[m + 1]
    <2>1. /\ m + 1 \in 1 .. n /\ (m + 1) - 1 = m /\ m \in 0 .. n
          /\ Sound(f[m], wanted \o g[m], second)
      BY <1>1, <1>5
    <2>2. item \in Item /\ g[m] \in Seq(Int) /\ wanted \o g[m] \in Seq(Int)
      <3>1. item \in Item /\ g[m] \in Seq(Int)
        <4> HIDE DEF n
        <4> QED BY <1>1, <1>3, <2>1
      <3> QED BY <3>1, ConcatProperties
    <2>3. f[m + 1] = Stream(f[m], item)
      <3> HIDE DEF n
      <3> QED BY <1>2, <2>1
    <2>4. g[m + 1] = IF item.kind \notin {"number", "pointer"} THEN g[m]
                     ELSE Append(g[m], item.value)
      <3> HIDE DEF n
      <3> QED BY <1>3, <2>1
    <2>5. Sound(Stream(f[m], item),
                IF item.kind \notin {"number", "pointer"} THEN wanted \o g[m]
                ELSE Append(wanted \o g[m], item.value), second)
      <3> HIDE DEF item
      <3> QED BY <2>1, <2>2, StreamSound
    <2>6. item.kind \in {"number", "pointer"} =>
             Append(wanted \o g[m], item.value) = wanted \o Append(g[m], item.value)
      <3> SUFFICES ASSUME item.kind \in {"number", "pointer"}
                   PROVE  Append(wanted \o g[m], item.value)
                             = wanted \o Append(g[m], item.value)
        OBVIOUS
      <3>1. item.value \in Int
        <4> HIDE DEF item
        <4> QED BY <2>2, ItemIs
      <3> HIDE DEF item
      <3> QED BY <2>2, <3>1, ConcatAppend
    <2> HIDE DEF item
    <2> QED BY <2>3, <2>4, <2>5, <2>6
  <1>6. n \in S
    <2> HIDE DEF S
    <2> QED BY <1>1, <1>4, <1>5, NatInd
  <1>7. n \in 0 .. n
    BY <1>1
  <1> HIDE DEF n
  <1> QED BY <1>1, <1>2, <1>3, <1>6, <1>7

(* What put does to it.                                                     *)
LEMMA SoundPut ==
    ASSUME NEW text, NEW wanted \in Seq(Int), NEW second, Sound(text, wanted, second),
           NEW len \in Nat
    PROVE  Sound(put(text, len), wanted, second)
  <1>1. String(len) \in StringPiece
    BY DEF String, StringPiece
  <1> QED BY <1>1, SoundString DEF put

(* The constructors' part, with the number of an error if there was one.    *)
LEMMA LoggerSound ==
    ASSUME NEW second \in Nat, NEW level, NEW savedError \in Int_t
    PROVE  LET asked == IF savedError = 0 THEN <<>> ELSE <<savedError>>
           IN  /\ asked \in Seq(Int)
               /\ Sound(Logger(second, level, savedError), asked, second)
  <1> DEFINE asked == IF savedError = 0 THEN <<>> ELSE <<savedError>>
             header == Header(second)
             head == append(<<>>, header)
             p == put(put(head, StrErrorLen), 7)
             q == formatInteger(p, savedError)
  <1>1. /\ <<>> \in Seq(Int) /\ <<>> \in Seq(Piece) /\ savedError \in Int
        /\ asked \in Seq(Int) /\ Append(<<>>, savedError) = <<savedError>>
        /\ StrErrorLen \in Nat /\ FuncLen \in Nat
    <2>1. savedError \in Int
      BY DEF Int_t
    <2> QED BY <2>1, EmptySeq, LogStreamAssumption
  <1>2. header \in Piece /\ header.kind # "number" /\ header.len = HeaderLen
        /\ header.time = second
    BY DEF Header, Piece, HeaderPiece
  <1>3. Sound(head, <<>>, second)
    <2>1. length(<<>>) = 0 /\ length(Append(<<>>, header)) = HeaderLen
      <3>1. HeaderLen \in Nat
        BY LogStreamAssumption
      <3>2. length(<<>>) \in Nat /\ length(<<>>) = 0
            /\ length(Append(<<>>, header)) = length(<<>>) + header.len
        <4> HIDE DEF header
        <4> QED BY <1>1, <1>2, LengthAppend
      <3> HIDE DEF header
      <3> QED BY <1>2, <3>1, <3>2
    <2>2. head = <<header>> /\ Append(<<>>, header) = <<header>>
      <3>1. avail(<<>>) > header.len
        <4> HIDE DEF header
        <4> QED BY <1>2, <2>1, LogStreamAssumption DEF avail
      <3> HIDE DEF header
      <3> QED BY <3>1 DEF append
    <2>3. Shown(<<header>>) = <<>>
      <3> HIDE DEF header
      <3> QED BY <1>1, <1>2, <2>2, ShownAppend
    <2>4. <<header>> \in Seq(Piece) /\ <<header>> # <<>> /\ <<header>>[1].time = second
      <3> HIDE DEF header
      <3> QED BY <1>2
    <2> HIDE DEF header, head
    <2> QED BY <2>1, <2>2, <2>3, <2>4, LogStreamAssumption DEF Sound
  <1> HIDE DEF head
  <1>4. Sound(Impl(second, savedError), asked, second)
    <2>1. CASE savedError = 0
      <3>1. Impl(second, savedError) = head /\ asked = <<>>
        BY <2>1 DEF Impl, head
      <3> QED BY <1>3, <3>1
    <2>2. CASE savedError # 0
      <3>1. Impl(second, savedError) = put(q, 2) /\ asked = Append(<<>>, savedError)
        BY <1>1, <2>2 DEF Impl, head
      <3>2. Sound(put(head, StrErrorLen), <<>>, second)
        BY <1>1, <1>3, SoundPut
      <3>3. Sound(p, <<>>, second)
        BY <1>1, <3>2, SoundPut
      <3>4. Sound(q, Append(<<>>, savedError), second)
        <4> HIDE DEF p
        <4> QED BY <1>1, <3>3, SoundInteger
      <3>5. Sound(put(q, 2), asked, second)
        <4> HIDE DEF q, asked
        <4> QED BY <1>1, <3>1, <3>4, SoundPut
      <3> QED BY <3>1, <3>5
    <2> QED BY <2>1, <2>2
  <1> DEFINE text == Impl(second, savedError)
  <1>5. Logger(second, level, savedError)
           = IF level <= INFO THEN put(put(text, FuncLen), 1) ELSE text
    BY DEF Logger
  <1>6. Sound(put(put(text, FuncLen), 1), asked, second)
    <2> HIDE DEF asked, text
    <2>1. Sound(put(text, FuncLen), asked, second)
      BY <1>1, <1>4, SoundPut DEF text
    <2> QED BY <1>1, <2>1, SoundPut
  <1> HIDE DEF asked
  <1> QED BY <1>1, <1>4, <1>5, <1>6 DEF asked

(* A line as a Logger makes it.                                             *)
LEMMA LineMade ==
    ASSUME NEW second \in Nat, NEW m \in Message
    PROVE  LET head == Logger(second, m.level, m.error)
           IN  Sound(finish(Streamed(head, m.items), m.line), Wanted(m), second)
  <1> DEFINE head == Logger(second, m.level, m.error)
             text == Streamed(head, m.items)
             asked == IF m.error = 0 THEN <<>> ELSE <<m.error>>
             w == asked \o Asked(m.items)
             p == put(put(put(text, 3), FileLen), 1)
             q == formatInteger(p, m.line)
  <1>1. /\ m.error \in Int_t /\ m.line \in Int_t /\ m.line \in Int /\ m.items \in Seq(Item)
        /\ FileLen \in Nat
    BY LogStreamAssumption DEF Message, Int_t
  <1>2. asked \in Seq(Int) /\ Sound(head, asked, second)
    BY <1>1, LoggerSound
  <1>3. Asked(m.items) \in Seq(Int) /\ Sound(text, w, second)
    <2> HIDE DEF asked, head
    <2> QED BY <1>1, <1>2, StreamedSound
  <1>4. w \in Seq(Int) /\ Wanted(m) = Append(w, m.line)
    <2>1. w \in Seq(Int)
      <3> HIDE DEF asked
      <3> QED BY <1>2, <1>3, ConcatProperties
    <2>2. Wanted(m) = w \o <<m.line>>
      <3>1. Wanted(m) = asked \o Asked(m.items) \o <<m.line>>
        BY DEF Wanted
      <3> QED BY <3>1
    <2> HIDE DEF w
    <2> QED BY <1>1, <2>1, <2>2, AppendIsConcat
  <1> HIDE DEF w, text, head
  <1>5. Sound(p, w, second)
    <2>1. Sound(put(text, 3), w, second)
      BY <1>3, <1>4, SoundPut
    <2>2. Sound(put(put(text, 3), FileLen), w, second)
      BY <1>1, <1>4, <2>1, SoundPut
    <2> QED BY <1>4, <2>2, SoundPut
  <1>6. Append(w, m.line) \in Seq(Int) /\ Sound(q, Append(w, m.line), second)
    <2> HIDE DEF p
    <2> QED BY <1>1, <1>4, <1>5, SoundInteger, AppendProperties
  <1>7. finish(text, m.line) = put(q, 1)
    BY DEF finish
  <1>8. Sound(put(q, 1), Wanted(m), second)
    <2> HIDE DEF q
    <2> QED BY <1>4, <1>6, SoundPut
  <1> QED BY <1>7, <1>8 DEF text, head
-----------------------------------------------------------------------------
(* Buffers, one after another.                                              *)
(* The lines in buffers are those of the buffers in front and of the last.  *)
LEMMA FlattenIs ==
    ASSUME NEW S, NEW ss \in Seq(Seq(S))
    PROVE  /\ \E f \in [0 .. Len(ss) -> Seq(S)] :
                 f[0] = <<>> /\ \A k \in 1 .. Len(ss) : f[k] = f[k - 1] \o ss[k]
           /\ \A f \in [0 .. Len(ss) -> Seq(S)] :
                 f[0] = <<>> /\ (\A k \in 1 .. Len(ss) : f[k] = f[k - 1] \o ss[k])
                    => FlattenSeq(ss) = f[Len(ss)]
  <1>1. Len(ss) \in Nat /\ \A k \in 1 .. Len(ss) : ss[k] \in Seq(S)
    BY LenProperties, ElementOfSeq
  <1>2. \E f \in [0 .. Len(ss) -> Seq(S)] :
            f[0] = <<>> /\ \A k \in 1 .. Len(ss) : f[k] = f[k - 1] \o ss[k]
    <2> DEFINE V == Seq(S)
               v == <<>>
               n == Len(ss)
               step == [k \in 1 .. n |-> [x \in V |-> x \o ss[k]]]
    <2>1. v \in V /\ n \in Nat
      BY <1>1, EmptySeq
    <2>2. \A k \in 1 .. n : \A x \in V : x \o ss[k] \in V
      BY <1>1, ConcatProperties
    <2>3. step \in [1 .. n -> [V -> V]]
      BY <2>2
    <2>4. Iterates(V, v, n, step)
      <3> HIDE DEF V, v, n, step
      <3> QED BY <2>1, <2>3, Iterate
    <2>5. PICK f \in [0 .. n -> V] :
              f[0] = v /\ \A k \in 1 .. n : f[k] = step[k][f[k - 1]]
      BY <2>4 DEF Iterates
    <2>6. ASSUME NEW k \in 1 .. n PROVE f[k] = f[k - 1] \o ss[k]
      <3>1. k - 1 \in 0 .. n /\ f[k - 1] \in V
        <4> HIDE DEF V, v, n, step
        <4> QED BY <2>1, <2>5
      <3> QED BY <2>5, <3>1
    <2> QED BY <2>5, <2>6
  <1>3. ASSUME NEW f \in [0 .. Len(ss) -> Seq(S)], f[0] = <<>>,
               \A k \in 1 .. Len(ss) : f[k] = f[k - 1] \o ss[k]
        PROVE  FlattenSeq(ss) = f[Len(ss)]
    <2>1. CASE Len(ss) = 0
      <3>1. ss = <<>> /\ FlattenSeq(ss) = ss
        BY <2>1, EmptySeq DEF FlattenSeq
      <3> QED BY <2>1, <3>1, <1>3
    <2>2. CASE Len(ss) # 0
      <3> DEFINE flatten[k \in 1 .. Len(ss)] ==
                    IF k = 1 THEN ss[k] ELSE flatten[k - 1] \o ss[k]
      <3>1. flatten = [k \in 1 .. Len(ss) |->
                          IF k = 1 THEN ss[k] ELSE flatten[k - 1] \o ss[k]]
        <4> DEFINE g == [k \in 1 .. Len(ss) |-> f[k]]
        <4>1. ASSUME NEW k \in 1 .. Len(ss)
              PROVE  g[k] = IF k = 1 THEN ss[k] ELSE g[k - 1] \o ss[k]
          <5>1. CASE k = 1
            <6>1. f[k] = <<>> \o ss[k] /\ ss[k] \in Seq(S)
              <7>1. k - 1 = 0
                BY <5>1
              <7>2. f[k] = f[k - 1] \o ss[k]
                BY <1>3
              <7> QED BY <1>1, <1>3, <7>1, <7>2
            <6>2. <<>> \o ss[k] = ss[k]
              BY <6>1, ConcatEmptySeq
            <6> QED BY <5>1, <6>1, <6>2
          <5>2. CASE k # 1
            <6>1. k - 1 \in 1 .. Len(ss) /\ g[k - 1] = f[k - 1]
              BY <1>1, <5>2
            <6> QED BY <1>3, <5>2, <6>1
          <5> QED BY <5>1, <5>2
        <4>2. g = [k \in 1 .. Len(ss) |-> g[k]]
          OBVIOUS
        <4> HIDE DEF g
        <4>3. g = [k \in 1 .. Len(ss) |-> IF k = 1 THEN ss[k] ELSE g[k - 1] \o ss[k]]
          BY <4>1, <4>2
        <4> QED BY <4>3
      <3>2. FlattenSeq(ss) = flatten[Len(ss)]
        BY <2>2 DEF FlattenSeq
      <3> HIDE DEF flatten
      <3> DEFINE T == {m \in Nat : m + 1 <= Len(ss) => flatten[m + 1] = f[m + 1]}
      <3>3. 0 \in T
        <4>1. 1 \in 1 .. Len(ss)
          BY <1>1, <2>2
        <4>2. f[1] = <<>> \o ss[1] /\ ss[1] \in Seq(S) /\ flatten[1] = ss[1]
          <5>1. 1 - 1 = 0
            OBVIOUS
          <5>2. f[1] = f[1 - 1] \o ss[1]
            BY <1>3, <4>1
          <5>3. flatten[1] = ss[1]
            BY <3>1, <4>1
          <5> QED BY <1>1, <1>3, <4>1, <5>1, <5>2, <5>3
        <4>3. <<>> \o ss[1] = ss[1]
          BY <4>2, ConcatEmptySeq
        <4> QED BY <4>2, <4>3
      <3>4. ASSUME NEW m \in Nat, m \in T PROVE m + 1 \in T
        <4> SUFFICES ASSUME m + 1 + 1 <= Len(ss)
                     PROVE  flatten[m + 1 + 1] = f[m + 1 + 1]
          OBVIOUS
        <4>1. /\ m + 1 + 1 \in 1 .. Len(ss) /\ m + 1 + 1 # 1
              /\ (m + 1 + 1) - 1 = m + 1 /\ flatten[m + 1] = f[m + 1]
          BY <1>1, <3>4
        <4>2. f[m + 1 + 1] = f[m + 1] \o ss[m + 1 + 1]
          BY <1>3, <4>1
        <4>3. flatten[m + 1 + 1] = flatten[m + 1] \o ss[m + 1 + 1]
          BY <3>1, <4>1
        <4> QED BY <4>1, <4>2, <4>3
      <3>5. \A m \in Nat : m \in T
        <4> HIDE DEF T
        <4> QED BY <3>3, <3>4, NatInd
      <3>6. Len(ss) - 1 \in Nat /\ (Len(ss) - 1) + 1 = Len(ss)
        BY <1>1, <2>2
      <3>7. flatten[(Len(ss) - 1) + 1] = f[(Len(ss) - 1) + 1]
        <4>1. Len(ss) - 1 \in T /\ (Len(ss) - 1) + 1 <= Len(ss)
          <5> HIDE DEF T
          <5> QED BY <1>1, <3>5, <3>6
        <4> QED BY <4>1
      <3> QED BY <3>2, <3>6, <3>7
    <2> QED BY <2>1, <2>2
  <1> QED BY <1>2, <1>3

(* Another buffer is put behind.                                            *)
LEMMA FlattenAppend ==
    ASSUME NEW S, NEW ss \in Seq(Seq(S)), NEW s \in Seq(S)
    PROVE  /\ FlattenSeq(ss) \in Seq(S) /\ FlattenSeq(<<>>) = <<>>
           /\ FlattenSeq(Append(ss, s)) = FlattenSeq(ss) \o s
  <1> DEFINE n == Len(ss)
             u == Append(ss, s)
  <1>1. /\ n \in Nat /\ u \in Seq(Seq(S)) /\ Len(u) = n + 1 /\ u[n + 1] = s
        /\ \A k \in 1 .. n : u[k] = ss[k]
    BY AppendProperties, LenProperties
  <1>2. PICK g \in [0 .. n + 1 -> Seq(S)] :
            /\ g[0] = <<>> /\ \A k \in 1 .. n + 1 : g[k] = g[k - 1] \o u[k]
            /\ FlattenSeq(u) = g[n + 1]
    <2> HIDE DEF u, n
    <2>1. PICK g \in [0 .. Len(u) -> Seq(S)] :
              g[0] = <<>> /\ \A k \in 1 .. Len(u) : g[k] = g[k - 1] \o u[k]
      BY <1>1, FlattenIs
    <2>2. FlattenSeq(u) = g[Len(u)]
      BY <1>1, <2>1, FlattenIs
    <2> QED BY <1>1, <2>1, <2>2
  <1> DEFINE h == [k \in 0 .. n |-> g[k]]
  <1>3. /\ h \in [0 .. n -> Seq(S)] /\ h[0] = <<>>
        /\ \A k \in 1 .. n : h[k] = h[k - 1] \o ss[k]
    <2>1. h \in [0 .. n -> Seq(S)] /\ h[0] = <<>>
      <3> HIDE DEF u, n
      <3> QED BY <1>1, <1>2
    <2>2. ASSUME NEW k \in 1 .. n PROVE h[k] = h[k - 1] \o ss[k]
      <3>1. /\ k \in 1 .. n + 1 /\ k \in 0 .. n /\ k - 1 \in 0 .. n
            /\ u[k] = ss[k]
        BY <1>1
      <3>2. h[k] = g[k] /\ h[k - 1] = g[k - 1]
        BY <3>1
      <3> HIDE DEF u, n, h
      <3> QED BY <1>2, <3>1, <3>2
    <2> QED BY <2>1, <2>2
  <1>4. FlattenSeq(ss) = h[n]
    <2> HIDE DEF h
    <2> QED BY <1>3, FlattenIs
  <1>5. h[n] \in Seq(S) /\ g[n + 1] = h[n] \o s
    <2>1. n \in 0 .. n /\ n + 1 \in 1 .. n + 1 /\ (n + 1) - 1 = n
      BY <1>1
    <2> HIDE DEF u, n
    <2>2. h[n] = g[n] /\ h[n] \in Seq(S)
      BY <1>3, <2>1
    <2>3. g[n + 1] = g[(n + 1) - 1] \o u[n + 1]
      BY <1>2, <2>1
    <2> QED BY <1>1, <2>1, <2>2, <2>3
  <1>6. FlattenSeq(<<>>) = <<>>
    BY DEF FlattenSeq
  <1> QED BY <1>2, <1>4, <1>5, <1>6

(* Buffers behind buffers.                                                  *)
LEMMA FlattenConcat ==
    ASSUME NEW S, NEW ss \in Seq(Seq(S)), NEW tt \in Seq(Seq(S))
    PROVE  FlattenSeq(ss \o tt) = FlattenSeq(ss) \o FlattenSeq(tt)
  <1> DEFINE n == Len(tt)
             Upto(m) == SubSeq(tt, 1, m)
             T == {m \in Nat : m <= n =>
                      FlattenSeq(ss \o Upto(m)) = FlattenSeq(ss) \o FlattenSeq(Upto(m))}
  <1>1. n \in Nat /\ \A k \in 1 .. n : tt[k] \in Seq(S)
    BY LenProperties, ElementOfSeq
  <1>2. \A m \in Nat : m <= n => Upto(m) \in Seq(Seq(S))
    <2> TAKE m \in Nat
    <2> HAVE m <= n
    <2>1. \A k \in 1 .. m : tt[k] \in Seq(S)
      BY <1>1
    <2> QED BY <2>1, SubSeqProperties
  <1>3. FlattenSeq(ss) \in Seq(S)
    <2>1. <<>> \in Seq(S)
      BY EmptySeq
    <2> QED BY <2>1, FlattenAppend
  <1>4. 0 \in T
    <2>1. Upto(0) = <<>>
      BY SubSeqEmpty
    <2>2. ss \o <<>> = ss /\ FlattenSeq(ss) \o <<>> = FlattenSeq(ss)
      BY <1>3, ConcatEmptySeq
    <2>3. FlattenSeq(<<>>) = <<>>
      BY DEF FlattenSeq
    <2> QED BY <2>1, <2>2, <2>3
  <1>5. ASSUME NEW m \in Nat, m \in T PROVE m + 1 \in T
    <2> SUFFICES ASSUME m + 1 <= n
                 PROVE  FlattenSeq(ss \o Upto(m + 1))
                           = FlattenSeq(ss) \o FlattenSeq(Upto(m + 1))
      OBVIOUS
    <2> DEFINE x == Upto(m)
               e == tt[m + 1]
    <2>1. x \in Seq(Seq(S)) /\ e \in Seq(S)
      BY <1>1, <1>2
    <2>7. FlattenSeq(ss \o x) = FlattenSeq(ss) \o FlattenSeq(x)
      BY <1>1, <1>5
    <2>2. Upto(m + 1) = Append(x, e)
      <3>1. 1 \in 1 .. Len(tt) /\ m + 1 \in 1 .. Len(tt) /\ (m + 1) - 1 = m
        BY <1>1
      <3>2. SubSeq(tt, 1, m + 1) = SubSeq(tt, 1, m) \o <<tt[m + 1]>>
        BY <3>1, SubSeqRecursiveSecond
      <3> HIDE DEF x, e
      <3> QED BY <2>1, <3>2, AppendIsConcat DEF x, e
    <2> HIDE DEF x, e
    <2>3. ss \o Append(x, e) = Append(ss \o x, e) /\ ss \o x \in Seq(Seq(S))
      <3>1. ss \o x \in Seq(Seq(S)) /\ <<e>> \in Seq(Seq(S))
        BY <2>1, ConcatProperties
      <3>2. Append(ss \o x, e) = (ss \o x) \o <<e>> /\ Append(x, e) = x \o <<e>>
        BY <2>1, <3>1, AppendIsConcat
      <3>3. (ss \o x) \o <<e>> = ss \o (x \o <<e>>)
        <4> DEFINE B == Seq(S)
                   y == <<e>>
        <4>1. ss \in Seq(B) /\ x \in Seq(B) /\ y \in Seq(B)
          BY <2>1, <3>1
        <4>2. (ss \o x) \o y = ss \o (x \o y)
          <5> HIDE DEF B, y
          <5> QED BY ONLY <4>1, ConcatAssociative
        <4> QED BY <4>2
      <3> QED BY <3>1, <3>2, <3>3
    <2>4. FlattenSeq(Append(ss \o x, e)) = FlattenSeq(ss \o x) \o e
      BY <2>1, <2>3, FlattenAppend
    <2>5. FlattenSeq(x) \in Seq(S)
      BY <2>1, FlattenAppend
    <2>8. FlattenSeq(Append(x, e)) = FlattenSeq(x) \o e
      BY <2>1, FlattenAppend
    <2>6. (FlattenSeq(ss) \o FlattenSeq(x)) \o e = FlattenSeq(ss) \o (FlattenSeq(x) \o e)
      <3>1. FlattenSeq(ss) \in Seq(S) /\ FlattenSeq(x) \in Seq(S) /\ e \in Seq(S)
        BY <1>3, <2>1, <2>5
      <3> QED BY ONLY <3>1, ConcatAssociative
    <2> QED BY <2>2, <2>3, <2>4, <2>6, <2>7, <2>8
  <1>6. n \in T
    <2> HIDE DEF T
    <2> QED BY <1>1, <1>4, <1>5, NatInd
  <1>7. Upto(n) = tt
    <2>1. SubSeq(tt, 1, Len(tt)) = tt
      BY SubSeqFull
    <2> QED BY <2>1
  <1> HIDE DEF Upto
  <1> QED BY <1>1, <1>6, <1>7
(* Lines come in the order they were appended in, with notes between.       *)
Ordered(h) ==
    \A j, k \in DOMAIN h : j < k /\ Note \notin {h[j], h[k]} => h[j] < h[k]

(* A later line is put behind.                                              *)
LEMMA OrderedAppend ==
    ASSUME NEW h \in Seq(Nat), NEW k \in Nat, Ordered(h),
           \A x \in Range(h) : x < k
    PROVE  /\ Ordered(Append(h, k))
           /\ Range(Append(h, k)) = Range(h) \cup {k}
  <1> DEFINE u == Append(h, k)
             n == Len(h)
  <1>1. /\ n \in Nat /\ DOMAIN h = 1 .. n /\ DOMAIN u = 1 .. n + 1
        /\ u[n + 1] = k /\ \A j \in 1 .. n : u[j] = h[j]
    BY AppendProperties, LenProperties
  <1>2. \A j \in 1 .. n : h[j] \in Nat /\ h[j] < k
    BY <1>1, ElementOfSeq DEF Range
  <1> HIDE DEF u, n
  <1>3. Ordered(u)
    <2> SUFFICES ASSUME NEW j \in 1 .. n + 1, NEW m \in 1 .. n + 1, j < m,
                        Note \notin {u[j], u[m]}
                 PROVE  u[j] < u[m]
      BY <1>1 DEF Ordered
    <2>1. j \in 1 .. n
      BY <1>1
    <2>2. CASE m = n + 1
      BY <1>1, <1>2, <2>1, <2>2
    <2>3. CASE m # n + 1
      <3>1. m \in 1 .. n
        BY <1>1, <2>3
      <3> QED BY <1>1, <2>1, <3>1 DEF Ordered
    <2> QED BY <2>2, <2>3
  <1>4. Range(u) = Range(h) \cup {k}
    <2>1. ASSUME NEW j \in 1 .. n + 1 PROVE u[j] \in Range(h) \cup {k}
      <3>1. CASE j = n + 1
        BY <1>1, <3>1
      <3>2. CASE j # n + 1
        <4>1. j \in 1 .. n
          BY <1>1, <3>2
        <4> QED BY <1>1, <4>1 DEF Range
      <3> QED BY <3>1, <3>2
    <2>2. ASSUME NEW j \in 1 .. n PROVE h[j] \in Range(u)
      <3>1. j \in 1 .. n + 1
        BY <1>1
      <3> QED BY <1>1, <3>1 DEF Range
    <2>3. k \in Range(u)
      <3>1. n + 1 \in 1 .. n + 1
        BY <1>1
      <3> QED BY <1>1, <3>1 DEF Range
    <2> QED BY <1>1, <2>1, <2>2, <2>3 DEF Range
  <1> QED BY <1>3, <1>4 DEF u

(* What is cut off behind, for a note in front, is just that.               *)
LEMMA CutOff ==
    ASSUME NEW c \in Seq(Nat), NEW x \in Seq(Nat \ {0}), NEW y \in Seq(Nat \ {0}),
           Ordered(c \o (x \o y))
    PROVE  /\ Ordered(Append(c, Note) \o x)
           /\ Range(Append(c, Note) \o x) \ {Note}
                 = (Range(c \o (x \o y)) \ {Note}) \ Range(y)
           /\ Range(y) \subseteq Range(c \o (x \o y)) \ {Note}
  <1> DEFINE h == c \o (x \o y)
             g == Append(c, Note) \o x
             lc == Len(c)
             lx == Len(x)
             ly == Len(y)
  <1>1. /\ lc \in Nat /\ lx \in Nat /\ ly \in Nat
        /\ \A j \in 1 .. lc : c[j] \in Nat
        /\ \A j \in 1 .. lx : x[j] \in Nat \ {0}
        /\ \A j \in 1 .. ly : y[j] \in Nat \ {0}
        /\ DOMAIN y = 1 .. ly
    BY LenProperties, ElementOfSeq
  <1>2. /\ x \o y \in Seq(Nat) /\ x \in Seq(Nat) /\ y \in Seq(Nat)
        /\ Append(c, Note) \in Seq(Nat)
    <2>1. x \in Seq(Nat) /\ y \in Seq(Nat) /\ Note \in Nat
      BY SeqMonotonic DEF Note
    <2> QED BY <2>1, ConcatProperties, AppendProperties
  <1>3. /\ DOMAIN h = 1 .. lc + lx + ly
        /\ \A j \in 1 .. lc : h[j] = c[j]
        /\ \A j \in 1 .. lx : h[lc + j] = x[j]
        /\ \A j \in 1 .. ly : h[lc + lx + j] = y[j]
    <2>1. /\ Len(x \o y) = lx + ly
          /\ \A j \in 1 .. lx + ly : (x \o y)[j] = IF j <= lx THEN x[j] ELSE y[j - lx]
      BY <1>2, ConcatProperties
    <2>2. /\ h \in Seq(Nat) /\ Len(h) = lc + (lx + ly)
          /\ \A j \in 1 .. lc + (lx + ly) :
                 h[j] = IF j <= lc THEN c[j] ELSE (x \o y)[j - lc]
      BY <1>2, <2>1, ConcatProperties
    <2>3. DOMAIN h = 1 .. lc + lx + ly
      <3> HIDE DEF h
      <3> QED BY <1>1, <2>2, LenProperties
    <2> DEFINE xy == x \o y
    <2> HIDE DEF h, lc, lx, ly, xy
    <2>4. \A j \in 1 .. lc : h[j] = c[j]
      BY <1>1, <2>2
    <2>5. ASSUME NEW j \in 1 .. lx PROVE h[lc + j] = x[j]
      <3>1. /\ lc + j \in 1 .. lc + (lx + ly) /\ ~ (lc + j <= lc) /\ (lc + j) - lc = j
            /\ j \in 1 .. lx + ly /\ j <= lx
        BY <1>1
      <3> QED BY <2>1, <2>2, <3>1 DEF xy
    <2>6. ASSUME NEW j \in 1 .. ly PROVE h[lc + lx + j] = y[j]
      <3>1. /\ lc + lx + j \in 1 .. lc + (lx + ly) /\ ~ (lc + lx + j <= lc)
            /\ (lc + lx + j) - lc = lx + j /\ lx + j \in 1 .. lx + ly /\ ~ (lx + j <= lx)
            /\ (lx + j) - lx = j
        BY <1>1
      <3> QED BY <2>1, <2>2, <3>1 DEF xy
    <2> QED BY <2>3, <2>4, <2>5, <2>6
  <1>4. /\ DOMAIN g = 1 .. lc + 1 + lx
        /\ \A j \in 1 .. lc : g[j] = c[j]
        /\ g[lc + 1] = Note
        /\ \A j \in 1 .. lx : g[lc + 1 + j] = x[j]
    <2> DEFINE cn == Append(c, Note)
    <2>1. /\ cn \in Seq(Nat) /\ Len(cn) = lc + 1 /\ cn[lc + 1] = Note
          /\ \A j \in 1 .. lc : cn[j] = c[j]
      <3>1. Note \in Nat
        BY DEF Note
      <3> QED BY <3>1, AppendProperties
    <2> HIDE DEF cn
    <2>2. /\ cn \o x \in Seq(Nat) /\ Len(cn \o x) = (lc + 1) + lx
          /\ \A j \in 1 .. (lc + 1) + lx :
                (cn \o x)[j] = IF j <= lc + 1 THEN cn[j] ELSE x[j - (lc + 1)]
      <3>1. /\ cn \o x \in Seq(Nat) /\ Len(cn \o x) = Len(cn) + Len(x)
            /\ \A j \in 1 .. Len(cn) + Len(x) :
                  (cn \o x)[j] = IF j <= Len(cn) THEN cn[j] ELSE x[j - Len(cn)]
        <4>1. cn \in Seq(Nat) /\ x \in Seq(Nat)
          BY <1>2, <2>1
        <4> QED BY ONLY <4>1, ConcatProperties
      <3>2. Len(cn) = lc + 1 /\ Len(x) = lx
        BY <2>1
      <3> HIDE DEF lc, lx
      <3> QED BY <3>1, <3>2
    <2>3. g = cn \o x
      BY DEF cn
    <2> HIDE DEF g, lc, lx, ly
    <2>4. DOMAIN g = 1 .. lc + 1 + lx
      BY <1>1, <2>2, <2>3, LenProperties
    <2>5. ASSUME NEW j \in 1 .. lc PROVE g[j] = c[j]
      <3>1. j \in 1 .. (lc + 1) + lx /\ j <= lc + 1
        BY <1>1
      <3> QED BY <2>1, <2>2, <2>3, <3>1
    <2>6. g[lc + 1] = Note
      <3>1. lc + 1 \in 1 .. (lc + 1) + lx /\ lc + 1 <= lc + 1
        BY <1>1
      <3> QED BY <2>1, <2>2, <2>3, <3>1
    <2>7. ASSUME NEW j \in 1 .. lx PROVE g[lc + 1 + j] = x[j]
      <3>1. /\ lc + 1 + j \in 1 .. (lc + 1) + lx /\ ~ (lc + 1 + j <= lc + 1)
            /\ (lc + 1 + j) - (lc + 1) = j
        BY <1>1
      <3> QED BY <2>2, <2>3, <3>1
    <2> QED BY <2>4, <2>5, <2>6, <2>7
  <1> DEFINE at(j) == IF j <= lc THEN j ELSE j - 1
  <1> HIDE DEF h, g, lc, lx, ly
  <1>5. ASSUME NEW j \in DOMAIN g, g[j] # Note
        PROVE  /\ at(j) \in 1 .. lc + lx /\ at(j) \in DOMAIN h /\ g[j] = h[at(j)]
               /\ g[j] \in Nat /\ j # lc + 1 /\ j \in Nat
    <2>1. j \in 1 .. lc + 1 + lx /\ j # lc + 1
      BY <1>4, <1>5
    <2>2. CASE j <= lc
      <3>1. j \in 1 .. lc /\ j \in 1 .. lc + lx + ly /\ j \in 1 .. lc + lx
        BY <1>1, <2>1, <2>2
      <3> QED BY <1>1, <1>3, <1>4, <2>1, <2>2, <3>1
    <2>3. CASE ~ (j <= lc)
      <3> DEFINE m == j - (lc + 1)
      <3>1. /\ m \in 1 .. lx /\ j = lc + 1 + m /\ j - 1 = lc + m
            /\ lc + m \in 1 .. lc + lx /\ lc + m \in 1 .. lc + lx + ly
        <4>1. /\ lc \in Nat /\ lx \in Nat /\ ly \in Nat /\ j \in Int
              /\ lc + 1 <= j /\ j <= lc + 1 + lx /\ j # lc + 1
          BY <1>1, <2>1, <2>3
        <4>2. m \in Int /\ 1 <= m /\ m <= lx
          BY ONLY <4>1 DEF m
        <4>3. lc + 1 + m = j
          BY ONLY <4>1 DEF m
        <4>4. lc + m = j - 1
          BY ONLY <4>1 DEF m
        <4> HIDE DEF m
        <4> QED BY <4>1, <4>2, <4>3, <4>4
      <3> HIDE DEF m
      <3>2. g[j] = x[m] /\ h[j - 1] = x[m] /\ x[m] \in Nat
        BY <1>1, <1>3, <1>4, <3>1
      <3> QED BY <1>3, <2>1, <2>3, <3>1, <3>2
    <2> QED BY <2>2, <2>3
  <1>6. Ordered(g)
    <2> SUFFICES ASSUME NEW j \in DOMAIN g, NEW k \in DOMAIN g, j < k,
                        g[j] # Note, g[k] # Note
                 PROVE  g[j] < g[k]
      BY DEF Ordered
    <2>1. /\ at(j) \in DOMAIN h /\ at(k) \in DOMAIN h
          /\ g[j] = h[at(j)] /\ g[k] = h[at(k)]
      BY <1>5
    <2>2. at(j) < at(k)
      <3>1. j \in Nat /\ k \in Nat /\ j # lc + 1 /\ k # lc + 1
        BY <1>5
      <3> QED BY <1>1, <3>1
    <2> HIDE DEF at
    <2>3. Ordered(h)
      BY DEF h
    <2> QED BY <2>1, <2>2, <2>3 DEF Ordered
  <1>7. ASSUME NEW m \in 1 .. ly
        PROVE  lc + lx + m \in DOMAIN h /\ h[lc + lx + m] = y[m] /\ y[m] \in Nat \ {0}
    <2>1. lc + lx + m \in 1 .. lc + lx + ly
      BY <1>1
    <2> QED BY <1>1, <1>3, <2>1
  <1>8. ASSUME NEW j \in DOMAIN g, g[j] # Note
        PROVE  g[j] \in Range(h) /\ g[j] \notin Range(y)
    <2>1. g[j] \in Range(h)
      <3> HIDE DEF at
      <3> QED BY <1>5, <1>8 DEF Range
    <2>2. ASSUME NEW m \in 1 .. ly PROVE g[j] # y[m]
      <3>1. /\ at(j) \in 1 .. lc + lx /\ at(j) \in DOMAIN h /\ g[j] = h[at(j)]
            /\ g[j] \in Nat
        BY <1>5, <1>8
      <3> HIDE DEF at
      <3>2. at(j) < lc + lx + m
        BY <1>1, <3>1
      <3>3. Ordered(h)
        BY DEF h
      <3>4. Note \notin {h[at(j)], h[lc + lx + m]}
        BY <1>7, <1>8, <3>1 DEF Note
      <3>5. h[at(j)] < h[lc + lx + m]
        BY <1>7, <3>1, <3>2, <3>3, <3>4 DEF Ordered
      <3> QED BY <1>7, <3>1, <3>5
    <2>3. g[j] \notin Range(y)
      BY <1>1, <2>2 DEF Range
    <2> QED BY <2>1, <2>3
  <1>9. ASSUME NEW j \in DOMAIN h, h[j] \notin Range(y)
        PROVE  h[j] \in Range(g)
    <2>1. j \in 1 .. lc + lx + ly
      BY <1>3
    <2>2. CASE j \in 1 .. lc
      <3>1. j \in DOMAIN g /\ g[j] = h[j]
        BY <1>1, <1>3, <1>4, <2>2
      <3> QED BY <3>1 DEF Range
    <2>3. CASE j \in lc + 1 .. lc + lx
      <3> DEFINE m == j - lc
      <3>1. m \in 1 .. lx /\ j = lc + m /\ lc + 1 + m \in 1 .. lc + 1 + lx
        BY <1>1, <2>1, <2>3
      <3> HIDE DEF m
      <3>2. lc + 1 + m \in DOMAIN g /\ g[lc + 1 + m] = h[j]
        BY <1>3, <1>4, <3>1
      <3> QED BY <3>2 DEF Range
    <2>4. CASE j \in lc + lx + 1 .. lc + lx + ly
      <3> DEFINE m == j - (lc + lx)
      <3>1. m \in 1 .. ly /\ j = lc + lx + m
        BY <1>1, <2>1, <2>4
      <3> HIDE DEF m
      <3>2. h[j] = y[m] /\ m \in DOMAIN y
        BY <1>1, <1>7, <3>1
      <3> QED BY <3>2, <1>9 DEF Range
    <2>5. j \in 1 .. lc \/ j \in lc + 1 .. lc + lx \/ j \in lc + lx + 1 .. lc + lx + ly
      BY <1>1, <2>1
    <2> QED BY <2>2, <2>3, <2>4, <2>5
  <1>10. Range(g) \ {Note} = (Range(h) \ {Note}) \ Range(y)
    <2> HIDE DEF at
    <2> QED BY <1>8, <1>9 DEF Range
  <1>11. Range(y) \subseteq Range(h) \ {Note}
    BY <1>1, <1>7 DEF Range, Note
  <1> QED BY <1>6, <1>10, <1>11 DEF g, h
-----------------------------------------------------------------------------
(* The file.                                                                *)
(* What the clock shows is a time.                                          *)
LEMMA NowIs ==
    ASSUME tick \in DOMAIN Clock
    PROVE  now \in Nat /\ now \in Range(Clock)
  <1>1. Clock \in Seq(Nat \ {0})
    BY LogFileAssumption
  <1>2. now \in Nat \ {0}
    BY <1>1, ElementOfSeq, LenProperties DEF now
  <1> QED BY <1>2 DEF now, Range

(* The file stays well typed, and what is in it stays in it.                *)
LEMMA RollFileTyped ==
    ASSUME NEW E, LFTypeOK(E), content' \in Seq(E), Len(content) <= Len(content'),
           NEW bytes \in Nat, rollFile(bytes)
    PROVE  /\ saved' \in 0 .. Len(content') /\ written' \in Nat
           /\ {lastRoll_', lastFlush_'} \subseteq Range(Clock) \cup {0}
  <1>1. Len(content') \in Nat /\ Len(content) \in Nat /\ saved \in 0 .. Len(content)
    BY LenProperties DEF LFTypeOK
  <1>2. now \in Range(Clock) /\ {lastRoll_, lastFlush_} \subseteq Range(Clock) \cup {0}
    BY NowIs DEF LFTypeOK
  <1>3. CASE now > lastRoll_
    BY <1>1, <1>2, <1>3 DEF rollFile, WriteOut, AppendFileOpens
  <1>4. CASE ~ (now > lastRoll_)
    BY <1>1, <1>2, <1>4 DEF rollFile
  <1> QED BY <1>3, <1>4

(* An append puts its entries behind.                                       *)
LEMMA AppendFileTyped ==
    ASSUME NEW E, LFTypeOK(E), NEW entries \in Seq(E), NEW bytes \in Nat,
           appendFile(entries, bytes), UNCHANGED system
    PROVE  content' = content \o entries /\ LFTypeOK(E)'
  <1> DEFINE total == written + bytes
  <1>1. content' = content \o entries
    BY DEF appendFile, AppendFile
  <1>2. /\ content' \in Seq(E) /\ Len(content) <= Len(content')
        /\ Len(content) \in Nat /\ Len(content') \in Nat
    <2>1. /\ content \o entries \in Seq(E)
          /\ Len(content \o entries) = Len(content) + Len(entries)
      BY ConcatProperties DEF LFTypeOK
    <2>2. Len(content) \in Nat /\ Len(entries) \in Nat
      BY LenProperties DEF LFTypeOK
    <2> QED BY <1>1, <2>1, <2>2
  <1>3. total \in Nat /\ now \in Range(Clock)
    BY NowIs DEF LFTypeOK
  <1>4. tick' \in DOMAIN Clock /\ diskFull' \in BOOLEAN
    BY DEF LFTypeOK, system
  <1>5. count_' \in 0 .. checkEveryN_ - 1
    <2>1. (count_ + 1) % checkEveryN_ \in 0 .. checkEveryN_ - 1
      BY LogFileAssumption DEF LFTypeOK
    <2>2. count_' = count_ \/ count_' = (count_ + 1) % checkEveryN_
      BY DEF appendFile
    <2> QED BY <2>1, <2>2 DEF LFTypeOK
  <1>6. /\ saved' \in 0 .. Len(content') /\ written' \in Nat
        /\ {lastRoll_', lastFlush_'} \subseteq Range(Clock) \cup {0}
    <2>1. CASE rollFile(total)
      <3> HIDE DEF total
      <3> QED BY <1>2, <1>3, <2>1, RollFileTyped
    <2>2. CASE /\ written' = total /\ UNCHANGED lastRoll_
               /\ \/ WriteOut /\ lastFlush_' = now
                  \/ UNCHANGED <<saved, lastFlush_>>
      <3> HIDE DEF total
      <3> QED BY <1>2, <1>3, <2>2 DEF LFTypeOK, WriteOut
    <2> QED BY <2>1, <2>2 DEF appendFile
  <1> QED BY <1>1, <1>2, <1>4, <1>5, <1>6 DEF LFTypeOK

(* A flush puts nothing.                                                    *)
LEMMA FlushTyped ==
    ASSUME NEW E, LFTypeOK(E), flush, UNCHANGED system
    PROVE  content' = content /\ LFTypeOK(E)'
  <1>1. Len(content) \in Nat /\ content' = content
    BY LenProperties DEF LFTypeOK, flush
  <1> QED BY <1>1 DEF LFTypeOK, flush, WriteOut, system

(* The first file is opened.                                                *)
LEMMA LogFileOpensTyped ==
    ASSUME NEW E, LFTypeOK(E), LogFileOpens, UNCHANGED system
    PROVE  content' = content /\ LFTypeOK(E)'
  <1>1. content' = content /\ count_' = count_ /\ rollFile(0) /\ 0 \in Nat
    BY DEF LogFileOpens
  <1>2. content' \in Seq(E) /\ Len(content) <= Len(content')
    BY <1>1, LenProperties DEF LFTypeOK
  <1>3. /\ saved' \in 0 .. Len(content') /\ written' \in Nat
        /\ {lastRoll_', lastFlush_'} \subseteq Range(Clock) \cup {0}
    BY <1>1, <1>2, RollFileTyped
  <1> QED BY <1>1, <1>2, <1>3 DEF LFTypeOK, system
-----------------------------------------------------------------------------
(* What is in a buffer, in bytes.                                           *)
SizeOf(buffer, lengths) == Total([j \in DOMAIN buffer |-> lengths[buffer[j]]])

(* Lines appended to other buffers leave a buffer what it was; one appended *)
(* to it makes it longer by its length.                                     *)
LEMMA SizeAppend ==
    ASSUME NEW acc \in Seq(Nat), NEW b \in Seq(1 .. Len(acc)), NEW n \in Nat
    PROVE  LET k == Len(acc) + 1
               later == Append(acc, n)
           IN  /\ SizeOf(b, acc) \in Nat /\ SizeOf(<<>>, acc) = 0
               /\ b \in Seq(1 .. k) /\ SizeOf(b, later) = SizeOf(b, acc)
               /\ Append(b, k) \in Seq(1 .. k)
               /\ SizeOf(Append(b, k), later) = SizeOf(b, acc) + n
  <1> DEFINE k == Len(acc) + 1
             later == Append(acc, n)
             u == Append(b, k)
             w == [j \in DOMAIN b |-> acc[b[j]]]
             v == [j \in DOMAIN b |-> later[b[j]]]
             z == [j \in DOMAIN u |-> later[u[j]]]
             m == Len(b)
  <1>1. /\ Len(acc) \in Nat /\ k \in Nat /\ m \in Nat /\ DOMAIN b = 1 .. m
        /\ later[k] = n /\ \A x \in 1 .. Len(acc) : later[x] = acc[x] /\ acc[x] \in Nat
        /\ \A j \in 1 .. m : b[j] \in 1 .. Len(acc)
    BY AppendProperties, LenProperties, ElementOfSeq
  <1>2. b \in Seq(1 .. k) /\ u \in Seq(1 .. k)
    <2>1. 1 .. Len(acc) \subseteq 1 .. k /\ k \in 1 .. k
      BY <1>1
    <2> HIDE DEF k
    <2>2. b \in Seq(1 .. k)
      BY <2>1, SeqMonotonic
    <2> QED BY <2>1, <2>2, AppendProperties
  <1>3. /\ Len(u) = m + 1 /\ DOMAIN u = 1 .. m + 1 /\ u[m + 1] = k
        /\ \A j \in 1 .. m : u[j] = b[j]
    <2>1. k \in 1 .. k
      BY <1>1
    <2> HIDE DEF k
    <2> QED BY <1>2, <2>1, AppendProperties, LenProperties
  <1> HIDE DEF k, later, u, m
  <1>4. w \in Seq(Nat) /\ Len(w) = m /\ \A j \in 1 .. m : w[j] = acc[b[j]]
    <2>1. \A j \in 1 .. m : acc[b[j]] \in Nat
      BY <1>1
    <2> QED BY <1>1, <2>1, IsASeq
  <1>5. v = w
    BY <1>1
  <1>6. z = Append(w, n)
    <2>1. \A j \in 1 .. m + 1 : z[j] = IF j = m + 1 THEN n ELSE w[j]
      <3> TAKE j \in 1 .. m + 1
      <3>1. z[j] = later[u[j]]
        BY <1>3
      <3>2. CASE j = m + 1
        BY <1>1, <1>3, <3>1, <3>2
      <3>3. CASE j # m + 1
        <4>1. j \in 1 .. m
          BY <1>1, <3>3
        <4> HIDE DEF w, z
        <4> QED BY <1>1, <1>3, <1>4, <3>1, <3>3, <4>1
      <3> QED BY <3>2, <3>3
    <2>2. \A j \in 1 .. m + 1 : z[j] \in Nat
      <3> TAKE j \in 1 .. m + 1
      <3>1. j = m + 1 \/ j \in 1 .. m
        BY <1>1
      <3> HIDE DEF w, z
      <3> QED BY <1>4, <2>1, <3>1, ElementOfSeq
    <2>3. z \in Seq(Nat) /\ Len(z) = m + 1
      <3>1. z = [j \in 1 .. m + 1 |-> z[j]]
        BY <1>3
      <3>2. m + 1 \in Nat
        BY <1>1
      <3> HIDE DEF z
      <3> DEFINE r == [j \in 1 .. m + 1 |-> z[j]]
      <3>3. r \in Seq(Nat) /\ Len(r) = m + 1
        BY <2>2, <3>2
      <3>4. z = r
        BY <3>1
      <3> HIDE DEF r
      <3> QED BY <3>3, <3>4
    <2> HIDE DEF w, z
    <2>4. /\ Append(w, n) \in Seq(Nat) /\ Len(Append(w, n)) = m + 1
          /\ Append(w, n)[m + 1] = n /\ \A j \in 1 .. m : Append(w, n)[j] = w[j]
      BY <1>4, AppendProperties
    <2>5. ASSUME NEW j \in 1 .. m + 1 PROVE z[j] = Append(w, n)[j]
      <3>1. CASE j = m + 1
        BY <2>1, <2>4, <3>1
      <3>2. CASE j # m + 1
        <4>1. j \in 1 .. m
          BY <1>1, <3>2
        <4> QED BY <2>1, <2>4, <3>2, <4>1
      <3> QED BY <3>1, <3>2
    <2> QED BY <2>3, <2>4, <2>5, SeqEqual
  <1> HIDE DEF w, z
  <1>7. Total(w) \in Nat /\ Total(z) = Total(w) + n
    <2>1. w \in Seq(Int) /\ n \in Int
      BY <1>4, SeqMonotonic
    <2> QED BY <1>4, <1>6, <2>1, TotalNat, TotalAppend
  <1>8. /\ SizeOf(b, acc) = Total(w) /\ SizeOf(b, later) = Total(w)
        /\ SizeOf(u, later) = Total(z)
    BY <1>5 DEF SizeOf, w, z
  <1>9. SizeOf(<<>>, acc) = 0
    <2>1. [j \in DOMAIN <<>> |-> acc[<<>>[j]]] = <<>>
      OBVIOUS
    <2>2. <<>> \in Seq(Int) /\ 0 \in Int
      BY EmptySeq
    <2>3. Total(<<>>) = 0
      BY <2>2, TotalAppend
    <2> QED BY <2>1, <2>3 DEF SizeOf
  <1> QED BY <1>2, <1>7, <1>8, <1>9 DEF k, later, u

(* What is in a sequence with one more.                                     *)
LEMMA RangeOfAppend ==
    ASSUME NEW S, NEW ss \in Seq(S), NEW b \in S
    PROVE  Range(Append(ss, b)) = Range(ss) \cup {b}
  <1>1. <<b>> \in Seq(S) /\ Append(ss, b) = ss \o <<b>>
    BY AppendIsConcat
  <1>2. Range(<<b>>) = {b}
    BY DEF Range
  <1> DEFINE bs == <<b>>
  <1> HIDE DEF bs
  <1>3. bs \in Seq(S)
    BY <1>1 DEF bs
  <1>4. Range(ss \o bs) = Range(ss) \cup Range(bs)
    BY <1>3, RangeConcatenation
  <1> QED BY <1>1, <1>2, <1>4 DEF bs

(* The buffers there are.                                                   *)
LEMMA AllBuffers ==
    ASSUME NEW S, NEW ss \in Seq(S), NEW tt \in Seq(S), NEW b \in S
    PROVE  Range(Append(ss \o tt, b)) = Range(ss) \cup Range(tt) \cup {b}
  <1>1. Range(ss \o tt) = Range(ss) \cup Range(tt)
    BY RangeConcatenation
  <1> DEFINE u == ss \o tt
  <1>2. u \in Seq(S)
    BY ConcatProperties
  <1> HIDE DEF u
  <1>3. Range(Append(u, b)) = Range(u) \cup {b}
    BY <1>2, RangeOfAppend
  <1> QED BY <1>1, <1>3 DEF u

-----------------------------------------------------------------------------
(* The inductive invariant.                                                 *)

(* Who is where.                                                            *)
Control ==
    /\ running_ \in BOOLEAN /\ aborted \in BOOLEAN
    /\ opc \in {"new", "starting", "started", "joining", "stopped"}
    /\ bpc \in {"none", "starting", "test", "wait", "note", "write", "recycle",
                "final", "gone"}
    /\ opc = "new" <=> bpc = "none"
    /\ opc \in {"started", "joining", "stopped"} => bpc # "starting"
    /\ bpc = "starting" => running_

(* Where the buffers are.  The back end took all when it got mutex_, and    *)
(* more than one if it gave its second spare away.                          *)
Stored ==
    /\ accepted \in Seq(Nat)
    /\ buffers_ \in Seq(Buffer) /\ bufferToWrite \in Seq(Buffer)
    /\ currentBuffer_ \in Buffer /\ nextBuffer_ \in {Null, <<>>}
    /\ firstNewBuffer \in {Null, <<>>} /\ secondNewBuffer \in {Null, <<>>}
    /\ \A b \in Range(buffers_) \cup Range(bufferToWrite) \cup {currentBuffer_} :
          SizeOf(b, accepted) < kLargeBuffer
    /\ nextBuffer_ = Null => buffers_ # <<>>
    /\ bpc \in {"none", "starting"} => bufferToWrite = <<>>
    /\ bpc \in {"test", "wait"} =>
          firstNewBuffer = <<>> /\ secondNewBuffer = <<>> /\ bufferToWrite = <<>>
    /\ Mutex =>
          /\ buffers_ = <<>> /\ currentBuffer_ = <<>> /\ bufferToWrite # <<>>
          /\ firstNewBuffer = Null /\ nextBuffer_ # Null
          /\ secondNewBuffer = Null => Len(bufferToWrite) > 1
    /\ bpc = "note" => i = 1 /\ Len(bufferToWrite) > kMaxBuffers
    /\ bpc = "write" => i \in 1 .. Len(bufferToWrite)

(* What those who log have made.                                            *)
FrontRight ==
    /\ fpc \in [Thread -> {"idle", "append", "abort"}]
    /\ line = [t \in Thread |-> line[t]]
    /\ t_lastSecond \in [Thread -> Nat] /\ t_time = t_lastSecond
    /\ \A t \in Thread : fpc[t] = "append" => line[t].text \in Seq(Piece)
    /\ \A t \in Thread : fpc[t] # "append" => line[t] = Null
    /\ LinesRight

FileRight == LFTypeOK(Line \cup {Note})

IInv ==
    /\ Control /\ Stored /\ FrontRight /\ FileRight
    /\ Complete /\ dropped \subseteq Line

(* What it says of the properties.                                          *)
LEMMA Implied == IInv => TypeOK /\ Complete /\ LinesRight
  <1> SUFFICES ASSUME IInv PROVE TypeOK
    BY DEF IInv, FrontRight
  <1> USE DEF IInv
  <1>1. LFTypeOK(Line \cup {Note}) /\ dropped \subseteq Line
    BY DEF FileRight
  <1>2. \A b \in Range(Append(buffers_ \o bufferToWrite, currentBuffer_)) :
           size(b) < kLargeBuffer
    <2>1. Range(Append(buffers_ \o bufferToWrite, currentBuffer_))
             = Range(buffers_) \cup Range(bufferToWrite) \cup {currentBuffer_}
      BY AllBuffers DEF Stored
    <2> QED BY <2>1 DEF Stored, SizeOf, size
  <1>3. bpc = "write" => i \in DOMAIN bufferToWrite
    BY LenProperties DEF Stored
  <1>4. /\ buffers_ \in Seq(Buffer) /\ bufferToWrite \in Seq(Buffer)
        /\ currentBuffer_ \in Buffer /\ nextBuffer_ \in {Null, <<>>}
        /\ firstNewBuffer \in {Null, <<>>} /\ secondNewBuffer \in {Null, <<>>}
        /\ bpc \in {"test", "wait"} =>
              firstNewBuffer = <<>> /\ secondNewBuffer = <<>> /\ bufferToWrite = <<>>
        /\ bpc = "recycle" =>
              bufferToWrite # <<>> /\ (secondNewBuffer = Null => Len(bufferToWrite) > 1)
    BY DEF Stored, Mutex
  <1> QED BY <1>1, <1>2, <1>3, <1>4 DEF TypeOK, Control, FrontRight

Pos == Nat \ {0}

(* All that is held, in its order.                                          *)
LEMMA HeldIs ==
    ASSUME NEW c \in Seq(Nat), NEW unw \in Seq(Seq(Pos)), NEW bufs \in Seq(Seq(Pos)),
           NEW cur \in Seq(Pos)
    PROVE  /\ FlattenSeq(unw) \in Seq(Pos) /\ FlattenSeq(bufs) \in Seq(Pos)
           /\ FlattenSeq(bufs) \o cur \in Seq(Pos)
           /\ FlattenSeq(unw) \o (FlattenSeq(bufs) \o cur) \in Seq(Pos)
           /\ c \o FlattenSeq(Append(unw \o bufs, cur))
                 = c \o (FlattenSeq(unw) \o (FlattenSeq(bufs) \o cur))
           /\ c \o FlattenSeq(Append(unw \o bufs, cur)) \in Seq(Nat)
  <1>1. FlattenSeq(unw) \in Seq(Pos) /\ FlattenSeq(bufs) \in Seq(Pos)
    BY FlattenAppend
  <1>2. unw \o bufs \in Seq(Seq(Pos))
    BY ONLY unw \in Seq(Seq(Pos)), bufs \in Seq(Seq(Pos)), ConcatProperties
  <1>3. FlattenSeq(Append(unw \o bufs, cur)) = FlattenSeq(unw \o bufs) \o cur
    BY <1>2, FlattenAppend
  <1>4. FlattenSeq(unw \o bufs) = FlattenSeq(unw) \o FlattenSeq(bufs)
    BY FlattenConcat
  <1> DEFINE x == FlattenSeq(unw)
             y == FlattenSeq(bufs)
  <1>5. x \in Seq(Pos) /\ y \in Seq(Pos) /\ cur \in Seq(Pos)
    BY <1>1
  <1>6. y \o cur \in Seq(Pos) /\ x \o (y \o cur) \in Seq(Pos)
        /\ (x \o y) \o cur = x \o (y \o cur)
    <2> HIDE DEF x, y, Pos
    <2>1. y \o cur \in Seq(Pos)
      BY ONLY <1>5, ConcatProperties
    <2>2. x \o (y \o cur) \in Seq(Pos)
      BY ONLY <1>5, <2>1, ConcatProperties
    <2>3. (x \o y) \o cur = x \o (y \o cur)
      BY ONLY <1>5, ConcatAssociative
    <2> QED BY <2>1, <2>2, <2>3
  <1>7. c \o (x \o (y \o cur)) \in Seq(Nat)
    <2>1. x \o (y \o cur) \in Seq(Nat)
      BY <1>6, SeqMonotonic DEF Pos
    <2> QED BY <2>1, ConcatProperties
  <1> HIDE DEF Pos
  <1> QED BY <1>1, <1>3, <1>4, <1>6, <1>7

(* Nothing is held at first.                                                *)
LEMMA InitRight == Init => IInv
  <1> SUFFICES ASSUME Init PROVE IInv
    OBVIOUS
  <1> USE DEF Init
  <1>1. Control
    BY DEF Control
  <1>2. accepted = <<>> /\ Len(accepted) = 0 /\ Line = {}
    BY DEF Line
  <1>3. Stored
    <2>1. /\ <<>> \in Seq(Nat) /\ <<>> \in Seq(Buffer) /\ <<>> \in Buffer
      BY EmptySeq DEF Buffer
    <2>2. Range(buffers_) = {} /\ Range(bufferToWrite) = {}
      BY DEF Range
    <2>3. SizeOf(<<>>, accepted) < kLargeBuffer
      <3>1. <<>> \in Seq(1 .. Len(<<>>)) /\ 0 \in Nat /\ <<>> \in Seq(Nat)
        BY EmptySeq
      <3>2. SizeOf(<<>>, <<>>) = 0
        BY <3>1, SizeAppend
      <3> QED BY <1>2, <3>2, LogStreamAssumption, AsyncLoggingAssumption
    <2> QED BY <1>2, <2>1, <2>2, <2>3, AsyncLoggingAssumption DEF Stored, Mutex
  <1>4. FrontRight
    BY DEF FrontRight, LinesRight
  <1>5. FileRight
    <2>1. tick \in DOMAIN Clock
      <3>1. Len(Clock) \in Nat \ {0} /\ DOMAIN Clock = 1 .. Len(Clock)
        BY LogFileAssumption, EmptySeq, LenProperties
      <3> QED BY <3>1 DEF LFInit
    <2>2. <<>> \in Seq(Line \cup {Note}) /\ Len(<<>>) = 0
      BY EmptySeq
    <2>3. 0 \in 0 .. checkEveryN_ - 1 /\ 0 \in 0 .. 0 /\ 0 \in Nat
      BY LogFileAssumption
    <2> QED BY <2>1, <2>2, <2>3 DEF LFInit, LFTypeOK, FileRight
  <1>6. Complete /\ dropped \subseteq Line
    <2>1. Held = <<>>
      <3>1. Unwritten = <<>> /\ content = <<>>
        BY DEF Unwritten, LFInit
      <3>2. /\ <<>> \in Seq(Seq(Pos)) /\ <<>> \in Seq(Pos) /\ <<>> \in Seq(Nat)
            /\ <<>> \o <<>> = <<>>
        BY EmptySeq
      <3>3. FlattenSeq(Append(<<>> \o <<>>, <<>>)) = FlattenSeq(<<>>) \o <<>>
        BY <3>2, FlattenAppend
      <3>4. FlattenSeq(<<>>) = <<>>
        BY DEF FlattenSeq
      <3> QED BY <3>1, <3>2, <3>3, <3>4 DEF Held
    <2>2. dropped = {}
      OBVIOUS
    <2> QED BY <1>2, <2>1, <2>2 DEF Complete, Range
  <1> QED BY <1>1, <1>3, <1>4, <1>5, <1>6 DEF IInv

(* What most of the steps leave.                                            *)
LEMMA CompleteKept ==
    ASSUME Complete, UNCHANGED <<content, shared, bufferToWrite, i, hist>>,
           bpc' = bpc \/ {bpc, bpc'} \cap {"note", "write"} = {}
    PROVE  Complete'
  <1>1. Unwritten' = Unwritten
    BY DEF Unwritten
  <1>2. Held' = Held
    BY <1>1 DEF Held, shared
  <1>3. Line' = Line /\ dropped' = dropped
    BY DEF Line, hist
  <1> HIDE DEF Held
  <1> QED BY <1>2, <1>3 DEF Complete

(* The threads that log are where they were.                                *)
LEMMA FrontKept ==
    ASSUME FrontRight, UNCHANGED front
    PROVE  FrontRight'
  <1>1. fpc' = fpc /\ line' = line /\ t_lastSecond' = t_lastSecond /\ t_time' = t_time
    BY DEF front
  <1> QED BY <1>1 DEF FrontRight, LinesRight

(* The file is as it was.                                                   *)
LEMMA FileKept ==
    ASSUME FileRight, UNCHANGED <<system, fileVars, accepted>>
    PROVE  FileRight'
  <1>1. LFTypeOK(Line \cup {Note}) /\ Line' = Line
    BY DEF FileRight, Line
  <1>2. LFTypeOK(Line \cup {Note})'
    BY <1>1 DEF LFTypeOK, system, fileVars
  <1> QED BY <1>2 DEF FileRight

(* The buffers are where they were.                                         *)
LEMMA StoredKept ==
    ASSUME Stored, UNCHANGED <<shared, local, accepted>>, bpc' = bpc
    PROVE  Stored'
  <1>1. Buffer' = Buffer /\ Mutex' = Mutex
    BY DEF Buffer, Line, Mutex
  <1>2. /\ buffers_' = buffers_ /\ currentBuffer_' = currentBuffer_
        /\ nextBuffer_' = nextBuffer_ /\ firstNewBuffer' = firstNewBuffer
        /\ secondNewBuffer' = secondNewBuffer /\ bufferToWrite' = bufferToWrite
        /\ i' = i /\ accepted' = accepted
    BY DEF shared, local
  <1> QED BY <1>1, <1>2 DEF Stored

(* A line is made: the second it shows is the present one.                  *)
LEMMA LogRight ==
    ASSUME IInv, NEW t \in Thread, NEW m \in Messages[t], log(t, m)
    PROVE  IInv'
  <1>1. m \in Message
    BY AsyncLoggingAssumption
  <1>2. /\ fpc[t] = "idle" /\ formatTime(t)
        /\ fpc' = [fpc EXCEPT ![t] = "append"]
        /\ line' = [line EXCEPT ![t] =
              [at |-> now, from |-> m,
               text |-> LET head == Logger(t_time'[t], m.level, m.error)
                        IN  finish(Streamed(head, m.items), m.line)]]
        /\ UNCHANGED <<system, fileVars, running_, shared, opc, bpc, local, aborted, hist>>
    BY DEF log
  <1>3. now \in Nat
    BY NowIs DEF IInv, FileRight, LFTypeOK
  <1>4. /\ t_lastSecond' \in [Thread -> Nat] /\ t_time' = t_lastSecond'
        /\ t_time'[t] = now
    <2>1. t_lastSecond \in [Thread -> Nat] /\ t_time = t_lastSecond
      BY DEF IInv, FrontRight
    <2> QED BY <1>2, <1>3, <2>1 DEF formatTime
  <1> DEFINE text == LET head == Logger(t_time'[t], m.level, m.error)
                     IN  finish(Streamed(head, m.items), m.line)
             made == [at |-> now, from |-> m, text |-> text]
  <1>5. Sound(text, Wanted(m), now)
    BY <1>1, <1>3, <1>4, LineMade
  <1> HIDE DEF text
  <1>6. text \in Seq(Piece) /\ LineRight(made)
    BY <1>5 DEF Sound, LineRight
  <1>7. FrontRight'
    <2>1. /\ fpc \in [Thread -> {"idle", "append", "abort"}]
          /\ line = [s \in Thread |-> line[s]]
          /\ \A s \in Thread : fpc[s] = "append" => line[s].text \in Seq(Piece)
          /\ \A s \in Thread : fpc[s] # "append" => line[s] = Null
          /\ \A s \in Thread : fpc[s] = "append" => LineRight(line[s])
      BY DEF IInv, FrontRight, LinesRight
    <2>2. line' = [line EXCEPT ![t] = made]
      BY <1>2 DEF text
    <2> HIDE DEF made
    <2>3. /\ line' = [s \in Thread |-> line'[s]] /\ line'[t] = made
          /\ \A s \in Thread \ {t} : line'[s] = line[s]
      BY <2>1, <2>2
    <2>4. /\ fpc' \in [Thread -> {"idle", "append", "abort"}] /\ fpc'[t] = "append"
          /\ \A s \in Thread \ {t} : fpc'[s] = fpc[s]
      BY <1>2, <2>1
    <2>5. made.text = text
      BY DEF made
    <2>6. \A s \in Thread : fpc'[s] = "append" => LineRight(line'[s])
      BY <1>6, <2>1, <2>3, <2>4
    <2>7. \A s \in Thread : fpc'[s] = "append" => line'[s].text \in Seq(Piece)
      BY <1>6, <2>1, <2>3, <2>4, <2>5
    <2>8. \A s \in Thread : fpc'[s] # "append" => line'[s] = Null
      BY <2>1, <2>3, <2>4
    <2> QED BY <1>4, <2>3, <2>4, <2>6, <2>7, <2>8 DEF FrontRight, LinesRight
  <1>8. Control'
    BY <1>2 DEF IInv, Control
  <1>9. Stored' /\ FileRight' /\ Complete' /\ (dropped \subseteq Line)'
    <2>1. UNCHANGED <<shared, local, accepted>> /\ bpc' = bpc
          /\ UNCHANGED <<content, shared, bufferToWrite, i, hist>>
          /\ UNCHANGED <<system, fileVars, accepted>>
      BY <1>2 DEF hist, local, fileVars
    <2>2. Stored'
      BY <2>1, StoredKept DEF IInv
    <2>3. FileRight'
      BY <2>1, FileKept DEF IInv
    <2>4. Complete'
      BY <2>1, CompleteKept DEF IInv
    <2>5. (dropped \subseteq Line)'
      BY <2>1 DEF IInv, hist, Line
    <2> QED BY <2>2, <2>3, <2>4, <2>5
  <1> QED BY <1>7, <1>8, <1>9 DEF IInv

(* A line is appended, behind all that is held, into a buffer with room.    *)
LEMMA AppendRight ==
    ASSUME IInv, NEW t \in Thread, append_front(t)
    PROVE  IInv'
  <1> DEFINE k == Len(accepted) + 1
             n == length(line[t].text)
  <1>1. /\ fpc[t] = "append" /\ ~Mutex /\ append_line(line[t], k)
        /\ accepted' = Append(accepted, n)
        /\ fpc' = [fpc EXCEPT ![t] = IF line[t].from.level = FATAL THEN "abort" ELSE "idle"]
        /\ line' = [line EXCEPT ![t] = Null]
        /\ UNCHANGED <<system, fileVars, running_, opc, bpc, local, t_lastSecond, t_time,
                       aborted, dropped>>
    BY DEF append_front
  <1>2. n \in Nat /\ n < kLargeBuffer
    <2>1. line[t].text \in Seq(Piece) /\ n < kSmallBuffer
      BY <1>1 DEF IInv, FrontRight, LinesRight, LineRight
    <2>2. n \in Nat
      <3>1. Header(0) \in Piece
        BY DEF Header, Piece, HeaderPiece
      <3> QED BY <2>1, <3>1, LengthAppend
    <2> QED BY <2>1, <2>2, LogStreamAssumption, AsyncLoggingAssumption
  <1> HIDE DEF n
  <1>3. /\ accepted \in Seq(Nat) /\ Len(accepted) \in Nat /\ k \in Nat \ {0}
        /\ accepted' \in Seq(Nat) /\ Len(accepted') = k
        /\ Line = 1 .. Len(accepted) /\ Line' = 1 .. k /\ Line' = Line \cup {k}
        /\ Line \subseteq Line' /\ \A x \in Line : x < k
    <2>1. accepted \in Seq(Nat)
      BY DEF IInv, Stored
    <2>2. Len(accepted) \in Nat /\ accepted' \in Seq(Nat) /\ Len(accepted') = k
      BY <1>1, <1>2, <2>1, AppendProperties, LenProperties
    <2> QED BY <2>1, <2>2 DEF Line
  <1>4. /\ buffers_ \in Seq(Buffer) /\ currentBuffer_ \in Seq(Line)
        /\ bufferToWrite \in Seq(Buffer)
        /\ nextBuffer_ \in {Null, <<>>}
        /\ \A b \in Range(buffers_) \cup Range(bufferToWrite) \cup {currentBuffer_} :
              SizeOf(b, accepted) < kLargeBuffer
        /\ nextBuffer_ = Null => buffers_ # <<>>
    BY DEF IInv, Stored, Buffer
  <1>5. ASSUME NEW b \in Seq(Line)
        PROVE  /\ SizeOf(b, accepted) \in Nat
               /\ b \in Seq(Line') /\ SizeOf(b, accepted') = SizeOf(b, accepted)
               /\ Append(b, k) \in Seq(Line')
               /\ SizeOf(Append(b, k), accepted') = SizeOf(b, accepted) + n
    <2>1. b \in Seq(1 .. Len(accepted))
      BY <1>3
    <2> QED BY <1>1, <1>2, <1>3, <2>1, SizeAppend
  <1>6. <<>> \in Seq(Line) /\ SizeOf(<<>>, accepted) = 0
    <2>1. <<>> \in Seq(Line) /\ <<>> \in Seq(1 .. Len(accepted))
      BY EmptySeq
    <2> QED BY <1>2, <1>3, <2>1, SizeAppend
  <1>7. \/ /\ kLargeBuffer - SizeOf(currentBuffer_, accepted) > n
           /\ currentBuffer_' = Append(currentBuffer_, k)
           /\ buffers_' = buffers_ /\ nextBuffer_' = nextBuffer_
        \/ /\ buffers_' = Append(buffers_, currentBuffer_)
           /\ currentBuffer_' = Append(<<>>, k) /\ nextBuffer_' = Null
    <2>1. size(currentBuffer_) = SizeOf(currentBuffer_, accepted)
      BY DEF size, SizeOf
    <2>2. (IF nextBuffer_ # Null THEN nextBuffer_ ELSE <<>>) = <<>>
      BY <1>4
    <2> QED BY <1>1, <2>1, <2>2 DEF append_line, Room, n
  <1>8. Buffer \subseteq Buffer'
    BY <1>5 DEF Buffer
  <1> HIDE DEF k
  <1>9. /\ buffers_' \in Seq(Buffer') /\ currentBuffer_' \in Buffer'
        /\ \A b \in Range(buffers_') \cup {currentBuffer_'} :
              SizeOf(b, accepted') < kLargeBuffer
        /\ nextBuffer_' \in {Null, <<>>} /\ (nextBuffer_' = Null => buffers_' # <<>>)
    <2>1. buffers_ \in Seq(Buffer') /\ currentBuffer_ \in Buffer'
      BY <1>4, <1>5, <1>8, SeqMonotonic DEF Buffer
    <2>2. \A b \in Range(buffers_) \cup {currentBuffer_} :
             SizeOf(b, accepted') < kLargeBuffer
      <3> TAKE b \in Range(buffers_) \cup {currentBuffer_}
      <3>1. b \in Seq(Line)
        BY <1>4, LenProperties, ElementOfSeq DEF Buffer, Range
      <3> QED BY <1>4, <1>5, <3>1
    <2>3. CASE /\ kLargeBuffer - SizeOf(currentBuffer_, accepted) > n
               /\ currentBuffer_' = Append(currentBuffer_, k)
               /\ buffers_' = buffers_ /\ nextBuffer_' = nextBuffer_
      <3>1. currentBuffer_' \in Buffer' /\ SizeOf(currentBuffer_', accepted') < kLargeBuffer
        BY <1>2, <1>4, <1>5, <2>3, AsyncLoggingAssumption DEF Buffer
      <3> QED BY <1>4, <2>1, <2>2, <2>3, <3>1
    <2>4. CASE /\ buffers_' = Append(buffers_, currentBuffer_)
               /\ currentBuffer_' = Append(<<>>, k) /\ nextBuffer_' = Null
      <3>1. currentBuffer_' \in Buffer' /\ SizeOf(currentBuffer_', accepted') < kLargeBuffer
        <4> DEFINE e == <<>>
        <4>1. e \in Seq(Line) /\ SizeOf(e, accepted) = 0
          BY <1>6
        <4>2. currentBuffer_' = Append(e, k)
          BY <2>4
        <4> HIDE DEF e
        <4>3. currentBuffer_' \in Seq(Line') /\ SizeOf(currentBuffer_', accepted') = 0 + n
          BY <1>5, <4>1, <4>2
        <4> QED BY <1>2, <4>3 DEF Buffer
      <3>2. buffers_' \in Seq(Buffer') /\ buffers_' # <<>>
        BY <2>1, <2>4, AppendProperties
      <3>3. Range(buffers_') = Range(buffers_) \cup {currentBuffer_}
        BY <2>1, <2>4, RangeOfAppend
      <3> QED BY <2>2, <2>4, <3>1, <3>2, <3>3
    <2> QED BY <1>7, <2>3, <2>4
  <1>10. Stored'
    <2>1. /\ bufferToWrite' = bufferToWrite /\ i' = i /\ bpc' = bpc
          /\ firstNewBuffer' = firstNewBuffer /\ secondNewBuffer' = secondNewBuffer
          /\ ~Mutex' /\ bpc \notin {"note", "write"}
      BY <1>1 DEF local, Mutex
    <2>2. bufferToWrite \in Seq(Buffer')
      BY <1>4, <1>8, SeqMonotonic
    <2>3. \A b \in Range(bufferToWrite) : SizeOf(b, accepted') < kLargeBuffer
      <3> TAKE b \in Range(bufferToWrite)
      <3>1. b \in Seq(Line)
        BY <1>4, LenProperties, ElementOfSeq DEF Buffer, Range
      <3> QED BY <1>4, <1>5, <3>1
    <2>4. /\ firstNewBuffer \in {Null, <<>>} /\ secondNewBuffer \in {Null, <<>>}
          /\ bpc \in {"none", "starting"} => bufferToWrite = <<>>
          /\ bpc \in {"test", "wait"} =>
                firstNewBuffer = <<>> /\ secondNewBuffer = <<>> /\ bufferToWrite = <<>>
      BY DEF IInv, Stored
    <2> QED BY <1>3, <1>9, <2>1, <2>2, <2>3, <2>4 DEF Stored
  <1>11. /\ Complete /\ dropped \subseteq Line /\ dropped' = dropped
         /\ content' = content /\ content \in Seq(Nat)
    <2>1. Line \cup {Note} \subseteq Nat
      BY <1>3 DEF Note
    <2> QED BY <1>1, <2>1, SeqMonotonic DEF IInv, FileRight, LFTypeOK, fileVars
  <1>12. Held' = Append(Held, k) /\ Held \in Seq(Nat)
    <2> DEFINE x == FlattenSeq(buffers_)
    <2>1. /\ buffers_ \in Seq(Seq(Pos)) /\ currentBuffer_ \in Seq(Pos) /\ k \in Pos
          /\ <<>> \in Seq(Pos) /\ <<>> \in Seq(Seq(Pos))
      <3>1. Line \subseteq Pos /\ k \in Pos
        BY <1>3 DEF Pos
      <3>2. Buffer \subseteq Seq(Pos) /\ currentBuffer_ \in Seq(Pos)
        BY <1>4, <3>1, SeqMonotonic DEF Buffer
      <3> QED BY <1>4, <3>1, <3>2, SeqMonotonic, EmptySeq
    <2>2. Unwritten = <<>> /\ Unwritten' = <<>>
      BY <1>1 DEF Unwritten, Mutex
    <2>3. /\ x \in Seq(Pos) /\ <<>> \o buffers_ = buffers_ /\ FlattenSeq(<<>>) = <<>>
          /\ x \o currentBuffer_ \in Seq(Pos)
          /\ FlattenSeq(Append(buffers_, currentBuffer_)) = x \o currentBuffer_
      <3> HIDE DEF Pos
      <3>1. <<>> \o buffers_ = buffers_
        BY <2>1, ConcatEmptySeq
      <3> QED BY <2>1, <3>1, FlattenAppend, ConcatProperties
    <2>4. Held = content \o (x \o currentBuffer_) /\ Held \in Seq(Nat)
      <3>1. Held = content \o FlattenSeq(Append(buffers_, currentBuffer_))
        BY <2>2, <2>3 DEF Held
      <3>2. x \o currentBuffer_ \in Seq(Nat)
        BY <2>3, SeqMonotonic DEF Pos
      <3>3. Held = content \o (x \o currentBuffer_)
        BY <2>3, <3>1
      <3> HIDE DEF x
      <3> QED BY <1>11, <3>2, <3>3, ConcatProperties
    <2>5. /\ FlattenSeq(Append(buffers_', currentBuffer_')) = Append(x \o currentBuffer_, k)
          /\ <<>> \o buffers_' = buffers_'
      <3>1. CASE /\ currentBuffer_' = Append(currentBuffer_, k)
                 /\ buffers_' = buffers_
        <4>1. Append(currentBuffer_, k) \in Seq(Pos)
          BY <2>1, AppendProperties
        <4>2. FlattenSeq(Append(buffers_, Append(currentBuffer_, k)))
                 = x \o Append(currentBuffer_, k)
          <5> HIDE DEF Pos
          <5> QED BY <2>1, <4>1, FlattenAppend
        <4>3. x \o Append(currentBuffer_, k) = Append(x \o currentBuffer_, k)
          <5>1. x \in Seq(Int) /\ currentBuffer_ \in Seq(Int) /\ k \in Int
            BY <2>1, <2>3, SeqMonotonic DEF Pos
          <5> HIDE DEF x
          <5> QED BY <5>1, ConcatAppend
        <4> QED BY <2>3, <3>1, <4>2, <4>3
      <3>2. CASE /\ buffers_' = Append(buffers_, currentBuffer_)
                 /\ currentBuffer_' = Append(<<>>, k)
        <4> DEFINE y == Append(buffers_, currentBuffer_)
        <4>1. y \in Seq(Seq(Pos)) /\ Append(<<>>, k) = <<k>> /\ <<k>> \in Seq(Pos)
          <5>1. Append(<<>>, k) = <<k>> /\ <<k>> \in Seq(Pos)
            BY <2>1
          <5> HIDE DEF Pos
          <5> QED BY <2>1, <5>1, AppendProperties
        <4>2. FlattenSeq(Append(y, <<k>>)) = FlattenSeq(y) \o <<k>>
          <5> HIDE DEF y, Pos
          <5> QED BY <4>1, FlattenAppend
        <4>3. (x \o currentBuffer_) \o <<k>> = Append(x \o currentBuffer_, k)
          <5> HIDE DEF x
          <5> QED BY <2>1, <2>3, AppendIsConcat
        <4>4. <<>> \o y = y
          <5> HIDE DEF y, Pos
          <5> QED BY <4>1, ConcatEmptySeq
        <4> QED BY <2>3, <3>2, <4>1, <4>2, <4>3, <4>4
      <3> QED BY <1>7, <3>1, <3>2
    <2>6. Held' = content \o Append(x \o currentBuffer_, k)
      <3>1. Held' = content' \o FlattenSeq(Append(Unwritten' \o buffers_', currentBuffer_'))
        BY DEF Held
      <3> QED BY <1>11, <2>2, <2>5, <3>1
    <2>7. content \o Append(x \o currentBuffer_, k)
             = Append(content \o (x \o currentBuffer_), k)
      <3>1. /\ content \in Seq(Int) /\ x \o currentBuffer_ \in Seq(Int) /\ k \in Int
        BY <1>11, <2>1, <2>3, SeqMonotonic DEF Pos
      <3> QED BY <3>1, ConcatAppend
    <2> HIDE DEF x
    <2> QED BY <2>4, <2>6, <2>7
  <1>13. Complete' /\ (dropped \subseteq Line)'
    <2> DEFINE h == Held
               g == Held'
    <2>1. /\ g = Append(h, k) /\ h \in Seq(Nat) /\ Ordered(h)
          /\ Range(h) \ {Note} = Line \ dropped /\ k \in Nat /\ k # Note
      BY <1>3, <1>11, <1>12 DEF Complete, Ordered, Note
    <2> HIDE DEF h, g
    <2>2. \A x \in Range(h) : x < k
      BY <1>3, <2>1 DEF Note
    <2>3. Ordered(g) /\ Range(g) = Range(h) \cup {k}
      BY <2>1, <2>2, OrderedAppend
    <2>4. Range(g) \ {Note} = Line' \ dropped'
      <3>1. k \notin dropped
        BY <1>3, <1>11
      <3> QED BY <1>3, <1>11, <2>1, <2>3, <3>1
    <2>5. Complete' = (Range(g) \ {Note} = Line' \ dropped' /\ Ordered(g))
      BY DEF Complete, Ordered, g
    <2> QED BY <1>3, <1>11, <2>3, <2>4, <2>5
  <1>14. FrontRight'
    <2>1. /\ fpc \in [Thread -> {"idle", "append", "abort"}]
          /\ line = [s \in Thread |-> line[s]]
          /\ t_lastSecond \in [Thread -> Nat] /\ t_time = t_lastSecond
          /\ \A s \in Thread : fpc[s] = "append" => line[s].text \in Seq(Piece)
          /\ \A s \in Thread : fpc[s] # "append" => line[s] = Null
          /\ \A s \in Thread : fpc[s] = "append" => LineRight(line[s])
      BY DEF IInv, FrontRight, LinesRight
    <2>2. /\ line' = [s \in Thread |-> line'[s]] /\ line'[t] = Null
          /\ \A s \in Thread \ {t} : line'[s] = line[s]
      BY <1>1, <2>1
    <2>3. /\ fpc' \in [Thread -> {"idle", "append", "abort"}] /\ fpc'[t] # "append"
          /\ \A s \in Thread \ {t} : fpc'[s] = fpc[s]
      BY <1>1, <2>1
    <2>4. t_lastSecond' = t_lastSecond /\ t_time' = t_time
      BY <1>1
    <2>5. \A s \in Thread : fpc'[s] = "append" => LineRight(line'[s])
      BY <2>1, <2>2, <2>3
    <2>6. /\ \A s \in Thread : fpc'[s] = "append" => line'[s].text \in Seq(Piece)
          /\ \A s \in Thread : fpc'[s] # "append" => line'[s] = Null
      BY <2>1, <2>2, <2>3
    <2> QED BY <2>1, <2>2, <2>3, <2>4, <2>5, <2>6 DEF FrontRight, LinesRight
  <1>15. FileRight'
    <2>1. content \in Seq(Line' \cup {Note})
      BY <1>3, SeqMonotonic DEF IInv, FileRight, LFTypeOK
    <2> QED BY <1>1, <2>1 DEF IInv, FileRight, LFTypeOK, system, fileVars
  <1>16. Control'
    BY <1>1 DEF IInv, Control
  <1> QED BY <1>10, <1>13, <1>14, <1>15, <1>16 DEF IInv

(* Nothing of what is held is touched: the owner, an abort, the system.     *)
LEMMA OthersRight ==
    ASSUME IInv, Owner \/ System \/ \E t \in Thread : abort(t)
    PROVE  IInv'
  <1>1. ASSUME UNCHANGED <<shared, local, hist, fileVars>>, UNCHANGED <<tick, diskFull>>,
               bpc' = bpc
        PROVE  Stored' /\ FileRight' /\ Complete' /\ (dropped \subseteq Line)'
    <2>1. /\ UNCHANGED <<shared, local, accepted>>
          /\ UNCHANGED <<content, shared, bufferToWrite, i, hist>>
          /\ UNCHANGED <<system, fileVars, accepted>>
          /\ Line' = Line /\ dropped' = dropped
      BY <1>1 DEF hist, local, fileVars, system, Line
    <2>2. Stored'
      BY <1>1, <2>1, StoredKept DEF IInv
    <2>3. FileRight'
      BY <2>1, FileKept DEF IInv
    <2>4. Complete'
      BY <1>1, <2>1, CompleteKept DEF IInv
    <2> QED BY <2>1, <2>2, <2>3, <2>4 DEF IInv
  <1>2. ASSUME NEW t \in Thread, abort(t) PROVE IInv'
    <2>1. /\ aborted' = TRUE
          /\ UNCHANGED <<system, fileVars, running_, shared, opc, bpc, local, front, hist>>
      BY <1>2 DEF abort
    <2>2. Stored' /\ FileRight' /\ Complete' /\ (dropped \subseteq Line)'
      BY <1>1, <2>1 DEF system
    <2>3. FrontRight'
      BY <2>1, FrontKept DEF IInv
    <2>4. Control'
      BY <2>1 DEF IInv, Control
    <2> QED BY <2>2, <2>3, <2>4 DEF IInv
  <1>3. CASE Started \/ stop \/ Joined
    <2>1. /\ UNCHANGED <<system, fileVars, shared, local, front, aborted, hist>>
          /\ bpc' = bpc
      BY <1>3 DEF Started, stop, Joined, OwnerGoes
    <2>2. Stored' /\ FileRight' /\ Complete' /\ (dropped \subseteq Line)'
      BY <1>1, <2>1 DEF system
    <2>3. FrontRight'
      BY <2>1, FrontKept DEF IInv
    <2>4. Control'
      BY <1>3, <2>1 DEF IInv, Control, Started, stop, Joined, OwnerGoes
    <2> QED BY <2>2, <2>3, <2>4 DEF IInv
  <1>4. CASE start
    <2>1. /\ UNCHANGED <<system, fileVars, shared, local, front, aborted, hist>>
          /\ opc = "new" /\ opc' = "starting" /\ running_' = TRUE /\ bpc' = "starting"
      BY <1>4 DEF start, OwnerGoes
    <2>2. bpc = "none"
      BY <2>1 DEF IInv, Control
    <2>3. /\ Control' /\ FrontRight'
      BY <2>1, FrontKept DEF IInv, Control
    <2>4. Stored'
      <3>1. /\ Buffer' = Buffer /\ ~Mutex' /\ accepted' = accepted
            /\ buffers_' = buffers_ /\ currentBuffer_' = currentBuffer_
            /\ nextBuffer_' = nextBuffer_ /\ firstNewBuffer' = firstNewBuffer
            /\ secondNewBuffer' = secondNewBuffer /\ bufferToWrite' = bufferToWrite
        BY <2>1 DEF Buffer, Line, Mutex, shared, local, hist
      <3> QED BY <2>1, <2>2, <3>1 DEF IInv, Stored
    <2>5. FileRight'
      BY <2>1, FileKept DEF IInv, hist
    <2>6. Complete'
      BY <2>1, <2>2, CompleteKept DEF IInv, fileVars, local
    <2>7. (dropped \subseteq Line)'
      BY <2>1 DEF IInv, hist, Line
    <2> QED BY <2>3, <2>4, <2>5, <2>6, <2>7 DEF IInv
  <1>5. CASE System
    <2>1. /\ UNCHANGED <<fileVars, running_, shared, opc, bpc, local, front, aborted, hist>>
          /\ \/ tick < Len(Clock) /\ tick' = tick + 1 /\ UNCHANGED diskFull
             \/ diskFull' = TRUE /\ UNCHANGED tick
      BY <1>5 DEF System
    <2>2. FileRight'
      <3>1. /\ tick \in DOMAIN Clock /\ diskFull \in BOOLEAN
        BY DEF IInv, FileRight, LFTypeOK
      <3>2. tick' \in DOMAIN Clock /\ diskFull' \in BOOLEAN
        <4>1. Len(Clock) \in Nat /\ DOMAIN Clock = 1 .. Len(Clock)
          BY LogFileAssumption, LenProperties
        <4>2. CASE tick < Len(Clock) /\ tick' = tick + 1 /\ UNCHANGED diskFull
          <5>1. tick \in Nat /\ 1 <= tick
            BY <3>1, <4>1
          <5>2. tick + 1 \in 1 .. Len(Clock)
            BY <4>1, <4>2, <5>1
          <5> QED BY <3>1, <4>1, <4>2, <5>2
        <4>3. CASE diskFull' = TRUE /\ UNCHANGED tick
          BY <3>1, <4>3
        <4> QED BY <2>1, <4>2, <4>3
      <3>3. Line' = Line
        BY <2>1 DEF Line, hist
      <3> QED BY <2>1, <3>2, <3>3 DEF IInv, FileRight, LFTypeOK, fileVars
    <2>3. Stored'
      BY <2>1, StoredKept DEF IInv, hist
    <2>4. Complete'
      BY <2>1, CompleteKept DEF IInv, fileVars, local
    <2>5. FrontRight' /\ Control' /\ (dropped \subseteq Line)'
      BY <2>1, FrontKept DEF IInv, Control, hist, Line
    <2> QED BY <2>2, <2>3, <2>4, <2>5 DEF IInv
  <1> QED BY <1>2, <1>3, <1>4, <1>5 DEF Owner

(* The back end leaves the buffers alone.                                   *)
LEMMA BackEndIdle ==
    ASSUME IInv, logFile \/ while_running \/ threadEnds
    PROVE  IInv'
  <1>1. /\ UNCHANGED <<system, running_, opc, front, aborted, accepted, shared,
                       bufferToWrite, i, dropped>>
        /\ \/ bpc = "starting" /\ bpc' = "test" /\ LogFileOpens
              /\ firstNewBuffer' = <<>> /\ secondNewBuffer' = <<>>
           \/ bpc = "test" /\ bpc' \in {"wait", "final"} /\ UNCHANGED <<fileVars, local>>
           \/ bpc = "final" /\ bpc' = "gone" /\ flush /\ UNCHANGED local
    BY DEF logFile, while_running, threadEnds, BackEndGoes, local
  <1>2. Line' = Line /\ Buffer' = Buffer /\ (dropped \subseteq Line)'
    BY <1>1 DEF IInv, Line, Buffer
  <1>3. FileRight' /\ content' = content
    <2> DEFINE E == Line \cup {Note}
    <2>1. LFTypeOK(E) /\ UNCHANGED system
      BY <1>1 DEF IInv, FileRight
    <2>2. E' = E
      BY <1>2
    <2> HIDE DEF E
    <2>3. CASE LogFileOpens
      <3>1. content' = content /\ LFTypeOK(E)'
        BY <2>1, <2>2, <2>3, LogFileOpensTyped
      <3> QED BY <3>1 DEF FileRight, E
    <2>4. CASE flush
      <3>1. content' = content /\ LFTypeOK(E)'
        BY <2>1, <2>2, <2>4, FlushTyped
      <3> QED BY <3>1 DEF FileRight, E
    <2>5. CASE UNCHANGED fileVars
      BY <1>1, <2>5, FileKept DEF IInv, fileVars
    <2> QED BY <1>1, <2>3, <2>4, <2>5
  <1>4. Complete'
    BY <1>1, <1>3, CompleteKept DEF IInv, hist
  <1>5. Stored'
    <2>1. /\ buffers_' = buffers_ /\ currentBuffer_' = currentBuffer_
          /\ nextBuffer_' = nextBuffer_ /\ bufferToWrite' = bufferToWrite
          /\ i' = i /\ accepted' = accepted /\ ~Mutex'
      BY <1>1 DEF shared, Mutex
    <2>2. /\ firstNewBuffer' \in {Null, <<>>} /\ secondNewBuffer' \in {Null, <<>>}
          /\ bpc' \in {"test", "wait"} =>
                firstNewBuffer' = <<>> /\ secondNewBuffer' = <<>> /\ bufferToWrite' = <<>>
          /\ bpc' \notin {"none", "starting", "note", "write"}
      BY <1>1, <2>1 DEF IInv, Stored, local
    <2> QED BY <1>2, <2>1, <2>2 DEF IInv, Stored
  <1>6. FrontRight' /\ Control'
    BY <1>1, FrontKept DEF IInv, Control
  <1> QED BY <1>2, <1>3, <1>4, <1>5, <1>6 DEF IInv

(* What the buffers hold are naturals other than the note.                  *)
LEMMA BuffersHold ==
    ASSUME IInv
    PROVE  /\ buffers_ \in Seq(Seq(Pos)) /\ bufferToWrite \in Seq(Seq(Pos))
           /\ currentBuffer_ \in Seq(Pos) /\ content \in Seq(Nat)
           /\ Len(accepted) \in Nat /\ Line \subseteq Pos
  <1>1. Len(accepted) \in Nat
    BY LenProperties DEF IInv, Stored
  <1>2. Line \subseteq Pos /\ Line \cup {Note} \subseteq Nat
    BY <1>1 DEF Line, Pos, Note
  <1>3. Buffer \subseteq Seq(Pos)
    BY <1>2, SeqMonotonic DEF Buffer
  <1>4. /\ buffers_ \in Seq(Buffer) /\ bufferToWrite \in Seq(Buffer)
        /\ currentBuffer_ \in Buffer /\ content \in Seq(Line \cup {Note})
    BY DEF IInv, Stored, FileRight, LFTypeOK
  <1> QED BY <1>1, <1>2, <1>3, <1>4, SeqMonotonic

(* Empty buffers hold nothing.                                              *)
LEMMA NothingElse ==
    ASSUME NEW c \in Seq(Nat), NEW unw \in Seq(Seq(Pos))
    PROVE  /\ FlattenSeq(unw) \in Seq(Pos)
           /\ c \o FlattenSeq(Append(unw \o <<>>, <<>>)) = c \o FlattenSeq(unw)
  <1> DEFINE none == <<>>
             nobuf == <<>>
             x == FlattenSeq(unw)
  <1>1. none \in Seq(Seq(Pos)) /\ nobuf \in Seq(Pos)
    BY EmptySeq
  <1>2. FlattenSeq(none) = nobuf
    BY DEF FlattenSeq
  <1>3. nobuf \o nobuf = nobuf
    BY <1>1, ConcatEmptySeq
  <1> HIDE DEF none
  <1>4. /\ x \in Seq(Pos)
        /\ c \o FlattenSeq(Append(unw \o none, nobuf))
              = c \o (x \o (FlattenSeq(none) \o nobuf))
    <2> HIDE DEF nobuf
    <2> QED BY <1>1, HeldIs
  <1>5. x \o nobuf = x
    BY <1>4, ConcatEmptySeq
  <1> HIDE DEF nobuf
  <1>6. c \o FlattenSeq(Append(unw \o none, nobuf)) = c \o x
    BY <1>2, <1>3, <1>4, <1>5
  <1> QED BY <1>4, <1>6 DEF none, nobuf

(* While it writes, the back end holds all that is not in the file.         *)
LEMMA HeldWriting ==
    ASSUME IInv, Mutex
    PROVE  /\ Unwritten \in Seq(Seq(Pos))
           /\ FlattenSeq(Unwritten) \in Seq(Pos)
           /\ Held = content \o FlattenSeq(Unwritten)
  <1>1. /\ buffers_ = <<>> /\ currentBuffer_ = <<>>
    BY DEF IInv, Stored
  <1>2. Unwritten \in Seq(Seq(Pos))
    <2>1. CASE bpc \in {"note", "write"}
      <3>1. Unwritten = SubSeq(bufferToWrite, i, Len(bufferToWrite))
        BY <2>1 DEF Unwritten
      <3>2. i \in Nat \ {0} /\ Len(bufferToWrite) \in Nat
        BY <2>1, LenProperties, BuffersHold DEF IInv, Stored
      <3>3. \A j \in i .. Len(bufferToWrite) : bufferToWrite[j] \in Seq(Pos)
        BY <3>2, BuffersHold, ElementOfSeq
      <3> QED BY <3>1, <3>2, <3>3, SubSeqProperties
    <2>2. CASE bpc \notin {"note", "write"}
      BY <2>2, EmptySeq DEF Unwritten
    <2> QED BY <2>1, <2>2
  <1>3. /\ FlattenSeq(Unwritten) \in Seq(Pos)
        /\ content \o FlattenSeq(Append(Unwritten \o <<>>, <<>>))
              = content \o FlattenSeq(Unwritten)
    <2> content \in Seq(Nat)
      BY BuffersHold
    <2> QED BY <1>2, NothingElse
  <1>4. Held = content \o FlattenSeq(Append(Unwritten \o <<>>, <<>>))
    BY <1>1 DEF Held
  <1> HIDE DEF Held, Unwritten
  <1> QED BY <1>2, <1>3, <1>4

(* The buffers are swapped: the back end holds what those who log held.     *)
LEMMA WakesRight ==
    ASSUME IInv, wakes
    PROVE  IInv'
  <1> DEFINE taken == Append(buffers_, currentBuffer_)
  <1>1. /\ bpc = "wait"
        /\ bpc' = IF Len(buffers_) + 1 > kMaxBuffers THEN "note" ELSE "write"
        /\ UNCHANGED <<system, running_, opc, front, aborted, accepted, fileVars, dropped>>
        /\ buffers_' = <<>> /\ bufferToWrite' = taken /\ i' = 1
        /\ currentBuffer_' = firstNewBuffer /\ firstNewBuffer' = Null
        /\ nextBuffer_' = IF nextBuffer_ = Null THEN secondNewBuffer ELSE nextBuffer_
        /\ secondNewBuffer' = IF nextBuffer_ = Null THEN Null ELSE secondNewBuffer
    BY DEF wakes, BackEndGoes, SwapBuffers
  <1>2. firstNewBuffer = <<>> /\ secondNewBuffer = <<>>
    BY <1>1 DEF IInv, Stored
  <1>3. Line' = Line /\ Buffer' = Buffer /\ (dropped \subseteq Line)' /\ content' = content
    BY <1>1 DEF IInv, Line, Buffer, fileVars
  <1>4. /\ buffers_ \in Seq(Buffer) /\ currentBuffer_ \in Buffer
        /\ Len(buffers_) \in Nat /\ Len(taken) = Len(buffers_) + 1
        /\ taken \in Seq(Buffer) /\ taken # <<>>
        /\ Range(taken) = Range(buffers_) \cup {currentBuffer_}
    <2>1. buffers_ \in Seq(Buffer) /\ currentBuffer_ \in Buffer
      BY DEF IInv, Stored
    <2> QED BY <2>1, AppendProperties, LenProperties, RangeOfAppend
  <1> HIDE DEF taken
  <1>5. Stored'
    <2>1. /\ <<>> \in Seq(Buffer) /\ <<>> \in Buffer /\ Range(<<>>) = {}
      BY EmptySeq DEF Buffer, Range
    <2>2. \A b \in Range(taken) : SizeOf(b, accepted) < kLargeBuffer
      BY <1>4 DEF IInv, Stored
    <2>3. SizeOf(<<>>, accepted) < kLargeBuffer
      <3>1. accepted \in Seq(Nat) /\ <<>> \in Seq(1 .. Len(accepted)) /\ 0 \in Nat
        BY EmptySeq DEF IInv, Stored
      <3>2. SizeOf(<<>>, accepted) = 0
        BY <3>1, SizeAppend
      <3> QED BY <3>2, LogStreamAssumption, AsyncLoggingAssumption
    <2>4. nextBuffer_' # Null /\ nextBuffer_' \in {Null, <<>>}
      BY <1>1, <1>2, AsyncLoggingAssumption DEF IInv, Stored
    <2>5. secondNewBuffer' = Null => Len(taken) > 1
      <3>1. CASE nextBuffer_ = Null
        <4>1. buffers_ # <<>>
          BY <3>1 DEF IInv, Stored
        <4>2. Len(buffers_) \in Nat \ {0}
          BY <1>4, <4>1, EmptySeq
        <4> QED BY <1>4, <4>2
      <3>2. CASE nextBuffer_ # Null
        BY <1>1, <1>2, <3>2, AsyncLoggingAssumption
      <3> QED BY <3>1, <3>2
    <2>6. /\ bpc' = "note" => Len(taken) > kMaxBuffers
          /\ bpc' = "write" => i' \in 1 .. Len(taken)
          /\ bpc' \in {"note", "write"}
      BY <1>1, <1>4
    <2>7. accepted' = accepted /\ accepted \in Seq(Nat)
      BY <1>1 DEF IInv, Stored
    <2>8. secondNewBuffer' \in {Null, <<>>}
      BY <1>1, <1>2
    <2> QED BY <1>1, <1>2, <1>3, <1>4, <2>1, <2>2, <2>3, <2>4, <2>5, <2>6, <2>7, <2>8
            DEF Stored, Mutex
  <1>6. Complete'
    <2> DEFINE none == <<>>
    <2>1. Held = content \o FlattenSeq(taken)
      <3>1. Unwritten = none
        BY <1>1 DEF Unwritten
      <3>2. none \o buffers_ = buffers_
        BY <1>4, ConcatEmptySeq
      <3> QED BY <3>1, <3>2 DEF Held, taken
    <2>2. Held' = content \o FlattenSeq(Append(taken \o none, none))
      <3>1. Unwritten' = SubSeq(taken, 1, Len(taken))
        BY <1>1 DEF Unwritten
      <3>2. SubSeq(taken, 1, Len(taken)) = taken
        BY <1>4, SubSeqFull
      <3>3. currentBuffer_' = none /\ buffers_' = none
        BY <1>1, <1>2
      <3>4. Held' = content' \o FlattenSeq(Append(Unwritten' \o buffers_', currentBuffer_'))
        BY DEF Held
      <3> HIDE DEF none
      <3> QED BY <1>3, <3>1, <3>2, <3>3, <3>4
    <2>3. FlattenSeq(Append(taken \o none, none)) = FlattenSeq(taken)
      <3>1. taken \in Seq(Seq(Line)) /\ none \in Seq(Line)
        BY <1>4, EmptySeq DEF Buffer
      <3>2. taken \o none = taken
        BY <1>4, ConcatEmptySeq
      <3>3. /\ FlattenSeq(Append(taken, none)) = FlattenSeq(taken) \o none
            /\ FlattenSeq(taken) \in Seq(Line)
        <4> HIDE DEF none
        <4> QED BY <3>1, FlattenAppend
      <3>4. FlattenSeq(taken) \o none = FlattenSeq(taken)
        BY <3>3, ConcatEmptySeq
      <3> HIDE DEF none
      <3> QED BY <3>2, <3>3, <3>4
    <2>4. Held' = Held
      <3> HIDE DEF none
      <3> QED BY <2>1, <2>2, <2>3
    <2>5. dropped' = dropped
      BY <1>1
    <2> HIDE DEF Held
    <2> QED BY <1>3, <2>4, <2>5 DEF IInv, Complete
  <1>7. FileRight'
    BY <1>1, FileKept DEF IInv
  <1>8. FrontRight' /\ Control'
    BY <1>1, FrontKept DEF IInv, Control
  <1> QED BY <1>3, <1>5, <1>6, <1>7, <1>8 DEF IInv

(* A part of what is to be written, and the two parts of it.                *)
LEMMA PartOf ==
    ASSUME NEW S, NEW b \in Seq(Seq(S)), NEW m \in Nat, m <= Len(b)
    PROVE  /\ SubSeq(b, 1, m) \in Seq(Seq(S)) /\ Len(SubSeq(b, 1, m)) = m
           /\ Range(SubSeq(b, 1, m)) \subseteq Range(b)
           /\ SubSeq(b, m + 1, Len(b)) \in Seq(Seq(S))
           /\ FlattenSeq(b) = FlattenSeq(SubSeq(b, 1, m))
                                 \o FlattenSeq(SubSeq(b, m + 1, Len(b)))
  <1> DEFINE n == Len(b)
             x == SubSeq(b, 1, m)
             y == SubSeq(b, m + 1, n)
  <1>1. n \in Nat /\ DOMAIN b = 1 .. n /\ \A j \in 1 .. n : b[j] \in Seq(S)
    BY LenProperties, ElementOfSeq
  <1>2. /\ x \in Seq(Seq(S)) /\ Len(x) = m
        /\ \A j \in 1 .. m : x[j] = b[j]
    <2>1. \A j \in 1 .. m : b[j] \in Seq(S)
      BY <1>1
    <2>2. /\ x \in Seq(Seq(S)) /\ Len(x) = IF 1 <= m THEN m - 1 + 1 ELSE 0
          /\ \A j \in 1 .. m - 1 + 1 : x[j] = b[1 + j - 1]
      BY <2>1, SubSeqProperties
    <2>3. m - 1 + 1 = m /\ \A j \in 1 .. m : 1 + j - 1 = j
      OBVIOUS
    <2> HIDE DEF x
    <2> QED BY <2>2, <2>3
  <1>3. y \in Seq(Seq(S))
    <2>1. \A j \in m + 1 .. n : b[j] \in Seq(S)
      BY <1>1
    <2> QED BY <1>1, <2>1, SubSeqProperties
  <1>4. Range(x) \subseteq Range(b)
    <2>1. DOMAIN x = 1 .. m
      BY <1>2, LenProperties
    <2> HIDE DEF x
    <2> QED BY <1>1, <1>2, <2>1 DEF Range
  <1>5. x \o y = b
    <2>1. 1 \in 1 .. n + 1 /\ m \in 1 - 1 .. n /\ n \in m .. n
      BY <1>1
    <2>2. x \o y = SubSeq(b, 1, n)
      BY <2>1, ConcatAdjacentSubSeq
    <2> QED BY <2>2, SubSeqFull
  <1>6. FlattenSeq(x \o y) = FlattenSeq(x) \o FlattenSeq(y)
    <2> HIDE DEF x, y
    <2> QED BY <1>2, <1>3, FlattenConcat
  <1> QED BY <1>2, <1>3, <1>4, <1>5, <1>6

(* Two buffers become the spare ones, if they are to be.                    *)
LEMMA RecycleRight ==
    ASSUME IInv, recycle
    PROVE  IInv'
  <1> DEFINE two == IF Len(bufferToWrite) > 2 THEN 2 ELSE Len(bufferToWrite)
             left == two - IF firstNewBuffer = Null THEN 1 ELSE 0
  <1>1. /\ bpc = "recycle" /\ bpc' = "test" /\ flush
        /\ UNCHANGED <<system, running_, opc, front, aborted, accepted, shared, dropped>>
        /\ firstNewBuffer' =
              IF firstNewBuffer = Null /\ two > 0 THEN <<>> ELSE firstNewBuffer
        /\ secondNewBuffer' =
              IF secondNewBuffer = Null /\ left > 0 THEN <<>> ELSE secondNewBuffer
        /\ bufferToWrite' = <<>> /\ i' = 1
    BY DEF recycle, Spares, BackEndGoes, reset
  <1>2. /\ firstNewBuffer = Null /\ secondNewBuffer \in {Null, <<>>}
        /\ Len(bufferToWrite) \in Nat \ {0}
        /\ secondNewBuffer = Null => Len(bufferToWrite) > 1
    <2>1. /\ bufferToWrite \in Seq(Buffer) /\ bufferToWrite # <<>>
          /\ firstNewBuffer = Null /\ secondNewBuffer \in {Null, <<>>}
          /\ secondNewBuffer = Null => Len(bufferToWrite) > 1
      BY <1>1 DEF IInv, Stored, Mutex
    <2> QED BY <2>1, EmptySeq, LenProperties
  <1>3. firstNewBuffer' = <<>> /\ secondNewBuffer' = <<>>
    BY <1>1, <1>2
  <1> HIDE DEF two, left
  <1>4. Line' = Line /\ Buffer' = Buffer /\ (dropped \subseteq Line)'
    BY <1>1 DEF IInv, Line, Buffer
  <1>5. FileRight' /\ content' = content
    <2> DEFINE E == Line \cup {Note}
    <2>1. LFTypeOK(E) /\ flush /\ UNCHANGED system
      BY <1>1 DEF IInv, FileRight
    <2>2. E' = E
      BY <1>4
    <2> HIDE DEF E
    <2>3. content' = content /\ LFTypeOK(E)'
      BY <2>1, <2>2, FlushTyped
    <2> QED BY <2>3 DEF FileRight, E
  <1>6. Complete'
    <2>1. Unwritten = <<>> /\ Unwritten' = <<>>
      BY <1>1 DEF Unwritten
    <2>2. Held' = Held
      BY <1>1, <1>5, <2>1 DEF Held, shared
    <2>3. dropped' = dropped
      BY <1>1
    <2> HIDE DEF Held
    <2> QED BY <1>4, <2>2, <2>3 DEF IInv, Complete
  <1>7. Stored'
    <2>1. /\ buffers_' = buffers_ /\ currentBuffer_' = currentBuffer_
          /\ nextBuffer_' = nextBuffer_ /\ accepted' = accepted /\ ~Mutex'
      BY <1>1 DEF shared, Mutex
    <2>2. <<>> \in Seq(Buffer) /\ Range(<<>>) = {}
      BY EmptySeq DEF Range
    <2> QED BY <1>1, <1>3, <1>4, <2>1, <2>2 DEF IInv, Stored
  <1>8. FrontRight' /\ Control'
    BY <1>1, FrontKept DEF IInv, Control
  <1> QED BY <1>4, <1>5, <1>6, <1>7, <1>8 DEF IInv

(* The first buffer of those left, and the others.                          *)
LEMMA NextOf ==
    ASSUME NEW S, NEW b \in Seq(Seq(S)), NEW m \in 1 .. Len(b)
    PROVE  /\ b[m] \in Seq(S) /\ b[m] \in Range(b)
           /\ SubSeq(b, m + 1, Len(b)) \in Seq(Seq(S))
           /\ FlattenSeq(SubSeq(b, m, Len(b)))
                 = b[m] \o FlattenSeq(SubSeq(b, m + 1, Len(b)))
           /\ m = Len(b) => SubSeq(b, m + 1, Len(b)) = <<>>
  <1> DEFINE n == Len(b)
             s == b[m]
             one == <<s>>
             none == <<>>
             rest == SubSeq(b, m + 1, n)
  <1>1. n \in Nat /\ DOMAIN b = 1 .. n /\ \A j \in 1 .. n : b[j] \in Seq(S)
    BY LenProperties, ElementOfSeq
  <1>2. s \in Seq(S) /\ s \in Range(b)
    BY <1>1 DEF Range
  <1>3. rest \in Seq(Seq(S))
    <2>1. \A j \in m + 1 .. n : b[j] \in Seq(S)
      BY <1>1
    <2> QED BY <1>1, <2>1, SubSeqProperties
  <1>4. SubSeq(b, m, n) = one \o rest
    BY <1>1, SubSeqRecursiveFirst
  <1>5. one \in Seq(Seq(S)) /\ FlattenSeq(one) = s
    <2>1. none \in Seq(Seq(S)) /\ one = Append(none, s)
      BY EmptySeq
    <2> HIDE DEF none, s, one
    <2>2. /\ FlattenSeq(Append(none, s)) = FlattenSeq(none) \o s
          /\ FlattenSeq(<<>>) = <<>>
      BY <1>2, <2>1, FlattenAppend
    <2>3. <<>> \o s = s
      BY <1>2, ConcatEmptySeq
    <2>4. Append(none, s) \in Seq(Seq(S))
      BY <1>2, <2>1, AppendProperties
    <2> QED BY <2>1, <2>2, <2>3, <2>4 DEF none
  <1>6. FlattenSeq(one \o rest) = FlattenSeq(one) \o FlattenSeq(rest)
    <2> HIDE DEF one, rest
    <2> QED BY <1>3, <1>5, FlattenConcat
  <1>7. m = n => rest = <<>>
    BY <1>1, SubSeqEmpty
  <1> QED BY <1>2, <1>3, <1>4, <1>5, <1>6, <1>7

(* A buffer goes from what is held into the file.                           *)
LEMMA WriteRight ==
    ASSUME IInv, write
    PROVE  IInv'
  <1> DEFINE L == Len(bufferToWrite)
             s == bufferToWrite[i]
             rest == SubSeq(bufferToWrite, i + 1, L)
  <1>1. /\ bpc = "write" /\ bpc' = IF i = L THEN "recycle" ELSE "write"
        /\ appendFile(s, size(s)) /\ i' = i + 1
        /\ UNCHANGED <<system, running_, opc, front, aborted, accepted, shared, dropped,
                       firstNewBuffer, secondNewBuffer, bufferToWrite>>
    BY DEF write, BackEndGoes
  <1>2. Mutex /\ Mutex'
    BY <1>1 DEF Mutex
  <1>3. Line' = Line /\ Buffer' = Buffer /\ (dropped \subseteq Line)'
    BY <1>1 DEF IInv, Line, Buffer
  <1>4. /\ bufferToWrite \in Seq(Seq(Line)) /\ i \in 1 .. L /\ L \in Nat
        /\ accepted \in Seq(Nat) /\ content \in Seq(Line \cup {Note})
    BY <1>1, LenProperties DEF IInv, Stored, Buffer, FileRight, LFTypeOK
  <1>5. /\ s \in Seq(Line) /\ s \in Seq(Line \cup {Note}) /\ size(s) \in Nat
    <2>1. s \in Seq(Line)
      BY <1>4, NextOf
    <2>2. s \in Seq(1 .. Len(accepted)) /\ 0 \in Nat
      BY <2>1 DEF Line
    <2> HIDE DEF s
    <2>3. SizeOf(s, accepted) \in Nat
      BY <1>4, <2>2, SizeAppend
    <2> QED BY <2>1, <2>3, SeqMonotonic DEF size, SizeOf
  <1>6. FileRight' /\ content' = content \o s
    <2> DEFINE E == Line \cup {Note}
               bytes == size(s)
    <2>1. /\ LFTypeOK(E) /\ UNCHANGED system /\ E' = E
          /\ s \in Seq(E) /\ bytes \in Nat /\ appendFile(s, bytes)
      BY <1>1, <1>3, <1>5 DEF IInv, FileRight
    <2> HIDE DEF E, bytes, s
    <2>2. content' = content \o s /\ LFTypeOK(E)'
      BY <2>1, AppendFileTyped
    <2> QED BY <2>2 DEF FileRight, E
  <1>7. Complete'
    <2>1. /\ s \in Seq(Pos) /\ rest \in Seq(Seq(Pos))
          /\ FlattenSeq(SubSeq(bufferToWrite, i, L)) = s \o FlattenSeq(rest)
          /\ i = L => rest = <<>>
      <3>1. bufferToWrite \in Seq(Seq(Pos)) /\ i \in 1 .. Len(bufferToWrite)
        BY <1>4, BuffersHold
      <3> HIDE DEF Pos
      <3> QED BY <3>1, NextOf
    <2>2. Unwritten = SubSeq(bufferToWrite, i, L) /\ Unwritten' = rest
      <3>1. Unwritten = SubSeq(bufferToWrite, i, L)
        BY <1>1 DEF Unwritten
      <3>2. CASE i = L
        BY <1>1, <2>1, <3>2 DEF Unwritten
      <3>3. CASE i # L
        BY <1>1, <3>3 DEF Unwritten
      <3> QED BY <3>1, <3>2, <3>3
    <2> DEFINE none == <<>>
               x == FlattenSeq(rest)
    <2>3. content \in Seq(Nat) /\ content' \in Seq(Nat) /\ s \in Seq(Nat)
      <3>1. content \in Seq(Nat) /\ s \in Seq(Nat)
        BY <2>1, BuffersHold, SeqMonotonic DEF Pos
      <3> HIDE DEF s
      <3> QED BY <1>6, <3>1, ConcatProperties
    <2>4. Held = content \o (s \o x)
      BY <1>2, <2>1, <2>2, HeldWriting
    <2>5. Held' = content' \o x /\ x \in Seq(Pos)
      <3>1. /\ buffers_' = none /\ currentBuffer_' = none
        BY <1>1, <1>2 DEF IInv, Stored, shared
      <3>2. Held' = content' \o FlattenSeq(Append(rest \o none, none))
        <4> HIDE DEF none, rest
        <4> QED BY <2>2, <3>1 DEF Held
      <3> DEFINE c == content'
      <3>3. c \in Seq(Nat) /\ rest \in Seq(Seq(Pos))
        BY <2>1, <2>3
      <3> HIDE DEF c, rest, Pos
      <3>4. /\ x \in Seq(Pos)
            /\ c \o FlattenSeq(Append(rest \o <<>>, <<>>)) = c \o x
        BY <3>3, NothingElse
      <3> QED BY <3>2, <3>4 DEF c
    <2>6. Held' = Held
      <3>1. x \in Seq(Nat)
        BY <2>5, SeqMonotonic DEF Pos
      <3>2. content \in Seq(Nat) /\ s \in Seq(Nat)
        BY <2>3
      <3> HIDE DEF x, s
      <3>3. (content \o s) \o x = content \o (s \o x)
        BY ONLY <3>1, <3>2, ConcatAssociative
      <3> QED BY <1>6, <2>4, <2>5, <3>3
    <2>7. dropped' = dropped
      BY <1>1
    <2> HIDE DEF Held
    <2> QED BY <1>3, <2>6, <2>7 DEF IInv, Complete
  <1>8. Stored'
    <2>1. /\ buffers_' = buffers_ /\ currentBuffer_' = currentBuffer_
          /\ nextBuffer_' = nextBuffer_ /\ accepted' = accepted
          /\ bufferToWrite' = bufferToWrite
          /\ firstNewBuffer' = firstNewBuffer /\ secondNewBuffer' = secondNewBuffer
          /\ bpc' \in {"recycle", "write"}
      BY <1>1 DEF shared
    <2>2. bpc' = "write" => i' \in 1 .. L
      BY <1>1, <1>4
    <2> QED BY <1>2, <1>3, <2>1, <2>2 DEF IInv, Stored
  <1>9. FrontRight' /\ Control'
    BY <1>1, FrontKept DEF IInv, Control
  <1> QED BY <1>3, <1>6, <1>7, <1>8, <1>9 DEF IInv

(* All but two of the buffers are dropped: a note takes the place of what   *)
(* comes last, and so the two that are kept stand behind it.                *)
LEMMA NoteRight ==
    ASSUME IInv, note
    PROVE  IInv'
  <1> DEFINE b == bufferToWrite
             L == Len(b)
             kept == SubSeq(b, 1, 2)
             gone == SubSeq(b, 3, L)
             x == FlattenSeq(kept)
             y == FlattenSeq(gone)
  <1>1. /\ bpc = "note" /\ bpc' = "write"
        /\ appendFile(<<Note>>, NoteLen)
        /\ b' = kept /\ dropped' = dropped \cup Range(y)
        /\ UNCHANGED <<system, running_, opc, front, aborted, accepted, shared,
                       firstNewBuffer, secondNewBuffer, i>>
    <2>1. Spared + 1 = 3
      BY DEF Spared
    <2> QED BY <2>1 DEF note, BackEndGoes, Spared
  <1>2. Mutex /\ Mutex'
    BY <1>1 DEF Mutex
  <1>3. Line' = Line /\ Buffer' = Buffer
    BY <1>1 DEF Line, Buffer
  <1>4. /\ b \in Seq(Seq(Line)) /\ b \in Seq(Seq(Pos)) /\ L \in Nat /\ 2 < L /\ i = 1
        /\ content \in Seq(Nat)
    <2>1. /\ b \in Seq(Seq(Line)) /\ L > kMaxBuffers /\ i = 1
      BY <1>1 DEF IInv, Stored, Buffer
    <2>2. L \in Nat
      BY <2>1, LenProperties
    <2>3. 2 < L
      BY <2>1, <2>2, AsyncLoggingAssumption
    <2> QED BY <2>1, <2>2, <2>3, BuffersHold
  <1>5. /\ kept \in Seq(Seq(Line)) /\ Len(kept) = 2 /\ Range(kept) \subseteq Range(b)
        /\ kept \in Seq(Seq(Pos)) /\ gone \in Seq(Seq(Pos))
        /\ FlattenSeq(b) = x \o y
        /\ x \in Seq(Pos) /\ y \in Seq(Pos)
    <2>1. 2 \in Nat /\ 2 <= Len(b) /\ 2 + 1 = 3
      BY <1>4
    <2> HIDE DEF Pos, b
    <2>2. /\ SubSeq(b, 1, 2) \in Seq(Seq(Line)) /\ Len(SubSeq(b, 1, 2)) = 2
          /\ Range(SubSeq(b, 1, 2)) \subseteq Range(b)
      BY <1>4, <2>1, PartOf
    <2>3. /\ SubSeq(b, 1, 2) \in Seq(Seq(Pos))
          /\ SubSeq(b, 2 + 1, Len(b)) \in Seq(Seq(Pos))
          /\ FlattenSeq(b) = FlattenSeq(SubSeq(b, 1, 2))
                                \o FlattenSeq(SubSeq(b, 2 + 1, Len(b)))
      BY <1>4, <2>1, PartOf
    <2>4. /\ kept \in Seq(Seq(Pos)) /\ gone \in Seq(Seq(Pos)) /\ FlattenSeq(b) = x \o y
      BY <2>1, <2>3
    <2> HIDE DEF kept, gone
    <2>5. x \in Seq(Pos) /\ y \in Seq(Pos)
      BY <2>4, FlattenAppend, EmptySeq
    <2> QED BY <2>2, <2>4, <2>5 DEF kept
  <1> HIDE DEF kept, gone
  <1>6. FileRight' /\ content' = Append(content, Note)
    <2> DEFINE E == Line \cup {Note}
               entries == <<Note>>
               bytes == NoteLen
    <2>1. /\ LFTypeOK(E) /\ UNCHANGED system /\ E' = E
          /\ entries \in Seq(E) /\ bytes \in Nat /\ appendFile(entries, bytes)
      BY <1>1, <1>3, AsyncLoggingAssumption DEF IInv, FileRight
    <2>2. content \o entries = Append(content, Note)
      BY AppendIsConcat DEF IInv, FileRight, LFTypeOK
    <2> HIDE DEF E, bytes, entries
    <2>3. content' = content \o entries /\ LFTypeOK(E)'
      BY <2>1, AppendFileTyped
    <2> QED BY <2>2, <2>3 DEF FileRight, E
  <1>7. Held = content \o (x \o y)
    <2>1. Unwritten = SubSeq(b, 1, Len(b))
      BY <1>1, <1>4 DEF Unwritten
    <2>2. SubSeq(b, 1, Len(b)) = b
      BY <1>4, SubSeqFull
    <2> QED BY <1>2, <1>5, <2>1, <2>2, HeldWriting
  <1>8. Held' = Append(content, Note) \o x
    <2> DEFINE none == <<>>
               c == content'
    <2>1. Unwritten' = kept
      <3>1. Unwritten' = SubSeq(kept, 1, Len(kept))
        BY <1>1, <1>4 DEF Unwritten
      <3> QED BY <1>5, <3>1, SubSeqFull
    <2>2. buffers_' = none /\ currentBuffer_' = none
      BY <1>1, <1>2 DEF IInv, Stored, shared
    <2>3. Held' = content' \o FlattenSeq(Append(kept \o none, none))
      <3> HIDE DEF none
      <3> QED BY <2>1, <2>2 DEF Held
    <2>4. c \in Seq(Nat)
      BY <1>4, <1>6, AppendProperties DEF Note
    <2> HIDE DEF c, Pos
    <2>5. c \o FlattenSeq(Append(kept \o <<>>, <<>>)) = c \o x
      BY <1>5, <2>4, NothingElse
    <2> QED BY <1>6, <2>3, <2>5 DEF c
  <1>9. Complete' /\ (dropped \subseteq Line)'
    <2> DEFINE h == Held
               g == Held'
    <2>1. /\ g = Append(content, Note) \o x /\ h = content \o (x \o y) /\ Ordered(h)
          /\ Range(h) \ {Note} = Line \ dropped /\ dropped \subseteq Line
          /\ x \in Seq(Nat \ {0}) /\ y \in Seq(Nat \ {0})
      BY <1>5, <1>7, <1>8 DEF IInv, Complete, Ordered, Pos
    <2> HIDE DEF h, g, x, y
    <2>2. /\ Ordered(g) /\ Range(g) \ {Note} = (Range(h) \ {Note}) \ Range(y)
          /\ Range(y) \subseteq Range(h) \ {Note}
      BY <1>4, <2>1, CutOff
    <2>3. /\ Range(g) \ {Note} = Line' \ dropped' /\ dropped' \subseteq Line'
      BY <1>1, <1>3, <2>1, <2>2
    <2>4. Complete' = (Range(g) \ {Note} = Line' \ dropped' /\ Ordered(g))
      BY DEF Complete, Ordered, g
    <2> QED BY <2>2, <2>3, <2>4
  <1>10. Stored'
    <2>1. /\ buffers_' = buffers_ /\ currentBuffer_' = currentBuffer_
          /\ nextBuffer_' = nextBuffer_ /\ accepted' = accepted /\ i' = i
          /\ firstNewBuffer' = firstNewBuffer /\ secondNewBuffer' = secondNewBuffer
          /\ bufferToWrite' = kept
      BY <1>1 DEF shared
    <2>2. kept \in Seq(Buffer) /\ kept # <<>> /\ Len(kept) = 2
      <3>1. kept \in Seq(Buffer) /\ Len(kept) = 2
        BY <1>5 DEF Buffer
      <3>2. kept # <<>>
        BY <3>1
      <3> QED BY <3>1, <3>2
    <2> QED BY <1>1, <1>2, <1>3, <1>4, <1>5, <2>1, <2>2 DEF IInv, Stored
  <1>11. FrontRight' /\ Control'
    BY <1>1, FrontKept DEF IInv, Control
  <1> QED BY <1>6, <1>9, <1>10, <1>11 DEF IInv

-----------------------------------------------------------------------------
(* The theorems.                                                            *)
(* Every step of the threads, the clock and the disk keeps the invariant.   *)
LEMMA StepRight == IInv /\ [Next]_vars => IInv'
  <1> SUFFICES ASSUME IInv, [Next]_vars PROVE IInv'
    OBVIOUS
  <1>1. CASE Owner \/ System \/ \E t \in Thread : abort(t)
    BY <1>1, OthersRight
  <1>2. ASSUME NEW t \in Thread, (\E m \in Messages[t] : log(t, m)) \/ append_front(t)
        PROVE  IInv'
    BY <1>2, LogRight, AppendRight
  <1>3. CASE BackEnd
    BY <1>3, BackEndIdle, WakesRight, NoteRight, WriteRight, RecycleRight DEF BackEnd
  <1>4. CASE UNCHANGED vars
    <2>1. /\ UNCHANGED <<system, fileVars, running_, shared, opc, bpc, local, front,
                         aborted, hist>>
      BY <1>4 DEF vars
    <2>2. /\ UNCHANGED <<shared, local, accepted>>
          /\ UNCHANGED <<content, shared, bufferToWrite, i, hist>>
          /\ UNCHANGED <<system, fileVars, accepted>> /\ bpc' = bpc
      BY <2>1 DEF hist, local, fileVars
    <2>3. Stored' /\ FrontRight' /\ FileRight' /\ Complete'
      BY <2>1, <2>2, StoredKept, FrontKept, FileKept, CompleteKept DEF IInv
    <2>4. Control' /\ (dropped \subseteq Line)'
      BY <2>1 DEF IInv, Control, Line, hist
    <2> QED BY <2>3, <2>4 DEF IInv
  <1> QED BY <1>1, <1>2, <1>3, <1>4 DEF Next, FrontEnd

(* The inductive invariant holds of every state of the threads that log,    *)
(* the back end and the file, whatever is logged and however long.          *)
THEOREM Invariance == Spec => []IInv
  <1>1. Init => IInv
    BY InitRight
  <1>2. IInv /\ [Next]_vars => IInv'
    BY StepRight
  <1> QED BY <1>1, <1>2, PTL DEF Spec

(* A front end always has a buffer, the back end one to write and enough to *)
(* make its spare ones of: the asserts of AsyncLogging.cpp never fail.      *)
THEOREM TypeCorrect == Spec => []TypeOK
  <1>1. IInv => TypeOK
    BY Implied
  <1> QED BY <1>1, Invariance, PTL

(* Nothing is lost, doubled or turned round between append and the files.   *)
THEOREM NothingLost == Spec => []Complete
  <1>1. IInv => Complete
    BY Implied
  <1> QED BY <1>1, Invariance, PTL

(* A line shows the second it was made in and its numbers as they were      *)
(* given, and leaves room for a NUL.                                        *)
THEOREM LinesReadRight == Spec => []LinesRight
  <1>1. IInv => LinesRight
    BY Implied
  <1> QED BY <1>1, Invariance, PTL
=============================================================================
