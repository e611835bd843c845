---------------------------- MODULE ReportProofs ----------------------------
(***************************************************************************)
(* Proofs about the thermistor report, of one module and of the dual-      *)
(* module emulation, for any number of channels up to ten, any readings    *)
(* and overrides and any split among modules.                              *)
(***************************************************************************)
EXTENDS DualReport, FiniteSetTheorems, SequenceTheorems, WellFoundedInduction, TLAPS

-----------------------------------------------------------------------------
(* Induction over the naturals, for a set.                                 *)
LEMMA NatInduct ==
  ASSUME NEW S, 0 \in S, \A n \in Nat : n \in S => n + 1 \in S
  PROVE  Nat \subseteq S
  <1> DEFINE R == OpToRel(<, Nat)
             T == Nat \ S
  <1>1. IsWellFoundedOn(R, Nat)
    BY NatLessThanWellFounded, Zenon DEF OpToRel
  <1>2. \A m, n \in Nat : m < n => <<m, n>> \in R
    BY DEF OpToRel
  <1> HIDE DEF R
  <1>3. SUFFICES ASSUME T # {} PROVE FALSE
    OBVIOUS
  <1>4. PICK x \in T : \A y \in T : <<y, x>> \notin R
    <2>1. T \subseteq Nat
      OBVIOUS
    <2> HIDE DEF T
    <2> QED
      BY <1>1, <1>3, <2>1, WFMin
  <1>5. x \in Nat /\ x # 0 /\ x - 1 \in Nat /\ x - 1 < x /\ (x - 1) + 1 = x
    BY <1>4
  <1>6. x - 1 \in S
    BY <1>2, <1>4, <1>5
  <1> QED
    BY <1>4, <1>5, <1>6

-----------------------------------------------------------------------------
(* The fold over the channels, in one form for both copies of it: channel  *)
(* i reads temps[i], and is faulty if it is in the set "bad".              *)

Gather(a, i, t, faulty) ==
  LET c == [a EXCEPT !.temps = Append(@, t)]
  IN IF faulty
       THEN [c EXCEPT !.faults = @ \union {i}]
       ELSE [c EXCEPT !.min = IF t < @ THEN t ELSE @,
                      !.max = IF t > @ THEN t ELSE @,
                      !.sum = @ + t,
                      !.valid = @ + 1]

Gathered(f, n, temps, bad) ==
  IF n = 0 THEN EmptyCache
  ELSE Gather(f[n - 1], n - 1, temps[n - 1], (n - 1) \in bad)

IsFold(f, size, temps, bad) ==
  f = [n \in 0..size |-> Gathered(f, n, temps, bad)]

(* The recursion defines a function.                                       *)
LEMMA FoldExists ==
  ASSUME NEW size \in Nat, NEW temps, NEW bad
  PROVE  \E f : IsFold(f, size, temps, bad)
  <1> DEFINE S == {k \in Nat : \E f : IsFold(f, k, temps, bad)}
  <1>1. 0 \in S
    <2> DEFINE f == [n \in 0..0 |-> EmptyCache]
    <2>1. \A n \in 0..0 : Gathered(f, n, temps, bad) = EmptyCache
      BY DEF Gathered
    <2>2. IsFold(f, 0, temps, bad)
      BY <2>1 DEF IsFold
    <2> QED
      BY <2>2
  <1>2. ASSUME NEW k \in Nat, k \in S
        PROVE  k + 1 \in S
    <2>1. PICK f : IsFold(f, k, temps, bad)
      BY <1>2
    <2> DEFINE g == [n \in 0..k + 1 |-> IF n <= k THEN f[n]
                                        ELSE Gathered(f, n, temps, bad)]
    <2>2. \A n \in 0..k : g[n] = f[n]
      OBVIOUS
    <2>3. \A n \in 0..k + 1 : Gathered(g, n, temps, bad) = Gathered(f, n, temps, bad)
      BY <2>2 DEF Gathered
    <2>4. \A n \in 0..k : f[n] = Gathered(f, n, temps, bad)
      BY <2>1 DEF IsFold
    <2>5. \A n \in 0..k + 1 : g[n] = Gathered(g, n, temps, bad)
      BY <2>3, <2>4
    <2>6. IsFold(g, k + 1, temps, bad)
      <3>1. g = [n \in 0..k + 1 |-> g[n]]
        OBVIOUS
      <3> HIDE DEF g
      <3> QED
        BY <2>5, <3>1 DEF IsFold
    <2> QED
      BY <2>6
  <1> HIDE DEF S
  <1>3. size \in S
    BY <1>1, <1>2, NatInduct
  <1> QED
    BY <1>3 DEF S

(* What has been gathered after n channels.                                *)
Healthies(n, bad) == (0..n - 1) \ bad

Accumulator ==
  [temps : Seq(Temp), faults : SUBSET Nat, valid : Nat,
   min : Temp, max : Temp, sum : Int]

Extremes(a, healthy, temps) ==
  /\ \A i \in healthy : a.min <= temps[i] /\ temps[i] <= a.max
  /\ healthy = {} => a.min = MaxValid /\ a.max = MinValid
  /\ healthy # {} => /\ \E i \in healthy : a.min = temps[i]
                     /\ \E i \in healthy : a.max = temps[i]

Totals(a, n, temps, bad) ==
  /\ a \in Accumulator
  /\ Len(a.temps) = n
  /\ \A i \in 0..n - 1 : a.temps[i + 1] = temps[i]
  /\ a.faults = (0..n - 1) \cap bad
  /\ a.valid = Cardinality(Healthies(n, bad))
  /\ a.valid <= n
  /\ Extremes(a, Healthies(n, bad), temps)
  /\ a.valid * a.min <= a.sum /\ a.sum <= a.valid * a.max

LEMMA Times ==
  ASSUME NEW v \in Nat, NEW a \in Int, NEW b \in Int, a <= b
  PROVE  /\ v * a \in Int /\ v * a <= v * b
         /\ (v + 1) * a = v * a + a
  OBVIOUS

LEMMA Temps == \A t : t \in Temp <=> t \in Int /\ -128 <= t /\ t <= 127
  BY DEF Temp

LEMMA TotalsEmpty ==
  ASSUME NEW temps, NEW bad
  PROVE  Totals(EmptyCache, 0, temps, bad)
  <1>1. Healthies(0, bad) = {} /\ Cardinality({}) = 0
    BY FS_EmptySet DEF Healthies
  <1>2. EmptyCache \in Accumulator
    BY Temps DEF EmptyCache, Accumulator, MaxValid, MinValid
  <1>3. Extremes(EmptyCache, {}, temps)
    BY DEF Extremes, EmptyCache, MaxValid, MinValid
  <1>4. /\ EmptyCache.temps = <<>> /\ EmptyCache.faults = {} /\ EmptyCache.valid = 0
        /\ EmptyCache.sum = 0 /\ 0 * EmptyCache.min = 0 /\ 0 * EmptyCache.max = 0
    BY DEF EmptyCache, MaxValid, MinValid
  <1>5. Len(<<>>) = 0 /\ 0..0 - 1 = {}
    OBVIOUS
  <1>6. EmptyCache.valid <= 0 /\ EmptyCache.faults = (0..0 - 1) \cap bad
    BY <1>4, <1>5
  <1>7. /\ EmptyCache.valid * EmptyCache.min <= EmptyCache.sum
        /\ EmptyCache.sum <= EmptyCache.valid * EmptyCache.max
    BY <1>4
  <1> QED
    BY <1>1, <1>2, <1>3, <1>4, <1>5, <1>6, <1>7 DEF Totals

LEMMA TotalsGrow ==
  ASSUME NEW n \in Nat, NEW temps, NEW bad, NEW t \in Temp, temps[n] = t,
         NEW a, Totals(a, n, temps, bad),
         NEW b, b = Gather(a, n, t, n \in bad)
  PROVE  Totals(b, n + 1, temps, bad)
  <1> DEFINE H == Healthies(n, bad)
             G == Healthies(n + 1, bad)
  <1>0. /\ a.faults = (0..n - 1) \cap bad /\ a.valid = Cardinality(H) /\ a.valid <= n
        /\ Extremes(a, H, temps)
        /\ a.valid * a.min <= a.sum /\ a.sum <= a.valid * a.max
    BY DEF Totals
  <1>1. a \in Accumulator /\ t \in Int /\ (n + 1) - 1 = n
    BY Temps DEF Totals
  <1>2. /\ Append(a.temps, t) \in Seq(Temp) /\ Len(Append(a.temps, t)) = n + 1
        /\ \A i \in 0..n : Append(a.temps, t)[i + 1] = temps[i]
    <2>1. a.temps \in Seq(Temp) /\ Len(a.temps) = n
          /\ \A i \in 0..n - 1 : a.temps[i + 1] = temps[i]
      BY DEF Totals, Accumulator
    <2>2. /\ Append(a.temps, t) \in Seq(Temp) /\ Len(Append(a.temps, t)) = n + 1
          /\ Append(a.temps, t)[n + 1] = t
          /\ \A j \in 1..n : Append(a.temps, t)[j] = a.temps[j]
      BY <1>1, <2>1, AppendProperties
    <2>3. ASSUME NEW i \in 0..n PROVE Append(a.temps, t)[i + 1] = temps[i]
      <3>1. CASE i = n
        BY <2>2, <3>1
      <3>2. CASE i # n
        <4>1. i \in 0..n - 1 /\ i + 1 \in 1..n
          BY <3>2
        <4> QED
          BY <2>1, <2>2, <4>1
      <3> QED
        BY <3>1, <3>2
    <2> QED
      BY <2>2, <2>3
  <1>3. IsFiniteSet(H) /\ 0..n = (0..n - 1) \union {n} /\ n \notin 0..n - 1
    <2>1. IsFiniteSet(0..n - 1)
      BY FS_Interval
    <2>2. IsFiniteSet(H)
      BY <2>1, FS_Subset DEF Healthies
    <2> QED
      BY <2>2
  <1>4. CASE n \in bad
    <2>1. G = H
      BY <1>3, <1>4 DEF Healthies
    <2>2. b = [a EXCEPT !.temps = Append(@, t), !.faults = @ \union {n}]
      BY <1>1, <1>4 DEF Gather, Accumulator
    <2>3. /\ b \in Accumulator /\ b.temps = Append(a.temps, t)
          /\ b.faults = a.faults \union {n}
          /\ b.valid = a.valid /\ b.min = a.min /\ b.max = a.max /\ b.sum = a.sum
      <3>1. a.faults \union {n} \in SUBSET Nat
        BY <1>1 DEF Accumulator
      <3> QED
        BY <1>1, <1>2, <2>2, <3>1 DEF Accumulator
    <2>4. b.faults = (0..n) \cap bad
      BY <1>0, <1>3, <1>4, <2>3
    <2>5. Extremes(b, G, temps)
      BY <1>0, <2>1, <2>3 DEF Extremes
    <2>6. b.valid = Cardinality(G) /\ b.valid <= n + 1
      BY <1>0, <1>1, <2>1, <2>3 DEF Accumulator
    <2> QED
      BY <1>0, <1>1, <1>2, <2>3, <2>4, <2>5, <2>6 DEF Totals
  <1>5. CASE n \notin bad
    <2>1. G = H \union {n} /\ n \notin H
      BY <1>3, <1>5 DEF Healthies
    <2>2. b = [a EXCEPT !.temps = Append(@, t),
                        !.min = IF t < @ THEN t ELSE @,
                        !.max = IF t > @ THEN t ELSE @,
                        !.sum = @ + t, !.valid = @ + 1]
      BY <1>1, <1>5 DEF Gather, Accumulator
    <2>3. /\ b \in Accumulator /\ b.temps = Append(a.temps, t)
          /\ b.faults = a.faults /\ b.valid = a.valid + 1
          /\ b.min = (IF t < a.min THEN t ELSE a.min)
          /\ b.max = (IF t > a.max THEN t ELSE a.max)
          /\ b.sum = a.sum + t
      <3> DEFINE low == IF t < a.min THEN t ELSE a.min
                 high == IF t > a.max THEN t ELSE a.max
      <3>1. b = [a EXCEPT !.temps = Append(a.temps, t), !.min = low, !.max = high,
                          !.sum = a.sum + t, !.valid = a.valid + 1]
        BY <2>2
      <3>2. low \in Temp /\ high \in Temp /\ a.sum + t \in Int /\ a.valid + 1 \in Nat
        BY <1>1 DEF Accumulator
      <3> HIDE DEF low, high
      <3>3. /\ b \in Accumulator /\ b.temps = Append(a.temps, t)
            /\ b.faults = a.faults /\ b.valid = a.valid + 1
            /\ b.min = low /\ b.max = high /\ b.sum = a.sum + t
        BY <1>1, <1>2, <3>1, <3>2 DEF Accumulator
      <3> QED
        BY <3>3 DEF low, high
    <2>4. /\ b.min \in Int /\ b.max \in Int /\ a.min \in Int /\ a.max \in Int
          /\ a.min >= -128 /\ a.min <= 127 /\ a.max >= -128 /\ a.max <= 127
          /\ t >= -128 /\ t <= 127 /\ a.valid \in Nat /\ a.sum \in Int
      <3>1. a.min \in Temp /\ a.max \in Temp /\ b.min \in Temp /\ b.max \in Temp
            /\ a.valid \in Nat /\ a.sum \in Int
        BY <1>1, <2>3 DEF Accumulator
      <3> QED
        BY <3>1, Temps
    <2>5. b.faults = (0..n) \cap bad
      BY <1>0, <1>3, <1>5, <2>3
    <2>6. b.valid = Cardinality(G) /\ b.valid <= n + 1
      <3>1. Cardinality(H \union {n}) = Cardinality(H) + 1
        BY <1>3, <2>1, FS_AddElement
      <3> QED
        <4>1. b.valid = Cardinality(H) + 1
          BY <1>0, <2>3
        <4>2. b.valid = Cardinality(G)
          BY <2>1, <3>1, <4>1
        <4>3. b.valid <= n + 1
          BY <1>0, <2>3, <2>4
        <4> QED
          BY <4>2, <4>3
    <2>7. Extremes(b, G, temps)
      <3>1. \A i \in H : a.min <= temps[i] /\ temps[i] <= a.max /\ temps[i] \in Int
        <4>1. \A i \in H : i + 1 \in 1..n /\ a.temps[i + 1] = temps[i]
          BY DEF Totals, Healthies
        <4>2. \A i \in H : temps[i] \in Temp
          BY <1>1, <4>1, ElementOfSeq DEF Totals, Accumulator
        <4> QED
          BY <1>0, <4>2, Temps DEF Extremes
      <3>2. \A i \in G : b.min <= temps[i] /\ temps[i] <= b.max
        BY <1>1, <2>1, <2>3, <2>4, <3>1
      <3>3. CASE H = {}
        <4>1. a.min = 127 /\ a.max = -128
          BY <1>0, <3>3 DEF Extremes, MaxValid, MinValid
        <4>2. b.min = t /\ b.max = t
          BY <1>1, <2>3, <2>4, <4>1
        <4> QED
          BY <2>1, <3>2, <4>2 DEF Extremes
      <3>4. CASE H # {}
        <4>1. PICK i \in H, j \in H : a.min = temps[i] /\ a.max = temps[j]
          BY <1>0, <3>4 DEF Extremes
        <4>2. (b.min = temps[i] \/ b.min = temps[n]) /\ (b.max = temps[j] \/ b.max = temps[n])
          BY <2>3, <4>1
        <4> QED
          BY <2>1, <3>2, <4>1, <4>2 DEF Extremes
      <3> QED
        BY <3>3, <3>4
    <2>8. b.valid * b.min <= b.sum /\ b.sum <= b.valid * b.max
      <3>1. b.min <= a.min /\ b.min <= t /\ a.max <= b.max /\ t <= b.max
        BY <1>1, <2>3, <2>4
      <3>2. /\ a.valid * b.min \in Int /\ a.valid * b.min <= a.valid * a.min
            /\ (a.valid + 1) * b.min = a.valid * b.min + b.min
        BY <2>4, <3>1, Times
      <3>5. /\ a.valid * a.max \in Int /\ a.valid * a.max <= a.valid * b.max
            /\ (a.valid + 1) * b.max = a.valid * b.max + b.max
        <4>1. /\ a.valid * a.max \in Int /\ a.valid * a.max <= a.valid * b.max
          BY <2>4, <3>1, Times
        <4>2. (a.valid + 1) * b.max = a.valid * b.max + b.max
          BY <2>4, Times
        <4> QED
          BY <4>1, <4>2
      <3>6. a.valid * b.max \in Int /\ a.valid * a.min \in Int
        BY <2>4
      <3>3. a.valid * a.min <= a.sum /\ a.sum <= a.valid * a.max
        BY <1>0
      <3>4. b.valid * b.min = (a.valid + 1) * b.min /\ b.valid * b.max = (a.valid + 1) * b.max
        BY <2>3
      <3> QED
        <4>1. (a.valid + 1) * b.min <= a.sum + t
          BY <1>1, <2>4, <3>1, <3>2, <3>3, <3>6
        <4>2. a.sum + t <= (a.valid + 1) * b.max
          BY <1>1, <2>4, <3>1, <3>3, <3>5, <3>6
        <4> QED
          BY <2>3, <3>4, <4>1, <4>2
    <2> QED
      BY <1>1, <1>2, <2>3, <2>5, <2>6, <2>7, <2>8 DEF Totals
  <1> QED
    BY <1>4, <1>5

LEMMA FoldTotals ==
  ASSUME NEW size \in Nat, NEW temps \in [0..size - 1 -> Temp], NEW bad,
         NEW f, IsFold(f, size, temps, bad)
  PROVE  Totals(f[size], size, temps, bad)
  <1> DEFINE S == {k \in Nat : k <= size => Totals(f[k], k, temps, bad)}
  <1>1. \A n \in 0..size : f[n] = Gathered(f, n, temps, bad)
    BY DEF IsFold
  <1>2. 0 \in S
    BY <1>1, TotalsEmpty DEF Gathered
  <1>3. ASSUME NEW k \in Nat, k \in S
        PROVE  k + 1 \in S
    <2>1. CASE k + 1 <= size
      <3>1. Totals(f[k], k, temps, bad) /\ temps[k] \in Temp
        BY <1>3, <2>1
      <3>2. f[k + 1] = Gather(f[k], k, temps[k], k \in bad)
        <4>1. k + 1 \in 0..size /\ k + 1 # 0 /\ (k + 1) - 1 = k
          BY <2>1
        <4> QED
          BY <1>1, <4>1 DEF Gathered
      <3> QED
        BY <3>1, <3>2, TotalsGrow
    <2> QED
      BY <2>1
  <1> HIDE DEF S
  <1>4. size \in S
    BY <1>2, <1>3, NatInduct
  <1> QED
    BY <1>4 DEF S

-----------------------------------------------------------------------------
(* After the loop.                                                         *)

(* The truncated mean of up to ten values lies between their bounds.       *)
LEMMA MeanBetween ==
  ASSUME NEW v \in 1..10, NEW low \in Int, NEW high \in Int, NEW sum \in Int,
         v * low <= sum, sum <= v * high
  PROVE  DivC(sum, v) \in Int /\ low <= DivC(sum, v) /\ DivC(sum, v) <= high
  <1>1. ASSUME NEW a \in Nat
        PROVE  /\ a \div v \in Nat
               /\ v * (a \div v) <= a /\ a < v * (a \div v) + v
    OBVIOUS
  <1> DEFINE q == sum \div v
             r == (-sum) \div v
  <1>2. CASE sum >= 0
    <2>1. q \in Nat /\ v * q <= sum /\ sum < v * q + v
      BY <1>1, <1>2
    <2> HIDE DEF q
    <2>2. low <= q /\ q <= high
      BY <2>1
    <2> QED
      BY <1>2, <2>1, <2>2 DEF DivC, q
  <1>3. CASE sum < 0
    <2>1. r \in Nat /\ v * r <= -sum /\ -sum < v * r + v
      BY <1>1, <1>3
    <2> HIDE DEF r
    <2>2. low <= -r /\ -r <= high /\ -r \in Int
      BY <2>1
    <2>3. DivC(sum, v) = -r
      BY <1>3 DEF DivC, r
    <2> QED
      BY <2>2, <2>3
  <1> QED
    BY <1>2, <1>3

Finished(acc) ==
  [temps  |-> acc.temps,
   faults |-> acc.faults,
   valid  |-> acc.valid,
   min    |-> IF acc.valid > 0 THEN acc.min ELSE 0,
   max    |-> IF acc.valid > 0 THEN acc.max ELSE 0,
   avg    |-> IF acc.valid > 0 THEN DivC(acc.sum, acc.valid) ELSE 0]

(* What a cache tells of its channels, "bad" among them.                   *)
Summarises(c, healthy, temps) ==
  /\ healthy = {} => c.min = 0 /\ c.max = 0 /\ c.avg = 0
  /\ healthy # {} => /\ \E i \in healthy : c.min = temps[i]
                     /\ \E i \in healthy : c.max = temps[i]
                     /\ \A i \in healthy : c.min <= temps[i] /\ temps[i] <= c.max
                     /\ c.min <= c.avg /\ c.avg <= c.max

Tells(c, size, temps, bad) ==
  /\ c.temps \in Seq(Temp)
  /\ Len(c.temps) = size
  /\ \A i \in 0..size - 1 : c.temps[i + 1] = temps[i]
  /\ c.faults = (0..size - 1) \cap bad
  /\ c.valid = Cardinality(Healthies(size, bad))
  /\ c.valid \in 0..size
  /\ c.valid = 0 <=> Healthies(size, bad) = {}
  /\ c.min \in Temp /\ c.max \in Temp /\ c.avg \in Temp
  /\ Summarises(c, Healthies(size, bad), temps)

LEMMA FinishedTells ==
  ASSUME NEW size \in 0..10, NEW temps, NEW bad,
         NEW a, Totals(a, size, temps, bad)
  PROVE  Tells(Finished(a), size, temps, bad)
  <1> DEFINE H == Healthies(size, bad)
             c == Finished(a)
  <1>1. /\ a \in Accumulator /\ Len(a.temps) = size
        /\ \A i \in 0..size - 1 : a.temps[i + 1] = temps[i]
        /\ a.faults = (0..size - 1) \cap bad
        /\ a.valid = Cardinality(H) /\ a.valid <= size
        /\ Extremes(a, H, temps)
        /\ a.valid * a.min <= a.sum /\ a.sum <= a.valid * a.max
    BY DEF Totals
  <1>2. /\ a.temps \in Seq(Temp) /\ a.valid \in Nat /\ a.sum \in Int
        /\ a.min \in Temp /\ a.max \in Temp
    BY <1>1 DEF Accumulator
  <1>3. a.valid = 0 <=> H = {}
    <2>1. IsFiniteSet(0..size - 1)
      BY FS_Interval
    <2>2. IsFiniteSet(H)
      BY <2>1, FS_Subset DEF Healthies
    <2> QED
      BY <1>1, <2>2, FS_EmptySet
  <1>4. /\ c.temps = a.temps /\ c.faults = a.faults /\ c.valid = a.valid
        /\ a.valid = 0 => c.min = 0 /\ c.max = 0 /\ c.avg = 0
        /\ a.valid # 0 => /\ c.min = a.min /\ c.max = a.max
                          /\ c.avg = DivC(a.sum, a.valid)
    BY <1>2 DEF Finished
  <1> HIDE DEF c, H
  <1>5. a.valid # 0 =>
          DivC(a.sum, a.valid) \in Int /\ a.min <= DivC(a.sum, a.valid)
          /\ DivC(a.sum, a.valid) <= a.max
    <2>1. a.min \in Int /\ a.max \in Int
      BY <1>2, Temps
    <2>2. a.valid # 0 => a.valid \in 1..10
      BY <1>1, <1>2
    <2>3. a.valid * a.min <= a.sum /\ a.sum <= a.valid * a.max
      BY <1>1
    <2> QED
      BY <1>2, <2>1, <2>2, <2>3, MeanBetween
  <1>6. c.min \in Temp /\ c.max \in Temp /\ c.avg \in Temp
    <2>1. CASE a.valid = 0
      BY <1>4, <2>1, Temps
    <2>2. CASE a.valid # 0
      BY <1>2, <1>4, <1>5, <2>2, Temps
    <2> QED
      BY <2>1, <2>2
  <1>7. Summarises(c, H, temps)
    BY <1>1, <1>3, <1>4, <1>5 DEF Summarises, Extremes
  <1>8. c.valid \in 0..size
    BY <1>1, <1>2, <1>4
  <1> QED
    BY <1>1, <1>2, <1>3, <1>4, <1>6, <1>7, <1>8 DEF Tells, c, H

-----------------------------------------------------------------------------
(* The conversion of a reading.                                            *)
Narrowing == [low : 0..TableSize - 2, high : 1..TableSize - 1]

LEMMA HalveNarrows ==
  ASSUME NEW b \in Narrowing, b.low < b.high, NEW reading
  PROVE  Halve(b, reading) \in Narrowing /\ Halve(b, reading).low < Halve(b, reading).high
  <1> DEFINE mid == (b.low + b.high) \div 2
  <1>1. CASE b.high - b.low <= 1
    BY <1>1 DEF Halve
  <1>2. CASE ~(b.high - b.low <= 1)
    <2>1. b.low \in 0..TableSize - 2 /\ b.high \in 1..TableSize - 1
      BY DEF Narrowing
    <2>2. b.low < mid /\ mid < b.high /\ mid \in 0..TableSize - 2 /\ mid \in 1..TableSize - 1
      <3>1. ASSUME NEW x \in Int, NEW y \in Int, 0 <= x, x < y, y <= 114, y - x > 1
            PROVE  /\ x < (x + y) \div 2 /\ (x + y) \div 2 < y
                   /\ (x + y) \div 2 \in 0..113 /\ (x + y) \div 2 \in 1..114
        BY <3>1
      <3>2. /\ b.low \in Int /\ b.high \in Int /\ 0 <= b.low /\ b.low < b.high
            /\ b.high <= 114 /\ b.high - b.low > 1 /\ TableSize - 2 = 113 /\ TableSize - 1 = 114
        <4>1. TableSize - 2 = 113 /\ TableSize - 1 = 114
          BY DEF TableSize
        <4>2. b.low \in 0..113 /\ b.high \in 1..114
          BY <2>1, <4>1
        <4>3. /\ b.low \in Int /\ b.high \in Int /\ 0 <= b.low /\ b.high <= 114
          BY <4>2
        <4>4. b.low < b.high /\ b.high - b.low > 1
          BY <1>2, <4>3
        <4> QED
          BY <4>1, <4>3, <4>4
      <3> QED
        BY <3>1, <3>2
    <2>3. Halve(b, reading) \in {[b EXCEPT !.high = mid], [b EXCEPT !.low = mid]}
      BY <1>2 DEF Halve
    <2> HIDE DEF mid
    <2> QED
      BY <2>1, <2>2, <2>3 DEF Narrowing
  <1> QED
    BY <1>1, <1>2

IsSearch(f, turns, reading) ==
  f = [n \in 0..turns |->
         IF n = 0 THEN [low |-> 0, high |-> TableSize - 1] ELSE Halve(f[n - 1], reading)]

LEMMA SearchExists ==
  ASSUME NEW turns \in Nat, NEW reading
  PROVE  \E f : IsSearch(f, turns, reading)
  <1> DEFINE S == {k \in Nat : \E f : IsSearch(f, k, reading)}
             whole == [low |-> 0, high |-> TableSize - 1]
  <1>1. 0 \in S
    <2> DEFINE f == [n \in 0..0 |-> whole]
    <2>1. \A n \in 0..0 :
            (IF n = 0 THEN whole ELSE Halve(f[n - 1], reading)) = whole
      OBVIOUS
    <2>2. IsSearch(f, 0, reading)
      BY <2>1 DEF IsSearch
    <2> QED
      BY <2>2
  <1>2. ASSUME NEW k \in Nat, k \in S
        PROVE  k + 1 \in S
    <2>1. PICK f : IsSearch(f, k, reading)
      BY <1>2
    <2> DEFINE g == [n \in 0..k + 1 |-> IF n <= k THEN f[n] ELSE Halve(f[k], reading)]
    <2>2. \A n \in 0..k : g[n] = f[n]
      OBVIOUS
    <2>3. g[k + 1] = Halve(f[k], reading) /\ (k + 1) - 1 = k /\ k + 1 # 0
      OBVIOUS
    <2>4. \A n \in 0..k :
            f[n] = IF n = 0 THEN whole ELSE Halve(f[n - 1], reading)
      BY <2>1 DEF IsSearch
    <2>5. g = [n \in 0..k + 1 |-> g[n]]
      OBVIOUS
    <2> HIDE DEF g
    <2>6. \A n \in 0..k + 1 :
            g[n] = IF n = 0 THEN whole ELSE Halve(g[n - 1], reading)
      <3>1. TAKE n \in 0..k + 1
      <3>2. CASE n = k + 1
        BY <2>2, <2>3, <3>2
      <3>3. CASE n # k + 1
        <4>1. n \in 0..k /\ (n # 0 => n - 1 \in 0..k)
          BY <3>3
        <4> QED
          BY <2>2, <2>4, <4>1
      <3> QED
        BY <3>2, <3>3
    <2>7. IsSearch(g, k + 1, reading)
      BY <2>5, <2>6 DEF IsSearch
    <2> QED
      BY <2>7
  <1> HIDE DEF S
  <1>3. turns \in S
    BY <1>1, <1>2, NatInduct
  <1> QED
    BY <1>3 DEF S

LEMMA SearchIs == ASSUME NEW reading PROVE IsSearch(Search(reading), MaxTurns, reading)
  <1>1. \E f : IsSearch(f, MaxTurns, reading)
    BY SearchExists DEF MaxTurns
  <1>2. Search(reading) =
          CHOOSE f : f = [n \in 0..MaxTurns |->
                            IF n = 0 THEN [low |-> 0, high |-> TableSize - 1]
                            ELSE Halve(f[n - 1], reading)]
    BY DEF Search
  <1> QED
    BY <1>1, <1>2 DEF IsSearch

LEMMA SearchNarrows ==
  ASSUME NEW reading, NEW n \in 0..MaxTurns
  PROVE  Search(reading)[n] \in Narrowing /\ Search(reading)[n].low < Search(reading)[n].high
  <1> DEFINE b == Search(reading)
             S == {k \in Nat : k <= MaxTurns => b[k] \in Narrowing /\ b[k].low < b[k].high}
  <1>1. \A k \in 0..MaxTurns :
          b[k] = IF k = 0 THEN [low |-> 0, high |-> TableSize - 1]
                 ELSE Halve(b[k - 1], reading)
    BY SearchIs DEF IsSearch
  <1> HIDE DEF b
  <1>2. 0 \in S
    BY <1>1 DEF Narrowing, TableSize, MaxTurns
  <1>3. ASSUME NEW k \in Nat, k \in S
        PROVE  k + 1 \in S
    <2>1. CASE k + 1 <= MaxTurns
      <3>1. k + 1 \in 0..MaxTurns /\ (k + 1) - 1 = k /\ k + 1 # 0
        BY <2>1 DEF MaxTurns
      <3>2. b[k + 1] = Halve(b[k], reading)
        BY <1>1, <3>1
      <3>3. b[k] \in Narrowing /\ b[k].low < b[k].high
        BY <1>3, <2>1 DEF MaxTurns
      <3> QED
        BY <3>2, <3>3, HalveNarrows
    <2> QED
      BY <2>1
  <1> HIDE DEF S
  <1>4. Nat \subseteq S
    BY <1>2, <1>3, NatInduct
  <1>5. n \in S /\ n <= MaxTurns
    BY <1>4 DEF MaxTurns
  <1> QED
    BY <1>5 DEF S, b

(* A conversion never leaves the table.                                    *)
LEMMA Converts == ASSUME NEW reading PROVE ADCToTemp(reading) \in Temp
  <1>1. Bracket(reading) \in 0..113
    BY SearchNarrows DEF Bracket, Narrowing, MaxTurns, TableSize
  <1>2. ASSUME NEW low \in 0..113
        PROVE  DivC(EntryTemp(low + 1) + EntryTemp(low), 2) \in Temp
    BY Temps DEF EntryTemp, HottestTemp, DivC
  <1>3. EntryTemp(0) \in Temp /\ EntryTemp(TableSize - 1) \in Temp
    BY Temps DEF EntryTemp, HottestTemp, TableSize
  <1> QED
    BY <1>1, <1>2, <1>3 DEF ADCToTemp

-----------------------------------------------------------------------------
(* The two caches.                                                         *)

SettingsOK ==
  /\ debugMode \in BOOLEAN
  /\ forced \in SUBSET Channel
  /\ override \in [Channel -> Overrides \union {NoOverride}]

Measured(readings) == [i \in Channel |-> Temperature(i, readings[i])]
Broken(readings)   == {i \in Channel : Faulty(i, readings[i])}

LEMMA Overriding ==
  ASSUME SettingsOK, NEW i \in Channel, Overridden(i)
  PROVE  override[i] \in Temp
  BY ReportAssumption DEF SettingsOK, Overridden, Temp

LEMMA Measures ==
  ASSUME SettingsOK, NEW readings
  PROVE  Measured(readings) \in [Channel -> Temp]
  <1>1. \A i \in Channel : Temperature(i, readings[i]) \in Temp
    BY Overriding, Converts DEF Temperature
  <1> QED
    BY <1>1 DEF Measured

(* ConvertAllThermistors tells of every channel.                           *)
LEMMA ConvertTells ==
  ASSUME SettingsOK, NEW readings
  PROVE  Tells(ConvertAllThermistors(readings), Channels, Measured(readings), Broken(readings))
  <1> DEFINE temps == Measured(readings)
             bad == Broken(readings)
  <1>1. Channels \in 0..10 /\ Channels \in Nat
    BY ReportAssumption
  <1>2. PICK f : IsFold(f, Channels, temps, bad)
    BY <1>1, FoldExists
  <1>3. ASSUME NEW g, NEW n \in 0..Channels
        PROVE  Gathered(g, n, temps, bad) =
                 IF n = 0 THEN EmptyCache
                 ELSE Accumulate(g[n - 1], n - 1, readings[n - 1])
    <2>1. CASE n # 0
      <3>1. n - 1 \in Channel
        BY <1>1, <2>1 DEF Channel
      <3>2. temps[n - 1] = Temperature(n - 1, readings[n - 1])
        BY <3>1 DEF Measured
      <3>3. (n - 1 \in bad) <=> Faulty(n - 1, readings[n - 1])
        BY <3>1 DEF Broken
      <3> HIDE DEF temps, bad
      <3> QED
        BY <2>1, <3>2, <3>3 DEF Gathered, Gather, Accumulate
    <2> QED
      BY <2>1 DEF Gathered
  <1> HIDE DEF temps, bad
  <1>4. \A g : IsFold(g, Channels, temps, bad) <=>
                 g = [n \in 0..Channels |->
                        IF n = 0 THEN EmptyCache
                        ELSE Accumulate(g[n - 1], n - 1, readings[n - 1])]
    BY <1>3 DEF IsFold
  <1>5. Accumulation(readings) =
          CHOOSE g : g = [n \in 0..Channels |->
                            IF n = 0 THEN EmptyCache
                            ELSE Accumulate(g[n - 1], n - 1, readings[n - 1])]
    BY DEF Accumulation
  <1>6. IsFold(Accumulation(readings), Channels, temps, bad)
    BY <1>2, <1>4, <1>5
  <1>7. temps \in [0..Channels - 1 -> Temp]
    BY Measures DEF temps, Channel
  <1>8. Totals(Accumulation(readings)[Channels], Channels, temps, bad)
    BY <1>1, <1>6, <1>7, FoldTotals
  <1>9. ConvertAllThermistors(readings) = Finished(Accumulation(readings)[Channels])
    BY DEF ConvertAllThermistors, Finished
  <1> QED
    BY <1>1, <1>8, <1>9, FinishedTells DEF temps, bad

(* A module of the emulation: its own numbering over a part of the         *)
(* channels.                                                               *)
LocalTemps(start, count) == [n \in 0..count - 1 |-> ModuleTemperature(start + n)]
LocalBad(start, count)   == {n \in 0..count - 1 : ModuleFaulty(n, start + n)}

LEMMA BuildTells ==
  ASSUME SettingsOK, NEW start \in Nat, NEW count \in Nat, start + count <= Channels
  PROVE  Tells(BuildModuleCache(start, count), count,
               LocalTemps(start, count), LocalBad(start, count))
  <1> DEFINE temps == LocalTemps(start, count)
             bad == LocalBad(start, count)
  <1>1. count \in 0..10 /\ Channels \in Nat
    BY ReportAssumption
  <1>2. PICK f : IsFold(f, count, temps, bad)
    BY FoldExists
  <1>3. ASSUME NEW g, NEW n \in 0..count
        PROVE  Gathered(g, n, temps, bad) =
                 IF n = 0 THEN EmptyCache
                 ELSE AccumulateLocal(g[n - 1], n - 1, start + (n - 1))
    <2>1. CASE n # 0
      <3>1. n - 1 \in 0..count - 1
        BY <2>1
      <3>2. temps[n - 1] = ModuleTemperature(start + (n - 1))
        BY <3>1 DEF LocalTemps
      <3>3. (n - 1 \in bad) <=> ModuleFaulty(n - 1, start + (n - 1))
        BY <3>1 DEF LocalBad
      <3> HIDE DEF temps, bad
      <3> QED
        BY <2>1, <3>2, <3>3 DEF Gathered, Gather, AccumulateLocal
    <2> QED
      BY <2>1 DEF Gathered
  <1>4. temps \in [0..count - 1 -> Temp]
    <2>1. \A n \in 0..count - 1 : start + n \in Channel
      BY <1>1 DEF Channel
    <2>2. \A n \in 0..count - 1 : ModuleTemperature(start + n) \in Temp
      BY <2>1, Overriding, Converts DEF ModuleTemperature
    <2> QED
      BY <2>2 DEF LocalTemps
  <1> HIDE DEF temps, bad
  <1>5. \A g : IsFold(g, count, temps, bad) <=>
                 g = [n \in 0..count |->
                        IF n = 0 THEN EmptyCache
                        ELSE AccumulateLocal(g[n - 1], n - 1, start + (n - 1))]
    BY <1>3 DEF IsFold
  <1>6. LocalAccumulation(start, count) =
          CHOOSE g : g = [n \in 0..count |->
                            IF n = 0 THEN EmptyCache
                            ELSE AccumulateLocal(g[n - 1], n - 1, start + (n - 1))]
    BY DEF LocalAccumulation
  <1>7. IsFold(LocalAccumulation(start, count), count, temps, bad)
    BY <1>2, <1>5, <1>6
  <1>8. Totals(LocalAccumulation(start, count)[count], count, temps, bad)
    BY <1>4, <1>7, FoldTotals
  <1>9. BuildModuleCache(start, count) = Finished(LocalAccumulation(start, count)[count])
    BY DEF BuildModuleCache, Finished
  <1> QED
    BY <1>1, <1>8, <1>9, FinishedTells DEF temps, bad

-----------------------------------------------------------------------------
(* The channels and the modules.                                           *)

Size(m) == ModuleSampleCount(Start(m))

LEMMA Sizes ==
  /\ Channels \in 1..10 /\ Channels \in Nat
  /\ Modules \in 1..10 /\ Modules \in Nat
  /\ ModuleChannels \in Nat \ {0}
  <1>1. Modules \in Nat \ {0} /\ ModuleChannels \in Nat \ {0} /\ Channels \in 1..10
    BY ReportAssumption, DualAssumption
  <1>2. Modules - 1 <= (Modules - 1) * ModuleChannels
    <2>1. ASSUME NEW a \in Nat, NEW b \in Nat \ {0} PROVE a <= a * b
      OBVIOUS
    <2> QED
      BY <1>1, <2>1
  <1>3. (Modules - 1) * ModuleChannels \in Nat
    BY <1>1
  <1>4. Modules - 1 < Channels
    BY <1>1, <1>2, <1>3, DualAssumption
  <1> QED
    BY <1>1, <1>4

LEMMA Starts ==
  /\ \A m \in Nat : Start(m) \in Nat /\ Start(m + 1) = Start(m) + ModuleChannels
  /\ \A m, k \in Nat : m < k => Start(m) + ModuleChannels <= Start(k)
  /\ \A m \in Module : Start(m) < Channels
  /\ Channels <= Start(Modules) /\ Start(0) = 0
  <1>1. ModuleChannels \in Nat
    BY Sizes
  <1>2. ASSUME NEW m \in Nat, NEW c \in Nat
        PROVE  /\ m * c \in Nat /\ (m + 1) * c = m * c + c
               /\ \A k \in Nat : m < k => m * c + c <= k * c
               /\ \A k \in Nat : m <= k => m * c <= k * c
    <2>1. ASSUME NEW k \in Nat, m < k PROVE m * c + c <= k * c
      <3>1. PICK d \in Nat : k = m + 1 + d
        BY <2>1, k - m - 1 \in Nat
      <3>2. k * c = m * c + c + d * c /\ d * c \in Nat
        BY <3>1
      <3> QED
        BY <3>2
    <2>2. ASSUME NEW k \in Nat, m <= k PROVE m * c <= k * c
      BY <2>1, <2>2
    <2> QED
      BY <2>1, <2>2
  <1>3. ASSUME NEW m \in Module PROVE Start(m) < Channels
    <2>1. m \in Nat /\ Modules - 1 \in Nat /\ m <= Modules - 1
      BY Sizes DEF Module
    <2>2. m * ModuleChannels \in Nat /\ m * ModuleChannels <= (Modules - 1) * ModuleChannels
      BY <1>1, <1>2, <2>1
    <2>3. (Modules - 1) * ModuleChannels \in Nat
      BY <1>1, <1>2, <2>1
    <2> QED
      BY <2>2, <2>3, Sizes, DualAssumption DEF Start
  <1>4. Channels <= Start(Modules) /\ Start(0) = 0
    BY <1>1, DualAssumption DEF Start
  <1> QED
    BY <1>1, <1>2, <1>3, <1>4 DEF Start

LEMMA ModuleFits ==
  ASSUME NEW m \in Module
  PROVE  /\ m \in 0..9 /\ m \in Nat
         /\ Start(m) \in Nat /\ Size(m) \in 1..10 /\ Size(m) \in Nat
         /\ Size(m) <= ModuleChannels /\ Start(m) + Size(m) <= Channels
         /\ Size(m) = ModuleChannels \/ Start(m) + Size(m) = Channels
         /\ \A n \in 0..Size(m) - 1 : Start(m) + n \in Channel
  <1>0. m \in 0..9 /\ m \in Nat
    BY Sizes DEF Module
  <1>1. m \in 0..9 /\ m \in Nat /\ Start(m) \in Nat /\ Start(m) < Channels
    BY <1>0, Starts
  <1>2. /\ Size(m) \in Nat \ {0} /\ Size(m) <= ModuleChannels
        /\ Start(m) + Size(m) <= Channels
        /\ Size(m) = ModuleChannels \/ Start(m) + Size(m) = Channels
    BY <1>1, Sizes DEF Size, ModuleSampleCount
  <1>3. Size(m) \in 1..10
    BY <1>1, <1>2, Sizes
  <1>4. \A n \in 0..Size(m) - 1 : Start(m) + n \in Channel
    BY <1>1, <1>2, Sizes DEF Channel
  <1> QED
    BY <1>1, <1>2, <1>3, <1>4

(* Every channel is one module's.                                          *)
LEMMA OwnModule ==
  ASSUME NEW i \in Channel
  PROVE  \E m \in Module : \E n \in 0..Size(m) - 1 : i = Start(m) + n
  <1> DEFINE m == i \div ModuleChannels
             n == i % ModuleChannels
  <1>1. i \in Nat /\ i < Channels
    BY Sizes DEF Channel
  <1>2. m \in Nat /\ n \in 0..ModuleChannels - 1 /\ i = m * ModuleChannels + n
    <2>1. ASSUME NEW a \in Nat, NEW b \in Nat \ {0}
          PROVE  a \div b \in Nat /\ a % b \in 0..b - 1 /\ a = (a \div b) * b + (a % b)
      OBVIOUS
    <2> QED
      BY <1>1, <2>1, Sizes
  <1> HIDE DEF m, n
  <1>3. i = Start(m) + n
    BY <1>2 DEF Start
  <1>4. m \in Module
    <2>1. m < Modules
      <3>1. SUFFICES ASSUME Modules <= m PROVE FALSE
        BY <1>2, Sizes
      <3>2. Start(Modules) <= Start(m)
        <4>1. CASE Modules = m
          BY <4>1, Starts, <1>2
        <4>2. CASE Modules < m
          <5>1. Start(Modules) + ModuleChannels <= Start(m)
            BY <1>2, <4>2, Sizes, Starts
          <5>2. Start(Modules) \in Nat /\ Start(m) \in Nat
            BY <1>2, Sizes, Starts
          <5> QED
            BY <5>1, <5>2, Sizes
        <4> QED
          BY <1>2, <3>1, <4>1, <4>2, Sizes
      <3>3. Start(Modules) \in Nat /\ Start(m) \in Nat
        BY <1>2, Sizes, Starts
      <3> QED
        BY <1>1, <1>2, <1>3, <3>2, <3>3, Sizes, Starts
    <2> QED
      BY <1>2, <2>1, Sizes DEF Module
  <1>5. n \in 0..Size(m) - 1
    BY <1>1, <1>2, <1>3, <1>4, ModuleFits, Sizes
  <1> QED
    BY <1>3, <1>4, <1>5

LEMMA OtherModule ==
  ASSUME NEW m \in Module, NEW k \in Module, m # k,
         NEW n \in 0..Size(m) - 1, NEW l \in 0..Size(k) - 1
  PROVE  Start(m) + n # Start(k) + l
  <1>1. ASSUME NEW a \in Module, NEW b \in Module, a < b,
               NEW x \in 0..Size(a) - 1, NEW y \in 0..Size(b) - 1
        PROVE  Start(a) + x < Start(b) + y
    <2>1. Start(a) + ModuleChannels <= Start(b)
      BY <1>1, ModuleFits, Starts
    <2> QED
      BY <2>1, ModuleFits, Sizes
  <1>2. m < k \/ k < m
    BY ModuleFits
  <1>3. Start(m) + n \in Nat /\ Start(k) + l \in Nat
    BY ModuleFits
  <1> QED
    BY <1>1, <1>2, <1>3

-----------------------------------------------------------------------------
(* The frames.                                                             *)

LEMMA Packed ==
  ASSUME NEW t \in Temp
  PROVE  PackTemp(t) \in 0..255 /\ Signed(PackTemp(t)) = t
  BY Temps DEF PackTemp, Signed

LEMMA Flagged ==
  ASSUME NEW v \in 0..10, NEW set \in BOOLEAN
  PROVE  /\ v % 128 = v
         /\ v + FlagBit(set) \in 0..255
         /\ Count(v + FlagBit(set)) = v
         /\ Flag(v + FlagBit(set)) <=> set
  BY DEF FlagBit, Count, Flag

LEMMA BmsBytes ==
  ASSUME NEW c, NEW m
  PROVE  LET f == EncodeBms(c, m) IN
         /\ f[1] = m /\ f[2] = PackTemp(c.min) /\ f[3] = PackTemp(c.max)
         /\ f[4] = PackTemp(c.avg)
         /\ f[5] = (c.valid % 128) + FlagBit(ModuleFaultActive(c))
         /\ f[6] = LastId(c) /\ f[7] = 0
         /\ f[8] = Checksum(<<m, PackTemp(c.min), PackTemp(c.max), PackTemp(c.avg),
                      (c.valid % 128) + FlagBit(ModuleFaultActive(c)), LastId(c), 0>>)
  BY DEF EncodeBms

(* What a summary tells of its cache.                                      *)
LEMMA BmsSays ==
  ASSUME NEW size \in 1..10, NEW temps, NEW bad,
         NEW c, Tells(c, size, temps, bad), NEW m \in 0..9
  PROVE  LET f == EncodeBms(c, m) IN
         /\ \A b \in 1..8 : f[b] \in 0..255
         /\ f[2] = PackTemp(c.min) /\ f[3] = PackTemp(c.max)
         /\ Signed(f[2]) = c.min /\ Signed(f[3]) = c.max /\ Signed(f[4]) = c.avg
         /\ Count(f[5]) = c.valid
         /\ Flag(f[5]) <=> ModuleFaultActive(c)
  <1> DEFINE f == EncodeBms(c, m)
             x == ModuleFaultActive(c)
             sum == Checksum(<<m, PackTemp(c.min), PackTemp(c.max), PackTemp(c.avg),
                      (c.valid % 128) + FlagBit(x), LastId(c), 0>>)
  <1>1. /\ c.min \in Temp /\ c.max \in Temp /\ c.avg \in Temp
        /\ c.valid \in 0..10 /\ Len(c.temps) = size /\ c.temps # <<>>
    BY DEF Tells
  <1>2. LastId(c) \in 0..9
    BY <1>1 DEF LastId
  <1>3. /\ PackTemp(c.min) \in 0..255 /\ Signed(PackTemp(c.min)) = c.min
        /\ PackTemp(c.max) \in 0..255 /\ Signed(PackTemp(c.max)) = c.max
        /\ PackTemp(c.avg) \in 0..255 /\ Signed(PackTemp(c.avg)) = c.avg
    BY <1>1, Packed
  <1>4. x \in BOOLEAN
    BY DEF ModuleFaultActive
  <1> HIDE DEF x
  <1>5. /\ (c.valid % 128) + FlagBit(x) \in 0..255
        /\ Count((c.valid % 128) + FlagBit(x)) = c.valid
        /\ Flag((c.valid % 128) + FlagBit(x)) <=> x
    BY <1>1, <1>4, Flagged
  <1>6. sum \in 0..255
    <2>1. \A a1, a2, a3, a4, a5, a6 \in Int :
            Checksum(<<a1, a2, a3, a4, a5, a6, 0>>) \in 0..255
      BY DEF Checksum
    <2>2. /\ m \in Int /\ PackTemp(c.min) \in Int /\ PackTemp(c.max) \in Int
          /\ PackTemp(c.avg) \in Int /\ (c.valid % 128) + FlagBit(x) \in Int
          /\ LastId(c) \in Int
      BY <1>2, <1>3, <1>5
    <2> QED
      BY <2>1, <2>2
  <1> HIDE DEF sum, f
  <1>7. /\ f[1] = m /\ f[2] = PackTemp(c.min) /\ f[3] = PackTemp(c.max)
        /\ f[4] = PackTemp(c.avg) /\ f[5] = (c.valid % 128) + FlagBit(x)
        /\ f[6] = LastId(c) /\ f[7] = 0 /\ f[8] = sum
    BY BmsBytes DEF f, x, sum
  <1>8. \A b \in 1..8 : f[b] \in 0..255
    BY <1>2, <1>3, <1>5, <1>6, <1>7
  <1> QED
    BY <1>3, <1>5, <1>7, <1>8 DEF f, x

(* What a general broadcast tells of one thermistor the cache holds.       *)
Shows(f, c, m, index, temps, bad) ==
  /\ \A b \in 1..8 : f[b] \in 0..255
  /\ GlobalId(f) = m * GlobalStride + index
  /\ Signed(f[3]) = temps[index]
  /\ Flag(f[4]) <=> index \in bad
  /\ f[5] = PackTemp(c.min) /\ f[6] = PackTemp(c.max)

LEMMA GeneralSays ==
  ASSUME NEW size \in 1..10, NEW temps, NEW bad,
         NEW c, Tells(c, size, temps, bad), NEW m \in 0..9, NEW index \in 0..size - 1,
         NEW f, f = EncodeGeneral(c, m, index)
  PROVE  Shows(f, c, m, index, temps, bad)
  <1> DEFINE x == index \in c.faults
             id == m * GlobalStride + index
  <1>1. /\ c.min \in Temp /\ c.max \in Temp /\ Len(c.temps) = size /\ c.temps # <<>>
        /\ c.temps \in Seq(Temp) /\ c.temps[index + 1] = temps[index]
        /\ x <=> index \in bad
    BY DEF Tells
  <1>2. LastId(c) \in 0..9
    BY <1>1 DEF LastId
  <1>3. temps[index] \in Temp
    BY <1>1, ElementOfSeq
  <1>4. /\ PackTemp(c.min) \in 0..255 /\ PackTemp(c.max) \in 0..255
        /\ PackTemp(temps[index]) \in 0..255 /\ Signed(PackTemp(temps[index])) = temps[index]
    BY <1>1, <1>3, Packed
  <1>5. id \in 0..729 /\ id \div 256 \in 0..255 /\ id % 256 \in 0..255
        /\ id = (id % 256) + 256 * (id \div 256)
    BY DEF GlobalStride
  <1>6. x \in BOOLEAN
    OBVIOUS
  <1>7. index < Len(c.temps)
    BY <1>1
  <1> HIDE DEF x, id
  <1>8. index + FlagBit(x) \in 0..255 /\ (Flag(index + FlagBit(x)) <=> x)
    BY <1>6, Flagged
  <1>9. f = << id % 256, id \div 256, PackTemp(temps[index]), index + FlagBit(x),
               PackTemp(c.min), PackTemp(c.max), LastId(c), 0 >>
    BY <1>1, <1>7 DEF EncodeGeneral, x, id
  <1>10. /\ f[1] = id % 256 /\ f[2] = id \div 256 /\ f[3] = PackTemp(temps[index])
         /\ f[4] = index + FlagBit(x) /\ f[5] = PackTemp(c.min)
         /\ f[6] = PackTemp(c.max) /\ f[7] = LastId(c) /\ f[8] = 0
    BY <1>9
  <1>11. \A b \in 1..8 : f[b] \in 0..255
    BY <1>2, <1>4, <1>5, <1>8, <1>10
  <1>12. GlobalId(f) = id
    BY <1>5, <1>10 DEF GlobalId
  <1> QED
    BY <1>1, <1>4, <1>8, <1>10, <1>11, <1>12 DEF Shows, x, id

-----------------------------------------------------------------------------
(* The inductive invariant: the caches tell of the readings, the round-    *)
(* robin indices are in range, and no thermistor's age exceeds the slots   *)
(* since its module last showed it.                                        *)

CacheTells == Tells(cache, Channels, Measured(adc), Broken(adc))

TurnsSince(m, n) ==
  IF emuIndex[m] > n THEN emuIndex[m] - n - 1 ELSE Size(m) - 1 + emuIndex[m] - n

SlotsSince(m) ==
  IF moduleSlot > m THEN moduleSlot - m - 1 ELSE Modules - 1 + moduleSlot - m

Indices ==
  /\ thermIndex \in Channel
  /\ claimSlot \in Module /\ moduleSlot \in Module
  /\ emuIndex \in [Module -> Nat]
  /\ \A m \in Module : emuIndex[m] < Size(m)

Punctual ==
  /\ age \in [Channel -> Nat]
  /\ \A m \in Module : \A n \in 0..Size(m) - 1 :
       age[Start(m) + n] <= TurnsSince(m, n) * Modules + SlotsSince(m)

ReportInv ==
  /\ SettingsOK
  /\ voltFailed \in BOOLEAN /\ dualModule \in BOOLEAN
  /\ adc \in [Channel -> Reading]
  /\ CacheTells
  /\ Indices

LEMMA ReadingsOK ==
  ASSUME NEW readings \in [Channel -> Samples \union {0}]
  PROVE  readings \in [Channel -> Reading]
  <1>1. Samples \union {0} \subseteq Reading
    BY ReportAssumption DEF Reading
  <1> QED
    BY <1>1

LEMMA InitInv == DualInit => ReportInv /\ Punctual
  <1> SUFFICES ASSUME DualInit PROVE ReportInv /\ Punctual
    OBVIOUS
  <1>1. SettingsOK
    BY DEF DualInit, Init, SettingsOK
  <1>2. CacheTells
    BY <1>1, ConvertTells DEF DualInit, Init, CacheTells
  <1>3. adc \in [Channel -> Reading]
    BY ReadingsOK DEF DualInit, Init
  <1>4. 0 \in Channel /\ 0 \in Module
    BY Sizes DEF Channel, Module
  <1>5. \A m \in Module : 0 < Size(m)
    BY ModuleFits
  <1>6. Indices
    BY <1>4, <1>5 DEF DualInit, Init, Indices
  <1>7. Punctual
    <2>1. ASSUME NEW m \in Module, NEW n \in 0..Size(m) - 1
          PROVE  age[Start(m) + n] <= TurnsSince(m, n) * Modules + SlotsSince(m)
      <3>1. age[Start(m) + n] = 0
        BY ModuleFits DEF DualInit
      <3>2. TurnsSince(m, n) \in Nat /\ SlotsSince(m) \in Nat
        <4>1. emuIndex[m] = 0 /\ moduleSlot = 0 /\ Size(m) \in Nat /\ n \in 0..Size(m) - 1
          BY ModuleFits DEF DualInit
        <4>2. m \in Nat /\ m <= Modules - 1 /\ Modules \in Nat
          BY Sizes DEF Module
        <4> QED
          BY <4>1, <4>2 DEF TurnsSince, SlotsSince
      <3>3. TurnsSince(m, n) * Modules \in Nat
        BY <3>2, Sizes
      <3> QED
        BY <3>1, <3>2, <3>3
    <2> QED
      BY <2>1 DEF DualInit, Punctual
  <1> QED
    BY <1>1, <1>2, <1>3, <1>6, <1>7 DEF ReportInv, DualInit, Init

LEMMA ModuleTells ==
  ASSUME ReportInv, NEW m \in Module
  PROVE  Tells(ModuleCache(m), Size(m), LocalTemps(Start(m), Size(m)),
               LocalBad(Start(m), Size(m)))
  BY BuildTells, ModuleFits DEF ReportInv, ModuleCache, Size

(* What a module's slot says, and of which thermistor.                     *)
LEMMA SlotSays ==
  ASSUME ReportInv, NEW m \in Module
  PROVE  /\ emuIndex[m] \in 0..Size(m) - 1
         /\ ChannelOf(ModuleGeneral(m)) = Start(m) + emuIndex[m]
         /\ Len(ModuleCache(m).temps) = Size(m)
         /\ Signed(ModuleGeneral(m)[3]) = ModuleTemperature(Start(m) + emuIndex[m])
         /\ Flag(ModuleGeneral(m)[4]) <=> ModuleFaulty(emuIndex[m], Start(m) + emuIndex[m])
         /\ \A b \in 1..8 : ModuleGeneral(m)[b] \in 0..255
  <1> DEFINE n == emuIndex[m]
             f == ModuleGeneral(m)
             temps == LocalTemps(Start(m), Size(m))
             bad == LocalBad(Start(m), Size(m))
  <1>1. n \in 0..Size(m) - 1 /\ n \in 0..9 /\ m \in 0..9 /\ Size(m) \in 1..10
    BY ModuleFits DEF ReportInv, Indices
  <1>2. temps[n] = ModuleTemperature(Start(m) + n)
    BY <1>1 DEF LocalTemps
  <1>3. n \in bad <=> ModuleFaulty(n, Start(m) + n)
    BY <1>1 DEF LocalBad
  <1>4. Tells(ModuleCache(m), Size(m), temps, bad)
    BY ModuleTells
  <1>5. f = EncodeGeneral(ModuleCache(m), m, n)
    BY DEF ModuleGeneral
  <1> HIDE DEF f, temps, bad, n
  <1>6. /\ \A b \in 1..8 : f[b] \in 0..255
        /\ GlobalId(f) = m * GlobalStride + n
        /\ Signed(f[3]) = temps[n]
        /\ Flag(f[4]) <=> n \in bad
    <2>1. Shows(f, ModuleCache(m), m, n, temps, bad)
      BY <1>1, <1>4, <1>5, GeneralSays
    <2> QED
      BY <2>1 DEF Shows
  <1>7. (m * GlobalStride + n) \div GlobalStride = m /\ (m * GlobalStride + n) % GlobalStride = n
    BY <1>1 DEF GlobalStride
  <1>8. ChannelOf(f) = Start(m) + n
    BY <1>6, <1>7 DEF ChannelOf
  <1>9. Len(ModuleCache(m).temps) = Size(m)
    BY <1>4 DEF Tells
  <1> QED
    BY <1>1, <1>2, <1>3, <1>6, <1>8, <1>9 DEF n, f

(* A turn of a module advances its index only.                             *)
LEMMA SlotAdvances ==
  ASSUME ReportInv, SendModuleSlot
  PROVE  /\ \A m \in Module \ {moduleSlot} : emuIndex'[m] = emuIndex[m]
         /\ emuIndex' \in [Module -> Nat]
         /\ emuIndex'[moduleSlot] = (emuIndex[moduleSlot] + 1) % Size(moduleSlot)
         /\ emuIndex'[moduleSlot] =
              IF emuIndex[moduleSlot] + 1 = Size(moduleSlot) THEN 0
              ELSE emuIndex[moduleSlot] + 1
         /\ moduleSlot' = IF moduleSlot + 1 = Modules THEN 0 ELSE moduleSlot + 1
  <1>1. moduleSlot \in Module /\ emuIndex \in [Module -> Nat]
    BY DEF ReportInv, Indices
  <1>2. Len(ModuleCache(moduleSlot).temps) = Size(moduleSlot) /\ Size(moduleSlot) \in 1..10
        /\ emuIndex[moduleSlot] \in 0..Size(moduleSlot) - 1
    BY <1>1, SlotSays, ModuleFits
  <1>3. ASSUME NEW x \in Nat, NEW c \in Nat \ {0}, x < c
        PROVE  (x + 1) % c = IF x + 1 = c THEN 0 ELSE x + 1
    <2>1. CASE x + 1 = c
      BY <2>1
    <2>2. CASE x + 1 # c
      BY <1>3, <2>2
    <2> QED
      BY <2>1, <2>2
  <1>4. emuIndex' = [emuIndex EXCEPT ![moduleSlot] = (emuIndex[moduleSlot] + 1) % Size(moduleSlot)]
    <2>1. AdvanceIndex(moduleSlot, Size(moduleSlot)) /\ Size(moduleSlot) > 0
      BY <1>2 DEF SendModuleSlot
    <2> QED
      BY <2>1 DEF AdvanceIndex
  <1>5. (emuIndex[moduleSlot] + 1) % Size(moduleSlot) =
          IF emuIndex[moduleSlot] + 1 = Size(moduleSlot) THEN 0
          ELSE emuIndex[moduleSlot] + 1
    BY <1>2, <1>3
  <1>6. (moduleSlot + 1) % Modules = IF moduleSlot + 1 = Modules THEN 0 ELSE moduleSlot + 1
    <2>1. moduleSlot \in Nat /\ moduleSlot < Modules /\ Modules \in Nat \ {0}
      BY <1>1, Sizes DEF Module
    <2> QED
      BY <1>3, <2>1
  <1>7. moduleSlot' = (moduleSlot + 1) % Modules
    BY DEF SendModuleSlot
  <1>8. (emuIndex[moduleSlot] + 1) % Size(moduleSlot) \in Nat
    BY <1>2, <1>5
  <1> QED
    BY <1>1, <1>4, <1>5, <1>6, <1>7, <1>8

LEMMA NextInv == ReportInv /\ [DualNext]_dualVars => ReportInv'
  <1> SUFFICES ASSUME ReportInv, [DualNext]_dualVars PROVE ReportInv'
    OBVIOUS
  <1> USE DEF ReportInv
  <1>1. CASE Sample
    <2>1. PICK readings \in [Channel -> Samples \union {0}] :
            adc' = readings /\ cache' = ConvertAllThermistors(readings)
      BY <1>1 DEF Sample, SampleAll
    <2>2. UNCHANGED <<debugMode, forced, override, thermIndex, voltFailed, dualModule,
                      claimSlot, moduleSlot, emuIndex>>
      BY <1>1 DEF Sample, SampleAll, settings
    <2>3. Tells(cache', Channels, Measured(readings), Broken(readings))
      BY <2>1, ConvertTells
    <2>4. Measured(adc)' = Measured(readings) /\ Broken(adc)' = Broken(readings)
      BY <2>1, <2>2 DEF Measured, Broken, Temperature, Faulty, Overridden
    <2>5. CacheTells'
      BY <2>3, <2>4 DEF CacheTells, Tells, Summarises
    <2>6. adc' \in [Channel -> Reading]
      BY <2>1, ReadingsOK
    <2>7. SettingsOK' /\ Indices'
      BY <2>2 DEF SettingsOK, Indices
    <2> QED
      BY <2>2, <2>5, <2>6, <2>7
  <1>2. ASSUME UNCHANGED <<debugMode, forced, override, adc, cache, dualModule>>,
               voltFailed' \in BOOLEAN, Indices'
        PROVE  ReportInv'
    <2>1. Measured(adc)' = Measured(adc) /\ Broken(adc)' = Broken(adc)
      BY <1>2 DEF Measured, Broken, Temperature, Faulty, Overridden
    <2>2. CacheTells'
      BY <1>2, <2>1 DEF CacheTells, Tells, Summarises
    <2>3. SettingsOK'
      BY <1>2 DEF SettingsOK
    <2> QED
      BY <1>2, <2>2, <2>3
  <1>3. CASE SendSingleSlot
    <2>1. Indices'
      <3>1. (thermIndex + 1) % Channels \in Channel
        BY Sizes DEF Indices, Channel
      <3> QED
        BY <1>3, <3>1 DEF SendSingleSlot, SendSlot, Indices
    <2> QED
      BY <1>2, <1>3, <2>1 DEF SendSingleSlot, SendSlot, settings
  <1>4. CASE SendModuleClaim
    <2>1. Indices'
      <3>1. (claimSlot + 1) % Modules \in Module
        BY Sizes DEF Indices, Module
      <3> QED
        BY <1>4, <3>1 DEF SendModuleClaim, vars, Indices
    <2> QED
      BY <1>2, <1>4, <2>1 DEF SendModuleClaim, vars, settings
  <1>5. CASE SendModuleSlot
    <2>1. Indices'
      <3>1. moduleSlot \in Module /\ emuIndex' \in [Module -> Nat]
        BY <1>5, SlotAdvances DEF Indices
      <3>2. moduleSlot' \in Module
        BY <1>5, <3>1, SlotAdvances, Sizes DEF Module
      <3>3. \A m \in Module : emuIndex'[m] < Size(m)
        <4>1. TAKE m \in Module
        <4>2. Size(m) \in Nat /\ Size(m) > 0 /\ emuIndex[m] \in Nat /\ emuIndex[m] < Size(m)
          BY ModuleFits DEF Indices
        <4>3. CASE m = moduleSlot
          BY <1>5, <4>2, <4>3, SlotAdvances
        <4>4. CASE m # moduleSlot
          BY <1>5, <4>2, <4>4, SlotAdvances
        <4> QED
          BY <4>3, <4>4
      <3> QED
        BY <1>5, <3>1, <3>2, <3>3 DEF SendModuleSlot, vars, Indices
    <2> QED
      BY <1>2, <1>5, <2>1 DEF SendModuleSlot, vars, settings
  <1>6. CASE MonitorFails
    BY <1>2, <1>6 DEF MonitorFails, VoltFails, settings, Indices
  <1>7. CASE UNCHANGED dualVars
    BY <1>2, <1>7 DEF dualVars, vars, settings, Indices
  <1> QED
    BY <1>1, <1>3, <1>4, <1>5, <1>6, <1>7 DEF DualNext

LEMMA PunctualStep == ReportInv /\ Punctual /\ [DualNext]_dualVars => Punctual'
  <1> SUFFICES ASSUME ReportInv, Punctual, [DualNext]_dualVars PROVE Punctual'
    OBVIOUS
  <1>1. CASE UNCHANGED <<age, emuIndex, moduleSlot>>
    BY <1>1 DEF Punctual, TurnsSince, SlotsSince
  <1>2. CASE SendModuleSlot
    <2> DEFINE s == moduleSlot
               shown == Start(s) + emuIndex[s]
    <2>1. s \in Module /\ emuIndex[s] \in 0..Size(s) - 1
          /\ ChannelOf(ModuleGeneral(s)) = shown
      BY SlotSays DEF ReportInv, Indices
    <2>2. age' = [i \in Channel |->
                   IF i = shown THEN 0
                   ELSE IF age[i] < Modules * ModuleChannels THEN age[i] + 1 ELSE age[i]]
      BY <1>2, <2>1 DEF SendModuleSlot
    <2> HIDE DEF shown
    <2>3. age' \in [Channel -> Nat]
      BY <2>2 DEF Punctual
    <2>4. \A i \in Channel : age'[i] <= age[i] + 1 /\ (i = shown => age'[i] = 0)
      BY <2>2 DEF Punctual
    <2>5. ASSUME NEW m \in Module, NEW n \in 0..Size(m) - 1
          PROVE  age'[Start(m) + n] <= TurnsSince(m, n)' * Modules + SlotsSince(m)'
      <3> DEFINE i == Start(m) + n
      <3>1. i \in Channel /\ m \in Nat /\ m < Modules /\ Size(m) \in Nat
            /\ age[i] \in Nat /\ age'[i] \in Nat
        BY <2>3, ModuleFits, Sizes DEF Punctual, Module
      <3>2. age[i] <= TurnsSince(m, n) * Modules + SlotsSince(m)
        BY DEF Punctual
      <3>3. moduleSlot \in Nat /\ moduleSlot < Modules /\ Modules \in Nat
            /\ moduleSlot' = IF moduleSlot + 1 = Modules THEN 0 ELSE moduleSlot + 1
        BY <1>2, <2>1, SlotAdvances, Sizes DEF Module
      <3>4. emuIndex[m] \in 0..Size(m) - 1 /\ TurnsSince(m, n) \in Nat /\ SlotsSince(m) \in Nat
        <4>1. emuIndex[m] \in 0..Size(m) - 1
          BY SlotSays
        <4> QED
          BY <3>1, <3>3, <4>1 DEF TurnsSince, SlotsSince
      <3>5. TurnsSince(m, n) * Modules \in Nat
        BY <3>3, <3>4
      <3>6. CASE m # s
        <4>1. TurnsSince(m, n)' = TurnsSince(m, n)
          BY <1>2, <3>6, SlotAdvances DEF TurnsSince
        <4>2. SlotsSince(m)' = SlotsSince(m) + 1
          BY <3>1, <3>3, <3>6 DEF SlotsSince
        <4> HIDE DEF i
        <4> QED
          BY <2>4, <3>1, <3>2, <3>4, <3>5, <4>1, <4>2 DEF i
      <3>7. CASE m = s
        <4>1. SlotsSince(m) = Modules - 1 /\ SlotsSince(m)' = 0
          BY <3>1, <3>3, <3>7 DEF SlotsSince
        <4>2. emuIndex'[m] = IF emuIndex[m] + 1 = Size(m) THEN 0 ELSE emuIndex[m] + 1
          BY <1>2, <3>7, SlotAdvances
        <4>3. TurnsSince(m, n)' \in Nat
              /\ (n # emuIndex[m] => TurnsSince(m, n)' = TurnsSince(m, n) + 1)
          <5>1. n \in Nat /\ n < Size(m) /\ emuIndex[m] \in Nat /\ emuIndex[m] < Size(m)
                /\ Size(m) \in Nat
            BY <3>1, <3>4
          <5>2. TurnsSince(m, n)' =
                  IF emuIndex'[m] > n THEN emuIndex'[m] - n - 1
                  ELSE Size(m) - 1 + emuIndex'[m] - n
            BY DEF TurnsSince
          <5>3. CASE emuIndex[m] + 1 = Size(m)
            BY <4>2, <5>1, <5>2, <5>3 DEF TurnsSince
          <5>4. CASE emuIndex[m] + 1 # Size(m)
            BY <4>2, <5>1, <5>2, <5>4 DEF TurnsSince
          <5> QED
            BY <5>3, <5>4
        <4>4. CASE n = emuIndex[m]
          <5>1. age'[i] = 0
            BY <2>4, <3>1, <3>7, <4>4 DEF shown
          <5>2. TurnsSince(m, n)' * Modules \in Nat
            BY <3>3, <4>3
          <5> QED
            BY <4>1, <5>1, <5>2
        <4>5. CASE n # emuIndex[m]
          <5>1. TurnsSince(m, n)' * Modules = TurnsSince(m, n) * Modules + Modules
            BY <3>3, <3>4, <4>3, <4>5
          <5>2. age'[i] <= age[i] + 1
            BY <2>4, <3>1
          <5> HIDE DEF i
          <5> QED
            BY <3>1, <3>2, <3>3, <3>5, <4>1, <5>1, <5>2 DEF i
        <4> QED
          BY <4>4, <4>5
      <3> QED
        BY <3>6, <3>7
    <2> QED
      BY <2>3, <2>5 DEF Punctual
  <1>3. CASE Sample \/ SendSingleSlot \/ SendModuleClaim \/ MonitorFails \/ UNCHANGED dualVars
    BY <1>1, <1>3 DEF Sample, SendSingleSlot, SendModuleClaim, MonitorFails, dualVars
  <1> QED
    BY <1>2, <1>3 DEF DualNext

-----------------------------------------------------------------------------
(* The single module's report.                                             *)

LEMMA SingleSays ==
  ASSUME ReportInv
  PROVE  /\ \A b \in 1..8 : BmsFrame[b] \in 0..255 /\ GeneralFrame[b] \in 0..255
         /\ BmsFrame[2] = PackTemp(cache.min) /\ BmsFrame[3] = PackTemp(cache.max)
         /\ GeneralFrame[5] = PackTemp(cache.min) /\ GeneralFrame[6] = PackTemp(cache.max)
         /\ Signed(BmsFrame[2]) = cache.min /\ Signed(BmsFrame[3]) = cache.max
         /\ Signed(BmsFrame[4]) = cache.avg
         /\ Count(BmsFrame[5]) = cache.valid
         /\ Flag(BmsFrame[5]) <=> ModuleFaultActive(cache)
         /\ Signed(GeneralFrame[3]) = Measured(adc)[thermIndex]
         /\ Flag(GeneralFrame[4]) <=> thermIndex \in Broken(adc)
  <1>1. /\ Channels \in 1..10 /\ thermIndex \in 0..Channels - 1 /\ 0 \in 0..9
        /\ Tells(cache, Channels, Measured(adc), Broken(adc))
    BY Sizes DEF ReportInv, CacheTells, Indices, Channel
  <1>2. Shows(GeneralFrame, cache, 0, thermIndex, Measured(adc), Broken(adc))
    BY <1>1, GeneralSays DEF GeneralFrame
  <1>3. LET f == EncodeBms(cache, 0) IN
         /\ \A b \in 1..8 : f[b] \in 0..255
         /\ f[2] = PackTemp(cache.min) /\ f[3] = PackTemp(cache.max)
         /\ Signed(f[2]) = cache.min /\ Signed(f[3]) = cache.max /\ Signed(f[4]) = cache.avg
         /\ Count(f[5]) = cache.valid
         /\ Flag(f[5]) <=> ModuleFaultActive(cache)
    BY <1>1, BmsSays
  <1> QED
    BY <1>2, <1>3 DEF Shows, BmsFrame

LEMMA HealthyAre ==
  /\ Healthy = Healthies(Channels, Broken(adc))
  /\ \A i \in Channel : Measured(adc)[i] = Temperature(i, adc[i])
  /\ \A i \in Channel : i \in Broken(adc) <=> Faulty(i, adc[i])
  BY DEF Healthy, Healthies, Broken, Measured, Channel

LEMMA SummaryHolds == ReportInv => SummaryIsTrue
  <1> SUFFICES ASSUME ReportInv PROVE SummaryIsTrue
    OBVIOUS
  <1>1. /\ cache.valid = Cardinality(Healthy)
        /\ Summarises(cache, Healthy, Measured(adc))
    BY HealthyAre DEF ReportInv, CacheTells, Tells
  <1>2. \A i \in Healthy : i \in Channel /\ Measured(adc)[i] = Temperature(i, adc[i])
    BY HealthyAre DEF Healthy
  <1>3. CASE Healthy = {}
    BY <1>1, <1>3, SingleSays DEF SummaryIsTrue, Summarises
  <1>4. CASE Healthy # {}
    <2>1. /\ \E i \in Healthy : cache.min = Temperature(i, adc[i])
          /\ \E i \in Healthy : cache.max = Temperature(i, adc[i])
          /\ \A i \in Healthy : cache.min <= Temperature(i, adc[i])
                                /\ Temperature(i, adc[i]) <= cache.max
          /\ cache.min <= cache.avg /\ cache.avg <= cache.max
      BY <1>1, <1>2, <1>4 DEF Summarises
    <2>2. /\ cache.min \in HealthyTemps /\ cache.max \in HealthyTemps
          /\ \A t \in HealthyTemps : cache.min <= t /\ t <= cache.max
      BY <2>1 DEF HealthyTemps
    <2> QED
      BY <1>1, <1>4, <2>1, <2>2, SingleSays DEF SummaryIsTrue
  <1> QED
    BY <1>3, <1>4

LEMMA HotHolds == ReportInv => HotNeverHidden
  <1> SUFFICES ASSUME ReportInv, NEW i \in Channel \ forced, ~Overridden(i),
                      ShortThreshold < adc[i], adc[i] < OpenThreshold,
                      ADCToTemp(adc[i]) > HotThreshold
               PROVE  cache.max > HotThreshold
    BY SingleSays DEF HotNeverHidden
  <1>1. adc[i] \in Int /\ ADCToTemp(adc[i]) \in Temp
    <2>1. \A x \in Reading : x \in Int
      BY DEF Reading
    <2>2. adc[i] \in Reading
      BY DEF ReportInv
    <2> QED
      BY <2>1, <2>2, Converts
  <1>2. ~Faulty(i, adc[i])
    BY <1>1 DEF Faulty, ShortThreshold, OpenThreshold, MinValid, MaxValid, Temp
  <1>3. i \in Healthies(Channels, Broken(adc)) /\ Measured(adc)[i] = ADCToTemp(adc[i])
    BY <1>2, HealthyAre DEF Healthy, Temperature
  <1>4. cache.max \in Temp /\ Measured(adc)[i] <= cache.max
    BY <1>3 DEF ReportInv, CacheTells, Tells, Summarises
  <1> QED
    BY <1>1, <1>3, <1>4, Temps DEF HotThreshold

LEMMA FramesHold == ReportInv => FramesAgree
  <1> SUFFICES ASSUME ReportInv PROVE FramesAgree
    OBVIOUS
  <1> DEFINE H == Healthies(Channels, Broken(adc))
  <1>1. /\ cache.faults = (0..Channels - 1) \cap Broken(adc)
        /\ cache.valid = 0 <=> H = {}
        /\ Summarises(cache, H, Measured(adc))
    BY DEF ReportInv, CacheTells, Tells
  <1>2. thermIndex \in 0..Channels - 1
    BY DEF ReportInv, Indices, Channel
  <1>3. Flag(GeneralFrame[4]) => Flag(BmsFrame[5])
    BY <1>1, <1>2, SingleSays DEF ModuleFaultActive
  <1>4. ASSUME ~Flag(GeneralFrame[4])
        PROVE  /\ Signed(BmsFrame[2]) <= Signed(GeneralFrame[3])
               /\ Signed(GeneralFrame[3]) <= Signed(BmsFrame[3])
    <2>1. thermIndex \in H
      BY <1>2, <1>4, SingleSays DEF Healthies
    <2> QED
      BY <1>1, <2>1, SingleSays DEF Summarises
  <1>5. Count(BmsFrame[5]) = 0 => Flag(BmsFrame[5])
    <2>1. H = {} => thermIndex \in cache.faults
      BY <1>1, <1>2 DEF Healthies
    <2> QED
      BY <1>1, <2>1, SingleSays DEF ModuleFaultActive
  <1> QED
    BY <1>3, <1>4, <1>5, SingleSays DEF FramesAgree

-----------------------------------------------------------------------------
(* The modules' reports.                                                   *)

(* A module's numbering and that of the board.                             *)
LEMMA LocalIsGlobal ==
  ASSUME ReportInv, NEW m \in Module, NEW n \in 0..Size(m) - 1
  PROVE  /\ Start(m) + n \in Channel
         /\ LocalTemps(Start(m), Size(m))[n] = Measured(adc)[Start(m) + n]
         /\ n \in LocalBad(Start(m), Size(m)) <=> Start(m) + n \in Broken(adc)
  BY ModuleFits DEF LocalTemps, LocalBad, Measured, Broken, ModuleTemperature,
                    ModuleFaulty, Temperature, Faulty

LEMMA TruthHolds == ReportInv => ModulesTellTheTruth
  <1> SUFFICES ASSUME ReportInv, NEW m \in Module
               PROVE  LET frame == ModuleGeneral(m)  i == ChannelOf(frame)
                      IN /\ i \in Channel
                         /\ Signed(frame[3]) = cache.temps[i + 1]
                         /\ Flag(frame[4]) <=> i \in cache.faults
    BY DEF ModulesTellTheTruth
  <1> DEFINE i == Start(m) + emuIndex[m]
  <1>1. i \in Channel
    BY SlotSays, ModuleFits
  <1> HIDE DEF i
  <1>2. ChannelOf(ModuleGeneral(m)) = i
    BY SlotSays DEF i
  <1>3. Signed(ModuleGeneral(m)[3]) = Measured(adc)[i]
    <2>1. Signed(ModuleGeneral(m)[3]) = ModuleTemperature(i)
      BY SlotSays DEF i
    <2> QED
      BY <1>1, <2>1 DEF ModuleTemperature, Measured, Temperature
  <1>4. Flag(ModuleGeneral(m)[4]) <=> i \in Broken(adc)
    <2>1. Flag(ModuleGeneral(m)[4]) <=> ModuleFaulty(emuIndex[m], i)
      BY SlotSays DEF i
    <2> QED
      BY <1>1, <2>1 DEF ModuleFaulty, Broken, Faulty
  <1>5. cache.temps[i + 1] = Measured(adc)[i] /\ (i \in cache.faults <=> i \in Broken(adc))
    BY <1>1 DEF ReportInv, CacheTells, Tells, Channel
  <1> QED
    BY <1>1, <1>2, <1>3, <1>4, <1>5

LEMMA StaleHolds == ReportInv /\ Punctual => NoneGoesStale
  <1> SUFFICES ASSUME ReportInv, Punctual, NEW m \in Module, NEW n \in 0..Size(m) - 1
               PROVE  age[Start(m) + n] < Modules * Size(m)
    BY DEF NoneGoesStale, Size
  <1>1. /\ moduleSlot \in Nat /\ moduleSlot < Modules /\ m \in Nat /\ m < Modules
        /\ Modules \in Nat /\ Size(m) \in Nat
    BY ModuleFits, Sizes DEF ReportInv, Indices, Module
  <1>2. emuIndex[m] \in Nat /\ emuIndex[m] < Size(m) /\ n \in Nat /\ n < Size(m)
    BY <1>1 DEF ReportInv, Indices
  <1>3. TurnsSince(m, n) \in 0..Size(m) - 1 /\ SlotsSince(m) \in 0..Modules - 1
    BY <1>1, <1>2 DEF TurnsSince, SlotsSince
  <1>4. ASSUME NEW t \in Nat, NEW c \in Nat, t <= c - 1, NEW k \in Nat
        PROVE  t * k \in Nat /\ c * k \in Nat /\ t * k + k <= c * k /\ c * k = k * c
    <2>1. PICK d \in Nat : c = t + 1 + d
      BY <1>4, c - t - 1 \in Nat
    <2>2. c * k = t * k + k + d * k /\ d * k \in Nat
      BY <2>1
    <2> QED
      BY <2>2
  <1>5. /\ TurnsSince(m, n) * Modules \in Nat /\ Modules * Size(m) \in Nat
        /\ TurnsSince(m, n) * Modules + Modules <= Modules * Size(m)
    BY <1>1, <1>3, <1>4
  <1>6. age[Start(m) + n] \in Nat
        /\ age[Start(m) + n] <= TurnsSince(m, n) * Modules + SlotsSince(m)
    BY ModuleFits DEF Punctual
  <1> QED
    BY <1>1, <1>3, <1>5, <1>6

(* The healthy thermistors of a module, in its numbering and the board's.  *)
LocalHealthy(m) == Healthies(Size(m), LocalBad(Start(m), Size(m)))
Before(k)       == {i \in Healthies(Channels, Broken(adc)) : i < Start(k)}

LEMMA ModuleSays ==
  ASSUME ReportInv, NEW m \in Module
  PROVE  LET c == ModuleCache(m)  f == ModuleBms(m) IN
         /\ \A b \in 1..8 : f[b] \in 0..255
         /\ f[2] = PackTemp(c.min) /\ f[3] = PackTemp(c.max)
         /\ Signed(f[2]) = c.min /\ Signed(f[3]) = c.max
         /\ Count(f[5]) = c.valid /\ c.valid \in Nat
         /\ c.valid = Cardinality(LocalHealthy(m))
         /\ c.valid = 0 <=> LocalHealthy(m) = {}
         /\ Flag(f[5]) <=> ModuleFaultActive(c)
         /\ c.faults = (0..Size(m) - 1) \cap LocalBad(Start(m), Size(m))
         /\ Summarises(c, LocalHealthy(m), LocalTemps(Start(m), Size(m)))
  <1> DEFINE c == ModuleCache(m)
  <1>1. Tells(c, Size(m), LocalTemps(Start(m), Size(m)), LocalBad(Start(m), Size(m)))
    BY ModuleTells
  <1>2. Size(m) \in 1..10 /\ m \in 0..9
    BY ModuleFits
  <1> HIDE DEF c
  <1>3. LET f == EncodeBms(c, m) IN
         /\ \A b \in 1..8 : f[b] \in 0..255
         /\ f[2] = PackTemp(c.min) /\ f[3] = PackTemp(c.max)
         /\ Signed(f[2]) = c.min /\ Signed(f[3]) = c.max /\ Signed(f[4]) = c.avg
         /\ Count(f[5]) = c.valid
         /\ Flag(f[5]) <=> ModuleFaultActive(c)
    BY <1>1, <1>2, BmsSays
  <1>4. /\ c.valid = Cardinality(LocalHealthy(m)) /\ c.valid \in Nat
        /\ c.valid = 0 <=> LocalHealthy(m) = {}
        /\ c.faults = (0..Size(m) - 1) \cap LocalBad(Start(m), Size(m))
        /\ Summarises(c, LocalHealthy(m), LocalTemps(Start(m), Size(m)))
    BY <1>1, <1>2 DEF Tells, LocalHealthy
  <1> QED
    BY <1>3, <1>4 DEF c, ModuleBms

LEMMA HealthyFinite ==
  ASSUME NEW size \in Nat, NEW bad
  PROVE  IsFiniteSet(Healthies(size, bad))
  <1>1. IsFiniteSet(0..size - 1)
    BY FS_Interval
  <1> QED
    BY <1>1, FS_Subset DEF Healthies

(* One module more: as many healthy thermistors more as it has.            *)
LEMMA BeforeNext ==
  ASSUME ReportInv, NEW m \in Module
  PROVE  /\ Cardinality(Before(m)) \in Nat
         /\ Cardinality(Before(m + 1)) = Cardinality(Before(m)) + Count(ModuleBms(m)[5])
  <1> DEFINE H == Healthies(Channels, Broken(adc))
             L == LocalHealthy(m)
             own == {i \in H : Start(m) <= i /\ i < Start(m + 1)}
             f == [n \in L |-> Start(m) + n]
  <1>1. /\ m \in Nat /\ Start(m) \in Nat /\ Size(m) \in Nat
        /\ Size(m) <= ModuleChannels /\ ModuleChannels \in Nat
        /\ Size(m) = ModuleChannels \/ Start(m) + Size(m) = Channels
        /\ Start(m + 1) = Start(m) + ModuleChannels /\ Channels \in Nat
    BY ModuleFits, Starts, Sizes
  <1>2. \A n \in 0..Size(m) - 1 : n \in L <=> Start(m) + n \in H
    BY LocalIsGlobal DEF LocalHealthy, Healthies, Channel
  <1>3. f \in Bijection(L, own)
    <2>1. \A n \in L : n \in Nat /\ n < Size(m) /\ Start(m) + n \in own
      <3>1. \A n \in L : n \in 0..Size(m) - 1
        BY DEF LocalHealthy, Healthies
      <3> HIDE DEF L, H
      <3> QED
        BY <1>1, <1>2, <3>1
    <2>2. \A i \in own : \E n \in L : f[n] = i
      <3>1. TAKE i \in own
      <3>2. i \in H /\ i \in Nat /\ i < Channels
        BY <1>1 DEF Healthies
      <3>3. i - Start(m) \in 0..Size(m) - 1 /\ Start(m) + (i - Start(m)) = i
        BY <1>1, <3>2
      <3>4. i - Start(m) \in L
        BY <1>2, <3>2, <3>3
      <3> HIDE DEF L
      <3> QED
        BY <3>3, <3>4
    <2> HIDE DEF L, own
    <2>3. f \in [L -> own]
      BY <2>1
    <2>4. \A a, b \in L : f[a] = f[b] => a = b
      BY <1>1, <2>1
    <2> QED
      BY <2>2, <2>3, <2>4 DEF Bijection, Injection, Surjection, IsInjective
  <1>4. IsFiniteSet(L) /\ IsFiniteSet(H)
    BY <1>1, HealthyFinite DEF LocalHealthy
  <1>5. Cardinality(own) = Cardinality(L) /\ IsFiniteSet(own)
    <2> HIDE DEF L, own, f
    <2> QED
      BY <1>3, <1>4, FS_Bijection DEF ExistsBijection
  <1>6. /\ Before(m + 1) = Before(m) \union own /\ Before(m) \cap own = {}
    <2>1. \A i \in H : i \in Nat
      BY <1>1 DEF Healthies
    <2> HIDE DEF H
    <2> QED
      BY <1>1, <2>1 DEF Before, H
  <1>7. IsFiniteSet(Before(m)) /\ Cardinality(Before(m)) \in Nat
    BY <1>4, FS_Subset, FS_CardinalityType DEF Before
  <1>8. Cardinality(own) \in Nat
    BY <1>5, FS_CardinalityType
  <1>9. Cardinality(Before(m + 1)) = Cardinality(Before(m)) + Cardinality(own)
    <2> HIDE DEF own
    <2> QED
      BY <1>5, <1>6, <1>7, <1>8, FS_Union, FS_EmptySet
  <1> HIDE DEF own, L
  <1>10. Count(ModuleBms(m)[5]) = Cardinality(L)
    BY ModuleSays DEF L
  <1> QED
    BY <1>5, <1>7, <1>9, <1>10

(* So the counts of the modules add up.                                    *)
LEMMA CountsAddUp ==
  ASSUME ReportInv
  PROVE  Counted[Modules] = Cardinality(Healthies(Channels, Broken(adc)))
  <1> DEFINE Adds(g) == g = [n \in 0..Modules |->
                              IF n = 0 THEN 0 ELSE g[n - 1] + Count(ModuleBms(n - 1)[5])]
             count == [n \in 0..Modules |-> Cardinality(Before(n))]
  <1>1. Modules \in Nat /\ \A n \in 0..Modules : n # 0 => n - 1 \in Module /\ (n - 1) + 1 = n
    BY Sizes DEF Module
  <1>2. Before(0) = {} /\ Cardinality({}) = 0
    BY Starts, FS_EmptySet DEF Before, Healthies
  <1>3. \A n \in 0..Modules :
          count[n] = IF n = 0 THEN 0 ELSE count[n - 1] + Count(ModuleBms(n - 1)[5])
    <2>1. TAKE n \in 0..Modules
    <2>2. CASE n = 0
      BY <1>2, <2>2
    <2>3. CASE n # 0
      <3>1. n - 1 \in Module /\ (n - 1) + 1 = n /\ n - 1 \in 0..Modules
        BY <1>1, <2>3 DEF Module
      <3>2. Cardinality(Before((n - 1) + 1)) =
              Cardinality(Before(n - 1)) + Count(ModuleBms(n - 1)[5])
        BY <3>1, BeforeNext
      <3> QED
        BY <2>3, <3>1, <3>2
    <2> QED
      BY <2>2, <2>3
  <1>4. Adds(count)
    <2>1. count = [n \in 0..Modules |-> count[n]]
      OBVIOUS
    <2> HIDE DEF count
    <2> QED
      BY <1>3, <2>1
  <1>5. Adds(Counted)
    <2>1. Counted = CHOOSE g : Adds(g)
      BY DEF Counted
    <2> HIDE DEF Adds
    <2> QED
      BY <1>4, <2>1
  <1> DEFINE S == {k \in Nat : k <= Modules => Counted[k] = Cardinality(Before(k))}
  <1>6. \A n \in 0..Modules :
          Counted[n] = IF n = 0 THEN 0 ELSE Counted[n - 1] + Count(ModuleBms(n - 1)[5])
    BY <1>5
  <1> HIDE DEF Adds
  <1>7. 0 \in S
    <2>1. 0 \in 0..Modules
      BY <1>1
    <2>2. Counted[0] = 0
      BY <1>6, <2>1
    <2>3. Cardinality(Before(0)) = 0
      BY <1>2
    <2> QED
      BY <2>2, <2>3
  <1>8. ASSUME NEW k \in Nat, k \in S
        PROVE  k + 1 \in S
    <2>1. CASE k + 1 <= Modules
      <3>1. k + 1 \in 0..Modules /\ k + 1 # 0 /\ (k + 1) - 1 = k /\ k \in Module
        BY <1>1, <2>1 DEF Module
      <3>2. Counted[k + 1] = Counted[k] + Count(ModuleBms(k)[5])
        BY <1>6, <3>1
      <3>3. Counted[k] = Cardinality(Before(k))
        BY <1>1, <1>8, <2>1
      <3>4. Counted[k + 1] = Cardinality(Before(k + 1))
        BY <3>1, <3>2, <3>3, BeforeNext
      <3> QED
        BY <3>4
    <2> QED
      BY <2>1
  <1> HIDE DEF S
  <1>9. Modules \in S
    BY <1>1, <1>7, <1>8, NatInduct
  <1>10. Before(Modules) = Healthies(Channels, Broken(adc))
    <2>1. Start(Modules) \in Nat /\ Channels <= Start(Modules) /\ Channels \in Nat
      BY <1>1, Starts, Sizes
    <2> QED
      BY <2>1 DEF Before, Healthies
  <1> QED
    BY <1>1, <1>9, <1>10 DEF S

LEMMA SummariesHold == ReportInv => SummariesAgree
  <1> SUFFICES ASSUME ReportInv PROVE SummariesAgree
    OBVIOUS
  <1> DEFINE H == Healthies(Channels, Broken(adc))
             counting == {m \in Module : Count(ModuleBms(m)[5]) > 0}
  <1>1. /\ cache.valid = Cardinality(H)
        /\ cache.faults = (0..Channels - 1) \cap Broken(adc)
        /\ Summarises(cache, H, Measured(adc))
        /\ cache.min \in Temp /\ cache.max \in Temp
    BY DEF ReportInv, CacheTells, Tells
  <1>2. Counted[Modules] = Count(BmsFrame[5])
    BY <1>1, CountsAddUp, SingleSays
  <1>3. (\E m \in Module : Flag(ModuleBms(m)[5])) <=> Flag(BmsFrame[5])
    <2>1. ASSUME NEW m \in Module, ModuleCache(m).faults # {}
          PROVE  cache.faults # {}
      <3>1. PICK n \in 0..Size(m) - 1 : n \in LocalBad(Start(m), Size(m))
        BY <2>1, ModuleSays
      <3> QED
        BY <1>1, <3>1, LocalIsGlobal DEF Channel
    <2>2. ASSUME cache.faults # {}
          PROVE  \E m \in Module : ModuleCache(m).faults # {}
      <3>1. PICK i \in Channel : i \in Broken(adc)
        BY <1>1, <2>2 DEF Channel
      <3>2. PICK m \in Module : \E n \in 0..Size(m) - 1 : i = Start(m) + n
        BY OwnModule
      <3>5. PICK n \in 0..Size(m) - 1 : i = Start(m) + n
        BY <3>2
      <3>3. n \in LocalBad(Start(m), Size(m))
        BY <3>1, <3>5, LocalIsGlobal
      <3>4. n \in ModuleCache(m).faults
        BY <3>3, ModuleSays
      <3> QED
        BY <3>4
    <2>3. 0 \in Module
      BY Sizes DEF Module
    <2>4. \A m \in Module : Flag(ModuleBms(m)[5]) <=> voltFailed \/ ModuleCache(m).faults # {}
      BY ModuleSays DEF ModuleFaultActive
    <2>5. Flag(BmsFrame[5]) <=> voltFailed \/ cache.faults # {}
      BY SingleSays DEF ModuleFaultActive
    <2> QED
      BY <2>1, <2>2, <2>3, <2>4, <2>5
  <1>4. ASSUME NEW m \in Module, NEW n \in LocalHealthy(m)
        PROVE  /\ Start(m) + n \in H /\ n \in 0..Size(m) - 1
               /\ LocalTemps(Start(m), Size(m))[n] = Measured(adc)[Start(m) + n]
    <2>1. n \in 0..Size(m) - 1 /\ n \notin LocalBad(Start(m), Size(m))
      BY DEF LocalHealthy, Healthies
    <2> QED
      BY <2>1, LocalIsGlobal DEF Healthies, Channel
  <1>5. \A m \in Module : m \in counting <=> LocalHealthy(m) # {}
    BY ModuleSays
  <1>6. ASSUME NEW m \in counting
        PROVE  cache.min <= ModuleCache(m).min /\ ModuleCache(m).max <= cache.max
    <2>1. m \in Module /\ LocalHealthy(m) # {}
      BY <1>5
    <2>2. Summarises(ModuleCache(m), LocalHealthy(m), LocalTemps(Start(m), Size(m)))
      BY <2>1, ModuleSays
    <2>3. PICK n \in LocalHealthy(m), l \in LocalHealthy(m) :
            /\ ModuleCache(m).min = LocalTemps(Start(m), Size(m))[n]
            /\ ModuleCache(m).max = LocalTemps(Start(m), Size(m))[l]
      BY <2>1, <2>2 DEF Summarises
    <2>4. /\ Start(m) + n \in H /\ ModuleCache(m).min = Measured(adc)[Start(m) + n]
          /\ Start(m) + l \in H /\ ModuleCache(m).max = Measured(adc)[Start(m) + l]
      BY <1>4, <2>1, <2>3
    <2> QED
      BY <1>1, <2>4 DEF Summarises
  <1>7. ASSUME NEW i \in H
        PROVE  \E m \in counting :
                 /\ ModuleCache(m).min <= Measured(adc)[i]
                 /\ Measured(adc)[i] <= ModuleCache(m).max
    <2>1. i \in Channel /\ i \notin Broken(adc)
      BY DEF Healthies, Channel
    <2>2. PICK m \in Module : \E n \in 0..Size(m) - 1 : i = Start(m) + n
      BY <2>1, OwnModule
    <2>6. PICK n \in 0..Size(m) - 1 : i = Start(m) + n
      BY <2>2
    <2>3. n \in LocalHealthy(m)
      BY <2>1, <2>6, LocalIsGlobal DEF LocalHealthy, Healthies
    <2>4. m \in counting /\ Measured(adc)[i] = LocalTemps(Start(m), Size(m))[n]
      BY <1>4, <1>5, <2>6, <2>3
    <2>5. Summarises(ModuleCache(m), LocalHealthy(m), LocalTemps(Start(m), Size(m)))
      BY ModuleSays
    <2> QED
      BY <2>3, <2>4, <2>5 DEF Summarises
  <1>8. ASSUME counting # {}
        PROVE  /\ \E m \in counting : ModuleBms(m)[2] = BmsFrame[2]
               /\ \E m \in counting : ModuleBms(m)[3] = BmsFrame[3]
    <2>1. H # {}
      BY <1>4, <1>5, <1>8
    <2>2. PICK i \in H, j \in H : cache.min = Measured(adc)[i] /\ cache.max = Measured(adc)[j]
      BY <1>1, <2>1 DEF Summarises
    <2>3. PICK m \in counting : ModuleCache(m).min <= cache.min
      BY <1>7, <2>2
    <2>4. PICK k \in counting : cache.max <= ModuleCache(k).max
      BY <1>7, <2>2
    <2>5. ModuleCache(m).min \in Temp /\ ModuleCache(k).max \in Temp
      BY ModuleTells DEF Tells
    <2>6. ModuleCache(m).min = cache.min /\ ModuleCache(k).max = cache.max
      BY <1>1, <1>6, <2>3, <2>4, <2>5, Temps
    <2> QED
      BY <2>6, ModuleSays, SingleSays
  <1>9. \A m \in counting : /\ Signed(BmsFrame[2]) <= Signed(ModuleBms(m)[2])
                            /\ Signed(ModuleBms(m)[3]) <= Signed(BmsFrame[3])
    BY <1>6, ModuleSays, SingleSays
  <1> QED
    BY <1>2, <1>3, <1>8, <1>9 DEF SummariesAgree

LEMMA TypeHolds == ReportInv => DualTypeOK
  <1> SUFFICES ASSUME ReportInv PROVE DualTypeOK
    OBVIOUS
  <1>1. TypeOK
    <2>1. /\ cache.temps \in Seq(Temp) /\ Len(cache.temps) = Channels
          /\ cache.faults \subseteq Channel /\ cache.valid \in 0..Channels
          /\ {cache.min, cache.max, cache.avg} \subseteq Temp
      BY DEF ReportInv, CacheTells, Tells, Channel
    <2>2. cache.temps \in [1..Channels -> Temp]
      BY <2>1, LenProperties
    <2> QED
      BY <2>1, <2>2, SingleSays DEF ReportInv, Indices, TypeOK
  <1>2. \A m \in Module : emuIndex[m] \in 0..ModuleSampleCount(Start(m)) - 1
    BY SlotSays DEF Size
  <1>3. \A m \in Module, b \in 1..8 :
          ModuleBms(m)[b] \in 0..255 /\ ModuleGeneral(m)[b] \in 0..255
    BY SlotSays, ModuleSays
  <1> QED
    BY <1>1, <1>2, <1>3 DEF DualTypeOK, ReportInv, Indices

-----------------------------------------------------------------------------
(* The invariant holds of every report.                                    *)
LEMMA InvHolds == DualSpec => [](ReportInv /\ Punctual)
  BY InitInv, NextInv, PunctualStep, PTL DEF DualSpec

(* Caches, indices and every byte of every frame stay in range, for both   *)
(* modes and any split of the channels.                                    *)
THEOREM ReportTypeCorrect == DualSpec => []DualTypeOK
  BY InvHolds, TypeHolds, PTL

(* The summary says of the healthy thermistors exactly what their readings *)
(* say (ConvertAllThermistors, CAN_EncodeBmsForCache): by induction over   *)
(* the channels, for any readings, overrides and forced faults.            *)
THEOREM SummaryTrue == DualSpec => []SummaryIsTrue
  BY InvHolds, SummaryHolds, PTL

(* A reading above the threshold is never dropped from the summary as a    *)
(* broken sensor, whatever the other channels read.                        *)
THEOREM HotShown == DualSpec => []HotNeverHidden
  BY InvHolds, HotHolds, PTL

(* The general broadcast and the summary of a slot never contradict each   *)
(* other.                                                                  *)
THEOREM FramesConsistent == DualSpec => []FramesAgree
  BY InvHolds, FramesHold, PTL

(* The module's own numbering and its second copy of the fold tell the     *)
(* receiver what the single module would have told it of the channel.      *)
THEOREM ModulesTruthful == DualSpec => []ModulesTellTheTruth
  BY InvHolds, TruthHolds, PTL

(* Put together, the summaries of the modules say what the one summary of  *)
(* all channels says: the counts add up, by induction over the modules.    *)
THEOREM SummariesConsistent == DualSpec => []SummariesAgree
  BY InvHolds, SummariesHold, PTL

(* Every thermistor is back on the bus within its module's turns, by the   *)
(* bound on its age that its module's index and turn give.                 *)
THEOREM NothingStale == DualSpec => []NoneGoesStale
  BY InvHolds, StaleHolds, PTL

=============================================================================
