---------------------------- MODULE SweepProofs ----------------------------
(***************************************************************************)
(* Proofs about InputSweep: the thermistor conversion and the bit timing   *)
(* give what they promise for every input, by the argument of their code   *)
(* and not by going through the inputs.                                    *)
(***************************************************************************)
EXTENDS InputSweep, WellFoundedInduction, TLAPS

-----------------------------------------------------------------------------
(* A set of natural numbers has a least element; hence induction.          *)

LEMMA LeastNat ==
  ASSUME NEW S, S \subseteq Nat, S # {}
  PROVE  \E x \in S : \A y \in S : x <= y
  <1> DEFINE R == OpToRel(<, Nat)
  <1>1. IsWellFoundedOn(R, Nat)
    BY NatLessThanWellFounded, Zenon DEF OpToRel
  <1>2. \A m, n \in Nat : m < n => <<m, n>> \in R
    BY DEF OpToRel
  <1> HIDE DEF R
  <1>3. PICK x \in S : \A y \in S : <<y, x>> \notin R
    BY <1>1, WFMin
  <1>4. x \in Nat /\ \A y \in S : y \in Nat
    OBVIOUS
  <1>5. ASSUME NEW y \in S
        PROVE  x <= y
    <2>1. y \in Nat /\ x \in Nat /\ ~(y < x)
      BY <1>2, <1>3, <1>4
    <2> QED
      BY <2>1
  <1> QED
    BY <1>5

LEMMA MinLeast ==
  ASSUME NEW S, S \subseteq Nat, S # {}
  PROVE  Min(S) \in S /\ \A y \in S : Min(S) <= y
  BY LeastNat DEF Min

LEMMA NatInduct ==
  ASSUME NEW S, 0 \in S, \A n \in Nat : n \in S => n + 1 \in S
  PROVE  Nat \subseteq S
  <1>1. SUFFICES ASSUME Nat \ S # {} PROVE FALSE
    OBVIOUS
  <1>2. PICK x \in Nat \ S : \A y \in Nat \ S : x <= y
    BY <1>1, LeastNat
  <1>3. x - 1 \in Nat /\ (x - 1) + 1 = x /\ ~(x <= x - 1)
    BY <1>2
  <1> QED
    BY <1>2, <1>3

LEMMA Lower == \A a, b \in Int : Min({a, b}) = IF a <= b THEN a ELSE b
  <1> TAKE a \in Int, b \in Int
  <1> DEFINE m == Min({a, b})
  <1>1. \E x \in {a, b} : \A y \in {a, b} : x =< y
    OBVIOUS
  <1>2. m \in {a, b} /\ \A y \in {a, b} : m =< y
    BY <1>1 DEF Min
  <1>3. (m = a \/ m = b) /\ m =< a /\ m =< b
    BY <1>2
  <1> HIDE DEF m
  <1>4. m = IF a <= b THEN a ELSE b
    BY <1>3
  <1> QED
    BY <1>4 DEF m

LEMMA Upper == \A a, b \in Int : Max({a, b}) = IF a >= b THEN a ELSE b
  <1> TAKE a \in Int, b \in Int
  <1> DEFINE m == Max({a, b})
  <1>1. \E x \in {a, b} : \A y \in {a, b} : x >= y
    OBVIOUS
  <1>2. m \in {a, b} /\ \A y \in {a, b} : m >= y
    BY <1>1 DEF Max
  <1>3. (m = a \/ m = b) /\ m >= a /\ m >= b
    BY <1>2
  <1> HIDE DEF m
  <1>4. m = IF a >= b THEN a ELSE b
    BY <1>3
  <1> QED
    BY <1>4 DEF m

-----------------------------------------------------------------------------
(* The table.                                                              *)

Entry == 0..TableSize - 1

(* By inspection of the table.                                             *)
LEMMA Readings == \A i \in Entry : EntryAdc(i) \in Int
  <1>1. \A i \in 1..116 : TableAdc[i] \in Int
    BY DEF TableAdc
  <1>2. \A i \in Entry : i + 1 \in 1..116
    BY DEF Entry, TableSize
  <1> QED
    BY <1>1, <1>2 DEF EntryAdc

LEMMA Rises == \A i \in 0..TableSize - 2 : EntryAdc(i) < EntryAdc(i + 1)
  <1>1. \A i \in 0..113 : TableAdc[i + 1] < TableAdc[i + 2]
    BY DEF TableAdc
  <1>2. \A i \in 0..113 : (i + 1) + 1 = i + 2
    OBVIOUS
  <1> QED
    BY <1>1, <1>2 DEF EntryAdc, TableSize

(* A later entry has a higher reading.                                     *)
LEMMA Ordered ==
  ASSUME NEW i \in Entry, NEW j \in Entry, i <= j
  PROVE  EntryAdc(i) <= EntryAdc(j)
  <1> DEFINE S == {n \in Nat : i + n \in Entry => EntryAdc(i) <= EntryAdc(i + n)}
  <1>1. 0 \in S
    <2>1. EntryAdc(i) \in Int
      BY Readings
    <2>2. i + 0 = i
      BY DEF Entry
    <2> QED
      BY <2>1, <2>2
  <1>2. ASSUME NEW n \in Nat, n \in S
        PROVE  n + 1 \in S
    <2>1. CASE i + (n + 1) \in Entry
      <3>1. i + n \in 0..TableSize - 2 /\ i + n \in Entry /\ i + (n + 1) = (i + n) + 1
        BY <2>1 DEF Entry, TableSize
      <3>2. EntryAdc(i) <= EntryAdc(i + n)
        BY <1>2, <3>1
      <3>3. EntryAdc(i + n) < EntryAdc(i + (n + 1))
        BY <3>1, Rises
      <3>4. /\ EntryAdc(i) \in Int /\ EntryAdc(i + n) \in Int
            /\ EntryAdc(i + (n + 1)) \in Int
        BY <2>1, <3>1, Readings
      <3>5. EntryAdc(i) <= EntryAdc(i + (n + 1))
        BY <3>2, <3>3, <3>4
      <3> QED
        BY <3>5
    <2> QED
      BY <2>1
  <1> HIDE DEF S
  <1>3. Nat \subseteq S
    BY <1>1, <1>2, NatInduct
  <1>4. j - i \in S /\ i + (j - i) = j
    BY <1>3 DEF Entry
  <1> QED
    BY <1>4 DEF S

-----------------------------------------------------------------------------
(* The search.                                                             *)

Around(i, reading) == EntryAdc(i) <= reading /\ reading < EntryAdc(i + 1)

LEMMA OneBracket ==
  ASSUME NEW reading \in Reading, NEW i \in 0..TableSize - 2, NEW j \in 0..TableSize - 2,
         Around(i, reading), Around(j, reading)
  PROVE  i = j
  <1>1. \A k \in 0..TableSize - 2 : k \in Entry /\ k + 1 \in Entry
    BY DEF Entry, TableSize
  <1>2. /\ EntryAdc(i) \in Int /\ EntryAdc(j) \in Int
        /\ EntryAdc(i + 1) \in Int /\ EntryAdc(j + 1) \in Int
    BY <1>1, Readings
  <1>3. CASE i < j
    <2>1. EntryAdc(i + 1) <= EntryAdc(j)
      BY <1>1, <1>3, Ordered DEF TableSize
    <2> QED
      BY <1>2, <2>1 DEF Around, Reading
  <1>4. CASE j < i
    <2>1. EntryAdc(j + 1) <= EntryAdc(i)
      BY <1>1, <1>4, Ordered DEF TableSize
    <2> QED
      BY <1>2, <2>1 DEF Around, Reading
  <1> QED
    BY <1>3, <1>4 DEF TableSize

(* What every turn of the loop keeps: a bracket of the table around the    *)
(* reading, no wider than "width".                                         *)
Closing(b, width, reading) ==
  /\ b \in [low : Entry, high : Entry]
  /\ b.low < b.high /\ b.high - b.low <= width
  /\ EntryAdc(b.low) <= reading /\ reading < EntryAdc(b.high)

LEMMA Middle ==
  ASSUME NEW low \in Nat, NEW high \in Nat, NEW width \in Nat,
         high - low > 1, high - low <= 2 * width
  PROVE  /\ (low + high) \div 2 \in Nat
         /\ low < (low + high) \div 2 /\ (low + high) \div 2 < high
         /\ (low + high) \div 2 - low <= width /\ high - (low + high) \div 2 <= width
  BY SMT

LEMMA Halves ==
  ASSUME NEW b, NEW width \in Nat \ {0}, NEW reading \in Reading,
         Closing(b, 2 * width, reading)
  PROVE  Closing(Halve(b, reading), width, reading)
  <1> DEFINE mid == (b.low + b.high) \div 2
  <1>1. /\ b.low \in 0..114 /\ b.high \in 0..114
        /\ b.low < b.high /\ b.high - b.low <= 2 * width
    BY DEF Closing, Entry, TableSize
  <1>2. CASE b.high - b.low <= 1
    BY <1>1, <1>2 DEF Halve, Closing
  <1>3. CASE ~(b.high - b.low <= 1)
    <2>1. /\ mid \in 0..114 /\ b.low < mid /\ mid < b.high
          /\ mid - b.low <= width /\ b.high - mid <= width
      <3>1. b.low \in Nat /\ b.high \in Nat /\ width \in Nat /\ b.high - b.low > 1
        BY <1>1, <1>3
      <3>2. /\ mid \in Nat /\ b.low < mid /\ mid < b.high
            /\ mid - b.low <= width /\ b.high - mid <= width
        BY <1>1, <3>1, Middle
      <3> HIDE DEF mid
      <3> QED
        BY <1>1, <3>2
    <2>2. mid \in Entry /\ EntryAdc(mid) \in Int /\ reading \in Int
      BY <2>1, Readings DEF Entry, TableSize, Reading
    <2> HIDE DEF mid
    <2>3. Halve(b, reading) = IF reading < EntryAdc(mid) THEN [b EXCEPT !.high = mid]
                              ELSE [b EXCEPT !.low = mid]
      BY <1>3 DEF Halve, mid
    <2>4. CASE reading < EntryAdc(mid)
      BY <2>1, <2>2, <2>3, <2>4 DEF Closing
    <2>5. CASE ~(reading < EntryAdc(mid))
      BY <2>1, <2>2, <2>3, <2>5 DEF Closing
    <2> QED
      BY <2>4, <2>5
  <1> QED
    BY <1>2, <1>3

(* The brackets of the turns, in a list: the function of Search exists.    *)
Whole == [low |-> 0, high |-> TableSize - 1]

LEMMA SearchTurns ==
  ASSUME NEW reading
  PROVE  /\ Search(reading)[0] = Whole
         /\ \A n \in 1..MaxTurns : Search(reading)[n] = Halve(Search(reading)[n - 1], reading)
  <1> DEFINE Turn(b) == Halve(b, reading)
             b1 == Turn(Whole)  b2 == Turn(b1)  b3 == Turn(b2)  b4 == Turn(b3)
             b5 == Turn(b4)     b6 == Turn(b5)  b7 == Turn(b6)
             list == <<Whole, b1, b2, b3, b4, b5, b6, b7>>
             f == [n \in 0..MaxTurns |-> list[n + 1]]
             Found(g) == g = [n \in 0..MaxTurns |->
                                IF n = 0 THEN Whole ELSE Halve(g[n - 1], reading)]
  <1>1. Found(f)
    <2> HIDE DEF Turn
    <2>1. \A n \in 0..MaxTurns : f[n] = IF n = 0 THEN Whole ELSE Turn(f[n - 1])
      BY DEF MaxTurns
    <2> QED
      BY <2>1 DEF Turn
  <1>2. Search(reading) = CHOOSE g : Found(g)
    BY DEF Search, Whole
  <1> HIDE DEF f
  <1>3. Found(Search(reading))
    BY <1>1, <1>2
  <1>4. 0 \in 0..MaxTurns /\ \A n \in 1..MaxTurns : n \in 0..MaxTurns /\ n # 0
    BY DEF MaxTurns
  <1> QED
    BY <1>3, <1>4

(* Seven turns of the loop end at the entries next to the reading.         *)
LEMMA BracketFound ==
  ASSUME NEW reading \in Reading,
         EntryAdc(0) <= reading, reading < EntryAdc(TableSize - 1)
  PROVE  Bracket(reading) \in 0..TableSize - 2 /\ Around(Bracket(reading), reading)
  <1> DEFINE b == Search(reading)
  <1>1. b[0] = Whole /\ \A n \in 1..MaxTurns : b[n] = Halve(b[n - 1], reading)
    BY SearchTurns
  <1> HIDE DEF b
  <1>2. Closing(b[0], 128, reading)
    BY <1>1 DEF Closing, Whole, Entry, TableSize
  <1>3. ASSUME NEW n \in 1..MaxTurns, NEW width \in Nat \ {0},
               Closing(b[n - 1], 2 * width, reading)
        PROVE  Closing(b[n], width, reading)
    BY <1>1, <1>3, Halves
  <1>4. Closing(b[1], 64, reading)
    BY <1>2, <1>3 DEF MaxTurns
  <1>5. Closing(b[2], 32, reading)
    BY <1>3, <1>4 DEF MaxTurns
  <1>6. Closing(b[3], 16, reading)
    BY <1>3, <1>5 DEF MaxTurns
  <1>7. Closing(b[4], 8, reading)
    BY <1>3, <1>6 DEF MaxTurns
  <1>8. Closing(b[5], 4, reading)
    BY <1>3, <1>7 DEF MaxTurns
  <1>9. Closing(b[6], 2, reading)
    BY <1>3, <1>8 DEF MaxTurns
  <1>10. Closing(b[7], 1, reading)
    BY <1>3, <1>9 DEF MaxTurns
  <1>11. /\ b[7].low \in 0..TableSize - 2 /\ b[7].high = b[7].low + 1
         /\ EntryAdc(b[7].low) <= reading /\ reading < EntryAdc(b[7].high)
    BY <1>10 DEF Closing, Entry, TableSize
  <1> QED
    BY <1>11 DEF Around, Bracket, MaxTurns, b

-----------------------------------------------------------------------------
(* The conversion.                                                         *)

(* The mean of two entries, which are a degree apart, is cut off toward    *)
(* zero: to the colder one above zero, to the hotter one below.            *)
LEMMA Mean ==
  ASSUME NEW low \in 0..TableSize - 2
  PROVE  DivC(EntryTemp(low + 1) + EntryTemp(low), 2) =
           IF low <= 84 THEN EntryTemp(low + 1) ELSE EntryTemp(low)
  BY DEF DivC, EntryTemp, HottestTemp, TableSize

LEMMA Ends == /\ EntryAdc(0) = 88 /\ EntryAdc(TableSize - 1) = 648
              /\ \A i \in 0..TableSize - 2 :
                   88 <= EntryAdc(i) /\ EntryAdc(i) < EntryAdc(i + 1) /\ EntryAdc(i + 1) <= 648
  <1>1. EntryAdc(0) = 88 /\ EntryAdc(TableSize - 1) = 648
    BY DEF EntryAdc, TableAdc, TableSize
  <1>2. ASSUME NEW i \in 0..TableSize - 2
        PROVE  EntryAdc(0) <= EntryAdc(i) /\ EntryAdc(i + 1) <= EntryAdc(TableSize - 1)
    <2>1. /\ 0 \in Entry /\ i \in Entry /\ i + 1 \in Entry /\ TableSize - 1 \in Entry
          /\ 0 <= i /\ i + 1 <= TableSize - 1
      BY DEF Entry, TableSize
    <2> QED
      BY <2>1, Ordered
  <1> QED
    BY <1>1, <1>2, Rises

(* What is reported for a reading between two entries: the hottest one is  *)
(* reported for its own reading too.                                       *)
LEMMA Converted ==
  ASSUME NEW reading \in Reading, NEW i \in 0..TableSize - 2, Around(i, reading)
  PROVE  ADCToTemp(reading) =
           IF reading = 88 THEN EntryTemp(0)
           ELSE IF i <= 84 THEN EntryTemp(i + 1) ELSE EntryTemp(i)
  <1>1. reading \in Int /\ EntryAdc(i) \in Int /\ EntryAdc(i + 1) \in Int
    BY Readings DEF Reading, Entry, TableSize
  <1>2. 88 <= reading /\ reading < 648
    BY <1>1, Ends DEF Around
  <1>3. CASE reading = 88
    BY <1>3, Ends DEF ADCToTemp
  <1>4. CASE reading # 88
    <2>1. ~(reading <= EntryAdc(0)) /\ ~(reading >= EntryAdc(TableSize - 1))
      BY <1>1, <1>2, <1>4, Ends
    <2>2. Bracket(reading) = i
      <3>1. Bracket(reading) \in 0..TableSize - 2 /\ Around(Bracket(reading), reading)
        BY <1>1, <1>2, BracketFound, Ends
      <3> QED
        BY <3>1, OneBracket
    <2> QED
      BY <1>4, <2>1, <2>2, Mean DEF ADCToTemp
  <1> QED
    BY <1>3, <1>4

LEMMA ConvertedPastTheEnds ==
  ASSUME NEW reading \in Reading
  PROVE  /\ reading <= 88 => ADCToTemp(reading) = EntryTemp(0)
         /\ reading >= 648 => ADCToTemp(reading) = EntryTemp(TableSize - 1)
  BY Ends DEF ADCToTemp, Reading

LEMMA Somewhere ==
  ASSUME NEW reading \in Reading
  PROVE  \/ reading < 88
         \/ reading >= 648
         \/ \E i \in 0..TableSize - 2 : Around(i, reading)
  <1>1. SUFFICES ASSUME 88 <= reading, reading < 648
                 PROVE  \E i \in 0..TableSize - 2 : Around(i, reading)
    BY DEF Reading
  <1> QED
    <2>1. EntryAdc(0) <= reading /\ reading < EntryAdc(TableSize - 1)
      BY <1>1, Ends
    <2>2. Bracket(reading) \in 0..TableSize - 2 /\ Around(Bracket(reading), reading)
      BY <2>1, BracketFound
    <2> QED
      BY <2>2

(* A count more is the same degree or the next colder one.                 *)
LEMMA SmallStep ==
  ASSUME NEW reading \in Reading, reading + 1 \in Reading
  PROVE  /\ ADCToTemp(reading) \in Int /\ ADCToTemp(reading + 1) \in Int
         /\ ADCToTemp(reading + 1) <= ADCToTemp(reading)
         /\ ADCToTemp(reading) - ADCToTemp(reading + 1) <= 1
  <1>1. CASE reading + 1 <= 88
    BY <1>1, ConvertedPastTheEnds DEF Reading, EntryTemp, HottestTemp
  <1>2. CASE reading >= 648
    <2>1. reading + 1 >= 648
      BY <1>2 DEF Reading
    <2>2. ADCToTemp(reading) = -29 /\ ADCToTemp(reading + 1) = -29
      BY <1>2, <2>1, ConvertedPastTheEnds DEF EntryTemp, HottestTemp, TableSize
    <2> QED
      BY <2>2
  <1>3. CASE ~(reading + 1 <= 88) /\ ~(reading >= 648)
    <2>1. PICK i \in 0..TableSize - 2 : Around(i, reading)
      <3>1. ~(reading < 88) /\ ~(reading >= 648)
        BY <1>3 DEF Reading
      <3> QED
        BY <3>1, Somewhere, Zenon
    <2>2. /\ reading \in Int /\ EntryAdc(i) \in Int /\ EntryAdc(i + 1) \in Int
      BY Readings DEF Reading, Entry, TableSize
    <2>3. ADCToTemp(reading) = IF reading = 88 THEN EntryTemp(0)
                               ELSE IF i <= 84 THEN EntryTemp(i + 1) ELSE EntryTemp(i)
      BY <2>1, Converted
    <2>4. reading = 88 => i = 0
      <3>1. 0 \in 0..TableSize - 2
        BY DEF TableSize
      <3>2. Around(0, 88)
        BY <3>1, Ends, Rises DEF Around
      <3> QED
        BY <2>1, <3>1, <3>2, OneBracket
    <2>5. CASE reading + 1 < EntryAdc(i + 1)
      <3>1. Around(i, reading + 1)
        BY <2>1, <2>2, <2>5 DEF Around
      <3>2. ADCToTemp(reading + 1) = IF i <= 84 THEN EntryTemp(i + 1) ELSE EntryTemp(i)
        BY <1>3, <2>2, <3>1, Converted
      <3> QED
        BY <2>3, <2>4, <3>2 DEF EntryTemp, HottestTemp, TableSize
    <2>6. CASE reading + 1 = EntryAdc(i + 1) /\ i = TableSize - 2
      <3>1. reading + 1 = 648 /\ ADCToTemp(reading + 1) = EntryTemp(TableSize - 1)
        BY <2>6, Ends, ConvertedPastTheEnds DEF TableSize
      <3> QED
        BY <2>3, <2>4, <2>6, <3>1 DEF EntryTemp, HottestTemp, TableSize
    <2>7. CASE reading + 1 = EntryAdc(i + 1) /\ i # TableSize - 2
      <3>1. i + 1 \in 0..TableSize - 2
        BY <2>7 DEF TableSize
      <3>2. Around(i + 1, reading + 1)
        BY <2>7, <3>1, Rises, Readings DEF Around, Reading
      <3>3. ADCToTemp(reading + 1) =
              IF i + 1 <= 84 THEN EntryTemp((i + 1) + 1) ELSE EntryTemp(i + 1)
        BY <1>3, <2>2, <3>1, <3>2, Converted
      <3>4. reading # 88
        <4>1. EntryAdc(0 + 1) = 90
          BY DEF EntryAdc, TableAdc
        <4> QED
          BY <2>4, <2>7, <4>1
      <3> QED
        BY <2>3, <3>3, <3>4 DEF EntryTemp, HottestTemp, TableSize
    <2> QED
      BY <2>1, <2>2, <2>5, <2>6, <2>7 DEF Around
  <1> QED
    BY <1>1, <1>2, <1>3

-----------------------------------------------------------------------------
(* The bit timing.                                                         *)

LEMMA Segments ==
  ASSUME NEW tq \in Quanta
  PROVE  /\ Seg2(tq) = (tq - 1) \div 4
         /\ Seg2(tq) \in 1..6
         /\ tq <= 8 * Seg2(tq) /\ 4 * Seg2(tq) <= tq
         /\ Min({4, Seg2(tq)}) \in 1..Seg2(tq)
  <1>1. (tq - 1) \div 4 \in 1..6 /\ tq <= 8 * ((tq - 1) \div 4) /\ 4 * ((tq - 1) \div 4) <= tq
    BY DEF Quanta
  <1>2. Seg2(tq) = (tq - 1) \div 4
    BY <1>1, Upper DEF Seg2
  <1>3. Min({4, Seg2(tq)}) \in 1..Seg2(tq)
    <2>1. Seg2(tq) \in Int /\ 4 \in Int /\ Seg2(tq) >= 1
      BY <1>1, <1>2
    <2>2. Min({4, Seg2(tq)}) = IF 4 <= Seg2(tq) THEN 4 ELSE Seg2(tq)
      BY <2>1, Lower
    <2> QED
      BY <2>1, <2>2
  <1> QED
    BY <1>1, <1>2, <1>3

(* Any number of quanta from 8 to 25 gives legal fields.                   *)
Legal(t) ==
  /\ t.presc \in Prescalers
  /\ t.seg1 \in 2..256 /\ t.seg2 \in 1..128
  /\ 1 + t.seg1 + t.seg2 = t.tq
  /\ t.sjw \in 1..t.seg2
  /\ 75 * t.tq <= 100 * (1 + t.seg1) /\ 1000 * (1 + t.seg1) <= 875 * t.tq

LEMMA TimingLegal ==
  ASSUME NEW tq \in Quanta, NEW presc \in Prescalers
  PROVE  Legal(Timing(tq, presc))
  <1> DEFINE t == Timing(tq, presc)
             s == Seg2(tq)
  <1>1. /\ t.presc = presc /\ t.tq = tq /\ t.seg1 = tq - 1 - s /\ t.seg2 = s
        /\ t.sjw = Min({4, s})
    BY DEF Timing
  <1>2. s \in 1..6 /\ tq <= 8 * s /\ 4 * s <= tq /\ Min({4, s}) \in 1..s
    BY Segments
  <1>3. tq \in 8..25
    BY DEF Quanta
  <1> HIDE DEF t, s
  <1>4. /\ tq - 1 - s \in 2..256 /\ s \in 1..128 /\ 1 + (tq - 1 - s) + s = tq
        /\ 75 * tq <= 100 * (1 + (tq - 1 - s)) /\ 1000 * (1 + (tq - 1 - s)) <= 875 * tq
    BY <1>2, <1>3
  <1>5. Legal(t)
    BY <1>1, <1>2, <1>4 DEF Legal
  <1> QED
    BY <1>5 DEF t

(* What divides, divides exactly.                                          *)
LEMMA Quotient ==
  ASSUME NEW a \in Nat \ {0}, NEW b \in Nat
  PROVE  (a * b) % a = 0 /\ (a * b) \div a = b
  BY Z3

LEMMA Factors ==
  ASSUME NEW n \in Nat, NEW a \in Nat \ {0}, n % a = 0
  PROVE  n = a * (n \div a)
  BY Z3

LEMMA HitsExactly ==
  ASSUME NEW k \in Nat \ {0}, NEW tq \in Quanta, NEW presc \in Prescalers
  PROVE  Hits(k, tq, presc) <=> presc * tq * k = 85000
  <1> DEFINE a == presc * tq
  <1>1. a \in Nat \ {0}
    BY Z3 DEF Quanta, Prescalers
  <1>2. ASSUME Hits(k, tq, presc)
        PROVE  presc * tq * k = 85000
    <2>1. Clock % a = 0 /\ Clock \div a = k * 1000
      BY <1>2 DEF Hits, BitRate
    <2> HIDE DEF a
    <2>2. Clock = a * (k * 1000)
      BY <1>1, <2>1, Factors DEF Clock
    <2>3. a * (k * 1000) = (a * k) * 1000 /\ a * k \in Nat
      BY <1>1, Z3
    <2>4. a * k = 85000
      BY <2>2, <2>3 DEF Clock
    <2> QED
      BY <2>4 DEF a
  <1>3. ASSUME presc * tq * k = 85000
        PROVE  Hits(k, tq, presc)
    <2>1. a * k = 85000
      BY <1>3
    <2> HIDE DEF a
    <2>2. a * (k * 1000) = (a * k) * 1000 /\ k * 1000 \in Nat
      BY <1>1, Z3
    <2>3. a * (k * 1000) = Clock
      BY <2>1, <2>2 DEF Clock
    <2>4. Clock % a = 0 /\ Clock \div a = k * 1000
      BY <1>1, <2>2, <2>3, Quotient
    <2> QED
      BY <2>4 DEF a, Hits, BitRate
  <1> QED
    BY <1>2, <1>3

(* The search for an exact rate: the first of the numbers of quanta with   *)
(* a prescaler, and the first of its prescalers.                           *)
LEMMA FindsExact ==
  ASSUME NEW k, Exact(k) # {}
  PROVE  \E tq \in Quanta, presc \in Prescalers :
           Hits(k, tq, presc) /\ FindTiming(Exact(k)) = Timing(tq, presc)
  <1> DEFINE tqs == {e[1] : e \in Exact(k)}
             tq  == Min(tqs)
             prescs == {e[2] : e \in {x \in Exact(k) : x[1] = tq}}
             presc  == Min(prescs)
  <1>1. \A e \in Exact(k) : e \in Quanta \X Prescalers /\ Hits(k, e[1], e[2])
    BY DEF Exact
  <1>2. \A e \in Exact(k) : e[1] \in Quanta /\ e[2] \in Prescalers
    BY <1>1
  <1>3. tq \in tqs
    <2>1. tqs \subseteq Nat
      BY <1>2 DEF Quanta
    <2>2. tqs # {}
      OBVIOUS
    <2> HIDE DEF tqs
    <2> QED
      BY <2>1, <2>2, MinLeast
  <1>4. PICK e \in Exact(k) : e[1] = tq
    BY <1>3
  <1> HIDE DEF tq
  <1>5. presc \in prescs
    <2>1. prescs \subseteq Nat
      BY <1>2 DEF Prescalers
    <2>2. prescs # {}
      BY <1>4
    <2> HIDE DEF prescs
    <2> QED
      BY <2>1, <2>2, MinLeast
  <1>6. PICK x \in Exact(k) : x[1] = tq /\ x[2] = presc
    BY <1>5
  <1>7. tq \in Quanta /\ presc \in Prescalers /\ Hits(k, tq, presc)
    BY <1>1, <1>2, <1>6
  <1>8. FindTiming(Exact(k)) = Timing(tq, presc)
    BY DEF FindTiming, tq
  <1> QED
    BY <1>7, <1>8

LEMMA Possible ==
  ASSUME NEW k \in Nat \ {0}
  PROVE  (\E tq \in Quanta : 85000 % (tq * k) = 0 /\ 85000 \div (tq * k) \in Prescalers)
           <=> Exact(k) # {}
  <1>1. ASSUME NEW tq \in Quanta, 85000 % (tq * k) = 0, 85000 \div (tq * k) \in Prescalers
        PROVE  Exact(k) # {}
    <2> DEFINE a == tq * k
               presc == 85000 \div a
    <2>1. a \in Nat \ {0}
      BY Z3 DEF Quanta
    <2>2. 85000 % a = 0 /\ presc \in Prescalers
      BY <1>1
    <2> HIDE DEF a
    <2>3. 85000 = a * presc
      BY <2>1, <2>2, Factors
    <2> HIDE DEF presc
    <2>4. presc * tq * k = a * presc
      BY <2>2, Z3 DEF a, Quanta, Prescalers
    <2>5. Hits(k, tq, presc)
      BY <2>2, <2>3, <2>4, HitsExactly
    <2>6. <<tq, presc>> \in Exact(k)
      BY <2>2, <2>5 DEF Exact
    <2> QED
      BY <2>6
  <1>2. ASSUME Exact(k) # {}
        PROVE  \E tq \in Quanta : 85000 % (tq * k) = 0 /\ 85000 \div (tq * k) \in Prescalers
    <2>1. PICK tq \in Quanta, presc \in Prescalers : Hits(k, tq, presc)
      BY <1>2, FindsExact
    <2> DEFINE a == tq * k
    <2>2. presc * tq * k = 85000
      BY <2>1, HitsExactly
    <2>3. a \in Nat \ {0}
      BY Z3 DEF Quanta
    <2>4. a * presc = presc * tq * k
      BY Z3 DEF Quanta, Prescalers
    <2> HIDE DEF a
    <2>5. 85000 % a = 0 /\ 85000 \div a = presc
      BY <2>2, <2>3, <2>4, Quotient DEF Prescalers
    <2> QED
      BY <2>5 DEF a
  <1> QED
    BY <1>1, <1>2

(* The distance of a bit time from the one asked for, both in ticks of the *)
(* clock times the rate.                                                   *)
Asked == 85000

Error(ticks) == IF ticks - Asked < 0 THEN -(ticks - Asked) ELSE ticks - Asked

LEMMA Multiples ==
  ASSUME NEW d \in Nat, NEW x \in Nat, NEW y \in Nat, x <= y
  PROVE  x * d \in Nat /\ y * d \in Nat /\ x * d <= y * d /\ (x < y => x * d + d <= y * d)
  <1>1. PICK z \in Nat : y = x + z
    BY SMT
  <1>2. y * d = x * d + z * d /\ x * d \in Nat /\ z * d \in Nat
    BY <1>1, Z3
  <1>3. CASE x < y
    <2>1. z - 1 \in Nat
      BY <1>1, <1>3
    <2>2. z * d = (z - 1) * d + d /\ (z - 1) * d \in Nat
      BY <2>1, Z3
    <2> QED
      BY <1>2, <2>2
  <1> QED
    BY <1>2, <1>3

LEMMA InOrder == \A d, x, y \in Nat : x <= y => x * d <= y * d
  BY Multiples

LEMMA Apart == \A d, x, y \in Nat : x < y => x * d + d <= y * d
  BY Multiples

(* A multiple of d within d / 2 of what is asked for is the nearest, and   *)
(* the nearer end of the range is the nearest there is.                    *)
LEMMA Nearest ==
  ASSUME NEW d \in Nat, NEW pd \in Nat, NEW qd \in Nat, NEW rd \in Nat,
         2 * qd <= 2 * Asked + d, 2 * Asked < 2 * qd + d,
         \/ rd = qd /\ (pd = qd \/ pd + d <= qd \/ qd + d <= pd)
         \/ qd = 0 /\ rd = d /\ rd <= pd
         \/ pd <= rd /\ rd + d <= qd
  PROVE  Error(rd) <= Error(pd)
  BY DEF Error, Asked

(* The prescaler q, cut to the range of prescalers, and any other one.     *)
LEMMA Cut ==
  ASSUME NEW d \in Nat, NEW q \in Nat, NEW p \in Prescalers,
         NEW r, r = (IF q < 1 THEN 1 ELSE IF q > 512 THEN 512 ELSE q)
  PROVE  \/ r * d = q * d /\ (\/ p * d = q * d \/ p * d + d <= q * d \/ q * d + d <= p * d)
         \/ q * d = 0 /\ r * d = d /\ r * d <= p * d
         \/ p * d <= r * d /\ r * d + d <= q * d
  <1>1. p \in Nat /\ 1 <= p /\ p <= 512
    BY DEF Prescalers
  <1>2. CASE q < 1
    <2>1. q = 0 /\ r = 1
      BY <1>2
    <2>2. 0 * d = 0 /\ 1 * d = d
      BY Z3
    <2>3. 1 * d <= p * d
      BY <1>1, InOrder
    <2> QED
      BY <2>1, <2>2, <2>3
  <1>3. CASE q > 512
    <2>1. r = 512 /\ r \in Nat /\ p <= r /\ r < q
      BY <1>1, <1>3
    <2> QED
      BY <1>1, <2>1, InOrder, Apart
  <1>4. CASE ~(q < 1) /\ ~(q > 512)
    <2>1. r = q
      BY <1>4
    <2>2. p = q \/ p < q \/ q < p
      BY <1>1
    <2> QED
      BY <1>1, <2>1, <2>2, Apart
  <1> QED
    BY <1>2, <1>3, <1>4

LEMMA FallbackNearest ==
  ASSUME NEW k \in Nat \ {0}
  PROVE  /\ FallbackPrescaler(k) \in Prescalers
         /\ \A p \in Prescalers : Error(FallbackPrescaler(k) * (Fallback * k))
                                <= Error(p * (Fallback * k))
  <1> DEFINE d == Fallback * k
             bits == BitRate(k) * Fallback
             q == (Clock + bits \div 2) \div bits
             r == FallbackPrescaler(k)
  <1>1. d \in Nat \ {0} /\ bits = 1000 * d
    BY DEF BitRate, Fallback
  <1>2. bits \div 2 = 500 * d
    BY <1>1
  <1> HIDE DEF d, bits
  <1>3. q \in Nat /\ q * bits <= Clock + bits \div 2 /\ Clock + bits \div 2 < q * bits + bits
    <2>1. bits \in Nat \ {0} /\ Clock + bits \div 2 \in Nat
      BY <1>1, <1>2 DEF Clock
    <2> DEFINE n == Clock + bits \div 2
    <2> HIDE DEF n
    <2>2. n \in Nat
      BY <2>1 DEF n
    <2>3. n \div bits \in Nat /\ (n \div bits) * bits <= n /\ n < (n \div bits) * bits + bits
      BY <2>1, <2>2, Z3
    <2> QED
      BY <2>3 DEF n
  <1>4. r = IF q < 1 THEN 1 ELSE IF q > 512 THEN 512 ELSE q
    <2>1. r = Max({1, Min({512, q})}) /\ q \in Int /\ 512 \in Int /\ 1 \in Int
      BY <1>3 DEF FallbackPrescaler, bits
    <2> HIDE DEF q, r
    <2>2. Min({512, q}) = IF 512 <= q THEN 512 ELSE q
      BY <2>1, Lower
    <2> DEFINE m == Min({512, q})
    <2>3. m \in Int
      BY <2>1, <2>2
    <2> HIDE DEF m
    <2>4. r = IF 1 >= m THEN 1 ELSE m
      BY <2>1, <2>3, Upper DEF m
    <2>5. m = IF 512 <= q THEN 512 ELSE q
      BY <2>2 DEF m
    <2> QED
      BY <1>3, <2>4, <2>5
  <1> HIDE DEF q, r
  <1>5. q * bits = 1000 * (q * d) /\ q * d \in Nat
    BY <1>1, <1>3, Z3
  <1>6. 2 * (q * d) <= 2 * Asked + d /\ 2 * Asked < 2 * (q * d) + d
    BY <1>1, <1>2, <1>3, <1>5, SMT DEF Clock, Asked
  <1>7. r \in Prescalers
    BY <1>3, <1>4 DEF Prescalers
  <1>8. ASSUME NEW p \in Prescalers
        PROVE  Error(r * d) <= Error(p * d)
    <2>1. d \in Nat /\ q \in Nat /\ p \in Nat /\ r \in Nat
      BY <1>1, <1>3, <1>7 DEF Prescalers
    <2>2. p * d \in Nat /\ q * d \in Nat /\ r * d \in Nat
      BY <2>1, Z3
    <2> QED
      BY <1>4, <1>6, <2>1, <2>2, Cut, Nearest
  <1> QED
    BY <1>7, <1>8 DEF r, d

(* The timing of every rate.                                               *)
LEMMA Chosen ==
  ASSUME NEW k \in Nat \ {0}
  PROVE  \E tq \in Quanta, presc \in Prescalers :
           /\ InitTiming(k) = Timing(tq, presc)
           /\ IF Exact(k) # {} THEN presc * tq * k = 85000
              ELSE /\ tq = Fallback
                   /\ \A p \in Prescalers : Error(presc * (Fallback * k)) <= Error(p * (Fallback * k))
  <1>1. CASE Exact(k) # {}
    <2>1. PICK tq \in Quanta, presc \in Prescalers :
            Hits(k, tq, presc) /\ FindTiming(Exact(k)) = Timing(tq, presc)
      BY <1>1, FindsExact
    <2>2. InitTiming(k) = Timing(tq, presc)
      BY <1>1, <2>1 DEF InitTiming
    <2>3. presc * tq * k = 85000
      BY <2>1, HitsExactly
    <2> QED
      BY <1>1, <2>2, <2>3
  <1>2. CASE Exact(k) = {}
    <2>1. InitTiming(k) = Timing(Fallback, FallbackPrescaler(k))
      BY <1>2 DEF InitTiming
    <2>2. Fallback \in Quanta
      BY DEF Fallback, Quanta
    <2> QED
      BY <1>2, <2>1, <2>2, FallbackNearest
  <1> QED
    BY <1>1, <1>2

-----------------------------------------------------------------------------
(* The sweep: what is shown is what the code computes of the inputs.       *)
SweepInv ==
  /\ adc \in Reading /\ temp = ADCToTemp(adc)
  /\ kbps \in Nat \ {0} /\ timing = InitTiming(kbps)

LEMMA SweepHolds == Spec => []SweepInv
  <1>1. Init => SweepInv
    BY DEF Init, SweepInv, Reading
  <1>2. SweepInv /\ [Next]_vars => SweepInv'
    BY DEF SweepInv, Next, Step, vars
  <1> QED
    BY <1>1, <1>2, PTL DEF Spec

LEMMA BracketHolds == SweepInv => WithinBracket
  <1> SUFFICES ASSUME SweepInv PROVE WithinBracket
    OBVIOUS
  <1>1. adc \in Reading /\ temp = ADCToTemp(adc)
    BY DEF SweepInv
  <1>2. /\ adc <= EntryAdc(0) => temp = EntryTemp(0)
        /\ adc >= EntryAdc(TableSize - 1) => temp = EntryTemp(TableSize - 1)
    BY <1>1, Ends, ConvertedPastTheEnds
  <1>3. ASSUME NEW i \in 0..TableSize - 2, adc > EntryAdc(0), Around(i, adc)
        PROVE  temp = IF EntryTemp(i) > 0 THEN EntryTemp(i + 1) ELSE EntryTemp(i)
    <2>1. temp = IF i <= 84 THEN EntryTemp(i + 1) ELSE EntryTemp(i)
      <3>1. adc # 88
        BY <1>1, <1>3, Ends DEF Reading
      <3> QED
        BY <1>1, <1>3, <3>1, Converted
    <2>2. EntryTemp(i) > 0 <=> i <= 84
      BY DEF EntryTemp, HottestTemp, TableSize
    <2> QED
      BY <2>1, <2>2
  <1> QED
    BY <1>2, <1>3 DEF WithinBracket, Around

LEMMA StepIsSmall ==
  SweepInv /\ [Next]_vars => [temp' <= temp /\ temp - temp' <= 1]_vars
  <1>1. ASSUME SweepInv, Step
        PROVE  temp' <= temp /\ temp - temp' <= 1
    BY <1>1, SmallStep DEF SweepInv, Step
  <1> QED
    BY <1>1 DEF Next

LEMMA FieldsHold == SweepInv => FieldsLegal
  <1> SUFFICES ASSUME SweepInv PROVE FieldsLegal
    OBVIOUS
  <1>1. PICK tq \in Quanta, presc \in Prescalers : timing = Timing(tq, presc)
    BY Chosen DEF SweepInv
  <1> QED
    BY <1>1, TimingLegal DEF Legal, FieldsLegal

LEMMA RateHolds == SweepInv => NearestRate
  <1> SUFFICES ASSUME SweepInv PROVE NearestRate
    OBVIOUS
  <1>1. PICK tq \in Quanta, presc \in Prescalers :
          /\ timing = Timing(tq, presc)
          /\ IF Exact(kbps) # {} THEN presc * tq * kbps = 85000
             ELSE /\ tq = Fallback
                  /\ \A p \in Prescalers :
                       Error(presc * (Fallback * kbps)) <= Error(p * (Fallback * kbps))
    BY Chosen DEF SweepInv
  <1>2. timing.presc = presc /\ timing.tq = tq
    BY <1>1 DEF Timing
  <1>3. kbps \in Nat \ {0}
    BY DEF SweepInv
  <1>4. CASE Exact(kbps) # {}
    BY <1>1, <1>2, <1>3, <1>4, Possible DEF NearestRate
  <1>5. CASE Exact(kbps) = {}
    <2>1. \A p \in Prescalers : p * (Fallback * kbps) = p * Fallback * kbps
      BY <1>3, Z3 DEF Fallback, Prescalers
    <2>2. \A p \in Prescalers : Error(presc * Fallback * kbps) <= Error(p * Fallback * kbps)
      BY <1>1, <1>5, <2>1
    <2> QED
      BY <1>1, <1>2, <1>3, <1>5, <2>2, Possible DEF NearestRate, Error, Asked
  <1> QED
    BY <1>4, <1>5

(* The search ends at the entries around the reading, whatever path it     *)
(* took (Thermistor_ADCToTemp), because each turn keeps the reading in the *)
(* bracket and halves it, and the table rises; of the two the one nearer   *)
(* to zero is reported, and past the ends the end.                         *)
THEOREM ConversionBracketed == Spec => []WithinBracket
  BY SweepHolds, BracketHolds, PTL

(* From one reading to the next the temperature falls by a degree or not   *)
(* at all: over the whole table, its ends and the change of rounding at    *)
(* zero.                                                                   *)
THEOREM ConversionMonotone == Spec => MonotoneInSmallSteps
  BY SweepHolds, StepIsSmall, PTL DEF Spec, MonotoneInSmallSteps

(* Whatever number of quanta and prescaler the search or its fallback      *)
(* chooses, the controller takes the fields (CAN_FindTiming).              *)
THEOREM TimingLegalAlways == Spec => []FieldsLegal
  BY SweepHolds, FieldsHold, PTL

(* A rate that can be hit exactly is; otherwise rounding the prescaler     *)
(* gives the nearest (CAN_FindTiming, CAN_Comm_Init_kbps).                 *)
THEOREM RateNearest == Spec => []NearestRate
  BY SweepHolds, RateHolds, PTL
=============================================================================
