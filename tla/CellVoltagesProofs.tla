------------------------- MODULE CellVoltagesProofs -------------------------
(***************************************************************************)
(* Proof about CellVoltages, for any measurements, changing at any time.   *)
(***************************************************************************)
EXTENDS CellVoltages, SequenceTheorems, TLAPS

WordsIn(registers) == \A n \in 1..16 : registers[n] \in Word

LEMMA MeasuredWords == \A registers \in Measurements : WordsIn(registers)
  <1> SUFFICES ASSUME NEW registers \in Measurements, NEW n \in 1..16
               PROVE  registers[n] \in Word
    BY DEF WordsIn
  <1>1. registers \in [1..16 -> Word]
    BY MeasurementsAssumption, Zenon DEF RegisterCount
  <1> QED
    BY <1>1

(* Arithmetic of single values: nothing overflows, and two bytes make up   *)
(* the word they were taken from.                                          *)
Small == 0..12499
Offsets == {0, 1000, 1300}

(* Membership in the two ranges, as inequalities.                         *)
LEMMA Bounds ==
  ASSUME NEW hi \in Nat, NEW w
  PROVE  w \in 0..hi <=> w \in Int /\ 0 <= w /\ w <= hi
  OBVIOUS

LEMMA WordBounds == \A w : w \in Word <=> w \in Int /\ 0 <= w /\ w <= 65535
  <1> DEFINE hi == 65535
  <1>1. hi \in Nat
    OBVIOUS
  <1>2. Word = 0..hi
    BY DEF Word
  <1>3. hi = 65535
    OBVIOUS
  <1> HIDE DEF hi
  <1>4. \A w : w \in Word <=> w \in Int /\ 0 <= w /\ w <= hi
    BY <1>1, <1>2, Bounds
  <1> QED
    BY <1>3, <1>4

LEMMA SmallBounds == \A w : w \in Small <=> w \in Int /\ 0 <= w /\ w <= 12499
  <1> DEFINE hi == 12499
  <1>1. hi \in Nat
    OBVIOUS
  <1>2. Small = 0..hi
    BY DEF Small
  <1>3. hi = 12499
    OBVIOUS
  <1> HIDE DEF hi
  <1>4. \A w : w \in Small <=> w \in Int /\ 0 <= w /\ w <= hi
    BY <1>1, <1>2, Bounds
  <1> QED
    BY <1>3, <1>4

LEMMA MillivoltsSmall == \A a \in Word : Millivolts(a) \in Small
  BY WordBounds, SmallBounds DEF Millivolts

LEMMA NoOverflow == \A v \in Small, c \in Offsets : AsWord(v + c) = v + c /\ v + c \in Word
  BY SmallBounds, WordBounds DEF Offsets, AsWord

LEMMA BytesJoin == \A v \in Word : Bytes(v)[1] + 256 * Bytes(v)[2] = v
  BY WordBounds DEF Bytes

LEMMA VoltageIs ==
  ASSUME NEW registers, NEW n \in 1..CellCount
  PROVE  /\ VoltageOf(n, registers) = Millivolts(registers[n]) + Calibration(n)
         /\ Calibration(n) \in Offsets
  BY DEF VoltageOf, Millivolts, Calibration, CellCount, Offsets

LEMMA ZeroIsWord == 0 \in Word
  BY WordBounds

(* The values kept are the voltages of a snapshot, each below the width of *)
(* its two bytes in spite of the calibration.                              *)
Kept ==
  voltages # <<>> =>
    /\ Len(voltages) = CellCount
    /\ \A n \in 1..CellCount : voltages[n] = VoltageOf(n, measured)
                               /\ voltages[n] \in Word

(* The receiver's four values of a segment are those last kept.            *)
Shown(s) ==
  \A n \in 1..Frames * PerFrame : (n - 1) \div PerFrame = s => heard[n] = Value(n)

(* The segments sent since the voltages changed are the last ones before   *)
(* the next, in rotation.                                                  *)
Inv ==
  /\ WordsIn(cells) /\ WordsIn(measured)
  /\ segment \in 0..Frames - 1 /\ fresh \in 0..Frames
  /\ fresh > 0 => voltages # <<>>
  /\ Kept
  /\ \A i \in 1..Frames : i <= fresh => Shown((segment + Frames - i) % Frames)

(* The order of arrival is undone, and nothing overflows.                  *)
LEMMA ParsedRight ==
  ASSUME WordsIn(cells)
  PROVE  LET kept == SubSeq(Parsed(Raw), 1, CellCount) IN
         /\ Len(kept) = CellCount
         /\ \A n \in 1..CellCount : kept[n] = VoltageOf(n, cells) /\ kept[n] \in Word
  <1>1. ASSUME NEW n \in 1..RegisterCount
        PROVE  /\ Raw[RegisterCount + 1 - n] = cells[n] /\ cells[n] \in Word
    BY <1>1 DEF Raw, WordsIn, RegisterCount
  <1>2. ASSUME NEW n \in 1..CellCount
        PROVE  /\ Parsed(Raw)[n] = VoltageOf(n, cells) /\ Parsed(Raw)[n] \in Word
    <2>1. n \in 1..RegisterCount
      BY DEF CellCount, RegisterCount
    <2>2. Parsed(Raw)[n] = AsWord(Millivolts(cells[n]) + Calibration(n))
      BY <1>1, <2>1 DEF Parsed
    <2>3. Millivolts(cells[n]) \in Small
      BY <1>1, <2>1, MillivoltsSmall, Zenon
    <2> QED
      BY <2>2, <2>3, VoltageIs, NoOverflow, Zenon
  <1>3. /\ Len(SubSeq(Parsed(Raw), 1, CellCount)) = CellCount
        /\ \A n \in 1..CellCount : SubSeq(Parsed(Raw), 1, CellCount)[n] = Parsed(Raw)[n]
    <2>1. \A n \in 1..CellCount : Parsed(Raw)[n] \in Word
      BY <1>2 DEF CellCount
    <2>2. CellCount = 14
      BY DEF CellCount
    <2> QED
      BY <2>1, <2>2, SubSeqProperties
  <1> QED
    BY <1>2, <1>3

LEMMA InvInit == Init => Inv
  <1> SUFFICES ASSUME Init PROVE Inv
    OBVIOUS
  <1>1. WordsIn(cells) /\ WordsIn(measured)
    BY MeasuredWords DEF Init
  <1>2. segment = 0 /\ fresh = 0 /\ voltages = <<>> /\ Frames = 4
    BY DEF Init, Frames
  <1>3. \A i \in 1..Frames : ~(i <= fresh)
    BY <1>2
  <1> QED
    BY <1>1, <1>2, <1>3 DEF Inv, Kept

LEMMA InvStep == Inv /\ [Next]_vars => Inv'
  <1> SUFFICES ASSUME Inv, [Next]_vars PROVE Inv'
    OBVIOUS
  <1>0. Frames = 4 /\ PerFrame = 4 /\ CellCount = 14 /\ RegisterCount = 16
    BY DEF Frames, PerFrame, CellCount, RegisterCount
  <1>1. CASE CellsChange
    <2>1. WordsIn(cells')
      <3>1. cells' \in Measurements
        BY <1>1 DEF CellsChange
      <3> QED
        BY <3>1, MeasuredWords
    <2>2. UNCHANGED <<voltages, segment, measured, fresh, heard>>
      BY <1>1 DEF CellsChange
    <2>3. \A s : Shown(s)' <=> Shown(s)
      BY <2>2 DEF Shown, Value
    <2>4. Kept'
      BY <2>2 DEF Inv, Kept, CellCount
    <2> QED
      BY <2>1, <2>2, <2>3, <2>4 DEF Inv
  <1>2. CASE Snapshot
    <2>1. /\ voltages' = SubSeq(Parsed(Raw), 1, CellCount)
          /\ UNCHANGED <<cells, segment, heard>> /\ measured' = cells
          /\ fresh' = IF voltages' = voltages THEN fresh ELSE 0
      BY <1>2 DEF Snapshot
    <2>2. WordsIn(cells)
      BY DEF Inv
    <2>7. /\ Len(voltages') = CellCount
          /\ \A n \in 1..CellCount : voltages'[n] = VoltageOf(n, measured')
                                     /\ voltages'[n] \in Word
      BY <2>1, <2>2, ParsedRight, Zenon
    <2>3. Kept'
      BY <2>7, Zenon DEF Kept
    <2>4. voltages' # <<>>
      <3>1. Len(voltages') = CellCount
        BY <2>7
      <3> QED
        BY <1>0, <3>1
    <2>8. WordsIn(cells') /\ WordsIn(measured') /\ segment' \in 0..Frames - 1
      BY <2>1, <2>2 DEF Inv
    <2>5. CASE voltages' = voltages
      <3>1. \A s : Shown(s)' <=> Shown(s)
        BY <2>1, <2>5 DEF Shown, Value
      <3>2. fresh' = fresh /\ segment' = segment
        BY <2>1, <2>5
      <3> QED
        BY <2>3, <2>4, <2>8, <3>1, <3>2 DEF Inv
    <2>6. CASE voltages' # voltages
      <3>1. fresh' = 0
        BY <2>1, <2>6
      <3>2. \A i \in 1..Frames : ~(i <= fresh')
        BY <1>0, <3>1
      <3> QED
        BY <1>0, <2>3, <2>4, <2>8, <3>1, <3>2 DEF Inv
    <2> QED
      BY <2>5, <2>6
  <1>3. CASE SendSegment
    <2>1. /\ voltages # <<>> /\ segment' = (segment + 1) % 4
          /\ fresh' = (IF fresh < 4 THEN fresh + 1 ELSE fresh)
          /\ UNCHANGED <<cells, voltages, measured>>
      BY <1>0, <1>3 DEF SendSegment
    <2>10. /\ Len(voltages) = 14
           /\ \A n \in 1..14 : voltages[n] = VoltageOf(n, measured)
                              /\ voltages[n] \in Word
      BY <1>0, <2>1, Zenon DEF Inv, Kept
    <2>2. ASSUME NEW n \in 1..16
          PROVE  Value(n) \in Word
      <3>1. CASE n <= 14
        BY <2>10, <3>1 DEF Value
      <3>2. CASE ~(n <= 14)
        BY <2>10, <3>2, ZeroIsWord DEF Value
      <3> QED
        BY <3>1, <3>2
    <2>3. ASSUME NEW n \in 1..16
          PROVE  heard'[n] = IF (n - 1) \div 4 = segment THEN Value(n) ELSE heard[n]
      <3>1. heard'[n] = IF (n - 1) \div 4 = segment
                          THEN LET b == Frame(segment)[((n - 1) % 4) + 1]
                               IN b[1] + 256 * b[2]
                          ELSE heard[n]
        BY <1>0, <1>3 DEF SendSegment
      <3>2. CASE (n - 1) \div 4 = segment
        <4>1. /\ ((n - 1) % 4) + 1 \in 1..4
              /\ segment * 4 + (((n - 1) % 4) + 1) = n
          BY <3>2
        <4>2. Frame(segment)[((n - 1) % 4) + 1] = Bytes(Value(n))
          BY <1>0, <4>1 DEF Frame
        <4>3. Bytes(Value(n))[1] + 256 * Bytes(Value(n))[2] = Value(n)
          BY <2>2, BytesJoin, Zenon
        <4> QED
          BY <3>1, <3>2, <4>2, <4>3
      <3> QED
        BY <3>1, <3>2
    <2>4. \A n \in 1..16 : Value(n)' = Value(n)
      BY <2>1 DEF Value
    <2>5. \A s \in 0..3 : (s = segment \/ Shown(s)) => Shown(s)'
      BY <1>0, <2>3, <2>4 DEF Shown
    <2>6. segment \in 0..3 /\ fresh \in 0..4
      BY <1>0 DEF Inv
    <2>7. ASSUME NEW i \in 1..4, i <= fresh'
          PROVE  Shown((segment + 4 - i) % 4)'
      <3> DEFINE s == (segment' + 4 - i) % 4
      <3>1. s \in 0..3
        BY <2>1, <2>6
      <3>2. CASE i = 1
        <4>1. s = segment
          BY <2>1, <2>6, <3>2
        <4> QED
          BY <2>5, <3>1, <4>1
      <3>3. CASE i # 1
        <4>1. i - 1 \in 1..4 /\ i - 1 <= fresh
          BY <2>1, <2>6, <2>7, <3>3
        <4>2. s = (segment + 4 - (i - 1)) % 4
          BY <2>1, <2>6, <3>3
        <4>3. Shown(s)
          BY <1>0, <4>1, <4>2 DEF Inv
        <4> QED
          BY <2>5, <3>1, <4>3
      <3> QED
        BY <3>2, <3>3
    <2>8. Kept'
      BY <1>0, <2>1, <2>10, Zenon DEF Kept
    <2>9. segment' \in 0..3 /\ fresh' \in 0..4 /\ voltages' # <<>>
      BY <2>1, <2>6
    <2>11. WordsIn(cells') /\ WordsIn(measured')
      BY <2>1 DEF Inv
    <2>12. \A i \in 1..4 : i <= fresh' => Shown((segment + 4 - i) % 4)'
      BY <2>7
    <2> QED
      BY <1>0, <2>8, <2>9, <2>11, <2>12 DEF Inv
  <1>4. CASE UNCHANGED vars
    BY <1>4 DEF vars, Inv, Kept, Shown, Value, CellCount, Frames, PerFrame
  <1> QED
    BY <1>1, <1>2, <1>3, <1>4 DEF Next

(* Four frames after the voltages last changed a receiver has every cell   *)
(* in its own place, whatever the registers hold.                          *)
THEOREM PictureRight == Spec => []PictureSettles
  <1>1. Inv => PictureSettles
    <2> SUFFICES ASSUME Inv, fresh = 4
                 PROVE  /\ \A n \in 1..14 : heard[n] = VoltageOf(n, measured)
                        /\ \A n \in 15..16 : heard[n] = 0
      BY DEF PictureSettles, Frames, PerFrame, CellCount
    <2>1. ASSUME NEW s \in 0..3 PROVE Shown(s)
      <3>1. segment \in 0..3
        BY DEF Inv, Frames
      <3>2. PICK i \in 1..4 : (segment + 4 - i) % 4 = s
        <4>1. \E i \in 1..4 : (segment + 4 - i) % 4 = s
          BY <3>1
        <4> QED
          BY <4>1
      <3> QED
        BY <3>2 DEF Inv, Frames
    <2>2. \A n \in 1..16 : heard[n] = Value(n)
      <3> SUFFICES ASSUME NEW n \in 1..16 PROVE heard[n] = Value(n)
        OBVIOUS
      <3>1. (n - 1) \div 4 \in 0..3
        OBVIOUS
      <3> QED
        BY <2>1, <3>1 DEF Shown, Frames, PerFrame
    <2>3. Len(voltages) = 14 /\ \A n \in 1..14 : voltages[n] = VoltageOf(n, measured)
      <3>1. voltages # <<>> /\ Kept /\ CellCount = 14
        BY DEF Inv, CellCount
      <3> QED
        BY <3>1, Zenon DEF Kept
    <2> QED
      BY <2>2, <2>3 DEF Value
  <1> QED
    BY <1>1, InvInit, InvStep, PTL DEF Spec
=============================================================================
