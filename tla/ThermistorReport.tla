-------------------------- MODULE ThermistorReport --------------------------
(***************************************************************************)
(* From the thermistor readings to the frames that report them:            *)
(* Therm_ServiceTask (therm.c) samples every channel and                   *)
(* ConvertAllThermistors (can_messages.c) folds the readings into the      *)
(* cache; every 100 ms the BMS broadcast and one general broadcast encode  *)
(* the cache.  The frames are tuples of bytes, as on the wire.  DualReport *)
(* puts these steps together with those of the dual-module emulation.      *)
(***************************************************************************)
EXTENDS ThermistorTable, FiniteSets

CONSTANTS
  Channels,        \* THERM_APP_CHANNEL_COUNT
  Samples,         \* the readings considered
  Overrides,       \* the temperatures a developer may force
  NoOverride

ASSUME ReportAssumption ==
  /\ Channels \in 1..10
  /\ Samples \subseteq Reading
  /\ Overrides \subseteq -128..127
  /\ NoOverride \notin Overrides

Channel == 0..Channels - 1

VARIABLES
  adc,          \* thermistor_adc_values
  cache,        \* s_cache
  thermIndex,   \* therm_index
  voltFailed,   \* Volt_IsFaultReportingMode()
  \* the developer's settings, compiled in (CAN_Debug_ApplyManualOverrides)
  debugMode,    \* s_debug_mode
  forced,       \* sensor_fault_mask
  override      \* temp_override_mask and temp_override_c

settings == <<debugMode, forced, override>>
vars     == <<adc, cache, thermIndex, voltFailed, settings>>

OpenThreshold  == 4090   \* ORION_THERM_ADC_OPEN_FAULT_THRESHOLD
ShortThreshold == 5      \* ORION_THERM_ADC_SHORT_FAULT_THRESHOLD
HotThreshold   == 65     \* ORION_THERM_HOT_THRESHOLD_C
MinValid       == -128   \* ORION_THERM_MIN_VALID_C
MaxValid       == 127    \* ORION_THERM_MAX_VALID_C

-----------------------------------------------------------------------------
(* ConvertAllThermistors.                                                  *)

Overridden(i) == debugMode /\ override[i] # NoOverride

Temperature(i, reading) ==
  IF Overridden(i) THEN override[i] ELSE ADCToTemp(reading)

(* A mistake: an over-temperature counted as a broken sensor.              *)
HotIsFaulty(i, reading) ==
  \/ i \in forced
  \/ reading >= OpenThreshold
  \/ reading <= ShortThreshold
  \/ ADCToTemp(reading) > HotThreshold

(* Open, short, out of range, or forced.                                   *)
Faulty(i, reading) ==
  \/ i \in forced
  \/ /\ ~Overridden(i)
     /\ \/ reading >= OpenThreshold
        \/ reading <= ShortThreshold
        \/ ADCToTemp(reading) \notin MinValid..MaxValid

(* The body of the loop over the channels: a faulty channel enters the     *)
(* mask, any other the statistics, hot ones included.                      *)
Accumulate(acc, i, reading) ==
  LET t == Temperature(i, reading)
      c == [acc EXCEPT !.temps = Append(@, t)]
  IN IF Faulty(i, reading)
       THEN [c EXCEPT !.faults = @ \union {i}]
       ELSE [c EXCEPT !.min = IF t < @ THEN t ELSE @,
                      !.max = IF t > @ THEN t ELSE @,
                      !.sum = @ + t,
                      !.valid = @ + 1]

(* A mistake: extremes that start from zero.                               *)
ZeroedCache ==
  [temps |-> <<>>, faults |-> {}, valid |-> 0, min |-> 0, max |-> 0, sum |-> 0]

EmptyCache ==
  [temps |-> <<>>, faults |-> {}, valid |-> 0,
   min |-> MaxValid, max |-> MinValid, sum |-> 0]

(* The loop: what it has gathered after each number of channels.           *)
Accumulation(readings) ==
  LET after[n \in 0..Channels] ==
        IF n = 0 THEN EmptyCache
        ELSE Accumulate(after[n - 1], n - 1, readings[n - 1])
  IN after

(* After the loop: the truncated mean, or zeros if no channel is valid.    *)
ConvertAllThermistors(readings) ==
  LET acc == Accumulation(readings)[Channels]
  IN [temps  |-> acc.temps,
      faults |-> acc.faults,
      valid  |-> acc.valid,
      min    |-> IF acc.valid > 0 THEN acc.min ELSE 0,
      max    |-> IF acc.valid > 0 THEN acc.max ELSE 0,
      avg    |-> IF acc.valid > 0 THEN DivC(acc.sum, acc.valid) ELSE 0]

-----------------------------------------------------------------------------
(* The frames.                                                             *)

(* A mistake: the sign left in.                                            *)
PackSigned(t) == t

PackTemp(t) == t % 256

(* A mistake: only the cell monitor raises the module fault.               *)
OnlyVoltFault(c) == voltFailed

ModuleFaultActive(c) == voltFailed \/ c.faults # {}

FlagBit(set) == IF set THEN 128 ELSE 0

(* The checksum covers the first seven bytes and wraps at a byte.          *)
Checksum(p) == (57 + 8 + p[1] + p[2] + p[3] + p[4] + p[5] + p[6] + p[7]) % 256

LastId(c) == IF c.temps = <<>> THEN 0 ELSE Len(c.temps) - 1

(* CAN_EncodeBmsForCache: the summary of the thermistors of a module.      *)
EncodeBms(c, module) ==
  LET payload ==
        << module, PackTemp(c.min), PackTemp(c.max), PackTemp(c.avg),
           (c.valid % 128) + FlagBit(ModuleFaultActive(c)), LastId(c), 0 >>
  IN Append(payload, Checksum(payload))

GlobalStride == 80   \* CAN_GLOBAL_THERM_STRIDE

(* CAN_EncodeGeneralForCache: one thermistor, named by its global id; an   *)
(* index the cache does not hold shows thermistor 0 at zero degrees.       *)
EncodeGeneral(c, module, index) ==
  LET known  == index < Len(c.temps)
      capped == IF known THEN index ELSE 0
      id     == module * GlobalStride + capped
  IN << id % 256, id \div 256,
        PackTemp(IF known THEN c.temps[index + 1] ELSE 0),
        capped + FlagBit(capped \in c.faults),
        PackTemp(c.min), PackTemp(c.max), LastId(c), 0 >>

(* EncodeBMSBroadcast and EncodeGeneralBroadcast, for the one real module. *)
BmsFrame     == EncodeBms(cache, 0)
GeneralFrame == EncodeGeneral(cache, 0, thermIndex)

-----------------------------------------------------------------------------
(* The loop samples before it sends, so the first frames already report a  *)
(* full set of readings.                                                   *)
Init ==
  /\ debugMode \in BOOLEAN
  /\ forced \in SUBSET Channel
  /\ override \in [Channel -> Overrides \union {NoOverride}]
  /\ adc \in [Channel -> Samples \union {0}]
  /\ cache = ConvertAllThermistors(adc)
  /\ thermIndex = 0
  /\ voltFailed \in BOOLEAN

(* Therm_ServiceTask: a conversion that fails in the ADC reads 0.          *)
SampleAll ==
  /\ adc' \in [Channel -> Samples \union {0}]
  /\ cache' = ConvertAllThermistors(adc')
  /\ UNCHANGED <<thermIndex, voltFailed, settings>>

(* The 100 ms branch of CAN_SendMessages sends BmsFrame and GeneralFrame   *)
(* and moves on to the next thermistor.                                    *)
SendSlot ==
  /\ thermIndex' = (thermIndex + 1) % Channels
  /\ UNCHANGED <<adc, cache, voltFailed, settings>>

(* The cell monitor is given up (BqService).                               *)
VoltFails ==
  /\ ~voltFailed
  /\ voltFailed' = TRUE
  /\ UNCHANGED <<adc, cache, thermIndex, settings>>

-----------------------------------------------------------------------------
Temp == -128..127

TypeOK ==
  /\ adc \in [Channel -> Reading]
  /\ cache.temps \in [1..Channels -> Temp]
  /\ cache.faults \subseteq Channel
  /\ cache.valid \in 0..Channels
  /\ {cache.min, cache.max, cache.avg} \subseteq Temp
  /\ thermIndex \in Channel
  /\ \A b \in 1..8 : BmsFrame[b] \in 0..255 /\ GeneralFrame[b] \in 0..255

(* What the receiver makes of a byte.                                      *)
Signed(b) == IF b >= 128 THEN b - 256 ELSE b
Flag(b)   == b >= 128
Count(b)  == b % 128

Healthy == {i \in Channel : ~Faulty(i, adc[i])}
HealthyTemps == {Temperature(i, adc[i]) : i \in Healthy}

(* The summary on the wire says of the healthy thermistors exactly what    *)
(* their readings say: its extremes are reached, its mean lies between     *)
(* them, its count is theirs, and no initial value of the accumulation     *)
(* shows through, below zero as well as above.                             *)
SummaryIsTrue ==
  LET low == Signed(BmsFrame[2])  high == Signed(BmsFrame[3])
      mean == Signed(BmsFrame[4])
  IN /\ Count(BmsFrame[5]) = Cardinality(Healthy)
     /\ IF Healthy = {} THEN <<low, high, mean>> = <<0, 0, 0>>
        ELSE /\ {low, high} \subseteq HealthyTemps
             /\ \A t \in HealthyTemps : low <= t /\ t <= high
             /\ low <= mean /\ mean <= high

(* An over-temperature is never taken for a broken sensor and dropped: if  *)
(* any reading in the sensor's range, of a channel nobody tampered with,   *)
(* is above the threshold, the summary's maximum is.                       *)
HotNeverHidden ==
  (\E i \in Channel \ forced :
      /\ ~Overridden(i)
      /\ ShortThreshold < adc[i] /\ adc[i] < OpenThreshold
      /\ ADCToTemp(adc[i]) > HotThreshold)
  => Signed(BmsFrame[3]) > HotThreshold

(* The two frames of a slot cannot contradict each other: a thermistor     *)
(* flagged in its own frame raises the module fault in the summary, one    *)
(* that is not flagged lies within the summary's extremes, and a summary   *)
(* that counts no thermistor (and shows zeros) carries the fault.          *)
FramesAgree ==
  /\ Flag(GeneralFrame[4]) => Flag(BmsFrame[5])
  /\ ~Flag(GeneralFrame[4]) =>
       /\ Signed(BmsFrame[2]) <= Signed(GeneralFrame[3])
       /\ Signed(GeneralFrame[3]) <= Signed(BmsFrame[3])
  /\ Count(BmsFrame[5]) = 0 => Flag(BmsFrame[5])
  /\ GeneralFrame[5] = BmsFrame[2] /\ GeneralFrame[6] = BmsFrame[3]
=============================================================================
