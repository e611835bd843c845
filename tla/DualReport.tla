------------------------------ MODULE DualReport ------------------------------
(***************************************************************************)
(* What CAN_SendMessages (can_messages.c) reports of the thermistors, in   *)
(* both its modes.  Normally there is one module, that of                  *)
(* ThermistorReport.  In the dual-module emulation, for a test bench, the  *)
(* channels are split among several modules, each with its own address,    *)
(* claim, summary and general broadcast.  Every 100 ms one module has its  *)
(* turn; its cache is built afresh from the readings by a second copy of   *)
(* the fold, over the module's own numbering.                              *)
(***************************************************************************)
EXTENDS ThermistorReport

CONSTANTS
  Modules,          \* CAN_DEBUG_EMU_MODULES
  ModuleChannels    \* CAN_DEBUG_EMU_CHANNELS_PER_MODULE

(* Five channels for each of two modules make the ten of the board.        *)
ASSUME DualAssumption ==
  /\ {Modules, ModuleChannels} \subseteq Nat \ {0}
  /\ (Modules - 1) * ModuleChannels < Channels
  /\ Channels <= Modules * ModuleChannels

Module == 0..Modules - 1

VARIABLES
  dualModule,    \* s_dual_module_emulation_enabled, compiled in too
  claimSlot,     \* emu_claim_slot_rr
  moduleSlot,    \* emu_module_slot_rr
  emuIndex,      \* emu_therm_index
  age            \* history: slots since the thermistor was last on the bus

dualVars == <<vars, dualModule, claimSlot, moduleSlot, emuIndex, age>>

DualModuleActive == debugMode /\ dualModule

Start(module) == module * ModuleChannels

-----------------------------------------------------------------------------
(* CAN_DebugModuleSampleCount.                                             *)
ModuleSampleCount(start) ==
  IF Channels <= start THEN 0
  ELSE IF Channels - start < ModuleChannels THEN Channels - start
  ELSE ModuleChannels

ModuleTemperature(abs) ==
  IF Overridden(abs) THEN override[abs] ELSE ADCToTemp(adc[abs])

(* A mistake: an open circuit at the very threshold let through.           *)
ModuleFaultyAbove(local, abs) ==
  \/ abs \in forced
  \/ /\ ~Overridden(abs)
     /\ \/ adc[abs] > OpenThreshold
        \/ adc[abs] <= ShortThreshold
        \/ ADCToTemp(adc[abs]) \notin MinValid..MaxValid

(* A mistake: the forced faults looked up by the module's own numbering.   *)
ModuleFaultyLocal(local, abs) ==
  \/ local \in forced
  \/ /\ ~Overridden(abs)
     /\ \/ adc[abs] >= OpenThreshold
        \/ adc[abs] <= ShortThreshold
        \/ ADCToTemp(adc[abs]) \notin MinValid..MaxValid

ModuleFaulty(local, abs) ==
  \/ abs \in forced
  \/ /\ ~Overridden(abs)
     /\ \/ adc[abs] >= OpenThreshold
        \/ adc[abs] <= ShortThreshold
        \/ ADCToTemp(adc[abs]) \notin MinValid..MaxValid

(* The body of the second loop.                                            *)
AccumulateLocal(acc, local, abs) ==
  LET t == ModuleTemperature(abs)
      c == [acc EXCEPT !.temps = Append(@, t)]
  IN IF ModuleFaulty(local, abs)
       THEN [c EXCEPT !.faults = @ \union {local}]
       ELSE [c EXCEPT !.min = IF t < @ THEN t ELSE @,
                      !.max = IF t > @ THEN t ELSE @,
                      !.sum = @ + t,
                      !.valid = @ + 1]

(* The second loop.                                                        *)
LocalAccumulation(start, count) ==
  LET after[n \in 0..count] ==
        IF n = 0 THEN EmptyCache
        ELSE AccumulateLocal(after[n - 1], n - 1, start + (n - 1))
  IN after

(* CAN_BuildModuleCacheFromAdc.                                            *)
BuildModuleCache(start, count) ==
  LET acc == LocalAccumulation(start, count)[count]
  IN [temps  |-> acc.temps,
      faults |-> acc.faults,
      valid  |-> acc.valid,
      min    |-> IF acc.valid > 0 THEN acc.min ELSE 0,
      max    |-> IF acc.valid > 0 THEN acc.max ELSE 0,
      avg    |-> IF acc.valid > 0 THEN DivC(acc.sum, acc.valid) ELSE 0]

ModuleCache(module) ==
  BuildModuleCache(Start(module), ModuleSampleCount(Start(module)))

ModuleBms(module)     == EncodeBms(ModuleCache(module), module)
ModuleGeneral(module) ==
  EncodeGeneral(ModuleCache(module), module, emuIndex[module])

(* The channel a receiver takes a general broadcast to be about.           *)
GlobalId(frame) == frame[1] + 256 * frame[2]
ChannelOf(frame) ==
  Start(GlobalId(frame) \div GlobalStride) + (GlobalId(frame) % GlobalStride)

-----------------------------------------------------------------------------
DualInit ==
  /\ Init
  /\ dualModule \in BOOLEAN
  /\ claimSlot = 0
  /\ moduleSlot = 0
  /\ emuIndex = [m \in Module |-> 0]
  /\ age = [i \in Channel |-> 0]

Sample ==
  /\ SampleAll
  /\ UNCHANGED <<dualModule, claimSlot, moduleSlot, emuIndex, age>>

(* The slot of the one module.                                             *)
SendSingleSlot ==
  /\ ~DualModuleActive
  /\ SendSlot
  /\ UNCHANGED <<dualModule, claimSlot, moduleSlot, emuIndex, age>>

(* The 200 ms branch: the next module claims its address.                  *)
SendModuleClaim ==
  /\ DualModuleActive
  /\ claimSlot' = (claimSlot + 1) % Modules
  /\ UNCHANGED <<vars, dualModule, moduleSlot, emuIndex, age>>

(* A mistake: one index for all modules.                                   *)
AdvanceAll(module, count) ==
  emuIndex' = [m \in Module |-> IF count > 0 THEN (emuIndex[m] + 1) % count ELSE 0]

(* A mistake: the index runs one past the module's last thermistor.        *)
AdvancePastEnd(module, count) ==
  emuIndex' = [emuIndex EXCEPT ![module] = IF count > 0 THEN (@ + 1) % (count + 1) ELSE 0]

AdvanceIndex(module, count) ==
  emuIndex' = [emuIndex EXCEPT ![module] = IF count > 0 THEN (@ + 1) % count ELSE 0]

(* The 100 ms branch: summary and general broadcast of the module whose    *)
(* turn it is.  (The external-voltage part is that of CanSchedule.)        *)
SendModuleSlot ==
  /\ DualModuleActive
  /\ AdvanceIndex(moduleSlot, Len(ModuleCache(moduleSlot).temps))
  /\ moduleSlot' = (moduleSlot + 1) % Modules
  /\ age' = [i \in Channel |->
               IF i = ChannelOf(ModuleGeneral(moduleSlot)) THEN 0
               ELSE IF age[i] < Modules * ModuleChannels THEN age[i] + 1 ELSE age[i]]
  /\ UNCHANGED <<vars, dualModule, claimSlot>>

MonitorFails ==
  /\ VoltFails
  /\ UNCHANGED <<dualModule, claimSlot, moduleSlot, emuIndex, age>>

DualNext ==
  \/ Sample
  \/ SendSingleSlot
  \/ SendModuleClaim
  \/ SendModuleSlot
  \/ MonitorFails

DualSpec == DualInit /\ [][DualNext]_dualVars

-----------------------------------------------------------------------------
DualTypeOK ==
  /\ TypeOK
  /\ dualModule \in BOOLEAN
  /\ {claimSlot, moduleSlot} \subseteq Module
  /\ \A m \in Module : emuIndex[m] \in 0..ModuleSampleCount(Start(m)) - 1
  /\ \A m \in Module, b \in 1..8 :
       ModuleBms(m)[b] \in 0..255 /\ ModuleGeneral(m)[b] \in 0..255

(* A receiver that takes a module's general broadcast at its word, global  *)
(* id, temperature and fault flag, learns what the single module would     *)
(* have told it about that channel.                                        *)
ModulesTellTheTruth ==
  \A m \in Module :
    LET frame == ModuleGeneral(m)  i == ChannelOf(frame)
    IN /\ i \in Channel
       /\ Signed(frame[3]) = cache.temps[i + 1]
       /\ Flag(frame[4]) <=> i \in cache.faults

(* The thermistors that the summaries of the first modules count.          *)
Counted[n \in 0..Modules] ==
  IF n = 0 THEN 0 ELSE Counted[n - 1] + Count(ModuleBms(n - 1)[5])

(* The two copies of the fold agree: put together, the summaries of the    *)
(* modules say what the one summary of all channels says.                  *)
SummariesAgree ==
  LET counting == {m \in Module : Count(ModuleBms(m)[5]) > 0}
  IN /\ Counted[Modules] = Count(BmsFrame[5])
     /\ (\E m \in Module : Flag(ModuleBms(m)[5])) <=> Flag(BmsFrame[5])
     /\ \A m \in counting : /\ Signed(BmsFrame[2]) <= Signed(ModuleBms(m)[2])
                            /\ Signed(ModuleBms(m)[3]) <= Signed(BmsFrame[3])
     /\ counting # {} =>
          /\ \E m \in counting : ModuleBms(m)[2] = BmsFrame[2]
          /\ \E m \in counting : ModuleBms(m)[3] = BmsFrame[3]

(* No thermistor goes unreported for longer than it takes every module to  *)
(* go once through its channels, whatever the modules' sizes.              *)
NoneGoesStale ==
  \A m \in Module : \A n \in 0..ModuleSampleCount(Start(m)) - 1 :
    age[Start(m) + n] < Modules * ModuleSampleCount(Start(m))
===============================================================================
