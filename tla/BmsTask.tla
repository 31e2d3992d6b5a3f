------------------------------ MODULE BmsTask ------------------------------
(***************************************************************************)
(* The request scheduler of the diyBMS controller: BMS_TaskRun and the two *)
(* entry points the Modbus side calls, BMS_SendIdentify and                *)
(* BMS_SendGlobalConfig (src/FIRMWARE/src/bms/bms.cpp), with the packet    *)
(* generator they share (PacketRequestGenerator.cpp).                      *)
(*                                                                         *)
(* Once a second the scheduler takes one step (Tick): it may queue some    *)
(* requests for the cell modules, and it transmits the oldest queued one.  *)
(* Every 30 seconds it leaves its normal polling for a "sweep": a Timing   *)
(* packet, the settings of the modules, and three statistics.  Modbus      *)
(* requests are served between two ticks, at any moment, and empty the     *)
(* queue.                                                                  *)
(*                                                                         *)
(* Left out here: the sequence number, timestamps and CRC stamped on a     *)
(* packet as it leaves, the settings payload of WriteSettings, the LED,    *)
(* and what the modules answer, save for the bypass flags, which decide    *)
(* what the next poll asks.  Power may fail between any two steps.         *)
(*                                                                         *)
(* Operators whose name ends in a fault, as in SendTimingNoReset, are not  *)
(* part of the model.  Each is a plausible mistake in the operator that    *)
(* follows it, kept to show that a property would notice.                  *)
(***************************************************************************)
EXTENDS Integers, Sequences

CONSTANTS
    MaxModules,     \* maximum_controller_cell_modules, 16
    QueueCapacity,  \* length of requestQueue, 6
    Sizes,          \* values of banks * modules per bank a Modbus master writes
    IdentifyIds,    \* module addresses a Modbus master identifies
    BypassSets      \* sets of modules that can be in bypass at one time

ASSUME ModulesAssumption == MaxModules \in 1 .. 25
ASSUME CapacityAssumption == QueueCapacity \in Nat /\ QueueCapacity >= 4
\* At 0 the scan of cmi[] never ends and above 255 the addresses wrap.
ASSUME SizesAssumption == Sizes # {} /\ Sizes \subseteq 1 .. 255
ASSUME EnvironmentAssumption ==
    IdentifyIds \subseteq 0 .. 255 /\ {} \in BypassSets /\ BypassSets \subseteq SUBSET (0 .. MaxModules - 1)

VARIABLES
    requestQueue,     \* requests not yet transmitted, oldest first
    bmsState,
    cpt,              \* _cpt % 30, the only residue (with _cpt % 3) the code reads
    dummyVar,         \* _dummyVar: next module whose settings are requested
    numberOfModules,  \* totalNumberOfBanks * totalNumberOfSeriesModules
    inBypass,         \* {m : cmi[m].inBypass}
    isStarted,        \* sCtrl.isStarted, shown to the Modbus master
    sent,             \* what the last tick transmitted, <<>> or <<packet>>
    refused,          \* auxiliary: a push found requestQueue full
    swept             \* auxiliary: sweep requests transmitted since the last Timing

vars == <<requestQueue, bmsState, cpt, dummyVar, numberOfModules, inBypass,
          isStarted, sent, refused, swept>>
modbusVars == <<numberOfModules, inBypass>>

Period == 30

SweepState == {"SEND_TIMING_REQUEST", "SEND_SETTINGS_REQUEST",
               "SEND_BALANCE_CURRENT_COUNT_REQUEST",
               "SEND_PACKET_RECEIVED_REQUEST", "SEND_BAD_PACKET_COUNTER"}
ModbusState == {"SEND_IDENTIFY_REQUEST", "SEND_GLOBAL_CONFIG"}
State == SweepState \cup ModbusState \cup {"READ_VOLTAGE_AND_STATUS"}

SweepCommand == {"ReadSettings", "ReadBalanceCurrentCounter",
                 "ReadPacketReceivedCounter", "ReadBadPacketCounter"}
PollCommand == {"ReadVoltageAndStatus", "ReadTemperature", "ReadBalancePowerPWM"}
RangeCommand == SweepCommand \cup PollCommand
Command == RangeCommand \cup {"Timing", "Identify", "WriteSettings"}

Address == 0 .. 255
Packet == [command : Command, start_address : Address, end_address : Address]

----------------------------------------------------------------------------
(* PacketRequestGenerator: building and queueing packets.                  *)

ModuleRange(command, first, last) ==
    [command |-> command, start_address |-> first, end_address |-> last]

Broadcast(command) == ModuleRange(command, 0, MaxModules)

AllModules(command) == ModuleRange(command, 0, numberOfModules - 1)

\* One ReadSettings for each module from first to last.
SettingsRequests(first, last) ==
    [i \in 1 .. last + 1 - first |->
        ModuleRange("ReadSettings", first + i - 1, first + i - 1)]

\* The queue does not overwrite: what does not fit is dropped, in silence.
PushAll(queue, packets) ==
    IF Len(queue) + Len(packets) <= QueueCapacity
    THEN queue \o packets
    ELSE SubSeq(queue \o packets, 1, QueueCapacity)

SweptAfter(packet) ==
    CASE packet.command = "Timing"        -> {}
      [] packet.command \in SweepCommand  -> swept \cup {packet}
      [] OTHER                            -> swept

QueueAndTransmitSwapped(packets) ==
    /\ requestQueue' =
           PushAll(IF requestQueue = <<>> THEN <<>> ELSE Tail(requestQueue), packets)
    /\ sent' = IF requestQueue = <<>> THEN <<>> ELSE <<Head(requestQueue)>>
    /\ swept' = IF requestQueue = <<>> THEN swept ELSE SweptAfter(Head(requestQueue))
    /\ UNCHANGED refused

\* The end of BMS_TaskRun: packets were just queued, the oldest one leaves.
QueueAndTransmit(packets) ==
    LET queue == PushAll(requestQueue, packets) IN
    /\ requestQueue' = IF queue = <<>> THEN <<>> ELSE Tail(queue)
    /\ sent' = IF queue = <<>> THEN <<>> ELSE <<Head(queue)>>
    /\ swept' = IF queue = <<>> THEN swept ELSE SweptAfter(Head(queue))
    /\ refused' = (refused \/ Len(requestQueue) + Len(packets) > QueueCapacity)

Transmit == QueueAndTransmit(<<>>)

----------------------------------------------------------------------------
(* BMS_TaskRun, once a second has passed.                                  *)

\* _cpt after its increment.
Second == (cpt + 1) % Period

CurrentNoRestart == bmsState

\* The state the switch sees: every 30 s a sweep starts, unless a Modbus
\* request is still on its way.
Current ==
    IF Second = 0 /\ bmsState \notin ModbusState
    THEN "SEND_TIMING_REQUEST" ELSE bmsState

\* All states but READ_VOLTAGE_AND_STATUS act on an empty queue only.
Ready(state) == Current = state /\ requestQueue = <<>>

Wait ==
    /\ Current # "READ_VOLTAGE_AND_STATUS"
    /\ requestQueue # <<>>
    /\ bmsState' = Current
    /\ Transmit
    /\ UNCHANGED <<dummyVar, isStarted>>

SendTimingNoReset ==
    /\ Ready("SEND_TIMING_REQUEST")
    /\ QueueAndTransmit(<<Broadcast("Timing")>>)
    /\ bmsState' = "SEND_SETTINGS_REQUEST"
    /\ UNCHANGED <<dummyVar, isStarted>>

SendTiming ==
    /\ Ready("SEND_TIMING_REQUEST")
    /\ QueueAndTransmit(<<Broadcast("Timing")>>)
    /\ dummyVar' = 0
    /\ bmsState' = "SEND_SETTINGS_REQUEST"
    /\ UNCHANGED isStarted

Least(a, b) == IF a <= b THEN a ELSE b
Largest(a, b) == IF a >= b THEN a ELSE b

\* Where the for loop that starts at module leaves dummyVar: past the last
\* module but one, at a multiple of four, or at the end of cmi[].
LastSettings == Largest(numberOfModules - 1, dummyVar + 1)
BurstEndNoBound == Least(LastSettings, 4 * (dummyVar \div 4 + 1))
BurstEnd == Least(MaxModules, Least(LastSettings, 4 * (dummyVar \div 4 + 1)))

SendSettingsNoEmptyCheck ==
    /\ Current = "SEND_SETTINGS_REQUEST"
    /\ dummyVar < MaxModules
    /\ QueueAndTransmit(SettingsRequests(dummyVar, BurstEnd - 1))
    /\ dummyVar' = BurstEnd
    /\ bmsState' = IF BurstEnd >= numberOfModules - 1
                   THEN "SEND_BALANCE_CURRENT_COUNT_REQUEST" ELSE Current
    /\ UNCHANGED isStarted

SendSettingsPastArray ==
    /\ Ready("SEND_SETTINGS_REQUEST")
    /\ QueueAndTransmit(SettingsRequests(dummyVar, BurstEndNoBound - 1))
    /\ dummyVar' = BurstEndNoBound
    /\ bmsState' = IF BurstEndNoBound >= numberOfModules - 1
                   THEN "SEND_BALANCE_CURRENT_COUNT_REQUEST" ELSE bmsState
    /\ UNCHANGED isStarted

SendSettingsPastEnd ==
    /\ Ready("SEND_SETTINGS_REQUEST")
    /\ IF dummyVar >= MaxModules
       THEN Transmit /\ UNCHANGED <<dummyVar, bmsState>>
       ELSE /\ QueueAndTransmit(SettingsRequests(dummyVar, BurstEnd - 1))
            /\ dummyVar' = BurstEnd
            /\ bmsState' = IF BurstEnd > numberOfModules
                           THEN "SEND_BALANCE_CURRENT_COUNT_REQUEST" ELSE bmsState
    /\ UNCHANGED isStarted

SendSettings ==
    /\ Ready("SEND_SETTINGS_REQUEST")
    /\ IF dummyVar >= MaxModules
       THEN Transmit /\ UNCHANGED <<dummyVar, bmsState>>
       ELSE /\ QueueAndTransmit(SettingsRequests(dummyVar, BurstEnd - 1))
            /\ dummyVar' = BurstEnd
            /\ bmsState' = IF BurstEnd >= numberOfModules - 1
                           THEN "SEND_BALANCE_CURRENT_COUNT_REQUEST" ELSE bmsState
    /\ UNCHANGED isStarted

SendBalanceCurrentCount ==
    /\ Ready("SEND_BALANCE_CURRENT_COUNT_REQUEST")
    /\ QueueAndTransmit(<<AllModules("ReadBalanceCurrentCounter")>>)
    /\ bmsState' = "SEND_PACKET_RECEIVED_REQUEST"
    /\ UNCHANGED <<dummyVar, isStarted>>

SendPacketReceived ==
    /\ Ready("SEND_PACKET_RECEIVED_REQUEST")
    /\ QueueAndTransmit(<<AllModules("ReadPacketReceivedCounter")>>)
    /\ bmsState' = "SEND_BAD_PACKET_COUNTER"
    /\ UNCHANGED <<dummyVar, isStarted>>

SendBadPacketCounter ==
    /\ Ready("SEND_BAD_PACKET_COUNTER")
    /\ QueueAndTransmit(<<AllModules("ReadBadPacketCounter")>>)
    /\ bmsState' = "READ_VOLTAGE_AND_STATUS"
    /\ isStarted' = TRUE
    /\ UNCHANGED dummyVar

\* The scan of cmi[0 .. endmodule]; past the array it reads whatever is there.
BypassSeen ==
    {\E m \in 0 .. numberOfModules - 1 : m \in inBypass}
        \cup (IF numberOfModules > MaxModules THEN {TRUE} ELSE {})

\* What a poll asks; one balancing power reading serves the whole bank.
PollRequests(bypass) ==
    IF bypass
    THEN <<AllModules("ReadVoltageAndStatus"), AllModules("ReadTemperature"),
           AllModules("ReadBalancePowerPWM")>>
    ELSE <<AllModules("ReadVoltageAndStatus"), AllModules("ReadTemperature")>>

PollEverySecondSecond ==
    /\ Current = "READ_VOLTAGE_AND_STATUS"
    /\ Second % 2 = 0
    /\ \E bypass \in BypassSeen : QueueAndTransmit(PollRequests(bypass))
    /\ UNCHANGED <<bmsState, dummyVar, isStarted>>

\* Every third second, whatever the queue still holds.
Poll ==
    /\ Current = "READ_VOLTAGE_AND_STATUS"
    /\ Second % 3 = 0
    /\ \E bypass \in BypassSeen : QueueAndTransmit(PollRequests(bypass))
    /\ UNCHANGED <<bmsState, dummyVar, isStarted>>

BetweenPolls ==
    /\ Current = "READ_VOLTAGE_AND_STATUS"
    /\ Second % 3 # 0
    /\ Transmit
    /\ UNCHANGED <<bmsState, dummyVar, isStarted>>

\* SEND_IDENTIFY_REQUEST and SEND_GLOBAL_CONFIG: back to polling.
Resume ==
    /\ Current \in ModbusState
    /\ requestQueue = <<>>
    /\ bmsState' = "READ_VOLTAGE_AND_STATUS"
    /\ Transmit
    /\ UNCHANGED <<dummyVar, isStarted>>

Tick ==
    /\ cpt' = Second
    /\ UNCHANGED modbusVars
    /\ \/ Wait
       \/ SendTiming
       \/ SendSettings
       \/ SendBalanceCurrentCount
       \/ SendPacketReceived
       \/ SendBadPacketCounter
       \/ Poll
       \/ BetweenPolls
       \/ Resume

----------------------------------------------------------------------------
(* What the Modbus callbacks and the replies of the modules change between *)
(* two ticks.                                                              *)

\* BMS_SendIdentify
SendIdentify(id) ==
    /\ requestQueue' = <<ModuleRange("Identify", id, id)>>
    /\ bmsState' = "SEND_IDENTIFY_REQUEST"
    /\ UNCHANGED <<cpt, dummyVar, numberOfModules, inBypass, isStarted, sent, refused, swept>>

SendGlobalConfigNoClear(size) ==
    /\ numberOfModules' = size
    /\ requestQueue' = PushAll(requestQueue, <<Broadcast("WriteSettings")>>)
    /\ bmsState' = "SEND_GLOBAL_CONFIG"
    /\ UNCHANGED <<cpt, dummyVar, inBypass, isStarted, sent, refused, swept>>

\* The four settings of a CONTROLLER_REPORT_CONFIGURATION write, then
\* BMS_SendGlobalConfig.
SendGlobalConfig(size) ==
    /\ numberOfModules' = size
    /\ requestQueue' = <<Broadcast("WriteSettings")>>
    /\ bmsState' = "SEND_GLOBAL_CONFIG"
    /\ UNCHANGED <<cpt, dummyVar, inBypass, isStarted, sent, refused, swept>>

Modbus ==
    \/ \E id \in IdentifyIds : SendIdentify(id)
    \/ \E size \in Sizes : SendGlobalConfig(size)

\* A reply to ReadVoltageAndStatus refreshes the bypass flags.
VoltageReply(modules) ==
    /\ inBypass' = modules
    /\ UNCHANGED <<requestQueue, bmsState, cpt, dummyVar, numberOfModules, isStarted,
                   sent, refused, swept>>

RestartKeepsQueue ==
    /\ bmsState' = "SEND_TIMING_REQUEST"
    /\ cpt' = 0
    /\ dummyVar' = 0
    /\ inBypass' = {}
    /\ isStarted' = FALSE
    /\ sent' = <<>>
    /\ refused' = FALSE
    /\ swept' = {}
    /\ UNCHANGED <<requestQueue, numberOfModules>>

\* Power is lost and returns: cleared memory, BMS_TaskInit, and the number of
\* modules from the EEPROM.
Restart ==
    /\ requestQueue' = <<>>
    /\ bmsState' = "SEND_TIMING_REQUEST"
    /\ cpt' = 0
    /\ dummyVar' = 0
    /\ inBypass' = {}
    /\ isStarted' = FALSE
    /\ sent' = <<>>
    /\ refused' = FALSE
    /\ swept' = {}
    /\ UNCHANGED numberOfModules

Init ==
    /\ requestQueue = <<>>
    /\ bmsState = "SEND_TIMING_REQUEST"
    /\ cpt = 0
    /\ dummyVar = 0
    /\ numberOfModules \in Sizes
    /\ inBypass = {}
    /\ isStarted = FALSE
    /\ sent = <<>>
    /\ refused = FALSE
    /\ swept = {}

Next == Tick \/ Modbus \/ Restart \/ \E modules \in BypassSets : VoltageReply(modules)

Spec == Init /\ [][Next]_vars

\* loop() never blocks and millis() advances, so the next second always comes;
\* nothing is assumed of the Modbus master or of the modules.
FairSpec == Spec /\ WF_vars(Tick)

----------------------------------------------------------------------------
(* Properties.                                                             *)

TypeOK ==
    /\ requestQueue \in Seq(Packet)
    /\ Len(requestQueue) <= QueueCapacity
    /\ bmsState \in State
    /\ cpt \in 0 .. Period - 1
    /\ dummyVar \in 0 .. MaxModules
    /\ numberOfModules \in Sizes
    /\ inBypass \in BypassSets
    /\ isStarted \in BOOLEAN
    /\ sent \in Seq(Packet)
    /\ Len(sent) <= 1
    /\ refused \in BOOLEAN
    /\ swept \subseteq Packet

\* No push ever finds requestQueue full, although pushPacketToQueue ignores the
\* result of push and READ_VOLTAGE_AND_STATUS queues without looking.
NoRequestRefused == ~refused

\* A sweep is over before the next one is due: with a configuration cmi[] can
\* hold (and one module more), the 30 s restart never cuts a sweep short.
SweepUninterrupted ==
    numberOfModules <= MaxModules + 1 /\ cpt = Period - 1 => bmsState \notin SweepState

\* A poll never queues on top of the one before it: what a poll asked, and what
\* a sweep left over, has been transmitted by then.
PollsDoNotOverlap ==
    bmsState = "READ_VOLTAGE_AND_STATUS" /\ cpt % 3 = 2 => requestQueue = <<>>

\* After a reconfiguration no request is left over for modules that are gone.
QueueMatchesConfig ==
    \A i \in DOMAIN requestQueue :
        requestQueue[i].command \in RangeCommand =>
            requestQueue[i].end_address < numberOfModules

\* The 30 s boundary transmits the Timing packet in that very second, unless a
\* Modbus request is being served: nothing is left queued in front of it.
TimingOnTime ==
    [][Tick /\ cpt' = 0 /\ bmsState \notin ModbusState
           => sent' = <<Broadcast("Timing")>>]_vars

\* What a sweep asks: settings of all modules but the last (of the only one, if
\* there is one), and the three statistics of all modules.
SweepRequests ==
    {ModuleRange("ReadSettings", m, m) : m \in 0 .. Largest(numberOfModules - 1, 1) - 1}
        \cup {AllModules(command) : command \in SweepCommand \ {"ReadSettings"}}

\* The controller announces that it has started, and a sweep gives way to
\* polling, only when every request of one whole sweep, for the present
\* configuration, was transmitted after that sweep's Timing packet.
SweepComplete ==
    [][(bmsState \in SweepState /\ bmsState' \notin SweepState \cup ModbusState)
           => isStarted' /\ SweepRequests \subseteq swept']_vars

\* How much each state leaves queued, and how early in its 30 s each stage of a
\* sweep is reached: one transmission a second drains a burst of at most four
\* before the next stage may start.
QueueShape ==
    /\ bmsState \in ModbusState => Len(requestQueue) <= 1
    /\ bmsState = "READ_VOLTAGE_AND_STATUS" => Len(requestQueue) + (cpt % 3) <= 2
    /\ bmsState \in {"SEND_SETTINGS_REQUEST", "SEND_BALANCE_CURRENT_COUNT_REQUEST"}
           => Len(requestQueue) <= 3
    /\ bmsState \in {"SEND_TIMING_REQUEST", "SEND_PACKET_RECEIVED_REQUEST",
                    "SEND_BAD_PACKET_COUNTER"}
           => requestQueue = <<>>

SweepClock ==
    /\ bmsState = "SEND_TIMING_REQUEST" => cpt = 0
    /\ bmsState = "SEND_SETTINGS_REQUEST" =>
           /\ dummyVar < Largest(numberOfModules - 1, 1)
           /\ (requestQueue # <<>> \/ dummyVar < MaxModules) =>
                  cpt + Len(requestQueue) <= dummyVar + 1
    /\ bmsState = "SEND_BALANCE_CURRENT_COUNT_REQUEST" =>
           cpt + Len(requestQueue) <= MaxModules + 1
    /\ bmsState = "SEND_PACKET_RECEIVED_REQUEST" => cpt <= MaxModules + 2
    /\ bmsState = "SEND_BAD_PACKET_COUNTER" => cpt <= MaxModules + 3

\* The strengthening that makes the safety properties above inductive.
ScheduleInv == QueueShape /\ SweepClock

\* Quiet: from some moment on the Modbus master sends neither Identify nor a
\* configuration, and power stays on.
Quiet == <>[][~Modbus /\ ~Restart]_vars

\* Then the controller starts.
StartsWhenQuiet ==
    Quiet => <>(numberOfModules > MaxModules + 1 \/ isStarted)

Sends(command) == \E i \in DOMAIN sent : sent[i].command = command

\* Then sweeps and polls go on for ever: neither starves the other.
SweepsAndPollsWhenQuiet ==
    Quiet => \/ <>[](numberOfModules > MaxModules + 1)
             \/ \A command \in (SweepCommand \cup PollCommand \cup {"Timing"})
                                     \ {"ReadBalancePowerPWM"} :
                    []<>Sends(command)

----------------------------------------------------------------------------
(* What the code's comments say and its runs do not do.                    *)

\* "Force refresh of settings" clears the cached settings of every module: the
\* sweep should ask every module for them.
SweepReadsAllSettings ==
    [][bmsState = "SEND_BAD_PACKET_COUNTER" /\ bmsState' = "READ_VOLTAGE_AND_STATUS"
           => \A m \in 0 .. numberOfModules - 1 :
                  ModuleRange("ReadSettings", m, m) \in swept']_vars

\* "Ask all modules to set bypass and temperature value": a queued WriteSettings
\* leaves the queue by being transmitted.
GlobalConfigReachesModules ==
    [][\A i \in DOMAIN requestQueue :
           requestQueue[i].command = "WriteSettings" =>
               \/ sent' = <<requestQueue[i]>>
               \/ \E j \in DOMAIN requestQueue' : requestQueue'[j].command = "WriteSettings"]_vars

============================================================================
