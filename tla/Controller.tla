----------------------------- MODULE Controller -----------------------------
(***************************************************************************)
(* The whole controller as setup() and loop() put it together              *)
(* (src/FIRMWARE/src/main.cpp): the scheduler of BmsTask and the rules of  *)
(* RulesTask over the variables they share, the Modbus writes that act on  *)
(* both, and the cell modules they watch.                                  *)
(*                                                                         *)
(* A poll asks the configured modules for their voltages; they answer with *)
(* what they measure at that moment; the reply, unless it is lost or       *)
(* damaged on the way, is written into cmi[]; the rules judge it.  The     *)
(* question is how long that takes.  Between two steps of loop() a module  *)
(* may change its voltage, the Modbus master may write, and the controller *)
(* may lose power.                                                         *)
(*                                                                         *)
(* Temperatures and the replies to other requests are left out: RulesTask  *)
(* and ReplyPath have them.  A reply takes no longer than MaxLag seconds,  *)
(* or counts as lost.                                                      *)
(*                                                                         *)
(* Operators whose name ends in a fault, as in ConfigureInSilence, are not *)
(* part of the model.  Each is a plausible mistake in the operator that    *)
(* follows it, kept to show that a property would notice it.               *)
(***************************************************************************)
EXTENDS Integers, Sequences

CONSTANTS
    MaxModules,     \* maximum_controller_cell_modules
    QueueCapacity,  \* length of requestQueue
    Relay,          \* the relays of the board
    Layouts,        \* [banks, series] a Modbus master configures
    IdentifyIds,    \* module addresses it identifies
    Voltages,       \* what the modules may measure: module -> millivolts
    MaxLag,         \* seconds a reply takes at most
    BypassFrom,     \* the voltage from which a module balances
    LoadedRules,    \* rule -> [value, hysteresis, relays] in the EEPROM at first
    RuleWrites,     \* [rule, value, hysteresis] a Modbus master writes
    RelayWrites,    \* [rule, relays] it writes
    DefaultWrites   \* relay defaults it writes

Module == 0 .. MaxModules - 1
Count(size) == size.banks * size.series

ASSUME VoltagesAssumption == Voltages \subseteq [Module -> 0 .. 8191] /\ Voltages # {}
ASSUME BypassAssumption == BypassFrom \in Nat \ {0}
\* A poll is over before the next one.
ASSUME LagAssumption == MaxLag \in 1 .. 2
ASSUME BoardAssumption ==
    /\ MaxModules \in 1 .. 16 /\ QueueCapacity \in Nat /\ QueueCapacity >= 4
    /\ IdentifyIds \subseteq 0 .. 255
    /\ Layouts # {}
    /\ \A size \in Layouts : size \in [banks : 1 .. 4, series : 1 .. MaxModules]
                             /\ Count(size) <= MaxModules

VARIABLES
    requestQueue, bmsState, cpt, dummyVar, inBypass,    \* as in BmsTask
    sent, refused, swept,                               \* as in BmsTask
    cell, layout, rules, relayDefault,                  \* as in RulesTask
    ruleOutcome, previousRelayState, pin, settled,      \* as in RulesTask
    isStarted,      \* of both
    actual,         \* what the modules measure
    polled,         \* the poll of voltages under way, <<>> or <<[last, answer, age]>>,
                    \* answer being <<>> or <<voltages>>, age in ticks
    quiet           \* auxiliary: ticks since something last disturbed the polls

B == INSTANCE BmsTask WITH
         numberOfModules <- Count(layout),
         Sizes <- {Count(size) : size \in Layouts},
         BypassSets <- SUBSET Module
R == INSTANCE RulesTask WITH
         VoltageReplies <- Voltages,
         TemperatureReplies <- {}

ASSUME SettingsAssumption ==
    /\ LoadedRules \in [R!Rule -> R!RuleSettings]
    /\ RuleWrites \subseteq [rule : R!Rule, value : Nat, hysteresis : Nat]
    /\ RelayWrites \subseteq [rule : R!Rule, relays : [Relay -> R!RelayState]]
    /\ DefaultWrites \subseteq [Relay -> R!RelayState]

schedule == <<requestQueue, bmsState, cpt, dummyVar, sent, refused, swept>>
inputs == <<cell, layout, rules, relayDefault, isStarted>>
outputs == <<ruleOutcome, previousRelayState, pin>>
watched == <<actual, polled>>
vars == <<schedule, inBypass, inputs, outputs, settled, watched, quiet>>

\* With n modules a sweep asks for one module's settings in each of n - 1 seconds, at
\* least one, and for three statistics.
SweepSeconds == B!Largest(Count(layout) - 1, 1) + 3

\* A Modbus request takes two seconds of the scheduler, in which the poll may fall that
\* precedes a sweep by 3 s; the next one follows the sweep, at a multiple of three; and
\* its reply has to come.
Latency == 2 + 3 + 3 * (SweepSeconds \div 3 + 1) + MaxLag

\* Bound of quiet: one more than the latency for the most modules.
MaxLatency == 2 + 3 + 3 * ((MaxModules + 3) \div 3 + 1) + MaxLag

----------------------------------------------------------------------------
(* loop(): RTU_TaskRun, BMS_TaskRun, RULES_TaskRun, none of which waits.   *)

AskedFirstBank(packets) ==
    IF \E i \in DOMAIN packets : packets[i].command = "ReadVoltageAndStatus"
    THEN <<[last |-> layout.series - 1, answer |-> <<>>, age |-> 0]>> ELSE <<>>

AskedAll(packets) ==
    IF \E i \in DOMAIN packets : packets[i].command = "ReadVoltageAndStatus"
    THEN <<[last |-> packets[1].end_address + 1, answer |-> <<>>, age |-> 0]>> ELSE <<>>

\* The poll among what was transmitted.
Asked(packets) ==
    IF \E i \in DOMAIN packets : packets[i].command = "ReadVoltageAndStatus"
    THEN <<[last |-> packets[1].end_address, answer |-> <<>>, age |-> 0]>> ELSE <<>>

\* BMS_TaskRun, once a second has passed.
Tick ==
    /\ UNCHANGED <<cell, layout, rules, relayDefault, outputs, actual>>
    /\ B!Tick
    /\ IF polled = <<>> THEN polled' = Asked(sent')
       ELSE /\ Head(polled).age < MaxLag
            /\ polled' = <<[Head(polled) EXCEPT !.age = @ + 1]>>
    /\ settled' = (settled /\ isStarted' = isStarted)
    /\ quiet' = B!Least(quiet + 1, MaxLatency + 1)

\* BMS_TaskRun, when a reply has come: ProcessReply.
ReplyAllButLast ==
    /\ polled # <<>> /\ Head(polled).answer # <<>>
    /\ LET voltages == Head(Head(polled).answer)
           last == Head(polled).last - 1 IN
       /\ R!VoltageReply(voltages, last)
       /\ B!VoltageReply(
              {m \in Module : IF m <= last THEN voltages[m] >= BypassFrom ELSE m \in inBypass})
    /\ polled' = <<>>
    /\ settled' = FALSE
    /\ UNCHANGED <<outputs, actual, quiet>>

Reply ==
    /\ polled # <<>> /\ Head(polled).answer # <<>>
    /\ LET voltages == Head(Head(polled).answer)
           last == Head(polled).last IN
       /\ R!VoltageReply(voltages, last)
       /\ B!VoltageReply(
              {m \in Module : IF m <= last THEN voltages[m] >= BypassFrom ELSE m \in inBypass})
    /\ polled' = <<>>
    /\ settled' = FALSE
    /\ UNCHANGED <<outputs, actual, quiet>>

\* RULES_TaskRun, once a second has passed.
Judge ==
    /\ R!RulesRun
    /\ UNCHANGED <<schedule, inBypass, watched, quiet>>

\* RTU_TaskRun, when a request was complete: CbWriteRegisters.
Identify(id) ==
    /\ UNCHANGED <<inputs, outputs, settled, watched>>
    /\ B!SendIdentify(id)
    /\ quiet' = 0

ConfigureInSilence(newLayout) ==
    /\ R!SetLayout(newLayout)
    /\ settled' = FALSE
    /\ quiet' = 0
    /\ UNCHANGED <<schedule, inBypass, outputs, watched>>

Configure(newLayout) ==
    /\ R!SetLayout(newLayout)
    /\ B!SendGlobalConfig(Count(newLayout))
    /\ settled' = FALSE
    /\ quiet' = 0
    /\ UNCHANGED <<outputs, watched>>

ConfigureRules ==
    /\ \/ \E write \in RuleWrites : R!SetRule(write)
       \/ \E write \in RelayWrites : R!SetRelayState(write)
       \/ \E relays \in DefaultWrites : R!SetRelayDefaultState(relays)
    /\ settled' = FALSE
    /\ UNCHANGED <<schedule, inBypass, outputs, watched, quiet>>

\* Power is lost and returns: setup().  The modules go on, and with them a reply.
Restart ==
    /\ R!Restart
    /\ B!Restart
    /\ quiet' = 0
    /\ UNCHANGED watched

----------------------------------------------------------------------------
(* The modules and the line.                                               *)

Answer ==
    /\ polled # <<>> /\ Head(polled).answer = <<>>
    /\ polled' = <<[Head(polled) EXCEPT !.answer = <<actual>>]>>
    /\ UNCHANGED <<schedule, inBypass, inputs, outputs, settled, actual, quiet>>

Lose ==
    /\ polled # <<>>
    /\ polled' = <<>>
    /\ quiet' = 0
    /\ UNCHANGED <<schedule, inBypass, inputs, outputs, settled, actual>>

Measure(voltages) ==
    /\ actual' = voltages
    /\ actual' # actual
    /\ quiet' = 0
    /\ UNCHANGED <<schedule, inBypass, inputs, outputs, settled, polled>>

Init ==
    /\ R!Init
    /\ B!Init
    /\ actual \in Voltages
    /\ polled = <<>>
    /\ quiet = 0

Disturbance ==
    \/ \E id \in IdentifyIds : Identify(id)
    \/ \E newLayout \in Layouts : Configure(newLayout)
    \/ Restart
    \/ Lose
    \/ \E voltages \in Voltages : Measure(voltages)

Next == Tick \/ Reply \/ Judge \/ ConfigureRules \/ Answer \/ Disturbance

Spec == Init /\ [][Next]_vars

----------------------------------------------------------------------------
(* Properties.                                                             *)

PollType == [last : Module, answer : {<<>>} \cup {<<voltages>> : voltages \in Voltages},
             age : 0 .. MaxLag]

TypeOK ==
    /\ R!TypeOK
    /\ actual \in Voltages
    /\ polled \in {<<>>} \cup {<<poll>> : poll \in PollType}
    /\ quiet \in 0 .. MaxLatency + 1

\* Each part meets, in the controller, the environment it was specified for: the
\* scheduler loses its queue to every change of the layout, the rules see replies
\* only for modules that some layout has, and both restart together.
SchedulerAsSpecified == B!Spec
RulesAsSpecified == R!Spec

\* Sweeps, reconfigurations and lost replies hold the readings up, but not for longer
\* than Latency after the last disturbance.
ReadingsCatchUp ==
    quiet > Latency =>
        \A m \in 0 .. Count(layout) - 1 : cell[m].voltagemV = actual[m]

OverVoltage(m) == actual[m] > rules[R!ModuleOverVoltage].value

\* Protection, end to end: that long after the last disturbance, and one run of the
\* rules later, over voltage of any configured module has the rule tripped and no
\* over voltage has it reset, unless a module reads 0 V.
ProtectsInTime ==
    quiet > Latency /\ settled
        /\ R!Sane(R!ModuleOverVoltage)
        /\ (\A m \in 0 .. Count(layout) - 1 : actual[m] # 0) =>
    /\ (\E m \in 0 .. Count(layout) - 1 : OverVoltage(m)) => ruleOutcome[R!ModuleOverVoltage]
    /\ (\A m \in 0 .. Count(layout) - 1 : actual[m] < rules[R!ModuleOverVoltage].hysteresis)
           => ~ruleOutcome[R!ModuleOverVoltage]
============================================================================
