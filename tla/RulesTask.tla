----------------------------- MODULE RulesTask -----------------------------
(***************************************************************************)
(* The protection rules and the relays they drive: RULES_TaskInit and      *)
(* RULES_TaskRun (src/FIRMWARE/src/rules/rules.cpp).                       *)
(*                                                                         *)
(* Once a second, RULES_TaskRun condenses what the modules reported into   *)
(* extremes and bank voltages, lets each rule trip or reset on them, and   *)
(* sets each relay by the first tripped rule that has an opinion on it.    *)
(* Between two runs, at any moment, replies of the modules overwrite the   *)
(* readings, the Modbus master overwrites the settings, and the controller *)
(* may lose power and start again.                                         *)
(*                                                                         *)
(* Voltages and temperatures are the code's own integers, with their       *)
(* width; the addresses of the extreme cells and numberOfBalancingModules, *)
(* which nothing reads, are left out.  EEPROM writes are whole here.       *)
(*                                                                         *)
(* Operators whose name ends in a fault, as in RestartKeepsRelays, are not *)
(* part of the model.  Each is a plausible mistake in the operator that    *)
(* follows it, kept to show that a property would notice.                  *)
(***************************************************************************)
EXTENDS Integers, FiniteSets, FiniteSetsExt

CONSTANTS
    MaxModules,         \* maximum_controller_cell_modules
    Relay,              \* the relays of the board
    Layouts,            \* [banks, series] a Modbus master configures
    VoltageReplies,     \* readings one reply can carry: module -> millivolts
    TemperatureReplies, \* module -> [internal, external], degrees
    LoadedRules,        \* rule -> [value, hysteresis, relays] in the EEPROM at first
    RuleWrites,         \* [rule, value, hysteresis] a Modbus master writes
    RelayWrites,        \* [rule, relays] a Modbus master writes
    DefaultWrites       \* relay defaults a Modbus master writes

Module == 0 .. MaxModules - 1
RelayState == {"RELAY_ON", "RELAY_OFF", "RELAY_X"}
NoSensor == -40

ModuleOverVoltage == 0
ModuleUnderVoltage == 1
ModuleOverTemperatureInternal == 2
ModuleUnderTemperatureInternal == 3
ModuleOverTemperatureExternal == 4
ModuleUnderTemperatureExternal == 5
BankOverVoltage == 6
BankUnderVoltage == 7

Rule == 0 .. 7
ModuleRule == 0 .. 5
ExternalRule == {ModuleOverTemperatureExternal, ModuleUnderTemperatureExternal}
OverRule == {ModuleOverVoltage, ModuleOverTemperatureInternal,
             ModuleOverTemperatureExternal, BankOverVoltage}

Voltage == 0 .. 8191        \* 13 bits of a reply
Temperature == -128 .. 127  \* int8_t

RuleSettings == [value : Nat, hysteresis : Nat, relays : [Relay -> RelayState]]

ASSUME ModulesAssumption == MaxModules \in 1 .. 16
\* More banks than packvoltage[] holds, or more modules than cmi[] holds, make the
\* code read and write past them.
ASSUME LayoutsAssumption ==
    /\ Layouts # {}
    /\ \A layout \in Layouts : /\ layout \in [banks : 1 .. 4, series : 1 .. MaxModules]
                               /\ layout.banks * layout.series <= MaxModules
ASSUME RepliesAssumption ==
    /\ VoltageReplies \subseteq [Module -> Voltage]
    /\ TemperatureReplies \subseteq
           [Module -> [internal : Temperature, external : Temperature]]
ASSUME SettingsAssumption ==
    /\ LoadedRules \in [Rule -> RuleSettings]
    /\ RuleWrites \subseteq [rule : Rule, value : Nat, hysteresis : Nat]
    /\ RelayWrites \subseteq [rule : Rule, relays : [Relay -> RelayState]]
    /\ DefaultWrites \subseteq [Relay -> RelayState]

VARIABLES
    cell,                \* cmi[]: what the modules last reported
    layout,              \* totalNumberOfBanks and totalNumberOfSeriesModules
    rules,               \* rulevalue, rulehysteresis and rulerelaystate
    relayDefault,        \* rulerelaydefault
    isStarted,           \* sCtrl.isStarted: one sweep of requests is out
    ruleOutcome,         \* sCtrl.rule_outcome
    previousRelayState,  \* sCtrl.previousRelayState
    pin,                 \* the level of each relay's output, TRUE for high
    settled              \* auxiliary: a run was made of just these readings and settings

vars == <<cell, layout, rules, relayDefault, isStarted, ruleOutcome,
          previousRelayState, pin, settled>>
inputs == <<cell, layout, rules, relayDefault, isStarted>>
outputs == <<ruleOutcome, previousRelayState, pin>>

----------------------------------------------------------------------------
(* _ClearValues, _ProcessCell and _ProcessBank: the extremes.              *)

Highest(values, floor) == Max(values \cup {floor})
Lowest(values, ceiling) == Min(values \cup {ceiling})

LastModule == layout.banks * layout.series - 1
ValidModules == {m \in 0 .. LastModule : cell[m].valid}

voltages == {cell[m].voltagemV : m \in ValidModules}
internalTemps == {cell[m].internalTemp : m \in ValidModules}
externalTemps == {cell[m].externalTemp : m \in ValidModules} \ {NoSensor}

moduleHasExternalTempSensor == externalTemps # {}
zeroVoltageModule == 0 \in voltages

\* The code compares the external temperature of a cell with the lowest internal
\* one so far, in the order of the cells.
lowestInternalTempUpTo[m \in -1 .. MaxModules - 1] ==
    IF m = -1 THEN 127
    ELSE IF m \in ValidModules /\ cell[m].externalTemp < lowestInternalTempUpTo[m - 1]
         THEN cell[m].internalTemp ELSE lowestInternalTempUpTo[m - 1]

packvoltage(bank) ==
    MapThenSumSet(LAMBDA m : cell[m].voltagemV,
                  {m \in ValidModules : m \div layout.series = bank})
packvoltagesFirstBankOnly == {packvoltage(0)}
packvoltages == {packvoltage(bank) : bank \in 0 .. layout.banks - 1}

uint8(temperature) == temperature % 256

\* What a rule is tested on.
Measured(rule) ==
    CASE rule = ModuleOverVoltage              -> Highest(voltages, 0)
      [] rule = ModuleUnderVoltage             -> Lowest(voltages, 65535)
      [] rule = ModuleOverTemperatureInternal  -> uint8(Highest(internalTemps, -127))
      [] rule = ModuleUnderTemperatureInternal -> uint8(lowestInternalTempUpTo[LastModule])
      [] rule = ModuleOverTemperatureExternal  -> uint8(Highest(externalTemps, -127))
      [] rule = ModuleUnderTemperatureExternal -> uint8(Lowest(externalTemps, 127))
      [] rule = BankOverVoltage                -> Highest(packvoltages, 0)
      [] rule = BankUnderVoltage               -> Min(packvoltages)

----------------------------------------------------------------------------
(* _RunRules and the relays.                                               *)

Trips(rule) ==
    IF rule \in OverRule THEN Measured(rule) > rules[rule].value
                         ELSE Measured(rule) < rules[rule].value

ResetsCopied(rule) == Measured(rule) < rules[rule].hysteresis

\* The value at which a tripped rule resets lies on the safe side of the limit.
Resets(rule) ==
    IF rule \in OverRule THEN Measured(rule) < rules[rule].hysteresis
                         ELSE Measured(rule) > rules[rule].hysteresis

OutcomeAfterBankLatched(rule) ==
    IF zeroVoltageModule THEN rule \notin ModuleRule /\ ruleOutcome[rule]
    ELSE IF rule \in ExternalRule /\ ~moduleHasExternalTempSensor THEN FALSE
    ELSE IF ruleOutcome[rule] THEN rule \notin ModuleRule \/ ~Resets(rule)
    ELSE Trips(rule)

\* One module at 0 V silences the module rules and freezes the bank rules.
OutcomeAfter(rule) ==
    IF zeroVoltageModule THEN rule \notin ModuleRule /\ ruleOutcome[rule]
    ELSE IF rule \in ExternalRule /\ ~moduleHasExternalTempSensor THEN FALSE
    ELSE IF ruleOutcome[rule] THEN ~Resets(rule)
    ELSE Trips(rule)

DefaultRelaysCopied == relayDefault
DefaultRelays ==
    [y \in Relay |-> IF relayDefault[y] = "RELAY_ON" THEN "RELAY_ON" ELSE "RELAY_OFF"]

\* A tripped rule sets the relays it does not ignore.
Overwrite(outcome, n, relay) ==
    [y \in Relay |-> IF outcome[n] /\ rules[n].relays[y] # "RELAY_X"
                     THEN rules[n].relays[y] ELSE relay[y]]

RelaysForward(outcome) ==
    LET set(n, relay) == Overwrite(outcome, n, relay) IN
    set(7, set(6, set(5, set(4, set(3, set(2, set(1, set(0, DefaultRelays))))))))

\* The rules are tested in reverse order.
Relays(outcome) ==
    LET set(n, relay) == Overwrite(outcome, n, relay) IN
    set(0, set(1, set(2, set(3, set(4, set(5, set(6, set(7, DefaultRelays))))))))

\* A pin is written only when its relay changes.
DriveRelays(relay) ==
    /\ pin' = [y \in Relay |-> IF previousRelayState[y] # relay[y]
                               THEN relay[y] = "RELAY_ON" ELSE pin[y]]
    /\ previousRelayState' = relay

\* RULES_TaskRun, once a second has passed.
RulesRun ==
    /\ ruleOutcome' = [rule \in Rule |-> OutcomeAfter(rule)]
    /\ DriveRelays(Relays(ruleOutcome'))
    /\ settled' = TRUE
    /\ UNCHANGED inputs

----------------------------------------------------------------------------
(* What changes the inputs between two runs.                               *)

\* The last module a poll asked about: the one configured then, which a new
\* configuration may have changed by the time the reply is processed.
LastAsked == {asked.banks * asked.series - 1 : asked \in Layouts}

\* ProcessReplyVoltage, for modules 0 to last.  A module is valid from its first
\* reading above 0 V, for good.
VoltageReply(reply, last) ==
    /\ cell' = [m \in Module |->
                   IF m <= last
                   THEN [cell[m] EXCEPT !.voltagemV = reply[m], !.valid = @ \/ reply[m] > 0]
                   ELSE cell[m]]
    /\ UNCHANGED <<layout, rules, relayDefault, isStarted>>

\* ProcessReplyTemperature, for modules 0 to last.
TemperatureReply(reply, last) ==
    /\ cell' = [m \in Module |->
                   IF m <= last
                   THEN [cell[m] EXCEPT !.internalTemp = reply[m].internal,
                                        !.externalTemp = reply[m].external]
                   ELSE cell[m]]
    /\ UNCHANGED <<layout, rules, relayDefault, isStarted>>

\* The first sweep of requests is out (BMS_TaskRun).
Started == isStarted' = TRUE /\ UNCHANGED <<cell, layout, rules, relayDefault>>

SetLayout(newLayout) ==
    /\ layout' = newLayout
    /\ UNCHANGED <<cell, rules, relayDefault, isStarted>>

SetRule(write) ==
    /\ rules' = [rules EXCEPT ![write.rule].value = write.value,
                              ![write.rule].hysteresis = write.hysteresis]
    /\ UNCHANGED <<cell, layout, relayDefault, isStarted>>

SetRelayState(write) ==
    /\ rules' = [rules EXCEPT ![write.rule].relays = write.relays]
    /\ UNCHANGED <<cell, layout, relayDefault, isStarted>>

SetRelayDefaultState(relays) ==
    /\ relayDefault' = relays
    /\ UNCHANGED <<cell, layout, rules, isStarted>>

InputChange ==
    /\ \/ \E reply \in VoltageReplies, last \in LastAsked : VoltageReply(reply, last)
       \/ \E reply \in TemperatureReplies, last \in LastAsked : TemperatureReply(reply, last)
       \/ Started
       \/ \E newLayout \in Layouts : SetLayout(newLayout)
       \/ \E write \in RuleWrites : SetRule(write)
       \/ \E write \in RelayWrites : SetRelayState(write)
       \/ \E relays \in DefaultWrites : SetRelayDefaultState(relays)
    /\ settled' = FALSE
    /\ UNCHANGED outputs

\* Memory at power-up: nothing reported, nothing tripped, and the relay defaults,
\* which SETTINGS_Load does not read back.
NoReadings == [m \in Module |->
    [valid |-> FALSE, voltagemV |-> 0, internalTemp |-> 0, externalTemp |-> 0]]
NoDefaults == [y \in Relay |-> "RELAY_X"]
AllReset == [rule \in Rule |-> FALSE]

RestartKeepsRelays ==
    /\ cell' = NoReadings
    /\ relayDefault' = NoDefaults
    /\ isStarted' = FALSE
    /\ ruleOutcome' = AllReset
    /\ pin' = [y \in Relay |-> FALSE]
    /\ settled' = FALSE
    /\ UNCHANGED <<layout, rules, previousRelayState>>

\* Power is lost and returns: BOARD_Init, SETTINGS_Load, RULES_TaskInit.
Restart ==
    /\ cell' = NoReadings
    /\ relayDefault' = NoDefaults
    /\ isStarted' = FALSE
    /\ ruleOutcome' = AllReset
    /\ previousRelayState' = [y \in Relay |-> "RELAY_OFF"]
    /\ pin' = [y \in Relay |-> FALSE]
    /\ settled' = FALSE
    /\ UNCHANGED <<layout, rules>>

Init ==
    /\ cell = NoReadings
    /\ layout \in Layouts
    /\ rules = LoadedRules
    /\ relayDefault = NoDefaults
    /\ isStarted = FALSE
    /\ ruleOutcome = AllReset
    /\ previousRelayState = [y \in Relay |-> "RELAY_OFF"]
    /\ pin = [y \in Relay |-> FALSE]
    /\ settled = FALSE

Next == RulesRun \/ InputChange \/ Restart

Spec == Init /\ [][Next]_vars

\* loop() never blocks, so the rules run every second; no one owes a reply.
FairSpec == Spec /\ WF_vars(RulesRun)

----------------------------------------------------------------------------
(* Properties.                                                             *)

Cell == [valid : BOOLEAN, voltagemV : Voltage, internalTemp : Temperature,
         externalTemp : Temperature]

TypeOK ==
    /\ cell \in [Module -> Cell]
    /\ layout \in Layouts
    /\ DOMAIN rules = Rule /\ \A rule \in Rule : rules[rule] \in RuleSettings
    /\ relayDefault \in [Relay -> RelayState]
    /\ isStarted \in BOOLEAN
    /\ ruleOutcome \in [Rule -> BOOLEAN]
    /\ previousRelayState \in [Relay -> {"RELAY_ON", "RELAY_OFF"}]
    /\ pin \in [Relay -> BOOLEAN]
    /\ settled \in BOOLEAN

\* The pins are written only on a change of previousRelayState: the two agree all
\* the same, after a restart too.
PinsFollowRelays ==
    \A y \in Relay : pin[y] <=> previousRelayState[y] = "RELAY_ON"

Opinionated(y) == {rule \in Rule : ruleOutcome[rule] /\ rules[rule].relays[y] # "RELAY_X"}

\* Priority: a relay is on exactly if the tripped rule of the lowest number that
\* does not ignore it says so, or, with no such rule, its default does.
FirstRuleDecides ==
    settled => \A y \in Relay :
        pin[y] <=> \/ /\ Opinionated(y) = {}
                      /\ relayDefault[y] = "RELAY_ON"
                   \/ \E first \in Opinionated(y) :
                         /\ \A other \in Opinionated(y) : first <= other
                         /\ rules[first].relays[y] = "RELAY_ON"

\* A reset value that is not beyond the limit.
Sane(rule) ==
    IF rule \in OverRule THEN rules[rule].hysteresis <= rules[rule].value
                         ELSE rules[rule].hysteresis >= rules[rule].value

\* No chatter: with sane hysteresis, a second run on the same readings and
\* settings changes neither a rule nor a relay.
NoChatter ==
    [][RulesRun /\ settled /\ (\A rule \in Rule : Sane(rule)) => UNCHANGED outputs]_vars

\* Whether module m, or its bank, is beyond the limit of a rule.  Temperatures are
\* compared as uint8_t, so a low limit is of use only when none is negative.
Exceeds(m, rule) ==
    LET limit == rules[rule].value IN
    CASE rule = ModuleOverVoltage             -> cell[m].voltagemV > limit
      [] rule = ModuleUnderVoltage            -> cell[m].voltagemV < limit
      [] rule = ModuleOverTemperatureInternal -> cell[m].internalTemp > limit
      [] rule = ModuleOverTemperatureExternal ->
             cell[m].externalTemp # NoSensor /\ cell[m].externalTemp > limit
      [] rule = ModuleUnderTemperatureExternal ->
             /\ cell[m].externalTemp # NoSensor /\ cell[m].externalTemp < limit
             /\ \A temperature \in externalTemps : temperature >= 0
      [] rule = BankOverVoltage  -> packvoltage(m \div layout.series) > limit
      [] rule = BankUnderVoltage -> packvoltage(m \div layout.series) < limit

\* The rules judge every configured module: after a run with sane reset values and
\* no module at 0 V, whatever is beyond a limit has that rule tripped.  The rule
\* for low internal temperatures is looked at apart.
EveryExcessTrips ==
    settled /\ ~zeroVoltageModule =>
        \A m \in ValidModules, rule \in Rule \ {ModuleUnderTemperatureInternal} :
            Sane(rule) /\ Exceeds(m, rule) => ruleOutcome[rule]

\* All is well: no module reads 0 V, and every rule that is tested would reset.
Calm == /\ ~zeroVoltageModule
        /\ \A rule \in Rule : \/ rule \in ExternalRule /\ ~moduleHasExternalTempSensor
                              \/ Resets(rule) /\ ~Trips(rule)

\* Once all stays well, every rule lets go, for good, whatever was tripped before.
CalmReleases == <>[]Calm => <>[](ruleOutcome = AllReset)

----------------------------------------------------------------------------
(* What the code's comments say and its runs do not do.                    *)

\* "we probably haven't requested it yet (which happens during power up) so keep
\* count so we don't accidentally trigger rules": no rule trips before the first
\* reply.
NothingTripsBeforeReplies ==
    cell = NoReadings => ruleOutcome = AllReset

\* "Rule Individual cell UNDER temperature (Internal probe)".
ColdCellTrips ==
    settled /\ ~zeroVoltageModule =>
        \A m \in ValidModules :
            /\ \A temperature \in internalTemps : temperature >= 0
            /\ cell[m].internalTemp < rules[ModuleUnderTemperatureInternal].value
            => ruleOutcome[ModuleUnderTemperatureInternal]
============================================================================
