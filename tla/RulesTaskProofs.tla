--------------------------- MODULE RulesTaskProofs -------------------------
(***************************************************************************)
(* Proofs about the rules and relays, for any number of modules and        *)
(* relays, any readings, settings and restarts.                            *)
(***************************************************************************)
EXTENDS RulesTask, TLAPS

(***************************************************************************)
(* The levels of the pins.                                                 *)
(***************************************************************************)

\* Writing only the pins whose relay changed keeps them all right.
LEMMA DriveKeepsPins ==
    ASSUME PinsFollowRelays, NEW relay, DriveRelays(relay)
    PROVE  PinsFollowRelays'
<1> SUFFICES ASSUME NEW y \in Relay
             PROVE  pin'[y] <=> previousRelayState'[y] = "RELAY_ON"
    BY DEF PinsFollowRelays
<1>1. /\ pin'[y] = IF previousRelayState[y] # relay[y] THEN relay[y] = "RELAY_ON" ELSE pin[y]
      /\ previousRelayState'[y] = relay[y]
    BY DEF DriveRelays
<1>2. CASE previousRelayState[y] # relay[y]
    <2>1. pin'[y] = (relay[y] = "RELAY_ON")
        BY <1>1, <1>2, Zenon
    <2> QED
        BY <1>1, <2>1, Zenon
<1>3. CASE previousRelayState[y] = relay[y]
    <2>1. pin'[y] = pin[y]
        BY <1>1, <1>3, Zenon
    <2>2. pin[y] <=> previousRelayState[y] = "RELAY_ON"
        BY DEF PinsFollowRelays
    <2> QED
        BY <1>1, <1>3, <2>1, <2>2, Zenon
<1> QED
    BY <1>2, <1>3, Zenon

\* The output pins always show the relay state the controller believes in, from
\* power-up on, whatever the rules decide and whenever power fails.
THEOREM PinsRight == Spec => []PinsFollowRelays
<1>1. Init => PinsFollowRelays
    BY DEF Init, PinsFollowRelays
<1>2. PinsFollowRelays /\ [Next]_vars => PinsFollowRelays'
    <2> SUFFICES ASSUME PinsFollowRelays, [Next]_vars
                 PROVE  PinsFollowRelays'
        OBVIOUS
    <2>1. CASE RulesRun
        BY <2>1, DriveKeepsPins DEF RulesRun
    <2>2. CASE InputChange
        BY <2>2 DEF InputChange, outputs, PinsFollowRelays
    <2>3. CASE Restart
        BY <2>3 DEF Restart, PinsFollowRelays
    <2>4. CASE UNCHANGED vars
        BY <2>4 DEF vars, PinsFollowRelays
    <2> QED
        BY <2>1, <2>2, <2>3, <2>4 DEF Next
<1> QED
    BY <1>1, <1>2, PTL DEF Spec

(***************************************************************************)
(* Types.                                                                  *)
(***************************************************************************)

\* Whatever the measured values are, a rule is tripped or not.
LEMMA OutcomeIsBoolean ==
    ASSUME ruleOutcome \in [Rule -> BOOLEAN], NEW rule \in Rule
    PROVE  OutcomeAfter(rule) \in BOOLEAN
<1>1. Resets(rule) \in BOOLEAN
    <2>1. CASE rule \in OverRule
        BY <2>1 DEF Resets
    <2>2. CASE rule \notin OverRule
        BY <2>2 DEF Resets
    <2> QED
        BY <2>1, <2>2
<1>2. Trips(rule) \in BOOLEAN
    <2>1. CASE rule \in OverRule
        BY <2>1 DEF Trips
    <2>2. CASE rule \notin OverRule
        BY <2>2 DEF Trips
    <2> QED
        BY <2>1, <2>2
<1>3. CASE zeroVoltageModule
    BY <1>3 DEF OutcomeAfter
<1>4. CASE ~zeroVoltageModule /\ rule \in ExternalRule /\ ~moduleHasExternalTempSensor
    BY <1>4 DEF OutcomeAfter
<1>5. CASE /\ ~zeroVoltageModule /\ ~(rule \in ExternalRule /\ ~moduleHasExternalTempSensor)
           /\ ruleOutcome[rule]
    BY <1>1, <1>5 DEF OutcomeAfter
<1>6. CASE /\ ~zeroVoltageModule /\ ~(rule \in ExternalRule /\ ~moduleHasExternalTempSensor)
           /\ ~ruleOutcome[rule]
    BY <1>2, <1>6 DEF OutcomeAfter
<1> QED
    BY <1>3, <1>4, <1>5, <1>6

\* The relay settings rules[0..7].relays and the defaults are well typed.
RelaySettingsOK ==
    /\ \A n \in Rule : rules[n].relays \in [Relay -> RelayState]
    /\ relayDefault \in [Relay -> RelayState]

\* A relay that a rule sets, or that keeps its default, is on or off.
LEMMA RelaysAreOnOrOff ==
    ASSUME RelaySettingsOK, NEW outcome
    PROVE  Relays(outcome) \in [Relay -> {"RELAY_ON", "RELAY_OFF"}]
<1> DEFINE OnOff == [Relay -> {"RELAY_ON", "RELAY_OFF"}]
<1>1. DefaultRelays \in OnOff
    BY DEF DefaultRelays
<1>2. ASSUME NEW n \in Rule, NEW relay \in OnOff
      PROVE  Overwrite(outcome, n, relay) \in OnOff
    BY DEF Overwrite, RelaySettingsOK, RelayState
<1>3. \A n \in 0 .. 7 : n \in Rule
    BY DEF Rule
<1> SUFFICES Relays(outcome) \in OnOff
    OBVIOUS
<1> HIDE DEF OnOff
<1> DEFINE set(n, relay) == Overwrite(outcome, n, relay)
<1>4. set(7, DefaultRelays) \in OnOff
    BY <1>1, <1>2, <1>3
<1>5. set(5, set(6, set(7, DefaultRelays))) \in OnOff
    BY <1>2, <1>3, <1>4
<1>6. set(3, set(4, set(5, set(6, set(7, DefaultRelays))))) \in OnOff
    BY <1>2, <1>3, <1>5
<1>7. set(1, set(2, set(3, set(4, set(5, set(6, set(7, DefaultRelays))))))) \in OnOff
    BY <1>2, <1>3, <1>6
<1> QED
    BY <1>2, <1>3, <1>7 DEF Relays

\* The relay settings are well typed whenever the settings are.
LEMMA TypesOfRelaySettings == TypeOK => RelaySettingsOK
BY DEF TypeOK, RelaySettingsOK, RuleSettings

\* A reply leaves every cell well typed, configured or not.
LEMMA RepliesTyped ==
    ASSUME TypeOK
    PROVE  /\ \A reply \in VoltageReplies, last \in LastAsked :
                  VoltageReply(reply, last) => cell' \in [Module -> Cell]
           /\ \A reply \in TemperatureReplies, last \in LastAsked :
                  TemperatureReply(reply, last) => cell' \in [Module -> Cell]
<1>1. ASSUME NEW reply \in VoltageReplies, NEW last \in LastAsked,
             VoltageReply(reply, last)
      PROVE  cell' \in [Module -> Cell]
    <2>1. ASSUME NEW m \in Module
          PROVE  [cell[m] EXCEPT !.voltagemV = reply[m], !.valid = @ \/ reply[m] > 0] \in Cell
        <3>1. cell[m] \in Cell /\ reply[m] \in Voltage
            BY <1>1, RepliesAssumption DEF TypeOK
        <3>2. (cell[m].valid \/ reply[m] > 0) \in BOOLEAN
            OBVIOUS
        <3> QED
            BY <3>1, <3>2 DEF Cell
    <2> QED
        BY <1>1, <2>1 DEF VoltageReply, TypeOK
<1>2. ASSUME NEW reply \in TemperatureReplies, NEW last \in LastAsked,
             TemperatureReply(reply, last)
      PROVE  cell' \in [Module -> Cell]
    <2>1. ASSUME NEW m \in Module
          PROVE  [cell[m] EXCEPT !.internalTemp = reply[m].internal,
                                 !.externalTemp = reply[m].external] \in Cell
        <3>1. cell[m] \in Cell /\ reply[m] \in [internal : Temperature, external : Temperature]
            BY <1>2, RepliesAssumption DEF TypeOK
        <3> QED
            BY <3>1 DEF Cell
    <2> QED
        BY <1>2, <2>1 DEF TemperatureReply, TypeOK
<1> QED
    BY <1>1, <1>2

\* A written rule is well typed.
LEMMA WritesTyped ==
    ASSUME TypeOK
    PROVE  /\ \A write \in RuleWrites : SetRule(write) =>
                  DOMAIN rules' = Rule /\ \A rule \in Rule : rules'[rule] \in RuleSettings
           /\ \A write \in RelayWrites : SetRelayState(write) =>
                  DOMAIN rules' = Rule /\ \A rule \in Rule : rules'[rule] \in RuleSettings
<1>1. DOMAIN rules = Rule /\ \A rule \in Rule : rules[rule] \in RuleSettings
    BY DEF TypeOK
<1>2. ASSUME NEW write \in RuleWrites, SetRule(write), NEW rule \in Rule
      PROVE  DOMAIN rules' = Rule /\ rules'[rule] \in RuleSettings
    <2>1. write.rule \in Rule /\ write.value \in Nat /\ write.hysteresis \in Nat
        BY <1>2, SettingsAssumption
    <2> QED
        BY <1>1, <1>2, <2>1 DEF SetRule, RuleSettings
<1>3. ASSUME NEW write \in RelayWrites, SetRelayState(write), NEW rule \in Rule
      PROVE  DOMAIN rules' = Rule /\ rules'[rule] \in RuleSettings
    <2>1. write.rule \in Rule /\ write.relays \in [Relay -> RelayState]
        BY <1>3, SettingsAssumption
    <2> QED
        BY <1>1, <1>3, <2>1 DEF SetRelayState, RuleSettings
<1>4. 0 \in Rule
    BY DEF Rule
<1> QED
    BY <1>2, <1>3, <1>4

\* Whatever is read, written or lost, the settings, the readings and the relays stay
\* within their types; in particular a relay is always driven on or off.
THEOREM TypeCorrect == Spec => []TypeOK
<1>1. Init => TypeOK
    <2> SUFFICES ASSUME Init PROVE TypeOK
        OBVIOUS
    <2>1. cell \in [Module -> Cell]
        BY DEF Init, NoReadings, Cell, Voltage, Temperature
    <2>2. DOMAIN rules = Rule /\ \A rule \in Rule : rules[rule] \in RuleSettings
        BY SettingsAssumption DEF Init
    <2>3. relayDefault \in [Relay -> RelayState]
        BY DEF Init, NoDefaults, RelayState
    <2> QED
        BY <2>1, <2>2, <2>3 DEF Init, TypeOK, AllReset
<1>2. TypeOK /\ [Next]_vars => TypeOK'
    <2> SUFFICES ASSUME TypeOK, [Next]_vars
                 PROVE  TypeOK'
        OBVIOUS
    <2>1. CASE RulesRun
        <3>1. ruleOutcome' \in [Rule -> BOOLEAN]
            BY <2>1, OutcomeIsBoolean DEF RulesRun, TypeOK
        <3>2. Relays(ruleOutcome') \in [Relay -> {"RELAY_ON", "RELAY_OFF"}]
            BY RelaysAreOnOrOff, TypesOfRelaySettings
        <3> DEFINE relay == Relays(ruleOutcome')
        <3>3. DriveRelays(relay)
            BY <2>1 DEF RulesRun
        <3> HIDE DEF relay
        <3>4. previousRelayState' \in [Relay -> {"RELAY_ON", "RELAY_OFF"}]
            BY <3>2, <3>3 DEF DriveRelays, relay
        <3>5. pin' \in [Relay -> BOOLEAN]
            <4>1. ASSUME NEW y \in Relay
                  PROVE  (IF previousRelayState[y] # relay[y]
                          THEN relay[y] = "RELAY_ON" ELSE pin[y]) \in BOOLEAN
                <5>1. pin[y] \in BOOLEAN
                    BY DEF TypeOK
                <5>2. CASE previousRelayState[y] # relay[y]
                    BY <5>2, Zenon
                <5>3. CASE previousRelayState[y] = relay[y]
                    BY <5>1, <5>3, Zenon
                <5> QED
                    BY <5>2, <5>3
            <4> QED
                BY <3>3, <4>1 DEF DriveRelays
        <3> QED
            BY <2>1, <3>1, <3>4, <3>5 DEF RulesRun, inputs, TypeOK
    <2>2. CASE InputChange
        <3>1. ruleOutcome' \in [Rule -> BOOLEAN]
              /\ previousRelayState' \in [Relay -> {"RELAY_ON", "RELAY_OFF"}]
              /\ pin' \in [Relay -> BOOLEAN]
              /\ settled' \in BOOLEAN
            BY <2>2 DEF InputChange, outputs, TypeOK
        <3>2. CASE \E reply \in VoltageReplies, last \in LastAsked : VoltageReply(reply, last)
            BY <3>1, <3>2, RepliesTyped DEF VoltageReply, TypeOK
        <3>3. CASE \E reply \in TemperatureReplies, last \in LastAsked : TemperatureReply(reply, last)
            BY <3>1, <3>3, RepliesTyped DEF TemperatureReply, TypeOK
        <3>4. CASE Started
            BY <3>1, <3>4 DEF Started, TypeOK
        <3>5. CASE \E newLayout \in Layouts : SetLayout(newLayout)
            BY <3>1, <3>5 DEF SetLayout, TypeOK
        <3>6. CASE \E write \in RuleWrites : SetRule(write)
            BY <3>1, <3>6, WritesTyped DEF SetRule, TypeOK
        <3>7. CASE \E write \in RelayWrites : SetRelayState(write)
            BY <3>1, <3>7, WritesTyped DEF SetRelayState, TypeOK
        <3>8. CASE \E relays \in DefaultWrites : SetRelayDefaultState(relays)
            BY <3>1, <3>8, SettingsAssumption DEF SetRelayDefaultState, TypeOK
        <3> QED
            BY <2>2, <3>2, <3>3, <3>4, <3>5, <3>6, <3>7, <3>8 DEF InputChange
    <2>3. CASE Restart
        <3>1. cell' \in [Module -> Cell]
            BY <2>3 DEF Restart, NoReadings, Cell, Voltage, Temperature
        <3>2. relayDefault' \in [Relay -> RelayState]
            BY <2>3 DEF Restart, NoDefaults, RelayState
        <3> QED
            BY <2>3, <3>1, <3>2 DEF Restart, TypeOK, AllReset
    <2>4. CASE UNCHANGED vars
        BY <2>4 DEF vars, TypeOK
    <2> QED
        BY <2>1, <2>2, <2>3, <2>4 DEF Next
<1> QED
    BY <1>1, <1>2, PTL DEF Spec

(***************************************************************************)
(* Priority of the rules.                                                  *)
(***************************************************************************)

\* Rule n is tripped and does not ignore relay y.
Decides(outcome, n, y) == outcome[n] /\ rules[n].relays[y] # "RELAY_X"

\* Going through the rules from the last to the first and overwriting, the
\* first that decides has the last word.
LEMMA FirstOverwrites ==
    ASSUME NEW outcome, NEW y \in Relay, NEW n \in Rule,
           Decides(outcome, n, y),
           \A m \in Rule : m < n => ~Decides(outcome, m, y)
    PROVE  Relays(outcome)[y] = rules[n].relays[y]
<1> DEFINE set(m, relay) == Overwrite(outcome, m, relay)
<1>1. ASSUME NEW m, NEW relay
      PROVE  set(m, relay)[y] = IF Decides(outcome, m, y) THEN rules[m].relays[y] ELSE relay[y]
    BY DEF Overwrite, Decides
<1>2. Relays(outcome) =
          set(0, set(1, set(2, set(3, set(4, set(5, set(6, set(7, DefaultRelays))))))))
    BY DEF Relays
<1> HIDE DEF set
<1> n \in 0 .. 7 /\ \A m \in 0 .. 7 : m < n => ~Decides(outcome, m, y)
    BY DEF Rule
<1>3. CASE n \in 0 .. 3
    BY <1>1, <1>2, <1>3
<1>4. CASE n \in 4 .. 7
    <2>1. Relays(outcome)[y] = set(4, set(5, set(6, set(7, DefaultRelays))))[y]
        BY <1>1, <1>2, <1>4
    <2> QED
        BY <1>1, <1>4, <2>1
<1> QED
    BY <1>3, <1>4

\* A relay no rule decides on takes its default.
LEMMA DefaultRemains ==
    ASSUME NEW outcome, NEW y \in Relay, \A m \in Rule : ~Decides(outcome, m, y)
    PROVE  Relays(outcome)[y] = DefaultRelays[y]
<1> DEFINE set(m, relay) == Overwrite(outcome, m, relay)
<1>1. ASSUME NEW m, NEW relay
      PROVE  set(m, relay)[y] = IF Decides(outcome, m, y) THEN rules[m].relays[y] ELSE relay[y]
    BY DEF Overwrite, Decides
<1>2. Relays(outcome) =
          set(0, set(1, set(2, set(3, set(4, set(5, set(6, set(7, DefaultRelays))))))))
    BY DEF Relays
<1> HIDE DEF set
<1> \A m \in 0 .. 7 : ~Decides(outcome, m, y)
    BY DEF Rule
<1>3. Relays(outcome)[y] = set(4, set(5, set(6, set(7, DefaultRelays))))[y]
    BY <1>1, <1>2
<1> QED
    BY <1>1, <1>3

\* Among rules that decide there is a first one.
LEMMA FirstExists ==
    ASSUME NEW S, S \subseteq Rule, S # {}
    PROVE  \E n \in S : \A m \in S : n <= m
<1>1. \A m \in S : m \in 0 .. 7
    BY DEF Rule
<1>2. CASE \E m \in S : m \in 0 .. 3
    <2>1. CASE 0 \in S
        BY <1>1, <2>1
    <2>2. CASE 0 \notin S /\ 1 \in S
        BY <1>1, <2>2
    <2>3. CASE 0 \notin S /\ 1 \notin S /\ 2 \in S
        BY <1>1, <2>3
    <2>4. CASE 0 \notin S /\ 1 \notin S /\ 2 \notin S /\ 3 \in S
        BY <1>1, <2>4
    <2> QED
        BY <1>2, <2>1, <2>2, <2>3, <2>4
<1>3. CASE \A m \in S : m \in 4 .. 7
    <2>1. CASE 4 \in S
        BY <1>3, <2>1
    <2>2. CASE 4 \notin S /\ 5 \in S
        BY <1>3, <2>2
    <2>3. CASE 4 \notin S /\ 5 \notin S /\ 6 \in S
        BY <1>3, <2>3
    <2>4. CASE 4 \notin S /\ 5 \notin S /\ 6 \notin S
        BY <1>3, <2>4
    <2> QED
        BY <2>1, <2>2, <2>3, <2>4
<1> QED
    BY <1>1, <1>2, <1>3

\* Right after a run, every relay's output is what the tripped rule of the lowest
\* number that has an opinion on the relay says, or else the relay's default, for
\* all rules, relay settings and defaults a Modbus master may write.
THEOREM PriorityKept == Spec => []FirstRuleDecides
<1>1. Init => FirstRuleDecides
    BY DEF Init, FirstRuleDecides
<1>2. PinsFollowRelays' /\ FirstRuleDecides /\ [Next]_vars => FirstRuleDecides'
    <2> SUFFICES ASSUME PinsFollowRelays', FirstRuleDecides, [Next]_vars
                 PROVE  FirstRuleDecides'
        OBVIOUS
    <2>1. CASE RulesRun
        <3> SUFFICES ASSUME NEW y \in Relay
                     PROVE  (pin[y] <=>
                                \/ Opinionated(y) = {} /\ relayDefault[y] = "RELAY_ON"
                                \/ \E first \in Opinionated(y) :
                                      /\ \A other \in Opinionated(y) : first <= other
                                      /\ rules[first].relays[y] = "RELAY_ON")'
            BY DEF FirstRuleDecides
        <3> DEFINE outcome == ruleOutcome'
                   S == {rule \in Rule : Decides(outcome, rule, y)}
        <3>1. rules' = rules /\ relayDefault' = relayDefault
            BY <2>1 DEF RulesRun, inputs
        <3>2. Opinionated(y)' = S
            BY <3>1 DEF Opinionated, Decides
        <3>3. previousRelayState' = Relays(outcome)
            BY <2>1 DEF RulesRun, DriveRelays
        <3>4. pin'[y] <=> Relays(outcome)[y] = "RELAY_ON"
            BY <3>3 DEF PinsFollowRelays
        <3> HIDE DEF outcome
        <3>5. CASE S = {}
            <4>1. Relays(outcome)[y] = DefaultRelays[y]
                BY <3>5, DefaultRemains
            <4>2. DefaultRelays[y] = "RELAY_ON" <=> relayDefault[y] = "RELAY_ON"
                BY DEF DefaultRelays
            <4> QED
                BY <3>1, <3>2, <3>4, <3>5, <4>1, <4>2
        <3>6. CASE S # {}
            <4>1. PICK n \in S : \A m \in S : n <= m
                BY <3>6, FirstExists, S \subseteq Rule
            <4>2. n \in Rule /\ Decides(outcome, n, y)
                BY <4>1
            <4>3. \A m \in Rule : m < n => ~Decides(outcome, m, y)
                BY <4>1, <4>2 DEF Rule
            <4>4. Relays(outcome)[y] = rules[n].relays[y]
                BY <4>2, <4>3, FirstOverwrites
            <4>5. \A first \in S : (\A other \in S : first <= other) => first = n
                BY <4>1, <4>2 DEF Rule
            <4> HIDE DEF S
            <4> QED
                BY <3>1, <3>2, <3>4, <3>6, <4>1, <4>4, <4>5
        <3> QED
            BY <3>5, <3>6
    <2>2. CASE InputChange
        BY <2>2 DEF InputChange, FirstRuleDecides
    <2>3. CASE Restart
        BY <2>3 DEF Restart, FirstRuleDecides
    <2>4. CASE UNCHANGED vars
        BY <2>4 DEF vars, FirstRuleDecides, Opinionated
    <2> QED
        BY <2>1, <2>2, <2>3, <2>4 DEF Next
<1> QED
    BY <1>1, <1>2, PinsRight, PTL DEF Spec

============================================================================
