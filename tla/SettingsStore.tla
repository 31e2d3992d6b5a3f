--------------------------- MODULE SettingsStore ---------------------------
(***************************************************************************)
(* The settings of the controller: the copy in memory that the tasks use   *)
(* and the bytes in the EEPROM (src/FIRMWARE/src/settings/settings.cpp),   *)
(* with the Modbus callback that changes both (src/rtu/rtu.cpp).           *)
(*                                                                         *)
(* A callback calls several setters; each changes one item in memory and   *)
(* then writes its bytes one by one.  Power may fail between any two bytes *)
(* or in the middle of one; SETTINGS_Load then takes over what it reads.   *)
(*                                                                         *)
(* An item is the sequence of its bytes, lowest first; memory is seen only *)
(* by loop(), so an item changes there when its first byte is written.     *)
(*                                                                         *)
(* Operators whose name ends in a fault, as in ConfigureUncut, are not part  *)
(* of the model.  Each is a plausible mistake in the operator that follows *)
(* it, kept to show that a property would notice it.                       *)
(***************************************************************************)
EXTENDS Integers, Sequences

CONSTANTS
    RELAY_RULES,    \* number of rules, 8
    Configurations, \* [banks, series, temperature, threshold] a Modbus master writes
    Limits,         \* [rule, hysteresis, value], both two words, it writes
    RelayStates,    \* [rule, relays], four registers, it writes
    Defaults,       \* relay defaults, four registers, it writes
    MaxTorn         \* bound: power failures while bytes are being written

Byte == 0 .. 255
Word == 0 .. 65535
Erased == 255
Four == 1 .. 4

ASSUME RulesAssumption == RELAY_RULES \in 1 .. 8
\* Addresses of rules that do not exist would fall on other items.
ASSUME WritesAssumption ==
    /\ Configurations \subseteq
           [banks : Word, series : Word, temperature : Word, threshold : Word]
    /\ Limits \subseteq [rule : 0 .. RELAY_RULES - 1, hysteresis : Word \X Word, value : Word \X Word]
    /\ RelayStates \subseteq [rule : 0 .. RELAY_RULES - 1, relays : [Four -> Word]]
    /\ Defaults \subseteq [Four -> Word]
ASSUME TornAssumption == MaxTorn \in Nat

VARIABLES
    settings,   \* the items in memory
    eeprom,     \* the bytes in the EEPROM
    changes,    \* the items the running callback has not written completely
    written,    \* bytes of the first of them already written
    before,     \* auxiliary: the stored bytes of that item when it began
    torn        \* auxiliary: power failures that interrupted a callback

vars == <<settings, eeprom, changes, written, before, torn>>

----------------------------------------------------------------------------
(* The items and where they are stored.                                    *)

Single == {"totalNumberOfBanks", "totalNumberOfSeriesModules", "BypassOverTempShutdown",
           "BypassThresholdmV", "rulerelaydefault"}
PerRule == {"rulehysteresis", "rulevalue", "rulerelaystate"}
Item == (Single \X {0}) \cup (PerRule \X (0 .. RELAY_RULES - 1))

Width(item) ==
    CASE item[1] \in {"totalNumberOfBanks", "totalNumberOfSeriesModules",
                      "BypassOverTempShutdown"}  -> 1
      [] item[1] = "BypassThresholdmV"           -> 2
      [] item[1] \in PerRule \cup {"rulerelaydefault"} -> 4

BaseAdjacent(item) ==
    CASE item[1] = "totalNumberOfBanks"         -> 0
      [] item[1] = "totalNumberOfSeriesModules" -> 1
      [] item[1] = "BypassOverTempShutdown"     -> 2
      [] item[1] = "BypassThresholdmV"          -> 3
      [] item[1] = "rulerelaydefault"           -> 16
      [] item[1] = "rulehysteresis"             -> 32 + item[2]
      [] item[1] = "rulevalue"                  -> 64 + item[2]
      [] item[1] = "rulerelaystate"             -> 96 + item[2]

Base(item) ==
    CASE item[1] = "totalNumberOfBanks"         -> 0
      [] item[1] = "totalNumberOfSeriesModules" -> 1
      [] item[1] = "BypassOverTempShutdown"     -> 2
      [] item[1] = "BypassThresholdmV"          -> 3
      [] item[1] = "rulerelaydefault"           -> 16
      [] item[1] = "rulehysteresis"             -> 32 + 4 * item[2]
      [] item[1] = "rulevalue"                  -> 64 + 4 * item[2]
      [] item[1] = "rulerelaystate"             -> 96 + 4 * item[2]

\* The bytes of an item.
ReadFrom(memory, item) == [i \in 1 .. Width(item) |-> memory[Base(item) + i - 1]]
Address == 0 .. 127

----------------------------------------------------------------------------
(* The callbacks.                                                          *)

Low(word) == word % 256
High(word) == word \div 256

\* A uint32_t from two registers, lower word first.
Bytes(words) == <<Low(words[1]), High(words[1]), Low(words[2]), High(words[2])>>
LowBytes(words) == [i \in Four |-> Low(words[i])]

Set(name, index, bytes) == [item |-> <<name, index>>, value |-> bytes]

Calls(setters) ==
    /\ changes = <<>>
    /\ changes' = setters
    /\ written' = 0
    /\ before' = ReadFrom(eeprom, Head(setters).item)
    /\ UNCHANGED <<settings, eeprom, torn>>

ConfigureUncut(registers) ==
    Calls(<<Set("totalNumberOfBanks", 0, <<registers.banks>>),
            Set("totalNumberOfSeriesModules", 0, <<registers.series>>),
            Set("BypassOverTempShutdown", 0, <<registers.temperature>>),
            Set("BypassThresholdmV", 0, <<Low(registers.threshold), High(registers.threshold)>>)>>)

\* CONTROLLER_REPORT_CONFIGURATION; registers are cut to the setter's uint8_t.
Configure(registers) ==
    Calls(<<Set("totalNumberOfBanks", 0, <<Low(registers.banks)>>),
            Set("totalNumberOfSeriesModules", 0, <<Low(registers.series)>>),
            Set("BypassOverTempShutdown", 0, <<Low(registers.temperature)>>),
            Set("BypassThresholdmV", 0, <<Low(registers.threshold), High(registers.threshold)>>)>>)

SetLimits(registers) ==
    Calls(<<Set("rulehysteresis", registers.rule, Bytes(registers.hysteresis)),
            Set("rulevalue", registers.rule, Bytes(registers.value))>>)

SetRelayState(registers) ==
    Calls(<<Set("rulerelaystate", registers.rule, LowBytes(registers.relays))>>)

SetRelayDefaultState(registers) ==
    Calls(<<Set("rulerelaydefault", 0, LowBytes(registers))>>)

\* The next byte of the item being changed.
NextAddress == Base(Head(changes).item) + written
NextByte == Head(changes).value[written + 1]

WriteByteKeepsMemory ==
    /\ changes # <<>>
    /\ eeprom' = [eeprom EXCEPT ![NextAddress] = NextByte]
    /\ IF written + 1 < Width(Head(changes).item)
       THEN written' = written + 1 /\ UNCHANGED <<changes, before>>
       ELSE /\ written' = 0
            /\ changes' = Tail(changes)
            /\ before' = IF Tail(changes) = <<>> THEN <<>>
                         ELSE ReadFrom(eeprom, changes[2].item)
    /\ settings' = IF Head(changes).item[1] \in PerRule
                   THEN [settings EXCEPT ![Head(changes).item] = Head(changes).value]
                   ELSE settings
    /\ UNCHANGED torn

WriteByte ==
    /\ changes # <<>>
    /\ settings' = [settings EXCEPT ![Head(changes).item] = Head(changes).value]
    /\ eeprom' = [eeprom EXCEPT ![NextAddress] = NextByte]
    /\ IF written + 1 < Width(Head(changes).item)
       THEN written' = written + 1 /\ UNCHANGED <<changes, before>>
       ELSE /\ written' = 0
            /\ changes' = Tail(changes)
            /\ before' = IF Tail(changes) = <<>> THEN <<>>
                         ELSE ReadFrom(eeprom, changes[2].item)
    /\ UNCHANGED torn

----------------------------------------------------------------------------
(* SETTINGS_Load and power failures.                                       *)

AtLeastOne(bytes, otherwise) == IF bytes[1] = 0 THEN otherwise ELSE bytes

LoadedDefaultAlways(item, bytes) ==
    CASE item[1] \in {"totalNumberOfBanks", "totalNumberOfSeriesModules"} ->
             AtLeastOne(bytes, <<1>>)
      [] item[1] = "BypassOverTempShutdown" -> <<65>>
      [] item[1] = "BypassThresholdmV"      -> AtLeastOne(<<bytes[1], 0>>, <<184, 11>>)
      [] item[1] = "rulerelaydefault"       -> <<0, 0, 0, 0>>
      [] item[1] \in PerRule                -> bytes

\* What an item is loaded as, from its bytes: one byte of the threshold is read, and
\* the relay defaults are not.
Loaded(item, bytes) ==
    CASE item[1] \in {"totalNumberOfBanks", "totalNumberOfSeriesModules"} ->
             AtLeastOne(bytes, <<1>>)
      [] item[1] = "BypassOverTempShutdown" -> AtLeastOne(bytes, <<65>>)
      [] item[1] = "BypassThresholdmV"      -> AtLeastOne(<<bytes[1], 0>>, <<184, 11>>)
      [] item[1] = "rulerelaydefault"       -> <<0, 0, 0, 0>>
      [] item[1] \in PerRule                -> bytes

Load(memory) == [item \in Item |-> Loaded(item, ReadFrom(memory, item))]

\* The byte being written, if any, is still the old one, already the new one, or
\* erased.
PowerFails ==
    /\ IF changes = <<>> THEN UNCHANGED <<eeprom, torn>>
       ELSE /\ torn < MaxTorn
            /\ torn' = torn + 1
            /\ \E byte \in {eeprom[NextAddress], NextByte, Erased} :
                   eeprom' = [eeprom EXCEPT ![NextAddress] = byte]
    /\ settings' = Load(eeprom')
    /\ changes' = <<>>
    /\ written' = 0
    /\ before' = <<>>

\* First power-up, on a new EEPROM.
Init ==
    /\ eeprom = [address \in Address |-> Erased]
    /\ settings = Load(eeprom)
    /\ changes = <<>>
    /\ written = 0
    /\ before = <<>>
    /\ torn = 0

Callback ==
    \/ \E registers \in Configurations : Configure(registers)
    \/ \E registers \in Limits : SetLimits(registers)
    \/ \E registers \in RelayStates : SetRelayState(registers)
    \/ \E registers \in Defaults : SetRelayDefaultState(registers)

Next == Callback \/ WriteByte \/ PowerFails

Spec == Init /\ [][Next]_vars

----------------------------------------------------------------------------
(* Properties.                                                             *)

Value == Seq(Byte)
OfWidth(item) == {value \in Value : Len(value) = Width(item)}
Change == {change \in [item : Item, value : Value] : change.value \in OfWidth(change.item)}

TypeOK ==
    /\ DOMAIN settings = Item /\ \A item \in Item : settings[item] \in OfWidth(item)
    /\ eeprom \in [Address -> Byte]
    /\ changes \in Seq(Change)
    /\ written \in Nat /\ (changes # <<>> => written < Width(Head(changes).item))
    /\ before \in (IF changes = <<>> THEN {<<>>} ELSE OfWidth(Head(changes).item))
    /\ torn \in 0 .. MaxTorn

\* What is stored, an item that is being changed counting as unchanged.
Stored ==
    [item \in Item |-> IF changes # <<>> /\ item = Head(changes).item
                       THEN before ELSE ReadFrom(eeprom, item)]

\* Whenever power fails, items change as a whole and in the order of the calls:
\* only the one item being written can be torn, and no write touches another item.
Store == INSTANCE DurableStore WITH stored <- Stored
StoreIsDurable == Store!Spec

\* What SETTINGS_Load gives back as it was: not the relay defaults, of the threshold
\* only what fits one byte, and no 0 where at least 1 is wanted.
Survives(item) ==
    CASE item[1] \in PerRule           -> TRUE
      [] item[1] = "rulerelaydefault"  -> FALSE
      [] item[1] = "BypassThresholdmV" -> settings[item][1] # 0 /\ settings[item][2] = 0
      [] OTHER                         -> settings[item][1] # 0

\* A restart while nothing is written gives the tasks the settings they had, whether
\* a master wrote them, a torn write left them or an earlier restart loaded them.
RestartKeepsSettings ==
    [][PowerFails /\ changes = <<>> =>
           \A item \in Item : Survives(item) => settings'[item] = settings[item]]_vars

\* Memory agrees with the EEPROM on everything that is not about to change.
MemoryAgrees ==
    \A item \in Item :
        (\A i \in DOMAIN changes : changes[i].item # item) =>
            settings[item] \in {ReadFrom(eeprom, item), Load(eeprom)[item]}

----------------------------------------------------------------------------
(* What the code's comments say and its runs do not do.                    *)

\* "Default starting state for relay types": a controller starts with the relay
\* defaults it was given.
DefaultsSurviveRestart ==
    [][PowerFails /\ changes = <<>> =>
           settings'[<<"rulerelaydefault", 0>>] = settings[<<"rulerelaydefault", 0>>]]_vars
============================================================================
