------------------------- MODULE SettingsStoreProofs -----------------------
(***************************************************************************)
(* Proofs about the settings store, for any number of rules up to eight,   *)
(* any values a master writes and any power failures.                      *)
(***************************************************************************)
EXTENDS SettingsStore, TLAPS

(***************************************************************************)
(* The layout of the EEPROM.                                               *)
(***************************************************************************)

\* Where each item lies, kind by kind.
LEMMA Places ==
    ASSUME NEW item \in Item
    PROVE  \/ item = <<"totalNumberOfBanks", 0>> /\ Base(item) = 0 /\ Width(item) = 1
           \/ item = <<"totalNumberOfSeriesModules", 0>> /\ Base(item) = 1 /\ Width(item) = 1
           \/ item = <<"BypassOverTempShutdown", 0>> /\ Base(item) = 2 /\ Width(item) = 1
           \/ item = <<"BypassThresholdmV", 0>> /\ Base(item) = 3 /\ Width(item) = 2
           \/ item = <<"rulerelaydefault", 0>> /\ Base(item) = 16 /\ Width(item) = 4
           \/ \E n \in 0 .. 7 :
                  /\ n < RELAY_RULES
                  /\ Width(item) = 4
                  /\ \/ item = <<"rulehysteresis", n>> /\ Base(item) = 32 + 4 * n
                     \/ item = <<"rulevalue", n>> /\ Base(item) = 64 + 4 * n
                     \/ item = <<"rulerelaystate", n>> /\ Base(item) = 96 + 4 * n
<1>1. CASE item \in Single \X {0}
    BY <1>1 DEF Single, PerRule, Base, Width
<1>2. CASE item \in PerRule \X (0 .. RELAY_RULES - 1)
    <2>1. PICK kind \in PerRule, n \in 0 .. RELAY_RULES - 1 : item = <<kind, n>>
        BY <1>2
    <2>2. n \in 0 .. 7 /\ n < RELAY_RULES
        BY RulesAssumption
    <2>3. CASE kind = "rulehysteresis"
        BY <2>1, <2>2, <2>3 DEF PerRule, Base, Width
    <2>4. CASE kind = "rulevalue"
        BY <2>1, <2>2, <2>4 DEF PerRule, Base, Width
    <2>5. CASE kind = "rulerelaystate"
        BY <2>1, <2>2, <2>5 DEF PerRule, Base, Width
    <2> QED
        BY <2>3, <2>4, <2>5 DEF PerRule
<1> QED
    BY <1>1, <1>2 DEF Item

\* Every item lies within the EEPROM and has at least one byte.
LEMMA PlacesFit ==
    ASSUME NEW item \in Item
    PROVE  /\ Width(item) \in {1, 2, 4}
           /\ Base(item) \in Nat
           /\ \A i \in 0 .. Width(item) - 1 : Base(item) + i \in Address
BY Places DEF Address

\* No two items share a byte.
LEMMA PlacesApart ==
    ASSUME NEW a \in Item, NEW b \in Item, a # b,
           NEW i \in 0 .. Width(a) - 1, NEW j \in 0 .. Width(b) - 1
    PROVE  Base(a) + i # Base(b) + j
BY Places

\* The bytes of an item, and what is loaded from them, are of its width.
LEMMA ReadFromTyped ==
    ASSUME NEW memory \in [Address -> Byte], NEW item \in Item
    PROVE  ReadFrom(memory, item) \in OfWidth(item)
<1>1. Width(item) \in Nat
    BY PlacesFit
<1>2. \A i \in 1 .. Width(item) : memory[Base(item) + i - 1] \in Byte
    <2> SUFFICES ASSUME NEW i \in 1 .. Width(item)
                 PROVE  memory[Base(item) + i - 1] \in Byte
        OBVIOUS
    <2>1. i - 1 \in 0 .. Width(item) - 1 /\ Base(item) + (i - 1) = Base(item) + i - 1
        BY <1>1, PlacesFit
    <2> QED
        BY <2>1, PlacesFit
<1>3. ReadFrom(memory, item) \in Seq(Byte) /\ Len(ReadFrom(memory, item)) = Width(item)
    BY <1>1, <1>2 DEF ReadFrom
<1> QED
    BY <1>3 DEF OfWidth, Value

\* Whatever the EEPROM holds, what is loaded from it has its width.
LEMMA LoadTyped ==
    ASSUME NEW memory \in [Address -> Byte]
    PROVE  DOMAIN Load(memory) = Item /\ \A item \in Item : Load(memory)[item] \in OfWidth(item)
<1>1. DOMAIN Load(memory) = Item
    BY DEF Load
<1>2. ASSUME NEW item \in Item
      PROVE  Load(memory)[item] \in OfWidth(item)
    <2> DEFINE bytes == ReadFrom(memory, item)
    <2>1. bytes \in Seq(Byte) /\ Len(bytes) = Width(item)
        BY ReadFromTyped DEF OfWidth, Value
    <2>2. Len(bytes) \in {1, 2, 4} /\ bytes[1] \in Byte
        BY <2>1, PlacesFit
    <2> HIDE DEF bytes
    <2> SUFFICES Loaded(item, bytes) \in OfWidth(item)
        BY DEF Load, bytes
    <2>3. CASE Width(item) = 1
        <3>1. Loaded(item, bytes) \in {bytes, <<1>>, <<65>>}
            BY <2>3, Places DEF Loaded, AtLeastOne
        <3>2. <<1>> \in Seq(Byte) /\ Len(<<1>>) = 1 /\ <<65>> \in Seq(Byte) /\ Len(<<65>>) = 1
            BY DEF Byte
        <3> QED
            BY <2>1, <2>3, <3>1, <3>2 DEF OfWidth, Value
    <2>4. CASE Width(item) = 2
        <3>1. Loaded(item, bytes) \in {<<bytes[1], 0>>, <<184, 11>>}
            <4>1. item[1] = "BypassThresholdmV"
                BY <2>4, Places
            <4>2. Loaded(item, bytes) = AtLeastOne(<<bytes[1], 0>>, <<184, 11>>)
                BY <4>1 DEF Loaded, PerRule
            <4> QED
                BY <4>2 DEF AtLeastOne
        <3>2. /\ <<bytes[1], 0>> \in Seq(Byte) /\ Len(<<bytes[1], 0>>) = 2
              /\ <<184, 11>> \in Seq(Byte) /\ Len(<<184, 11>>) = 2
            BY <2>2 DEF Byte
        <3> QED
            BY <2>4, <3>1, <3>2 DEF OfWidth, Value
    <2>5. CASE Width(item) = 4
        <3>1. Loaded(item, bytes) \in {bytes, <<0, 0, 0, 0>>}
            BY <2>5, Places DEF Loaded, PerRule
        <3>2. <<0, 0, 0, 0>> \in Seq(Byte) /\ Len(<<0, 0, 0, 0>>) = 4
            BY DEF Byte
        <3> QED
            BY <2>1, <2>5, <3>1, <3>2 DEF OfWidth, Value
    <2> QED
        BY <2>3, <2>4, <2>5, PlacesFit
<1> QED
    BY <1>1, <1>2

\* Writing a byte of one item changes no other.
LEMMA WriteElsewhere ==
    ASSUME NEW memory \in [Address -> Byte], NEW a \in Item, NEW b \in Item, a # b,
           NEW i \in 0 .. Width(a) - 1, NEW byte
    PROVE  ReadFrom([memory EXCEPT ![Base(a) + i] = byte], b) = ReadFrom(memory, b)
<1> DEFINE new == [memory EXCEPT ![Base(a) + i] = byte]
<1>1. ASSUME NEW j \in 1 .. Width(b)
      PROVE  new[Base(b) + j - 1] = memory[Base(b) + j - 1]
    <2>1. /\ Width(b) \in Nat /\ j - 1 \in 0 .. Width(b) - 1
          /\ Base(b) + (j - 1) = Base(b) + j - 1
        BY PlacesFit
    <2>2. Base(a) + i # Base(b) + (j - 1) /\ Base(b) + (j - 1) \in Address
        BY <2>1, PlacesApart, PlacesFit
    <2> QED
        BY <2>1, <2>2
<1> QED
    BY <1>1 DEF ReadFrom

(***************************************************************************)
(* The inductive invariant.                                                *)
(***************************************************************************)

\* A callback sets each item once.
Distinct ==
    \A i, j \in DOMAIN changes : i # j => changes[i].item # changes[j].item

\* The bytes counted as written are in the EEPROM, and the item is in memory.
Progress ==
    changes # <<>> =>
        /\ \A k \in 1 .. written : ReadFrom(eeprom, Head(changes).item)[k] = Head(changes).value[k]
        /\ written > 0 => settings[Head(changes).item] = Head(changes).value

InductiveInv == TypeOK /\ Distinct /\ Progress /\ MemoryAgrees

\* A new EEPROM and what is loaded from it meet the invariant.
LEMMA InitEstablishesInv == Init => InductiveInv
<1> SUFFICES ASSUME Init PROVE InductiveInv
    OBVIOUS
<1>1. eeprom \in [Address -> Byte] /\ settings = Load(eeprom) /\ changes = <<>>
    BY DEF Init, Byte, Erased
<1>2. TypeOK
    BY <1>1, LoadTyped, TornAssumption DEF Init, TypeOK
<1> QED
    BY <1>1, <1>2 DEF InductiveInv, Distinct, Progress, MemoryAgrees

\* A callback begins with well-typed changes of different items.
LEMMA CallsStep ==
    ASSUME InductiveInv, NEW setters \in Seq(Change), setters # <<>>, Calls(setters),
           \A i, j \in DOMAIN setters : i # j => setters[i].item # setters[j].item
    PROVE  InductiveInv'
<1>1. /\ UNCHANGED <<settings, eeprom, torn>> /\ changes = <<>> /\ changes' = setters
      /\ written' = 0 /\ before' = ReadFrom(eeprom, Head(setters).item)
    BY DEF Calls
<1>2. Head(setters) \in Change
    OBVIOUS
<1>3. Head(setters).item \in Item
    BY <1>2 DEF Change
<1>4. TypeOK'
    <2>1. Width(Head(setters).item) > 0
        BY <1>3, PlacesFit
    <2>2. before' \in OfWidth(Head(setters).item)
        BY <1>1, <1>3, ReadFromTyped DEF InductiveInv, TypeOK
    <2> QED
        BY <1>1, <2>1, <2>2 DEF InductiveInv, TypeOK
<1>5. Distinct' /\ Progress'
    BY <1>1 DEF Distinct, Progress
<1>6. MemoryAgrees'
    BY <1>1 DEF InductiveInv, MemoryAgrees
<1> QED
    BY <1>4, <1>5, <1>6 DEF InductiveInv

\* What the master writes, cut to bytes, has the width of the item it is for.
LEMMA CutToBytes ==
    ASSUME NEW word \in Word
    PROVE  Low(word) \in Byte /\ High(word) \in Byte
<1>1. word \in Nat /\ word <= 65535
    BY DEF Word
<1>2. word % 256 \in 0 .. 255
    BY <1>1
<1>4. word \div 256 \in Int
    BY <1>1
<1>5. word = 256 * (word \div 256) + (word % 256)
    BY <1>1
<1>3. word \div 256 \in 0 .. 255
    BY <1>1, <1>2, <1>4, <1>5
<1> QED
    BY <1>2, <1>3 DEF Low, High, Byte

\* A setter's change is of the item it names.
LEMMA SetTyped ==
    ASSUME NEW name, NEW index, NEW bytes \in Seq(Byte), <<name, index>> \in Item,
           Len(bytes) = Width(<<name, index>>)
    PROVE  Set(name, index, bytes) \in Change /\ Set(name, index, bytes).item = <<name, index>>
BY DEF Set, Change, OfWidth, Value

\* The callback of the four global settings keeps the invariant.
LEMMA ConfigureStep ==
    ASSUME InductiveInv, NEW registers \in Configurations, Configure(registers)
    PROVE  InductiveInv'
<1> DEFINE banks == Set("totalNumberOfBanks", 0, <<Low(registers.banks)>>)
           series == Set("totalNumberOfSeriesModules", 0, <<Low(registers.series)>>)
           temperature == Set("BypassOverTempShutdown", 0, <<Low(registers.temperature)>>)
           threshold == Set("BypassThresholdmV", 0,
                            <<Low(registers.threshold), High(registers.threshold)>>)
<1>1. /\ registers.banks \in Word /\ registers.series \in Word
      /\ registers.temperature \in Word /\ registers.threshold \in Word
    BY WritesAssumption
<1>2. /\ <<Low(registers.banks)>> \in Seq(Byte) /\ <<Low(registers.series)>> \in Seq(Byte)
      /\ <<Low(registers.temperature)>> \in Seq(Byte)
      /\ <<Low(registers.threshold), High(registers.threshold)>> \in Seq(Byte)
    BY <1>1, CutToBytes
<1>3. /\ <<"totalNumberOfBanks", 0>> \in Item /\ Width(<<"totalNumberOfBanks", 0>>) = 1
      /\ <<"totalNumberOfSeriesModules", 0>> \in Item
      /\ Width(<<"totalNumberOfSeriesModules", 0>>) = 1
      /\ <<"BypassOverTempShutdown", 0>> \in Item /\ Width(<<"BypassOverTempShutdown", 0>>) = 1
      /\ <<"BypassThresholdmV", 0>> \in Item /\ Width(<<"BypassThresholdmV", 0>>) = 2
    BY DEF Item, Single, PerRule, Width
<1>4. banks \in Change /\ banks.item = <<"totalNumberOfBanks", 0>>
    BY <1>2, <1>3, SetTyped
<1>5. series \in Change /\ series.item = <<"totalNumberOfSeriesModules", 0>>
    BY <1>2, <1>3, SetTyped
<1>6. temperature \in Change /\ temperature.item = <<"BypassOverTempShutdown", 0>>
    BY <1>2, <1>3, SetTyped
<1>7. threshold \in Change /\ threshold.item = <<"BypassThresholdmV", 0>>
    BY <1>2, <1>3, SetTyped
<1>8. Calls(<<banks, series, temperature, threshold>>)
    BY DEF Configure
<1> HIDE DEF banks, series, temperature, threshold
<1> DEFINE setters == <<banks, series, temperature, threshold>>
<1>9. setters \in Seq(Change) /\ setters # <<>>
    BY <1>4, <1>5, <1>6, <1>7
<1>10. \A i, j \in DOMAIN setters : i # j => setters[i].item # setters[j].item
    <2>1. DOMAIN setters = 1 .. 4
        OBVIOUS
    <2>2. /\ setters[1] = banks /\ setters[2] = series
          /\ setters[3] = temperature /\ setters[4] = threshold
        OBVIOUS
    <2> QED
        BY <1>4, <1>5, <1>6, <1>7, <2>1, <2>2
<1> HIDE DEF setters
<1> QED
    BY <1>8, <1>9, <1>10, CallsStep DEF setters

\* So does the callback of a rule's limits.
LEMMA SetLimitsStep ==
    ASSUME InductiveInv, NEW registers \in Limits, SetLimits(registers)
    PROVE  InductiveInv'
<1> DEFINE hysteresis == Set("rulehysteresis", registers.rule, Bytes(registers.hysteresis))
           value == Set("rulevalue", registers.rule, Bytes(registers.value))
<1>1. /\ registers.rule \in 0 .. RELAY_RULES - 1
      /\ registers.hysteresis \in Word \X Word /\ registers.value \in Word \X Word
    BY WritesAssumption
<1>2. ASSUME NEW words \in Word \X Word
      PROVE  Bytes(words) \in Seq(Byte) /\ Len(Bytes(words)) = 4
    BY CutToBytes DEF Bytes
<1>3. /\ <<"rulehysteresis", registers.rule>> \in Item
      /\ Width(<<"rulehysteresis", registers.rule>>) = 4
      /\ <<"rulevalue", registers.rule>> \in Item /\ Width(<<"rulevalue", registers.rule>>) = 4
    BY <1>1 DEF Item, PerRule, Width
<1>4. hysteresis \in Change /\ hysteresis.item = <<"rulehysteresis", registers.rule>>
    BY <1>1, <1>2, <1>3, SetTyped
<1>5. value \in Change /\ value.item = <<"rulevalue", registers.rule>>
    BY <1>1, <1>2, <1>3, SetTyped
<1>6. Calls(<<hysteresis, value>>)
    BY DEF SetLimits
<1> HIDE DEF hysteresis, value
<1> DEFINE setters == <<hysteresis, value>>
<1>7. setters \in Seq(Change) /\ setters # <<>>
    BY <1>4, <1>5
<1>8. \A i, j \in DOMAIN setters : i # j => setters[i].item # setters[j].item
    BY <1>4, <1>5
<1> HIDE DEF setters
<1> QED
    BY <1>6, <1>7, <1>8, CallsStep DEF setters

\* So do those of a rule's relay states and of the relays' defaults.
LEMMA SetRelaysStep ==
    ASSUME InductiveInv,
           \/ \E registers \in RelayStates : SetRelayState(registers)
           \/ \E registers \in Defaults : SetRelayDefaultState(registers)
    PROVE  InductiveInv'
<1>1. ASSUME NEW words \in [Four -> Word]
      PROVE  LowBytes(words) \in Seq(Byte) /\ Len(LowBytes(words)) = 4
    <2>1. \A i \in 1 .. 4 : Low(words[i]) \in Byte
        BY CutToBytes DEF Four
    <2> QED
        BY <2>1 DEF LowBytes, Four
<1>2. ASSUME NEW name, NEW index, NEW words \in [Four -> Word],
             <<name, index>> \in Item, Width(<<name, index>>) = 4,
             Calls(<<Set(name, index, LowBytes(words))>>)
      PROVE  InductiveInv'
    <2> DEFINE setter == Set(name, index, LowBytes(words))
    <2>1. setter \in Change
        BY <1>1, <1>2, SetTyped
    <2> HIDE DEF setter
    <2>2. /\ <<setter>> \in Seq(Change) /\ <<setter>> # <<>>
          /\ \A i, j \in DOMAIN <<setter>> : i # j => <<setter>>[i].item # <<setter>>[j].item
        BY <2>1
    <2> QED
        BY <1>2, <2>2, CallsStep DEF setter
<1>3. ASSUME NEW registers \in RelayStates, SetRelayState(registers)
      PROVE  InductiveInv'
    <2>1. registers.rule \in 0 .. RELAY_RULES - 1 /\ registers.relays \in [Four -> Word]
        BY WritesAssumption
    <2>2. <<"rulerelaystate", registers.rule>> \in Item
          /\ Width(<<"rulerelaystate", registers.rule>>) = 4
        BY <2>1 DEF Item, PerRule, Width
    <2> QED
        BY <1>2, <1>3, <2>1, <2>2 DEF SetRelayState
<1>4. ASSUME NEW registers \in Defaults, SetRelayDefaultState(registers)
      PROVE  InductiveInv'
    <2>1. registers \in [Four -> Word]
        BY WritesAssumption
    <2>2. <<"rulerelaydefault", 0>> \in Item /\ Width(<<"rulerelaydefault", 0>>) = 4
        BY DEF Item, Single, PerRule, Width
    <2> QED
        BY <1>2, <1>4, <2>1, <2>2 DEF SetRelayDefaultState
<1> QED
    BY <1>3, <1>4

\* A power failure loads what is stored, torn or not.
LEMMA PowerFailsStep ==
    ASSUME InductiveInv, PowerFails
    PROVE  InductiveInv'
<1>1. eeprom' \in [Address -> Byte] /\ torn' \in 0 .. MaxTorn
    <2>1. CASE changes = <<>>
        BY <2>1 DEF PowerFails, InductiveInv, TypeOK
    <2>2. CASE changes # <<>>
        <3>1. /\ eeprom \in [Address -> Byte] /\ torn \in 0 .. MaxTorn /\ written \in Nat
              /\ Head(changes) \in Change /\ written < Width(Head(changes).item)
            BY <2>2 DEF InductiveInv, TypeOK
        <3>2. /\ Head(changes).item \in Item /\ Head(changes).value \in Seq(Byte)
              /\ Len(Head(changes).value) = Width(Head(changes).item)
            BY <3>1 DEF Change, OfWidth, Value
        <3>3. NextByte \in Byte
            BY <3>1, <3>2, PlacesFit DEF NextByte
        <3>4. NextAddress \in Address
            BY <3>1, <3>2, PlacesFit DEF NextAddress
        <3>5. eeprom[NextAddress] \in Byte /\ Erased \in Byte
            BY <3>1, <3>4 DEF Erased, Byte
        <3>6. PICK byte \in {eeprom[NextAddress], NextByte, Erased} :
                  eeprom' = [eeprom EXCEPT ![NextAddress] = byte]
            BY <2>2 DEF PowerFails
        <3>7. torn < MaxTorn /\ torn' = torn + 1
            BY <2>2 DEF PowerFails
        <3>8. byte \in Byte
            BY <3>3, <3>5, <3>6
        <3>9. eeprom' \in [Address -> Byte]
            BY <3>1, <3>6, <3>8
        <3> QED
            BY <3>1, <3>7, <3>9, TornAssumption
    <2> QED
        BY <2>1, <2>2
<1>2. settings' = Load(eeprom') /\ changes' = <<>> /\ written' = 0 /\ before' = <<>>
    BY DEF PowerFails
<1>3. TypeOK'
    BY <1>1, <1>2, LoadTyped DEF TypeOK
<1>4. Distinct' /\ Progress' /\ MemoryAgrees'
    BY <1>2 DEF Distinct, Progress, MemoryAgrees
<1> QED
    BY <1>3, <1>4 DEF InductiveInv

\* The bytes an item is made of are written in their order.
LEMMA WriteByteTyped ==
    ASSUME InductiveInv, WriteByte
    PROVE  /\ changes \in Seq(Change) /\ changes # <<>>
           /\ Head(changes).item \in Item /\ Head(changes).value \in Seq(Byte)
           /\ Len(Head(changes).value) = Width(Head(changes).item)
           /\ Head(changes).value \in OfWidth(Head(changes).item)
           /\ written \in 0 .. Width(Head(changes).item) - 1
           /\ Width(Head(changes).item) \in Nat
           /\ NextAddress \in Address /\ NextByte \in Byte
           /\ eeprom \in [Address -> Byte]
           /\ eeprom' \in [Address -> Byte]
           /\ eeprom' = [eeprom EXCEPT ![Base(Head(changes).item) + written] = NextByte]
<1>1. changes # <<>> /\ eeprom' = [eeprom EXCEPT ![NextAddress] = NextByte]
    BY DEF WriteByte
<1>2. /\ eeprom \in [Address -> Byte] /\ written \in Nat /\ changes \in Seq(Change)
      /\ Head(changes) \in Change /\ written < Width(Head(changes).item)
    BY <1>1 DEF InductiveInv, TypeOK
<1>3. /\ Head(changes).item \in Item /\ Head(changes).value \in Seq(Byte)
      /\ Len(Head(changes).value) = Width(Head(changes).item)
      /\ Head(changes).value \in OfWidth(Head(changes).item)
    BY <1>2 DEF Change, OfWidth, Value
<1>4. Width(Head(changes).item) \in Nat /\ written \in 0 .. Width(Head(changes).item) - 1
    BY <1>2, <1>3, PlacesFit
<1>5. NextAddress \in Address
    BY <1>3, <1>4, PlacesFit DEF NextAddress
<1>6. NextByte \in Byte
    BY <1>3, <1>4 DEF NextByte
<1>7. eeprom' \in [Address -> Byte]
    BY <1>1, <1>2, <1>5, <1>6
<1> QED
    BY <1>1, <1>2, <1>3, <1>4, <1>5, <1>6, <1>7 DEF NextAddress

\* A byte written extends what is stored of its item and leaves the others alone.
LEMMA WriteByteProgress ==
    ASSUME InductiveInv, WriteByte
    PROVE  /\ \A k \in 1 .. written + 1 :
                  ReadFrom(eeprom', Head(changes).item)[k] = Head(changes).value[k]
           /\ \A item \in Item :
                  item # Head(changes).item => ReadFrom(eeprom', item) = ReadFrom(eeprom, item)
           /\ written + 1 = Width(Head(changes).item) =>
                  ReadFrom(eeprom', Head(changes).item) = Head(changes).value
<1> DEFINE own == Head(changes).item
           value == Head(changes).value
<1>1. /\ own \in Item /\ value \in Seq(Byte) /\ Len(value) = Width(own)
      /\ written \in 0 .. Width(own) - 1 /\ Width(own) \in Nat /\ changes # <<>>
      /\ eeprom \in [Address -> Byte] /\ eeprom' \in [Address -> Byte]
      /\ eeprom' = [eeprom EXCEPT ![Base(own) + written] = NextByte]
      /\ NextByte = value[written + 1]
    BY WriteByteTyped DEF NextByte
<1>2. \A k \in 1 .. written : ReadFrom(eeprom, own)[k] = value[k]
    BY <1>1 DEF InductiveInv, Progress
<1> HIDE DEF own, value
<1>3. ASSUME NEW k \in 1 .. written + 1
      PROVE  ReadFrom(eeprom', own)[k] = value[k]
    <2>1. k \in 1 .. Width(own) /\ k - 1 \in 0 .. Width(own) - 1
        BY <1>1
    <2>2. Base(own) \in Nat /\ Base(own) + (k - 1) \in Address
          /\ Base(own) + (k - 1) = Base(own) + k - 1
        BY <1>1, <2>1, PlacesFit
    <2>3. ReadFrom(eeprom', own)[k] = eeprom'[Base(own) + k - 1]
          /\ ReadFrom(eeprom, own)[k] = eeprom[Base(own) + k - 1]
        BY <2>1 DEF ReadFrom
    <2>4. CASE k = written + 1
        BY <1>1, <2>2, <2>3, <2>4
    <2>5. CASE k \in 1 .. written
        <3>1. Base(own) + k - 1 # Base(own) + written
            BY <1>1, <2>2, <2>5
        <3> QED
            BY <1>1, <1>2, <2>2, <2>3, <2>5, <3>1
    <2> QED
        BY <1>1, <2>4, <2>5
<1>4. ASSUME NEW item \in Item, item # own
      PROVE  ReadFrom(eeprom', item) = ReadFrom(eeprom, item)
    <2>1. ReadFrom([eeprom EXCEPT ![Base(own) + written] = NextByte], item)
              = ReadFrom(eeprom, item)
        <3>1. own \in Item /\ written \in 0 .. Width(own) - 1 /\ eeprom \in [Address -> Byte]
            BY <1>1
        <3> QED
            BY <3>1, <1>4, WriteElsewhere
    <2> QED
        BY <1>1, <2>1
<1>5. ASSUME written + 1 = Width(own)
      PROVE  ReadFrom(eeprom', own) = value
    <2>1. ReadFrom(eeprom', own) = [k \in 1 .. Width(own) |-> ReadFrom(eeprom', own)[k]]
        BY DEF ReadFrom
    <2>2. value = [k \in 1 .. Width(own) |-> value[k]]
        BY <1>1
    <2> QED
        BY <1>3, <1>5, <2>1, <2>2
<1> QED
    BY <1>3, <1>4, <1>5 DEF own, value

\* The next byte of a change reaches the EEPROM, and memory with the first of them.
LEMMA WriteByteStep ==
    ASSUME InductiveInv, WriteByte
    PROVE  InductiveInv'
<1> DEFINE own == Head(changes).item
           value == Head(changes).value
<1>1. /\ own \in Item /\ value \in OfWidth(own) /\ changes # <<>> /\ changes \in Seq(Change)
      /\ written \in 0 .. Width(own) - 1 /\ Width(own) \in Nat
      /\ eeprom \in [Address -> Byte] /\ eeprom' \in [Address -> Byte]
      /\ own = changes[1].item
    BY WriteByteTyped
<1>2. /\ \A k \in 1 .. written + 1 : ReadFrom(eeprom', own)[k] = value[k]
      /\ \A item \in Item : item # own => ReadFrom(eeprom', item) = ReadFrom(eeprom, item)
      /\ written + 1 = Width(own) => ReadFrom(eeprom', own) = value
    BY WriteByteProgress
<1>3. /\ settings' = [settings EXCEPT ![own] = value]
      /\ UNCHANGED torn
      /\ IF written + 1 < Width(own)
         THEN written' = written + 1 /\ changes' = changes /\ before' = before
         ELSE /\ written' = 0 /\ changes' = Tail(changes)
              /\ before' = IF Tail(changes) = <<>> THEN <<>>
                           ELSE ReadFrom(eeprom, changes[2].item)
    BY DEF WriteByte
<1>4. /\ DOMAIN settings = Item /\ \A item \in Item : settings[item] \in OfWidth(item)
      /\ before \in OfWidth(own) /\ torn \in 0 .. MaxTorn
    BY <1>1 DEF InductiveInv, TypeOK
<1>5. \A i, j \in DOMAIN changes : i # j => changes[i].item # changes[j].item
    BY DEF InductiveInv, Distinct
<1>6. /\ settings'[own] = value /\ DOMAIN settings' = Item
      /\ \A item \in Item : item # own => settings'[item] = settings[item]
      /\ \A item \in Item : settings'[item] \in OfWidth(item)
    BY <1>1, <1>3, <1>4
<1>7. ASSUME NEW item \in Item, item # own,
             \A i \in DOMAIN changes : changes[i].item # item
      PROVE  settings'[item] \in {ReadFrom(eeprom', item), Load(eeprom')[item]}
    <2>1. settings[item] \in {ReadFrom(eeprom, item), Load(eeprom)[item]}
        BY <1>7 DEF InductiveInv, MemoryAgrees
    <2>2. ReadFrom(eeprom', item) = ReadFrom(eeprom, item)
        BY <1>2, <1>7
    <2>3. Load(eeprom')[item] = Load(eeprom)[item]
        BY <2>2 DEF Load
    <2> QED
        BY <1>6, <1>7, <2>1, <2>2, <2>3
<1> HIDE DEF own, value
<1>8. CASE written + 1 < Width(own)
    <2>1. written' = written + 1 /\ changes' = changes /\ before' = before
        BY <1>3, <1>8
    <2>2. TypeOK'
        BY <1>1, <1>3, <1>4, <1>6, <1>8, <2>1 DEF TypeOK, own
    <2>3. Distinct' /\ Progress'
        BY <1>2, <1>5, <1>6, <2>1 DEF Distinct, Progress, own, value
    <2>4. MemoryAgrees'
        <3>1. 1 \in DOMAIN changes
            BY <1>1
        <3> QED
            BY <1>1, <1>7, <2>1, <3>1 DEF MemoryAgrees
    <2> QED
        BY <2>2, <2>3, <2>4 DEF InductiveInv
<1>9. CASE written + 1 = Width(own)
    <2>1. written' = 0 /\ changes' = Tail(changes)
          /\ before' = IF Tail(changes) = <<>> THEN <<>> ELSE ReadFrom(eeprom, changes[2].item)
        BY <1>1, <1>3, <1>9
    <2>2. /\ Tail(changes) \in Seq(Change) /\ Len(Tail(changes)) = Len(changes) - 1
          /\ \A i \in DOMAIN Tail(changes) :
                 i + 1 \in DOMAIN changes /\ Tail(changes)[i] = changes[i + 1]
          /\ Len(changes) \in Nat
        BY <1>1
    <2>3. TypeOK'
        <3>1. ASSUME Tail(changes) # <<>>
              PROVE  /\ 0 < Width(Head(Tail(changes)).item)
                     /\ ReadFrom(eeprom, changes[2].item) \in OfWidth(Head(Tail(changes)).item)
            <4>1. 1 \in DOMAIN Tail(changes) /\ Head(Tail(changes)) = changes[2]
                BY <2>2, <3>1
            <4>2. changes[2].item \in Item
                BY <1>1, <2>2, <4>1 DEF Change
            <4> QED
                BY <1>1, <4>1, <4>2, PlacesFit, ReadFromTyped
        <3> QED
            BY <1>1, <1>3, <1>4, <1>6, <2>1, <2>2, <3>1 DEF TypeOK
    <2>4. Distinct'
        <3>1. ASSUME NEW i \in DOMAIN Tail(changes), NEW j \in DOMAIN Tail(changes), i # j
              PROVE  Tail(changes)[i].item # Tail(changes)[j].item
            <4>1. i \in Nat /\ j \in Nat /\ i + 1 # j + 1
                BY <2>2, <3>1
            <4> QED
                BY <1>5, <2>2, <4>1
        <3> QED
            BY <2>1, <3>1 DEF Distinct
    <2>5. Progress'
        BY <2>1 DEF Progress
    <2>6. MemoryAgrees'
        <3> SUFFICES ASSUME NEW item \in Item,
                            \A i \in DOMAIN Tail(changes) : Tail(changes)[i].item # item
                     PROVE  settings'[item] \in {ReadFrom(eeprom', item), Load(eeprom')[item]}
            BY <2>1 DEF MemoryAgrees
        <3>1. CASE item = own
            BY <1>2, <1>6, <1>9, <3>1
        <3>2. CASE item # own
            <4>1. ASSUME NEW i \in DOMAIN changes
                  PROVE  changes[i].item # item
                <5>1. CASE i = 1
                    BY <1>1, <3>2, <5>1
                <5>2. CASE i # 1
                    <6>1. i - 1 \in DOMAIN Tail(changes) /\ (i - 1) + 1 = i
                        BY <1>1, <2>2, <5>2
                    <6> QED
                        BY <2>2, <6>1
                <5> QED
                    BY <5>1, <5>2
            <4> QED
                BY <1>7, <3>2, <4>1
        <3> QED
            BY <3>1, <3>2
    <2> QED
        BY <2>3, <2>4, <2>5, <2>6 DEF InductiveInv
<1> QED
    BY <1>1, <1>8, <1>9

\* Every step keeps the invariant.
LEMMA NextPreservesInv == InductiveInv /\ [Next]_vars => InductiveInv'
<1> SUFFICES ASSUME InductiveInv, [Next]_vars PROVE InductiveInv'
    OBVIOUS
<1>1. CASE Callback
    BY <1>1, ConfigureStep, SetLimitsStep, SetRelaysStep DEF Callback
<1>2. CASE WriteByte
    BY <1>2, WriteByteStep
<1>3. CASE PowerFails
    BY <1>3, PowerFailsStep
<1>4. CASE UNCHANGED vars
    BY <1>4 DEF vars, InductiveInv, TypeOK, Distinct, Progress, MemoryAgrees
<1> QED
    BY <1>1, <1>2, <1>3, <1>4 DEF Next

\* The inductive invariant holds in every reachable state.
LEMMA Invariance == Spec => []InductiveInv
<1> QED
    BY InitEstablishesInv, NextPreservesInv, PTL DEF Spec

(***************************************************************************)
(* The theorems.                                                           *)
(***************************************************************************)

\* Every item in memory keeps its width, every change under way is of an item that
\* exists, and what is written stays within the EEPROM.
THEOREM TypeCorrect == Spec => []TypeOK
<1>1. InductiveInv => TypeOK
    BY DEF InductiveInv
<1> QED
    BY <1>1, Invariance, PTL

\* The tasks work with what a restart would give them, or with what it would be
\* loaded as: after any calls, torn writes and restarts.
THEOREM MemoryAgreesWithStore == Spec => []MemoryAgrees
<1>1. InductiveInv => MemoryAgrees
    BY DEF InductiveInv
<1> QED
    BY <1>1, Invariance, PTL

\* SETTINGS_Load gives every item back that it can give back.
LEMMA LoadKeeps ==
    ASSUME InductiveInv, PowerFails, changes = <<>>, NEW item \in Item, Survives(item)
    PROVE  settings'[item] = settings[item]
<1> DEFINE bytes == ReadFrom(eeprom, item)
<1>1. bytes \in Seq(Byte) /\ Len(bytes) = Width(item)
    BY ReadFromTyped DEF InductiveInv, TypeOK, OfWidth, Value
<1>2. settings'[item] = Loaded(item, bytes)
    BY DEF PowerFails, Load
<1>3. settings[item] \in {bytes, Loaded(item, bytes)}
    BY DEF InductiveInv, MemoryAgrees, Load
<1> HIDE DEF bytes
<1>4. ASSUME settings[item] = bytes
      PROVE  Loaded(item, bytes) = bytes
    <2>1. CASE item[1] \in PerRule
        BY <2>1 DEF Loaded, PerRule
    <2>2. CASE item[1] = "BypassThresholdmV"
        <3>1. bytes[1] # 0 /\ bytes[2] = 0 /\ Len(bytes) = 2
            BY <1>1, <1>4, <2>2, Places DEF Survives, PerRule
        <3>2. bytes = <<bytes[1], 0>>
            BY <1>1, <3>1
        <3>3. Loaded(item, bytes) = AtLeastOne(<<bytes[1], 0>>, <<184, 11>>)
            BY <2>2 DEF Loaded, PerRule
        <3> QED
            BY <3>1, <3>2, <3>3 DEF AtLeastOne
    <2>3. CASE item[1] \in {"totalNumberOfBanks", "totalNumberOfSeriesModules",
                            "BypassOverTempShutdown"}
        <3>1. bytes[1] # 0
            BY <1>4, <2>3 DEF Survives, PerRule
        <3> QED
            BY <2>3, <3>1 DEF Loaded, AtLeastOne, PerRule
    <2>4. item[1] # "rulerelaydefault"
        BY DEF Survives, PerRule
    <2> QED
        BY <2>1, <2>2, <2>3, <2>4, Places DEF PerRule
<1> QED
    BY <1>2, <1>3, <1>4

\* A restart with no change under way gives back, out of the EEPROM, every setting that
\* SETTINGS_Load reads in full: the setters wrote them all, and where it looks for them.
THEOREM RestartKeepsWhatItLoads == Spec => RestartKeepsSettings
<1>1. InductiveInv /\ [Next]_vars =>
          [PowerFails /\ changes = <<>> =>
               \A item \in Item : Survives(item) => settings'[item] = settings[item]]_vars
    BY LoadKeeps
<1> QED
    BY <1>1, Invariance, PTL DEF Spec, RestartKeepsSettings

(***************************************************************************)
(* The store implements DurableStore.                                      *)
(***************************************************************************)

\* The abstract store holds a value for every item.
LEMMA StoredTyped == TypeOK => Stored \in [Item -> Value]
<1> SUFFICES ASSUME TypeOK PROVE Stored \in [Item -> Value]
    OBVIOUS
<1>1. ASSUME NEW item \in Item, changes # <<>>, item = Head(changes).item
      PROVE  before \in Value
    BY <1>1 DEF TypeOK, OfWidth
<1>2. ASSUME NEW item \in Item
      PROVE  ReadFrom(eeprom, item) \in Value
    BY ReadFromTyped DEF TypeOK, OfWidth
<1> QED
    BY <1>1, <1>2 DEF Stored

\* A sequence over a set is one over every larger set.
LEMMA SequencesWiden ==
    ASSUME NEW S, NEW T, S \subseteq T, NEW seq \in Seq(S)
    PROVE  seq \in Seq(T)
OBVIOUS

\* A callback begins a sequence of changes of the abstract store.
LEMMA CallbackBegins ==
    ASSUME InductiveInv, InductiveInv', Callback
    PROVE  Store!Begin
<1>1. PICK setters : Calls(setters) /\ setters # <<>>
    <2> DEFINE Begun == \E setters : Calls(setters) /\ setters # <<>>
    <2>1. ASSUME NEW registers, Configure(registers) PROVE Begun
        BY <2>1 DEF Configure
    <2>2. ASSUME NEW registers, SetLimits(registers) PROVE Begun
        BY <2>2 DEF SetLimits
    <2>3. ASSUME NEW registers, SetRelayState(registers) PROVE Begun
        BY <2>3 DEF SetRelayState
    <2>4. ASSUME NEW registers, SetRelayDefaultState(registers) PROVE Begun
        BY <2>4 DEF SetRelayDefaultState
    <2> HIDE DEF Begun
    <2>5. Begun
        BY <2>1, <2>2, <2>3, <2>4 DEF Callback
    <2> QED
        BY <2>5 DEF Begun
<1>2. /\ changes = <<>> /\ changes' = setters /\ changes' # <<>>
      /\ before' = ReadFrom(eeprom, Head(changes').item) /\ eeprom' = eeprom
    BY <1>1 DEF Calls
<1>3. changes' \in Seq(Change)
    BY DEF InductiveInv, TypeOK
<1>4. changes' \in Seq([item : Item, value : Value])
    <2>1. Change \subseteq [item : Item, value : Value]
        BY DEF Change
    <2> QED
        BY <1>3, <2>1, SequencesWiden
<1>5. Stored' = Stored
    BY <1>2 DEF Stored
<1> QED
    BY <1>2, <1>4, <1>5 DEF Store!Begin

\* A byte completes the change under way, or changes nothing the store shows.
LEMMA WriteByteChanges ==
    ASSUME InductiveInv, InductiveInv', WriteByte
    PROVE  Store!Change \/ UNCHANGED <<Stored, changes>>
<1> DEFINE own == Head(changes).item
           value == Head(changes).value
<1>1. /\ own \in Item /\ value \in OfWidth(own) /\ changes # <<>> /\ changes \in Seq(Change)
      /\ written \in 0 .. Width(own) - 1 /\ Width(own) \in Nat
      /\ own = changes[1].item
    BY WriteByteTyped
<1>2. /\ \A item \in Item : item # own => ReadFrom(eeprom', item) = ReadFrom(eeprom, item)
      /\ written + 1 = Width(own) => ReadFrom(eeprom', own) = value
    BY WriteByteProgress
<1>3. CASE written + 1 < Width(own)
    <2>1. changes' = changes /\ before' = before
        BY <1>3 DEF WriteByte
    <2>2. Stored' = Stored
        BY <1>1, <1>2, <2>1 DEF Stored
    <2> QED
        BY <2>1, <2>2
<1>4. CASE written + 1 = Width(own)
    <2>1. /\ changes' = Tail(changes)
          /\ before' = IF Tail(changes) = <<>> THEN <<>> ELSE ReadFrom(eeprom, changes[2].item)
        BY <1>1, <1>4 DEF WriteByte
    <2>2. Tail(changes) # <<>> =>
              /\ Head(Tail(changes)) = changes[2] /\ changes[2].item # own
        <3>1. ASSUME Tail(changes) # <<>>
              PROVE  1 \in DOMAIN changes /\ 2 \in DOMAIN changes
                         /\ Head(Tail(changes)) = changes[2]
            BY <1>1, <3>1
        <3> QED
            BY <1>1, <3>1 DEF InductiveInv, Distinct
    <2>3. ASSUME NEW item \in Item
          PROVE  Stored'[item] = IF item = own THEN value ELSE Stored[item]
        <3>1. CASE item = own
            <4>1. Stored'[item] = ReadFrom(eeprom', item)
                BY <2>1, <2>2, <3>1 DEF Stored
            <4> QED
                BY <1>2, <1>4, <3>1, <4>1
        <3>2. CASE item # own
            <4>1. Stored[item] = ReadFrom(eeprom, item)
                BY <3>2 DEF Stored
            <4>2. Stored'[item] = ReadFrom(eeprom, item)
                BY <1>2, <2>1, <2>2, <3>2 DEF Stored
            <4> QED
                BY <3>2, <4>1, <4>2
        <3> QED
            BY <3>1, <3>2
    <2>4. DOMAIN Stored = Item /\ DOMAIN Stored' = Item
        BY DEF Stored
    <2>5. Stored' = [Stored EXCEPT ![own] = value]
        <3>1. Stored = [item \in Item |-> Stored[item]]
            BY DEF Stored
        <3>2. Stored' = [item \in Item |-> Stored'[item]]
            BY DEF Stored
        <3> HIDE DEF own, value
        <3> QED
            BY <1>1, <2>3, <3>1, <3>2
    <2> QED
        BY <1>1, <2>1, <2>5 DEF Store!Change
<1> QED
    BY <1>1, <1>3, <1>4

\* A power failure leaves at most the item under way torn.
LEMMA PowerFailureFails ==
    ASSUME InductiveInv, InductiveInv', PowerFails
    PROVE  Store!Fail
<1>1. changes' = <<>>
    BY DEF PowerFails
<1>2. Stored' \in [Item -> Value]
    <2>1. ASSUME NEW item \in Item
          PROVE  ReadFrom(eeprom', item) \in Value
        BY ReadFromTyped DEF InductiveInv, TypeOK, OfWidth
    <2> QED
        BY <1>1, <2>1 DEF Stored
<1>3. ASSUME NEW item \in Item, changes = <<>> \/ item # Head(changes).item
      PROVE  Stored'[item] = Stored[item]
    <2>1. Stored[item] = ReadFrom(eeprom, item)
        BY <1>3 DEF Stored
    <2>2. Stored'[item] = ReadFrom(eeprom', item)
        BY <1>1 DEF Stored
    <2>3. CASE changes = <<>>
        BY <2>1, <2>2, <2>3 DEF PowerFails
    <2>4. CASE changes # <<>>
        <3> DEFINE own == Head(changes).item
        <3>1. /\ eeprom \in [Address -> Byte] /\ Head(changes) \in Change
              /\ written \in Nat /\ written < Width(own)
            BY <2>4 DEF InductiveInv, TypeOK
        <3>2. own \in Item /\ Width(own) \in Nat
            BY <3>1, PlacesFit DEF Change
        <3>3. written \in 0 .. Width(own) - 1
            BY <3>1, <3>2
        <3>4. PICK byte : eeprom' = [eeprom EXCEPT ![Base(own) + written] = byte]
            BY <2>4 DEF PowerFails, NextAddress
        <3>5. item # own
            BY <1>3, <2>4
        <3> HIDE DEF own
        <3>6. ReadFrom([eeprom EXCEPT ![Base(own) + written] = byte], item)
                  = ReadFrom(eeprom, item)
            BY <3>1, <3>2, <3>3, <3>5, WriteElsewhere
        <3> QED
            BY <2>1, <2>2, <3>4, <3>6
    <2> QED
        BY <2>3, <2>4
<1> QED
    BY <1>1, <1>2, <1>3 DEF Store!Fail

\* Whenever power fails, settings change as a whole and in the order of the calls:
\* only the one item being written can be torn, and no write touches another item.
THEOREM SettingsAreDurable == Spec => StoreIsDurable
<1>1. Init => Store!Init
    <2> SUFFICES ASSUME Init PROVE Store!Init
        OBVIOUS
    <2>1. Stored \in [Item -> Value]
        BY InitEstablishesInv, StoredTyped DEF InductiveInv
    <2> QED
        BY <2>1 DEF Init, Store!Init
<1>2. InductiveInv /\ InductiveInv' /\ [Next]_vars => [Store!Next]_<<Stored, changes>>
    <2> SUFFICES ASSUME InductiveInv, InductiveInv', [Next]_vars
                 PROVE  Store!Next \/ UNCHANGED <<Stored, changes>>
        OBVIOUS
    <2>1. CASE Callback
        BY <2>1, CallbackBegins DEF Store!Next
    <2>2. CASE WriteByte
        BY <2>2, WriteByteChanges DEF Store!Next
    <2>3. CASE PowerFails
        BY <2>3, PowerFailureFails DEF Store!Next
    <2>4. CASE UNCHANGED vars
        BY <2>4 DEF vars, Stored
    <2> QED
        BY <2>1, <2>2, <2>3, <2>4 DEF Next
<1> QED
    BY <1>1, <1>2, Invariance, PTL DEF Spec, StoreIsDurable, Store!Spec
============================================================================
