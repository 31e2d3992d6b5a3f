--------------------------- MODULE BmsTaskProofs ---------------------------
(***************************************************************************)
(* Proofs about the request scheduler, for every number of modules up to   *)
(* 25, every queue of at least four packets and every Modbus traffic.      *)
(***************************************************************************)
EXTENDS BmsTask, TLAPS

InductiveInv == TypeOK /\ NoRequestRefused /\ ScheduleInv /\ QueueMatchesConfig

(***************************************************************************)
(* The packet generator builds well-formed packets.                        *)
(***************************************************************************)

\* Addresses of the modules of any configuration fit in a packet.
LEMMA SizesFit == \A size \in Sizes : size \in 1 .. 255
BY SizesAssumption

\* A range of modules that exist, of any command, is a packet.
LEMMA RangeIsPacket ==
    ASSUME NEW command \in Command, NEW first \in Address, NEW last \in Address
    PROVE  ModuleRange(command, first, last) \in Packet
BY DEF ModuleRange, Packet

\* Broadcasts and requests to all modules are packets.
LEMMA RequestsArePackets ==
    ASSUME TypeOK, NEW command \in Command
    PROVE  /\ Broadcast(command) \in Packet
           /\ AllModules(command) \in Packet
           /\ AllModules(command).end_address < numberOfModules
<1>1. numberOfModules \in 1 .. 255
    BY SizesFit DEF TypeOK
<1>2. MaxModules \in Address /\ 0 \in Address /\ numberOfModules - 1 \in Address
    BY <1>1, ModulesAssumption DEF Address
<1>3. AllModules(command).end_address = numberOfModules - 1
    BY DEF AllModules, ModuleRange
<1> QED
    BY <1>1, <1>2, <1>3, RangeIsPacket DEF Broadcast, AllModules

\* A burst of settings requests: how many, and for which modules.
LEMMA SettingsRequestsLemma ==
    ASSUME NEW first \in Nat, NEW last \in Nat, first <= last, last <= 255
    PROVE  /\ SettingsRequests(first, last) \in Seq(Packet)
           /\ Len(SettingsRequests(first, last)) = last + 1 - first
           /\ DOMAIN SettingsRequests(first, last) = 1 .. last + 1 - first
           /\ \A i \in 1 .. last + 1 - first :
                  SettingsRequests(first, last)[i].end_address = first + i - 1
<1> DEFINE n == last + 1 - first
           packet(i) == ModuleRange("ReadSettings", first + i - 1, first + i - 1)
<1>1. n \in Nat
    OBVIOUS
<1>2. ASSUME NEW i \in 1 .. n
      PROVE  packet(i) \in Packet
    <2>1. first + i - 1 \in Address
        BY DEF Address
    <2>2. "ReadSettings" \in Command
        BY DEF Command, RangeCommand, SweepCommand
    <2> QED
        BY <2>1, <2>2, RangeIsPacket
<1>3. SettingsRequests(first, last) = [i \in 1 .. n |-> packet(i)]
    BY DEF SettingsRequests
<1>4. SettingsRequests(first, last) \in [1 .. n -> Packet]
    BY <1>2, <1>3
<1>5. SettingsRequests(first, last) \in Seq(Packet)
    BY <1>1, <1>4
<1>6. Len(SettingsRequests(first, last)) = n
    BY <1>1, <1>4, <1>5
<1>7. \A i \in 1 .. n : SettingsRequests(first, last)[i].end_address = first + i - 1
    BY <1>3 DEF ModuleRange
<1> QED
    BY <1>4, <1>5, <1>6, <1>7

(***************************************************************************)
(* The end of BMS_TaskRun.                                                 *)
(***************************************************************************)

\* When the new packets fit, none is refused, one packet leaves, and whatever
\* stays queued was queued before or is new.
LEMMA QueueAndTransmitLemma ==
    ASSUME TypeOK,
           NEW packets \in Seq(Packet),
           Len(requestQueue) + Len(packets) <= QueueCapacity,
           QueueAndTransmit(packets)
    PROVE  /\ requestQueue' \in Seq(Packet)
           /\ Len(requestQueue') = IF Len(requestQueue) + Len(packets) = 0 THEN 0
                                   ELSE Len(requestQueue) + Len(packets) - 1
           /\ Len(requestQueue') <= QueueCapacity
           /\ \A i \in DOMAIN requestQueue' :
                  \/ \E j \in DOMAIN requestQueue : requestQueue'[i] = requestQueue[j]
                  \/ \E j \in DOMAIN packets : requestQueue'[i] = packets[j]
           /\ sent' \in Seq(Packet) /\ Len(sent') <= 1
           /\ swept' \subseteq Packet
           /\ refused' = refused
<1> DEFINE queue == requestQueue \o packets
<1>1. PushAll(requestQueue, packets) = queue
    BY DEF PushAll
<1>2. /\ requestQueue \in Seq(Packet) /\ queue \in Seq(Packet)
      /\ Len(queue) = Len(requestQueue) + Len(packets)
      /\ QueueCapacity \in Nat
    BY CapacityAssumption DEF TypeOK
<1>3. \A i \in 1 .. Len(queue) :
          queue[i] = IF i <= Len(requestQueue) THEN requestQueue[i]
                     ELSE packets[i - Len(requestQueue)]
    BY <1>2
<1>4. refused' = refused
    BY <1>2 DEF QueueAndTransmit, TypeOK
<1>5. CASE queue = <<>>
    <2>1. requestQueue' = <<>> /\ sent' = <<>> /\ swept' = swept
        BY <1>1, <1>5 DEF QueueAndTransmit
    <2> QED
        BY <1>2, <1>4, <1>5, <2>1 DEF TypeOK
<1>6. CASE queue # <<>>
    <2>1. /\ requestQueue' = Tail(queue) /\ sent' = <<Head(queue)>>
          /\ swept' = SweptAfter(Head(queue))
        BY <1>1, <1>6 DEF QueueAndTransmit
    <2>2. Head(queue) \in Packet /\ Tail(queue) \in Seq(Packet)
          /\ Len(Tail(queue)) = Len(queue) - 1 /\ Len(queue) >= 1
        BY <1>2, <1>6
    <2>3. swept' \subseteq Packet
        BY <2>1, <2>2 DEF SweptAfter, TypeOK
    <2>4. ASSUME NEW i \in DOMAIN requestQueue'
          PROVE  \/ \E j \in DOMAIN requestQueue : requestQueue'[i] = requestQueue[j]
                 \/ \E j \in DOMAIN packets : requestQueue'[i] = packets[j]
        <3>1. i \in 1 .. Len(queue) - 1 /\ requestQueue'[i] = queue[i + 1]
            BY <1>2, <2>1, <2>2
        <3>2. CASE i + 1 <= Len(requestQueue)
            <4>1. requestQueue'[i] = requestQueue[i + 1] /\ i + 1 \in DOMAIN requestQueue
                BY <1>2, <1>3, <3>1, <3>2
            <4> QED
                BY <4>1
        <3>3. CASE i + 1 > Len(requestQueue)
            <4>1. /\ requestQueue'[i] = packets[i + 1 - Len(requestQueue)]
                  /\ i + 1 - Len(requestQueue) \in DOMAIN packets
                BY <1>2, <1>3, <3>1, <3>3
            <4> QED
                BY <4>1
        <3> QED
            BY <1>2, <3>1, <3>2, <3>3
    <2>5. sent' \in Seq(Packet) /\ Len(sent') = 1
        BY <2>1, <2>2
    <2>6. /\ requestQueue' \in Seq(Packet)
          /\ Len(requestQueue') = Len(requestQueue) + Len(packets) - 1
          /\ Len(requestQueue) + Len(packets) >= 1
        BY <1>2, <2>1, <2>2
    <2> QED
        BY <1>2, <1>4, <2>3, <2>4, <2>5, <2>6
<1> QED
    BY <1>5, <1>6

(***************************************************************************)
(* One tick.                                                               *)
(***************************************************************************)

\* The part of a tick's proof that is the same for all of its actions.
LEMMA TickFrame ==
    ASSUME InductiveInv,
           NEW packets \in Seq(Packet),
           \A i \in DOMAIN packets : packets[i].command \in RangeCommand
                                       => packets[i].end_address < numberOfModules,
           Len(requestQueue) + Len(packets) <= QueueCapacity,
           QueueAndTransmit(packets),
           cpt' = Second, UNCHANGED modbusVars,
           bmsState' \in State, dummyVar' \in 0 .. MaxModules, isStarted' \in BOOLEAN
    PROVE  /\ TypeOK' /\ NoRequestRefused' /\ QueueMatchesConfig'
           /\ Len(requestQueue') = IF Len(requestQueue) + Len(packets) = 0 THEN 0
                                   ELSE Len(requestQueue) + Len(packets) - 1
           /\ Len(requestQueue) \in Nat /\ Len(requestQueue') \in Nat
           /\ (Len(requestQueue') = 0 <=> requestQueue' = <<>>)
<1> USE DEF InductiveInv
<1>1. /\ requestQueue' \in Seq(Packet)
      /\ Len(requestQueue') = IF Len(requestQueue) + Len(packets) = 0 THEN 0
                              ELSE Len(requestQueue) + Len(packets) - 1
      /\ Len(requestQueue') <= QueueCapacity
      /\ \A i \in DOMAIN requestQueue' :
             \/ \E j \in DOMAIN requestQueue : requestQueue'[i] = requestQueue[j]
             \/ \E j \in DOMAIN packets : requestQueue'[i] = packets[j]
      /\ sent' \in Seq(Packet) /\ Len(sent') <= 1
      /\ swept' \subseteq Packet
      /\ refused' = refused
    BY QueueAndTransmitLemma
<1>2. cpt' \in 0 .. Period - 1
    BY DEF TypeOK, Second, Period
<1>3. TypeOK'
    BY <1>1, <1>2 DEF TypeOK, modbusVars
<1>4. NoRequestRefused'
    BY <1>1 DEF NoRequestRefused
<1>5. QueueMatchesConfig'
    <2> SUFFICES ASSUME NEW i \in DOMAIN requestQueue',
                        requestQueue'[i].command \in RangeCommand
                 PROVE  requestQueue'[i].end_address < numberOfModules
        BY DEF QueueMatchesConfig, modbusVars
    <2>1. CASE \E j \in DOMAIN requestQueue : requestQueue'[i] = requestQueue[j]
        BY <2>1 DEF QueueMatchesConfig
    <2>2. CASE \E j \in DOMAIN packets : requestQueue'[i] = packets[j]
        BY <2>2
    <2> QED
        BY <1>1, <2>1, <2>2
<1>6. Len(requestQueue) \in Nat /\ Len(requestQueue') \in Nat
      /\ (Len(requestQueue') = 0 <=> requestQueue' = <<>>)
    BY <1>1 DEF TypeOK
<1> QED
    BY <1>1, <1>3, <1>4, <1>5, <1>6

\* A tick that only transmits.
LEMMA TransmitFrame ==
    ASSUME InductiveInv, Transmit, cpt' = Second, UNCHANGED modbusVars,
           bmsState' \in State, dummyVar' \in 0 .. MaxModules, isStarted' \in BOOLEAN
    PROVE  /\ TypeOK' /\ NoRequestRefused' /\ QueueMatchesConfig'
           /\ Len(requestQueue) \in Nat
           /\ Len(requestQueue') = IF Len(requestQueue) = 0 THEN 0
                                   ELSE Len(requestQueue) - 1
           /\ (Len(requestQueue) = 0 <=> requestQueue = <<>>)
           /\ (Len(requestQueue') = 0 <=> requestQueue' = <<>>)
<1> DEFINE packets == <<>>
<1>1. /\ packets \in Seq(Packet) /\ Len(packets) = 0
      /\ \A i \in DOMAIN packets : packets[i].command \in RangeCommand
                                     => packets[i].end_address < numberOfModules
    OBVIOUS
<1>2. QueueAndTransmit(packets)
    BY DEF Transmit
<1> HIDE DEF packets
<1>3. /\ requestQueue \in Seq(Packet) /\ Len(requestQueue) <= QueueCapacity
      /\ Len(requestQueue) \in Nat /\ (Len(requestQueue) = 0 <=> requestQueue = <<>>)
    BY DEF InductiveInv, TypeOK
<1>4. Len(requestQueue) + Len(packets) <= QueueCapacity
    BY <1>1, <1>3
<1>5. /\ TypeOK' /\ NoRequestRefused' /\ QueueMatchesConfig'
      /\ Len(requestQueue') = IF Len(requestQueue) + Len(packets) = 0 THEN 0
                              ELSE Len(requestQueue) + Len(packets) - 1
      /\ (Len(requestQueue') = 0 <=> requestQueue' = <<>>)
    BY <1>1, <1>2, <1>4, TickFrame
<1> QED
    BY <1>1, <1>3, <1>5

\* A tick in which an idle queue gets one request to all modules, or a broadcast.
LEMMA RequestFrame ==
    ASSUME InductiveInv, requestQueue = <<>>,
           NEW packet \in Packet,
           packet.command \in RangeCommand => packet.end_address < numberOfModules,
           QueueAndTransmit(<<packet>>), cpt' = Second, UNCHANGED modbusVars,
           bmsState' \in State, dummyVar' \in 0 .. MaxModules, isStarted' \in BOOLEAN
    PROVE  /\ TypeOK' /\ NoRequestRefused' /\ QueueMatchesConfig'
           /\ requestQueue' = <<>>
<1> DEFINE packets == <<packet>>
<1>1. /\ packets \in Seq(Packet) /\ Len(packets) = 1
      /\ \A i \in DOMAIN packets : packets[i].command \in RangeCommand
                                     => packets[i].end_address < numberOfModules
    OBVIOUS
<1>2. QueueAndTransmit(packets)
    OBVIOUS
<1> HIDE DEF packets
<1>3. Len(requestQueue) = 0
    OBVIOUS
<1>4. Len(requestQueue) + Len(packets) <= QueueCapacity
    BY <1>1, <1>3, CapacityAssumption
<1>5. /\ TypeOK' /\ NoRequestRefused' /\ QueueMatchesConfig'
      /\ Len(requestQueue') = IF Len(requestQueue) + Len(packets) = 0 THEN 0
                              ELSE Len(requestQueue) + Len(packets) - 1
      /\ (Len(requestQueue') = 0 <=> requestQueue' = <<>>)
    BY <1>1, <1>2, <1>4, TickFrame
<1> QED
    BY <1>1, <1>3, <1>5


\* The clock: one more, or back to 0; and what three seconds make of it.
LEMMA SecondLemma ==
    ASSUME TypeOK
    PROVE  /\ cpt \in 0 .. 29 /\ Second \in 0 .. 29
           /\ Second = IF cpt = 29 THEN 0 ELSE cpt + 1
           /\ Second % 3 = IF cpt % 3 = 2 THEN 0 ELSE (cpt % 3) + 1
           /\ cpt % 3 \in 0 .. 2
BY DEF TypeOK, Second, Period

\* What the tick acts on is a state of the scheduler, and it is the stored state
\* unless this second starts a sweep.
LEMMA CurrentLemma ==
    ASSUME TypeOK
    PROVE  /\ Current \in State
           /\ Current # bmsState => /\ Second = 0 /\ Current = "SEND_TIMING_REQUEST"
                                   /\ bmsState \notin ModbusState
BY DEF TypeOK, Current, State, SweepState

\* A sweep that starts finds no request left over: the queue is idle whenever the
\* switch sees SEND_TIMING_REQUEST.
LEMMA TimingFindsIdleQueue ==
    ASSUME InductiveInv, Current = "SEND_TIMING_REQUEST"
    PROVE  requestQueue = <<>> /\ Second <= 1
<1>1. TypeOK /\ QueueShape /\ SweepClock
    BY DEF InductiveInv, ScheduleInv
<1>2. Len(requestQueue) \in Nat /\ (Len(requestQueue) = 0 <=> requestQueue = <<>>)
    BY <1>1 DEF TypeOK
<1>3. CASE bmsState = "SEND_TIMING_REQUEST"
    BY <1>1, <1>3, SecondLemma DEF QueueShape, SweepClock
<1>4. CASE bmsState # "SEND_TIMING_REQUEST"
    <2>1. cpt = 29 /\ Second = 0 /\ bmsState \notin ModbusState /\ cpt % 3 = 2
        BY <1>1, <1>4, CurrentLemma, SecondLemma
    <2>2. CASE bmsState = "READ_VOLTAGE_AND_STATUS"
        BY <1>1, <1>2, <2>1, <2>2 DEF QueueShape
    <2>3. CASE bmsState = "SEND_SETTINGS_REQUEST"
        <3>1. dummyVar \in 0 .. MaxModules
            BY <1>1 DEF TypeOK
        <3> QED
            BY <1>1, <1>2, <2>1, <2>3, <3>1, ModulesAssumption DEF SweepClock
    <2>4. CASE bmsState \in {"SEND_BALANCE_CURRENT_COUNT_REQUEST",
                             "SEND_PACKET_RECEIVED_REQUEST", "SEND_BAD_PACKET_COUNTER"}
        BY <1>1, <1>2, <2>1, <2>4, ModulesAssumption DEF SweepClock
    <2> QED
        BY <1>1, <1>4, <2>1, <2>2, <2>3, <2>4 DEF TypeOK, State, SweepState
<1> QED
    BY <1>3, <1>4

\* How far one burst of settings requests goes.
LEMMA BurstLemma ==
    ASSUME TypeOK, dummyVar < MaxModules, dummyVar < Largest(numberOfModules - 1, 1)
    PROVE  /\ BurstEnd \in dummyVar + 1 .. MaxModules
           /\ BurstEnd <= dummyVar + 4
           /\ BurstEnd <= Largest(numberOfModules - 1, 1)
           /\ BurstEnd < numberOfModules - 1 =>
                  BurstEnd < Largest(numberOfModules - 1, 1)
           /\ numberOfModules \in 1 .. 255 /\ dummyVar \in 0 .. 25 /\ MaxModules \in 1 .. 25
<1>1. numberOfModules \in 1 .. 255 /\ dummyVar \in 0 .. MaxModules /\ MaxModules \in 1 .. 25
    BY SizesFit, ModulesAssumption DEF TypeOK
<1>2. 4 * (dummyVar \div 4 + 1) \in dummyVar + 1 .. dummyVar + 4
    BY <1>1
<1>3. /\ LastSettings >= dummyVar + 1 /\ LastSettings \in Nat
      /\ LastSettings <= Largest(numberOfModules - 1, 1)
    BY <1>1 DEF LastSettings, Largest
<1> QED
    BY <1>1, <1>2, <1>3 DEF BurstEnd, Least, Largest

\* Wait: one packet leaves, nothing is queued.
LEMMA WaitStep ==
    ASSUME InductiveInv, cpt' = Second, UNCHANGED modbusVars, Wait
    PROVE  InductiveInv'
<1>1. TypeOK /\ QueueShape /\ SweepClock
    BY DEF InductiveInv, ScheduleInv
<1>2. bmsState = Current /\ bmsState # "SEND_TIMING_REQUEST" /\ requestQueue # <<>>
    BY <1>1, TimingFindsIdleQueue, CurrentLemma DEF Wait
<1>3. /\ bmsState' = bmsState /\ dummyVar' = dummyVar /\ bmsState' \in State
      /\ dummyVar' \in 0 .. MaxModules /\ isStarted' \in BOOLEAN /\ Transmit
    BY <1>1, <1>2 DEF Wait, TypeOK
<1>4. /\ TypeOK' /\ NoRequestRefused' /\ QueueMatchesConfig'
      /\ Len(requestQueue) \in Nat /\ Len(requestQueue) >= 1
      /\ Len(requestQueue') = Len(requestQueue) - 1
      /\ (Len(requestQueue') = 0 <=> requestQueue' = <<>>)
    BY <1>2, <1>3, TransmitFrame
<1>5. /\ bmsState \notin {"SEND_PACKET_RECEIVED_REQUEST", "SEND_BAD_PACKET_COUNTER",
                          "READ_VOLTAGE_AND_STATUS"}
    BY <1>1, <1>2 DEF QueueShape, Wait
<1>6. QueueShape'
    BY <1>1, <1>2, <1>3, <1>4, <1>5 DEF QueueShape
<1>7. SweepClock'
    <2>1. cpt \in 0 .. 29 /\ cpt' = Second /\ Second <= cpt + 1 /\ Second \in 0 .. 29
        BY <1>1, SecondLemma
    <2>2. dummyVar \in 0 .. MaxModules /\ MaxModules \in 1 .. 25
          /\ numberOfModules' = numberOfModules
        BY <1>1, ModulesAssumption DEF TypeOK, modbusVars
    <2>3. CASE bmsState = "SEND_SETTINGS_REQUEST"
        BY <1>1, <1>2, <1>3, <1>4, <2>1, <2>2, <2>3 DEF SweepClock
    <2>4. CASE bmsState = "SEND_BALANCE_CURRENT_COUNT_REQUEST"
        BY <1>1, <1>2, <1>3, <1>4, <2>1, <2>2, <2>4 DEF SweepClock
    <2> QED
        BY <1>2, <1>3, <1>5, <2>3, <2>4 DEF SweepClock
<1> QED
    BY <1>4, <1>6, <1>7 DEF InductiveInv, ScheduleInv

\* SendTiming: the Timing packet leaves at once.
LEMMA SendTimingStep ==
    ASSUME InductiveInv, cpt' = Second, UNCHANGED modbusVars, SendTiming
    PROVE  InductiveInv' /\ sent' = <<Broadcast("Timing")>>
<1>1. TypeOK /\ QueueShape /\ SweepClock
    BY DEF InductiveInv, ScheduleInv
<1> DEFINE packet == Broadcast("Timing")
<1>2. /\ packet \in Packet
      /\ packet.command \in RangeCommand => packet.end_address < numberOfModules
    <2>1. "Timing" \in Command /\ "Timing" \notin RangeCommand
        BY DEF Command, RangeCommand, SweepCommand, PollCommand
    <2>2. packet.command = "Timing"
        BY DEF Broadcast, ModuleRange
    <2> QED
        BY <1>1, <2>1, <2>2, RequestsArePackets
<1>3. /\ requestQueue = <<>> /\ QueueAndTransmit(<<packet>>)
      /\ dummyVar' = 0 /\ dummyVar' \in 0 .. MaxModules /\ isStarted' \in BOOLEAN
      /\ bmsState' = "SEND_SETTINGS_REQUEST" /\ bmsState' \in State
    BY <1>1, ModulesAssumption DEF SendTiming, Ready, TypeOK, State, SweepState
<1>4. sent' = <<packet>>
    <2>1. PushAll(<<>>, <<packet>>) = <<packet>>
        BY CapacityAssumption DEF PushAll
    <2> QED
        BY <1>3, <2>1 DEF QueueAndTransmit
<1>5. sent' = <<Broadcast("Timing")>>
    BY <1>4
<1> HIDE DEF packet
<1>6. TypeOK' /\ NoRequestRefused' /\ QueueMatchesConfig' /\ requestQueue' = <<>>
    BY <1>2, <1>3, RequestFrame
<1>7. ScheduleInv'
    <2>1. cpt' \in 0 .. 1
        BY <1>1, SecondLemma, TimingFindsIdleQueue DEF SendTiming, Ready
    <2>2. Len(requestQueue') = 0
        BY <1>6
    <2>3. numberOfModules \in 1 .. 255 /\ numberOfModules' = numberOfModules
        BY <1>1, SizesFit DEF TypeOK, modbusVars
    <2>4. QueueShape'
        BY <1>3, <1>6, <2>2 DEF QueueShape, ModbusState
    <2>5. 0 < Largest(numberOfModules - 1, 1)
        BY <2>3 DEF Largest
    <2>6. SweepClock'
        BY <1>3, <2>1, <2>2, <2>3, <2>5 DEF SweepClock
    <2> QED
        BY <2>4, <2>6 DEF ScheduleInv
<1> QED
    BY <1>5, <1>6, <1>7 DEF InductiveInv

\* The balance current counters, asked of all modules.
LEMMA SendBalanceCurrentCountStep ==
    ASSUME InductiveInv, cpt' = Second, UNCHANGED modbusVars, SendBalanceCurrentCount
    PROVE  InductiveInv'
<1>1. TypeOK /\ QueueShape /\ SweepClock
    BY DEF InductiveInv, ScheduleInv
<1> DEFINE packet == AllModules("ReadBalanceCurrentCounter")
<1>2. /\ packet \in Packet
      /\ packet.command \in RangeCommand => packet.end_address < numberOfModules
    <2>1. "ReadBalanceCurrentCounter" \in Command
        BY DEF Command, RangeCommand, SweepCommand
    <2> QED
        BY <1>1, <2>1, RequestsArePackets
<1>3. /\ requestQueue = <<>> /\ QueueAndTransmit(<<packet>>)
      /\ dummyVar' \in 0 .. MaxModules /\ isStarted' \in BOOLEAN
      /\ bmsState' = "SEND_PACKET_RECEIVED_REQUEST" /\ bmsState' \in State
    BY <1>1 DEF SendBalanceCurrentCount, Ready, TypeOK, State, SweepState
<1> HIDE DEF packet
<1>4. TypeOK' /\ NoRequestRefused' /\ QueueMatchesConfig' /\ requestQueue' = <<>>
    BY <1>2, <1>3, RequestFrame
<1>5. ScheduleInv'
    <2>1. bmsState = "SEND_BALANCE_CURRENT_COUNT_REQUEST"
        BY <1>1, CurrentLemma DEF SendBalanceCurrentCount, Ready
    <2>2. Len(requestQueue) = 0 /\ Len(requestQueue') = 0 /\ MaxModules \in 1 .. 25
        BY <1>3, <1>4, ModulesAssumption
    <2>3. /\ cpt \in 0 .. 29 /\ cpt' \in 0 .. 29 /\ cpt' <= cpt + 1
          /\ cpt' % 3 \in 0 .. 2
        BY <1>1, SecondLemma
    <2>4. cpt' <= MaxModules + 2
        BY <1>1, <2>1, <2>2, <2>3 DEF SweepClock
    <2>5. QueueShape'
        BY <1>3, <1>4, <2>2, <2>3 DEF QueueShape, ModbusState
    <2>6. SweepClock'
        BY <1>3, <2>4 DEF SweepClock
    <2> QED
        BY <2>5, <2>6 DEF ScheduleInv
<1> QED
    BY <1>4, <1>5 DEF InductiveInv

\* The packet counters, asked of all modules.
LEMMA SendPacketReceivedStep ==
    ASSUME InductiveInv, cpt' = Second, UNCHANGED modbusVars, SendPacketReceived
    PROVE  InductiveInv'
<1>1. TypeOK /\ QueueShape /\ SweepClock
    BY DEF InductiveInv, ScheduleInv
<1> DEFINE packet == AllModules("ReadPacketReceivedCounter")
<1>2. /\ packet \in Packet
      /\ packet.command \in RangeCommand => packet.end_address < numberOfModules
    <2>1. "ReadPacketReceivedCounter" \in Command
        BY DEF Command, RangeCommand, SweepCommand
    <2> QED
        BY <1>1, <2>1, RequestsArePackets
<1>3. /\ requestQueue = <<>> /\ QueueAndTransmit(<<packet>>)
      /\ dummyVar' \in 0 .. MaxModules /\ isStarted' \in BOOLEAN
      /\ bmsState' = "SEND_BAD_PACKET_COUNTER" /\ bmsState' \in State
    BY <1>1 DEF SendPacketReceived, Ready, TypeOK, State, SweepState
<1> HIDE DEF packet
<1>4. TypeOK' /\ NoRequestRefused' /\ QueueMatchesConfig' /\ requestQueue' = <<>>
    BY <1>2, <1>3, RequestFrame
<1>5. ScheduleInv'
    <2>1. bmsState = "SEND_PACKET_RECEIVED_REQUEST"
        BY <1>1, CurrentLemma DEF SendPacketReceived, Ready
    <2>2. Len(requestQueue) = 0 /\ Len(requestQueue') = 0 /\ MaxModules \in 1 .. 25
        BY <1>3, <1>4, ModulesAssumption
    <2>3. /\ cpt \in 0 .. 29 /\ cpt' \in 0 .. 29 /\ cpt' <= cpt + 1
          /\ cpt' % 3 \in 0 .. 2
        BY <1>1, SecondLemma
    <2>4. cpt' <= MaxModules + 3
        BY <1>1, <2>1, <2>2, <2>3 DEF SweepClock
    <2>5. QueueShape'
        BY <1>3, <1>4, <2>2, <2>3 DEF QueueShape, ModbusState
    <2>6. SweepClock'
        BY <1>3, <2>4 DEF SweepClock
    <2> QED
        BY <2>5, <2>6 DEF ScheduleInv
<1> QED
    BY <1>4, <1>5 DEF InductiveInv

\* The bad packet counters, asked of all modules; polling begins.
LEMMA SendBadPacketCounterStep ==
    ASSUME InductiveInv, cpt' = Second, UNCHANGED modbusVars, SendBadPacketCounter
    PROVE  InductiveInv'
<1>1. TypeOK /\ QueueShape /\ SweepClock
    BY DEF InductiveInv, ScheduleInv
<1> DEFINE packet == AllModules("ReadBadPacketCounter")
<1>2. /\ packet \in Packet
      /\ packet.command \in RangeCommand => packet.end_address < numberOfModules
    <2>1. "ReadBadPacketCounter" \in Command
        BY DEF Command, RangeCommand, SweepCommand
    <2> QED
        BY <1>1, <2>1, RequestsArePackets
<1>3. /\ requestQueue = <<>> /\ QueueAndTransmit(<<packet>>)
      /\ dummyVar' \in 0 .. MaxModules /\ isStarted' \in BOOLEAN
      /\ bmsState' = "READ_VOLTAGE_AND_STATUS" /\ bmsState' \in State
    BY <1>1 DEF SendBadPacketCounter, Ready, TypeOK, State, SweepState
<1> HIDE DEF packet
<1>4. TypeOK' /\ NoRequestRefused' /\ QueueMatchesConfig' /\ requestQueue' = <<>>
    BY <1>2, <1>3, RequestFrame
<1>5. ScheduleInv'
    <2>1. bmsState = "SEND_BAD_PACKET_COUNTER"
        BY <1>1, CurrentLemma DEF SendBadPacketCounter, Ready
    <2>2. Len(requestQueue) = 0 /\ Len(requestQueue') = 0 /\ MaxModules \in 1 .. 25
        BY <1>3, <1>4, ModulesAssumption
    <2>3. /\ cpt \in 0 .. 29 /\ cpt' \in 0 .. 29 /\ cpt' <= cpt + 1
          /\ cpt' % 3 \in 0 .. 2
        BY <1>1, SecondLemma
    <2>4. cpt' <= MaxModules + 4
        BY <1>1, <2>1, <2>2, <2>3 DEF SweepClock
    <2>5. QueueShape'
        BY <1>3, <1>4, <2>2, <2>3 DEF QueueShape, ModbusState
    <2>6. SweepClock'
        BY <1>3, <2>4 DEF SweepClock
    <2> QED
        BY <2>5, <2>6 DEF ScheduleInv
<1> QED
    BY <1>4, <1>5 DEF InductiveInv

\* A burst of settings requests, or, with more modules than cmi[] holds, none.
LEMMA SendSettingsStep ==
    ASSUME InductiveInv, cpt' = Second, UNCHANGED modbusVars, SendSettings
    PROVE  InductiveInv'
<1>1. TypeOK /\ QueueShape /\ SweepClock
    BY DEF InductiveInv, ScheduleInv
<1>2. /\ bmsState = "SEND_SETTINGS_REQUEST" /\ requestQueue = <<>>
      /\ Len(requestQueue) = 0 /\ isStarted' \in BOOLEAN
      /\ dummyVar < Largest(numberOfModules - 1, 1)
    BY <1>1, CurrentLemma DEF SendSettings, Ready, TypeOK, SweepClock
<1>3. /\ cpt \in 0 .. 29 /\ cpt' \in 0 .. 29 /\ cpt' <= cpt + 1
      /\ numberOfModules' = numberOfModules
      /\ dummyVar \in 0 .. MaxModules /\ MaxModules \in 1 .. 25
    BY <1>1, SecondLemma, ModulesAssumption DEF TypeOK, modbusVars
<1>4. CASE dummyVar >= MaxModules
    <2>1. Transmit /\ dummyVar' = dummyVar /\ bmsState' = bmsState
        BY <1>4 DEF SendSettings
    <2>2. bmsState' \in State /\ dummyVar' \in 0 .. MaxModules
        BY <1>1, <2>1 DEF TypeOK
    <2>3. /\ TypeOK' /\ NoRequestRefused' /\ QueueMatchesConfig'
          /\ Len(requestQueue') = 0 /\ requestQueue' = <<>>
        BY <1>2, <2>1, <2>2, TransmitFrame
    <2>4. QueueShape'
        BY <1>2, <2>1, <2>3 DEF QueueShape, ModbusState
    <2>5. SweepClock'
        BY <1>2, <1>3, <1>4, <2>1, <2>3 DEF SweepClock
    <2> QED
        BY <2>3, <2>4, <2>5 DEF InductiveInv, ScheduleInv
<1>5. CASE dummyVar < MaxModules
    <2> DEFINE packets == SettingsRequests(dummyVar, BurstEnd - 1)
    <2>1. /\ BurstEnd \in dummyVar + 1 .. MaxModules
          /\ BurstEnd <= dummyVar + 4
          /\ BurstEnd <= Largest(numberOfModules - 1, 1)
          /\ BurstEnd < numberOfModules - 1 => BurstEnd < Largest(numberOfModules - 1, 1)
          /\ numberOfModules \in 1 .. 255
        BY <1>1, <1>2, <1>5, BurstLemma
    <2>2. BurstEnd \in 1 .. 25 /\ Largest(numberOfModules - 1, 1) <= numberOfModules
        BY <1>3, <2>1 DEF Largest
    <2>3. /\ packets \in Seq(Packet)
          /\ Len(packets) = BurstEnd - dummyVar
          /\ DOMAIN packets = 1 .. BurstEnd - dummyVar
          /\ \A i \in 1 .. BurstEnd - dummyVar : packets[i].end_address = dummyVar + i - 1
        <3>1. /\ dummyVar \in Nat /\ BurstEnd - 1 \in Nat /\ dummyVar <= BurstEnd - 1
              /\ BurstEnd - 1 <= 255 /\ BurstEnd - 1 + 1 - dummyVar = BurstEnd - dummyVar
            BY <1>3, <2>1, <2>2
        <3> QED
            BY <3>1, SettingsRequestsLemma
    <2>4. /\ QueueAndTransmit(packets) /\ dummyVar' = BurstEnd
          /\ bmsState' = IF BurstEnd >= numberOfModules - 1
                         THEN "SEND_BALANCE_CURRENT_COUNT_REQUEST" ELSE bmsState
        BY <1>3, <1>5 DEF SendSettings
    <2> HIDE DEF packets
    <2>5. bmsState' \in State /\ dummyVar' \in 0 .. MaxModules
        BY <1>1, <1>3, <2>1, <2>4 DEF TypeOK, State, SweepState
    <2>6. \A i \in DOMAIN packets : packets[i].end_address < numberOfModules
        <3> SUFFICES ASSUME NEW i \in 1 .. BurstEnd - dummyVar
                     PROVE  dummyVar + i - 1 < numberOfModules
            BY <2>3
        <3>1. Largest(numberOfModules - 1, 1) \in Nat
            BY <2>1 DEF Largest
        <3> QED
            BY <1>3, <2>1, <2>2, <3>1
    <2>7. Len(packets) \in 1 .. 4 /\ Len(requestQueue) + Len(packets) = Len(packets)
          /\ Len(packets) <= QueueCapacity
        BY <1>2, <1>3, <2>1, <2>3, CapacityAssumption
    <2>8. /\ TypeOK' /\ NoRequestRefused' /\ QueueMatchesConfig'
          /\ Len(requestQueue') = BurstEnd - dummyVar - 1
        BY <1>2, <2>3, <2>4, <2>5, <2>6, <2>7, TickFrame
    <2>9. QueueShape'
        BY <1>2, <1>3, <2>1, <2>4, <2>8 DEF QueueShape, ModbusState
    <2>10. SweepClock'
        <3>1. cpt <= dummyVar + 1
            BY <1>1, <1>2, <1>3, <1>5 DEF SweepClock
        <3>2. cpt' + Len(requestQueue') <= BurstEnd + 1 /\ BurstEnd <= MaxModules
            BY <1>3, <2>1, <2>8, <3>1
        <3>3. CASE BurstEnd >= numberOfModules - 1
            BY <1>3, <2>1, <2>4, <2>8, <3>2, <3>3 DEF SweepClock
        <3>4. CASE BurstEnd < numberOfModules - 1
            BY <1>2, <1>3, <2>1, <2>4, <3>2, <3>4 DEF SweepClock
        <3> QED
            BY <2>1, <3>3, <3>4
    <2> QED
        BY <2>8, <2>9, <2>10 DEF InductiveInv, ScheduleInv
<1> QED
    BY <1>3, <1>4, <1>5

\* A poll: at most three requests on a queue the second before left empty.
LEMMA PollStep ==
    ASSUME InductiveInv, cpt' = Second, UNCHANGED modbusVars, Poll
    PROVE  InductiveInv'
<1>1. TypeOK /\ QueueShape /\ SweepClock
    BY DEF InductiveInv, ScheduleInv
<1>2. /\ bmsState = "READ_VOLTAGE_AND_STATUS" /\ bmsState' = bmsState
      /\ dummyVar' = dummyVar /\ bmsState' \in State
      /\ dummyVar' \in 0 .. MaxModules /\ isStarted' \in BOOLEAN
    BY <1>1, CurrentLemma DEF Poll, TypeOK
<1>3. cpt' \in 0 .. 29 /\ cpt' % 3 = 0 /\ cpt % 3 = 2
    BY <1>1, SecondLemma DEF Poll
<1>4. requestQueue = <<>> /\ Len(requestQueue) = 0
    BY <1>1, <1>2, <1>3 DEF QueueShape, TypeOK
<1> DEFINE voltage == AllModules("ReadVoltageAndStatus")
           temperature == AllModules("ReadTemperature")
           power == AllModules("ReadBalancePowerPWM")
<1>5. /\ voltage \in Packet /\ temperature \in Packet /\ power \in Packet
      /\ voltage.end_address < numberOfModules
      /\ temperature.end_address < numberOfModules
      /\ power.end_address < numberOfModules
    <2>1. /\ "ReadVoltageAndStatus" \in Command /\ "ReadTemperature" \in Command
          /\ "ReadBalancePowerPWM" \in Command
        BY DEF Command, RangeCommand, PollCommand
    <2> QED
        BY <1>1, <2>1, RequestsArePackets
<1>6. PICK bypass \in BypassSeen : QueueAndTransmit(PollRequests(bypass))
    BY DEF Poll
<1> DEFINE packets == PollRequests(bypass)
<1>7. packets = IF bypass THEN <<voltage, temperature, power>> ELSE <<voltage, temperature>>
    BY DEF PollRequests
<1> HIDE DEF voltage, temperature, power, packets
<1>8. /\ packets \in Seq(Packet) /\ Len(packets) \in 2 .. 3
      /\ \A i \in DOMAIN packets : packets[i].end_address < numberOfModules
    <2>1. CASE packets = <<voltage, temperature, power>>
        BY <1>5, <2>1
    <2>2. CASE packets = <<voltage, temperature>>
        BY <1>5, <2>2
    <2> QED
        BY <1>7, <2>1, <2>2
<1>9. Len(requestQueue) + Len(packets) <= QueueCapacity
    BY <1>4, <1>8, CapacityAssumption
<1>10. /\ TypeOK' /\ NoRequestRefused' /\ QueueMatchesConfig'
       /\ Len(requestQueue') = IF Len(requestQueue) + Len(packets) = 0 THEN 0
                               ELSE Len(requestQueue) + Len(packets) - 1
    <2>1. QueueAndTransmit(packets)
        BY <1>6 DEF packets
    <2> QED
        BY <1>2, <1>8, <1>9, <2>1, TickFrame
<1>11. QueueShape'
    <2>1. Len(requestQueue') \in Nat /\ Len(requestQueue') <= 2
        BY <1>4, <1>8, <1>10
    <2>2. Len(requestQueue') + (cpt' % 3) <= 2
        BY <1>3, <2>1
    <2> QED
        BY <1>2, <2>2 DEF QueueShape, ModbusState
<1>12. SweepClock'
    BY <1>2 DEF SweepClock
<1> QED
    BY <1>10, <1>11, <1>12 DEF InductiveInv, ScheduleInv

\* The two seconds between polls, and the return to polling, only transmit.
LEMMA PollingTransmits ==
    ASSUME InductiveInv, cpt' = Second, UNCHANGED modbusVars, BetweenPolls \/ Resume
    PROVE  InductiveInv'
<1>1. TypeOK /\ QueueShape /\ SweepClock
    BY DEF InductiveInv, ScheduleInv
<1>2. /\ bmsState' = "READ_VOLTAGE_AND_STATUS" /\ dummyVar' = dummyVar /\ Transmit
      /\ bmsState' \in State /\ dummyVar' \in 0 .. MaxModules /\ isStarted' \in BOOLEAN
    BY <1>1, CurrentLemma DEF BetweenPolls, Resume, TypeOK, State
<1>3. /\ TypeOK' /\ NoRequestRefused' /\ QueueMatchesConfig'
      /\ Len(requestQueue) \in Nat
      /\ Len(requestQueue') = IF Len(requestQueue) = 0 THEN 0 ELSE Len(requestQueue) - 1
    BY <1>2, TransmitFrame
<1>4. /\ cpt' % 3 = IF cpt % 3 = 2 THEN 0 ELSE (cpt % 3) + 1
      /\ cpt % 3 \in 0 .. 2
    BY <1>1, SecondLemma
<1>5. Len(requestQueue') + (cpt' % 3) <= 2
    <2>1. CASE BetweenPolls
        <3>1. bmsState = "READ_VOLTAGE_AND_STATUS" /\ cpt' % 3 # 0
            BY <1>1, <2>1, CurrentLemma DEF BetweenPolls
        <3> QED
            BY <1>1, <1>3, <1>4, <3>1 DEF QueueShape
    <2>2. CASE Resume
        <3>1. Len(requestQueue) = 0
            BY <2>2 DEF Resume
        <3> QED
            BY <1>3, <1>4, <3>1
    <2> QED
        BY <2>1, <2>2
<1>6. QueueShape'
    BY <1>2, <1>5 DEF QueueShape, ModbusState
<1>7. SweepClock'
    BY <1>2 DEF SweepClock
<1> QED
    BY <1>3, <1>6, <1>7 DEF InductiveInv, ScheduleInv

\* One second.
LEMMA TickPreservesInv == InductiveInv /\ Tick => InductiveInv'
<1> SUFFICES ASSUME InductiveInv, Tick
             PROVE  InductiveInv'
    OBVIOUS
<1>1. cpt' = Second /\ UNCHANGED modbusVars
    BY DEF Tick
<1>2. CASE Wait
    BY <1>1, <1>2, WaitStep
<1>3. CASE SendTiming
    BY <1>1, <1>3, SendTimingStep
<1>4. CASE SendSettings
    BY <1>1, <1>4, SendSettingsStep
<1>5. CASE SendBalanceCurrentCount
    BY <1>1, <1>5, SendBalanceCurrentCountStep
<1>6. CASE SendPacketReceived
    BY <1>1, <1>6, SendPacketReceivedStep
<1>7. CASE SendBadPacketCounter
    BY <1>1, <1>7, SendBadPacketCounterStep
<1>8. CASE Poll
    BY <1>1, <1>8, PollStep
<1>9. CASE BetweenPolls \/ Resume
    BY <1>1, <1>9, PollingTransmits
<1> QED
    BY <1>2, <1>3, <1>4, <1>5, <1>6, <1>7, <1>8, <1>9 DEF Tick

(***************************************************************************)
(* Modbus requests and replies between two ticks.                          *)
(***************************************************************************)

\* Identify: the queue holds that one request.
LEMMA SendIdentifyStep ==
    ASSUME InductiveInv, NEW id \in IdentifyIds, SendIdentify(id)
    PROVE  InductiveInv'
<1> DEFINE packet == ModuleRange("Identify", id, id)
<1>1. packet \in Packet /\ packet.command = "Identify" /\ "Identify" \notin RangeCommand
    <2>1. "Identify" \in Command /\ "Identify" \notin RangeCommand
        BY DEF Command, RangeCommand, SweepCommand, PollCommand
    <2>2. id \in Address
        BY EnvironmentAssumption DEF Address
    <2> QED
        BY <2>1, <2>2, RangeIsPacket DEF ModuleRange
<1>2. requestQueue' = <<packet>> /\ bmsState' = "SEND_IDENTIFY_REQUEST"
    BY DEF SendIdentify
<1> HIDE DEF packet
<1>3. /\ requestQueue' \in Seq(Packet) /\ Len(requestQueue') = 1
      /\ \A i \in DOMAIN requestQueue' : requestQueue'[i].command \notin RangeCommand
    BY <1>1, <1>2
<1>4. TypeOK'
    BY <1>2, <1>3, CapacityAssumption
    DEF InductiveInv, TypeOK, SendIdentify, State, ModbusState
<1>5. NoRequestRefused' /\ QueueMatchesConfig'
    BY <1>3 DEF InductiveInv, NoRequestRefused, QueueMatchesConfig, SendIdentify
<1>6. ScheduleInv'
    BY <1>2, <1>3 DEF ScheduleInv, QueueShape, SweepClock
<1> QED
    BY <1>4, <1>5, <1>6 DEF InductiveInv

\* A new configuration: the queue holds the one broadcast of it.
LEMMA SendGlobalConfigStep ==
    ASSUME InductiveInv, NEW size \in Sizes, SendGlobalConfig(size)
    PROVE  InductiveInv'
<1> DEFINE packet == Broadcast("WriteSettings")
<1>1. packet \in Packet /\ packet.command = "WriteSettings"
      /\ "WriteSettings" \notin RangeCommand
    <2>1. "WriteSettings" \in Command /\ "WriteSettings" \notin RangeCommand
        BY DEF Command, RangeCommand, SweepCommand, PollCommand
    <2> QED
        BY <2>1, RequestsArePackets DEF Broadcast, ModuleRange, InductiveInv
<1>2. requestQueue' = <<packet>> /\ bmsState' = "SEND_GLOBAL_CONFIG"
    BY DEF SendGlobalConfig
<1> HIDE DEF packet
<1>3. /\ requestQueue' \in Seq(Packet) /\ Len(requestQueue') = 1
      /\ \A i \in DOMAIN requestQueue' : requestQueue'[i].command \notin RangeCommand
    BY <1>1, <1>2
<1>4. TypeOK'
    BY <1>2, <1>3, CapacityAssumption
    DEF InductiveInv, TypeOK, SendGlobalConfig, State, ModbusState
<1>5. NoRequestRefused' /\ QueueMatchesConfig'
    BY <1>3 DEF InductiveInv, NoRequestRefused, QueueMatchesConfig, SendGlobalConfig
<1>6. ScheduleInv'
    BY <1>2, <1>3 DEF ScheduleInv, QueueShape, SweepClock
<1> QED
    BY <1>4, <1>5, <1>6 DEF InductiveInv

\* A reply changes nothing the schedule depends on but the bypass flags.
LEMMA VoltageReplyStep ==
    ASSUME InductiveInv, NEW modules \in BypassSets, VoltageReply(modules)
    PROVE  InductiveInv'
<1>1. UNCHANGED <<requestQueue, bmsState, cpt, dummyVar, numberOfModules, isStarted,
                  sent, refused, swept>>
    BY DEF VoltageReply
<1>2. TypeOK'
    BY <1>1 DEF InductiveInv, TypeOK, VoltageReply
<1>3. NoRequestRefused' /\ QueueMatchesConfig'
    BY <1>1 DEF InductiveInv, NoRequestRefused, QueueMatchesConfig
<1>4. ScheduleInv'
    BY <1>1 DEF InductiveInv, ScheduleInv, QueueShape, SweepClock
<1> QED
    BY <1>2, <1>3, <1>4 DEF InductiveInv

\* After a restart the schedule is what it was at first power-up.
LEMMA RestartStep ==
    ASSUME InductiveInv, Restart
    PROVE  InductiveInv'
<1>1. numberOfModules' = numberOfModules /\ numberOfModules \in Sizes
    BY DEF Restart, InductiveInv, TypeOK
<1>2. numberOfModules' \in 1 .. 255 /\ MaxModules \in 1 .. 25
    BY <1>1, SizesFit, ModulesAssumption
<1>3. requestQueue' = <<>> /\ requestQueue' \in Seq(Packet) /\ Len(requestQueue') = 0
      /\ DOMAIN requestQueue' = {} /\ sent' \in Seq(Packet) /\ Len(sent') = 0
    BY DEF Restart
<1>4. TypeOK'
    <2>1. /\ Len(requestQueue') <= QueueCapacity /\ Len(sent') <= 1
          /\ cpt' \in 0 .. 29 /\ dummyVar' \in 0 .. MaxModules
        BY <1>2, <1>3, CapacityAssumption DEF Restart
    <2>2. bmsState' \in State /\ inBypass' \in BypassSets
        BY EnvironmentAssumption DEF Restart, State, SweepState
    <2>3. isStarted' \in BOOLEAN /\ refused' \in BOOLEAN /\ swept' \subseteq Packet
        BY DEF Restart
    <2> QED
        BY <1>1, <1>3, <2>1, <2>2, <2>3 DEF TypeOK, Period
<1>5. NoRequestRefused' /\ QueueMatchesConfig'
    BY <1>3 DEF Restart, NoRequestRefused, QueueMatchesConfig
<1>6. ScheduleInv'
    BY <1>2, <1>3 DEF Restart, ScheduleInv, QueueShape, SweepClock, ModbusState
<1> QED
    BY <1>4, <1>5, <1>6 DEF InductiveInv

(***************************************************************************)
(* The theorems.                                                           *)
(***************************************************************************)

\* After power-up the schedule is in order.
LEMMA InitEstablishesInv == Init => InductiveInv
<1> SUFFICES ASSUME Init PROVE InductiveInv
    OBVIOUS
<1>1. numberOfModules \in 1 .. 255 /\ MaxModules \in 1 .. 25
    BY SizesFit, ModulesAssumption DEF Init
<1>2. requestQueue = <<>> /\ requestQueue \in Seq(Packet) /\ Len(requestQueue) = 0
      /\ DOMAIN requestQueue = {} /\ sent \in Seq(Packet) /\ Len(sent) = 0
    BY DEF Init
<1>3. TypeOK
    <2>1. /\ Len(requestQueue) <= QueueCapacity /\ Len(sent) <= 1
          /\ cpt \in 0 .. 29 /\ dummyVar \in 0 .. MaxModules
        BY <1>1, <1>2, CapacityAssumption DEF Init
    <2>2. bmsState \in State /\ inBypass \in BypassSets
        BY EnvironmentAssumption DEF Init, State, SweepState
    <2>3. isStarted \in BOOLEAN /\ refused \in BOOLEAN /\ swept \subseteq Packet
        BY DEF Init
    <2> QED
        BY <1>2, <2>1, <2>2, <2>3 DEF Init, TypeOK, Period
<1>4. NoRequestRefused /\ QueueMatchesConfig
    BY <1>2 DEF Init, NoRequestRefused, QueueMatchesConfig
<1>5. ScheduleInv
    BY <1>1, <1>2 DEF Init, ScheduleInv, QueueShape, SweepClock, ModbusState
<1> QED
    BY <1>3, <1>4, <1>5 DEF InductiveInv

\* Every step keeps it in order.
LEMMA NextPreservesInv == InductiveInv /\ [Next]_vars => InductiveInv'
<1> SUFFICES ASSUME InductiveInv, [Next]_vars
             PROVE  InductiveInv'
    OBVIOUS
<1>1. CASE Tick
    BY <1>1, TickPreservesInv
<1>2. CASE Modbus
    BY <1>2, SendIdentifyStep, SendGlobalConfigStep DEF Modbus
<1>3. CASE \E modules \in BypassSets : VoltageReply(modules)
    BY <1>3, VoltageReplyStep
<1>4. CASE Restart
    BY <1>4, RestartStep
<1>5. CASE UNCHANGED vars
    BY <1>5 DEF vars, InductiveInv, TypeOK, NoRequestRefused, QueueMatchesConfig,
                ScheduleInv, QueueShape, SweepClock
<1> QED
    BY <1>1, <1>2, <1>3, <1>4, <1>5 DEF Next

\* The inductive invariant holds in every reachable state.
LEMMA Invariance == Spec => []InductiveInv
BY InitEstablishesInv, NextPreservesInv, PTL DEF Spec

\* Every variable of the scheduler keeps its type; requestQueue never holds more
\* than its six packets.
THEOREM TypeCorrect == Spec => []TypeOK
<1>1. InductiveInv => TypeOK
    BY DEF InductiveInv
<1> QED
    BY <1>1, Invariance, PTL

\* pushPacketToQueue never meets a full queue.
THEOREM NothingRefused == Spec => []NoRequestRefused
<1>1. InductiveInv => NoRequestRefused
    BY DEF InductiveInv
<1> QED
    BY <1>1, Invariance, PTL

\* The 30 s restart never cuts a sweep short.
THEOREM SweepsFinish == Spec => []SweepUninterrupted
<1>1. InductiveInv => SweepUninterrupted
    <2> SUFFICES ASSUME InductiveInv, numberOfModules <= MaxModules + 1, cpt = 29,
                        bmsState \in SweepState
                 PROVE  FALSE
        BY DEF SweepUninterrupted, Period
    <2>1. TypeOK /\ SweepClock /\ QueueShape
        BY DEF InductiveInv, ScheduleInv
    <2>2. /\ Len(requestQueue) \in Nat /\ MaxModules \in 1 .. 25
          /\ dummyVar \in 0 .. MaxModules /\ numberOfModules \in 1 .. 255
        BY <2>1, SizesFit, ModulesAssumption DEF TypeOK
    <2>3. CASE bmsState = "SEND_SETTINGS_REQUEST"
        <3>1. dummyVar < MaxModules
            BY <2>1, <2>2, <2>3 DEF SweepClock, Largest
        <3> QED
            BY <2>1, <2>2, <2>3, <3>1 DEF SweepClock
    <2>4. CASE bmsState \in SweepState \ {"SEND_SETTINGS_REQUEST"}
        BY <2>1, <2>2, <2>4 DEF SweepClock, SweepState
    <2> QED
        BY <2>3, <2>4
<1> QED
    BY <1>1, Invariance, PTL

\* A poll finds the queue empty.
THEOREM PollsApart == Spec => []PollsDoNotOverlap
<1>1. InductiveInv => PollsDoNotOverlap
    BY DEF InductiveInv, TypeOK, ScheduleInv, QueueShape, PollsDoNotOverlap
<1> QED
    BY <1>1, Invariance, PTL

\* Every queued request is for modules of the present configuration.
THEOREM QueueFollowsConfig == Spec => []QueueMatchesConfig
<1>1. InductiveInv => QueueMatchesConfig
    BY DEF InductiveInv
<1> QED
    BY <1>1, Invariance, PTL

\* The strengthening itself, which the runs check too.
THEOREM ScheduleKept == Spec => []ScheduleInv
<1>1. InductiveInv => ScheduleInv
    BY DEF InductiveInv
<1> QED
    BY <1>1, Invariance, PTL

\* The Timing packet that opens a sweep leaves in the second it is due.
THEOREM TimingNotDelayed == Spec => TimingOnTime
<1> DEFINE OnTime == (Tick /\ cpt' = 0 /\ bmsState \notin ModbusState)
                         => sent' = <<Broadcast("Timing")>>
<1>1. InductiveInv /\ [Next]_vars => [OnTime]_vars
    <2> SUFFICES ASSUME InductiveInv, Tick, cpt' = 0, bmsState \notin ModbusState
                 PROVE  sent' = <<Broadcast("Timing")>>
        OBVIOUS
    <2>1. cpt' = Second /\ UNCHANGED modbusVars /\ Current = "SEND_TIMING_REQUEST"
        BY DEF Tick, Current
    <2>2. requestQueue = <<>>
        BY <2>1, TimingFindsIdleQueue
    <2>3. SendTiming
        BY <2>1, <2>2
        DEF Tick, Wait, SendSettings, SendBalanceCurrentCount, SendPacketReceived,
            SendBadPacketCounter, Poll, BetweenPolls, Resume, Ready, ModbusState
    <2> QED
        BY <2>1, <2>3, SendTimingStep
<1> QED
    BY <1>1, Invariance, PTL DEF Spec, TimingOnTime

(***************************************************************************)
(* A sweep is complete.  What a sweep has asked so far is recorded or is   *)
(* still queued, in the order of its stages, and no Timing packet that     *)
(* would void the record is queued behind it.                              *)
(***************************************************************************)

Queued == {requestQueue[i] : i \in DOMAIN requestQueue}

SettingsBelow(n) == {ModuleRange("ReadSettings", m, m) : m \in 0 .. n - 1}

\* The modules a sweep asks for their settings.
SweptModules == Largest(numberOfModules - 1, 1)

NoTimingQueued == \A i \in DOMAIN requestQueue : requestQueue[i].command # "Timing"

SweepProgress ==
    /\ NoTimingQueued
    /\ bmsState = "SEND_SETTINGS_REQUEST" => SettingsBelow(dummyVar) \subseteq swept \cup Queued
    /\ bmsState = "SEND_BALANCE_CURRENT_COUNT_REQUEST" =>
           SettingsBelow(SweptModules) \subseteq swept \cup Queued
    /\ bmsState = "SEND_PACKET_RECEIVED_REQUEST" =>
           SettingsBelow(SweptModules) \cup {AllModules("ReadBalanceCurrentCounter")}
               \subseteq swept
    /\ bmsState = "SEND_BAD_PACKET_COUNTER" =>
           SettingsBelow(SweptModules) \cup {AllModules("ReadBalanceCurrentCounter"),
                                             AllModules("ReadPacketReceivedCounter")}
               \subseteq swept

\* One transmission loses no request of the sweep: it is recorded, or still queued.
LEMMA NothingLost ==
    ASSUME TypeOK, NoTimingQueued,
           NEW packets \in Seq(Packet),
           \A i \in DOMAIN packets : packets[i].command # "Timing",
           Len(requestQueue) + Len(packets) <= QueueCapacity,
           QueueAndTransmit(packets)
    PROVE  /\ swept \subseteq swept'
           /\ \A i \in DOMAIN requestQueue :
                  requestQueue[i].command \in SweepCommand => requestQueue[i] \in swept' \cup Queued'
           /\ \A i \in DOMAIN packets :
                  packets[i].command \in SweepCommand => packets[i] \in swept' \cup Queued'
           /\ NoTimingQueued'
<1> DEFINE queue == requestQueue \o packets
<1>1. PushAll(requestQueue, packets) = queue
    BY DEF PushAll
<1>2. /\ requestQueue \in Seq(Packet) /\ queue \in Seq(Packet)
      /\ Len(queue) = Len(requestQueue) + Len(packets)
      /\ Len(requestQueue) \in Nat /\ Len(packets) \in Nat
    BY DEF TypeOK
<1>3. /\ \A i \in DOMAIN requestQueue : i \in 1 .. Len(queue) /\ queue[i] = requestQueue[i]
      /\ \A i \in DOMAIN packets :
             /\ Len(requestQueue) + i \in 1 .. Len(queue)
             /\ queue[Len(requestQueue) + i] = packets[i]
    BY <1>2
<1>4. \A i \in 1 .. Len(queue) : queue[i].command # "Timing"
    <2>1. \A i \in 1 .. Len(queue) :
              queue[i] = IF i <= Len(requestQueue) THEN requestQueue[i]
                         ELSE packets[i - Len(requestQueue)]
        BY <1>2
    <2> QED
        BY <1>2, <2>1 DEF NoTimingQueued
<1> HIDE DEF queue
<1>5. CASE Len(queue) = 0
    <2>1. requestQueue' = <<>> /\ swept' = swept /\ queue = <<>>
        BY <1>1, <1>2, <1>5 DEF QueueAndTransmit
    <2> QED
        BY <1>3, <1>5, <2>1 DEF NoTimingQueued
<1>6. CASE Len(queue) # 0
    <2>1. /\ requestQueue' = Tail(queue) /\ swept' = SweptAfter(Head(queue))
          /\ queue # <<>> /\ Head(queue) = queue[1] /\ 1 \in 1 .. Len(queue)
        BY <1>1, <1>2, <1>6 DEF QueueAndTransmit
    <2>2. swept' = IF queue[1].command \in SweepCommand THEN swept \cup {queue[1]} ELSE swept
        BY <1>4, <2>1 DEF SweptAfter
    <2>3. /\ DOMAIN requestQueue' = 1 .. Len(queue) - 1
          /\ \A i \in 1 .. Len(queue) - 1 : requestQueue'[i] = queue[i + 1]
        BY <1>2, <1>6, <2>1
    <2>4. ASSUME NEW i \in 1 .. Len(queue), queue[i].command \in SweepCommand
          PROVE  queue[i] \in swept' \cup Queued'
        <3>1. CASE i = 1
            BY <2>2, <2>4, <3>1
        <3>2. CASE i # 1
            <4>1. i - 1 \in 1 .. Len(queue) - 1 /\ i - 1 + 1 = i
                BY <1>2, <3>2
            <4>2. requestQueue'[i - 1] = queue[i] /\ i - 1 \in DOMAIN requestQueue'
                BY <2>3, <4>1
            <4> QED
                BY <4>2 DEF Queued
        <3> QED
            BY <3>1, <3>2
    <2>5. NoTimingQueued'
        <3> SUFFICES ASSUME NEW i \in 1 .. Len(queue) - 1
                     PROVE  requestQueue'[i].command # "Timing"
            BY <2>3 DEF NoTimingQueued
        <3>1. i + 1 \in 1 .. Len(queue)
            BY <1>2
        <3> QED
            BY <1>4, <2>3, <3>1
    <2> QED
        BY <1>3, <2>2, <2>4, <2>5
<1> QED
    BY <1>5, <1>6

\* What a sweep asks are requests of a sweep.
LEMMA SweepAsks ==
    /\ \A n : \A packet \in SettingsBelow(n) : packet.command \in SweepCommand
    /\ \A command : /\ AllModules(command).command = command
                    /\ Broadcast(command).command = command
    /\ "Timing" \notin SweepCommand \cup PollCommand
BY DEF SettingsBelow, AllModules, Broadcast, ModuleRange, SweepCommand, PollCommand

\* So whatever part of the sweep was recorded or queued still is, a tick later.
LEMMA StillAsked ==
    ASSUME TypeOK, NoTimingQueued,
           NEW packets \in Seq(Packet),
           \A i \in DOMAIN packets : packets[i].command # "Timing",
           Len(requestQueue) + Len(packets) <= QueueCapacity,
           QueueAndTransmit(packets),
           NEW n, SettingsBelow(n) \subseteq swept \cup Queued
    PROVE  SettingsBelow(n) \subseteq swept' \cup Queued'
<1> SUFFICES ASSUME NEW packet \in SettingsBelow(n)
             PROVE  packet \in swept' \cup Queued'
    OBVIOUS
<1>1. packet.command \in SweepCommand
    BY SweepAsks
<1>2. /\ swept \subseteq swept'
      /\ \A i \in DOMAIN requestQueue :
             requestQueue[i].command \in SweepCommand => requestQueue[i] \in swept' \cup Queued'
    BY NothingLost
<1>3. CASE packet \in swept
    BY <1>2, <1>3
<1>4. CASE packet \in Queued
    <2>1. PICK i \in DOMAIN requestQueue : packet = requestQueue[i]
        BY <1>4 DEF Queued
    <2> QED
        BY <1>1, <1>2, <2>1
<1> QED
    BY <1>3, <1>4

\* A tick that only transmits.
LEMMA TransmitKeepsProgress ==
    ASSUME TypeOK, NoTimingQueued, Transmit
    PROVE  /\ NoTimingQueued'
           /\ \A n : SettingsBelow(n) \subseteq swept \cup Queued
                         => SettingsBelow(n) \subseteq swept' \cup Queued'
<1> DEFINE packets == <<>>
<1>1. /\ packets \in Seq(Packet) /\ Len(packets) = 0
      /\ \A i \in DOMAIN packets : packets[i].command # "Timing"
    OBVIOUS
<1>2. QueueAndTransmit(packets)
    BY DEF Transmit
<1> HIDE DEF packets
<1>3. Len(requestQueue) + Len(packets) <= QueueCapacity
    <2>1. Len(requestQueue) \in Nat /\ Len(requestQueue) <= QueueCapacity
        BY DEF TypeOK
    <2> QED
        BY <1>1, <2>1
<1> QED
    BY <1>1, <1>2, <1>3, NothingLost, StillAsked

\* A single request on an idle queue leaves at once.
LEMMA LeavesAtOnce ==
    ASSUME requestQueue = <<>>, NEW packet, QueueAndTransmit(<<packet>>)
    PROVE  requestQueue' = <<>> /\ swept' = SweptAfter(packet)
<1> DEFINE one == <<packet>>
<1>1. Head(one) = packet /\ Tail(one) = <<>> /\ one # <<>> /\ <<>> \o one = one
      /\ Len(one) = 1 /\ Len(<<>>) = 0
    OBVIOUS
<1>2. QueueAndTransmit(one)
    OBVIOUS
<1> HIDE DEF one
<1>3. PushAll(requestQueue, one) = one
    BY <1>1, CapacityAssumption DEF PushAll
<1> QED
    BY <1>1, <1>2, <1>3 DEF QueueAndTransmit

\* A stage that asks all modules for one statistic, with the queue idle: the request
\* leaves at once, and is recorded.
LEMMA StatisticRecorded ==
    ASSUME TypeOK, NoTimingQueued, requestQueue = <<>>,
           NEW command \in SweepCommand,
           QueueAndTransmit(<<AllModules(command)>>)
    PROVE  /\ swept' = swept \cup {AllModules(command)}
           /\ NoTimingQueued'
<1>1. requestQueue' = <<>> /\ swept' = SweptAfter(AllModules(command))
    BY LeavesAtOnce
<1>2. AllModules(command).command = command /\ command # "Timing"
    BY SweepAsks
<1> QED
    BY <1>1, <1>2 DEF SweptAfter, NoTimingQueued

\* A burst of settings requests carries the sweep on from dummyVar to BurstEnd.
LEMMA SettingsProgress ==
    ASSUME InductiveInv, SweepProgress, cpt' = Second, UNCHANGED modbusVars, SendSettings
    PROVE  SweepProgress'
<1>1. TypeOK /\ SweepClock /\ NoTimingQueued
    BY DEF InductiveInv, ScheduleInv, SweepProgress
<1>2. /\ bmsState = "SEND_SETTINGS_REQUEST" /\ requestQueue = <<>> /\ Len(requestQueue) = 0
      /\ dummyVar < Largest(numberOfModules - 1, 1)
      /\ SettingsBelow(dummyVar) \subseteq swept \cup Queued
    BY <1>1, CurrentLemma DEF SendSettings, Ready, SweepProgress, SweepClock
<1>3. CASE dummyVar >= MaxModules
    <2>1. Transmit /\ dummyVar' = dummyVar /\ bmsState' = bmsState
        BY <1>3 DEF SendSettings
    <2> QED
        BY <1>1, <1>2, <2>1, TransmitKeepsProgress DEF SweepProgress
<1>4. CASE ~(dummyVar >= MaxModules)
    <2> DEFINE packets == SettingsRequests(dummyVar, BurstEnd - 1)
    <2>1. /\ dummyVar \in 0 .. MaxModules /\ MaxModules \in 1 .. 25 /\ dummyVar < MaxModules
        BY <1>1, <1>4, ModulesAssumption DEF TypeOK
    <2>2. /\ BurstEnd \in dummyVar + 1 .. MaxModules /\ BurstEnd <= dummyVar + 4
          /\ BurstEnd <= Largest(numberOfModules - 1, 1) /\ numberOfModules \in 1 .. 255
        BY <1>1, <1>2, <2>1, BurstLemma
    <2>3. /\ QueueAndTransmit(packets) /\ dummyVar' = BurstEnd
          /\ bmsState' = IF BurstEnd >= numberOfModules - 1
                         THEN "SEND_BALANCE_CURRENT_COUNT_REQUEST" ELSE bmsState
        BY <1>4 DEF SendSettings
    <2>4. /\ dummyVar \in Nat /\ BurstEnd - 1 \in Nat /\ dummyVar <= BurstEnd - 1
          /\ BurstEnd - 1 <= 255 /\ BurstEnd - 1 + 1 - dummyVar = BurstEnd - dummyVar
          /\ BurstEnd \in Nat
        BY <2>1, <2>2
    <2>5. /\ packets \in Seq(Packet) /\ Len(packets) = BurstEnd - dummyVar
          /\ DOMAIN packets = 1 .. BurstEnd - dummyVar
        BY <2>4, SettingsRequestsLemma
    <2>6. \A i \in 1 .. BurstEnd - dummyVar :
              packets[i] = ModuleRange("ReadSettings", dummyVar + i - 1, dummyVar + i - 1)
        BY <2>4 DEF SettingsRequests
    <2> HIDE DEF packets
    <2>7. \A i \in DOMAIN packets : packets[i].command = "ReadSettings"
        BY <2>5, <2>6 DEF ModuleRange
    <2>8. Len(requestQueue) + Len(packets) <= QueueCapacity
        BY <1>2, <2>1, <2>2, <2>5, CapacityAssumption
    <2>9. NoTimingQueued'
        BY <1>1, <2>3, <2>5, <2>7, <2>8, NothingLost
    <2>10. SettingsBelow(BurstEnd) \subseteq swept' \cup Queued'
        <3> SUFFICES ASSUME NEW m \in 0 .. BurstEnd - 1
                     PROVE  ModuleRange("ReadSettings", m, m) \in swept' \cup Queued'
            BY DEF SettingsBelow
        <3>1. CASE m < dummyVar
            <4>1. ModuleRange("ReadSettings", m, m) \in SettingsBelow(dummyVar)
                BY <2>4, <3>1 DEF SettingsBelow
            <4>2. SettingsBelow(dummyVar) \subseteq swept' \cup Queued'
                BY <1>1, <1>2, <2>3, <2>5, <2>7, <2>8, StillAsked
            <4> QED
                BY <4>1, <4>2
        <3>2. CASE ~(m < dummyVar)
            <4>1. /\ m - dummyVar + 1 \in 1 .. BurstEnd - dummyVar
                  /\ dummyVar + (m - dummyVar + 1) - 1 = m
                BY <2>4, <3>2
            <4>2. packets[m - dummyVar + 1] = ModuleRange("ReadSettings", m, m)
                BY <2>6, <4>1
            <4>3. "ReadSettings" \in SweepCommand
                BY DEF SweepCommand
            <4> QED
                BY <1>1, <2>3, <2>5, <2>7, <2>8, <4>1, <4>2, <4>3, NothingLost
        <3> QED
            BY <3>1, <3>2
    <2>11. CASE BurstEnd >= numberOfModules - 1
        <3>1. SweptModules = BurstEnd
            BY <2>2, <2>4, <2>11 DEF SweptModules, Largest
        <3>2. SweptModules' = SweptModules
            BY DEF SweptModules, modbusVars
        <3>3. SettingsBelow(SweptModules') \subseteq swept' \cup Queued'
            BY <2>10, <3>1, <3>2
        <3> QED
            BY <2>3, <2>9, <2>11, <3>3 DEF SweepProgress, SettingsBelow
    <2>12. CASE ~(BurstEnd >= numberOfModules - 1)
        <3>1. SettingsBelow(dummyVar') \subseteq swept' \cup Queued'
            BY <2>3, <2>10
        <3> QED
            BY <1>2, <2>3, <2>9, <2>12, <3>1 DEF SweepProgress, SettingsBelow
    <2> QED
        BY <2>11, <2>12
<1> QED
    BY <1>3, <1>4

\* Each statistic is recorded before the next is asked.
LEMMA StatisticsProgress ==
    ASSUME InductiveInv, SweepProgress, UNCHANGED modbusVars,
           SendBalanceCurrentCount \/ SendPacketReceived
    PROVE  SweepProgress'
<1>1. TypeOK /\ NoTimingQueued
    BY DEF InductiveInv, SweepProgress
<1>2. requestQueue = <<>> /\ Queued = {}
    BY DEF SendBalanceCurrentCount, SendPacketReceived, Ready, Queued
<1>3. /\ \A n : SettingsBelow(n)' = SettingsBelow(n)
      /\ SweptModules' = SweptModules
      /\ \A command : AllModules(command)' = AllModules(command)
    BY DEF SettingsBelow, SweptModules, AllModules, modbusVars
<1>4. CASE SendBalanceCurrentCount
    <2>1. /\ bmsState = "SEND_BALANCE_CURRENT_COUNT_REQUEST"
          /\ bmsState' = "SEND_PACKET_RECEIVED_REQUEST"
          /\ QueueAndTransmit(<<AllModules("ReadBalanceCurrentCounter")>>)
        BY <1>1, <1>4, CurrentLemma DEF SendBalanceCurrentCount, Ready
    <2>2. /\ swept' = swept \cup {AllModules("ReadBalanceCurrentCounter")} /\ NoTimingQueued'
        BY <1>1, <1>2, <2>1, StatisticRecorded DEF SweepCommand
    <2>3. SettingsBelow(SweptModules) \subseteq swept
        BY <1>2, <2>1 DEF SweepProgress
    <2>4. SettingsBelow(SweptModules') \cup {AllModules("ReadBalanceCurrentCounter")'}
              \subseteq swept'
        BY <1>3, <2>2, <2>3
    <2> QED
        BY <2>1, <2>2, <2>4 DEF SweepProgress, SettingsBelow
<1>5. CASE SendPacketReceived
    <2>1. /\ bmsState = "SEND_PACKET_RECEIVED_REQUEST" /\ bmsState' = "SEND_BAD_PACKET_COUNTER"
          /\ QueueAndTransmit(<<AllModules("ReadPacketReceivedCounter")>>)
        BY <1>1, <1>5, CurrentLemma DEF SendPacketReceived, Ready
    <2>2. /\ swept' = swept \cup {AllModules("ReadPacketReceivedCounter")} /\ NoTimingQueued'
        BY <1>1, <1>2, <2>1, StatisticRecorded DEF SweepCommand
    <2>3. SettingsBelow(SweptModules) \cup {AllModules("ReadBalanceCurrentCounter")}
              \subseteq swept
        BY <2>1 DEF SweepProgress
    <2>4. SettingsBelow(SweptModules') \cup {AllModules("ReadBalanceCurrentCounter")',
                                             AllModules("ReadPacketReceivedCounter")'}
              \subseteq swept'
        BY <1>3, <2>2, <2>3
    <2> QED
        BY <2>1, <2>2, <2>4 DEF SweepProgress, SettingsBelow
<1> QED
    BY <1>4, <1>5

\* A poll, or the seconds outside a sweep: nothing is owed, and no Timing is queued.
LEMMA PollingKeepsProgress ==
    ASSUME InductiveInv, SweepProgress, Poll \/ BetweenPolls \/ Resume
    PROVE  SweepProgress'
<1>1. TypeOK /\ NoTimingQueued
    BY DEF InductiveInv, SweepProgress
<1>2. bmsState' = "READ_VOLTAGE_AND_STATUS"
    BY <1>1, CurrentLemma DEF Poll, BetweenPolls, Resume
<1>3. NoTimingQueued'
    <2>1. CASE BetweenPolls \/ Resume
        BY <1>1, <2>1, TransmitKeepsProgress DEF BetweenPolls, Resume
    <2>2. CASE Poll
        <3>1. PICK bypass \in BypassSeen : QueueAndTransmit(PollRequests(bypass))
            BY <2>2 DEF Poll
        <3> DEFINE packets == PollRequests(bypass)
        <3>2. packets \in Seq(Packet) /\ Len(packets) \in 2 .. 3
              /\ \A i \in DOMAIN packets : packets[i].command # "Timing"
            <4> DEFINE voltage == AllModules("ReadVoltageAndStatus")
                       temperature == AllModules("ReadTemperature")
                       power == AllModules("ReadBalancePowerPWM")
            <4>1. /\ voltage \in Packet /\ temperature \in Packet /\ power \in Packet
                BY <1>1, RequestsArePackets DEF Command, RangeCommand, PollCommand
            <4>2. /\ voltage.command # "Timing" /\ temperature.command # "Timing"
                  /\ power.command # "Timing"
                BY SweepAsks
            <4>3. packets = IF bypass THEN <<voltage, temperature, power>>
                            ELSE <<voltage, temperature>>
                BY DEF PollRequests
            <4> HIDE DEF voltage, temperature, power, packets
            <4>4. CASE packets = <<voltage, temperature, power>>
                BY <4>1, <4>2, <4>4
            <4>5. CASE packets = <<voltage, temperature>>
                BY <4>1, <4>2, <4>5
            <4> QED
                BY <4>3, <4>4, <4>5
        <3> HIDE DEF packets
        <3>3. cpt % 3 = 2 /\ bmsState = "READ_VOLTAGE_AND_STATUS"
            BY <1>1, <2>2, SecondLemma, CurrentLemma DEF Poll
        <3>4. Len(requestQueue) = 0
            BY <1>1, <3>3 DEF InductiveInv, ScheduleInv, QueueShape, TypeOK
        <3>5. Len(requestQueue) + Len(packets) <= QueueCapacity
            BY <3>2, <3>4, CapacityAssumption
        <3>6. QueueAndTransmit(packets)
            BY <3>1 DEF packets
        <3> QED
            BY <1>1, <3>2, <3>5, <3>6, NothingLost
    <2> QED
        BY <2>1, <2>2
<1> QED
    BY <1>2, <1>3 DEF SweepProgress

\* Every step of the controller keeps the account of the sweep.
LEMMA ProgressKept == InductiveInv /\ SweepProgress /\ [Next]_vars => SweepProgress'
<1> SUFFICES ASSUME InductiveInv, SweepProgress, [Next]_vars
             PROVE  SweepProgress'
    OBVIOUS
<1>1. TypeOK /\ QueueShape /\ NoTimingQueued
    BY DEF InductiveInv, ScheduleInv, SweepProgress
<1>2. CASE Tick
    <2>1. cpt' = Second /\ UNCHANGED modbusVars
        BY <1>2 DEF Tick
    <2>2. CASE Wait
        <3>1. bmsState = Current /\ bmsState # "SEND_TIMING_REQUEST" /\ requestQueue # <<>>
            BY <1>1, <2>2, TimingFindsIdleQueue, CurrentLemma DEF Wait
        <3>2. /\ bmsState' = bmsState /\ dummyVar' = dummyVar /\ Transmit
              /\ bmsState \notin {"SEND_PACKET_RECEIVED_REQUEST", "SEND_BAD_PACKET_COUNTER"}
              /\ SweptModules' = SweptModules
            BY <1>1, <2>1, <2>2, <3>1 DEF Wait, QueueShape, SweptModules, modbusVars
        <3>3. /\ NoTimingQueued'
              /\ \A n : SettingsBelow(n) \subseteq swept \cup Queued
                            => SettingsBelow(n) \subseteq swept' \cup Queued'
            BY <1>1, <3>2, TransmitKeepsProgress
        <3>4. CASE bmsState = "SEND_SETTINGS_REQUEST"
            BY <3>2, <3>3, <3>4 DEF SweepProgress
        <3>5. CASE bmsState = "SEND_BALANCE_CURRENT_COUNT_REQUEST"
            <4>1. SettingsBelow(SweptModules) \subseteq swept' \cup Queued'
                BY <3>3, <3>5 DEF SweepProgress
            <4>2. SettingsBelow(SweptModules') \subseteq swept' \cup Queued'
                BY <3>2, <4>1
            <4> QED
                BY <3>2, <3>3, <3>5, <4>2 DEF SweepProgress, SettingsBelow
        <3> QED
            BY <3>2, <3>3, <3>4, <3>5 DEF SweepProgress
    <2>3. CASE SendTiming
        <3>1. requestQueue = <<>> /\ dummyVar' = 0 /\ bmsState' = "SEND_SETTINGS_REQUEST"
            BY <2>3 DEF SendTiming, Ready
        <3>2. requestQueue' = <<>>
            BY <2>3, <3>1, LeavesAtOnce DEF SendTiming
        <3>3. SettingsBelow(0) = {}
            BY DEF SettingsBelow
        <3> QED
            BY <3>1, <3>2, <3>3 DEF SweepProgress, NoTimingQueued
    <2>4. CASE SendSettings
        BY <2>1, <2>4, SettingsProgress
    <2>5. CASE SendBalanceCurrentCount \/ SendPacketReceived
        BY <2>1, <2>5, StatisticsProgress
    <2>6. CASE SendBadPacketCounter
        <3>1. /\ bmsState' = "READ_VOLTAGE_AND_STATUS" /\ requestQueue = <<>>
              /\ QueueAndTransmit(<<AllModules("ReadBadPacketCounter")>>)
            BY <2>6 DEF SendBadPacketCounter, Ready
        <3>2. NoTimingQueued'
            BY <1>1, <3>1, StatisticRecorded DEF SweepCommand
        <3> QED
            BY <3>1, <3>2 DEF SweepProgress
    <2>7. CASE Poll \/ BetweenPolls \/ Resume
        BY <2>7, PollingKeepsProgress
    <2> QED
        BY <1>2, <2>2, <2>3, <2>4, <2>5, <2>6, <2>7 DEF Tick
<1>3. CASE Modbus
    <2>1. /\ bmsState' \in ModbusState
          /\ \E packet : requestQueue' = <<packet>> /\ packet.command # "Timing"
        BY <1>3 DEF Modbus, SendIdentify, SendGlobalConfig, ModbusState, ModuleRange, Broadcast
    <2>2. NoTimingQueued'
        BY <2>1 DEF NoTimingQueued
    <2> QED
        BY <2>1, <2>2 DEF SweepProgress, ModbusState
<1>4. CASE \E modules \in BypassSets : VoltageReply(modules)
    BY <1>4 DEF VoltageReply, SweepProgress, NoTimingQueued, Queued, SettingsBelow,
                SweptModules, AllModules
<1>5. CASE Restart
    BY <1>5 DEF Restart, SweepProgress, NoTimingQueued
<1>6. CASE UNCHANGED vars
    BY <1>6 DEF vars, SweepProgress, NoTimingQueued, Queued, SettingsBelow,
                SweptModules, AllModules
<1> QED
    BY <1>2, <1>3, <1>4, <1>5, <1>6 DEF Next

\* A sweep that gives way to polling, and a controller that announces it has started,
\* have asked everything a sweep asks, for the configuration of that moment.
THEOREM SweepsAreComplete == Spec => SweepComplete
<1> DEFINE Complete == (bmsState \in SweepState /\ bmsState' \notin SweepState \cup ModbusState)
                           => isStarted' /\ SweepRequests \subseteq swept'
<1>1. Init => SweepProgress
    BY DEF Init, SweepProgress, NoTimingQueued
<1>2. InductiveInv /\ SweepProgress /\ [Next]_vars => [Complete]_vars
    <2> SUFFICES ASSUME InductiveInv, SweepProgress, Next,
                        bmsState \in SweepState, bmsState' \notin SweepState \cup ModbusState
                 PROVE  isStarted' /\ SweepRequests \subseteq swept'
        BY DEF vars
    <2>1. TypeOK /\ NoTimingQueued
        BY DEF InductiveInv, SweepProgress
    <2>2. SendBadPacketCounter
        <3>1. ~Modbus /\ ~Restart /\ ~ \E modules \in BypassSets : VoltageReply(modules)
            BY DEF Modbus, SendIdentify, SendGlobalConfig, Restart, VoltageReply,
                   ModbusState, SweepState
        <3>2. Tick
            BY <3>1 DEF Next
        <3>3. Current \in SweepState
            BY DEF Current, SweepState
        <3> QED
            BY <3>2, <3>3 DEF Tick, Wait, SendTiming, SendSettings, SendBalanceCurrentCount,
                              SendPacketReceived, Poll, BetweenPolls, Resume, Ready,
                              SweepState, ModbusState
    <2>3. /\ bmsState = "SEND_BAD_PACKET_COUNTER" /\ requestQueue = <<>> /\ isStarted' = TRUE
          /\ QueueAndTransmit(<<AllModules("ReadBadPacketCounter")>>)
        BY <2>1, <2>2, CurrentLemma DEF SendBadPacketCounter, Ready
    <2>4. swept' = swept \cup {AllModules("ReadBadPacketCounter")}
        BY <2>1, <2>3, StatisticRecorded DEF SweepCommand
    <2>5. SettingsBelow(SweptModules) \cup {AllModules("ReadBalanceCurrentCounter"),
                                            AllModules("ReadPacketReceivedCounter")}
              \subseteq swept
        BY <2>3 DEF SweepProgress
    <2>6. SweepRequests = SettingsBelow(SweptModules)
                              \cup {AllModules(command) : command \in SweepCommand \ {"ReadSettings"}}
        BY DEF SweepRequests, SettingsBelow, SweptModules
    <2> QED
        BY <2>3, <2>4, <2>5, <2>6 DEF SweepCommand
<1> QED
    BY <1>1, <1>2, ProgressKept, InitEstablishesInv, NextPreservesInv, PTL
    DEF Spec, SweepComplete

(***************************************************************************)
(* When the next poll leaves: at the next multiple of three seconds, after *)
(* the Modbus request or the sweep under way, or after the sweep that      *)
(* comes first.  Left alone, the scheduler counts down to it.              *)
(***************************************************************************)

\* A configuration cmi[] can hold, on the boards there are.
Fits == numberOfModules <= MaxModules /\ numberOfModules <= 16

\* Ticks until the scheduler is back to polling, if nothing disturbs it.
UntilPolling ==
    CASE bmsState = "READ_VOLTAGE_AND_STATUS"            -> 0
      [] bmsState \in ModbusState                        -> Len(requestQueue) + 1
      [] bmsState = "SEND_TIMING_REQUEST"                -> SweptModules + 4
      [] bmsState = "SEND_SETTINGS_REQUEST"              ->
             Len(requestQueue) + SweptModules - dummyVar + 3
      [] bmsState = "SEND_BALANCE_CURRENT_COUNT_REQUEST" -> Len(requestQueue) + 3
      [] bmsState = "SEND_PACKET_RECEIVED_REQUEST"       -> 2
      [] bmsState = "SEND_BAD_PACKET_COUNTER"            -> 1

NextThird(second) == 3 * (second \div 3 + 1)

AfterSweep == NextThird(SweptModules + 3)

\* The second of the first poll of a scheduler that is polling from a given second on.
NextPoll(second) ==
    IF second >= 27 /\ second <= 29 THEN 30 + AfterSweep ELSE NextThird(second)

UntilPoll == NextPoll(cpt + UntilPolling) - cpt

\* How early in its 30 s each stage of a sweep is reached, with the modules there are.
SweepPace ==
    Fits =>
        /\ bmsState = "SEND_BALANCE_CURRENT_COUNT_REQUEST" =>
               cpt + Len(requestQueue) <= SweptModules + 1
        /\ bmsState = "SEND_PACKET_RECEIVED_REQUEST" => cpt <= SweptModules + 2
        /\ bmsState = "SEND_BAD_PACKET_COUNTER" => cpt <= SweptModules + 3

\* The next multiple of three is one to three seconds away.
LEMMA NextThirdIs ==
    ASSUME NEW second \in Nat
    PROVE  /\ NextThird(second) \in Nat
           /\ second + 1 <= NextThird(second) /\ NextThird(second) <= second + 3
           /\ second % 3 = 2 => NextThird(second) = second + 1
           /\ second % 3 # 2 => NextThird(second + 1) = NextThird(second)
           /\ second <= 2 => NextThird(second) = 3
           /\ 30 <= second /\ second <= 32 => NextThird(second) = 33
BY Z3 DEF NextThird

\* The schedule in numbers.
LEMMA ScheduleFacts ==
    ASSUME InductiveInv, numberOfModules <= MaxModules
    PROVE  /\ cpt \in 0 .. 29 /\ MaxModules \in 1 .. 25 /\ numberOfModules \in 1 .. 255
           /\ Len(requestQueue) \in Nat /\ (Len(requestQueue) = 0 <=> requestQueue = <<>>)
           /\ dummyVar \in 0 .. MaxModules
           /\ SweptModules \in 1 .. MaxModules
           /\ cpt \in Nat /\ dummyVar \in Nat /\ numberOfModules \in Nat
           /\ SweptModules \in Nat /\ SweptModules <= MaxModules
           /\ MaxModules \in Nat /\ MaxModules <= 25
           /\ numberOfModules <= 16 => SweptModules <= 15
           /\ bmsState \in State
           /\ bmsState \in ModbusState => Len(requestQueue) <= 1
           /\ bmsState \in {"SEND_TIMING_REQUEST", "SEND_PACKET_RECEIVED_REQUEST",
                            "SEND_BAD_PACKET_COUNTER"} => Len(requestQueue) = 0
           /\ bmsState = "SEND_TIMING_REQUEST" => cpt = 0
           /\ bmsState = "SEND_SETTINGS_REQUEST" =>
                  dummyVar < SweptModules /\ cpt + Len(requestQueue) <= dummyVar + 1
<1>1. TypeOK /\ QueueShape /\ SweepClock
    BY DEF InductiveInv, ScheduleInv
<1>2. numberOfModules \in 1 .. 255 /\ MaxModules \in 1 .. 25
    BY <1>1, SizesFit, ModulesAssumption DEF TypeOK
<1>3. SweptModules \in 1 .. MaxModules /\ (numberOfModules <= 16 => SweptModules <= 15)
    BY <1>2 DEF SweptModules, Largest
<1>4. /\ cpt \in 0 .. 29 /\ dummyVar \in 0 .. MaxModules /\ bmsState \in State
      /\ Len(requestQueue) \in Nat /\ (Len(requestQueue) = 0 <=> requestQueue = <<>>)
    BY <1>1 DEF TypeOK, Period
<1>5. bmsState = "SEND_SETTINGS_REQUEST" =>
          dummyVar < SweptModules /\ cpt + Len(requestQueue) <= dummyVar + 1
    <2> SUFFICES ASSUME bmsState = "SEND_SETTINGS_REQUEST"
                 PROVE  dummyVar < SweptModules /\ cpt + Len(requestQueue) <= dummyVar + 1
        OBVIOUS
    <2>1. dummyVar < SweptModules
        BY <1>1 DEF SweepClock, SweptModules
    <2>2. dummyVar < MaxModules
        BY <1>2, <1>3, <1>4, <2>1
    <2> QED
        BY <1>1, <2>1, <2>2 DEF SweepClock
<1>6. /\ cpt \in Nat /\ dummyVar \in Nat /\ numberOfModules \in Nat
      /\ MaxModules \in Nat /\ MaxModules <= 25
    BY <1>2, <1>4
<1>7. SweptModules \in Nat /\ SweptModules <= MaxModules
    BY <1>3, <1>6
<1> QED
    BY <1>1, <1>2, <1>3, <1>4, <1>5, <1>6, <1>7 DEF QueueShape, SweepClock

\* UntilPolling, stage by stage.
LEMMA UntilPollingIs ==
    /\ bmsState = "READ_VOLTAGE_AND_STATUS" => UntilPolling = 0
    /\ bmsState \in ModbusState => UntilPolling = Len(requestQueue) + 1
    /\ bmsState = "SEND_TIMING_REQUEST" => UntilPolling = SweptModules + 4
    /\ bmsState = "SEND_SETTINGS_REQUEST" =>
           UntilPolling = Len(requestQueue) + SweptModules - dummyVar + 3
    /\ bmsState = "SEND_BALANCE_CURRENT_COUNT_REQUEST" =>
           UntilPolling = Len(requestQueue) + 3
    /\ bmsState = "SEND_PACKET_RECEIVED_REQUEST" => UntilPolling = 2
    /\ bmsState = "SEND_BAD_PACKET_COUNTER" => UntilPolling = 1
BY DEF UntilPolling, ModbusState

\* A sweep ends within SweptModules + 4 seconds of its half minute, a Modbus request
\* within two.
LEMMA PollingComes ==
    ASSUME InductiveInv, SweepPace, Fits
    PROVE  /\ UntilPolling \in Nat
           /\ bmsState \in SweepState => cpt + UntilPolling <= SweptModules + 4
           /\ bmsState \notin SweepState => UntilPolling <= 2
<1>1. /\ cpt \in 0 .. 29 /\ Len(requestQueue) \in Nat /\ dummyVar \in 0 .. MaxModules
      /\ MaxModules \in 1 .. 25 /\ SweptModules \in 1 .. MaxModules /\ bmsState \in State
    BY ScheduleFacts DEF Fits
<1>2. CASE bmsState = "READ_VOLTAGE_AND_STATUS"
    <2>1. UntilPolling = 0 /\ bmsState \notin SweepState
        BY <1>2, UntilPollingIs DEF SweepState
    <2> QED
        BY <2>1
<1>3. CASE bmsState \in ModbusState
    <2>1. UntilPolling = Len(requestQueue) + 1 /\ bmsState \notin SweepState
        BY <1>3, UntilPollingIs DEF SweepState, ModbusState
    <2>2. Len(requestQueue) <= 1
        BY <1>3, ScheduleFacts DEF Fits
    <2> QED
        BY <1>1, <2>1, <2>2
<1>4. CASE bmsState = "SEND_TIMING_REQUEST"
    <2>1. cpt = 0 /\ UntilPolling = SweptModules + 4 /\ bmsState \in SweepState
        BY <1>4, ScheduleFacts, UntilPollingIs DEF SweepState, Fits
    <2> QED
        BY <1>1, <2>1
<1>5. CASE bmsState = "SEND_SETTINGS_REQUEST"
    <2>1. /\ dummyVar < SweptModules /\ cpt + Len(requestQueue) <= dummyVar + 1
          /\ UntilPolling = Len(requestQueue) + SweptModules - dummyVar + 3
          /\ bmsState \in SweepState
        BY <1>5, ScheduleFacts, UntilPollingIs DEF SweepState, Fits
    <2> QED
        BY <1>1, <2>1
<1>6. CASE bmsState = "SEND_BALANCE_CURRENT_COUNT_REQUEST"
    <2>1. /\ UntilPolling = Len(requestQueue) + 3 /\ bmsState \in SweepState
          /\ cpt + Len(requestQueue) <= SweptModules + 1
        BY <1>6, UntilPollingIs DEF SweepState, SweepPace
    <2> QED
        BY <1>1, <2>1
<1>7. CASE bmsState = "SEND_PACKET_RECEIVED_REQUEST"
    <2>1. UntilPolling = 2 /\ bmsState \in SweepState /\ cpt <= SweptModules + 2
        BY <1>7, UntilPollingIs DEF SweepState, SweepPace
    <2> QED
        BY <1>1, <2>1
<1>8. CASE bmsState = "SEND_BAD_PACKET_COUNTER"
    <2>1. UntilPolling = 1 /\ bmsState \in SweepState /\ cpt <= SweptModules + 3
        BY <1>8, UntilPollingIs DEF SweepState, SweepPace
    <2> QED
        BY <1>1, <2>1
<1> QED
    BY <1>1, <1>2, <1>3, <1>4, <1>5, <1>6, <1>7, <1>8 DEF State, SweepState

\* Whatever just happened, the next poll leaves within five seconds more than a whole
\* sweep takes.
LEMMA PollComesInTime ==
    ASSUME InductiveInv, SweepPace, Fits
    PROVE  UntilPoll \in Int /\ 1 <= UntilPoll /\ UntilPoll <= 5 + AfterSweep
<1> DEFINE back == cpt + UntilPolling
<1>1. /\ numberOfModules <= MaxModules /\ numberOfModules <= 16
    BY DEF Fits
<1>2. cpt \in 0 .. 29 /\ SweptModules \in Nat /\ SweptModules <= 15
    BY <1>1, ScheduleFacts
<1>3. /\ UntilPolling \in Nat
      /\ UntilPolling <= 2 \/ cpt + UntilPolling <= SweptModules + 4
    BY <1>1, PollingComes
<1>4. AfterSweep \in Nat /\ SweptModules + 4 <= AfterSweep
    <2>1. SweptModules + 3 \in Nat
        BY <1>2
    <2> QED
        BY <1>2, <2>1, NextThirdIs DEF AfterSweep
<1>5. back \in Nat /\ back = cpt + UntilPolling
    BY <1>2, <1>3
<1>6. UntilPoll = NextPoll(back) - cpt
    BY DEF UntilPoll
<1> HIDE DEF back
<1>7. NextThird(back) \in Nat /\ back + 1 <= NextThird(back) /\ NextThird(back) <= back + 3
    BY <1>5, NextThirdIs
<1>8. CASE back >= 27 /\ back <= 29
    <2>1. UntilPoll = 30 + AfterSweep - cpt
        <3>1. NextPoll(back) = 30 + AfterSweep
            BY <1>8 DEF NextPoll
        <3> QED
            BY <1>2, <1>4, <1>6, <3>1
    <2>2. UntilPolling <= 2
        BY <1>2, <1>3, <1>5, <1>8
    <2> QED
        BY <1>2, <1>3, <1>4, <1>5, <1>8, <2>1, <2>2
<1>9. CASE ~(back >= 27 /\ back <= 29)
    <2>1. UntilPoll = NextThird(back) - cpt
        <3>1. NextPoll(back) = NextThird(back)
            BY <1>9 DEF NextPoll
        <3> QED
            BY <1>6, <3>1
    <2>2. back <= cpt + 2 \/ back <= SweptModules + 4
        BY <1>2, <1>3, <1>5
    <2> QED
        BY <1>2, <1>3, <1>4, <1>5, <1>7, <2>1, <2>2
<1> QED
    BY <1>8, <1>9

\* A tick that brings polling one second closer brings the poll one second closer; a
\* Modbus request that is being served when the 30 s are over delays it, not the sweep.
LEMMA Countdown ==
    ASSUME InductiveInv, SweepPace, Fits, UNCHANGED modbusVars,
           cpt' = Second, UntilPolling >= 1, UntilPolling' = UntilPolling - 1
    PROVE  UntilPoll' = UntilPoll - 1
<1>1. cpt \in 0 .. 29 /\ SweptModules \in Nat /\ SweptModules <= 15
    BY ScheduleFacts DEF Fits
<1>2. /\ UntilPolling \in Nat
      /\ UntilPolling <= 2 \/ cpt + UntilPolling <= SweptModules + 4
    BY PollingComes DEF Fits
<1>3. cpt' = IF cpt = 29 THEN 0 ELSE cpt + 1
    BY SecondLemma DEF InductiveInv
<1>4. AfterSweep' = AfterSweep
    BY DEF AfterSweep, SweptModules, NextThird, modbusVars
<1>5. CASE cpt # 29
    <2>1. cpt' + UntilPolling' = cpt + UntilPolling
        BY <1>1, <1>2, <1>3, <1>5
    <2>2. NextPoll(cpt + UntilPolling)' = NextPoll(cpt + UntilPolling)
        BY <1>4, <2>1 DEF NextPoll, NextThird
    <2>3. NextPoll(cpt + UntilPolling) \in Int
        <3>1. cpt + UntilPolling \in Nat /\ AfterSweep \in Nat
            BY <1>1, <1>2, NextThirdIs DEF AfterSweep
        <3> QED
            BY <3>1, NextThirdIs DEF NextPoll
    <2>4. cpt' = cpt + 1
        BY <1>3, <1>5
    <2> QED
        BY <1>1, <2>2, <2>3, <2>4 DEF UntilPoll
<1>6. CASE cpt = 29
    <2>1. UntilPolling <= 2
        BY <1>1, <1>2, <1>6
    <2>2. UntilPoll = 4
        BY <1>2, <1>6, <2>1 DEF UntilPoll, NextPoll, NextThird
    <2>3. UntilPoll' = 3
        BY <1>2, <1>3, <1>6, <2>1 DEF UntilPoll, NextPoll, NextThird
    <2> QED
        BY <2>2, <2>3
<1> QED
    BY <1>5, <1>6

\* The poll leaves in the second it is due, before anything else: nothing was queued.
LEMMA PollIsDue ==
    ASSUME InductiveInv, cpt' = Second, Poll
    PROVE  /\ requestQueue = <<>> /\ cpt % 3 = 2 /\ cpt' % 3 = 0
           /\ UntilPoll = 1
           /\ sent' = <<AllModules("ReadVoltageAndStatus")>>
           /\ \A i \in DOMAIN requestQueue' :
                  requestQueue'[i].command # "ReadVoltageAndStatus"
<1>1. TypeOK /\ QueueShape
    BY DEF InductiveInv, ScheduleInv
<1>2. bmsState = "READ_VOLTAGE_AND_STATUS" /\ cpt' % 3 = 0 /\ cpt % 3 = 2 /\ cpt \in 0 .. 29
    BY <1>1, SecondLemma, CurrentLemma DEF Poll
<1>3. requestQueue = <<>>
    BY <1>1, <1>2 DEF QueueShape, TypeOK
<1>4. UntilPoll = 1
    <2>1. cpt # 29
        BY <1>1, <1>2, SecondLemma DEF Poll, Current, ModbusState
    <2>2. cpt + UntilPolling = cpt /\ cpt + 1 \in Nat
        BY <1>2, UntilPollingIs
    <2>3. ~(cpt >= 27 /\ cpt <= 29)
        BY <1>2, <2>1
    <2> QED
        BY <1>2, <2>2, <2>3, NextThirdIs DEF UntilPoll, NextPoll
<1>5. PICK bypass \in BypassSeen : QueueAndTransmit(PollRequests(bypass))
    BY DEF Poll
<1> DEFINE packets == PollRequests(bypass)
           voltage == AllModules("ReadVoltageAndStatus")
           temperature == AllModules("ReadTemperature")
           power == AllModules("ReadBalancePowerPWM")
<1>6. packets = <<voltage, temperature, power>> \/ packets = <<voltage, temperature>>
    BY DEF PollRequests
<1>7. /\ temperature.command # "ReadVoltageAndStatus"
      /\ power.command # "ReadVoltageAndStatus"
    BY SweepAsks
<1>8. QueueAndTransmit(packets)
    BY <1>5
<1> HIDE DEF packets, voltage, temperature, power
<1>9. /\ Len(packets) \in Nat /\ Len(packets) <= 3
      /\ packets # <<>> /\ Head(packets) = voltage /\ <<>> \o packets = packets
      /\ \A i \in DOMAIN Tail(packets) : Tail(packets)[i].command # "ReadVoltageAndStatus"
    <2>1. CASE packets = <<voltage, temperature, power>>
        BY <1>7, <2>1
    <2>2. CASE packets = <<voltage, temperature>>
        BY <1>7, <2>2
    <2> QED
        BY <1>6, <2>1, <2>2
<1>10. PushAll(requestQueue, packets) = packets
    <2>1. Len(requestQueue) = 0
        BY <1>3
    <2>2. Len(packets) \in Nat /\ Len(packets) <= 3
        BY <1>9
    <2>3. Len(requestQueue) + Len(packets) <= QueueCapacity
        BY <2>1, <2>2, CapacityAssumption
    <2> QED
        BY <1>3, <1>9, <2>3 DEF PushAll
<1>11. requestQueue' = Tail(packets) /\ sent' = <<voltage>>
    BY <1>8, <1>9, <1>10 DEF QueueAndTransmit
<1> QED
    BY <1>2, <1>3, <1>4, <1>9, <1>11 DEF voltage

\* Any other tick brings the next poll one second closer, and keeps the pace.
LEMMA WaitCounts ==
    ASSUME InductiveInv, SweepPace, Fits, cpt' = Second, UNCHANGED modbusVars, Wait
    PROVE  UntilPolling >= 1 /\ UntilPolling' = UntilPolling - 1 /\ SweepPace'
<1>1. TypeOK /\ numberOfModules <= MaxModules
    BY DEF InductiveInv, Fits
<1>2. bmsState = Current /\ bmsState # "SEND_TIMING_REQUEST" /\ requestQueue # <<>>
    BY <1>1, TimingFindsIdleQueue, CurrentLemma DEF Wait
<1>3. /\ bmsState' = bmsState /\ dummyVar' = dummyVar /\ bmsState' \in State
      /\ dummyVar' \in 0 .. MaxModules /\ isStarted' \in BOOLEAN /\ Transmit
      /\ bmsState # "READ_VOLTAGE_AND_STATUS" /\ SweptModules' = SweptModules
    BY <1>1, <1>2 DEF Wait, TypeOK, SweptModules, modbusVars
<1>4. /\ Len(requestQueue) \in Nat /\ Len(requestQueue) # 0
      /\ Len(requestQueue') = Len(requestQueue) - 1
    BY <1>2, <1>3, TransmitFrame
<1>5. /\ bmsState \in {"SEND_SETTINGS_REQUEST", "SEND_BALANCE_CURRENT_COUNT_REQUEST"}
                          \cup ModbusState
    BY <1>1, <1>2, <1>3, <1>4, ScheduleFacts DEF State, SweepState, ModbusState
<1>6. cpt \in 0 .. 29 /\ SweptModules \in Nat /\ dummyVar \in Nat /\ SweptModules <= 15
    BY <1>1, ScheduleFacts DEF Fits
<1>7. CASE bmsState \in ModbusState
    <2>1. UntilPolling = Len(requestQueue) + 1
        BY <1>7, UntilPollingIs
    <2>2. UntilPolling' = Len(requestQueue') + 1
        BY <1>3, <1>7, UntilPollingIs DEF UntilPolling, ModbusState
    <2>3. SweepPace'
        BY <1>3, <1>7 DEF SweepPace, ModbusState
    <2> QED
        BY <1>4, <2>1, <2>2, <2>3
<1>8. CASE bmsState = "SEND_SETTINGS_REQUEST"
    <2>1. UntilPolling = Len(requestQueue) + SweptModules - dummyVar + 3
        BY <1>8, UntilPollingIs
    <2>2. UntilPolling' = Len(requestQueue') + SweptModules - dummyVar + 3
        BY <1>3, <1>8, UntilPollingIs DEF UntilPolling, ModbusState
    <2>3. dummyVar < SweptModules
        BY <1>1, <1>8, ScheduleFacts
    <2>4. SweepPace'
        BY <1>3, <1>8 DEF SweepPace
    <2> QED
        BY <1>4, <1>6, <2>1, <2>2, <2>3, <2>4
<1>9. CASE bmsState = "SEND_BALANCE_CURRENT_COUNT_REQUEST"
    <2>1. UntilPolling = Len(requestQueue) + 3
        BY <1>9, UntilPollingIs
    <2>2. UntilPolling' = Len(requestQueue') + 3
        BY <1>3, <1>9, UntilPollingIs DEF UntilPolling, ModbusState
    <2>3. cpt + Len(requestQueue) <= SweptModules + 1
        BY <1>1, <1>9 DEF SweepPace
    <2>4. cpt' <= cpt + 1 /\ cpt' \in Nat
        BY <1>1, SecondLemma
    <2>5. cpt' + Len(requestQueue') <= SweptModules' + 1
        BY <1>3, <1>4, <1>6, <2>3, <2>4
    <2>6. SweepPace'
        BY <1>3, <1>9, <2>5 DEF SweepPace
    <2> QED
        BY <1>4, <2>1, <2>2, <2>6
<1> QED
    BY <1>5, <1>7, <1>8, <1>9

\* A burst of settings requests takes as many seconds as it asks modules.
LEMMA SettingsCount ==
    ASSUME InductiveInv, SweepPace, Fits, cpt' = Second, UNCHANGED modbusVars, SendSettings
    PROVE  UntilPolling >= 1 /\ UntilPolling' = UntilPolling - 1 /\ SweepPace'
<1>1. TypeOK /\ numberOfModules <= MaxModules
    BY DEF InductiveInv, Fits
<1>2. bmsState = "SEND_SETTINGS_REQUEST" /\ requestQueue = <<>> /\ Len(requestQueue) = 0
    BY <1>1, CurrentLemma DEF SendSettings, Ready
<1>3. /\ dummyVar < SweptModules /\ cpt <= dummyVar + 1 /\ cpt \in Nat
      /\ dummyVar \in Nat /\ SweptModules \in Nat /\ MaxModules \in Nat
      /\ SweptModules <= MaxModules /\ MaxModules <= 25 /\ numberOfModules \in Nat
    <2>1. cpt + Len(requestQueue) <= dummyVar + 1 /\ dummyVar < SweptModules
        BY <1>1, <1>2, ScheduleFacts
    <2>2. /\ cpt \in Nat /\ dummyVar \in Nat /\ SweptModules \in Nat /\ MaxModules \in Nat
          /\ SweptModules <= MaxModules /\ MaxModules <= 25 /\ numberOfModules \in Nat
        BY <1>1, ScheduleFacts
    <2> QED
        BY <1>2, <2>1, <2>2
<1>4. dummyVar < MaxModules /\ dummyVar < Largest(numberOfModules - 1, 1)
    BY <1>3 DEF SweptModules
<1>5. /\ BurstEnd \in Nat /\ dummyVar + 1 <= BurstEnd /\ BurstEnd <= MaxModules
      /\ BurstEnd <= dummyVar + 4 /\ BurstEnd <= SweptModules
    BY <1>1, <1>3, <1>4, BurstLemma DEF SweptModules
<1> DEFINE packets == SettingsRequests(dummyVar, BurstEnd - 1)
<1>6. /\ QueueAndTransmit(packets) /\ dummyVar' = BurstEnd
      /\ bmsState' = IF BurstEnd >= numberOfModules - 1
                     THEN "SEND_BALANCE_CURRENT_COUNT_REQUEST" ELSE bmsState
    BY <1>3, <1>4 DEF SendSettings
<1>7. Len(requestQueue') = BurstEnd - dummyVar - 1
    <2>1. /\ BurstEnd - 1 \in Nat /\ dummyVar <= BurstEnd - 1 /\ BurstEnd - 1 <= 255
          /\ BurstEnd - 1 + 1 - dummyVar = BurstEnd - dummyVar
        BY <1>3, <1>5
    <2>2. packets \in Seq(Packet) /\ Len(packets) = BurstEnd - dummyVar
        BY <1>3, <2>1, SettingsRequestsLemma
    <2> HIDE DEF packets
    <2>3. Len(requestQueue) + Len(packets) <= QueueCapacity
        BY <1>2, <1>3, <1>5, <2>2, CapacityAssumption
    <2>4. Len(requestQueue') = IF Len(requestQueue) + Len(packets) = 0 THEN 0
                               ELSE Len(requestQueue) + Len(packets) - 1
        BY <1>1, <1>6, <2>2, <2>3, QueueAndTransmitLemma
    <2> QED
        BY <1>2, <1>3, <1>5, <2>2, <2>4
<1>8. UntilPolling = SweptModules - dummyVar + 3
    BY <1>2, <1>3, UntilPollingIs
<1>9. SweptModules' = SweptModules /\ numberOfModules' = numberOfModules
    BY DEF SweptModules, modbusVars
<1>10. CASE BurstEnd >= numberOfModules - 1
    <2>1. SweptModules = BurstEnd
        BY <1>3, <1>5, <1>10 DEF SweptModules, Largest
    <2>2. bmsState' = "SEND_BALANCE_CURRENT_COUNT_REQUEST"
        BY <1>6, <1>10
    <2>3. UntilPolling' = Len(requestQueue') + 3
        BY <2>2 DEF UntilPolling, ModbusState
    <2>4. cpt' <= cpt + 1 /\ cpt' \in Nat
        BY <1>1, SecondLemma
    <2>5. cpt' + Len(requestQueue') <= SweptModules' + 1
        BY <1>3, <1>5, <1>7, <1>9, <2>1, <2>4
    <2>6. SweepPace'
        BY <2>2, <2>5 DEF SweepPace
    <2> QED
        BY <1>3, <1>5, <1>7, <1>8, <2>1, <2>3, <2>6
<1>11. CASE ~(BurstEnd >= numberOfModules - 1)
    <2>1. bmsState' = "SEND_SETTINGS_REQUEST"
        BY <1>2, <1>6, <1>11
    <2>2. UntilPolling' = Len(requestQueue') + SweptModules' - dummyVar' + 3
        BY <2>1 DEF UntilPolling, ModbusState
    <2>3. SweepPace'
        BY <2>1 DEF SweepPace
    <2> QED
        BY <1>3, <1>5, <1>6, <1>7, <1>8, <1>9, <2>2, <2>3
<1> QED
    BY <1>10, <1>11

\* The three statistics take a second each.
LEMMA StatisticsCount ==
    ASSUME InductiveInv, SweepPace, Fits, cpt' = Second, UNCHANGED modbusVars,
           SendBalanceCurrentCount \/ SendPacketReceived \/ SendBadPacketCounter
    PROVE  UntilPolling >= 1 /\ UntilPolling' = UntilPolling - 1 /\ SweepPace'
<1>1. TypeOK /\ numberOfModules <= MaxModules
    BY DEF InductiveInv, Fits
<1>2. cpt' <= cpt + 1 /\ cpt' \in Nat /\ cpt \in Nat /\ SweptModules \in Nat
    <2>1. cpt' <= cpt + 1 /\ cpt' \in Nat
        BY <1>1, SecondLemma
    <2> QED
        BY <1>1, <2>1, ScheduleFacts
<1>3. SweptModules' = SweptModules
    BY DEF SweptModules, modbusVars
<1>4. CASE SendBalanceCurrentCount
    <2>1. /\ bmsState = "SEND_BALANCE_CURRENT_COUNT_REQUEST" /\ Len(requestQueue) = 0
          /\ bmsState' = "SEND_PACKET_RECEIVED_REQUEST"
        BY <1>1, <1>4, CurrentLemma DEF SendBalanceCurrentCount, Ready
    <2>2. UntilPolling = 3 /\ UntilPolling' = 2
        BY <2>1 DEF UntilPolling, ModbusState
    <2>3. cpt <= SweptModules + 1
        BY <1>1, <1>2, <2>1 DEF SweepPace
    <2>4. cpt' <= SweptModules' + 2
        BY <1>2, <1>3, <2>3
    <2> QED
        BY <2>1, <2>2, <2>4 DEF SweepPace
<1>5. CASE SendPacketReceived
    <2>1. /\ bmsState = "SEND_PACKET_RECEIVED_REQUEST"
          /\ bmsState' = "SEND_BAD_PACKET_COUNTER"
        BY <1>1, <1>5, CurrentLemma DEF SendPacketReceived, Ready
    <2>2. UntilPolling = 2 /\ UntilPolling' = 1
        BY <2>1 DEF UntilPolling, ModbusState
    <2>3. cpt <= SweptModules + 2
        BY <1>1, <2>1 DEF SweepPace
    <2>4. cpt' <= SweptModules' + 3
        BY <1>2, <1>3, <2>3
    <2> QED
        BY <2>1, <2>2, <2>4 DEF SweepPace
<1>6. CASE SendBadPacketCounter
    <2>1. /\ bmsState = "SEND_BAD_PACKET_COUNTER"
          /\ bmsState' = "READ_VOLTAGE_AND_STATUS"
        BY <1>1, <1>6, CurrentLemma DEF SendBadPacketCounter, Ready
    <2>2. UntilPolling = 1 /\ UntilPolling' = 0
        BY <2>1 DEF UntilPolling, ModbusState
    <2> QED
        BY <2>1, <2>2 DEF SweepPace
<1> QED
    BY <1>4, <1>5, <1>6

\* A sweep starts: 30 s are over, or the controller was just switched on.
LEMMA TimingCounts ==
    ASSUME InductiveInv, SweepPace, Fits, cpt' = Second, UNCHANGED modbusVars, SendTiming
    PROVE  SweepPace' /\ UntilPoll' = UntilPoll - 1
<1>1. TypeOK /\ numberOfModules <= MaxModules
    BY DEF InductiveInv, Fits
<1>2. /\ Current = "SEND_TIMING_REQUEST" /\ requestQueue = <<>>
      /\ bmsState' = "SEND_SETTINGS_REQUEST" /\ dummyVar' = 0
    BY DEF SendTiming, Ready
<1>3. Len(requestQueue') = 0
    <2>1. QueueAndTransmit(<<Broadcast("Timing")>>)
        BY DEF SendTiming
    <2> QED
        BY <1>2, <2>1, LeavesAtOnce
<1>4. SweptModules' = SweptModules /\ SweptModules \in Nat /\ SweptModules <= 15
    BY <1>1, ScheduleFacts DEF SweptModules, modbusVars, Fits
<1>5. UntilPolling' = SweptModules + 3
    <2>1. UntilPolling' = Len(requestQueue') + SweptModules' - dummyVar' + 3
        BY <1>2 DEF UntilPolling, ModbusState
    <2> QED
        BY <1>2, <1>3, <1>4, <2>1
<1>6. SweepPace'
    BY <1>2 DEF SweepPace
<1>7. CASE bmsState = "SEND_TIMING_REQUEST"
    <2>1. UntilPolling = SweptModules + 4
        BY <1>7, UntilPollingIs
    <2>2. UntilPolling >= 1 /\ UntilPolling' = UntilPolling - 1
        BY <1>4, <1>5, <2>1
    <2> QED
        BY <1>6, <2>2, Countdown
<1>8. CASE bmsState # "SEND_TIMING_REQUEST"
    <2>1. Second = 0 /\ bmsState \notin ModbusState /\ cpt = 29
        BY <1>1, <1>2, <1>8, CurrentLemma, SecondLemma
    <2>2. bmsState = "READ_VOLTAGE_AND_STATUS"
        <3>1. bmsState \notin SweepState
            <4>1. ~(bmsState \in SweepState /\ 29 + UntilPolling <= SweptModules + 4)
                BY <1>1, <1>4, PollingComes
            <4> QED
                BY <1>1, <2>1, <4>1, PollingComes
        <3> QED
            BY <1>1, <2>1, <3>1, ScheduleFacts DEF State
    <2>3. UntilPolling = 0
        BY <2>2, UntilPollingIs
    <2>4. UntilPoll = 1 + AfterSweep
        <3>1. AfterSweep \in Nat
            BY <1>4, NextThirdIs DEF AfterSweep
        <3>2. cpt + UntilPolling = 29 /\ cpt = 29
            BY <2>1, <2>3
        <3>3. NextPoll(29) = 30 + AfterSweep
            BY DEF NextPoll
        <3> QED
            BY <3>1, <3>2, <3>3 DEF UntilPoll
    <2>5. UntilPoll' = AfterSweep
        <3>1. cpt' = 0 /\ cpt' + UntilPolling' = SweptModules + 3
            BY <1>4, <1>5, <2>1
        <3>2. AfterSweep \in Nat
            BY <1>4, NextThirdIs DEF AfterSweep
        <3>3. UntilPoll' = NextPoll(cpt + UntilPolling)' - cpt'
            BY DEF UntilPoll
        <3>4. NextPoll(cpt + UntilPolling)' = NextThird(SweptModules + 3)
            BY <1>4, <3>1 DEF NextPoll, NextThird
        <3> QED
            BY <3>1, <3>2, <3>3, <3>4 DEF AfterSweep
    <2>6. AfterSweep \in Nat
        BY <1>4, NextThirdIs DEF AfterSweep
    <2> QED
        BY <1>6, <2>4, <2>5, <2>6
<1> QED
    BY <1>7, <1>8

\* Every tick either is the poll, in the second it was due, or brings it one second
\* closer; and it keeps the pace of the sweep.
LEMMA TickCountsDown ==
    ASSUME InductiveInv, SweepPace, Fits, Tick
    PROVE  /\ SweepPace'
           /\ ~Poll => UntilPoll' = UntilPoll - 1
<1>1. cpt' = Second /\ UNCHANGED modbusVars /\ TypeOK /\ numberOfModules <= MaxModules
    BY DEF Tick, InductiveInv, Fits
<1>2. CASE Wait
    BY <1>1, <1>2, WaitCounts, Countdown
<1>3. CASE SendTiming
    BY <1>1, <1>3, TimingCounts
<1>4. CASE SendSettings
    BY <1>1, <1>4, SettingsCount, Countdown
<1>5. CASE SendBalanceCurrentCount \/ SendPacketReceived \/ SendBadPacketCounter
    BY <1>1, <1>5, StatisticsCount, Countdown
<1>6. CASE Poll
    <2>1. bmsState' = "READ_VOLTAGE_AND_STATUS" /\ ~(Second % 3 # 0) /\ cpt' % 3 = 0
        BY <1>1, <1>6, CurrentLemma DEF Poll
    <2> QED
        BY <1>6, <2>1 DEF SweepPace
<1>7. CASE BetweenPolls
    <2>1. /\ bmsState = "READ_VOLTAGE_AND_STATUS" /\ bmsState' = bmsState
          /\ cpt \in 0 .. 29 /\ cpt % 3 # 2 /\ cpt # 29
        BY <1>1, <1>7, CurrentLemma, SecondLemma DEF BetweenPolls
    <2>2. cpt' = cpt + 1 /\ cpt \in Nat
        BY <1>1, <2>1, SecondLemma
    <2>3. UntilPolling = 0 /\ UntilPolling' = 0
        BY <2>1 DEF UntilPolling, ModbusState
    <2>4. AfterSweep' = AfterSweep /\ AfterSweep \in Nat
        <3>1. SweptModules' = SweptModules /\ SweptModules + 3 \in Nat
            BY <1>1, ScheduleFacts DEF SweptModules, modbusVars
        <3> QED
            BY <3>1, NextThirdIs DEF AfterSweep, NextThird
    <2>5. UntilPoll = NextPoll(cpt) - cpt
        BY <2>2, <2>3 DEF UntilPoll
    <2>6. UntilPoll' = NextPoll(cpt)' - cpt'
        <3>1. cpt' + UntilPolling' = cpt'
            BY <2>2, <2>3
        <3> QED
            BY <3>1 DEF UntilPoll, NextPoll, NextThird
    <2>7. NextPoll(cpt)' = NextPoll(cpt) /\ NextPoll(cpt) \in Nat
        <3>1. NextThird(cpt + 1) = NextThird(cpt) /\ NextThird(cpt) \in Nat
            BY <2>1, <2>2, NextThirdIs
        <3>2. (cpt >= 27 /\ cpt <= 29) <=> (cpt + 1 >= 27 /\ cpt + 1 <= 29)
            <4>1. cpt # 26
                BY <2>1
            <4> QED
                BY <2>1, <4>1
        <3>3. NextPoll(cpt)' = IF cpt + 1 >= 27 /\ cpt + 1 <= 29 THEN 30 + AfterSweep
                               ELSE NextThird(cpt + 1)
            BY <2>2, <2>4 DEF NextPoll, NextThird
        <3> QED
            BY <2>4, <3>1, <3>2, <3>3 DEF NextPoll
    <2>8. SweepPace'
        BY <2>1 DEF SweepPace
    <2> QED
        BY <2>2, <2>5, <2>6, <2>7, <2>8
<1>8. CASE Resume
    <2>1. Current = bmsState /\ bmsState \in ModbusState /\ Len(requestQueue) = 0
        BY <1>1, <1>8, CurrentLemma DEF Resume, ModbusState
    <2>2. bmsState' = "READ_VOLTAGE_AND_STATUS"
        BY <1>8 DEF Resume
    <2>3. UntilPolling = 1 /\ UntilPolling' = 0
        <3>1. UntilPolling = 1
            BY <2>1, UntilPollingIs
        <3>2. UntilPolling' = 0
            BY <2>2 DEF UntilPolling, ModbusState
        <3> QED
            BY <3>1, <3>2
    <2>4. SweepPace'
        BY <2>2 DEF SweepPace
    <2> QED
        BY <1>1, <2>3, <2>4, Countdown
<1> QED
    BY <1>2, <1>3, <1>4, <1>5, <1>6, <1>7, <1>8 DEF Tick

\* So every sweep keeps its pace.
LEMMA PaceKept == Spec => []SweepPace
<1>1. Init => SweepPace
    BY DEF Init, SweepPace
<1>2. InductiveInv /\ SweepPace /\ [Next]_vars => SweepPace'
    <2> SUFFICES ASSUME InductiveInv, SweepPace, [Next]_vars, Fits'
                 PROVE  SweepPace'
        BY DEF SweepPace
    <2>1. CASE Tick
        <3>1. Fits
            BY <2>1 DEF Tick, modbusVars, Fits
        <3> QED
            BY <2>1, <3>1, TickCountsDown
    <2>2. CASE Modbus
        <3>1. bmsState' \in ModbusState
            BY <2>2 DEF Modbus, SendIdentify, SendGlobalConfig, ModbusState
        <3> QED
            BY <3>1 DEF SweepPace, ModbusState
    <2>3. CASE Restart
        BY <2>3 DEF Restart, SweepPace
    <2>4. CASE UNCHANGED vars \/ \E modules \in BypassSets : VoltageReply(modules)
        BY <2>4 DEF vars, VoltageReply, SweepPace, Fits, SweptModules
    <2> QED
        BY <2>1, <2>2, <2>3, <2>4 DEF Next
<1> QED
    BY <1>1, <1>2, InitEstablishesInv, NextPreservesInv, PTL DEF Spec

============================================================================
