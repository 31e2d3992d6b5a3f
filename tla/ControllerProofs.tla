-------------------------- MODULE ControllerProofs --------------------------
(***************************************************************************)
(* Proofs about the composition: in the controller, for any layouts,       *)
(* voltages and settings, the scheduler and the rules each behave as they  *)
(* are specified alone, so that what is proved of each holds of the whole: *)
(* readings catch up with the modules within PollLatency and the replies'  *)
(* delay, and the rules protect what the readings show.                    *)
(***************************************************************************)
EXTENDS Controller, TLAPS

(***************************************************************************)
(* The scheduler.                                                          *)
(***************************************************************************)

\* Every step of the controller is one of the scheduler, or leaves it alone.
LEMMA SchedulerStep == [Next]_vars => [B!Next]_B!vars
<1> SUFFICES ASSUME [Next]_vars PROVE B!Next \/ UNCHANGED B!vars
    OBVIOUS
<1>1. CASE Tick
    BY <1>1 DEF Tick, B!Next
<1>2. CASE Reply
    <2>1. PICK modules \in SUBSET Module : B!VoltageReply(modules)
        BY <1>2 DEF Reply
    <2> QED
        BY <2>1 DEF B!Next
<1>3. CASE Judge
    BY <1>3 DEF Judge, R!RulesRun, R!inputs, schedule, B!vars
<1>4. CASE ConfigureRules
    BY <1>4 DEF ConfigureRules, R!SetRule, R!SetRelayState, R!SetRelayDefaultState,
                schedule, B!vars
<1>5. CASE Answer \/ Lose \/ \E voltages \in Voltages : Measure(voltages)
    BY <1>5 DEF Answer, Lose, Measure, schedule, inputs, B!vars
<1>6. CASE \E id \in IdentifyIds : Identify(id)
    BY <1>6 DEF Identify, B!Next, B!Modbus
<1>7. CASE \E newLayout \in Layouts : Configure(newLayout)
    <2>1. PICK newLayout \in Layouts : B!SendGlobalConfig(Count(newLayout))
        BY <1>7 DEF Configure
    <2>2. Count(newLayout) \in {Count(size) : size \in Layouts}
        OBVIOUS
    <2> QED
        BY <2>1, <2>2 DEF B!Next, B!Modbus
<1>8. CASE Restart
    BY <1>8 DEF Restart, B!Next
<1>9. CASE UNCHANGED vars
    BY <1>9 DEF vars, schedule, inputs, B!vars
<1> QED
    BY <1>1, <1>2, <1>3, <1>4, <1>5, <1>6, <1>7, <1>8, <1>9 DEF Next, Disturbance

\* In the controller the scheduler is as BmsTask specifies it: every change of the
\* layout goes through BMS_SendGlobalConfig, and nothing else touches its variables.
THEOREM SchedulerIsAsSpecified == Spec => SchedulerAsSpecified
<1>1. Init => B!Init
    BY DEF Init
<1> QED
    BY <1>1, SchedulerStep, PTL DEF Spec, SchedulerAsSpecified, B!Spec

(***************************************************************************)
(* The rules.  They need to know where replies come from: a reply answers  *)
(* a poll, a poll asked all modules of some layout, and was queued for it. *)
(***************************************************************************)

Askable ==
    {packet \in [command : B!Command, start_address : Int, end_address : Int] :
        packet.command = "ReadVoltageAndStatus" => packet.end_address \in R!LastAsked}

PollUnderWay ==
    [last : R!LastAsked, answer : {<<>>} \cup {<<voltages>> : voltages \in Voltages}, age : Nat]

AskedOfLayouts ==
    /\ layout \in Layouts
    /\ actual \in Voltages
    /\ settled \in BOOLEAN
    /\ dummyVar \in Int
    /\ requestQueue \in Seq(Askable)
    /\ polled = <<>> \/ \E poll \in PollUnderWay : polled = <<poll>>

\* Nothing is queued and no poll is under way at power-up.
LEMMA InitEstablishesInv == Init => AskedOfLayouts
<1> SUFFICES ASSUME Init PROVE AskedOfLayouts
    OBVIOUS
<1>1. layout \in Layouts /\ settled \in BOOLEAN
    BY DEF Init, R!Init
<1>2. requestQueue \in Seq(Askable) /\ dummyVar = 0
    <2>1. requestQueue = <<>> /\ dummyVar = 0
        BY DEF Init, B!Init
    <2> QED
        BY <2>1
<1>3. actual \in Voltages /\ polled = <<>>
    BY DEF Init
<1> QED
    BY <1>1, <1>2, <1>3 DEF AskedOfLayouts

\* A prefix of a sequence over S is one over S.
LEMMA SubSeqTyped ==
    ASSUME NEW S, NEW seq \in Seq(S), NEW n \in Nat, n <= Len(seq)
    PROVE  SubSeq(seq, 1, n) \in Seq(S)
OBVIOUS

\* What is left queued, and what is transmitted, was queued before or just now.
LEMMA QueuedFrom ==
    ASSUME NEW S, NEW packets \in Seq(S), requestQueue \in Seq(S), QueueCapacity \in Nat,
           B!QueueAndTransmit(packets)
    PROVE  requestQueue' \in Seq(S) /\ sent' \in Seq(S) /\ Len(sent') <= 1
<1> DEFINE both == requestQueue \o packets
           queue == B!PushAll(requestQueue, packets)
<1>1. both \in Seq(S) /\ Len(both) = Len(requestQueue) + Len(packets)
    OBVIOUS
<1>2. queue \in Seq(S)
    <2>1. CASE Len(requestQueue) + Len(packets) <= QueueCapacity
        BY <1>1, <2>1 DEF B!PushAll
    <2>2. CASE ~(Len(requestQueue) + Len(packets) <= QueueCapacity)
        <3>1. QueueCapacity <= Len(both)
            BY <1>1, <2>2
        <3> HIDE DEF both
        <3>2. SubSeq(both, 1, QueueCapacity) \in Seq(S)
            BY <1>1, <3>1, SubSeqTyped
        <3> QED
            BY <2>2, <3>2 DEF B!PushAll, both
    <2> QED
        BY <2>1, <2>2
<1>3. /\ requestQueue' = IF queue = <<>> THEN <<>> ELSE Tail(queue)
      /\ sent' = IF queue = <<>> THEN <<>> ELSE <<Head(queue)>>
    BY DEF B!QueueAndTransmit
<1> HIDE DEF queue
<1> QED
    BY <1>2, <1>3

\* A burst of settings requests, taken from any set that has them all.
LEMMA SettingsFrom ==
    ASSUME NEW S, \A m \in Int : B!ModuleRange("ReadSettings", m, m) \in S,
           NEW first \in Int, NEW last \in Int
    PROVE  B!SettingsRequests(first, last) \in Seq(S)
<1> DEFINE n == last + 1 - first
           request(i) == B!ModuleRange("ReadSettings", first + i - 1, first + i - 1)
<1>1. \A i \in Int : request(i) \in S
    OBVIOUS
<1>2. B!SettingsRequests(first, last) = [i \in 1 .. n |-> request(i)]
    BY DEF B!SettingsRequests
<1>3. n \in Int
    OBVIOUS
<1> HIDE DEF n, request
<1>4. CASE n \in Nat
    BY <1>1, <1>2, <1>4
<1>5. CASE n < 0
    <2>1. 1 .. n = 1 .. 0
        BY <1>3, <1>5
    <2>2. [i \in 1 .. 0 |-> request(i)] \in Seq(S)
        BY <1>1
    <2> QED
        BY <1>2, <2>1, <2>2
<1> QED
    BY <1>3, <1>4, <1>5

\* Outside of a poll, a tick queues and transmits nothing but what a sweep asks.
LEMMA TickQueues ==
    ASSUME NEW S, AskedOfLayouts, requestQueue \in Seq(S),
           B!Broadcast("Timing") \in S,
           \A command \in B!SweepCommand : B!AllModules(command) \in S,
           \A m \in Int : B!ModuleRange("ReadSettings", m, m) \in S,
           B!Tick, ~B!Poll
    PROVE  /\ requestQueue' \in Seq(S) /\ sent' \in Seq(S) /\ Len(sent') <= 1
           /\ dummyVar' \in Int
<1> DEFINE Fine == requestQueue' \in Seq(S) /\ sent' \in Seq(S) /\ Len(sent') <= 1
<1>1. QueueCapacity \in Nat /\ MaxModules \in Int /\ dummyVar \in Int /\ Count(layout) \in Int
    BY BoardAssumption DEF AskedOfLayouts, Count
<1>2. ASSUME NEW packets \in Seq(S), B!QueueAndTransmit(packets)
      PROVE  Fine
    BY <1>1, <1>2, QueuedFrom
<1>3. ASSUME B!Transmit
      PROVE  Fine
    <2>1. <<>> \in Seq(S)
        OBVIOUS
    <2> QED
        BY <1>2, <1>3, <2>1 DEF B!Transmit
<1>4. ASSUME NEW packet \in S, B!QueueAndTransmit(<<packet>>)
      PROVE  Fine
    <2>1. <<packet>> \in Seq(S)
        OBVIOUS
    <2> QED
        BY <1>2, <1>4, <2>1
<1> HIDE DEF Fine
<1>5. CASE B!Wait
    BY <1>1, <1>3, <1>5 DEF B!Wait, Fine
<1>6. CASE B!SendTiming
    <2>1. Fine
        BY <1>4, <1>6 DEF B!SendTiming
    <2> QED
        BY <1>6, <2>1 DEF B!SendTiming, Fine
<1>7. CASE B!SendSettings
    <2>1. B!BurstEnd \in Int
        BY <1>1 DEF B!BurstEnd, B!Least, B!LastSettings, B!Largest
    <2>2. CASE dummyVar >= MaxModules
        BY <1>1, <1>3, <1>7, <2>2 DEF B!SendSettings, Fine
    <2>3. CASE ~(dummyVar >= MaxModules)
        <3>1. B!QueueAndTransmit(B!SettingsRequests(dummyVar, B!BurstEnd - 1))
              /\ dummyVar' = B!BurstEnd
            BY <1>7, <2>3 DEF B!SendSettings
        <3>2. B!BurstEnd - 1 \in Int
            BY <2>1
        <3>3. B!SettingsRequests(dummyVar, B!BurstEnd - 1) \in Seq(S)
            BY <1>1, <3>2, SettingsFrom
        <3>4. Fine
            BY <1>2, <3>1, <3>3
        <3> QED
            BY <2>1, <3>1, <3>4 DEF Fine
    <2> QED
        BY <2>2, <2>3
<1>8. CASE B!SendBalanceCurrentCount \/ B!SendPacketReceived \/ B!SendBadPacketCounter
    <2>1. PICK command \in B!SweepCommand : B!QueueAndTransmit(<<B!AllModules(command)>>)
        BY <1>8 DEF B!SendBalanceCurrentCount, B!SendPacketReceived, B!SendBadPacketCounter,
                    B!SweepCommand
    <2>2. Fine
        BY <1>4, <2>1
    <2>3. dummyVar' = dummyVar
        BY <1>8 DEF B!SendBalanceCurrentCount, B!SendPacketReceived, B!SendBadPacketCounter
    <2> QED
        BY <1>1, <2>2, <2>3 DEF Fine
<1>9. CASE B!BetweenPolls
    BY <1>1, <1>3, <1>9 DEF B!BetweenPolls, Fine
<1>10. CASE B!Resume
    BY <1>1, <1>3, <1>10 DEF B!Resume, Fine
<1> QED
    BY <1>5, <1>6, <1>7, <1>8, <1>9, <1>10 DEF B!Tick

\* The queue of the scheduler holds polls of voltages for all modules of a layout.
LEMMA TickIsAskable ==
    ASSUME AskedOfLayouts, B!Tick
    PROVE  /\ requestQueue' \in Seq(Askable) /\ sent' \in Seq(Askable) /\ Len(sent') <= 1
           /\ dummyVar' \in Int
<1>1. QueueCapacity \in Nat /\ MaxModules \in Int /\ dummyVar \in Int
      /\ requestQueue \in Seq(Askable)
    BY BoardAssumption DEF AskedOfLayouts
<1>2. Count(layout) \in Int /\ Count(layout) - 1 \in R!LastAsked
    BY BoardAssumption DEF AskedOfLayouts, R!LastAsked, Count
<1>3. ASSUME NEW command \in B!Command
      PROVE  /\ B!AllModules(command) \in Askable
             /\ command # "ReadVoltageAndStatus" => B!Broadcast(command) \in Askable
             /\ \A m \in Int : command # "ReadVoltageAndStatus" =>
                    B!ModuleRange(command, m, m) \in Askable
    BY <1>1, <1>2 DEF Askable, B!AllModules, B!Broadcast, B!ModuleRange
<1>4. B!PollCommand \cup B!SweepCommand \cup {"Timing"} \subseteq B!Command
    BY DEF B!Command, B!RangeCommand
<1>5. CASE B!Poll
    <2>1. PICK bypass : B!QueueAndTransmit(B!PollRequests(bypass))
        BY <1>5 DEF B!Poll
    <2>2. /\ B!AllModules("ReadVoltageAndStatus") \in Askable
          /\ B!AllModules("ReadTemperature") \in Askable
          /\ B!AllModules("ReadBalancePowerPWM") \in Askable
        BY <1>3, <1>4 DEF B!PollCommand
    <2>3. B!PollRequests(bypass) \in Seq(Askable)
        BY <2>2 DEF B!PollRequests
    <2>4. requestQueue' \in Seq(Askable) /\ sent' \in Seq(Askable) /\ Len(sent') <= 1
        BY <1>1, <2>1, <2>3, QueuedFrom
    <2> QED
        BY <1>1, <1>5, <2>4 DEF B!Poll
<1>6. CASE ~B!Poll
    <2>1. /\ B!Broadcast("Timing") \in Askable
          /\ \A command \in B!SweepCommand : B!AllModules(command) \in Askable
          /\ \A m \in Int : B!ModuleRange("ReadSettings", m, m) \in Askable
        BY <1>3, <1>4 DEF B!SweepCommand
    <2> QED
        BY <1>1, <1>6, <2>1, TickQueues
<1> QED
    BY <1>5, <1>6

\* A tick queues and transmits only what is asked of layouts the controller had.
LEMMA TickKeepsInv ==
    ASSUME AskedOfLayouts, Tick
    PROVE  AskedOfLayouts'
<1>1. /\ requestQueue' \in Seq(Askable) /\ sent' \in Seq(Askable) /\ Len(sent') <= 1
      /\ dummyVar' \in Int
    BY TickIsAskable DEF Tick
<1>2. layout' = layout /\ actual' = actual /\ settled' \in BOOLEAN
    BY DEF Tick, AskedOfLayouts
<1>3. Asked(sent') = <<>> \/ \E poll \in PollUnderWay : Asked(sent') = <<poll>>
    <2>1. CASE \E i \in DOMAIN sent' : sent'[i].command = "ReadVoltageAndStatus"
        <3>1. sent'[1] \in Askable /\ sent'[1].command = "ReadVoltageAndStatus"
            BY <1>1, <2>1
        <3>2. sent'[1].end_address \in R!LastAsked
            BY <3>1 DEF Askable
        <3>3. [last |-> sent'[1].end_address, answer |-> <<>>, age |-> 0] \in PollUnderWay
            BY <3>2 DEF PollUnderWay
        <3> QED
            BY <2>1, <3>3 DEF Asked
    <2>2. CASE ~ \E i \in DOMAIN sent' : sent'[i].command = "ReadVoltageAndStatus"
        BY <2>2 DEF Asked
    <2> QED
        BY <2>1, <2>2
<1>4. polled' = <<>> \/ \E poll \in PollUnderWay : polled' = <<poll>>
    <2>1. CASE polled = <<>>
        BY <1>3, <2>1 DEF Tick
    <2>2. CASE polled # <<>>
        <3>1. PICK poll \in PollUnderWay : polled = <<poll>>
            BY <2>2 DEF AskedOfLayouts
        <3>2. polled' = <<[poll EXCEPT !.age = @ + 1]>>
            BY <2>2, <3>1 DEF Tick
        <3>3. [poll EXCEPT !.age = @ + 1] \in PollUnderWay
            BY DEF PollUnderWay
        <3> QED
            BY <3>2, <3>3
    <2> QED
        BY <2>1, <2>2
<1> QED
    BY <1>1, <1>2, <1>4 DEF AskedOfLayouts, Askable, PollUnderWay

\* So does every other step.
LEMMA NextKeepsInv == AskedOfLayouts /\ [Next]_vars => AskedOfLayouts'
<1> SUFFICES ASSUME AskedOfLayouts, [Next]_vars PROVE AskedOfLayouts'
    OBVIOUS
<1>1. CASE Tick
    BY <1>1, TickKeepsInv
<1>2. CASE Reply
    BY <1>2 DEF Reply, R!VoltageReply, B!VoltageReply, AskedOfLayouts
<1>3. CASE Judge
    BY <1>3 DEF Judge, R!RulesRun, R!inputs, schedule, watched, AskedOfLayouts
<1>4. CASE ConfigureRules
    BY <1>4 DEF ConfigureRules, R!SetRule, R!SetRelayState, R!SetRelayDefaultState,
                schedule, watched, AskedOfLayouts
<1>5. CASE Answer
    <2>1. PICK poll \in PollUnderWay : polled = <<poll>>
        BY <1>5 DEF Answer, AskedOfLayouts
    <2>2. polled' = <<[poll EXCEPT !.answer = <<actual>>]>>
        BY <1>5, <2>1 DEF Answer
    <2>3. [poll EXCEPT !.answer = <<actual>>] \in PollUnderWay
        BY DEF PollUnderWay, AskedOfLayouts
    <2> QED
        BY <1>5, <2>2, <2>3 DEF Answer, schedule, inputs, AskedOfLayouts
<1>6. CASE Lose \/ \E voltages \in Voltages : Measure(voltages)
    BY <1>6 DEF Lose, Measure, schedule, inputs, AskedOfLayouts
<1>7. CASE \E id \in IdentifyIds : Identify(id)
    <2>1. PICK id \in IdentifyIds : Identify(id)
        BY <1>7
    <2>2. requestQueue' = <<B!ModuleRange("Identify", id, id)>> /\ dummyVar' = dummyVar
        BY <2>1 DEF Identify, B!SendIdentify
    <2>3. B!ModuleRange("Identify", id, id) \in Askable
        BY BoardAssumption DEF Askable, B!ModuleRange, B!Command
    <2>4. requestQueue' \in Seq(Askable)
        BY <2>2, <2>3
    <2>5. layout' = layout /\ actual' = actual /\ settled' = settled /\ polled' = polled
        BY <2>1 DEF Identify, inputs, watched
    <2> QED
        BY <2>2, <2>4, <2>5 DEF AskedOfLayouts
<1>8. CASE \E newLayout \in Layouts : Configure(newLayout)
    <2>1. PICK newLayout \in Layouts : Configure(newLayout)
        BY <1>8
    <2>2. requestQueue' = <<B!Broadcast("WriteSettings")>> /\ dummyVar' = dummyVar
        BY <2>1 DEF Configure, B!SendGlobalConfig
    <2>3. B!Broadcast("WriteSettings") \in Askable
        BY BoardAssumption DEF Askable, B!Broadcast, B!ModuleRange, B!Command
    <2>4. requestQueue' \in Seq(Askable)
        BY <2>2, <2>3
    <2>5. layout' = newLayout /\ settled' = FALSE /\ actual' = actual /\ polled' = polled
        BY <2>1 DEF Configure, R!SetLayout, watched
    <2> QED
        BY <2>1, <2>2, <2>4, <2>5 DEF AskedOfLayouts
<1>9. CASE Restart
    <2>1. requestQueue' \in Seq(Askable) /\ dummyVar' = 0
        <3>1. requestQueue' = <<>> /\ dummyVar' = 0
            BY <1>9 DEF Restart, B!Restart
        <3> QED
            BY <3>1
    <2>2. layout' = layout /\ settled' \in BOOLEAN /\ actual' = actual /\ polled' = polled
        BY <1>9 DEF Restart, R!Restart, watched
    <2> QED
        BY <2>1, <2>2 DEF AskedOfLayouts
<1>10. CASE UNCHANGED vars
    BY <1>10 DEF vars, schedule, inputs, watched, AskedOfLayouts
<1> QED
    BY <1>1, <1>2, <1>3, <1>4, <1>5, <1>6, <1>7, <1>8, <1>9, <1>10 DEF Next, Disturbance

\* Every step of the controller is one of the rules task, or leaves it alone.
LEMMA RulesStep == AskedOfLayouts /\ [Next]_vars => [R!Next]_R!vars
<1> SUFFICES ASSUME AskedOfLayouts, [Next]_vars PROVE R!Next \/ UNCHANGED R!vars
    OBVIOUS
<1>1. CASE Tick
    <2>1. /\ UNCHANGED <<cell, layout, rules, relayDefault, outputs>>
          /\ settled' = (settled /\ isStarted' = isStarted)
        BY <1>1 DEF Tick
    <2>2. isStarted' = isStarted \/ isStarted' = TRUE
        BY <1>1 DEF Tick, B!Tick, B!Wait, B!SendTiming, B!SendSettings,
                    B!SendBalanceCurrentCount, B!SendPacketReceived, B!SendBadPacketCounter,
                    B!Poll, B!BetweenPolls, B!Resume
    <2>3. CASE isStarted' = isStarted
        <3>1. settled' = settled
            BY <2>1, <2>3, Zenon DEF AskedOfLayouts
        <3> QED
            BY <2>1, <2>3, <3>1 DEF R!vars, outputs
    <2>4. CASE isStarted' # isStarted
        <3>1. settled' = FALSE
            BY <2>1, <2>4, Zenon DEF AskedOfLayouts
        <3>2. R!Started
            BY <2>1, <2>2, <2>4 DEF R!Started
        <3> QED
            BY <2>1, <3>1, <3>2 DEF R!Next, R!InputChange, R!outputs, outputs
    <2> QED
        BY <2>3, <2>4
<1>2. CASE Reply
    <2>1. PICK poll \in PollUnderWay : polled = <<poll>>
        BY <1>2 DEF Reply, AskedOfLayouts
    <2>2. PICK voltages \in Voltages : poll.answer = <<voltages>>
        BY <1>2, <2>1 DEF Reply, PollUnderWay
    <2>3. R!VoltageReply(voltages, poll.last) /\ poll.last \in R!LastAsked
        BY <1>2, <2>1, <2>2 DEF Reply, PollUnderWay
    <2>4. settled' = FALSE /\ UNCHANGED outputs
        BY <1>2 DEF Reply
    <2> QED
        BY <2>3, <2>4 DEF R!Next, R!InputChange, R!outputs, outputs
<1>3. CASE Judge
    BY <1>3 DEF Judge, R!Next
<1>4. CASE ConfigureRules
    BY <1>4 DEF ConfigureRules, R!Next, R!InputChange, R!outputs, outputs
<1>5. CASE Answer \/ Lose \/ \E voltages \in Voltages : Measure(voltages)
    BY <1>5 DEF Answer, Lose, Measure, inputs, outputs, R!vars
<1>6. CASE \E id \in IdentifyIds : Identify(id)
    BY <1>6 DEF Identify, inputs, outputs, R!vars
<1>7. CASE \E newLayout \in Layouts : Configure(newLayout)
    BY <1>7 DEF Configure, R!Next, R!InputChange, R!outputs, outputs
<1>8. CASE Restart
    BY <1>8 DEF Restart, R!Next
<1>9. CASE UNCHANGED vars
    BY <1>9 DEF vars, inputs, outputs, R!vars
<1> QED
    BY <1>1, <1>2, <1>3, <1>4, <1>5, <1>6, <1>7, <1>8, <1>9 DEF Next, Disturbance

\* In the controller the rules are as RulesTask specifies them: replies are for modules
\* some layout has, however the layout changed meanwhile, and a power-up restarts the
\* rules and the scheduler together.
THEOREM RulesAreAsSpecified == Spec => RulesAsSpecified
<1>1. Init => R!Init
    BY DEF Init
<1> QED
    BY <1>1, InitEstablishesInv, NextKeepsInv, RulesStep, PTL DEF Spec, RulesAsSpecified, R!Spec

(***************************************************************************)
(* The two parts, with their proofs.  BP and RM hold the theorems on the   *)
(* scheduler and on the rules, about the variables of the controller; the  *)
(* specifications they speak of are those of B and R.                      *)
(***************************************************************************)

BP == INSTANCE BmsTaskProofs WITH
          numberOfModules <- Count(layout),
          Sizes <- {Count(size) : size \in Layouts},
          BypassSets <- SUBSET Module

RM == INSTANCE RulesMeasuresProofs WITH
          VoltageReplies <- Voltages,
          TemperatureReplies <- {}

\* BP speaks of the same ticks of the scheduler as B, and of the same polls.
LEMMA SameTick == (B!Tick => BP!Tick) /\ (B!Poll <=> BP!Poll)
<1>1. /\ B!Current = BP!Current /\ B!Second = BP!Second
      /\ B!ModbusState = BP!ModbusState
      /\ \A state : B!Ready(state) <=> BP!Ready(state)
    BY DEF B!Current, BP!Current, B!Second, BP!Second, B!Period, BP!Period,
           B!ModbusState, BP!ModbusState, B!Ready, BP!Ready
<1>2. /\ \A command : /\ B!AllModules(command) = BP!AllModules(command)
                      /\ B!Broadcast(command) = BP!Broadcast(command)
      /\ \A first, last : B!SettingsRequests(first, last) = BP!SettingsRequests(first, last)
      /\ B!BurstEnd = BP!BurstEnd
    BY DEF B!AllModules, BP!AllModules, B!Broadcast, BP!Broadcast,
           B!ModuleRange, BP!ModuleRange, B!SettingsRequests, BP!SettingsRequests,
           B!BurstEnd, BP!BurstEnd, B!LastSettings, BP!LastSettings,
           B!Least, BP!Least, B!Largest, BP!Largest
<1>3. \A bypass : B!PollRequests(bypass) = BP!PollRequests(bypass)
    BY <1>2 DEF B!PollRequests, BP!PollRequests
<1>4. B!BypassSeen = BP!BypassSeen
    BY DEF B!BypassSeen, BP!BypassSeen
<1>5. ASSUME NEW packets
      PROVE  B!QueueAndTransmit(packets) <=> BP!QueueAndTransmit(packets)
    <2>1. /\ \A queue : B!PushAll(queue, packets) = BP!PushAll(queue, packets)
          /\ \A packet : B!SweptAfter(packet) = BP!SweptAfter(packet)
        BY DEF B!PushAll, BP!PushAll, B!SweptAfter, BP!SweptAfter,
               B!SweepCommand, BP!SweepCommand
    <2> QED
        BY <2>1 DEF B!QueueAndTransmit, BP!QueueAndTransmit
<1>6. B!Transmit => BP!Transmit
    BY <1>5 DEF B!Transmit, BP!Transmit
<1>7. B!Wait => BP!Wait
    BY <1>1, <1>6 DEF B!Wait, BP!Wait
<1>8. B!SendTiming => BP!SendTiming
    BY <1>1, <1>2, <1>5 DEF B!SendTiming, BP!SendTiming
<1>9. B!SendSettings => BP!SendSettings
    BY <1>1, <1>2, <1>5, <1>6 DEF B!SendSettings, BP!SendSettings
<1>10. B!SendBalanceCurrentCount => BP!SendBalanceCurrentCount
    BY <1>1, <1>2, <1>5 DEF B!SendBalanceCurrentCount, BP!SendBalanceCurrentCount
<1>11. B!SendPacketReceived => BP!SendPacketReceived
    BY <1>1, <1>2, <1>5 DEF B!SendPacketReceived, BP!SendPacketReceived
<1>12. B!SendBadPacketCounter => BP!SendBadPacketCounter
    BY <1>1, <1>2, <1>5 DEF B!SendBadPacketCounter, BP!SendBadPacketCounter
<1>13. B!Poll <=> BP!Poll
    BY <1>1, <1>3, <1>4, <1>5 DEF B!Poll, BP!Poll
<1>14. B!BetweenPolls => BP!BetweenPolls
    BY <1>1, <1>6 DEF B!BetweenPolls, BP!BetweenPolls
<1>15. B!Resume => BP!Resume
    BY <1>1, <1>6 DEF B!Resume, BP!Resume
<1> QED
    BY <1>1, <1>7, <1>8, <1>9, <1>10, <1>11, <1>12, <1>13, <1>14, <1>15
    DEF B!Tick, BP!Tick, B!modbusVars, BP!modbusVars

\* So the controller's scheduler is the one the proofs of BmsTask are about.
LEMMA SameScheduler == B!Spec => BP!Spec
<1>1. B!vars = BP!vars
    BY DEF B!vars, BP!vars
<1>2. B!Init => BP!Init
    BY DEF B!Init, BP!Init
<1>3. B!Modbus => BP!Modbus
    BY DEF B!Modbus, BP!Modbus, B!SendIdentify, BP!SendIdentify, B!SendGlobalConfig,
           BP!SendGlobalConfig, B!Broadcast, BP!Broadcast, B!ModuleRange, BP!ModuleRange
<1>4. B!Restart => BP!Restart
    BY DEF B!Restart, BP!Restart
<1>5. ASSUME NEW modules \in SUBSET Module, B!VoltageReply(modules)
      PROVE  BP!VoltageReply(modules)
    BY <1>5 DEF B!VoltageReply, BP!VoltageReply
<1>6. B!Next => BP!Next
    BY <1>3, <1>4, <1>5, SameTick DEF B!Next, BP!Next
<1>7. UNCHANGED B!vars => UNCHANGED BP!vars
    BY DEF B!vars, BP!vars
<1> QED
    BY <1>2, <1>6, <1>7, PTL DEF B!Spec, BP!Spec

\* RM speaks of the same runs of the rules as R.
LEMMA SameMeasures ==
    /\ R!zeroVoltageModule = RM!zeroVoltageModule
    /\ R!moduleHasExternalTempSensor = RM!moduleHasExternalTempSensor
    /\ \A rule \in R!Rule : R!Measured(rule) = RM!Measured(rule)
<1>1. /\ R!ValidModules = RM!ValidModules /\ R!LastModule = RM!LastModule
      /\ R!NoSensor = RM!NoSensor
    BY DEF R!ValidModules, RM!ValidModules, R!LastModule, RM!LastModule,
           R!NoSensor, RM!NoSensor
<1>2. /\ R!voltages = RM!voltages /\ R!internalTemps = RM!internalTemps
      /\ R!externalTemps = RM!externalTemps
    BY <1>1 DEF R!voltages, RM!voltages, R!internalTemps, RM!internalTemps,
                R!externalTemps, RM!externalTemps
<1>3. R!packvoltages = RM!packvoltages
    <2>1. \A bank : R!packvoltage(bank) = RM!packvoltage(bank)
        BY DEF R!packvoltage, RM!packvoltage, R!MapThenSumSet, RM!MapThenSumSet,
               R!MapThenFoldSet, RM!MapThenFoldSet, R!ValidModules, RM!ValidModules,
               R!LastModule, RM!LastModule
    <2> QED
        BY <2>1 DEF R!packvoltages, RM!packvoltages
<1>4. R!lowestInternalTempUpTo = RM!lowestInternalTempUpTo
    BY <1>1 DEF R!lowestInternalTempUpTo, RM!lowestInternalTempUpTo
<1>5. \A S, bound : /\ R!Highest(S, bound) = RM!Highest(S, bound)
                    /\ R!Lowest(S, bound) = RM!Lowest(S, bound)
                    /\ R!Min(S) = RM!Min(S)
    BY DEF R!Highest, RM!Highest, R!Lowest, RM!Lowest, R!Max, RM!Max, R!Min, RM!Min
<1>6. \A t : R!uint8(t) = RM!uint8(t)
    BY DEF R!uint8, RM!uint8
<1>7. ASSUME NEW rule \in R!Rule
      PROVE  R!Measured(rule) = RM!Measured(rule)
    <2> USE DEF R!ModuleOverVoltage, R!ModuleUnderVoltage,
                R!ModuleOverTemperatureInternal, R!ModuleUnderTemperatureInternal,
                R!ModuleOverTemperatureExternal, R!ModuleUnderTemperatureExternal,
                R!BankOverVoltage, R!BankUnderVoltage,
                RM!ModuleOverVoltage, RM!ModuleUnderVoltage,
                RM!ModuleOverTemperatureInternal, RM!ModuleUnderTemperatureInternal,
                RM!ModuleOverTemperatureExternal, RM!ModuleUnderTemperatureExternal,
                RM!BankOverVoltage, RM!BankUnderVoltage
    <2>1. CASE rule = 0
        BY <1>2, <1>5, <2>1 DEF R!Measured, RM!Measured
    <2>2. CASE rule = 1
        BY <1>2, <1>5, <2>2 DEF R!Measured, RM!Measured
    <2>3. CASE rule = 2
        BY <1>2, <1>5, <1>6, <2>3 DEF R!Measured, RM!Measured
    <2>4. CASE rule = 3
        BY <1>1, <1>4, <1>6, <2>4 DEF R!Measured, RM!Measured
    <2>5. CASE rule = 4
        BY <1>2, <1>5, <1>6, <2>5 DEF R!Measured, RM!Measured
    <2>6. CASE rule = 5
        BY <1>2, <1>5, <1>6, <2>6 DEF R!Measured, RM!Measured
    <2>7. CASE rule = 6
        BY <1>3, <1>5, <2>7 DEF R!Measured, RM!Measured
    <2>8. CASE rule = 7
        BY <1>3, <1>5, <2>8 DEF R!Measured, RM!Measured
    <2> QED
        BY <2>1, <2>2, <2>3, <2>4, <2>5, <2>6, <2>7, <2>8 DEF R!Rule
<1>8. /\ R!zeroVoltageModule = RM!zeroVoltageModule
      /\ R!moduleHasExternalTempSensor = RM!moduleHasExternalTempSensor
    BY <1>2 DEF R!zeroVoltageModule, RM!zeroVoltageModule,
                R!moduleHasExternalTempSensor, RM!moduleHasExternalTempSensor
<1> QED
    BY <1>7, <1>8

\* A run of the rules is the same step in both instances.
LEMMA SameRun == R!RulesRun => RM!RulesRun
<1> SUFFICES ASSUME R!RulesRun PROVE RM!RulesRun
    OBVIOUS
<1>1. /\ R!Rule = RM!Rule /\ R!ModuleRule = RM!ModuleRule /\ R!ExternalRule = RM!ExternalRule
      /\ R!OverRule = RM!OverRule
    BY DEF R!Rule, RM!Rule, R!ModuleRule, RM!ModuleRule, R!ExternalRule, RM!ExternalRule,
           R!OverRule, RM!OverRule, R!ModuleOverVoltage, RM!ModuleOverVoltage,
           R!ModuleOverTemperatureInternal, RM!ModuleOverTemperatureInternal,
           R!ModuleOverTemperatureExternal, RM!ModuleOverTemperatureExternal,
           R!ModuleUnderTemperatureExternal, RM!ModuleUnderTemperatureExternal,
           R!BankOverVoltage, RM!BankOverVoltage
<1>2. \A rule \in R!Rule : R!Trips(rule) = RM!Trips(rule) /\ R!Resets(rule) = RM!Resets(rule)
    BY <1>1, SameMeasures DEF R!Trips, RM!Trips, R!Resets, RM!Resets
<1>3. \A rule \in R!Rule : R!OutcomeAfter(rule) = RM!OutcomeAfter(rule)
    BY <1>1, <1>2, SameMeasures DEF R!OutcomeAfter, RM!OutcomeAfter
<1>4. /\ \A outcome, n, relay : R!Overwrite(outcome, n, relay) = RM!Overwrite(outcome, n, relay)
      /\ R!DefaultRelays = RM!DefaultRelays
    BY DEF R!Overwrite, RM!Overwrite, R!DefaultRelays, RM!DefaultRelays
<1>5. \A outcome : R!Relays(outcome) = RM!Relays(outcome)
    BY <1>4 DEF R!Relays, RM!Relays
<1>6. ASSUME NEW relay, R!DriveRelays(relay)
      PROVE  RM!DriveRelays(relay)
    BY <1>6 DEF R!DriveRelays, RM!DriveRelays
<1>7. /\ ruleOutcome' = [rule \in RM!Rule |-> RM!OutcomeAfter(rule)]
      /\ R!DriveRelays(R!Relays(ruleOutcome')) /\ settled' = TRUE /\ UNCHANGED RM!inputs
    BY <1>1, <1>3 DEF R!RulesRun, R!inputs, RM!inputs
<1>8. RM!DriveRelays(RM!Relays(ruleOutcome'))
    BY <1>5, <1>6, <1>7
<1> QED
    BY <1>7, <1>8 DEF RM!RulesRun

\* The runs of R!Spec are runs of RM!Spec, so RM's theorems speak of them.
LEMMA SameRules == R!Spec => RM!Spec
<1>1. R!Init => RM!Init
    BY DEF R!Init, RM!Init, R!NoReadings, RM!NoReadings, R!NoDefaults, RM!NoDefaults,
           R!AllReset, RM!AllReset, R!Rule, RM!Rule, R!Module, RM!Module
<1>2. R!InputChange => RM!InputChange
    <2>1. R!LastAsked = RM!LastAsked /\ R!Module = RM!Module
        BY DEF R!LastAsked, RM!LastAsked, R!Module, RM!Module
    <2>2. ASSUME NEW reply, NEW last
          PROVE  /\ R!VoltageReply(reply, last) => RM!VoltageReply(reply, last)
                 /\ R!TemperatureReply(reply, last) => RM!TemperatureReply(reply, last)
        BY <2>1 DEF R!VoltageReply, RM!VoltageReply, R!TemperatureReply, RM!TemperatureReply
    <2> QED
        BY <2>1, <2>2
        DEF R!InputChange, RM!InputChange, R!Started, RM!Started, R!SetLayout, RM!SetLayout,
            R!SetRule, RM!SetRule, R!SetRelayState, RM!SetRelayState,
            R!SetRelayDefaultState, RM!SetRelayDefaultState, R!outputs, RM!outputs
<1>3. R!Restart => RM!Restart
    BY DEF R!Restart, RM!Restart, R!NoReadings, RM!NoReadings, R!NoDefaults, RM!NoDefaults,
           R!AllReset, RM!AllReset, R!Rule, RM!Rule, R!Module, RM!Module
<1>4. R!Next => RM!Next
    BY <1>2, <1>3, SameRun DEF R!Next, RM!Next
<1>5. UNCHANGED R!vars => UNCHANGED RM!vars
    BY DEF R!vars, RM!vars
<1> QED
    BY <1>1, <1>4, <1>5, PTL DEF R!Spec, RM!Spec

(***************************************************************************)
(* The board meets what the parts assume, so the controller inherits what  *)
(* is proved of each.                                                      *)
(***************************************************************************)

\* Every layout counts at least one module and no more than the board holds.
LEMMA CountFits == \A size \in Layouts : Count(size) \in 1 .. MaxModules
<1> TAKE size \in Layouts
<1>1. /\ size.banks \in 1 .. 4 /\ size.series \in 1 .. MaxModules
      /\ Count(size) <= MaxModules /\ MaxModules \in 1 .. 16
    BY BoardAssumption
<1>2. Count(size) \in Int /\ 1 <= Count(size)
    <2>1. CASE size.banks = 1
        BY <1>1, <2>1 DEF Count
    <2>2. CASE size.banks = 2
        BY <1>1, <2>2 DEF Count
    <2>3. CASE size.banks = 3
        BY <1>1, <2>3 DEF Count
    <2>4. CASE size.banks = 4
        BY <1>1, <2>4 DEF Count
    <2> QED
        BY <1>1, <2>1, <2>2, <2>3, <2>4
<1> QED
    BY <1>1, <1>2

\* What BmsTask assumes of its constants.
LEMMA SchedulerFits ==
    /\ MaxModules \in 1 .. 25
    /\ QueueCapacity \in Nat /\ QueueCapacity >= 4
    /\ {Count(size) : size \in Layouts} # {}
    /\ {Count(size) : size \in Layouts} \subseteq 1 .. 255
    /\ IdentifyIds \subseteq 0 .. 255
    /\ {} \in SUBSET Module
    /\ SUBSET Module \subseteq SUBSET (0 .. MaxModules - 1)
<1>1. \A size \in Layouts : Count(size) \in 1 .. 255
    BY CountFits, BoardAssumption
<1> QED
    BY <1>1, BoardAssumption DEF Module

\* What RulesTask assumes of its constants.
LEMMA RulesFit ==
    /\ MaxModules \in 1 .. 16
    /\ Layouts # {}
    /\ \A size \in Layouts : /\ size \in [banks : 1 .. 4, series : 1 .. MaxModules]
                             /\ size.banks * size.series <= MaxModules
    /\ Voltages \subseteq [RM!Module -> RM!Voltage]
    /\ {} \subseteq [RM!Module -> [internal : RM!Temperature, external : RM!Temperature]]
    /\ LoadedRules \in [RM!Rule -> RM!RuleSettings]
    /\ RuleWrites \subseteq [rule : RM!Rule, value : Nat, hysteresis : Nat]
    /\ RelayWrites \subseteq [rule : RM!Rule, relays : [Relay -> RM!RelayState]]
    /\ DefaultWrites \subseteq [Relay -> RM!RelayState]
<1>1. /\ R!Rule = RM!Rule /\ R!RelayState = RM!RelayState
      /\ R!RuleSettings = RM!RuleSettings
    BY DEF R!Rule, RM!Rule, R!RelayState, RM!RelayState, R!RuleSettings, RM!RuleSettings
<1>2. LoadedRules \in [RM!Rule -> RM!RuleSettings]
    BY <1>1, SettingsAssumption
<1>3. /\ RuleWrites \subseteq [rule : RM!Rule, value : Nat, hysteresis : Nat]
      /\ RelayWrites \subseteq [rule : RM!Rule, relays : [Relay -> RM!RelayState]]
      /\ DefaultWrites \subseteq [Relay -> RM!RelayState]
    BY <1>1, SettingsAssumption
<1>4. Voltages \subseteq [RM!Module -> RM!Voltage]
    <2> DEFINE millivolts == 0 .. 8191
    <2>1. Module = RM!Module
        BY DEF Module, RM!Module
    <2>2. Voltages \subseteq [Module -> millivolts]
        BY VoltagesAssumption
    <2>3. RM!Voltage = millivolts
        BY DEF RM!Voltage
    <2> HIDE DEF millivolts
    <2> QED
        BY <2>1, <2>2, <2>3
<1> QED
    BY <1>2, <1>3, <1>4, BoardAssumption DEF Count

\* The invariants of the parts.
Parts ==
    /\ BP!InductiveInv /\ BP!SweepPace
    /\ RM!TypeOK /\ RM!EveryExcessTrips /\ RM!Rested /\ RM!ReadIsValid

\* What the parts' own modules prove holds in the controller.
LEMMA PartsInOrder == Spec => []Parts
<1>1. BP!Spec => []BP!InductiveInv
    BY SchedulerFits, BP!Invariance
<1>2. RM!Spec => []RM!TypeOK
    BY RulesFit, RM!TypeCorrect
<1>3. RM!Spec => []RM!EveryExcessTrips
    BY RulesFit, RM!NoExcessUnnoticed
<1>4. RM!Spec => []RM!Rested
    BY RulesFit, RM!AlwaysRested
<1>5. Spec => BP!Spec
    BY SchedulerIsAsSpecified, SameScheduler, PTL DEF SchedulerAsSpecified
<1>6. Spec => RM!Spec
    BY RulesAreAsSpecified, SameRules, PTL DEF RulesAsSpecified
<1>7. BP!Spec => []BP!SweepPace
    BY SchedulerFits, BP!PaceKept
<1>8. RM!Spec => []RM!ReadIsValid
    BY RulesFit, RM!AlwaysValid
<1> QED
    BY <1>1, <1>2, <1>3, <1>4, <1>5, <1>6, <1>7, <1>8, PTL DEF Parts

(***************************************************************************)
(* The poll of voltages under way.  It was asked in a second that is a     *)
(* multiple of three, so it is over, one way or another, before the next:  *)
(* no poll is asked while another is under way.                            *)
(***************************************************************************)

\* What may be queued between two ticks: a poll of voltages never is, it leaves at once.
Unhurried == {packet \in Askable : packet.command # "ReadVoltageAndStatus"}

PollTyped ==
    /\ actual \in Voltages
    /\ polled \in {<<>>} \cup {<<poll>> : poll \in PollType}
    /\ polled # <<>> => cpt % 3 <= Head(polled).age
    /\ \A i \in DOMAIN requestQueue : requestQueue[i].command # "ReadVoltageAndStatus"
    /\ quiet \in 0 .. MaxLatency + 1

\* The second of the scheduler, and what a tick does to a poll.
LEMMA TickParts ==
    ASSUME Parts, Tick
    PROVE  /\ BP!Tick /\ BP!InductiveInv /\ BP!SweepPace /\ BP!Fits
           /\ cpt' = BP!Second /\ BP!TypeOK /\ layout \in Layouts
           /\ UNCHANGED <<cell, layout, rules, actual>>
<1>1. layout \in Layouts
    BY DEF Parts, RM!TypeOK
<1>2. BP!Tick
    BY SameTick DEF Tick
<1>3. Count(layout) \in 1 .. MaxModules /\ MaxModules \in 1 .. 16
    BY <1>1, CountFits, BoardAssumption
<1>4. BP!Fits
    BY <1>3 DEF BP!Fits
<1> QED
    BY <1>1, <1>2, <1>4 DEF Parts, Tick, BP!Tick, BP!InductiveInv

\* A tick that is no poll neither queues a poll nor transmits one.
LEMMA NoPollAsked ==
    ASSUME AskedOfLayouts, B!Tick, ~B!Poll,
           \A i \in DOMAIN requestQueue : requestQueue[i].command # "ReadVoltageAndStatus"
    PROVE  /\ Asked(sent') = <<>>
           /\ \A i \in DOMAIN requestQueue' :
                  requestQueue'[i].command # "ReadVoltageAndStatus"
<1>1. requestQueue \in Seq(Unhurried)
    <2>1. requestQueue \in Seq(Askable)
        BY DEF AskedOfLayouts
    <2>2. \A i \in 1 .. Len(requestQueue) : requestQueue[i] \in Unhurried
        BY <2>1 DEF Unhurried
    <2> QED
        BY <2>1, <2>2
<1>2. /\ B!Broadcast("Timing") \in Unhurried
      /\ \A command \in B!SweepCommand : B!AllModules(command) \in Unhurried
      /\ \A m \in Int : B!ModuleRange("ReadSettings", m, m) \in Unhurried
    <2>1. MaxModules \in Int /\ Count(layout) \in Int
        BY BoardAssumption DEF AskedOfLayouts, Count
    <2> QED
        BY <2>1 DEF Unhurried, Askable, B!AllModules, B!Broadcast, B!ModuleRange,
                    B!Command, B!RangeCommand, B!SweepCommand
<1>3. requestQueue' \in Seq(Unhurried) /\ sent' \in Seq(Unhurried) /\ Len(sent') <= 1
    BY <1>1, <1>2, TickQueues
<1>4. \A i \in DOMAIN sent' : sent'[i].command # "ReadVoltageAndStatus"
    BY <1>3 DEF Unhurried
<1>5. \A i \in DOMAIN requestQueue' : requestQueue'[i].command # "ReadVoltageAndStatus"
    BY <1>3 DEF Unhurried
<1> QED
    BY <1>4, <1>5 DEF Asked

\* A poll asks all modules of the layout, and finds no other under way.
LEMMA PollTick ==
    ASSUME Parts, AskedOfLayouts, PollTyped, Tick
    PROVE  /\ \A i \in DOMAIN requestQueue' :
                  requestQueue'[i].command # "ReadVoltageAndStatus"
           /\ BP!Poll =>
                  /\ polled = <<>> /\ cpt' % 3 = 0
                  /\ polled' = <<[last |-> Count(layout) - 1, answer |-> <<>>, age |-> 0]>>
           /\ ~BP!Poll /\ polled = <<>> => polled' = <<>>
           /\ polled # <<>> =>
                  /\ Head(polled).age < MaxLag /\ cpt' % 3 <= Head(polled).age + 1
                  /\ polled' = <<[Head(polled) EXCEPT !.age = @ + 1]>>
<1>1. BP!InductiveInv /\ BP!TypeOK /\ cpt' = BP!Second
    BY TickParts
<1>2. polled # <<>> =>
          /\ Head(polled).age \in Nat /\ Head(polled).age < MaxLag /\ MaxLag <= 2
          /\ cpt % 3 <= Head(polled).age
    <2> SUFFICES ASSUME polled # <<>>
                 PROVE  /\ Head(polled).age \in Nat /\ Head(polled).age < MaxLag
                        /\ MaxLag <= 2 /\ cpt % 3 <= Head(polled).age
        OBVIOUS
    <2>1. PICK poll \in PollType : polled = <<poll>>
        BY DEF PollTyped
    <2>2. poll.age \in 0 .. MaxLag /\ Head(polled) = poll
        BY <2>1 DEF PollType
    <2>3. MaxLag \in Nat /\ MaxLag <= 2
        BY LagAssumption
    <2>4. Head(polled).age < MaxLag /\ cpt % 3 <= Head(polled).age
        BY DEF Tick, PollTyped
    <2> QED
        BY <2>2, <2>3, <2>4
<1>3. cpt' % 3 = (IF cpt % 3 = 2 THEN 0 ELSE (cpt % 3) + 1) /\ cpt % 3 \in 0 .. 2
    BY <1>1, SchedulerFits, BP!SecondLemma
<1>4. polled # <<>> => cpt % 3 # 2 /\ cpt' % 3 <= Head(polled).age + 1
    <2> DEFINE phase == cpt % 3
               next == cpt' % 3
               age == Head(polled).age
    <2>1. next = (IF phase = 2 THEN 0 ELSE phase + 1) /\ phase \in Int
        BY <1>3
    <2>2. polled # <<>> => /\ age \in Nat /\ MaxLag \in Nat
                           /\ age < MaxLag /\ MaxLag <= 2 /\ phase <= age
        BY <1>2, LagAssumption
    <2> HIDE DEF phase, next, age
    <2>3. polled # <<>> => phase # 2 /\ next <= age + 1
        BY <2>1, <2>2
    <2> QED
        BY <2>3 DEF phase, next, age
<1>5. /\ polled = <<>> => polled' = Asked(sent')
      /\ polled # <<>> => polled' = <<[Head(polled) EXCEPT !.age = @ + 1]>>
    BY DEF Tick
<1>6. CASE BP!Poll
    <2>1. /\ cpt % 3 = 2 /\ cpt' % 3 = 0 /\ sent' = <<BP!AllModules("ReadVoltageAndStatus")>>
          /\ \A i \in DOMAIN requestQueue' :
                 requestQueue'[i].command # "ReadVoltageAndStatus"
        BY <1>1, <1>6, SchedulerFits, BP!PollIsDue
    <2>2. /\ BP!AllModules("ReadVoltageAndStatus").command = "ReadVoltageAndStatus"
          /\ BP!AllModules("ReadVoltageAndStatus").end_address = Count(layout) - 1
        BY DEF BP!AllModules, BP!ModuleRange
    <2>3. Asked(sent') = <<[last |-> Count(layout) - 1, answer |-> <<>>, age |-> 0]>>
        BY <2>1, <2>2 DEF Asked
    <2>4. polled = <<>>
        BY <1>4, <2>1
    <2> QED
        BY <1>5, <1>6, <2>1, <2>3, <2>4
<1>7. CASE ~BP!Poll
    <2>1. /\ Asked(sent') = <<>>
          /\ \A i \in DOMAIN requestQueue' :
                 requestQueue'[i].command # "ReadVoltageAndStatus"
        BY <1>7, SameTick, NoPollAsked DEF Tick, PollTyped
    <2> QED
        BY <1>2, <1>4, <1>5, <1>7, <2>1
<1> QED
    BY <1>6, <1>7

\* The longest latency, and a reply's delay, are numbers of seconds.
LEMMA MaxLatencyIs == MaxLatency \in Nat /\ MaxLag \in Nat
<1>1. MaxLag \in Nat /\ MaxModules \in Nat
    BY LagAssumption, BoardAssumption
<1>2. (MaxModules + 3) \div 3 \in Nat
    BY <1>1, Z3
<1> QED
    BY <1>1, <1>2 DEF MaxLatency

\* A poll under way, and what it may become.
LEMMA PollSteps ==
    ASSUME NEW poll \in PollType
    PROVE  /\ poll.age \in Nat
           /\ poll.age < MaxLag => [poll EXCEPT !.age = @ + 1] \in PollType
           /\ \A voltages \in Voltages : [poll EXCEPT !.answer = <<voltages>>] \in PollType
<1>1. MaxLag \in Nat /\ poll.age \in 0 .. MaxLag
    BY MaxLatencyIs DEF PollType
<1>2. poll.age < MaxLag => poll.age + 1 \in 0 .. MaxLag
    BY <1>1
<1> QED
    BY <1>1, <1>2 DEF PollType

\* Every step keeps the account of the poll.
LEMMA PollTypedKept ==
    ASSUME Parts, AskedOfLayouts, PollTyped, [Next]_vars
    PROVE  PollTyped'
<1> DEFINE NoneQueued ==
               \A i \in DOMAIN requestQueue : requestQueue[i].command # "ReadVoltageAndStatus"
           Polled == polled \in {<<>>} \cup {<<poll>> : poll \in PollType}
           InTime == polled # <<>> => cpt % 3 <= Head(polled).age
<1>1. quiet' \in 0 .. MaxLatency + 1
    <2>1. MaxLatency \in Nat /\ quiet \in 0 .. MaxLatency + 1
        BY MaxLatencyIs DEF PollTyped
    <2>2. quiet' \in {quiet, 0, B!Least(quiet + 1, MaxLatency + 1)}
        BY DEF Next, Tick, Reply, Judge, ConfigureRules, Answer, Disturbance, Identify,
               Configure, Restart, Lose, Measure, vars
    <2> QED
        BY <2>1, <2>2 DEF B!Least
<1>2. actual' \in Voltages
    BY DEF PollTyped, Next, Tick, Reply, Judge, ConfigureRules, Answer, Disturbance, Identify,
           Configure, Restart, Lose, Measure, vars, watched
<1>3. NoneQueued /\ Polled /\ InTime
    BY DEF PollTyped
<1> SUFFICES NoneQueued' /\ Polled' /\ InTime'
    BY <1>1, <1>2 DEF PollTyped
<1>4. CASE Tick
    <2>1. layout \in Layouts
        BY <1>4, TickParts
    <2>2. CASE polled = <<>> /\ ~BP!Poll
        BY <1>4, <2>2, PollTick
    <2>3. CASE BP!Poll
        <3> DEFINE asked == [last |-> Count(layout) - 1, answer |-> <<>>, age |-> 0]
        <3>1. polled' = <<asked>> /\ cpt' % 3 = 0 /\ NoneQueued'
            BY <1>4, <2>3, PollTick
        <3>2. asked \in PollType /\ asked.age = 0
            <4>1. Count(layout) - 1 \in Module
                BY <2>1, CountFits, BoardAssumption DEF Module
            <4>2. 0 \in 0 .. MaxLag
                BY MaxLatencyIs
            <4> QED
                BY <4>1, <4>2 DEF PollType
        <3> HIDE DEF asked
        <3> QED
            BY <3>1, <3>2
    <2>4. CASE polled # <<>>
        <3>1. PICK poll \in PollType : polled = <<poll>>
            BY <1>3, <2>4
        <3> DEFINE older == [poll EXCEPT !.age = @ + 1]
        <3>2. /\ poll.age < MaxLag /\ cpt' % 3 <= poll.age + 1
              /\ polled' = <<older>> /\ NoneQueued'
            BY <1>4, <2>4, <3>1, PollTick
        <3>3. older \in PollType
            BY <2>1, <3>2, PollSteps
        <3>4. older.age = poll.age + 1
            BY DEF PollType
        <3> HIDE DEF older
        <3> QED
            BY <3>2, <3>3, <3>4
    <2> QED
        BY <2>2, <2>3, <2>4
<1>5. CASE Reply
    BY <1>3, <1>5 DEF Reply, B!VoltageReply
<1>6. CASE Judge \/ ConfigureRules \/ UNCHANGED vars \/ \E voltages \in Voltages : Measure(voltages)
    <2>1. UNCHANGED <<requestQueue, cpt, polled>>
        BY <1>6 DEF Judge, ConfigureRules, Measure, vars, schedule, watched
    <2> QED
        BY <1>3, <2>1
<1>7. CASE Answer
    <2>1. PICK poll \in PollType : polled = <<poll>>
        BY <1>3, <1>7 DEF Answer
    <2> DEFINE answered == [poll EXCEPT !.answer = <<actual>>]
    <2>2. polled' = <<answered>> /\ UNCHANGED <<requestQueue, cpt>>
        BY <1>7, <2>1 DEF Answer, schedule
    <2>3. answered \in PollType /\ answered.age = poll.age
        BY DEF PollTyped, PollType
    <2> HIDE DEF answered
    <2> QED
        BY <1>3, <2>1, <2>2, <2>3
<1>8. CASE Lose
    BY <1>3, <1>8 DEF Lose, schedule
<1>9. CASE (\E id \in IdentifyIds : Identify(id)) \/ (\E size \in Layouts : Configure(size))
    <2>1. /\ \E packet : requestQueue' = <<packet>> /\ packet.command # "ReadVoltageAndStatus"
          /\ UNCHANGED <<cpt, polled>>
        BY <1>9 DEF Identify, Configure, B!SendIdentify, B!SendGlobalConfig, B!ModuleRange,
                    B!Broadcast, watched
    <2> QED
        BY <1>3, <2>1
<1>10. CASE Restart
    <2>1. requestQueue' = <<>> /\ cpt' = 0 /\ polled' = polled
        BY <1>10 DEF Restart, B!Restart, watched
    <2>2. polled # <<>> => Head(polled).age \in Nat
        <3> SUFFICES ASSUME polled # <<>> PROVE Head(polled).age \in Nat
            OBVIOUS
        <3>1. PICK poll \in PollType : polled = <<poll>>
            BY <1>3
        <3>2. poll.age \in 0 .. MaxLag
            BY DEF PollType
        <3> QED
            BY <3>1, <3>2, MaxLatencyIs
    <2> QED
        BY <1>3, <2>1, <2>2
<1> QED
    BY <1>4, <1>5, <1>6, <1>7, <1>8, <1>9, <1>10 DEF Next, Disturbance

\* Polls are asked of layouts and are answered in time, always.
LEMMA PollsInOrder == Spec => [](AskedOfLayouts /\ PollTyped)
<1>1. Init => PollTyped
    <2> SUFFICES ASSUME Init PROVE PollTyped
        OBVIOUS
    <2>1. requestQueue = <<>> /\ actual \in Voltages /\ polled = <<>> /\ quiet = 0
        BY DEF Init, B!Init
    <2> QED
        BY <2>1, MaxLatencyIs DEF PollTyped
<1> QED
    BY <1>1, PartsInOrder, PollTypedKept, InitEstablishesInv, NextKeepsInv, PTL DEF Spec

\* Every variable of the controller keeps its type; a poll is of modules there are and
\* lasts no longer than MaxLag.
THEOREM TypeCorrect == Spec => []TypeOK
<1>1. RM!TypeOK => R!TypeOK
    <2>1. /\ R!Module = RM!Module /\ R!Voltage = RM!Voltage
          /\ R!Temperature = RM!Temperature /\ R!Rule = RM!Rule
          /\ R!RelayState = RM!RelayState
        BY Zenon DEF R!Module, RM!Module, R!Voltage, RM!Voltage, R!Temperature, RM!Temperature,
                     R!Rule, RM!Rule, R!RelayState, RM!RelayState
    <2>2. R!Cell = RM!Cell /\ R!RuleSettings = RM!RuleSettings
        BY <2>1, Zenon DEF R!Cell, RM!Cell, R!RuleSettings, RM!RuleSettings
    <2> QED
        BY <2>1, <2>2, Zenon DEF R!TypeOK, RM!TypeOK
<1>2. Parts /\ PollTyped => TypeOK
    BY <1>1 DEF Parts, PollTyped, TypeOK
<1> QED
    BY <1>2, PartsInOrder, PollsInOrder, PTL

(***************************************************************************)
(* The readings catch up.  Either they have, and the poll under way, if    *)
(* there is one, will leave it at that; or a poll is under way that brings *)
(* them up to date, and was asked in time; or the next poll will be.       *)
(***************************************************************************)

CaughtUp == \A m \in 0 .. Count(layout) - 1 : cell[m].voltagemV = actual[m]

\* A poll of all modules that was answered, if it was, with what they measure now.
Fresh(poll) == poll.last = Count(layout) - 1 /\ poll.answer \in {<<>>, <<actual>>}

\* The latency less the time a reply may take.
PollLatency == 5 + BP!AfterSweep

CatchingUp ==
    \/ CaughtUp /\ (polled # <<>> => Fresh(Head(polled)))
    \/ polled # <<>> /\ Fresh(Head(polled)) /\ quiet <= PollLatency + Head(polled).age
    \/ quiet + BP!UntilPoll <= PollLatency

\* Latency allows for a sweep, what may come before it, and the reply.
LEMMA LatencyIs ==
    ASSUME Parts
    PROVE  Latency = PollLatency + MaxLag /\ PollLatency \in Nat /\ MaxLag \in Nat
<1>1. layout \in Layouts
    BY DEF Parts, RM!TypeOK
<1>2. Count(layout) \in Nat
    BY <1>1, CountFits, BoardAssumption
<1>3. BP!AfterSweep = 3 * (SweepSeconds \div 3 + 1) /\ SweepSeconds \in Nat
    BY <1>2 DEF BP!AfterSweep, BP!NextThird, BP!SweptModules, SweepSeconds, B!Largest, BP!Largest
<1>4. BP!AfterSweep \in Nat
    BY <1>3, Z3
<1> QED
    BY <1>3, <1>4, MaxLatencyIs DEF Latency, PollLatency

\* After a disturbance the next poll comes in time, whatever was going on.
LEMMA PollIsNear ==
    ASSUME Parts, quiet = 0
    PROVE  CatchingUp
<1>1. layout \in Layouts /\ BP!InductiveInv /\ BP!SweepPace
    BY DEF Parts, RM!TypeOK
<1>2. BP!Fits
    <2>1. Count(layout) \in 1 .. MaxModules /\ MaxModules \in 1 .. 16
        BY <1>1, CountFits, BoardAssumption
    <2> QED
        BY <2>1 DEF BP!Fits
<1>3. BP!UntilPoll \in Int /\ BP!UntilPoll <= 5 + BP!AfterSweep
    BY <1>1, <1>2, SchedulerFits, BP!PollComesInTime
<1> QED
    BY <1>3 DEF CatchingUp, PollLatency

\* What the account is about.
SameScene == UNCHANGED <<requestQueue, bmsState, cpt, dummyVar, layout>>

\* The countdown depends on the scheduler and the layout alone.
LEMMA SceneKept == SameScene => UNCHANGED <<BP!UntilPoll, PollLatency>>
BY DEF SameScene, BP!UntilPoll, BP!UntilPolling, BP!NextPoll, BP!NextThird, BP!AfterSweep,
       BP!SweptModules, BP!Largest, BP!ModbusState, PollLatency

\* A tick: the seconds count down to the poll, and up to its answer.
LEMMA TickCatchesUp ==
    ASSUME Parts, AskedOfLayouts, PollTyped, CatchingUp, Tick
    PROVE  CatchingUp'
<1>1. /\ BP!Tick /\ BP!InductiveInv /\ BP!SweepPace /\ BP!Fits
      /\ UNCHANGED <<cell, layout, actual>>
    BY TickParts
<1>2. /\ CaughtUp' = CaughtUp /\ PollLatency' = PollLatency
      /\ \A poll : Fresh(poll)' = Fresh(poll)
    BY <1>1 DEF CaughtUp, Fresh, Count, PollLatency, BP!AfterSweep, BP!NextThird, BP!SweptModules,
                BP!Largest
<1>3. quiet \in Nat /\ quiet' \in Nat /\ quiet' <= quiet + 1 /\ PollLatency \in Nat
    <2>1. MaxLatency \in Nat /\ quiet \in 0 .. MaxLatency + 1
        BY MaxLatencyIs DEF PollTyped
    <2>2. quiet' = B!Least(quiet + 1, MaxLatency + 1)
        BY DEF Tick
    <2> QED
        BY <2>1, <2>2, LatencyIs DEF B!Least
<1>4. BP!UntilPoll \in Int /\ 1 <= BP!UntilPoll
    BY <1>1, SchedulerFits, BP!PollComesInTime
<1>5. /\ ~BP!Poll => BP!UntilPoll' = BP!UntilPoll - 1
      /\ BP!Poll => BP!UntilPoll = 1
    <2>1. ~BP!Poll => BP!UntilPoll' = BP!UntilPoll - 1
        BY <1>1, SchedulerFits, BP!TickCountsDown
    <2>2. cpt' = BP!Second
        BY TickParts
    <2>3. BP!Poll => BP!UntilPoll = 1
        BY <1>1, <2>2, SchedulerFits, BP!PollIsDue
    <2> QED
        BY <2>1, <2>3
<1>6. CASE quiet + BP!UntilPoll <= PollLatency /\ ~BP!Poll
    <2>1. BP!UntilPoll' = BP!UntilPoll - 1 /\ PollLatency' = PollLatency
        BY <1>2, <1>5, <1>6
    <2>2. quiet' + BP!UntilPoll' <= PollLatency'
        <3>1. \A now, next, until, bound \in Int :
                  next <= now + 1 /\ now + until <= bound => next + (until - 1) <= bound
            OBVIOUS
        <3>2. /\ quiet \in Int /\ quiet' \in Int /\ PollLatency \in Int
              /\ quiet + BP!UntilPoll <= PollLatency
            BY <1>3, <1>6
        <3>3. quiet' + (BP!UntilPoll - 1) <= PollLatency
            BY <1>3, <1>4, <3>1, <3>2
        <3> QED
            BY <2>1, <3>3
    <2> QED
        BY <2>2 DEF CatchingUp
<1>7. CASE BP!Poll
    <2>1. PICK asked : asked = [last |-> Count(layout) - 1, answer |-> <<>>, age |-> 0]
        OBVIOUS
    <2>2. /\ polled = <<>> /\ polled' = <<asked>>
          /\ Fresh(asked) /\ asked.age = 0
        BY <1>7, <2>1, PollTick DEF Fresh
    <2>3. Fresh(asked)'
        BY <1>2, <2>2
    <2>4. polled' # <<>> /\ Head(polled') = asked
        BY <2>2
    <2>5. CASE CaughtUp
        BY <1>2, <2>3, <2>4, <2>5 DEF CatchingUp
    <2>6. CASE quiet + BP!UntilPoll <= PollLatency
        <3>1. quiet' <= PollLatency' + asked.age
            BY <1>2, <1>3, <1>5, <1>7, <2>2, <2>6
        <3> QED
            BY <2>3, <2>4, <3>1 DEF CatchingUp
    <2> QED
        BY <2>2, <2>5, <2>6 DEF CatchingUp
<1>8. CASE ~BP!Poll /\ polled = <<>>
    <2>1. polled' = <<>>
        BY <1>8, PollTick
    <2>2. CASE CaughtUp
        BY <1>2, <2>1, <2>2 DEF CatchingUp
    <2> QED
        BY <1>6, <1>8, <2>2 DEF CatchingUp
<1>9. CASE ~BP!Poll /\ polled # <<>>
    <2>1. PICK poll \in PollType : polled = <<poll>>
        BY <1>9 DEF PollTyped
    <2> DEFINE older == [poll EXCEPT !.age = @ + 1]
    <2>2. polled' = <<older>> /\ Head(polled) = poll
        BY <1>9, <2>1, PollTick
    <2>3. older.age = poll.age + 1 /\ older.last = poll.last /\ older.answer = poll.answer
        BY DEF PollType
    <2>4. poll.age \in Nat
        BY PollSteps
    <2> HIDE DEF older
    <2>5. Fresh(poll) => Fresh(older)'
        BY <1>2, <2>3 DEF Fresh
    <2>6. polled' # <<>> /\ Head(polled') = older
        BY <2>2
    <2>7. CASE CaughtUp /\ Fresh(poll)
        BY <1>2, <2>5, <2>6, <2>7 DEF CatchingUp
    <2>8. CASE Fresh(poll) /\ quiet <= PollLatency + poll.age
        <3>1. quiet' <= PollLatency' + older.age
            BY <1>2, <1>3, <2>3, <2>4, <2>8
        <3> QED
            BY <2>5, <2>6, <2>8, <3>1 DEF CatchingUp
    <2> QED
        BY <1>6, <1>9, <2>2, <2>7, <2>8 DEF CatchingUp
<1> QED
    BY <1>7, <1>8, <1>9

\* A reply to a poll of now brings every reading of a configured module up to date.
LEMMA ReplyUpdates ==
    ASSUME Parts, Reply, Fresh(Head(polled))
    PROVE  CaughtUp'
<1> DEFINE voltages == Head(Head(polled).answer)
           last == Head(polled).last
<1>1. layout \in Layouts /\ cell \in [R!Module -> RM!Cell]
    BY DEF Parts, RM!TypeOK, RM!Module, R!Module
<1>2. voltages = actual /\ last = Count(layout) - 1
    BY DEF Reply, Fresh
<1>3. /\ layout' = layout /\ actual' = actual
      /\ cell' = [m \in R!Module |->
                     IF m <= last
                     THEN [cell[m] EXCEPT !.voltagemV = voltages[m],
                                          !.valid = @ \/ voltages[m] > 0]
                     ELSE cell[m]]
    BY DEF Reply, R!VoltageReply
<1>4. Count(layout) \in Nat /\ Count(layout) <= MaxModules /\ MaxModules \in Nat
    BY <1>1, CountFits, BoardAssumption
<1> HIDE DEF voltages, last
<1>5. ASSUME NEW m \in 0 .. Count(layout) - 1
      PROVE  cell'[m].voltagemV = actual[m]
    <2>1. m \in R!Module /\ m <= last
        BY <1>2, <1>4 DEF R!Module
    <2>2. cell'[m] = [cell[m] EXCEPT !.voltagemV = actual[m], !.valid = @ \/ actual[m] > 0]
        BY <1>2, <1>3, <2>1
    <2>3. cell[m] \in RM!Cell
        BY <1>1, <2>1
    <2> QED
        BY <2>2, <2>3 DEF RM!Cell
<1> QED
    BY <1>3, <1>5 DEF CaughtUp, Count

\* Every step keeps the account, as a disturbance starts it anew.
LEMMA CatchingUpKept ==
    ASSUME Parts, AskedOfLayouts, PollTyped, CatchingUp, [Next]_vars,
           (quiet = 0 => CatchingUp)'
    PROVE  CatchingUp'
<1>1. CASE Tick
    BY <1>1, TickCatchesUp
<1>2. CASE Disturbance
    <2>1. quiet' = 0
        BY <1>2 DEF Disturbance, Identify, Configure, Restart, Lose, Measure
    <2> QED
        BY <2>1
<1>3. CASE Judge \/ ConfigureRules \/ UNCHANGED vars
    <2>1. SameScene /\ UNCHANGED <<actual, polled, quiet>>
        BY <1>3 DEF Judge, ConfigureRules, R!RulesRun, R!inputs, R!SetRule, R!SetRelayState,
                    R!SetRelayDefaultState, SameScene, vars, schedule, inputs, watched
    <2>2. cell' = cell
        BY <1>3 DEF Judge, ConfigureRules, R!RulesRun, R!inputs, R!SetRule, R!SetRelayState,
                    R!SetRelayDefaultState, vars, inputs
    <2>3. UNCHANGED <<BP!UntilPoll, PollLatency>>
        BY <2>1, SceneKept
    <2>4. CaughtUp' = CaughtUp /\ Fresh(Head(polled))' = Fresh(Head(polled))
        BY <2>1, <2>2 DEF SameScene, CaughtUp, Fresh, Count
    <2> QED
        BY <2>1, <2>3, <2>4 DEF CatchingUp
<1>4. CASE Answer
    <2>1. SameScene /\ UNCHANGED <<actual, quiet, cell>>
        BY <1>4 DEF Answer, SameScene, schedule, inputs
    <2>2. UNCHANGED <<BP!UntilPoll, PollLatency>>
        BY <2>1, SceneKept
    <2>3. PICK poll \in PollType : polled = <<poll>>
        BY <1>4 DEF Answer, PollTyped
    <2>4. PICK answered : answered = [poll EXCEPT !.answer = <<actual>>]
        OBVIOUS
    <2>5. /\ answered.last = poll.last /\ answered.age = poll.age
          /\ answered.answer = <<actual>>
        BY <2>4 DEF PollType
    <2>6. polled' # <<>> /\ Head(polled') = answered
        BY <1>4, <2>3, <2>4 DEF Answer
    <2>7. Fresh(poll) => Fresh(answered)'
        BY <2>1, <2>5 DEF Fresh, SameScene, Count
    <2>8. CaughtUp' = CaughtUp
        BY <2>1 DEF CaughtUp, SameScene, Count
    <2>9. polled # <<>> /\ Head(polled) = poll
        BY <2>3
    <2>10. CASE CaughtUp /\ Fresh(poll)
        BY <2>6, <2>7, <2>8, <2>10 DEF CatchingUp
    <2>11. CASE Fresh(poll) /\ quiet <= PollLatency + poll.age
        BY <2>1, <2>2, <2>5, <2>6, <2>7, <2>11 DEF CatchingUp
    <2>12. CASE quiet + BP!UntilPoll <= PollLatency
        BY <2>1, <2>2, <2>12 DEF CatchingUp
    <2> QED
        BY <2>9, <2>10, <2>11, <2>12 DEF CatchingUp
<1>5. CASE Reply
    <2>1. SameScene /\ UNCHANGED <<actual, quiet>> /\ polled # <<>> /\ polled' = <<>>
        BY <1>5 DEF Reply, R!VoltageReply, B!VoltageReply, SameScene
    <2>2. UNCHANGED <<BP!UntilPoll, PollLatency>>
        BY <2>1, SceneKept
    <2>3. CASE Fresh(Head(polled))
        <3>1. CaughtUp'
            BY <1>5, <2>3, ReplyUpdates
        <3> QED
            BY <2>1, <3>1 DEF CatchingUp
    <2>4. CASE quiet + BP!UntilPoll <= PollLatency
        BY <2>1, <2>2, <2>4 DEF CatchingUp
    <2> QED
        BY <2>1, <2>3, <2>4 DEF CatchingUp
<1> QED
    BY <1>1, <1>2, <1>3, <1>4, <1>5 DEF Next

\* The countdown starts anew whenever the modules change and never falls behind.
LEMMA AlwaysCatchingUp == Spec => []CatchingUp
<1>1. Parts => (quiet = 0 => CatchingUp)
    BY PollIsNear
<1>2. Init => quiet = 0
    BY DEF Init
<1>3. Parts /\ AskedOfLayouts /\ PollTyped /\ CatchingUp /\ [Next]_vars
          /\ (quiet = 0 => CatchingUp)' => CatchingUp'
    BY CatchingUpKept
<1> QED
    BY <1>1, <1>2, <1>3, PartsInOrder, PollsInOrder, PTL DEF Spec

\* The age of the poll under way is at most MaxLag and the poll to come is at least a
\* second away: beyond Latency the readings have caught up.
LEMMA LateMeansCaughtUp ==
    ASSUME Parts, PollTyped, CatchingUp, quiet > Latency
    PROVE  CaughtUp
<1>1. Latency = PollLatency + MaxLag /\ PollLatency \in Nat /\ MaxLag \in Nat
    BY LatencyIs
<1>2. quiet \in Nat
    BY MaxLatencyIs DEF PollTyped
<1>3. ASSUME polled # <<>>, quiet <= PollLatency + Head(polled).age
      PROVE  FALSE
    <2>1. PICK poll \in PollType : polled = <<poll>>
        BY <1>3 DEF PollTyped
    <2>2. Head(polled) = poll /\ poll.age \in Nat /\ poll.age <= MaxLag
        BY <1>1, <2>1 DEF PollType
    <2> QED
        BY <1>1, <1>2, <1>3, <2>2
<1>4. ASSUME quiet + BP!UntilPoll <= PollLatency
      PROVE  FALSE
    <2>1. layout \in Layouts /\ BP!InductiveInv /\ BP!SweepPace
        BY DEF Parts, RM!TypeOK
    <2>2. BP!Fits
        <3>1. Count(layout) \in 1 .. MaxModules /\ MaxModules \in 1 .. 16
            BY <2>1, CountFits, BoardAssumption
        <3> QED
            BY <3>1 DEF BP!Fits
    <2>3. BP!UntilPoll \in Int /\ 1 <= BP!UntilPoll
        BY <2>1, <2>2, SchedulerFits, BP!PollComesInTime
    <2> QED
        BY <1>1, <1>2, <1>4, <2>3
<1> QED
    BY <1>3, <1>4 DEF CatchingUp

\* Sweeps, reconfigurations, restarts and lost replies hold the readings up, but not for
\* longer than Latency after the last of them, for any number of modules up to 16.
THEOREM CatchUpInTime == Spec => []ReadingsCatchUp
<1>1. Parts /\ PollTyped /\ CatchingUp => ReadingsCatchUp
    BY LateMeansCaughtUp DEF ReadingsCatchUp, CaughtUp
<1> QED
    BY <1>1, PartsInOrder, PollsInOrder, AlwaysCatchingUp, PTL

\* What the rules make of readings that have caught up.
LEMMA Protected ==
    ASSUME Parts, PollTyped, CaughtUp, settled, R!Sane(R!ModuleOverVoltage),
           \A m \in 0 .. Count(layout) - 1 : actual[m] # 0
    PROVE  /\ (\E m \in 0 .. Count(layout) - 1 : OverVoltage(m))
                  => ruleOutcome[R!ModuleOverVoltage]
           /\ (\A m \in 0 .. Count(layout) - 1 :
                   actual[m] < rules[R!ModuleOverVoltage].hysteresis)
                  => ~ruleOutcome[R!ModuleOverVoltage]
<1>1. RM!TypeOK /\ RM!EveryExcessTrips /\ RM!Rested /\ RM!ReadIsValid
    BY DEF Parts
<1>2. layout \in Layouts /\ \A m \in Module : actual[m] \in Nat
    <2> DEFINE millivolts == 0 .. 8191
    <2>1. Voltages \subseteq [Module -> millivolts]
        BY VoltagesAssumption
    <2>2. \A v \in millivolts : v \in Nat
        BY Z3
    <2> HIDE DEF millivolts
    <2>3. actual \in [Module -> millivolts]
        BY <2>1 DEF PollTyped
    <2> QED
        BY <1>1, <2>2, <2>3 DEF RM!TypeOK
<1>3. Count(layout) \in Nat /\ 1 <= Count(layout) /\ Count(layout) <= MaxModules
      /\ MaxModules \in Nat
    BY <1>2, CountFits, BoardAssumption
<1>4. /\ R!ModuleOverVoltage = 0 /\ RM!ModuleOverVoltage = 0
      /\ 0 \in RM!Rule \ {RM!ModuleUnderTemperatureInternal}
      /\ 0 \in RM!Rule \ RM!ExternalRule
    BY DEF R!ModuleOverVoltage, RM!ModuleOverVoltage, RM!Rule, RM!ExternalRule,
           RM!ModuleUnderTemperatureInternal, RM!ModuleOverTemperatureExternal,
           RM!ModuleUnderTemperatureExternal
<1>5. \A m \in RM!ValidModules : m \in 0 .. Count(layout) - 1 /\ cell[m].voltagemV = actual[m]
    BY DEF CaughtUp, RM!ValidModules, RM!LastModule, Count
<1>6. ~RM!zeroVoltageModule
    BY <1>5 DEF RM!zeroVoltageModule, RM!voltages
<1>7. RM!Sane(0)
    BY <1>4 DEF R!Sane, RM!Sane, R!OverRule, RM!OverRule
<1>8. rules[0].value \in Nat /\ rules[0].hysteresis \in Nat
    BY <1>1, <1>4 DEF RM!TypeOK, RM!RuleSettings
<1>9. ASSUME NEW m \in 0 .. Count(layout) - 1, OverVoltage(m)
      PROVE  ruleOutcome[0]
    <2>1. m \in RM!Module /\ m \in Module
        BY <1>3 DEF RM!Module, Module
    <2>2. cell[m].voltagemV = actual[m] /\ actual[m] > rules[0].value
        BY <1>4, <1>9 DEF CaughtUp, OverVoltage
    <2>3. actual[m] \in Nat
        BY <1>2, <2>1
    <2>4. cell[m].voltagemV > 0
        BY <1>8, <2>2, <2>3
    <2>5. m \in RM!ValidModules
        BY <1>1, <2>1, <2>4 DEF RM!ReadIsValid, RM!ValidModules, RM!LastModule, Count
    <2>6. RM!Exceeds(m, 0)
        BY <1>4, <2>2
        DEF RM!Exceeds, RM!ModuleOverVoltage, RM!ModuleUnderVoltage,
            RM!ModuleOverTemperatureInternal, RM!ModuleOverTemperatureExternal,
            RM!ModuleUnderTemperatureExternal, RM!BankOverVoltage, RM!BankUnderVoltage
    <2> QED
        BY <1>1, <1>4, <1>6, <1>7, <2>5, <2>6 DEF RM!EveryExcessTrips
<1>10. ASSUME \A m \in 0 .. Count(layout) - 1 : actual[m] < rules[0].hysteresis
       PROVE  ~ruleOutcome[0]
    <2>1. 0 < rules[0].hysteresis
        <3>1. 0 \in 0 .. Count(layout) - 1 /\ 0 \in Module
            BY <1>3 DEF Module
        <3>2. actual[0] \in Nat /\ actual[0] < rules[0].hysteresis
            BY <1>2, <1>10, <3>1
        <3> QED
            BY <1>8, <3>2
    <2>2. \A m \in RM!ValidModules : cell[m].voltagemV < rules[0].hysteresis
        BY <1>5, <1>10
    <2>3. RM!Resets(0)
        BY <1>1, <1>4, <2>1, <2>2, RulesFit, RM!BelowResets
    <2> QED
        BY <1>1, <1>4, <1>6, <1>7, <2>3, RulesFit, RM!ResetReleases
<1> QED
    BY <1>4, <1>9, <1>10

\* Protection, end to end, over all layouts, voltages and limits: that long after the
\* last disturbance and one run of the rules later, the rule for over voltage is tripped
\* exactly if it should be (BMS_TaskRun, ProcessReplyVoltage, RULES_TaskRun together).
THEOREM ProtectInTime == Spec => []ProtectsInTime
<1>1. ASSUME Parts, PollTyped, CatchingUp
      PROVE  ProtectsInTime
    <2> SUFFICES ASSUME quiet > Latency, settled, R!Sane(R!ModuleOverVoltage),
                        \A m \in 0 .. Count(layout) - 1 : actual[m] # 0
                 PROVE  /\ (\E m \in 0 .. Count(layout) - 1 : OverVoltage(m))
                               => ruleOutcome[R!ModuleOverVoltage]
                        /\ (\A m \in 0 .. Count(layout) - 1 :
                                actual[m] < rules[R!ModuleOverVoltage].hysteresis)
                               => ~ruleOutcome[R!ModuleOverVoltage]
        BY DEF ProtectsInTime
    <2> QED
        BY <1>1, LateMeansCaughtUp, Protected
<1>2. Parts /\ PollTyped /\ CatchingUp => ProtectsInTime
    BY <1>1
<1> QED
    BY <1>2, PartsInOrder, PollsInOrder, AlwaysCatchingUp, PTL

============================================================================
