----------------------------- MODULE ReplyPath -----------------------------
(***************************************************************************)
(* The way of a request through the chain of cell modules and of its reply *)
(* back into cmi[]: the end of BMS_TaskRun, onPacketReceived (bms.cpp) and *)
(* PacketReceiveProcessor.                                                 *)
(*                                                                         *)
(* Requests leave one after the other, each with the next sequence number. *)
(* Every module on the chain passes every packet on and answers those      *)
(* addressed to it; what comes back is pushed on replyQueue, and one reply *)
(* is processed in each pass of loop().  Packets are lost and damaged on   *)
(* the way.  The scheduler is any source of requests here, in any order;   *)
(* BmsTask tells which ones it really sends.                               *)
(*                                                                         *)
(* A packet carries what the properties need: the bypass threshold stands  *)
(* for all settings of a module, "live" for the voltages above 0.          *)
(*                                                                         *)
(* Operators whose name ends in a fault, as in ProcessReplySettingsOnce,   *)
(* are not part of the model.  Each is a plausible mistake in the operator *)
(* that follows it, kept to show that a property would notice it.          *)
(***************************************************************************)
EXTENDS Integers, Sequences

CONSTANTS
    MaxModules,     \* maximum_controller_cell_modules
    Present,        \* modules on the chain, addresses 0 .. Present - 1
    Requests,       \* the scheduler's requests, [command, start_address, end_address]
    IdentifyIds,    \* modules a Modbus master identifies
    Limits,         \* values of BypassThresholdmV
    Modulus,        \* sequence numbers wrap there, 65536
    ReplyCapacity,  \* length of replyQueue, 2
    MaxInFlight,    \* bound: packets on the chain and on the line
    MaxRequests,    \* bound: requests transmitted
    MaxFaults       \* bound: packets lost and damaged on the way

Module == 0 .. MaxModules - 1
Address == 0 .. MaxModules
NoLimit == 0

ASSUME SizesAssumption == MaxModules \in Nat \ {0} /\ Present \in 0 .. MaxModules
\* Data is read from configured modules, settings from one at a time.
ASSUME RequestsAssumption ==
    /\ Requests \subseteq
           [command : {"Timing", "ReadVoltageAndStatus"}, start_address : {0}, end_address : Module]
           \cup {[command |-> "ReadSettings", start_address |-> m, end_address |-> m] : m \in Module}
ASSUME IdentifyAssumption == IdentifyIds \subseteq Address
ASSUME LimitsAssumption == Limits \subseteq Nat \ {NoLimit} /\ Limits # {}
ASSUME BoundsAssumption ==
    /\ Modulus \in Nat /\ Modulus >= 2
    /\ {ReplyCapacity, MaxInFlight, MaxRequests} \subseteq Nat \ {0}
    /\ MaxFaults \in Nat

VARIABLES
    requestQueue,                \* what a Modbus request left to transmit
    transmitted,                 \* requests sent so far; sequence is its residue
    chain,                       \* requests on their way to the modules
    moduleLimit,                 \* each module's own bypass threshold
    line,                        \* replies on their way back
    replyQueue,
    packetLastReceivedSequence,
    totalOutofSequenceErrors,
    totalCRCErrors,
    totalNotProcessedErrors,
    settingsCached,              \* {m : cmi[m].settingsCached}
    cachedLimit,                 \* cmi[].BypassThresholdmV
    valid,                       \* {m : cmi[m].valid}
    lost,                        \* auxiliary: packets lost, or refused by replyQueue
    damaged,                     \* auxiliary: replies damaged
    lastNumber,                  \* auxiliary: the request last answered, 0 for none or
                                 \* after a damaged reply
    written,                     \* auxiliary: the last WriteSettings executed
    cachedFrom                   \* auxiliary: the request each cached limit is from

requests == <<requestQueue, transmitted>>
wire == <<chain, moduleLimit, line, written>>
counters == <<packetLastReceivedSequence, totalOutofSequenceErrors, totalCRCErrors,
              totalNotProcessedErrors, lastNumber>>
cmi == <<settingsCached, cachedLimit, valid, cachedFrom>>
faults == <<lost, damaged>>
vars == <<requests, wire, replyQueue, counters, cmi, faults>>

----------------------------------------------------------------------------
(* Requests.                                                               *)

Packet(request, limit) ==
    [command |-> request.command, start_address |-> request.start_address,
     end_address |-> request.end_address, limit |-> limit]

To(command, first, last) ==
    [command |-> command, start_address |-> first, end_address |-> last]

\* There is room for one more packet.
Free == transmitted < MaxRequests /\ Len(chain) + Len(line) < MaxInFlight

\* The end of BMS_TaskRun, for the packet at the head of its queue.
TransmitPacket(packet) ==
    /\ Free
    /\ transmitted' = transmitted + 1
    /\ chain' = Append(chain, [packet |-> packet, number |-> transmitted + 1])
    /\ UNCHANGED <<moduleLimit, line, written, replyQueue, counters, cmi, faults>>

\* The scheduler sends a request; which and when is the subject of BmsTask.
Send(request) ==
    /\ requestQueue = <<>>
    /\ TransmitPacket(Packet(request, NoLimit))
    /\ UNCHANGED requestQueue

\* It sends what a Modbus request has queued.
Transmit ==
    /\ requestQueue # <<>>
    /\ TransmitPacket(Head(requestQueue))
    /\ requestQueue' = <<>>

\* BMS_SendIdentify
SendIdentify(id) ==
    /\ requestQueue' = <<Packet(To("Identify", id, id), NoLimit)>>
    /\ UNCHANGED <<transmitted, wire, replyQueue, counters, cmi, faults>>

\* BMS_SendGlobalConfig: the queue is emptied, the new limit queued, and no
\* settings count as known any more.
SendGlobalConfig(limit) ==
    /\ requestQueue' = <<Packet(To("WriteSettings", 0, MaxModules), limit)>>
    /\ settingsCached' = {}
    /\ UNCHANGED <<transmitted, wire, replyQueue, counters, cachedLimit, valid,
                   cachedFrom, faults>>

----------------------------------------------------------------------------
(* The chain of modules, a first-in first-out line.                        *)

Addressed(packet) == {m \in 0 .. Present - 1 : packet.start_address <= m /\ m <= packet.end_address}

\* The packet at the head of the chain has passed all modules.  A module that is
\* not there answers nothing: its place in the reply keeps the request's 0.
Answer(live) ==
    /\ chain # <<>>
    /\ LET packet == Head(chain).packet
           m == packet.start_address IN
       /\ live \subseteq Addressed(packet)
       /\ packet.command # "ReadVoltageAndStatus" => live = {}
       /\ moduleLimit' = [n \in 0 .. Present - 1 |->
              IF packet.command = "WriteSettings" THEN packet.limit ELSE moduleLimit[n]]
       /\ written' = IF packet.command = "WriteSettings" THEN Head(chain).number ELSE written
       /\ line' = Append(line,
              [packet    |-> IF packet.command = "ReadSettings" /\ m < Present
                             THEN [packet EXCEPT !.limit = moduleLimit[m]] ELSE packet,
               number    |-> Head(chain).number,
               sequence  |-> Head(chain).number % Modulus,
               processed |-> Addressed(packet) # {},
               live      |-> live,
               intact    |-> TRUE])
    /\ chain' = Tail(chain)
    /\ UNCHANGED <<requests, replyQueue, counters, cmi, faults>>

LoseRequest ==
    /\ chain # <<>>
    /\ lost + damaged < MaxFaults
    /\ chain' = Tail(chain)
    /\ lost' = lost + 1
    /\ UNCHANGED <<requests, moduleLimit, line, written, replyQueue, counters, cmi, damaged>>

LoseReply ==
    /\ line # <<>>
    /\ lost + damaged < MaxFaults
    /\ line' = Tail(line)
    /\ lost' = lost + 1
    /\ UNCHANGED <<requests, chain, moduleLimit, written, replyQueue, counters, cmi, damaged>>

\* A damaged reply may read as any, but only what reads as Timing matters later.
DamageReply ==
    /\ line # <<>>
    /\ lost + damaged < MaxFaults
    /\ \E command \in {Head(line).packet.command, "Timing"}, sequence \in 0 .. Modulus - 1 :
           line' = <<[Head(line) EXCEPT !.packet.command = command,
                                        !.sequence = sequence,
                                        !.intact = FALSE]>> \o Tail(line)
    /\ Head(line).intact
    /\ damaged' = damaged + 1
    /\ UNCHANGED <<requests, chain, moduleLimit, written, replyQueue, counters, cmi, lost>>

----------------------------------------------------------------------------
(* Reception and processing.                                               *)

\* onPacketReceived: a reply to Timing gets a timestamp and a new CRC.
OnPacketReceived ==
    /\ line # <<>>
    /\ line' = Tail(line)
    /\ LET reply == Head(line)
           received == [reply |-> reply,
                        crcRight |-> reply.intact \/ reply.packet.command = "Timing"] IN
       IF Len(replyQueue) < ReplyCapacity
       THEN replyQueue' = Append(replyQueue, received) /\ UNCHANGED lost
       ELSE lost' = lost + 1 /\ UNCHANGED replyQueue
    /\ UNCHANGED <<requests, chain, moduleLimit, written, counters, cmi, damaged>>

OutOfSequence(sequence) ==
    /\ packetLastReceivedSequence > 0
    /\ sequence > 0
    /\ sequence # (packetLastReceivedSequence + 1) % Modulus

ProcessReplyVoltageAll(reply) ==
    /\ valid' = valid \cup (reply.packet.start_address .. reply.packet.end_address)
    /\ UNCHANGED <<settingsCached, cachedLimit, cachedFrom>>

\* A module is valid from its first voltage above 0, for good.
ProcessReplyVoltage(reply) ==
    /\ valid' = valid \cup reply.live
    /\ UNCHANGED <<settingsCached, cachedLimit, cachedFrom>>

ProcessReplySettingsOnce(reply) ==
    LET m == reply.packet.start_address IN
    /\ settingsCached' = settingsCached \cup {m}
    /\ IF m \in settingsCached THEN UNCHANGED cachedLimit
       ELSE cachedLimit' = [cachedLimit EXCEPT ![m] = reply.packet.limit]
    /\ cachedFrom' = [cachedFrom EXCEPT ![m] = reply.number]
    /\ UNCHANGED valid

ProcessReplySettings(reply) ==
    LET m == reply.packet.start_address IN
    /\ settingsCached' = settingsCached \cup {m}
    /\ cachedLimit' = [cachedLimit EXCEPT ![m] = reply.packet.limit]
    /\ cachedFrom' = [cachedFrom EXCEPT ![m] = reply.number]
    /\ UNCHANGED valid

\* ReplyWasProcessedByAModule, and the switch on the command.
Use(reply) ==
    CASE reply.processed /\ reply.packet.command = "ReadVoltageAndStatus" ->
             ProcessReplyVoltage(reply)
      [] reply.processed /\ reply.packet.command = "ReadSettings" ->
             ProcessReplySettings(reply)
      [] OTHER -> UNCHANGED cmi

RejectAsLast(reply) ==
    /\ totalCRCErrors' = totalCRCErrors + 1
    /\ packetLastReceivedSequence' = reply.sequence
    /\ UNCHANGED <<totalOutofSequenceErrors, totalNotProcessedErrors, lastNumber, cmi>>

Reject(reply) ==
    /\ totalCRCErrors' = totalCRCErrors + 1
    /\ UNCHANGED <<packetLastReceivedSequence, totalOutofSequenceErrors,
                   totalNotProcessedErrors, lastNumber, cmi>>

AcceptOnlyProcessed(reply) ==
    /\ totalOutofSequenceErrors' =
           totalOutofSequenceErrors + (IF OutOfSequence(reply.sequence) THEN 1 ELSE 0)
    /\ packetLastReceivedSequence' =
           IF reply.processed THEN reply.sequence ELSE packetLastReceivedSequence
    /\ totalNotProcessedErrors' =
           totalNotProcessedErrors + (IF reply.processed THEN 0 ELSE 1)
    /\ lastNumber' = IF reply.intact THEN reply.number ELSE 0
    /\ Use(reply)
    /\ UNCHANGED totalCRCErrors

AcceptStoresNext(reply) ==
    /\ totalOutofSequenceErrors' =
           totalOutofSequenceErrors +
           (IF packetLastReceivedSequence > 0 /\ reply.sequence # packetLastReceivedSequence
            THEN 1 ELSE 0)
    /\ packetLastReceivedSequence' = reply.sequence + 1
    /\ totalNotProcessedErrors' =
           totalNotProcessedErrors + (IF reply.processed THEN 0 ELSE 1)
    /\ lastNumber' = IF reply.intact THEN reply.number ELSE 0
    /\ Use(reply)
    /\ UNCHANGED totalCRCErrors

Accept(reply) ==
    /\ totalOutofSequenceErrors' =
           totalOutofSequenceErrors + (IF OutOfSequence(reply.sequence) THEN 1 ELSE 0)
    /\ packetLastReceivedSequence' = reply.sequence
    /\ totalNotProcessedErrors' =
           totalNotProcessedErrors + (IF reply.processed THEN 0 ELSE 1)
    /\ lastNumber' = IF reply.intact THEN reply.number ELSE 0
    /\ Use(reply)
    /\ UNCHANGED totalCRCErrors

\* One reply in each pass of BMS_TaskRun.
ProcessReply ==
    /\ replyQueue # <<>>
    /\ LET received == Head(replyQueue) IN
       IF received.crcRight THEN Accept(received.reply) ELSE Reject(received.reply)
    /\ replyQueue' = Tail(replyQueue)
    /\ UNCHANGED <<requests, wire, faults>>

Init ==
    /\ requestQueue = <<>>
    /\ transmitted = 0
    /\ chain = <<>>
    /\ moduleLimit \in [0 .. Present - 1 -> Limits]
    /\ line = <<>>
    /\ replyQueue = <<>>
    /\ packetLastReceivedSequence = 0
    /\ totalOutofSequenceErrors = 0
    /\ totalCRCErrors = 0
    /\ totalNotProcessedErrors = 0
    /\ settingsCached = {}
    /\ cachedLimit = [m \in Module |-> NoLimit]
    /\ valid = {}
    /\ lost = 0
    /\ damaged = 0
    /\ lastNumber = 0
    /\ written = 0
    /\ cachedFrom = [m \in Module |-> 0]

Next ==
    \/ \E request \in Requests : Send(request)
    \/ \E id \in IdentifyIds : SendIdentify(id)
    \/ \E limit \in Limits : SendGlobalConfig(limit)
    \/ Transmit
    \/ \E live \in SUBSET (0 .. Present - 1) : Answer(live)
    \/ LoseRequest
    \/ LoseReply
    \/ DamageReply
    \/ OnPacketReceived
    \/ ProcessReply

Spec == Init /\ [][Next]_vars

----------------------------------------------------------------------------
(* Properties.                                                             *)

\* Only WriteSettings brings limits, and settings are read from one module.
PacketType ==
    {packet \in [command : {"Identify", "Timing", "WriteSettings", "ReadSettings",
                            "ReadVoltageAndStatus"},
                 start_address : Address, end_address : Address,
                 limit : Limits \cup {NoLimit}] :
        /\ packet.command = "WriteSettings" => packet.limit \in Limits
        /\ packet.command = "ReadSettings" =>
               packet.start_address = packet.end_address /\ packet.start_address \in Module}
RequestType == [packet : PacketType, number : 1 .. MaxRequests]
ReplyType == [packet : PacketType, number : 1 .. MaxRequests, sequence : 0 .. Modulus - 1,
              processed : BOOLEAN, live : SUBSET (0 .. Present - 1), intact : BOOLEAN]
ReceivedType == [reply : ReplyType, crcRight : BOOLEAN]

TypeOK ==
    /\ requestQueue \in Seq({packet \in PacketType : packet.command # "ReadSettings"})
    /\ transmitted \in 0 .. MaxRequests
    /\ chain \in Seq(RequestType)
    /\ moduleLimit \in [0 .. Present - 1 -> Limits]
    /\ line \in Seq(ReplyType)
    /\ replyQueue \in Seq(ReceivedType)
    /\ Len(replyQueue) <= ReplyCapacity
    /\ packetLastReceivedSequence \in 0 .. Modulus - 1
    /\ totalOutofSequenceErrors \in Nat
    /\ totalCRCErrors \in Nat
    /\ totalNotProcessedErrors \in Nat
    /\ settingsCached \subseteq Module
    /\ cachedLimit \in [Module -> Limits \cup {NoLimit}]
    /\ valid \subseteq Module
    /\ lost \in Nat
    /\ damaged \in Nat
    /\ lastNumber \in Nat
    /\ written \in Nat
    /\ cachedFrom \in [Module -> Nat]

\* The error counters do not raise false alarms, across wraps of the sequence
\* number too: a lost reply costs at most one error, a damaged one at most two
\* (its own, and the gap it leaves or the nonsense it brings).
ErrorsHaveCauses ==
    totalOutofSequenceErrors + totalCRCErrors <= lost + 2 * damaged

\* A gap between two replies that arrived intact is counted when the second is
\* processed, exactly then, unless a multiple of all sequence numbers is missing or
\* one of the two numbers is 0.
GapsAreCounted ==
    [][\A i \in {1} \cap DOMAIN replyQueue :
           LET reply == replyQueue[i].reply
               missing == reply.number - lastNumber - 1 IN
           (/\ replyQueue' = Tail(replyQueue) /\ reply.intact
            /\ lastNumber % Modulus # 0 /\ reply.sequence # 0)
           => (totalOutofSequenceErrors' = totalOutofSequenceErrors + 1
                  <=> missing % Modulus # 0)]_vars

\* Only modules that are on the chain are ever taken for valid or have settings,
\* however many are configured.
OnlyPresentModulesKnown ==
    valid \cup settingsCached \subseteq 0 .. Present - 1

\* Settings read from a module after it last executed a WriteSettings are its own,
\* whatever older replies were in flight meanwhile.
RereadSettingsAreCurrent ==
    \A m \in settingsCached : cachedFrom[m] > written => cachedLimit[m] = moduleLimit[m]

----------------------------------------------------------------------------
(* What the code's comments say and its runs do not do.                    *)

\* "Its a valid packet": a reply whose CRC is right was not damaged.
CrcTellsDamage ==
    \A i \in DOMAIN replyQueue : replyQueue[i].crcRight => replyQueue[i].reply.intact
============================================================================
