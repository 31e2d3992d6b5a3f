-------------------------- MODULE ReplyPathProofs --------------------------
(***************************************************************************)
(* Proofs about requests and replies, for any chain of modules, any source *)
(* of requests, any number of faults and any length of queues.             *)
(***************************************************************************)
EXTENDS ReplyPath, TLAPS

(***************************************************************************)
(* Sequences.                                                              *)
(***************************************************************************)

\* What a queue holds after a push.
LEMMA Pushed ==
    ASSUME NEW S, NEW s \in Seq(S), NEW e \in S
    PROVE  /\ Append(s, e) \in Seq(S)
           /\ Len(s) \in Nat
           /\ Len(Append(s, e)) = Len(s) + 1
           /\ \A i \in 1 .. Len(s) : Append(s, e)[i] = s[i]
           /\ Append(s, e)[Len(s) + 1] = e
OBVIOUS

\* What a queue holds after a pop.
LEMMA Popped ==
    ASSUME NEW S, NEW s \in Seq(S), s # <<>>
    PROVE  /\ Tail(s) \in Seq(S)
           /\ Head(s) \in S
           /\ Head(s) = s[1]
           /\ Len(s) \in Nat
           /\ 1 <= Len(s)
           /\ Len(Tail(s)) = Len(s) - 1
           /\ \A i \in 1 .. Len(s) - 1 : Tail(s)[i] = s[i + 1]
OBVIOUS

\* What a line holds when its first packet is damaged.
LEMMA Replaced ==
    ASSUME NEW S, NEW s \in Seq(S), s # <<>>, NEW e \in S
    PROVE  /\ <<e>> \o Tail(s) \in Seq(S)
           /\ Len(<<e>> \o Tail(s)) = Len(s)
           /\ (<<e>> \o Tail(s))[1] = e
           /\ \A i \in 2 .. Len(s) : (<<e>> \o Tail(s))[i] = s[i]
OBVIOUS

(***************************************************************************)
(* Types.                                                                  *)
(***************************************************************************)

\* The requests of the scheduler are well formed.
LEMMA RequestsTyped ==
    ASSUME NEW request \in Requests
    PROVE  Packet(request, NoLimit) \in PacketType
BY RequestsAssumption, SizesAssumption DEF PacketType, Packet, Module, Address, NoLimit

\* Those of the Modbus master are, and none of them reads settings.
LEMMA ModbusTyped ==
    /\ \A id \in IdentifyIds :
           Packet(To("Identify", id, id), NoLimit)
               \in {packet \in PacketType : packet.command # "ReadSettings"}
    /\ \A limit \in Limits :
           Packet(To("WriteSettings", 0, MaxModules), limit)
               \in {packet \in PacketType : packet.command # "ReadSettings"}
<1>1. ASSUME NEW id \in IdentifyIds
      PROVE  Packet(To("Identify", id, id), NoLimit)
                 \in {packet \in PacketType : packet.command # "ReadSettings"}
    <2>1. id \in Address
        BY IdentifyAssumption
    <2> QED
        BY <2>1 DEF PacketType, Packet, To
<1>2. ASSUME NEW limit \in Limits
      PROVE  Packet(To("WriteSettings", 0, MaxModules), limit)
                 \in {packet \in PacketType : packet.command # "ReadSettings"}
    <2>1. 0 \in Address /\ MaxModules \in Address
        BY SizesAssumption DEF Address
    <2> QED
        BY <2>1 DEF PacketType, Packet, To
<1> QED
    BY <1>1, <1>2

\* A request that leaves takes the next number.
LEMMA TransmitTyped ==
    ASSUME TypeOK, NEW packet \in PacketType, TransmitPacket(packet)
    PROVE  /\ transmitted' \in 0 .. MaxRequests
           /\ [packet |-> packet, number |-> transmitted + 1] \in RequestType
           /\ chain' \in Seq(RequestType)
<1>1. transmitted' \in 0 .. MaxRequests /\ transmitted + 1 \in 1 .. MaxRequests
    BY BoundsAssumption DEF TypeOK, TransmitPacket, Free
<1>2. [packet |-> packet, number |-> transmitted + 1] \in RequestType
    BY <1>1 DEF RequestType
<1>3. chain \in Seq(RequestType)
    BY DEF TypeOK
<1> QED
    BY <1>1, <1>2, <1>3, Pushed DEF TransmitPacket

\* What the chain makes of the packet that has passed it.
Reply(live) ==
    LET packet == Head(chain).packet
        m == packet.start_address IN
    [packet    |-> IF packet.command = "ReadSettings" /\ m < Present
                   THEN [packet EXCEPT !.limit = moduleLimit[m]] ELSE packet,
     number    |-> Head(chain).number,
     sequence  |-> Head(chain).number % Modulus,
     processed |-> Addressed(packet) # {},
     live      |-> live,
     intact    |-> TRUE]

\* The answer of the chain is well formed.
LEMMA AnswerTyped ==
    ASSUME TypeOK, NEW live, Answer(live)
    PROVE  /\ Head(chain) \in RequestType
           /\ Reply(live) \in ReplyType
           /\ line' = Append(line, Reply(live))
           /\ moduleLimit' \in [0 .. Present - 1 -> Limits]
<1> DEFINE packet == Head(chain).packet
           m == packet.start_address
<1>1. Head(chain) \in RequestType
    <2>1. chain \in Seq(RequestType) /\ chain # <<>>
        BY DEF TypeOK, Answer
    <2> QED
        BY <2>1, Popped
<1>2. packet \in PacketType /\ Head(chain).number \in 1 .. MaxRequests
    BY <1>1 DEF RequestType
<1>3. Head(chain).number % Modulus \in 0 .. Modulus - 1
    BY <1>2, BoundsAssumption
<1>4. live \subseteq 0 .. Present - 1
    BY DEF Answer, Addressed
<1>5. (IF packet.command = "ReadSettings" /\ m < Present
       THEN [packet EXCEPT !.limit = moduleLimit[m]] ELSE packet) \in PacketType
    <2>1. CASE packet.command = "ReadSettings" /\ m < Present
        <3>1. m \in 0 .. Present - 1
            BY <1>2, <2>1, SizesAssumption DEF PacketType, Module
        <3>2. moduleLimit[m] \in Limits
            BY <3>1 DEF TypeOK
        <3> QED
            BY <1>2, <2>1, <3>2 DEF PacketType
    <2> QED
        BY <1>2, <2>1
<1>6. (Addressed(packet) # {}) \in BOOLEAN
    OBVIOUS
<1>7. Reply(live) \in ReplyType
    BY <1>2, <1>3, <1>4, <1>5, <1>6 DEF Reply, ReplyType
<1>8. line' = Append(line, Reply(live))
    BY DEF Answer, Reply
<1>9. moduleLimit' \in [0 .. Present - 1 -> Limits]
    <2>1. packet.command = "WriteSettings" => packet.limit \in Limits
        BY <1>2 DEF PacketType
    <2> QED
        BY <2>1 DEF Answer, TypeOK
<1> QED
    BY <1>1, <1>7, <1>8, <1>9

\* What one accepted reply does to cmi[] stays within it.
LEMMA UseTyped ==
    ASSUME TypeOK, NEW reply \in ReplyType, Use(reply)
    PROVE  /\ settingsCached' \subseteq Module
           /\ cachedLimit' \in [Module -> Limits \cup {NoLimit}]
           /\ valid' \subseteq Module
           /\ cachedFrom' \in [Module -> Nat]
<1>1. reply.packet \in PacketType /\ reply.number \in 1 .. MaxRequests
      /\ reply.live \subseteq 0 .. Present - 1
    BY DEF ReplyType
<1>2. reply.live \subseteq Module
    BY <1>1, SizesAssumption DEF Module
<1>3. reply.number \in Nat
    BY <1>1, BoundsAssumption
<1>4. CASE UNCHANGED cmi
    BY <1>4 DEF cmi, TypeOK
<1>5. CASE ProcessReplyVoltage(reply)
    BY <1>2, <1>5 DEF ProcessReplyVoltage, TypeOK
<1>6. CASE reply.packet.command = "ReadSettings" /\ ProcessReplySettings(reply)
    <2>1. reply.packet.start_address \in Module /\ reply.packet.limit \in Limits \cup {NoLimit}
        BY <1>1, <1>6 DEF PacketType
    <2> QED
        BY <1>3, <1>6, <2>1 DEF ProcessReplySettings, TypeOK
<1> QED
    BY <1>4, <1>5, <1>6 DEF Use

\* Processing a reply keeps every type.
LEMMA ProcessTyped ==
    ASSUME TypeOK, ProcessReply
    PROVE  TypeOK'
<1> DEFINE received == Head(replyQueue)
           reply == received.reply
<1>1. /\ replyQueue' \in Seq(ReceivedType)
      /\ Len(replyQueue') <= ReplyCapacity
      /\ received \in ReceivedType
    <2>1. replyQueue \in Seq(ReceivedType) /\ replyQueue # <<>> /\ Len(replyQueue) <= ReplyCapacity
          /\ replyQueue' = Tail(replyQueue)
        BY DEF TypeOK, ProcessReply
    <2>2. ReplyCapacity \in Nat
        BY BoundsAssumption
    <2> QED
        BY <2>1, <2>2, Popped
<1>2. reply \in ReplyType
    BY <1>1 DEF ReceivedType
<1>3. reply.sequence \in 0 .. Modulus - 1 /\ reply.number \in Nat
    BY <1>2, BoundsAssumption DEF ReplyType
<1>4. CASE received.crcRight
    <2>1. Accept(reply)
        BY <1>4 DEF ProcessReply
    <2>2. /\ settingsCached' \subseteq Module
          /\ cachedLimit' \in [Module -> Limits \cup {NoLimit}]
          /\ valid' \subseteq Module
          /\ cachedFrom' \in [Module -> Nat]
        BY <1>2, <2>1, UseTyped DEF Accept
    <2>3. /\ totalOutofSequenceErrors' \in Nat
          /\ totalNotProcessedErrors' \in Nat
          /\ totalCRCErrors' \in Nat
          /\ packetLastReceivedSequence' \in 0 .. Modulus - 1
          /\ lastNumber' \in Nat
        BY <1>3, <2>1 DEF Accept, TypeOK
    <2> QED
        BY <1>1, <2>2, <2>3 DEF ProcessReply, TypeOK, requests, wire, faults
<1>5. CASE ~received.crcRight
    BY <1>1, <1>5 DEF ProcessReply, Reject, TypeOK, requests, wire, faults, cmi
<1> QED
    BY <1>4, <1>5

\* Whatever is sent, lost, damaged or answered, everything keeps its type; in
\* particular no reply reaches a module outside cmi[], and replyQueue its capacity.
THEOREM TypeCorrect == Spec => []TypeOK
<1>1. Init => TypeOK
    BY BoundsAssumption DEF Init, TypeOK, NoLimit
<1>2. TypeOK /\ [Next]_vars => TypeOK'
    <2> SUFFICES ASSUME TypeOK, [Next]_vars
                 PROVE  TypeOK'
        OBVIOUS
    <2> DEFINE ModbusPacket == {packet \in PacketType : packet.command # "ReadSettings"}
    <2>1. ASSUME NEW request \in Requests, Send(request)
          PROVE  TypeOK'
        BY <2>1, RequestsTyped, TransmitTyped
           DEF Send, TransmitPacket, TypeOK, counters, cmi, faults
    <2>2. ASSUME NEW id \in IdentifyIds, SendIdentify(id)
          PROVE  TypeOK'
        <3>1. requestQueue' \in Seq(ModbusPacket)
            BY <2>2, ModbusTyped DEF SendIdentify
        <3> QED
            BY <2>2, <3>1 DEF SendIdentify, TypeOK, wire, counters, cmi, faults
    <2>3. ASSUME NEW limit \in Limits, SendGlobalConfig(limit)
          PROVE  TypeOK'
        <3>1. requestQueue' \in Seq(ModbusPacket)
            BY <2>3, ModbusTyped DEF SendGlobalConfig
        <3> QED
            BY <2>3, <3>1 DEF SendGlobalConfig, TypeOK, wire, counters, faults
    <2>4. CASE Transmit
        <3>1. Head(requestQueue) \in ModbusPacket
            BY <2>4, Popped DEF Transmit, TypeOK
        <3> QED
            BY <2>4, <3>1, TransmitTyped
               DEF Transmit, TransmitPacket, TypeOK, counters, cmi, faults
    <2>5. ASSUME NEW live, Answer(live)
          PROVE  TypeOK'
        <3>1. line' \in Seq(ReplyType)
            <4>1. line \in Seq(ReplyType) /\ Reply(live) \in ReplyType
                  /\ line' = Append(line, Reply(live))
                BY <2>5, AnswerTyped DEF TypeOK
            <4> QED
                BY <4>1, Pushed
        <3>2. chain' \in Seq(RequestType)
            BY <2>5, Popped DEF Answer, TypeOK
        <3>3. written' \in Nat
            <4>1. Head(chain).number \in Nat
                BY <2>5, AnswerTyped, BoundsAssumption DEF RequestType
            <4>2. written' = written \/ written' = Head(chain).number
                BY <2>5 DEF Answer
            <4> QED
                BY <4>1, <4>2 DEF TypeOK
        <3>4. moduleLimit' \in [0 .. Present - 1 -> Limits]
            BY <2>5, AnswerTyped
        <3> QED
            BY <2>5, <3>1, <3>2, <3>3, <3>4 DEF Answer, TypeOK, requests, counters, cmi, faults
    <2>6. CASE LoseRequest
        <3>1. chain' \in Seq(RequestType)
            BY <2>6, Popped DEF LoseRequest, TypeOK
        <3> QED
            BY <2>6, <3>1 DEF LoseRequest, TypeOK, requests, counters, cmi
    <2>7. CASE LoseReply
        <3>1. line' \in Seq(ReplyType)
            BY <2>7, Popped DEF LoseReply, TypeOK
        <3> QED
            BY <2>7, <3>1 DEF LoseReply, TypeOK, requests, counters, cmi
    <2>8. CASE DamageReply
        <3>1. line \in Seq(ReplyType) /\ line # <<>>
            BY <2>8 DEF DamageReply, TypeOK
        <3>2. Head(line) \in ReplyType
            BY <3>1, Popped
        <3>3. ASSUME NEW command \in {Head(line).packet.command, "Timing"},
                     NEW sequence \in 0 .. Modulus - 1
              PROVE  [Head(line) EXCEPT !.packet.command = command,
                                        !.sequence = sequence,
                                        !.intact = FALSE] \in ReplyType
            <4>1. [Head(line).packet EXCEPT !.command = command] \in PacketType
                BY <3>2, <3>3 DEF ReplyType, PacketType
            <4> QED
                BY <3>2, <3>3, <4>1 DEF ReplyType
        <3>4. line' \in Seq(ReplyType)
            BY <2>8, <3>1, <3>3, Replaced DEF DamageReply
        <3> QED
            BY <2>8, <3>4 DEF DamageReply, TypeOK, requests, counters, cmi
    <2>9. CASE OnPacketReceived
        <3> DEFINE received == [reply |-> Head(line),
                                crcRight |-> Head(line).intact \/ Head(line).packet.command = "Timing"]
        <3>1. line' \in Seq(ReplyType) /\ Head(line) \in ReplyType
            BY <2>9, Popped DEF OnPacketReceived, TypeOK
        <3>2. received \in ReceivedType
            <4>1. (Head(line).intact \/ Head(line).packet.command = "Timing") \in BOOLEAN
                OBVIOUS
            <4> QED
                BY <3>1, <4>1 DEF ReceivedType
        <3>3. \/ replyQueue' = replyQueue /\ lost' = lost + 1
              \/ /\ Len(replyQueue) < ReplyCapacity
                 /\ replyQueue' = Append(replyQueue, received)
                 /\ lost' = lost
            BY <2>9 DEF OnPacketReceived
        <3>4. replyQueue' \in Seq(ReceivedType) /\ Len(replyQueue') <= ReplyCapacity
            <4>1. replyQueue \in Seq(ReceivedType) /\ Len(replyQueue) <= ReplyCapacity
                  /\ ReplyCapacity \in Nat
                BY BoundsAssumption DEF TypeOK
            <4> HIDE DEF received
            <4> QED
                BY <3>2, <3>3, <4>1, Pushed
        <3>5. lost' \in Nat
            BY <3>3 DEF TypeOK
        <3> QED
            BY <2>9, <3>1, <3>4, <3>5 DEF OnPacketReceived, TypeOK, requests, counters, cmi
    <2>10. CASE ProcessReply
        BY <2>10, ProcessTyped
    <2>11. CASE UNCHANGED vars
        BY <2>11 DEF vars, TypeOK, requests, wire, counters, cmi, faults
    <2> QED
        BY <2>1, <2>2, <2>3, <2>4, <2>5, <2>6, <2>7, <2>8, <2>9, <2>10, <2>11 DEF Next
<1> QED
    BY <1>1, <1>2, PTL DEF Spec

(***************************************************************************)
(* Settings read back are current.                                         *)
(*                                                                         *)
(* The chain is first in, first out: whatever has left it is older than    *)
(* whatever is still on it.  So when the modules execute a WriteSettings,  *)
(* every reply under way and every cached limit is older than it, and      *)
(* those that are younger were read after it.                              *)
(***************************************************************************)

ChainOrdered ==
    /\ \A j \in 1 .. Len(chain) : chain[j].number <= transmitted
    /\ \A i, j \in 1 .. Len(chain) : i < j => chain[i].number < chain[j].number

\* The request of that number has left the chain.
Past(number) ==
    /\ number <= transmitted
    /\ \A j \in 1 .. Len(chain) : number < chain[j].number

InOrder ==
    /\ ChainOrdered
    /\ Past(written)
    /\ \A i \in 1 .. Len(line) : Past(line[i].number)
    /\ \A i \in 1 .. Len(replyQueue) : Past(replyQueue[i].reply.number)
    /\ \A m \in Module : Past(cachedFrom[m])

\* Settings in a reply come from a module on the chain, and are its own unless a
\* WriteSettings was executed later.
Right(reply) ==
    reply.packet.command = "ReadSettings" /\ reply.processed =>
        /\ reply.packet.start_address \in 0 .. Present - 1
        /\ reply.number > written =>
               reply.packet.limit = moduleLimit[reply.packet.start_address]

RepliesRight ==
    /\ \A i \in 1 .. Len(line) : Right(line[i])
    /\ \A i \in 1 .. Len(replyQueue) : Right(replyQueue[i].reply)

FreshInv == InOrder /\ RepliesRight /\ OnlyPresentModulesKnown /\ RereadSettingsAreCurrent

\* Past(number) in the next state, of a number in this one.
PastNext(number) ==
    /\ number <= transmitted'
    /\ \A j \in 1 .. Len(chain') : number < chain'[j].number

\* The members of a sequence.
LEMMA Members ==
    ASSUME NEW S, NEW s \in Seq(S)
    PROVE  /\ Len(s) \in Nat
           /\ \A i \in 1 .. Len(s) : s[i] \in S
OBVIOUS

\* Requests on the chain have numbers.
LEMMA Numbers ==
    ASSUME TypeOK
    PROVE  /\ Len(chain) \in Nat
           /\ \A i \in 1 .. Len(chain) : chain[i] \in RequestType /\ chain[i].number \in Nat
<1>1. Len(chain) \in Nat /\ \A i \in 1 .. Len(chain) : chain[i] \in RequestType
    <2>1. chain \in Seq(RequestType)
        BY DEF TypeOK
    <2> QED
        BY <2>1, Members
<1>2. \A e \in RequestType : e.number \in Nat
    BY BoundsAssumption DEF RequestType
<1> QED
    BY <1>1, <1>2

\* A request that is transmitted is younger than all that has left the chain.
LEMMA TransmitInOrder ==
    ASSUME TypeOK, InOrder, NEW packet \in PacketType, TransmitPacket(packet)
    PROVE  /\ ChainOrdered'
           /\ \A number \in Nat : Past(number) => PastNext(number)
<1> DEFINE e == [packet |-> packet, number |-> transmitted + 1]
<1>1. /\ e \in RequestType /\ chain \in Seq(RequestType)
      /\ chain' = Append(chain, e)
    BY TransmitTyped DEF TypeOK, TransmitPacket
<1>2. e.number = transmitted + 1 /\ transmitted' = transmitted + 1 /\ transmitted \in Nat
    BY BoundsAssumption DEF TypeOK, TransmitPacket
<1> HIDE DEF e
<1>3. /\ Len(chain) \in Nat /\ Len(chain') = Len(chain) + 1
      /\ \A i \in 1 .. Len(chain) : chain'[i] = chain[i]
      /\ chain'[Len(chain) + 1] = e
    BY <1>1, Pushed
<1>4. \A i \in 1 .. Len(chain) : chain[i].number \in Nat
    BY Numbers
<1>5. \A j \in 1 .. Len(chain') :
          \/ j \in 1 .. Len(chain) /\ chain'[j] = chain[j]
          \/ j = Len(chain) + 1 /\ chain'[j].number = transmitted + 1
    BY <1>2, <1>3
<1>6. ChainOrdered'
    <2>1. ASSUME NEW j \in 1 .. Len(chain')
          PROVE  chain'[j].number <= transmitted'
        <3>1. j \in 1 .. Len(chain) => chain[j].number <= transmitted
            BY DEF InOrder, ChainOrdered
        <3> QED
            BY <1>2, <1>4, <1>5, <3>1
    <2>2. ASSUME NEW i \in 1 .. Len(chain'), NEW j \in 1 .. Len(chain'), i < j
          PROVE  chain'[i].number < chain'[j].number
        <3>1. i \in 1 .. Len(chain) /\ chain'[i] = chain[i]
            BY <1>3, <2>2
        <3>2. chain[i].number <= transmitted
            BY <3>1 DEF InOrder, ChainOrdered
        <3>3. CASE j \in 1 .. Len(chain) /\ chain'[j] = chain[j]
            BY <2>2, <3>1, <3>3 DEF InOrder, ChainOrdered
        <3>4. CASE j = Len(chain) + 1 /\ chain'[j].number = transmitted + 1
            BY <1>2, <1>4, <3>1, <3>2, <3>4
        <3> QED
            BY <1>5, <3>3, <3>4
    <2> QED
        BY <2>1, <2>2 DEF ChainOrdered
<1>7. ASSUME NEW number \in Nat, Past(number)
      PROVE  PastNext(number)
    BY <1>2, <1>5, <1>7 DEF Past, PastNext
<1> QED
    BY <1>6, <1>7

\* A packet that leaves the chain was older than all that stay.
LEMMA LeaveInOrder ==
    ASSUME TypeOK, InOrder, chain # <<>>, chain' = Tail(chain), transmitted' = transmitted
    PROVE  /\ ChainOrdered'
           /\ \A number \in Nat : Past(number) => PastNext(number)
           /\ PastNext(Head(chain).number)
<1>1. chain \in Seq(RequestType)
    BY DEF TypeOK
<1>2. /\ Head(chain) = chain[1]
      /\ Len(chain) \in Nat /\ 1 <= Len(chain)
      /\ Len(chain') = Len(chain) - 1
      /\ \A i \in 1 .. Len(chain) - 1 : chain'[i] = chain[i + 1]
    BY <1>1, Popped
<1>3. \A i \in 1 .. Len(chain) : chain[i].number \in Nat
    BY Numbers
<1>4. \A i \in 1 .. Len(chain') : i + 1 \in 1 .. Len(chain) /\ chain'[i] = chain[i + 1]
    BY <1>2
<1>5. ChainOrdered'
    BY <1>2, <1>3, <1>4 DEF InOrder, ChainOrdered
<1>6. ASSUME NEW number \in Nat, Past(number)
      PROVE  PastNext(number)
    BY <1>4, <1>6 DEF Past, PastNext
<1>7. PastNext(Head(chain).number)
    <2>1. chain[1].number <= transmitted'
        BY <1>2 DEF InOrder, ChainOrdered
    <2>2. ASSUME NEW j \in 1 .. Len(chain')
          PROVE  chain[1].number < chain'[j].number
        BY <1>2, <1>4 DEF InOrder, ChainOrdered
    <2> QED
        BY <1>2, <2>1, <2>2 DEF PastNext
<1> QED
    BY <1>5, <1>6, <1>7

\* While nothing enters or leaves the chain, what has left it stays out.
LEMMA ChainSame ==
    ASSUME InOrder, UNCHANGED <<transmitted, chain>>
    PROVE  /\ ChainOrdered'
           /\ \A number \in Nat : Past(number) => PastNext(number)
BY DEF InOrder, ChainOrdered, Past, PastNext

\* Replies under way are replies, and their numbers and those of cached limits past.
LEMMA Replies ==
    ASSUME TypeOK, InOrder
    PROVE  /\ written \in Nat /\ Past(written)
           /\ \A i \in 1 .. Len(line) :
                  line[i] \in ReplyType /\ line[i].number \in Nat /\ Past(line[i].number)
           /\ \A i \in 1 .. Len(replyQueue) :
                  /\ replyQueue[i].reply \in ReplyType
                  /\ replyQueue[i].reply.number \in Nat
                  /\ Past(replyQueue[i].reply.number)
           /\ \A m \in Module : cachedFrom[m] \in Nat /\ Past(cachedFrom[m])
<1>1. line \in Seq(ReplyType) /\ replyQueue \in Seq(ReceivedType) /\ written \in Nat
      /\ cachedFrom \in [Module -> Nat]
    BY DEF TypeOK
<1>2. \A reply \in ReplyType : reply.number \in Nat
    BY BoundsAssumption DEF ReplyType
<1>3. \A received \in ReceivedType : received.reply \in ReplyType
    BY DEF ReceivedType
<1>4. /\ \A i \in 1 .. Len(line) : line[i] \in ReplyType
      /\ \A i \in 1 .. Len(replyQueue) : replyQueue[i] \in ReceivedType
    BY <1>1, Members
<1> QED
    BY <1>1, <1>2, <1>3, <1>4 DEF InOrder

\* A step that moves neither replies nor what was read or written keeps their order.
LEMMA KeepInOrder ==
    ASSUME TypeOK, InOrder, ChainOrdered',
           \A number \in Nat : Past(number) => PastNext(number),
           UNCHANGED <<line, replyQueue, written, cachedFrom>>
    PROVE  InOrder'
<1>1. PastNext(written)
    BY Replies
<1>2. \A i \in 1 .. Len(line) : PastNext(line[i].number)
    BY Replies
<1>3. \A i \in 1 .. Len(replyQueue) : PastNext(replyQueue[i].reply.number)
    BY Replies
<1>4. \A m \in Module : PastNext(cachedFrom[m])
    BY Replies
<1> QED
    BY <1>1, <1>2, <1>3, <1>4 DEF InOrder, Past, PastNext

\* Sending keeps the order.
LEMMA TransmitFresh ==
    ASSUME TypeOK, FreshInv, NEW packet \in PacketType, TransmitPacket(packet)
    PROVE  FreshInv'
<1>1. InOrder'
    BY TransmitInOrder, KeepInOrder DEF FreshInv, TransmitPacket, cmi
<1>2. UNCHANGED <<line, replyQueue, written, moduleLimit, cmi>>
    BY DEF TransmitPacket
<1>3. RepliesRight'
    BY <1>2 DEF FreshInv, RepliesRight, Right
<1> QED
    BY <1>1, <1>2, <1>3 DEF FreshInv, OnlyPresentModulesKnown, RereadSettingsAreCurrent, cmi

\* An answer is right, and those before it stay so or are outdated by it.
LEMMA AnswerFresh ==
    ASSUME TypeOK, FreshInv, NEW live, Answer(live)
    PROVE  FreshInv'
<1> DEFINE packet == Head(chain).packet
           number == Head(chain).number
           reply == Reply(live)
<1>1. /\ ChainOrdered'
      /\ \A n \in Nat : Past(n) => PastNext(n)
      /\ PastNext(number)
    BY LeaveInOrder DEF FreshInv, Answer, requests
<1>2. /\ line \in Seq(ReplyType) /\ reply \in ReplyType /\ line' = Append(line, reply)
      /\ packet \in PacketType /\ number \in Nat
    BY AnswerTyped, BoundsAssumption DEF TypeOK, RequestType
<1>3. /\ reply.number = number
      /\ reply.packet.command = packet.command
      /\ reply.packet.start_address = packet.start_address
      /\ reply.processed = (Addressed(packet) # {})
    BY <1>2 DEF Reply, PacketType
<1>4. UNCHANGED <<transmitted, replyQueue, cmi>>
    BY DEF Answer, requests
<1>5. /\ packet.command = "WriteSettings" => written' = number
      /\ packet.command # "WriteSettings" => written' = written
    BY DEF Answer
<1>6. \A n \in Nat : Past(n) => n < number
    BY Numbers, Popped DEF Past, Answer, TypeOK
<1>7. packet.command = "ReadSettings" /\ reply.processed =>
          /\ packet.start_address \in 0 .. Present - 1
          /\ reply.packet.limit = moduleLimit[packet.start_address]
    <2> SUFFICES ASSUME packet.command = "ReadSettings", Addressed(packet) # {}
                 PROVE  /\ packet.start_address \in 0 .. Present - 1
                        /\ reply.packet.limit = moduleLimit[packet.start_address]
        BY <1>3
    <2>1. packet.start_address = packet.end_address /\ packet.start_address \in Module
        BY <1>2 DEF PacketType
    <2>2. packet.start_address \in 0 .. Present - 1
        BY <2>1, SizesAssumption DEF Addressed, Module
    <2>3. packet.start_address < Present
        BY <2>2, SizesAssumption
    <2>4. reply.packet = [packet EXCEPT !.limit = moduleLimit[packet.start_address]]
        BY <2>3 DEF Reply
    <2>5. [packet EXCEPT !.limit = moduleLimit[packet.start_address]].limit
              = moduleLimit[packet.start_address]
        BY <1>2 DEF PacketType
    <2> QED
        BY <2>2, <2>4, <2>5
<1>8. packet.command # "WriteSettings" => moduleLimit' = moduleLimit
    BY DEF Answer, TypeOK
<1> HIDE DEF packet, number, reply
<1>9. \A i \in 1 .. Len(line') :
          \/ i \in 1 .. Len(line) /\ line'[i] = line[i]
          \/ line'[i] = reply
    BY <1>2, Pushed
<1>10. InOrder'
    <2>1. PastNext(written')
        BY <1>1, <1>5, Replies DEF FreshInv
    <2>2. \A i \in 1 .. Len(line') : PastNext(line'[i].number)
        BY <1>1, <1>3, <1>9, Replies DEF FreshInv
    <2>3. \A i \in 1 .. Len(replyQueue) : PastNext(replyQueue[i].reply.number)
        BY <1>1, Replies DEF FreshInv
    <2>4. \A m \in Module : PastNext(cachedFrom[m])
        BY <1>1, Replies DEF FreshInv
    <2> QED
        BY <1>1, <1>4, <2>1, <2>2, <2>3, <2>4 DEF InOrder, Past, PastNext, cmi
<1>11. CASE packet.command = "WriteSettings"
    <2>1. /\ \A i \in 1 .. Len(line) : ~(line[i].number > written')
          /\ \A i \in 1 .. Len(replyQueue) : ~(replyQueue[i].reply.number > written')
          /\ \A m \in Module : ~(cachedFrom[m] > written')
        BY <1>2, <1>5, <1>6, <1>11, Replies DEF FreshInv
    <2>2. RepliesRight'
        BY <1>3, <1>4, <1>9, <1>11, <2>1 DEF FreshInv, RepliesRight, Right
    <2>3. RereadSettingsAreCurrent'
        BY <1>4, <2>1 DEF RereadSettingsAreCurrent, cmi, TypeOK
    <2> QED
        BY <1>4, <1>10, <2>2, <2>3 DEF FreshInv, OnlyPresentModulesKnown, cmi
<1>12. CASE packet.command # "WriteSettings"
    <2>1. UNCHANGED <<written, moduleLimit, replyQueue, cmi>>
        BY <1>4, <1>5, <1>8, <1>12
    <2>2. RepliesRight'
        BY <1>3, <1>7, <1>9, <2>1 DEF FreshInv, RepliesRight, Right
    <2> QED
        BY <1>10, <2>1, <2>2 DEF FreshInv, OnlyPresentModulesKnown, RereadSettingsAreCurrent, cmi
<1> QED
    BY <1>11, <1>12

\* A reply on its way is lost, damaged or received: it stays right, and in order.
LEMMA LineFresh ==
    ASSUME TypeOK, FreshInv,
           UNCHANGED <<transmitted, chain, written, moduleLimit, cmi>>,
           \A i \in 1 .. Len(line') :
               \E j \in 1 .. Len(line) :
                   /\ line'[i].number = line[j].number
                   /\ Right(line[j]) => Right(line'[i]),
           \A i \in 1 .. Len(replyQueue') :
               \/ \E j \in 1 .. Len(replyQueue) : replyQueue'[i].reply = replyQueue[j].reply
               \/ \E j \in 1 .. Len(line) : replyQueue'[i].reply = line[j]
    PROVE  FreshInv'
<1>1. ChainOrdered' /\ \A n \in Nat : Past(n) => PastNext(n)
    BY ChainSame DEF FreshInv
<1>2. InOrder'
    <2>1. PastNext(written)
        BY <1>1, Replies DEF FreshInv
    <2>2. \A i \in 1 .. Len(line') : PastNext(line'[i].number)
        BY <1>1, Replies DEF FreshInv
    <2>3. \A i \in 1 .. Len(replyQueue') : PastNext(replyQueue'[i].reply.number)
        BY <1>1, Replies DEF FreshInv
    <2>4. \A m \in Module : PastNext(cachedFrom[m])
        BY <1>1, Replies DEF FreshInv
    <2> QED
        BY <1>1, <2>1, <2>2, <2>3, <2>4 DEF InOrder, Past, PastNext, cmi
<1>3. RepliesRight'
    <2>1. /\ \A i \in 1 .. Len(line) : Right(line[i])
          /\ \A i \in 1 .. Len(replyQueue) : Right(replyQueue[i].reply)
        BY DEF FreshInv, RepliesRight
    <2>2. \A i \in 1 .. Len(line') : Right(line'[i])
        BY <2>1
    <2>3. \A i \in 1 .. Len(replyQueue') : Right(replyQueue'[i].reply)
        BY <2>1
    <2> QED
        BY <2>2, <2>3 DEF RepliesRight, Right
<1> QED
    BY <1>2, <1>3 DEF FreshInv, OnlyPresentModulesKnown, RereadSettingsAreCurrent, cmi

\* What a reply brings into cmi[] is right when the reply is.
LEMMA ProcessFresh ==
    ASSUME TypeOK, FreshInv, ProcessReply
    PROVE  FreshInv'
<1> DEFINE received == Head(replyQueue)
           reply == received.reply
<1>1. /\ replyQueue # <<>> /\ replyQueue' = Tail(replyQueue)
      /\ UNCHANGED <<transmitted, chain, line, written, moduleLimit>>
    BY DEF ProcessReply, requests, wire
<1>2. /\ 1 \in 1 .. Len(replyQueue) /\ Head(replyQueue) = replyQueue[1]
      /\ \A i \in 1 .. Len(replyQueue') :
             i + 1 \in 1 .. Len(replyQueue) /\ replyQueue'[i] = replyQueue[i + 1]
    BY <1>1, Popped DEF TypeOK
<1>3. reply \in ReplyType /\ reply.number \in Nat /\ Past(reply.number)
    BY <1>2, Replies DEF FreshInv
<1>4. Right(reply)
    BY <1>2 DEF FreshInv, RepliesRight
<1>5. UNCHANGED cmi \/ ProcessReplyVoltage(reply)
          \/ (/\ reply.processed /\ reply.packet.command = "ReadSettings"
              /\ ProcessReplySettings(reply))
    <2>1. Accept(reply) \/ Reject(reply)
        BY DEF ProcessReply
    <2>2. CASE Accept(reply)
        BY <2>2 DEF Accept, Use
    <2>3. CASE Reject(reply)
        BY <2>3 DEF Reject
    <2> QED
        BY <2>1, <2>2, <2>3
<1> HIDE DEF received, reply
<1>6. ChainOrdered' /\ \A n \in Nat : Past(n) => PastNext(n)
    BY <1>1, ChainSame DEF FreshInv
<1>7. cachedFrom' = cachedFrom \/ \E m \in Module : cachedFrom' = [cachedFrom EXCEPT ![m] = reply.number]
    <2>1. reply.packet.command = "ReadSettings" => reply.packet.start_address \in Module
        BY <1>3 DEF ReplyType, PacketType
    <2> QED
        BY <1>5, <2>1 DEF ProcessReplyVoltage, ProcessReplySettings, cmi
<1>8. InOrder'
    <2>1. PastNext(written)
        BY <1>6, Replies DEF FreshInv
    <2>2. \A i \in 1 .. Len(line) : PastNext(line[i].number)
        BY <1>6, Replies DEF FreshInv
    <2>3. \A i \in 1 .. Len(replyQueue') : PastNext(replyQueue'[i].reply.number)
        BY <1>2, <1>6, Replies DEF FreshInv
    <2>4. \A m \in Module : PastNext(cachedFrom'[m])
        <3>1. \A m \in Module : PastNext(cachedFrom[m])
            BY <1>6, Replies DEF FreshInv
        <3>2. PastNext(reply.number)
            BY <1>3, <1>6
        <3>3. cachedFrom \in [Module -> Nat]
            BY DEF TypeOK
        <3> QED
            BY <1>7, <3>1, <3>2, <3>3
    <2> QED
        BY <1>1, <1>6, <2>1, <2>2, <2>3, <2>4 DEF InOrder, Past, PastNext
<1>9. RepliesRight'
    BY <1>1, <1>2 DEF FreshInv, RepliesRight, Right
<1>10. OnlyPresentModulesKnown'
    <2>1. CASE UNCHANGED cmi
        BY <2>1 DEF FreshInv, OnlyPresentModulesKnown, cmi
    <2>2. CASE ProcessReplyVoltage(reply)
        BY <1>3, <2>2 DEF FreshInv, OnlyPresentModulesKnown, ProcessReplyVoltage, ReplyType
    <2>3. CASE reply.processed /\ reply.packet.command = "ReadSettings"
               /\ ProcessReplySettings(reply)
        BY <1>4, <2>3 DEF FreshInv, OnlyPresentModulesKnown, ProcessReplySettings, Right
    <2> QED
        BY <1>5, <2>1, <2>2, <2>3
<1>11. RereadSettingsAreCurrent'
    <2>1. CASE UNCHANGED cmi
        BY <1>1, <2>1 DEF FreshInv, RereadSettingsAreCurrent, cmi
    <2>2. CASE ProcessReplyVoltage(reply)
        BY <1>1, <2>2 DEF FreshInv, RereadSettingsAreCurrent, ProcessReplyVoltage
    <2>3. CASE reply.processed /\ reply.packet.command = "ReadSettings"
               /\ ProcessReplySettings(reply)
        <3> DEFINE s == reply.packet.start_address
        <3>1. s \in Module
            BY <1>3, <2>3 DEF ReplyType, PacketType
        <3>2. reply.number > written => reply.packet.limit = moduleLimit[s]
            BY <1>4, <2>3 DEF Right
        <3>3. /\ settingsCached' = settingsCached \cup {s}
              /\ cachedLimit' = [cachedLimit EXCEPT ![s] = reply.packet.limit]
              /\ cachedFrom' = [cachedFrom EXCEPT ![s] = reply.number]
            BY <2>3 DEF ProcessReplySettings
        <3>4. /\ cachedLimit \in [Module -> Limits \cup {NoLimit}]
              /\ cachedFrom \in [Module -> Nat] /\ settingsCached \subseteq Module
            BY DEF TypeOK
        <3> HIDE DEF s
        <3>5. ASSUME NEW m \in settingsCached', cachedFrom'[m] > written'
              PROVE  cachedLimit'[m] = moduleLimit'[m]
            <4>1. CASE m = s
                BY <1>1, <3>1, <3>2, <3>3, <3>4, <3>5, <4>1
            <4>2. CASE m # s
                <5>1. m \in settingsCached /\ cachedFrom'[m] = cachedFrom[m]
                      /\ cachedLimit'[m] = cachedLimit[m]
                    BY <3>3, <3>4, <4>2
                <5> QED
                    BY <1>1, <3>5, <5>1 DEF FreshInv, RereadSettingsAreCurrent
            <4> QED
                BY <4>1, <4>2
        <3> QED
            BY <3>5 DEF RereadSettingsAreCurrent
    <2> QED
        BY <1>5, <2>1, <2>2, <2>3
<1> QED
    BY <1>8, <1>9, <1>10, <1>11 DEF FreshInv

\* Every step keeps replies in order and right.
LEMMA StepFresh ==
    ASSUME TypeOK, FreshInv, [Next]_vars
    PROVE  FreshInv'
<1>1. ASSUME NEW request \in Requests, Send(request)
      PROVE  FreshInv'
    BY <1>1, RequestsTyped, TransmitFresh DEF Send
<1>2. CASE Transmit
    <2>1. Head(requestQueue) \in PacketType
        BY <1>2, Popped DEF Transmit, TypeOK
    <2> QED
        BY <1>2, <2>1, TransmitFresh DEF Transmit
<1>3. CASE \/ \E id \in IdentifyIds : SendIdentify(id)
           \/ \E limit \in Limits : SendGlobalConfig(limit)
           \/ UNCHANGED vars
    <2>1. /\ UNCHANGED <<transmitted, wire, replyQueue, cachedLimit, valid, cachedFrom>>
          /\ settingsCached' \subseteq settingsCached
        BY <1>3 DEF SendIdentify, SendGlobalConfig, vars, requests, cmi
    <2>2. InOrder'
        BY <2>1, ChainSame, KeepInOrder DEF FreshInv, wire
    <2>3. RepliesRight'
        BY <2>1 DEF FreshInv, RepliesRight, Right, wire
    <2> QED
        BY <2>1, <2>2, <2>3
           DEF FreshInv, OnlyPresentModulesKnown, RereadSettingsAreCurrent, wire
<1>4. ASSUME NEW live, Answer(live)
      PROVE  FreshInv'
    BY <1>4, AnswerFresh
<1>5. CASE LoseRequest
    <2>1. UNCHANGED <<transmitted, line, replyQueue, written, moduleLimit, cmi>>
        BY <1>5 DEF LoseRequest, requests
    <2>2. InOrder'
        BY <1>5, <2>1, LeaveInOrder, KeepInOrder DEF FreshInv, LoseRequest, cmi
    <2>3. RepliesRight'
        BY <2>1 DEF FreshInv, RepliesRight, Right
    <2> QED
        BY <2>1, <2>2, <2>3
           DEF FreshInv, OnlyPresentModulesKnown, RereadSettingsAreCurrent, cmi
<1>6. CASE LoseReply
    <2>1. /\ line # <<>> /\ line' = Tail(line)
          /\ UNCHANGED <<transmitted, chain, written, moduleLimit, cmi, replyQueue>>
        BY <1>6 DEF LoseReply, requests
    <2>2. \A i \in 1 .. Len(line') : i + 1 \in 1 .. Len(line) /\ line'[i] = line[i + 1]
        BY <2>1, Popped DEF TypeOK
    <2> QED
        BY <2>1, <2>2, LineFresh
<1>7. CASE DamageReply
    <2>1. /\ line # <<>> /\ line \in Seq(ReplyType)
          /\ UNCHANGED <<transmitted, chain, written, moduleLimit, cmi, replyQueue>>
        BY <1>7 DEF DamageReply, requests, TypeOK
    <2>2. /\ Head(line) \in ReplyType /\ Head(line) = line[1] /\ 1 \in 1 .. Len(line)
          /\ Len(line) \in Nat
        BY <2>1, Popped
    <2>3. PICK command \in {Head(line).packet.command, "Timing"}, sequence \in 0 .. Modulus - 1 :
              line' = <<[Head(line) EXCEPT !.packet.command = command,
                                           !.sequence = sequence,
                                           !.intact = FALSE]>> \o Tail(line)
        BY <1>7 DEF DamageReply
    <2> DEFINE reply == [Head(line) EXCEPT !.packet.command = command,
                                           !.sequence = sequence,
                                           !.intact = FALSE]
    <2>4. /\ reply \in ReplyType
          /\ reply.number = Head(line).number
          /\ Right(Head(line)) => Right(reply)
        <3>1. [Head(line).packet EXCEPT !.command = command] \in PacketType
            BY <2>2, <2>3 DEF ReplyType, PacketType
        <3>2. reply \in ReplyType /\ reply.number = Head(line).number
              /\ reply.processed = Head(line).processed
              /\ reply.packet = [Head(line).packet EXCEPT !.command = command]
            BY <2>2, <3>1 DEF ReplyType
        <3>3. /\ reply.packet.command = command
              /\ reply.packet.start_address = Head(line).packet.start_address
              /\ reply.packet.limit = Head(line).packet.limit
            BY <2>2, <3>2 DEF ReplyType, PacketType
        <3> HIDE DEF reply
        <3> QED
            BY <2>3, <3>2, <3>3 DEF Right
    <2> HIDE DEF reply
    <2>5. /\ Len(line') = Len(line) /\ line'[1] = reply
          /\ \A i \in 2 .. Len(line) : line'[i] = line[i]
        BY <2>1, <2>3, <2>4, Replaced DEF reply
    <2>6. \A i \in 1 .. Len(line') :
              \E j \in 1 .. Len(line) :
                  /\ line'[i].number = line[j].number
                  /\ Right(line[j]) => Right(line'[i])
        <3> SUFFICES ASSUME NEW i \in 1 .. Len(line')
                     PROVE  /\ i \in 1 .. Len(line)
                            /\ line'[i].number = line[i].number
                            /\ Right(line[i]) => Right(line'[i])
            OBVIOUS
        <3>1. i = 1 \/ i \in 2 .. Len(line)
            BY <2>2, <2>5
        <3> QED
            BY <2>2, <2>4, <2>5, <3>1
    <2> QED
        BY <2>1, <2>6, LineFresh
<1>8. CASE OnPacketReceived
    <2> DEFINE received == [reply |-> Head(line),
                            crcRight |-> Head(line).intact \/ Head(line).packet.command = "Timing"]
    <2>1. /\ line # <<>> /\ line' = Tail(line)
          /\ UNCHANGED <<transmitted, chain, written, moduleLimit, cmi>>
          /\ replyQueue' = replyQueue \/ replyQueue' = Append(replyQueue, received)
        BY <1>8 DEF OnPacketReceived, requests
    <2>2. /\ \A i \in 1 .. Len(line') : i + 1 \in 1 .. Len(line) /\ line'[i] = line[i + 1]
          /\ 1 \in 1 .. Len(line) /\ Head(line) = line[1] /\ Head(line) \in ReplyType
        BY <2>1, Popped DEF TypeOK
    <2>3. /\ received.reply = line[1]
          /\ received \in ReceivedType
        <3>1. (Head(line).intact \/ Head(line).packet.command = "Timing") \in BOOLEAN
            OBVIOUS
        <3> QED
            BY <2>2, <3>1 DEF ReceivedType
    <2> HIDE DEF received
    <2>4. replyQueue \in Seq(ReceivedType)
        BY DEF TypeOK
    <2>5. \A i \in 1 .. Len(replyQueue') :
              \/ i \in 1 .. Len(replyQueue) /\ replyQueue'[i] = replyQueue[i]
              \/ replyQueue'[i] = received
        BY <2>1, <2>3, <2>4, Pushed
    <2>6. \A i \in 1 .. Len(replyQueue') :
              \/ \E j \in 1 .. Len(replyQueue) : replyQueue'[i].reply = replyQueue[j].reply
              \/ \E j \in 1 .. Len(line) : replyQueue'[i].reply = line[j]
        BY <2>2, <2>3, <2>5
    <2> QED
        BY <2>1, <2>2, <2>6, LineFresh
<1>9. CASE ProcessReply
    BY <1>9, ProcessFresh
<1> QED
    BY <1>1, <1>2, <1>3, <1>4, <1>5, <1>6, <1>7, <1>8, <1>9 DEF Next

\* FreshInv holds in every state.
LEMMA Fresh == Spec => []FreshInv
<1>1. Init => FreshInv
    <2> SUFFICES ASSUME Init
                 PROVE  FreshInv
        OBVIOUS
    <2>1. /\ Len(chain) = 0 /\ Len(line) = 0 /\ Len(replyQueue) = 0
          /\ transmitted = 0 /\ written = 0 /\ settingsCached = {} /\ valid = {}
          /\ \A m \in Module : cachedFrom[m] = 0
        BY DEF Init
    <2>2. InOrder /\ RepliesRight
        BY <2>1 DEF InOrder, ChainOrdered, Past, RepliesRight
    <2> QED
        BY <2>1, <2>2 DEF FreshInv, OnlyPresentModulesKnown, RereadSettingsAreCurrent
<1>2. TypeOK /\ FreshInv /\ [Next]_vars => FreshInv'
    BY StepFresh
<1> QED
    BY <1>1, <1>2, TypeCorrect, PTL DEF Spec

\* However many modules are configured, replies are only ever stored for those on the
\* chain (PacketReceiveProcessor stores from start_address without asking who answered).
THEOREM OnlyPresent == Spec => []OnlyPresentModulesKnown
<1>1. FreshInv => OnlyPresentModulesKnown
    BY DEF FreshInv
<1> QED
    BY <1>1, Fresh, PTL

\* Settings read after the last WriteSettings a module executed are that module's own,
\* for any number of requests and replies in flight and any faults (ProcessReplySettings
\* stores whatever reply it is given, old or new).
THEOREM RereadCurrent == Spec => []RereadSettingsAreCurrent
<1>1. FreshInv => RereadSettingsAreCurrent
    BY DEF FreshInv
<1> QED
    BY <1>1, Fresh, PTL

============================================================================
