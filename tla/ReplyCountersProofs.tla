------------------------ MODULE ReplyCountersProofs ------------------------
(***************************************************************************)
(* Proofs about the error counters of PacketReceiveProcessor: they count   *)
(* every gap, and nothing that no loss or damage explains, for any number  *)
(* of faults and wherever the sequence number wraps.                       *)
(*                                                                         *)
(* Nothing ties a counter to its causes one by one, as a reply that is     *)
(* lost shows only in the number of a later one.  So the proof keeps an    *)
(* account (Account): what was lost or damaged pays for the errors counted *)
(* and for those still to come, from gaps and damage in replies under way. *)
(***************************************************************************)
EXTENDS ReplyPathProofs, FiniteSets, FiniteSetTheorems

(***************************************************************************)
(* Numbers in order.                                                       *)
(***************************************************************************)

\* A reply that was not damaged carries the residue of its request's number, and
\* passes the CRC.
Sound(reply) == reply.intact => reply.sequence = reply.number % Modulus

RepliesSound ==
    /\ \A i \in 1 .. Len(line) : Sound(line[i])
    /\ \A i \in 1 .. Len(replyQueue) :
           Sound(replyQueue[i].reply) /\ (replyQueue[i].reply.intact => replyQueue[i].crcRight)

RepliesOrdered ==
    /\ \A i, j \in 1 .. Len(line) : i < j => line[i].number < line[j].number
    /\ \A i \in 1 .. Len(replyQueue), j \in 1 .. Len(line) :
           replyQueue[i].reply.number < line[j].number
    /\ \A i, j \in 1 .. Len(replyQueue) :
           i < j => replyQueue[i].reply.number < replyQueue[j].reply.number

\* The last sequence number is that of the reply it is taken for.
LastRight == lastNumber # 0 => packetLastReceivedSequence = lastNumber % Modulus

CounterInv == RepliesSound /\ RepliesOrdered /\ LastRight

(***************************************************************************)
(* The account of errors.                                                  *)
(***************************************************************************)

Items(s) == {s[i] : i \in 1 .. Len(s)}

ChainNumbers == {request.number : request \in Items(chain)}
LineNumbers == {reply.number : reply \in Items(line)}
QueueNumbers == {received.reply.number : received \in Items(replyQueue)}
UnderWay == ChainNumbers \cup LineNumbers \cup QueueNumbers

DamagedUnderWay ==
    {reply.number : reply \in {r \in Items(line) : ~r.intact}}
    \cup {received.reply.number : received \in {r \in Items(replyQueue) : ~r.reply.intact}}

\* Requests after number h whose replies will never come.
Missing(h) == ((h + 1) .. transmitted) \ UnderWay

Errors == totalOutofSequenceErrors + totalCRCErrors

\* h is the number of the reply processed last; owed is 1 if that one was damaged, and
\* the next may look out of sequence for it.
Balanced(h, owed) ==
    /\ \A n \in UnderWay : h < n
    /\ owed = 0 => packetLastReceivedSequence = h % Modulus
    /\ Errors + Cardinality(Missing(h)) + 2 * Cardinality(DamagedUnderWay) + owed
       <= lost + 2 * damaged

Account == \E h \in 0 .. transmitted, owed \in 0 .. 1 : Balanced(h, owed)

(***************************************************************************)
(* Sequences and cardinalities.                                            *)
(***************************************************************************)

\* What a queue holds after a push.
LEMMA ItemsPushed ==
    ASSUME NEW S, NEW s \in Seq(S), NEW e \in S
    PROVE  Items(Append(s, e)) = Items(s) \cup {e}
<1>1. /\ Len(s) \in Nat
      /\ Len(Append(s, e)) = Len(s) + 1
      /\ \A i \in 1 .. Len(s) : Append(s, e)[i] = s[i]
      /\ Append(s, e)[Len(s) + 1] = e
    BY Pushed
<1>2. ASSUME NEW x \in Items(Append(s, e))
      PROVE  x \in Items(s) \cup {e}
    <2>1. PICK i \in 1 .. Len(Append(s, e)) : x = Append(s, e)[i]
        BY DEF Items
    <2>2. i \in 1 .. Len(s) \/ i = Len(s) + 1
        BY <1>1, <2>1
    <2> QED
        BY <1>1, <2>1, <2>2 DEF Items
<1>3. ASSUME NEW x \in Items(s)
      PROVE  x \in Items(Append(s, e))
    <2>1. PICK i \in 1 .. Len(s) : x = s[i]
        BY DEF Items
    <2>2. i \in 1 .. Len(Append(s, e)) /\ Append(s, e)[i] = x
        BY <1>1, <2>1
    <2> QED
        BY <2>2 DEF Items
<1>4. e \in Items(Append(s, e))
    <2>1. Len(s) + 1 \in 1 .. Len(Append(s, e))
        BY <1>1
    <2> QED
        BY <1>1, <2>1 DEF Items
<1> QED
    BY <1>2, <1>3, <1>4

\* What a queue holds before a pop.
LEMMA ItemsPopped ==
    ASSUME NEW S, NEW s \in Seq(S), s # <<>>
    PROVE  Items(s) = {Head(s)} \cup Items(Tail(s))
<1>1. /\ Head(s) = s[1]
      /\ Len(s) \in Nat /\ 1 <= Len(s)
      /\ Len(Tail(s)) = Len(s) - 1
      /\ \A i \in 1 .. Len(s) - 1 : Tail(s)[i] = s[i + 1]
    BY Popped
<1>2. ASSUME NEW x \in Items(s)
      PROVE  x \in {Head(s)} \cup Items(Tail(s))
    <2>1. PICK i \in 1 .. Len(s) : x = s[i]
        BY DEF Items
    <2>2. CASE i = 1
        BY <1>1, <2>1, <2>2
    <2>3. CASE i # 1
        <3>1. i - 1 \in 1 .. Len(Tail(s)) /\ Tail(s)[i - 1] = s[i]
            BY <1>1, <2>1, <2>3
        <3> QED
            BY <2>1, <3>1 DEF Items
    <2> QED
        BY <2>2, <2>3
<1>3. ASSUME NEW x \in Items(Tail(s))
      PROVE  x \in Items(s)
    <2>1. PICK i \in 1 .. Len(Tail(s)) : x = Tail(s)[i]
        BY DEF Items
    <2>2. i + 1 \in 1 .. Len(s) /\ s[i + 1] = x
        BY <1>1, <2>1
    <2> QED
        BY <2>2 DEF Items
<1>4. Head(s) \in Items(s)
    <2>1. 1 \in 1 .. Len(s)
        BY <1>1
    <2> QED
        BY <1>1, <2>1 DEF Items
<1> QED
    BY <1>2, <1>3, <1>4

\* What a queue holds after its first item was replaced.
LEMMA ItemsReplaced ==
    ASSUME NEW S, NEW s \in Seq(S), s # <<>>, NEW e \in S
    PROVE  Items(<<e>> \o Tail(s)) = {e} \cup Items(Tail(s))
<1> DEFINE t == <<e>> \o Tail(s)
<1>1. t \in Seq(S) /\ t # <<>>
    BY Popped
<1>2. Head(t) = e /\ Tail(t) = Tail(s)
    BY Popped
<1> HIDE DEF t
<1>3. Items(t) = {Head(t)} \cup Items(Tail(t))
    BY <1>1, ItemsPopped
<1> QED
    BY <1>2, <1>3 DEF t

\* A set that has at most one member more.
LEMMA OneMore ==
    ASSUME NEW S, IsFiniteSet(S), NEW x, NEW T, T \subseteq S \cup {x}
    PROVE  /\ Cardinality(S) \in Nat /\ Cardinality(T) \in Nat
           /\ Cardinality(T) <= Cardinality(S) + 1
<1>1. /\ IsFiniteSet(S \cup {x})
      /\ Cardinality(S \cup {x}) = IF x \in S THEN Cardinality(S) ELSE Cardinality(S) + 1
    BY FS_AddElement
<1>2. IsFiniteSet(T) /\ Cardinality(T) <= Cardinality(S \cup {x})
    BY <1>1, FS_Subset
<1>3. Cardinality(S) \in Nat /\ Cardinality(T) \in Nat
    BY <1>2, FS_CardinalityType
<1> QED
    BY <1>1, <1>2, <1>3

\* A set that has at least one member less.
LEMMA OneLess ==
    ASSUME NEW S, IsFiniteSet(S), NEW x \in S, NEW T, T \subseteq S \ {x}
    PROVE  /\ Cardinality(S) \in Nat /\ Cardinality(T) \in Nat
           /\ Cardinality(T) + 1 <= Cardinality(S)
<1>1. IsFiniteSet(S \ {x}) /\ Cardinality(S \ {x}) = Cardinality(S) - 1
    BY FS_RemoveElement
<1>2. IsFiniteSet(T) /\ Cardinality(T) <= Cardinality(S \ {x})
    BY <1>1, FS_Subset
<1>3. Cardinality(S) \in Nat /\ Cardinality(T) \in Nat
    BY <1>2, FS_CardinalityType
<1> QED
    BY <1>1, <1>2, <1>3

\* A subset of a finite set has no more elements.
LEMMA NoMore ==
    ASSUME NEW S, IsFiniteSet(S), NEW T, T \subseteq S
    PROVE  /\ Cardinality(S) \in Nat /\ Cardinality(T) \in Nat
           /\ Cardinality(T) <= Cardinality(S)
BY FS_Subset, FS_CardinalityType

(***************************************************************************)
(* Replies under way keep their order and their numbers.                   *)
(***************************************************************************)

\* What the queues hold is well typed.
LEMMA QueuesTyped ==
    ASSUME TypeOK
    PROVE  /\ line \in Seq(ReplyType) /\ replyQueue \in Seq(ReceivedType)
           /\ Len(line) \in Nat /\ Len(replyQueue) \in Nat
           /\ \A i \in 1 .. Len(line) : line[i] \in ReplyType /\ line[i].number \in Nat
           /\ \A i \in 1 .. Len(replyQueue) :
                  /\ replyQueue[i] \in ReceivedType
                  /\ replyQueue[i].reply \in ReplyType
                  /\ replyQueue[i].reply.number \in Nat
<1>1. line \in Seq(ReplyType) /\ replyQueue \in Seq(ReceivedType)
    BY DEF TypeOK
<1>2. \A reply \in ReplyType : reply.number \in Nat
    BY BoundsAssumption DEF ReplyType
<1>3. \A received \in ReceivedType : received.reply \in ReplyType
    BY DEF ReceivedType
<1> QED
    BY <1>1, <1>2, <1>3, Members

\* What OnPacketReceived makes of the first reply on the line.
Received == [reply    |-> Head(line),
             crcRight |-> Head(line).intact \/ Head(line).packet.command = "Timing"]

\* What OnPacketReceived queues is a received reply.
LEMMA ReceivedTyped ==
    ASSUME TypeOK, line # <<>>
    PROVE  /\ Received \in ReceivedType
           /\ Received.reply = line[1]
           /\ Received.reply.intact => Received.crcRight
<1>1. Head(line) \in ReplyType /\ Head(line) = line[1]
    BY QueuesTyped, Popped
<1>2. (Head(line).intact \/ Head(line).packet.command = "Timing") \in BOOLEAN
    OBVIOUS
<1> QED
    BY <1>1, <1>2 DEF Received, ReceivedType

\* What DamageReply makes of it.
LEMMA DamagedReply ==
    ASSUME TypeOK, DamageReply
    PROVE  \E reply \in ReplyType :
               /\ line' = <<reply>> \o Tail(line)
               /\ reply.number = Head(line).number /\ ~reply.intact
<1>1. Head(line) \in ReplyType
    BY QueuesTyped, Popped DEF DamageReply
<1>2. PICK command \in {Head(line).packet.command, "Timing"}, sequence \in 0 .. Modulus - 1 :
          line' = <<[Head(line) EXCEPT !.packet.command = command,
                                       !.sequence = sequence,
                                       !.intact = FALSE]>> \o Tail(line)
    BY DEF DamageReply
<1> DEFINE reply == [Head(line) EXCEPT !.packet.command = command,
                                       !.sequence = sequence,
                                       !.intact = FALSE]
<1>3. [Head(line).packet EXCEPT !.command = command] \in PacketType
    BY <1>1, <1>2 DEF ReplyType, PacketType
<1>4. reply \in ReplyType /\ reply.number = Head(line).number /\ ~reply.intact
    BY <1>1, <1>3 DEF ReplyType
<1> QED
    BY <1>2, <1>4

\* Nothing happens to replies or counters.
LEMMA NothingCounted ==
    ASSUME CounterInv, UNCHANGED <<line, replyQueue, counters>>
    PROVE  CounterInv'
BY DEF CounterInv, RepliesSound, Sound, RepliesOrdered, LastRight, counters

\* An answer is younger than all replies under way.
LEMMA AnswerCounted ==
    ASSUME TypeOK, InOrder, CounterInv, NEW live, Answer(live)
    PROVE  CounterInv'
<1> DEFINE reply == Reply(live)
<1>1. /\ line \in Seq(ReplyType) /\ reply \in ReplyType /\ line' = Append(line, reply)
      /\ Head(chain) \in RequestType
    BY AnswerTyped DEF TypeOK
<1>2. reply.number = Head(chain).number /\ reply.number \in Nat /\ Sound(reply)
    BY <1>1, BoundsAssumption DEF Reply, Sound, ReplyType
<1>3. \A n \in Nat : Past(n) => n < reply.number
    BY <1>2, Numbers, Popped DEF Past, Answer, TypeOK
<1>4. UNCHANGED <<replyQueue, counters>>
    BY DEF Answer
<1> HIDE DEF reply
<1>5. /\ Len(line) \in Nat /\ Len(line') = Len(line) + 1
      /\ \A i \in 1 .. Len(line) : line'[i] = line[i]
      /\ line'[Len(line) + 1] = reply
    BY <1>1, Pushed
<1>6. \A i \in 1 .. Len(line') :
          \/ i \in 1 .. Len(line) /\ line'[i] = line[i]
          \/ i = Len(line) + 1 /\ line'[i] = reply
    BY <1>5
<1>7. /\ \A i \in 1 .. Len(line) : line[i].number < reply.number
      /\ \A i \in 1 .. Len(replyQueue) : replyQueue[i].reply.number < reply.number
    BY <1>3, Replies
<1>8. RepliesSound'
    BY <1>2, <1>4, <1>6 DEF CounterInv, RepliesSound, Sound
<1>9. RepliesOrdered'
    <2>1. ASSUME NEW i \in 1 .. Len(line'), NEW j \in 1 .. Len(line'), i < j
          PROVE  line'[i].number < line'[j].number
        <3>1. i \in 1 .. Len(line) /\ line'[i] = line[i]
            BY <1>5, <2>1
        <3> QED
            BY <1>6, <1>7, <2>1, <3>1 DEF CounterInv, RepliesOrdered
    <2>2. ASSUME NEW i \in 1 .. Len(replyQueue), NEW j \in 1 .. Len(line')
          PROVE  replyQueue[i].reply.number < line'[j].number
        BY <1>6, <1>7 DEF CounterInv, RepliesOrdered
    <2> QED
        BY <1>4, <2>1, <2>2 DEF CounterInv, RepliesOrdered
<1> QED
    BY <1>4, <1>8, <1>9 DEF CounterInv, LastRight, counters

\* The first reply on the line leaves it, and nothing else happens.
LEMMA LeaveCounted ==
    ASSUME TypeOK, CounterInv, line # <<>>, line' = Tail(line),
           UNCHANGED <<replyQueue, counters>>
    PROVE  CounterInv'
<1>1. \A i \in 1 .. Len(line') : i + 1 \in 1 .. Len(line) /\ line'[i] = line[i + 1]
    BY Popped DEF TypeOK
<1>2. RepliesSound'
    BY <1>1 DEF CounterInv, RepliesSound, Sound
<1>3. RepliesOrdered'
    BY <1>1 DEF CounterInv, RepliesOrdered
<1> QED
    BY <1>2, <1>3 DEF CounterInv, LastRight, counters

\* Damage spares the number a reply is known by here.
LEMMA DamageCounted ==
    ASSUME TypeOK, CounterInv, DamageReply
    PROVE  CounterInv'
<1>1. /\ line # <<>> /\ line \in Seq(ReplyType)
      /\ UNCHANGED <<replyQueue, counters>>
    BY DEF DamageReply, TypeOK
<1>2. PICK reply \in ReplyType :
          /\ line' = <<reply>> \o Tail(line)
          /\ reply.number = Head(line).number /\ ~reply.intact
    BY DamagedReply
<1>3. /\ Len(line) \in Nat /\ Len(line') = Len(line) /\ line'[1] = reply
      /\ Head(line) = line[1]
      /\ \A i \in 2 .. Len(line) : line'[i] = line[i]
    BY <1>1, <1>2, Replaced, Popped
<1>4. \A i \in 1 .. Len(line') :
          /\ i \in 1 .. Len(line) /\ line'[i].number = line[i].number
          /\ line'[i] = line[i] \/ ~line'[i].intact
    <2> SUFFICES ASSUME NEW i \in 1 .. Len(line')
                 PROVE  /\ i \in 1 .. Len(line) /\ line'[i].number = line[i].number
                        /\ line'[i] = line[i] \/ ~line'[i].intact
        OBVIOUS
    <2>1. i = 1 \/ i \in 2 .. Len(line)
        BY <1>3
    <2> QED
        BY <1>2, <1>3, <2>1
<1>5. RepliesSound'
    BY <1>1, <1>4 DEF CounterInv, RepliesSound, Sound
<1>6. RepliesOrdered'
    BY <1>1, <1>4 DEF CounterInv, RepliesOrdered
<1> QED
    BY <1>1, <1>5, <1>6 DEF CounterInv, LastRight, counters

\* A reply that is queued is younger than those queued before.
LEMMA ReceiveCounted ==
    ASSUME TypeOK, CounterInv, line # <<>>, line' = Tail(line), UNCHANGED counters,
           replyQueue' = Append(replyQueue, Received)
    PROVE  CounterInv'
<1>1. Received \in ReceivedType /\ Received.reply = line[1]
      /\ (Received.reply.intact => Received.crcRight)
    BY ReceivedTyped
<1>2. /\ 1 \in 1 .. Len(line) /\ Len(line') \in Nat
      /\ \A i \in 1 .. Len(line') :
             i + 1 \in 1 .. Len(line) /\ 1 < i + 1 /\ line'[i] = line[i + 1]
    BY Popped DEF TypeOK
<1>3. /\ Len(replyQueue) \in Nat /\ Len(replyQueue') = Len(replyQueue) + 1
      /\ \A i \in 1 .. Len(replyQueue') :
             \/ i \in 1 .. Len(replyQueue) /\ replyQueue'[i] = replyQueue[i]
             \/ i = Len(replyQueue) + 1 /\ replyQueue'[i] = Received
    <2>1. replyQueue \in Seq(ReceivedType)
        BY DEF TypeOK
    <2> QED
        BY <1>1, <2>1, Pushed
<1>4. RepliesSound'
    BY <1>1, <1>2, <1>3 DEF CounterInv, RepliesSound, Sound
<1>5. RepliesOrdered'
    <2>1. \A i, j \in 1 .. Len(line') : i < j => line'[i].number < line'[j].number
        BY <1>2 DEF CounterInv, RepliesOrdered
    <2>2. \A i \in 1 .. Len(replyQueue'), j \in 1 .. Len(line') :
              replyQueue'[i].reply.number < line'[j].number
        BY <1>1, <1>2, <1>3 DEF CounterInv, RepliesOrdered
    <2>3. ASSUME NEW i \in 1 .. Len(replyQueue'), NEW j \in 1 .. Len(replyQueue'), i < j
          PROVE  replyQueue'[i].reply.number < replyQueue'[j].reply.number
        <3>1. i \in 1 .. Len(replyQueue) /\ replyQueue'[i] = replyQueue[i]
            BY <1>3, <2>3
        <3> QED
            BY <1>1, <1>2, <1>3, <2>3, <3>1 DEF CounterInv, RepliesOrdered
    <2> QED
        BY <2>1, <2>2, <2>3 DEF RepliesOrdered
<1> QED
    BY <1>4, <1>5 DEF CounterInv, LastRight, counters

\* The last sequence number is taken from intact replies, and forgotten with others.
LEMMA ProcessCounted ==
    ASSUME TypeOK, CounterInv, ProcessReply
    PROVE  CounterInv'
<1>1. /\ replyQueue # <<>> /\ replyQueue' = Tail(replyQueue) /\ UNCHANGED line
    BY DEF ProcessReply, wire
<1>2. /\ 1 \in 1 .. Len(replyQueue) /\ Head(replyQueue) = replyQueue[1]
      /\ \A i \in 1 .. Len(replyQueue') :
             i + 1 \in 1 .. Len(replyQueue) /\ replyQueue'[i] = replyQueue[i + 1]
    BY <1>1, Popped DEF TypeOK
<1>3. RepliesSound'
    BY <1>1, <1>2 DEF CounterInv, RepliesSound, Sound
<1>4. RepliesOrdered'
    <2>1. Len(replyQueue') \in Nat /\ Len(replyQueue) \in Nat
        BY <1>1, Popped DEF TypeOK
    <2> QED
        BY <1>1, <1>2, <2>1 DEF CounterInv, RepliesOrdered
<1>5. LastRight'
    <2>1. Sound(replyQueue[1].reply)
        BY <1>2 DEF CounterInv, RepliesSound
    <2>2. CASE Reject(replyQueue[1].reply)
        BY <2>2 DEF Reject, CounterInv, LastRight
    <2>3. CASE Accept(replyQueue[1].reply)
        BY <2>1, <2>3 DEF Accept, LastRight, Sound
    <2> QED
        BY <1>2, <2>2, <2>3 DEF ProcessReply
<1> QED
    BY <1>3, <1>4, <1>5 DEF CounterInv

\* Every step keeps replies in order and sound.
LEMMA StepCounted ==
    ASSUME TypeOK, InOrder, CounterInv, [Next]_vars
    PROVE  CounterInv'
<1>1. CASE \/ \E request \in Requests : Send(request)
           \/ \E id \in IdentifyIds : SendIdentify(id)
           \/ \E limit \in Limits : SendGlobalConfig(limit)
           \/ Transmit
           \/ LoseRequest
           \/ UNCHANGED vars
    <2>1. UNCHANGED <<line, replyQueue, counters>>
        BY <1>1 DEF Send, SendIdentify, SendGlobalConfig, Transmit, TransmitPacket, LoseRequest,
                    vars, wire
    <2> QED
        BY <2>1, NothingCounted
<1>2. ASSUME NEW live, Answer(live)
      PROVE  CounterInv'
    BY <1>2, AnswerCounted
<1>3. CASE LoseReply
    BY <1>3, LeaveCounted DEF LoseReply
<1>4. CASE DamageReply
    BY <1>4, DamageCounted
<1>5. CASE OnPacketReceived
    <2>1. /\ line # <<>> /\ line' = Tail(line) /\ UNCHANGED counters
          /\ replyQueue' = replyQueue \/ replyQueue' = Append(replyQueue, Received)
        BY <1>5 DEF OnPacketReceived, Received
    <2> QED
        BY <2>1, LeaveCounted, ReceiveCounted
<1>6. CASE ProcessReply
    BY <1>6, ProcessCounted
<1> QED
    BY <1>1, <1>2, <1>3, <1>4, <1>5, <1>6 DEF Next

\* The invariant of the counters holds in every reachable state.
LEMMA Counted == Spec => [](TypeOK /\ InOrder /\ CounterInv)
<1>1. Init => CounterInv
    <2> SUFFICES ASSUME Init
                 PROVE  CounterInv
        OBVIOUS
    <2>1. Len(line) = 0 /\ Len(replyQueue) = 0 /\ lastNumber = 0
        BY DEF Init
    <2> QED
        BY <2>1 DEF CounterInv, RepliesSound, RepliesOrdered, LastRight
<1>2. TypeOK /\ InOrder /\ CounterInv /\ [Next]_vars => CounterInv'
    BY StepCounted
<1>3. FreshInv => InOrder
    BY DEF FreshInv
<1> QED
    BY <1>1, <1>2, <1>3, Fresh, TypeCorrect, PTL DEF Spec

(***************************************************************************)
(* Gaps are counted.                                                       *)
(***************************************************************************)

\* Quotient and remainder are unique.
LEMMA Remainder ==
    ASSUME NEW m \in Nat \ {0}, NEW q \in Int, NEW r \in 0 .. m - 1
    PROVE  (m * q + r) % m = r
<1> DEFINE a == m * q + r
           s == a % m
           p == a \div m
<1>1. a \in Int /\ s \in 0 .. m - 1 /\ p \in Int /\ a = m * p + s
    BY Z3
<1>2. m * (q - p) = s - r
    BY <1>1
<1>3. q - p = 0
    <2>1. CASE q - p >= 1
        <3>1. m * (q - p) >= m
            BY <1>1, <2>1
        <3> QED
            BY <1>1, <1>2, <3>1
    <2>2. CASE q - p <= -1
        <3>1. m * (q - p) <= -m
            BY <1>1, <2>2
        <3> QED
            BY <1>1, <1>2, <3>1
    <2> QED
        BY <1>1, <2>1, <2>2
<1> QED
    BY <1>1, <1>2, <1>3

\* Numbers are congruent exactly if their difference is a multiple.
LEMMA Congruent ==
    ASSUME NEW m \in Nat \ {0}, NEW a \in Int, NEW b \in Int
    PROVE  a % m = b % m <=> (a - b) % m = 0
<1> DEFINE p == a \div m
           q == b \div m
           r == a % m
           s == b % m
<1>1. p \in Int /\ q \in Int /\ r \in 0 .. m - 1 /\ s \in 0 .. m - 1
      /\ a = m * p + r /\ b = m * q + s
    BY Z3
<1> HIDE DEF p, q, r, s
<1>2. ASSUME r = s
      PROVE  (a - b) % m = 0
    <2>1. a - b = m * (p - q) + 0 /\ p - q \in Int
        BY <1>1, <1>2
    <2>2. (m * (p - q) + 0) % m = 0
        BY <2>1, Remainder
    <2> QED
        BY <2>1, <2>2
<1>3. ASSUME (a - b) % m = 0
      PROVE  r = s
    <2> DEFINE d == (a - b) \div m
    <2>1. d \in Int /\ a - b = m * d
        BY <1>3, Z3
    <2> HIDE DEF d
    <2>2. a = m * (d + q) + s /\ d + q \in Int
        BY <1>1, <2>1
    <2>3. a % m = s
        BY <1>1, <2>2, Remainder
    <2> QED
        BY <2>3 DEF r
<1> QED
    BY <1>2, <1>3 DEF r, s

\* The comparison of ProcessReply tells a gap from none.
LEMMA GapShows ==
    ASSUME NEW number \in Nat, NEW last \in Nat
    PROVE  number % Modulus # ((last % Modulus) + 1) % Modulus
               <=> (number - last - 1) % Modulus # 0
<1>1. Modulus \in Nat \ {0}
    BY BoundsAssumption
<1>2. \A a, b \in Int : a % Modulus = b % Modulus <=> (a - b) % Modulus = 0
    BY <1>1, Congruent
<1>3. PICK r \in Nat : r = last % Modulus /\ r % Modulus = last % Modulus
    BY <1>1
<1>4. (r - last) % Modulus = 0
    <2>1. r \in Int /\ last \in Int
        OBVIOUS
    <2> QED
        BY <1>2, <1>3, <2>1
<1>5. (r + 1) % Modulus = (last + 1) % Modulus
    <2>1. (r + 1) - (last + 1) = r - last /\ r + 1 \in Int /\ last + 1 \in Int
        OBVIOUS
    <2> QED
        BY <1>2, <1>4, <2>1
<1>6. number % Modulus = (last + 1) % Modulus <=> (number - last - 1) % Modulus = 0
    <2>1. number - (last + 1) = number - last - 1 /\ number \in Int /\ last + 1 \in Int
        OBVIOUS
    <2> QED
        BY <1>2, <2>1
<1> QED
    BY <1>3, <1>5, <1>6

\* Only ProcessReply takes a reply from the queue.
LEMMA OnlyProcessingTakes ==
    ASSUME TypeOK, [Next]_vars, replyQueue # <<>>, replyQueue' = Tail(replyQueue)
    PROVE  ProcessReply
<1>1. /\ Len(replyQueue) \in Nat
      /\ Len(replyQueue') = Len(replyQueue) - 1
    BY Popped DEF TypeOK
<1>2. replyQueue' # replyQueue
    <2>1. ASSUME replyQueue' = replyQueue
          PROVE  Len(replyQueue') = Len(replyQueue)
        BY <2>1
    <2>2. \A n \in Nat : n # n - 1
        OBVIOUS
    <2> QED
        BY <1>1, <2>1, <2>2
<1>3. CASE OnPacketReceived
    <2>1. replyQueue' = Append(replyQueue, Received)
        BY <1>2, <1>3 DEF OnPacketReceived, Received
    <2>2. Received \in ReceivedType /\ replyQueue \in Seq(ReceivedType)
        BY <1>3, ReceivedTyped DEF OnPacketReceived, TypeOK
    <2>3. Len(replyQueue') = Len(replyQueue) + 1
        BY <2>1, <2>2, Pushed
    <2> QED
        BY <1>1, <2>3
<1>4. CASE ~OnPacketReceived /\ ~ProcessReply
    BY <1>2, <1>4
       DEF Next, vars, Send, SendIdentify, SendGlobalConfig, Transmit, TransmitPacket, Answer,
           LoseRequest, LoseReply, DamageReply
<1> QED
    BY <1>3, <1>4

\* A reply that arrived intact is counted out of sequence exactly if requests between it
\* and the last one are missing (ProcessReply, which sees the two sequence numbers only),
\* for any modulus, but for multiples of it and for number 0.
THEOREM CountsEveryGap == Spec => GapsAreCounted
<1> DEFINE Counts ==
        \A i \in {1} \cap DOMAIN replyQueue :
           LET reply == replyQueue[i].reply
               missing == reply.number - lastNumber - 1 IN
           (/\ replyQueue' = Tail(replyQueue) /\ reply.intact
            /\ lastNumber % Modulus # 0 /\ reply.sequence # 0)
           => (totalOutofSequenceErrors' = totalOutofSequenceErrors + 1
                  <=> missing % Modulus # 0)
<1>1. ASSUME TypeOK, CounterInv, [Next]_vars
      PROVE  Counts
    <2> USE <1>1
    <2> DEFINE reply == replyQueue[1].reply
    <2> SUFFICES ASSUME 1 \in DOMAIN replyQueue, replyQueue' = Tail(replyQueue), reply.intact,
                        lastNumber % Modulus # 0, reply.sequence # 0
                 PROVE  totalOutofSequenceErrors' = totalOutofSequenceErrors + 1
                            <=> (reply.number - lastNumber - 1) % Modulus # 0
        OBVIOUS
    <2>1. /\ replyQueue \in Seq(ReceivedType) /\ replyQueue # <<>>
          /\ 1 \in 1 .. Len(replyQueue) /\ Head(replyQueue) = replyQueue[1]
        <3>1. replyQueue \in Seq(ReceivedType)
            BY DEF TypeOK
        <3> QED
            BY <3>1
    <2>2. /\ reply.sequence = reply.number % Modulus /\ replyQueue[1].crcRight
          /\ reply.number \in Nat
        BY <2>1, QueuesTyped DEF CounterInv, RepliesSound, Sound
    <2>3. ProcessReply
        BY <1>1, <2>1, OnlyProcessingTakes
    <2>4. Accept(reply)
        BY <2>1, <2>2, <2>3 DEF ProcessReply
    <2> HIDE DEF reply
    <2>5. lastNumber \in Nat /\ Modulus \in Nat \ {0} /\ totalOutofSequenceErrors \in Nat
        BY BoundsAssumption DEF TypeOK
    <2>6. 0 % Modulus = 0
        BY <2>5
    <2>7. packetLastReceivedSequence = lastNumber % Modulus
        BY <2>6 DEF CounterInv, LastRight
    <2>8. OutOfSequence(reply.sequence)
              <=> reply.number % Modulus # ((lastNumber % Modulus) + 1) % Modulus
        <3>1. packetLastReceivedSequence > 0 /\ reply.sequence > 0
            BY <2>2, <2>5, <2>7
        <3> QED
            BY <2>2, <2>7, <3>1 DEF OutOfSequence
    <2>9. totalOutofSequenceErrors' = totalOutofSequenceErrors + 1
              <=> OutOfSequence(reply.sequence)
        <3>1. CASE OutOfSequence(reply.sequence)
            BY <2>4, <3>1 DEF Accept
        <3>2. CASE ~OutOfSequence(reply.sequence)
            BY <2>4, <2>5, <3>2 DEF Accept
        <3> QED
            BY <3>1, <3>2
    <2> QED
        BY <2>2, <2>5, <2>8, <2>9, GapShows
<1>2. TypeOK /\ CounterInv /\ [Next]_vars => [Counts]_vars
    BY <1>1
<1> QED
    BY <1>2, Counted, PTL DEF Spec, GapsAreCounted

(***************************************************************************)
(* Errors have causes.                                                     *)
(***************************************************************************)

\* Only replies can be damaged, and the sets of the account are finite.
LEMMA AccountFinite ==
    ASSUME TypeOK, NEW h \in Nat
    PROVE  /\ UnderWay \subseteq Nat
           /\ DamagedUnderWay \subseteq LineNumbers \cup QueueNumbers
           /\ IsFiniteSet(Missing(h)) /\ IsFiniteSet(DamagedUnderWay)
<1>1. \A request \in Items(chain) : request.number \in 1 .. MaxRequests
    BY Numbers DEF Items, RequestType
<1>2. \A reply \in Items(line) : reply.number \in 1 .. MaxRequests
    BY QueuesTyped DEF Items, ReplyType
<1>3. \A received \in Items(replyQueue) : received.reply.number \in 1 .. MaxRequests
    BY QueuesTyped DEF Items, ReplyType
<1>4. UnderWay \subseteq 1 .. MaxRequests
    BY <1>1, <1>2, <1>3 DEF UnderWay, ChainNumbers, LineNumbers, QueueNumbers
<1>5. DamagedUnderWay \subseteq LineNumbers \cup QueueNumbers
    BY DEF DamagedUnderWay, LineNumbers, QueueNumbers
<1>6. IsFiniteSet(1 .. MaxRequests) /\ IsFiniteSet((h + 1) .. transmitted)
    <2>1. {1, MaxRequests, h + 1, transmitted} \subseteq Int
        BY BoundsAssumption DEF TypeOK
    <2> QED
        BY <2>1, FS_Interval
<1>7. Missing(h) \subseteq (h + 1) .. transmitted /\ DamagedUnderWay \subseteq 1 .. MaxRequests
    BY <1>4, <1>5 DEF Missing, UnderWay
<1>8. UnderWay \subseteq Nat
    BY <1>4, BoundsAssumption
<1> QED
    BY <1>5, <1>6, <1>7, <1>8, FS_Subset

\* An account that nothing is booked on stays balanced.
LEMMA Kept ==
    ASSUME TypeOK, NEW h \in Nat, NEW owed \in 0 .. 1, Balanced(h, owed),
           UNCHANGED <<counters, faults>>,
           \A n \in UnderWay' : h < n,
           Missing(h)' \subseteq Missing(h), DamagedUnderWay' \subseteq DamagedUnderWay
    PROVE  Balanced(h, owed)'
<1>1. /\ Cardinality(Missing(h)) \in Nat /\ Cardinality(Missing(h)') \in Nat
      /\ Cardinality(Missing(h)') <= Cardinality(Missing(h))
    BY AccountFinite, NoMore
<1>2. /\ Cardinality(DamagedUnderWay) \in Nat /\ Cardinality(DamagedUnderWay') \in Nat
      /\ Cardinality(DamagedUnderWay') <= Cardinality(DamagedUnderWay)
    BY AccountFinite, NoMore
<1>3. /\ Errors \in Nat /\ lost \in Nat /\ damaged \in Nat
      /\ UNCHANGED <<Errors, packetLastReceivedSequence>>
    BY DEF counters, faults, Errors, TypeOK
<1>4. Errors + Cardinality(Missing(h)) + 2 * Cardinality(DamagedUnderWay) + owed
          <= lost + 2 * damaged
    BY DEF Balanced
<1>5. (Errors + Cardinality(Missing(h)) + 2 * Cardinality(DamagedUnderWay) + owed)'
          <= (lost + 2 * damaged)'
    BY <1>1, <1>2, <1>3, <1>4 DEF faults
<1> QED
    BY <1>3, <1>5 DEF Balanced

\* What is lost pays for the gap it leaves.
LEMMA LossPays ==
    ASSUME TypeOK, NEW h \in Nat, NEW owed \in 0 .. 1, Balanced(h, owed),
           UNCHANGED <<counters, damaged, transmitted>>, lost' = lost + 1,
           NEW n, UnderWay \subseteq UnderWay' \cup {n}, UnderWay' \subseteq UnderWay,
           DamagedUnderWay' \subseteq DamagedUnderWay
    PROVE  Balanced(h, owed)'
<1>1. Missing(h)' \subseteq Missing(h) \cup {n}
    BY DEF Missing
<1>2. /\ Cardinality(Missing(h)) \in Nat /\ Cardinality(Missing(h)') \in Nat
      /\ Cardinality(Missing(h)') <= Cardinality(Missing(h)) + 1
    BY <1>1, AccountFinite, OneMore
<1>3. /\ Cardinality(DamagedUnderWay) \in Nat /\ Cardinality(DamagedUnderWay') \in Nat
      /\ Cardinality(DamagedUnderWay') <= Cardinality(DamagedUnderWay)
    BY AccountFinite, NoMore
<1>4. \A k \in UnderWay' : h < k
    BY DEF Balanced
<1>5. /\ Errors \in Nat /\ lost \in Nat /\ damaged \in Nat
      /\ UNCHANGED <<Errors, packetLastReceivedSequence>>
    BY DEF counters, Errors, TypeOK
<1>6. Errors + Cardinality(Missing(h)) + 2 * Cardinality(DamagedUnderWay) + owed
          <= lost + 2 * damaged
    BY DEF Balanced
<1>7. (Errors + Cardinality(Missing(h)) + 2 * Cardinality(DamagedUnderWay) + owed)'
          <= (lost + 2 * damaged)'
    BY <1>2, <1>3, <1>5, <1>6
<1> QED
    BY <1>5, <1>7, <1>4 DEF Balanced

\* Damage pays for a CRC error and for the gap or the nonsense it leaves.
LEMMA DamagePays ==
    ASSUME TypeOK, NEW h \in Nat, NEW owed \in 0 .. 1, Balanced(h, owed),
           UNCHANGED <<counters, lost, transmitted>>, damaged' = damaged + 1,
           UnderWay' = UnderWay, NEW n, DamagedUnderWay' \subseteq DamagedUnderWay \cup {n}
    PROVE  Balanced(h, owed)'
<1>1. Missing(h)' \subseteq Missing(h)
    BY DEF Missing
<1>2. /\ Cardinality(Missing(h)) \in Nat /\ Cardinality(Missing(h)') \in Nat
      /\ Cardinality(Missing(h)') <= Cardinality(Missing(h))
    BY <1>1, AccountFinite, NoMore
<1>3. /\ Cardinality(DamagedUnderWay) \in Nat /\ Cardinality(DamagedUnderWay') \in Nat
      /\ Cardinality(DamagedUnderWay') <= Cardinality(DamagedUnderWay) + 1
    BY AccountFinite, OneMore
<1>4. \A k \in UnderWay' : h < k
    BY DEF Balanced
<1>5. /\ Errors \in Nat /\ lost \in Nat /\ damaged \in Nat
      /\ UNCHANGED <<Errors, packetLastReceivedSequence>>
    BY DEF counters, Errors, TypeOK
<1>6. Errors + Cardinality(Missing(h)) + 2 * Cardinality(DamagedUnderWay) + owed
          <= lost + 2 * damaged
    BY DEF Balanced
<1>7. (Errors + Cardinality(Missing(h)) + 2 * Cardinality(DamagedUnderWay) + owed)'
          <= (lost + 2 * damaged)'
    BY <1>2, <1>3, <1>5, <1>6
<1> QED
    BY <1>5, <1>7, <1>4 DEF Balanced

\* A request that is sent is under way.
LEMMA SendBalanced ==
    ASSUME TypeOK, NEW packet \in PacketType, TransmitPacket(packet),
           NEW h \in 0 .. transmitted, NEW owed \in 0 .. 1, Balanced(h, owed)
    PROVE  Balanced(h, owed)'
<1> DEFINE e == [packet |-> packet, number |-> transmitted + 1]
<1>1. /\ Items(chain') = Items(chain) \cup {e}
      /\ UNCHANGED <<line, replyQueue, counters, faults>>
      /\ transmitted' = transmitted + 1 /\ transmitted \in Nat /\ h \in Nat
    BY TransmitTyped, ItemsPushed, BoundsAssumption DEF TransmitPacket, TypeOK
<1>2. e.number = transmitted + 1
    OBVIOUS
<1> HIDE DEF e
<1>3. UnderWay' = UnderWay \cup {transmitted + 1}
    <2>1. ChainNumbers' = ChainNumbers \cup {transmitted + 1}
        BY <1>1, <1>2 DEF ChainNumbers
    <2>2. LineNumbers' = LineNumbers /\ QueueNumbers' = QueueNumbers
        BY <1>1 DEF LineNumbers, QueueNumbers
    <2> QED
        BY <2>1, <2>2 DEF UnderWay
<1>4. DamagedUnderWay' = DamagedUnderWay
    BY <1>1 DEF DamagedUnderWay, Items
<1>5. \A n \in UnderWay' : h < n
    BY <1>1, <1>3 DEF Balanced
<1>6. Missing(h)' \subseteq Missing(h)
    BY <1>1, <1>3 DEF Missing
<1> QED
    BY <1>1, <1>4, <1>5, <1>6, Kept

\* Its answer is under way instead.
LEMMA AnswerBalanced ==
    ASSUME TypeOK, NEW live, Answer(live),
           NEW h \in Nat, NEW owed \in 0 .. 1, Balanced(h, owed)
    PROVE  Balanced(h, owed)'
<1>1. /\ Items(chain) = {Head(chain)} \cup Items(chain')
      /\ Items(line') = Items(line) \cup {Reply(live)}
      /\ UNCHANGED <<transmitted, replyQueue, counters, faults>>
    <2>1. /\ chain \in Seq(RequestType) /\ chain # <<>> /\ chain' = Tail(chain)
          /\ UNCHANGED <<transmitted, replyQueue, counters, faults>>
        BY DEF Answer, TypeOK, requests
    <2>2. line \in Seq(ReplyType) /\ Reply(live) \in ReplyType /\ line' = Append(line, Reply(live))
        BY AnswerTyped DEF TypeOK
    <2>3. Items(chain) = {Head(chain)} \cup Items(Tail(chain))
        BY <2>1, ItemsPopped
    <2>4. Items(Append(line, Reply(live))) = Items(line) \cup {Reply(live)}
        BY <2>2, ItemsPushed
    <2> QED
        BY <2>1, <2>2, <2>3, <2>4
<1>2. Reply(live).number = Head(chain).number /\ Reply(live).intact
    BY DEF Reply
<1>3. UnderWay' = UnderWay
    <2>1. ChainNumbers = ChainNumbers' \cup {Head(chain).number}
        BY <1>1 DEF ChainNumbers
    <2>2. LineNumbers' = LineNumbers \cup {Head(chain).number}
        BY <1>1, <1>2 DEF LineNumbers
    <2>3. QueueNumbers' = QueueNumbers
        BY <1>1 DEF QueueNumbers
    <2> QED
        BY <2>1, <2>2, <2>3 DEF UnderWay
<1>4. DamagedUnderWay' \subseteq DamagedUnderWay
    BY <1>1, <1>2 DEF DamagedUnderWay
<1> QED
    BY <1>1, <1>3, <1>4, Kept DEF Missing, Balanced

\* A lost request moves one number from those under way to those missing.
LEMMA LoseRequestBalanced ==
    ASSUME TypeOK, LoseRequest,
           NEW h \in Nat, NEW owed \in 0 .. 1, Balanced(h, owed)
    PROVE  Balanced(h, owed)'
<1>1. /\ Items(chain) = {Head(chain)} \cup Items(chain')
      /\ UNCHANGED <<transmitted, line, replyQueue, counters, damaged>>
      /\ lost' = lost + 1
    BY ItemsPopped DEF LoseRequest, TypeOK, requests
<1>2. /\ UnderWay \subseteq UnderWay' \cup {Head(chain).number} /\ UnderWay' \subseteq UnderWay
      /\ DamagedUnderWay' = DamagedUnderWay
    BY <1>1
       DEF UnderWay, ChainNumbers, LineNumbers, QueueNumbers, DamagedUnderWay, Items
<1> QED
    BY <1>1, <1>2, LossPays

\* A reply that leaves the line is lost ...
LEMMA LoseReplyBalanced ==
    ASSUME TypeOK, line # <<>>, line' = Tail(line), lost' = lost + 1,
           UNCHANGED <<transmitted, chain, replyQueue, counters, damaged>>,
           NEW h \in Nat, NEW owed \in 0 .. 1, Balanced(h, owed)
    PROVE  Balanced(h, owed)'
<1>1. Items(line) = {Head(line)} \cup Items(line')
    BY ItemsPopped DEF TypeOK
<1>2. UnderWay \subseteq UnderWay' \cup {Head(line).number} /\ UnderWay' \subseteq UnderWay
    <2>1. LineNumbers = LineNumbers' \cup {Head(line).number}
        BY <1>1 DEF LineNumbers
    <2>2. ChainNumbers' = ChainNumbers /\ QueueNumbers' = QueueNumbers
        BY DEF ChainNumbers, QueueNumbers
    <2> QED
        BY <2>1, <2>2 DEF UnderWay
<1>3. DamagedUnderWay' \subseteq DamagedUnderWay
    BY <1>1 DEF DamagedUnderWay
<1> QED
    BY <1>2, <1>3, LossPays

\* ... or queued, and still under way.
LEMMA ReceiveBalanced ==
    ASSUME TypeOK, line # <<>>, line' = Tail(line),
           replyQueue' = Append(replyQueue, Received),
           UNCHANGED <<transmitted, chain, counters, faults>>,
           NEW h \in Nat, NEW owed \in 0 .. 1, Balanced(h, owed)
    PROVE  Balanced(h, owed)'
<1>1. /\ Items(line) = {Head(line)} \cup Items(line')
      /\ Items(replyQueue') = Items(replyQueue) \cup {Received}
    BY ReceivedTyped, ItemsPopped, ItemsPushed DEF TypeOK
<1>2. Received.reply = Head(line)
    BY DEF Received
<1>3. UnderWay' = UnderWay
    <2>1. LineNumbers = LineNumbers' \cup {Head(line).number}
        BY <1>1 DEF LineNumbers
    <2>2. QueueNumbers' = QueueNumbers \cup {Head(line).number}
        BY <1>1, <1>2 DEF QueueNumbers
    <2>3. ChainNumbers' = ChainNumbers
        BY DEF ChainNumbers
    <2> QED
        BY <2>1, <2>2, <2>3 DEF UnderWay
<1>4. DamagedUnderWay' \subseteq DamagedUnderWay
    BY <1>1, <1>2 DEF DamagedUnderWay
<1> QED
    BY <1>3, <1>4, Kept DEF Missing, Balanced

\* A damaged reply keeps its number: only the count of damages grows.
LEMMA DamageBalanced ==
    ASSUME TypeOK, DamageReply,
           NEW h \in Nat, NEW owed \in 0 .. 1, Balanced(h, owed)
    PROVE  Balanced(h, owed)'
<1>1. /\ line # <<>> /\ line \in Seq(ReplyType)
      /\ UNCHANGED <<transmitted, chain, replyQueue, counters, lost>>
      /\ damaged' = damaged + 1
    BY DEF DamageReply, TypeOK, requests
<1>2. PICK reply \in ReplyType :
          /\ line' = <<reply>> \o Tail(line)
          /\ reply.number = Head(line).number /\ ~reply.intact
    BY DamagedReply
<1>3. /\ Items(line) = {Head(line)} \cup Items(Tail(line))
      /\ Items(line') = {reply} \cup Items(Tail(line))
    BY <1>1, <1>2, ItemsPopped, ItemsReplaced
<1>4. UnderWay' = UnderWay
    BY <1>1, <1>2, <1>3 DEF UnderWay, ChainNumbers, LineNumbers, QueueNumbers, Items
<1>5. DamagedUnderWay' \subseteq DamagedUnderWay \cup {reply.number}
    BY <1>1, <1>2, <1>3 DEF DamagedUnderWay, Items
<1> QED
    BY <1>1, <1>4, <1>5, DamagePays

\* The reply processed is the oldest under way: what is older and has not been processed
\* will never come.
LEMMA ProcessMissing ==
    ASSUME TypeOK, InOrder, CounterInv, ProcessReply,
           NEW h \in Nat, NEW owed \in 0 .. 1, Balanced(h, owed),
           NEW n, n = Head(replyQueue).reply.number
    PROVE  /\ n \in Nat /\ h < n /\ n <= transmitted
           /\ \A k \in UnderWay' : n < k
           /\ Missing(n)' \subseteq Missing(h)
           /\ n # h + 1 => h + 1 \in Missing(h) /\ h + 1 \notin Missing(n)'
           /\ DamagedUnderWay' \subseteq DamagedUnderWay
           /\ ~Head(replyQueue).reply.intact =>
                  n \in DamagedUnderWay /\ n \notin DamagedUnderWay'
<1>1. /\ replyQueue # <<>> /\ replyQueue' = Tail(replyQueue)
      /\ UNCHANGED <<transmitted, chain, line>>
    BY DEF ProcessReply, requests, wire
<1>2. /\ Items(replyQueue) = {Head(replyQueue)} \cup Items(replyQueue')
      /\ Len(replyQueue) \in Nat /\ Len(replyQueue') = Len(replyQueue) - 1
      /\ 1 \in 1 .. Len(replyQueue) /\ Head(replyQueue) = replyQueue[1]
      /\ \A i \in 1 .. Len(replyQueue') :
             i + 1 \in 1 .. Len(replyQueue) /\ replyQueue'[i] = replyQueue[i + 1]
    BY <1>1, ItemsPopped, Popped DEF TypeOK
<1>3. n \in Nat /\ Past(n)
    BY <1>2, QueuesTyped, Replies
<1>4. UnderWay = {n} \cup UnderWay'
    <2>1. QueueNumbers = QueueNumbers' \cup {n}
        BY <1>1, <1>2 DEF QueueNumbers
    <2>2. ChainNumbers' = ChainNumbers /\ LineNumbers' = LineNumbers
        BY <1>1 DEF ChainNumbers, LineNumbers
    <2> QED
        BY <2>1, <2>2 DEF UnderWay
<1>5. DamagedUnderWay' \subseteq DamagedUnderWay
      /\ (~Head(replyQueue).reply.intact => n \in DamagedUnderWay)
    BY <1>1, <1>2 DEF DamagedUnderWay, Items
<1>6. \A k \in UnderWay' : n < k
    <2>1. \A i \in 1 .. Len(chain) : n < chain[i].number
        BY <1>3 DEF Past
    <2>2. \A i \in 1 .. Len(line) : n < line[i].number
        BY <1>2 DEF CounterInv, RepliesOrdered
    <2>3. \A i \in 1 .. Len(replyQueue') : n < replyQueue'[i].reply.number
        BY <1>2 DEF CounterInv, RepliesOrdered
    <2> QED
        BY <1>1, <2>1, <2>2, <2>3 DEF UnderWay, ChainNumbers, LineNumbers, QueueNumbers, Items
<1>7. DamagedUnderWay' \subseteq UnderWay'
    BY DEF DamagedUnderWay, UnderWay, LineNumbers, QueueNumbers
<1>8. h < n /\ n <= transmitted /\ transmitted \in Nat
    BY <1>3, <1>4, BoundsAssumption DEF Balanced, Past, TypeOK
<1>9. n \notin DamagedUnderWay'
    BY <1>3, <1>6, <1>7
<1>10. Missing(n)' \subseteq Missing(h)
    BY <1>1, <1>3, <1>4, <1>8 DEF Missing
<1>11. n # h + 1 => h + 1 \in Missing(h) /\ h + 1 \notin Missing(n)'
    <2> SUFFICES ASSUME n # h + 1
                 PROVE  h + 1 \in Missing(h) /\ h + 1 \notin Missing(n)'
        OBVIOUS
    <2>1. h + 1 < n /\ h + 1 \in (h + 1) .. transmitted
        BY <1>3, <1>8
    <2>2. h + 1 \notin UnderWay'
        BY <1>3, <1>6, <2>1, AccountFinite
    <2>3. h + 1 \notin (n + 1) .. transmitted'
        BY <1>1, <1>3, <1>8, <2>1
    <2> QED
        BY <1>4, <2>1, <2>2, <2>3 DEF Missing
<1> QED
    BY <1>3, <1>5, <1>6, <1>8, <1>9, <1>10, <1>11

\* An error counted is paid for by a gap, by damage, or by what is owed.
LEMMA ProcessBalanced ==
    ASSUME TypeOK, InOrder, CounterInv, ProcessReply,
           NEW h \in Nat, NEW owed \in 0 .. 1, Balanced(h, owed)
    PROVE  Account'
<1> DEFINE received == Head(replyQueue)
           reply == received.reply
<1> PICK n : n = reply.number
    OBVIOUS
<1>1. /\ reply \in ReplyType /\ Sound(reply) /\ (reply.intact => received.crcRight)
    <2>1. 1 \in 1 .. Len(replyQueue) /\ Head(replyQueue) = replyQueue[1]
        BY Popped DEF ProcessReply, TypeOK
    <2> QED
        BY <2>1, QueuesTyped DEF CounterInv, RepliesSound
<1>2. IF received.crcRight THEN Accept(reply) ELSE Reject(reply)
    BY DEF ProcessReply
<1>3. UNCHANGED <<transmitted, lost, damaged>>
    BY DEF ProcessReply, requests, faults
<1>4. /\ n \in Nat /\ h < n /\ n <= transmitted
      /\ \A k \in UnderWay' : n < k
      /\ Missing(n)' \subseteq Missing(h)
      /\ n # h + 1 => h + 1 \in Missing(h) /\ h + 1 \notin Missing(n)'
      /\ DamagedUnderWay' \subseteq DamagedUnderWay
      /\ ~reply.intact => n \in DamagedUnderWay /\ n \notin DamagedUnderWay'
    BY ProcessMissing
<1> HIDE DEF received, reply
<1>5. IsFiniteSet(Missing(h)) /\ IsFiniteSet(DamagedUnderWay)
    BY AccountFinite
<1>6. /\ Cardinality(Missing(h)) \in Nat /\ Cardinality(Missing(n)') \in Nat
      /\ Cardinality(Missing(n)') <= Cardinality(Missing(h))
    BY <1>4, <1>5, NoMore
<1>7. /\ Cardinality(DamagedUnderWay) \in Nat /\ Cardinality(DamagedUnderWay') \in Nat
      /\ Cardinality(DamagedUnderWay') <= Cardinality(DamagedUnderWay)
    BY <1>4, <1>5, NoMore
<1>8. /\ Errors \in Nat /\ Errors' \in Nat /\ Errors' <= Errors + 1
      /\ lost \in Nat /\ damaged \in Nat
    BY <1>2 DEF Accept, Reject, Errors, TypeOK
<1>9. n \in 0 .. transmitted'
    BY <1>3, <1>4, BoundsAssumption DEF TypeOK
<1>10. CASE reply.intact
    <2>1. Accept(reply) /\ packetLastReceivedSequence' = n % Modulus
        BY <1>1, <1>2, <1>10 DEF Accept, Sound
    <2>2. ASSUME Errors' = Errors + 1, owed = 0
          PROVE  n # h + 1
        <3>1. OutOfSequence(reply.sequence)
            BY <1>8, <2>1, <2>2 DEF Accept, Errors, TypeOK
        <3>2. n % Modulus # ((h % Modulus) + 1) % Modulus
            BY <1>1, <1>10, <2>2, <3>1 DEF OutOfSequence, Balanced, Sound
        <3>3. (n - h - 1) % Modulus # 0
            BY <1>4, <3>2, GapShows
        <3>4. 0 % Modulus = 0
            BY BoundsAssumption
        <3> QED
            BY <3>3, <3>4
    <2>3. Errors' + Cardinality(Missing(n)') <= Errors + owed + Cardinality(Missing(h))
        <3>1. CASE Errors' = Errors + 1 /\ owed = 0
            <4>1. h + 1 \in Missing(h) /\ Missing(n)' \subseteq Missing(h) \ {h + 1}
                BY <1>4, <2>2, <3>1
            <4>2. Cardinality(Missing(n)') + 1 <= Cardinality(Missing(h))
                BY <1>5, <4>1, OneLess
            <4> QED
                BY <1>6, <1>8, <3>1, <4>2
        <3>2. CASE Errors' # Errors + 1 \/ owed # 0
            BY <1>6, <1>8, <3>2
        <3> QED
            BY <3>1, <3>2
    <2>4. Errors + Cardinality(Missing(h)) + 2 * Cardinality(DamagedUnderWay) + owed
              <= lost + 2 * damaged
        BY DEF Balanced
    <2>5. Errors' + Cardinality(Missing(n)') + 2 * Cardinality(DamagedUnderWay') + 0
              <= lost' + 2 * damaged'
        BY <1>3, <1>6, <1>7, <1>8, <2>3, <2>4
    <2>6. Balanced(n, 0)'
        BY <1>4, <2>1, <2>5 DEF Balanced
    <2> QED
        BY <1>9, <2>6 DEF Account
<1>11. CASE ~reply.intact
    <2>1. Cardinality(DamagedUnderWay') + 1 <= Cardinality(DamagedUnderWay)
        <3>1. n \in DamagedUnderWay /\ DamagedUnderWay' \subseteq DamagedUnderWay \ {n}
            BY <1>4, <1>11
        <3> QED
            BY <1>5, <3>1, OneLess
    <2>2. Errors + Cardinality(Missing(h)) + 2 * Cardinality(DamagedUnderWay) + owed
              <= lost + 2 * damaged
        BY DEF Balanced
    <2>3. Errors' + Cardinality(Missing(n)') + 2 * Cardinality(DamagedUnderWay') + 1
              <= lost' + 2 * damaged'
        BY <1>3, <1>6, <1>7, <1>8, <2>1, <2>2
    <2>4. Balanced(n, 1)'
        BY <1>4, <2>3 DEF Balanced
    <2> QED
        BY <1>9, <2>4 DEF Account
<1> QED
    BY <1>10, <1>11

\* Every step keeps the account.
LEMMA StepAccount ==
    ASSUME TypeOK, InOrder, CounterInv, Account, [Next]_vars
    PROVE  Account'
<1>1. PICK h \in 0 .. transmitted, owed \in 0 .. 1 : Balanced(h, owed)
    BY DEF Account
<1>2. transmitted \in Nat /\ h \in Nat
    BY BoundsAssumption DEF TypeOK
<1>3. ASSUME transmitted' \in Nat, transmitted <= transmitted', Balanced(h, owed)'
      PROVE  Account'
    <2>1. h \in 0 .. transmitted'
        BY <1>2, <1>3
    <2> QED
        BY <1>3, <2>1 DEF Account
<1>4. ASSUME NEW packet \in PacketType, TransmitPacket(packet)
      PROVE  Account'
    <2>1. transmitted' = transmitted + 1
        BY <1>4 DEF TransmitPacket
    <2> QED
        BY <1>1, <1>2, <1>3, <1>4, <2>1, SendBalanced
<1>5. ASSUME NEW request \in Requests, Send(request)
      PROVE  Account'
    BY <1>4, <1>5, RequestsTyped DEF Send
<1>6. CASE Transmit
    <2>1. Head(requestQueue) \in PacketType
        BY <1>6, Popped DEF Transmit, TypeOK
    <2> QED
        BY <1>4, <1>6, <2>1 DEF Transmit
<1>7. CASE \/ \E id \in IdentifyIds : SendIdentify(id)
           \/ \E limit \in Limits : SendGlobalConfig(limit)
           \/ UNCHANGED vars
    <2>1. UNCHANGED <<transmitted, chain, line, replyQueue, counters, faults>>
        BY <1>7 DEF SendIdentify, SendGlobalConfig, vars, requests, wire
    <2>2. UnderWay' = UnderWay /\ DamagedUnderWay' = DamagedUnderWay
        BY <2>1 DEF UnderWay, ChainNumbers, LineNumbers, QueueNumbers, DamagedUnderWay, Items
    <2>3. Balanced(h, owed)'
        BY <1>1, <1>2, <2>1, <2>2, Kept DEF Missing, Balanced
    <2> QED
        BY <1>2, <1>3, <2>1, <2>3
<1>8. ASSUME NEW live, Answer(live)
      PROVE  Account'
    BY <1>1, <1>2, <1>3, <1>8, AnswerBalanced DEF Answer, requests
<1>9. CASE LoseRequest
    BY <1>1, <1>2, <1>3, <1>9, LoseRequestBalanced DEF LoseRequest, requests
<1>10. CASE LoseReply
    BY <1>1, <1>2, <1>3, <1>10, LoseReplyBalanced DEF LoseReply, requests
<1>11. CASE DamageReply
    <2>1. UNCHANGED transmitted
        BY <1>11 DEF DamageReply, requests
    <2> QED
        BY <1>1, <1>2, <1>3, <1>11, <2>1, DamageBalanced
<1>12. CASE OnPacketReceived
    <2>1. /\ line # <<>> /\ line' = Tail(line)
          /\ UNCHANGED <<transmitted, chain, counters, damaged>>
          /\ \/ lost' = lost + 1 /\ UNCHANGED replyQueue
             \/ UNCHANGED lost /\ replyQueue' = Append(replyQueue, Received)
        BY <1>12 DEF OnPacketReceived, Received, requests
    <2> QED
        BY <1>1, <1>2, <1>3, <2>1, LoseReplyBalanced, ReceiveBalanced DEF faults
<1>13. CASE ProcessReply
    BY <1>1, <1>2, <1>13, ProcessBalanced
<1> QED
    BY <1>5, <1>6, <1>7, <1>8, <1>9, <1>10, <1>11, <1>12, <1>13 DEF Next

\* The account balances in every reachable state.
LEMMA Accounted == Spec => []Account
<1>1. Init => Account
    <2> SUFFICES ASSUME Init
                 PROVE  Balanced(0, 0) /\ transmitted = 0
        BY DEF Account
    <2>1. Len(chain) = 0 /\ Len(line) = 0 /\ Len(replyQueue) = 0 /\ transmitted = 0
        BY DEF Init
    <2>2. UnderWay = {} /\ DamagedUnderWay = {} /\ Missing(0) = {}
        BY <2>1
           DEF UnderWay, ChainNumbers, LineNumbers, QueueNumbers, DamagedUnderWay, Items, Missing
    <2>3. Cardinality({}) = 0 /\ 0 % Modulus = 0
        BY FS_EmptySet, BoundsAssumption
    <2>4. /\ packetLastReceivedSequence = 0 /\ totalOutofSequenceErrors = 0
          /\ totalCRCErrors = 0 /\ lost = 0 /\ damaged = 0
        BY DEF Init
    <2>5. Cardinality(Missing(0)) = 0 /\ Cardinality(DamagedUnderWay) = 0
        BY <2>2, <2>3
    <2> QED
        BY <2>1, <2>2, <2>3, <2>4, <2>5 DEF Balanced, Errors
<1>2. TypeOK /\ InOrder /\ CounterInv /\ Account /\ [Next]_vars => Account'
    BY StepAccount
<1> QED
    BY <1>1, <1>2, Counted, PTL DEF Spec

\* However many packets are lost, damaged or refused, and wherever the sequence number
\* wraps, the two counters of ProcessReply never exceed one error for each packet lost and
\* two for each damaged.
THEOREM ErrorsExplained == Spec => []ErrorsHaveCauses
<1>1. TypeOK /\ Account => ErrorsHaveCauses
    <2> SUFFICES ASSUME TypeOK, Account
                 PROVE  ErrorsHaveCauses
        OBVIOUS
    <2>1. PICK h \in 0 .. transmitted, owed \in 0 .. 1 : Balanced(h, owed)
        BY DEF Account
    <2>2. h \in Nat
        BY BoundsAssumption DEF TypeOK
    <2>3. Cardinality(Missing(h)) \in Nat /\ Cardinality(DamagedUnderWay) \in Nat
        BY <2>2, AccountFinite, FS_CardinalityType
    <2> QED
        BY <2>1, <2>3 DEF Balanced, Errors, ErrorsHaveCauses, TypeOK
<1> QED
    BY <1>1, TypeCorrect, Accounted, PTL

============================================================================
