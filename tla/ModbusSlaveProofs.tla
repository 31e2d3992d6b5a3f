------------------------- MODULE ModbusSlaveProofs -------------------------
(***************************************************************************)
(* Proofs about ModbusSlave: types, that the slave carries out requests    *)
(* whole, once and in order whatever the line does to their bytes, that it *)
(* takes a frame for complete only in silence, that it answers the         *)
(* master's last request only, and not while one is sent unless three      *)
(* bytes of it are lost in a row, and that the master's pause suffices.    *)
(*                                                                         *)
(* What is carried out is judged from the bytes in the receive buffer.     *)
(* They are in the order they were sent (Ordered) and younger than what    *)
(* was carried out (Recent), and of every frame that did not arrive whole  *)
(* there is a byte that is not there and will not come (Torn).             *)
(***************************************************************************)
EXTENDS ModbusSlave, TLAPS

ByteRecord == [frame : Nat \ {0}, position : Nat \ {0}, intact : BOOLEAN]

Before(a, b) == a.frame < b.frame \/ (a.frame = b.frame /\ a.position < b.position)

Ordered == \A i, j \in DOMAIN rx : i < j => Before(rx[i], rx[j])

Recent ==
    \A i \in DOMAIN rx :
        /\ rx[i].frame \in served + 1 .. frame
        /\ rx[i].position <= Size(script[rx[i].frame])
        /\ rx[i].frame = frame => rx[i].position <= position

Gap(k, p) ==
    \A i \in DOMAIN rx : rx[i] # [frame |-> k, position |-> p, intact |-> TRUE]

Torn ==
    \A k \in (1 .. frame) \ delivered :
        \/ k = frame /\ Sending /\ ~spoiled
        \/ \E p \in 1 .. Size(script[k]) : (k = frame => p <= position) /\ Gap(k, p)

Delivery ==
    /\ served \in delivered \cup {0}
    /\ Sending => frame \notin delivered

BytesInv == rx \in Seq(ByteRecord) /\ Ordered /\ Recent /\ Torn /\ Delivery

InductiveInv == TypeOK /\ BytesInv

----------------------------------------------------------------------------
(* Requests.                                                               *)

\* The shortest request, a read or a single write, takes eight bytes.
LEMMA SizeTyped ==
    ASSUME NEW request \in Request
    PROVE  Size(request) \in Nat /\ Size(request) >= 8
BY DEF Request, Size

\* Requests of the script are requests, and the position lies within the one sent.
LEMMA Requests ==
    ASSUME TypeOK
    PROVE  /\ script \in Seq(Request) /\ frame \in Nat /\ position \in Nat
           /\ \A k \in 1 .. Len(script) :
                  /\ script[k] \in Request
                  /\ Size(script[k]) \in Nat /\ Size(script[k]) >= 8
           /\ frame # 0 => position <= Size(script[frame])
<1>1. script \in Seq(Request) /\ frame \in Nat /\ frame <= Len(script)
    BY RequestsAssumption DEF TypeOK
<1>2. ASSUME NEW k \in 1 .. Len(script)
      PROVE  script[k] \in Request /\ Size(script[k]) \in Nat /\ Size(script[k]) >= 8
    <2>1. script[k] \in Request
        BY <1>1
    <2> QED
        BY <2>1, SizeTyped
<1>3. frame # 0 => Size(script[frame]) \in Nat
    BY <1>1, <1>2
<1>4. position \in Nat /\ (frame # 0 => position <= Size(script[frame]))
    BY <1>3 DEF TypeOK
<1> QED
    BY <1>1, <1>2, <1>4

\* The times are numbers, and micros() wraps well after T35.
LEMMA Times ==
    /\ ByteTime \in Nat \ {0} /\ T35 \in Nat \ {0} /\ Wrap \in Nat \ {0}
    /\ MaxLag \in Nat \ {0} /\ Pause \in Nat \ {0}
    /\ MaxIn \in Nat /\ MaxRx \in Nat /\ MaxFaults \in Nat
    /\ Wrap > 2 * T35
    /\ 0 \in 0 .. Largest(Pause, ByteTime)
    /\ ByteTime \in 0 .. Largest(Pause, ByteTime)
    /\ Pause \in 0 .. Largest(Pause, ByteTime)
<1>1. /\ ByteTime \in Nat \ {0} /\ T35 \in Nat \ {0} /\ Wrap \in Nat \ {0}
      /\ MaxLag \in Nat \ {0} /\ Pause \in Nat \ {0} /\ Wrap > 2 * T35
      /\ MaxIn \in Nat /\ MaxRx \in Nat /\ MaxFaults \in Nat
    BY TimeAssumption
<1> QED
    BY <1>1 DEF Largest

\* The invariant holds before the first byte.
LEMMA InitEstablishesInv == Init => InductiveInv
<1> SUFFICES ASSUME Init PROVE InductiveInv
    OBVIOUS
<1>1. script \in Seq(Request)
    BY RequestsAssumption DEF Init
<1>2. TypeOK
    <2>1. /\ script \in Scripts /\ frame \in 0 .. Len(script)
          /\ position \in 0 .. IF frame = 0 THEN 0 ELSE Size(script[frame])
          /\ served \in 0 .. frame /\ delivered \subseteq 1 .. frame
        BY <1>1 DEF Init
    <2>2. lastReceiveLen \in 0 .. Len(rx) /\ DOMAIN rx = {}
        BY DEF Init
    <2>3. clock \in 0 .. Wrap - 1 /\ lastReceiveTime \in 0 .. Wrap - 1
        BY Times DEF Init
    <2>4. countdown \in 0 .. Largest(Pause, ByteTime)
        BY Times DEF Init
    <2>5. sincePoll \in 0 .. MaxLag /\ silence \in 0 .. T35
        BY Times DEF Init
    <2>6. spoiled \in BOOLEAN /\ nearWrap \in BOOLEAN /\ leftovers \in BOOLEAN
        BY DEF Init
    <2>7. Len(rx) <= MaxRx /\ faults \in 0 .. MaxFaults /\ missing \in 0 .. position
        BY TimeAssumption DEF Init
    <2> QED
        BY <2>1, <2>2, <2>3, <2>4, <2>5, <2>6, <2>7 DEF TypeOK
<1>3. BytesInv
    BY DEF Init, BytesInv, Ordered, Recent, Torn, Delivery, Sending
<1> QED
    BY <1>2, <1>3 DEF InductiveInv

----------------------------------------------------------------------------
(* Steps that leave the buffer alone.                                      *)

\* The bytes stay in order as long as neither line nor buffer changes.
LEMMA NothingReceived ==
    ASSUME BytesInv, UNCHANGED <<script, frame, position, rx, served, delivered, spoiled>>
    PROVE  BytesInv'
BY DEF BytesInv, Ordered, Before, Recent, Torn, Gap, Delivery, Sending

\* The master begins its next frame: the bytes of the earlier ones stay in order.
LEMMA StartFrameStep ==
    ASSUME InductiveInv, StartFrame
    PROVE  InductiveInv'
<1> USE DEF InductiveInv
<1>1. /\ script \in Seq(Request) /\ frame \in Nat /\ position \in Nat
      /\ frame + 1 \in 1 .. Len(script) /\ Size(script[frame + 1]) >= 8
      /\ Size(script[frame + 1]) \in Nat
    BY Requests DEF StartFrame
<1>2. TypeOK'
    <2>1. /\ script' \in Scripts /\ frame' \in 0 .. Len(script')
          /\ position' \in 0 .. IF frame' = 0 THEN 0 ELSE Size(script'[frame'])
        BY <1>1 DEF StartFrame, TypeOK
    <2>2. \A i \in DOMAIN rx' :
              rx'[i] \in [frame : 1 .. frame', position : Nat, intact : BOOLEAN]
        BY <1>1 DEF StartFrame, TypeOK, slave
    <2>3. served' \in 0 .. frame' /\ delivered' \subseteq 1 .. frame'
        BY <1>1 DEF StartFrame, TypeOK, slave
    <2>4. nearWrap' \in BOOLEAN /\ leftovers' \in BOOLEAN /\ spoiled' \in BOOLEAN
        BY Zenon DEF StartFrame, TypeOK
    <2>5. missing' \in 0 .. position' /\ faults' \in 0 .. MaxFaults
        BY DEF StartFrame, TypeOK
    <2> QED
        BY <2>1, <2>2, <2>3, <2>4, <2>5, Times DEF StartFrame, TypeOK, slave
<1>3. ~Sending /\ Sending' /\ frame' = frame + 1 /\ position' = 0 /\ ~spoiled'
    BY <1>1 DEF StartFrame, Sending
<1>4. rx' = rx /\ script' = script /\ served' = served /\ delivered' = delivered
    BY DEF StartFrame, slave
<1>5. served \in Nat /\ delivered \subseteq 1 .. frame
    BY <1>1 DEF TypeOK
<1>6. rx' \in Seq(ByteRecord) /\ Ordered'
    BY <1>4 DEF BytesInv, Ordered
<1>7. Recent'
    BY <1>1, <1>3, <1>4, <1>5 DEF BytesInv, Recent
<1>8. Torn'
    <2> SUFFICES ASSUME NEW k \in (1 .. frame + 1) \ delivered, k # frame + 1
                 PROVE  \E p \in 1 .. Size(script[k]) : Gap(k, p)'
        BY <1>1, <1>3, <1>4 DEF Torn
    <2>1. k \in (1 .. frame) \ delivered
        BY <1>1
    <2>2. PICK p \in 1 .. Size(script[k]) : Gap(k, p)
        BY <2>1, <1>3 DEF BytesInv, Torn
    <2> QED
        BY <2>2, <1>4 DEF Gap
<1>9. Delivery'
    BY <1>1, <1>3, <1>4, <1>5 DEF BytesInv, Delivery
<1> QED
    BY <1>2, <1>6, <1>7, <1>8, <1>9 DEF BytesInv

\* The clock wraps and the poll's lag stays within its bound.
LEMMA TimePassesTyped ==
    ASSUME TypeOK, TimePasses
    PROVE  /\ clock' \in 0 .. Wrap - 1 /\ sincePoll' \in 0 .. MaxLag
           /\ nearWrap' \in BOOLEAN
           /\ UNCHANGED <<script, frame, lastReceiveLen, lastReceiveTime, served, leftovers>>
<1>1. clock + 1 \in Int /\ Wrap \in Nat \ {0} /\ MaxLag \in Nat
    BY Times DEF TypeOK
<1>2. (clock + 1) % Wrap \in 0 .. Wrap - 1
    BY <1>1
<1>3. sincePoll' \in 0 .. MaxLag
    BY <1>1 DEF TypeOK, TimePasses
<1>4. nearWrap' \in BOOLEAN
    BY Zenon DEF TypeOK, TimePasses
<1> QED
    BY <1>2, <1>3, <1>4 DEF TimePasses

\* Time passes without a byte.
LEMMA NoByteStep ==
    ASSUME InductiveInv, NoByte
    PROVE  InductiveInv'
<1> USE DEF InductiveInv
<1>1. UNCHANGED <<script, frame, position, rx, served, delivered, spoiled>>
    BY DEF NoByte, TimePasses
<1>2. BytesInv'
    BY <1>1, NothingReceived
<1>3. countdown' \in 0 .. Largest(Pause, ByteTime)
    BY Times DEF NoByte, TypeOK, Largest
<1>4. silence' \in 0 .. T35
    BY Times DEF NoByte, TypeOK, Least
<1>5. TypeOK'
    BY <1>1, <1>3, <1>4, TimePassesTyped DEF NoByte, TypeOK
<1> QED
    BY <1>2, <1>5

----------------------------------------------------------------------------
(* A byte arrives, intact, damaged or not at all.                          *)

\* A byte, or the loss of one, keeps the types.
LEMMA ByteTyped ==
    ASSUME InductiveInv, Byte
    PROVE  TypeOK'
<1> USE DEF InductiveInv
<1>1. /\ frame \in 1 .. Len(script) /\ position \in Nat
      /\ Size(script[frame]) \in Nat /\ position + 1 <= Size(script[frame])
    <2>1. frame > 0 /\ position < Size(script[frame]) /\ frame \in 0 .. Len(script)
        BY DEF Byte, Sending, TypeOK
    <2> QED
        BY <2>1, Requests
<1>2. /\ clock' \in 0 .. Wrap - 1 /\ sincePoll' \in 0 .. MaxLag
      /\ nearWrap' \in BOOLEAN
      /\ UNCHANGED <<script, frame, lastReceiveLen, lastReceiveTime, served, leftovers>>
    BY TimePassesTyped DEF Byte
<1>3. position' \in 0 .. IF frame' = 0 THEN 0 ELSE Size(script'[frame'])
    BY <1>1, <1>2 DEF Byte
<1>4. countdown' \in 0 .. Largest(Pause, ByteTime)
    BY Times DEF Byte
<1>5. /\ silence' \in 0 .. T35 /\ faults' \in 0 .. MaxFaults
      /\ missing' \in 0 .. position'
    <2>1. /\ silence \in 0 .. T35 /\ faults \in 0 .. MaxFaults /\ missing \in 0 .. position
          /\ T35 \in Nat /\ MaxFaults \in Nat
        BY Times DEF TypeOK
    <2>2. faults' = faults \/ (faults' = faults + 1 /\ faults < MaxFaults)
        BY DEF Byte, ByteArrives, ByteLost, Fault
    <2>3. /\ silence' \in {0, Least(silence + 1, T35)} /\ missing' \in {0, missing + 1}
          /\ position' = position + 1
        BY DEF Byte, ByteArrives, ByteLost
    <2> QED
        BY <1>1, <2>1, <2>2, <2>3 DEF Least
<1>6. delivered' \subseteq 1 .. frame
    <2>1. delivered' \in {delivered, delivered \cup {frame}}
        BY DEF Byte
    <2>2. delivered \subseteq 1 .. frame /\ frame \in 1 .. frame
        BY <1>1 DEF TypeOK
    <2> QED
        BY <2>1, <2>2
<1>7. spoiled' \in BOOLEAN
    <2>1. spoiled' = spoiled \/ spoiled' = TRUE
        BY DEF Byte, ByteArrives, ByteLost, Fault
    <2>2. spoiled \in BOOLEAN
        BY DEF TypeOK
    <2> QED
        BY <2>1, <2>2, Zenon
<1>8. /\ \A i \in DOMAIN rx' :
              rx'[i] \in [frame : 1 .. frame, position : Nat, intact : BOOLEAN]
      /\ lastReceiveLen \in 0 .. Len(rx') /\ Len(rx') <= MaxRx
    <2>1. rx \in Seq(ByteRecord) /\ Len(rx) \in Nat
        BY DEF BytesInv
    <2>2. \A intact \in BOOLEAN :
              NextByte(intact) \in [frame : 1 .. frame, position : Nat, intact : BOOLEAN]
        BY <1>1 DEF NextByte
    <2>3. CASE rx' = rx
        BY <2>3 DEF TypeOK
    <2>4. ASSUME NEW intact \in BOOLEAN, rx' = Append(rx, NextByte(intact)),
                 Len(rx) < MaxRx
          PROVE  /\ \A i \in DOMAIN rx' :
                        rx'[i] \in [frame : 1 .. frame, position : Nat, intact : BOOLEAN]
                 /\ lastReceiveLen \in 0 .. Len(rx') /\ Len(rx') <= MaxRx
        BY <2>1, <2>2, <2>4, Times DEF TypeOK
    <2> QED
        BY <2>3, <2>4 DEF Byte, ByteArrives, ByteLost
<1> QED
    BY <1>1, <1>2, <1>3, <1>4, <1>5, <1>6, <1>7, <1>8 DEF TypeOK

\* A byte is appended after those that were sent before it.
LEMMA ByteInOrder ==
    ASSUME InductiveInv, Byte
    PROVE  rx' \in Seq(ByteRecord) /\ Ordered' /\ Recent'
<1> USE DEF InductiveInv
<1>1. /\ frame \in 1 .. Len(script) /\ position \in Nat
      /\ Size(script[frame]) \in Nat /\ position + 1 <= Size(script[frame])
      /\ UNCHANGED <<script, frame, served>> /\ position' = position + 1
    BY Requests DEF Byte, Sending, TypeOK, TimePasses
<1>2. served \in 0 .. frame - 1
    BY <1>1 DEF BytesInv, Delivery, TypeOK, Byte
<1>3. rx \in Seq(ByteRecord) /\ Ordered /\ Recent
    BY DEF BytesInv
<1>4. \A i \in DOMAIN rx :
          /\ rx[i].frame \in Nat /\ rx[i].position \in Nat
          /\ rx[i].frame <= frame
          /\ rx[i].frame = frame => rx[i].position <= position
    <2> SUFFICES ASSUME NEW i \in DOMAIN rx
                 PROVE  /\ rx[i].frame \in Nat /\ rx[i].position \in Nat
                        /\ rx[i].frame <= frame
                        /\ rx[i].frame = frame => rx[i].position <= position
        OBVIOUS
    <2>1. rx[i] \in ByteRecord
        BY <1>3
    <2>2. /\ rx[i].frame \in served + 1 .. frame
          /\ rx[i].frame = frame => rx[i].position <= position
        BY <1>3 DEF Recent
    <2> QED
        BY <1>1, <1>2, <2>1, <2>2 DEF ByteRecord
<1>5. CASE rx' = rx
    <2>1. rx' \in Seq(ByteRecord) /\ Ordered'
        BY <1>3, <1>5 DEF Ordered, Before
    <2>2. Recent'
        BY <1>1, <1>3, <1>4, <1>5 DEF Recent
    <2> QED
        BY <2>1, <2>2
<1>6. ASSUME NEW intact \in BOOLEAN, rx' = Append(rx, NextByte(intact))
      PROVE  rx' \in Seq(ByteRecord) /\ Ordered' /\ Recent'
    <2>1. /\ NextByte(intact) \in ByteRecord
          /\ NextByte(intact).frame = frame /\ NextByte(intact).position = position + 1
        BY <1>1 DEF NextByte, ByteRecord
    <2>2. /\ rx' \in Seq(ByteRecord) /\ Len(rx) \in Nat
          /\ DOMAIN rx = 1 .. Len(rx) /\ DOMAIN rx' = 1 .. Len(rx) + 1
          /\ rx'[Len(rx) + 1] = NextByte(intact)
          /\ \A i \in DOMAIN rx : rx'[i] = rx[i]
        BY <1>3, <1>6, <2>1
    <2>4. \A i \in DOMAIN rx : Before(rx[i], NextByte(intact))
        BY <1>1, <1>4, <2>1 DEF Before
    <2>5. Ordered'
        <3> SUFFICES ASSUME NEW i \in DOMAIN rx', NEW j \in DOMAIN rx', i < j
                     PROVE  Before(rx'[i], rx'[j])
            BY DEF Ordered, Before
        <3>1. i \in DOMAIN rx /\ rx'[i] = rx[i]
            BY <2>2
        <3>2. CASE j \in DOMAIN rx
            BY <1>3, <2>2, <3>1, <3>2 DEF Ordered
        <3>3. CASE j = Len(rx) + 1
            BY <2>2, <2>4, <3>1, <3>3
        <3> QED
            BY <2>2, <3>2, <3>3
    <2>6. Recent'
        <3> SUFFICES ASSUME NEW i \in DOMAIN rx'
                     PROVE  /\ rx'[i].frame \in served + 1 .. frame
                            /\ rx'[i].position <= Size(script[rx'[i].frame])
                            /\ rx'[i].frame = frame => rx'[i].position <= position + 1
            BY <1>1 DEF Recent
        <3>1. CASE i \in DOMAIN rx
            BY <1>1, <1>3, <1>4, <2>2, <3>1 DEF Recent
        <3>2. CASE i = Len(rx) + 1
            BY <1>1, <1>2, <2>1, <2>2, <3>2
        <3> QED
            BY <2>2, <3>1, <3>2
    <2> QED
        BY <2>2, <2>5, <2>6
<1> QED
    BY <1>5, <1>6 DEF Byte, ByteArrives, ByteLost

\* A byte that went missing does not turn up later.
LEMMA GapKept ==
    ASSUME NEW k, NEW p, NEW byte, rx \in Seq(ByteRecord), Gap(k, p),
           rx' = Append(rx, byte), byte # [frame |-> k, position |-> p, intact |-> TRUE]
    PROVE  Gap(k, p)'
BY DEF Gap

\* A frame is delivered when its last byte arrives and none of it is missing.
LEMMA ByteTears ==
    ASSUME InductiveInv, Byte
    PROVE  Torn' /\ Delivery'
<1> USE DEF InductiveInv
<1>1. /\ frame \in 1 .. Len(script) /\ position \in Nat
      /\ Size(script[frame]) \in Nat /\ position + 1 <= Size(script[frame])
      /\ UNCHANGED <<script, frame, served>> /\ position' = position + 1
    BY Requests DEF Byte, Sending, TypeOK, TimePasses
<1>2. Sending' <=> position + 1 < Size(script[frame])
    BY <1>1 DEF Sending
<1>3. frame \notin delivered /\ delivered \subseteq 1 .. frame
    BY DEF BytesInv, Delivery, TypeOK, Byte
<1>4. Delivery'
    BY <1>1, <1>2 DEF BytesInv, Delivery, Byte
<1>5. Torn'
    <2> SUFFICES ASSUME NEW k \in (1 .. frame) \ delivered'
                 PROVE  \/ k = frame /\ Sending' /\ ~spoiled'
                        \/ \E p \in 1 .. Size(script[k]) :
                               (k = frame => p <= position + 1) /\ Gap(k, p)'
        BY <1>1 DEF Torn
    <2>1. k \in (1 .. frame) \ delivered
        BY DEF Byte
    \* A byte that was missing does not come any more.
    <2>2. ASSUME NEW p \in 1 .. Size(script[k]), k = frame => p <= position, Gap(k, p)
          PROVE  Gap(k, p)'
        <3>1. ASSUME NEW intact \in BOOLEAN, rx' = Append(rx, NextByte(intact))
              PROVE  Gap(k, p)'
            <4>1. rx \in Seq(ByteRecord)
                BY DEF BytesInv
            <4>2. NextByte(intact) # [frame |-> k, position |-> p, intact |-> TRUE]
                <5>1. /\ NextByte(intact).frame = frame
                      /\ NextByte(intact).position = position + 1
                    BY DEF NextByte
                <5>2. k # frame \/ p # position + 1
                    BY <1>1, <2>2
                <5> QED
                    BY <5>1, <5>2
            <4> QED
                BY <2>2, <3>1, <4>1, <4>2, GapKept
        <3>2. CASE rx' = rx
            BY <2>2, <3>2 DEF Gap
        <3> QED
            BY <3>1, <3>2 DEF Byte, ByteArrives, ByteLost
    <2>3. CASE \E p \in 1 .. Size(script[k]) : (k = frame => p <= position) /\ Gap(k, p)
        <3>1. PICK p \in 1 .. Size(script[k]) : (k = frame => p <= position) /\ Gap(k, p)
            BY <2>3
        <3>2. k = frame => p <= position + 1
            BY <1>1, <3>1
        <3> QED
            BY <2>2, <3>1, <3>2
    <2>4. CASE k = frame /\ ~spoiled /\ ~spoiled'
        <3>1. Sending'
            BY <1>1, <1>2, <2>4 DEF Byte
        <3> QED
            BY <2>4, <3>1
    \* The byte that is lost or damaged is missing.
    <2>5. CASE k = frame /\ ~spoiled /\ spoiled'
        <3>1. PICK p \in 1 .. Size(script[k]) : p = position + 1
            BY <1>1, <2>5
        <3>2. rx \in Seq(ByteRecord) /\ Recent
            BY DEF BytesInv
        <3>3. Gap(k, p)
            BY <1>1, <2>5, <3>1, <3>2 DEF Recent, Gap
        <3>4. NextByte(FALSE) # [frame |-> k, position |-> p, intact |-> TRUE]
            BY DEF NextByte
        <3>5. ASSUME rx' = rx PROVE Gap(k, p)'
            BY <3>3, <3>5 DEF Gap
        <3>6. ASSUME rx' = Append(rx, NextByte(FALSE)) PROVE Gap(k, p)'
            BY <3>2, <3>3, <3>4, <3>6, GapKept
        <3>7. rx' = rx \/ rx' = Append(rx, NextByte(FALSE))
            BY <2>5 DEF Byte, ByteArrives, ByteLost
        <3>8. Gap(k, p)'
            BY <3>5, <3>6, <3>7
        <3>9. p <= position + 1
            BY <1>1, <3>1
        <3> QED
            BY <3>8, <3>9
    <2> QED
        BY <2>1, <2>3, <2>4, <2>5 DEF BytesInv, Torn
<1> QED
    BY <1>4, <1>5

\* A byte keeps the invariant.
LEMMA ByteStep ==
    ASSUME InductiveInv, Byte
    PROVE  InductiveInv'
BY ByteTyped, ByteInOrder, ByteTears DEF InductiveInv, BytesInv

----------------------------------------------------------------------------
(* The polls.                                                              *)

\* The polls that only look at the buffer's length change no byte.
LEMMA QuietPollStep ==
    ASSUME InductiveInv, PollEmpty \/ PollNewBytes \/ PollWait
    PROVE  InductiveInv'
<1> USE DEF InductiveInv, Polled, master, slave
<1>1. UNCHANGED <<script, frame, position, rx, served, delivered, spoiled>>
    BY DEF PollEmpty, PollNewBytes, PollWait
<1>2. BytesInv'
    BY <1>1, NothingReceived
<1>3. /\ UNCHANGED <<countdown, clock, silence, nearWrap, leftovers, faults, missing>>
      /\ sincePoll' \in 0 .. MaxLag
    BY Times DEF PollEmpty, PollNewBytes, PollWait
<1>4. lastReceiveLen' \in 0 .. Len(rx) /\ lastReceiveTime' \in 0 .. Wrap - 1
    <2>1. Len(rx) \in Nat
        BY DEF BytesInv
    <2> QED
        BY <2>1 DEF PollEmpty, PollNewBytes, PollWait, TypeOK
<1>5. TypeOK'
    BY <1>1, <1>3, <1>4 DEF TypeOK
<1> QED
    BY <1>2, <1>5

\* What is carried out is taken from bytes whose CRC is right.
LEMMA OutcomeFrames ==
    ASSUME NEW bytes, NEW header
    PROVE  \/ Outcome(bytes, header) = NoAnswer
           \/ Outcome(bytes, header)[1].frame = 0
           \/ Outcome(bytes, header)[1].frame \in CrcRightFor(bytes, header)
BY DEF Outcome, Answer

\* What is carried out has arrived whole and is younger than what was before.
LEMMA CarriedOutWhole ==
    ASSUME InductiveInv, NEW bytes \in Seq(ByteRecord),
           Len(bytes) <= Len(rx), \A i \in DOMAIN bytes : bytes[i] = rx[i],
           NEW k \in 1 .. frame, AsSent(bytes, k, Size(script[k]))
    PROVE  /\ k \in delivered /\ k > served /\ Size(script[k]) \in 1 .. Len(bytes)
           /\ rx[Size(script[k])].frame = k
           /\ rx[Size(script[k])].position = Size(script[k])
<1> USE DEF InductiveInv
<1> DEFINE size == Size(script[k])
<1>1. size \in Nat /\ size >= 8 /\ frame \in Nat /\ position \in Nat
    BY Requests DEF TypeOK
<1>2. /\ rx \in Seq(ByteRecord) /\ DOMAIN bytes = 1 .. Len(bytes)
      /\ DOMAIN rx = 1 .. Len(rx) /\ Len(bytes) \in Nat /\ Len(rx) \in Nat
    BY DEF BytesInv
<1>3. size <= Len(bytes)
    BY DEF AsSent
<1>4. \A i \in 1 .. size : i \in DOMAIN bytes /\ i \in DOMAIN rx
    BY <1>1, <1>2, <1>3
<1>5. ASSUME NEW i \in 1 .. size
      PROVE  /\ rx[i] = [frame |-> k, position |-> i, intact |-> TRUE]
             /\ rx[i].frame = k /\ rx[i].position = i
    <2>1. bytes[i] = [frame |-> k, position |-> i, intact |-> TRUE]
        BY DEF AsSent
    <2> QED
        BY <1>4, <2>1
<1> HIDE DEF size
<1>6. 1 \in 1 .. size /\ size \in 1 .. size
    BY <1>1
<1>7. k > served
    <2>1. 1 \in DOMAIN rx /\ rx[1].frame = k
        BY <1>4, <1>5, <1>6
    <2>2. served \in 0 .. frame
        BY DEF TypeOK
    <2> QED
        BY <2>1, <1>1, <2>2 DEF BytesInv, Recent
<1>8. size \in DOMAIN rx /\ rx[size].frame = k /\ rx[size].position = size
    BY <1>4, <1>5, <1>6
<1>9. k \in delivered
    <2> SUFFICES ASSUME k \notin delivered PROVE FALSE
        OBVIOUS
    <2>1. CASE k = frame /\ Sending
        <3>1. size <= position
            BY <1>8, <2>1 DEF BytesInv, Recent
        <3>2. position < size
            BY <2>1 DEF Sending, size
        <3> QED
            BY <1>1, <3>1, <3>2
    <2>2. ASSUME NEW p \in 1 .. size, Gap(k, p)
          PROVE  FALSE
        BY <1>4, <1>5, <2>2 DEF Gap
    <2> QED
        BY <2>1, <2>2 DEF BytesInv, Torn, size
<1> QED
    BY <1>1, <1>2, <1>3, <1>7, <1>8, <1>9 DEF size

\* A poll takes bytes off the front of the buffer and carries out at most one frame.
LEMMA ReadPart ==
    ASSUME InductiveInv, PollFrame
    PROVE  \E n \in 0 .. Len(rx) :
               /\ rx' \in Seq(ByteRecord) /\ Len(rx') = Len(rx) - n
               /\ \A i \in DOMAIN rx' : i + n \in DOMAIN rx /\ rx'[i] = rx[i + n]
               /\ \/ served' = served
                  \/ \E k \in delivered :
                        /\ served' = k /\ k > served /\ Size(script[k]) \in 1 .. n
                        /\ rx[Size(script[k])].frame = k
                        /\ rx[Size(script[k])].position = Size(script[k])
<1> USE DEF InductiveInv
<1> DEFINE n == LengthIn
           bytes == SubSeq(rx, 1, n)
<1>1. rx \in Seq(ByteRecord) /\ Len(rx) \in Nat /\ n \in 0 .. Len(rx)
    BY Times DEF BytesInv, LengthIn, Least
<1>2. /\ bytes \in Seq(ByteRecord) /\ Len(bytes) = n
      /\ \A i \in DOMAIN bytes : bytes[i] = rx[i]
    BY <1>1
<1>3. rx' = SubSeq(rx, n + 1, Len(rx))
    BY <1>2 DEF PollFrame
<1>4. /\ rx' \in Seq(ByteRecord) /\ Len(rx') = Len(rx) - n
      /\ \A i \in DOMAIN rx' : i + n \in DOMAIN rx /\ rx'[i] = rx[i + n]
    BY <1>1, <1>3
<1>5. \/ served' = served
      \/ \E k \in 1 .. frame : served' = k /\ AsSent(bytes, k, Size(script[k]))
    <2>1. PICK header \in Headers(bytes) :
              /\ answer' = Outcome(bytes, header)
              /\ served' = IF answer' # NoAnswer /\ answer'[1].frame # 0
                           THEN answer'[1].frame ELSE served
        BY DEF PollFrame
    <2>2. served' = served \/ served' \in CrcRightFor(bytes, header)
        BY <2>1, OutcomeFrames
    <2> QED
        BY <2>2 DEF CrcRightFor
<1> HIDE DEF n, bytes
<1>6. ASSUME NEW k \in 1 .. frame, AsSent(bytes, k, Size(script[k]))
      PROVE  /\ k \in delivered /\ k > served /\ Size(script[k]) \in 1 .. n
             /\ rx[Size(script[k])].frame = k
             /\ rx[Size(script[k])].position = Size(script[k])
    <2>1. Len(bytes) <= Len(rx)
        BY <1>1, <1>2
    <2> QED
        BY <1>2, <1>6, <2>1, CarriedOutWhole
<1> QED
    BY <1>1, <1>4, <1>5, <1>6

\* A poll that reads a frame keeps the invariant.
LEMMA PollFrameStep ==
    ASSUME InductiveInv, PollFrame
    PROVE  InductiveInv'
<1> USE DEF InductiveInv
<1>1. PICK n \in 0 .. Len(rx) :
          /\ rx' \in Seq(ByteRecord) /\ Len(rx') = Len(rx) - n
          /\ \A i \in DOMAIN rx' : i + n \in DOMAIN rx /\ rx'[i] = rx[i + n]
          /\ \/ served' = served
             \/ \E k \in delivered :
                   /\ served' = k /\ k > served /\ Size(script[k]) \in 1 .. n
                   /\ rx[Size(script[k])].frame = k
                   /\ rx[Size(script[k])].position = Size(script[k])
    BY ReadPart
<1>2. /\ rx \in Seq(ByteRecord) /\ Len(rx) \in Nat /\ DOMAIN rx = 1 .. Len(rx)
      /\ DOMAIN rx' = 1 .. Len(rx') /\ frame \in Nat /\ served \in 0 .. frame
      /\ delivered \subseteq 1 .. frame
    BY <1>1 DEF BytesInv, TypeOK
<1>3. UNCHANGED <<script, frame, position, countdown, delivered, spoiled, clock,
                  silence, nearWrap, leftovers, faults, missing>>
    BY DEF PollFrame, Polled, master
<1>4. served' \in delivered \cup {0}
    BY <1>1 DEF BytesInv, Delivery
<1>5. Ordered'
    <2> SUFFICES ASSUME NEW i \in DOMAIN rx', NEW j \in DOMAIN rx', i < j
                 PROVE  Before(rx'[i], rx'[j])
        BY DEF Ordered, Before
    <2>1. /\ i + n \in DOMAIN rx /\ rx'[i] = rx[i + n]
          /\ j + n \in DOMAIN rx /\ rx'[j] = rx[j + n] /\ i + n < j + n
        BY <1>1, <1>2
    <2> QED
        BY <2>1 DEF BytesInv, Ordered
<1>6. Recent'
    <2> SUFFICES ASSUME NEW i \in DOMAIN rx'
                 PROVE  /\ rx'[i].frame \in served' + 1 .. frame
                        /\ rx'[i].position <= Size(script[rx'[i].frame])
                        /\ rx'[i].frame = frame => rx'[i].position <= position
        BY <1>3 DEF Recent
    <2>1. /\ i + n \in DOMAIN rx /\ rx'[i] = rx[i + n] /\ i \in Nat \ {0}
          /\ n \in Nat
        BY <1>1, <1>2
    <2>2. /\ rx[i + n].frame \in served + 1 .. frame
          /\ rx[i + n].position <= Size(script[rx[i + n].frame])
          /\ rx[i + n].frame = frame => rx[i + n].position <= position
        BY <2>1 DEF BytesInv, Recent
    <2>3. CASE served' = served
        BY <2>1, <2>2, <2>3
    \* What is left came after the last byte of the frame carried out.
    <2>4. ASSUME NEW k \in delivered, served' = k, Size(script[k]) \in 1 .. n,
                 rx[Size(script[k])].frame = k,
                 rx[Size(script[k])].position = Size(script[k])
          PROVE  rx[i + n].frame \in served' + 1 .. frame
        <3>1. Before(rx[Size(script[k])], rx[i + n])
            <4>1. Size(script[k]) \in DOMAIN rx /\ Size(script[k]) < i + n
                BY <1>1, <1>2, <2>1, <2>4
            <4> QED
                BY <2>1, <4>1 DEF BytesInv, Ordered
        <3>2. k \in Nat /\ Size(script[k]) \in Nat
            BY <1>2, <2>4
        <3>3. rx[i + n].position \in Nat
            <4>1. rx[i + n] \in ByteRecord
                BY <1>2, <2>1
            <4> QED
                BY <4>1 DEF ByteRecord
        <3>4. rx[i + n].frame > k
            BY <2>2, <2>4, <3>1, <3>2, <3>3, <1>2 DEF Before
        <3> QED
            BY <1>2, <2>2, <2>4, <3>2, <3>4
    <2> QED
        BY <1>1, <2>1, <2>2, <2>3, <2>4
<1>7. Torn'
    <2> SUFFICES ASSUME NEW k \in (1 .. frame) \ delivered
                 PROVE  \/ k = frame /\ Sending /\ ~spoiled
                        \/ \E p \in 1 .. Size(script[k]) :
                               (k = frame => p <= position) /\ Gap(k, p)'
        BY <1>3 DEF Torn, Sending
    <2>1. ASSUME NEW p, Gap(k, p)
          PROVE  Gap(k, p)'
        BY <1>1, <2>1 DEF Gap
    <2> QED
        BY <2>1 DEF BytesInv, Torn
<1>8. Delivery'
    BY <1>3, <1>4 DEF BytesInv, Delivery, Sending
<1>9. BytesInv'
    BY <1>1, <1>5, <1>6, <1>7, <1>8 DEF BytesInv
<1>10. TypeOK'
    <2>1. served' \in 0 .. frame /\ served' \in Nat
        BY <1>2, <1>4
    <2>2. \A i \in DOMAIN rx' :
              rx'[i] \in [frame : 1 .. frame, position : Nat, intact : BOOLEAN]
        <3> SUFFICES ASSUME NEW i \in DOMAIN rx'
                     PROVE  rx'[i] \in [frame : 1 .. frame, position : Nat, intact : BOOLEAN]
            BY <1>3
        <3>1. rx'[i] \in ByteRecord
            BY <1>1
        <3>2. rx'[i].frame \in 1 .. frame
            BY <1>2, <1>3, <1>6, <2>1 DEF Recent
        <3> QED
            BY <3>1, <3>2 DEF ByteRecord
    <2>3. lastReceiveLen' = 0 /\ lastReceiveTime' = 0 /\ sincePoll' = 0
        BY DEF PollFrame, Polled
    <2>4. /\ Len(rx') \in Nat /\ Wrap \in Nat \ {0} /\ MaxLag \in Nat
          /\ Len(rx') <= MaxRx
        BY <1>1, <1>2, Times, TimeAssumption DEF TypeOK
    <2> QED
        BY <1>3, <2>1, <2>2, <2>3, <2>4 DEF TypeOK
<1> QED
    BY <1>9, <1>10

----------------------------------------------------------------------------
(* The theorems.                                                           *)

\* Every step keeps the invariant.
LEMMA NextPreservesInv == InductiveInv /\ [Next]_vars => InductiveInv'
<1> SUFFICES ASSUME InductiveInv, [Next]_vars PROVE InductiveInv'
    OBVIOUS
<1>1. CASE StartFrame
    BY <1>1, StartFrameStep
<1>2. CASE NoByte
    BY <1>2, NoByteStep
<1>3. CASE Byte
    BY <1>3, ByteStep
<1>4. CASE PollEmpty \/ PollNewBytes \/ PollWait
    BY <1>4, QuietPollStep
<1>5. CASE PollFrame
    BY <1>5, PollFrameStep
<1>6. CASE UNCHANGED vars
    <2>1. BytesInv'
        BY <1>6, NothingReceived DEF vars, master, slave, InductiveInv
    <2>2. TypeOK'
        BY <1>6 DEF vars, master, slave, InductiveInv, TypeOK
    <2> QED
        BY <2>1, <2>2 DEF InductiveInv
<1> QED
    BY <1>1, <1>2, <1>3, <1>4, <1>5, <1>6 DEF Next, Tick, Poll

\* The inductive invariant holds in every reachable state.
LEMMA Invariance == Spec => []InductiveInv
BY InitEstablishesInv, NextPreservesInv, PTL DEF Spec

\* Types: the clock stays below its wrap, the buffer's length is never less than the
\* one the slave remembers, and what was carried out is one of the frames sent.
THEOREM TypeCorrect == Spec => []TypeOK
<1>1. InductiveInv => TypeOK
    BY DEF InductiveInv
<1> QED
    BY <1>1, Invariance, PTL

----------------------------------------------------------------------------
(* Requests in order, once.                                                *)

\* A frame's number is one the abstract service knows.
LEMMA FramesAreNumbered ==
    ASSUME TypeOK, NEW k \in 1 .. frame
    PROVE  k \in UNION {DOMAIN requests : requests \in Scripts}
<1>1. script \in Scripts /\ script \in Seq(Request) /\ k \in 1 .. Len(script)
    BY Requests DEF TypeOK
<1>2. k \in DOMAIN script
    BY <1>1
<1> QED
    BY <1>1, <1>2

\* A byte is a delivery of the abstract service, or nothing to it.
LEMMA ByteDelivers ==
    ASSUME InductiveInv, Byte
    PROVE  UNCHANGED <<delivered, served>> \/ Service!Deliver(frame)
<1> USE DEF InductiveInv
<1>1. served' = served /\ delivered' \in {delivered, delivered \cup {frame}}
    BY DEF Byte, TimePasses
<1>2. frame \notin delivered /\ delivered \subseteq 1 .. frame /\ frame \in Nat
    BY DEF BytesInv, Delivery, TypeOK, Byte
<1>3. \A earlier \in delivered : earlier < frame
    BY <1>2
<1> QED
    BY <1>1, <1>3 DEF Service!Deliver

\* A poll that reads a frame serves one of those delivered, or none.
LEMMA PollServes ==
    ASSUME InductiveInv, PollFrame
    PROVE  UNCHANGED <<delivered, served>> \/ \E k \in delivered : Service!Serve(k)
<1>1. delivered' = delivered
    BY DEF PollFrame, Polled, master
<1>2. served' = served \/ \E k \in delivered : served' = k /\ k > served
    BY ReadPart
<1> QED
    BY <1>1, <1>2 DEF Service!Serve

\* Every step maps to a step of the service or to a stutter.
LEMMA StepServes ==
    InductiveInv /\ [Next]_vars => [Service!Next]_<<delivered, served>>
<1> SUFFICES ASSUME InductiveInv, [Next]_vars
             PROVE  UNCHANGED <<delivered, served>> \/ Service!Next
    OBVIOUS
<1> USE DEF slave, master
<1>1. CASE StartFrame
    BY <1>1 DEF StartFrame
<1>2. CASE NoByte
    BY <1>2 DEF NoByte, TimePasses
<1>3. CASE Byte
    <2>1. frame \in 1 .. frame
        BY <1>3, Requests DEF Byte, Sending, InductiveInv
    <2>2. frame \in UNION {DOMAIN requests : requests \in Scripts}
        BY <2>1, FramesAreNumbered DEF InductiveInv
    <2> QED
        BY <1>3, <2>2, ByteDelivers DEF Service!Next
<1>4. CASE PollEmpty \/ PollNewBytes \/ PollWait
    BY <1>4 DEF PollEmpty, PollNewBytes, PollWait, Polled
<1>5. CASE PollFrame
    <2>1. \A k \in delivered : k \in UNION {DOMAIN requests : requests \in Scripts}
        BY FramesAreNumbered DEF InductiveInv, TypeOK
    <2> QED
        BY <1>5, <2>1, PollServes DEF Service!Next
<1>6. CASE UNCHANGED vars
    BY <1>6 DEF vars
<1> QED
    BY <1>1, <1>2, <1>3, <1>4, <1>5, <1>6 DEF Next, Tick, Poll

\* The slave implements RequestService: whatever bytes are lost or damaged, however
\* late it polls and wherever its clock wraps, it carries out a request only if all
\* of it arrived, never twice, and never after a later one.
THEOREM ServesInOrderOnce == Spec => RequestsInOrderOnce
<1>1. Init => Service!Init
    BY DEF Init, Service!Init
<1> QED
    BY <1>1, StepServes, Invariance, PTL DEF Spec, RequestsInOrderOnce, Service!Spec

----------------------------------------------------------------------------
(* Frames end in silence.                                                  *)

\* As long as the clock is not about to wrap, the silence on the line is no shorter
\* than the time since the buffer was last seen to grow.
SilenceInv ==
    rx # <<>> /\ ~nearWrap =>
        /\ clock < Wrap - T35
        /\ lastReceiveLen = Len(rx) =>
               /\ lastReceiveTime <= clock
               /\ silence = T35 \/ clock - lastReceiveTime <= silence

\* A byte more makes the buffer longer, whatever the byte is.
LEMMA LongerByOne ==
    ASSUME NEW S, NEW bytes \in Seq(S), NEW byte
    PROVE  Len(Append(bytes, byte)) = Len(bytes) + 1
<1>1. bytes \in Seq(S \cup {byte})
    OBVIOUS
<1> QED
    BY <1>1

\* Time and bytes keep the slave's clock in step with the silence on the line.
LEMMA TickKeepsSilence ==
    ASSUME InductiveInv, SilenceInv, Tick
    PROVE  SilenceInv'
<1> USE DEF InductiveInv
<1> SUFFICES ASSUME rx' # <<>>, ~nearWrap'
             PROVE  /\ clock' < Wrap - T35
                    /\ lastReceiveLen' = Len(rx') =>
                           /\ lastReceiveTime' <= clock'
                           /\ silence' = T35 \/ clock' - lastReceiveTime' <= silence'
    BY DEF SilenceInv
<1>1. /\ TimePasses /\ clock \in Nat /\ clock < Wrap /\ silence \in 0 .. T35
      /\ lastReceiveTime \in Nat /\ T35 \in Nat \ {0} /\ Wrap \in Nat \ {0}
      /\ clock' \in 0 .. Wrap - 1
    <2>1. TimePasses
        BY DEF Tick, NoByte, Byte
    <2>2. clock' \in 0 .. Wrap - 1
        BY <2>1, TimePassesTyped
    <2>3. /\ clock \in 0 .. Wrap - 1 /\ silence \in 0 .. T35
          /\ lastReceiveTime \in 0 .. Wrap - 1
        BY DEF TypeOK
    <2> QED
        BY Times, <2>1, <2>2, <2>3
<1>2. ~nearWrap /\ ~(clock' >= Wrap - T35)
    BY <1>1 DEF TimePasses
<1>3. clock' < Wrap - T35
    BY <1>1, <1>2
<1>4. ASSUME lastReceiveLen' = Len(rx')
      PROVE  /\ lastReceiveTime' <= clock'
             /\ silence' = T35 \/ clock' - lastReceiveTime' <= silence'
    <2>1. lastReceiveLen' = lastReceiveLen /\ lastReceiveTime' = lastReceiveTime
        BY <1>1 DEF TimePasses
    <2>2. rx' = rx
        <3>1. rx \in Seq(ByteRecord) /\ lastReceiveLen \in 0 .. Len(rx) /\ Len(rx) \in Nat
            BY DEF BytesInv, TypeOK
        <3>2. ASSUME NEW intact \in BOOLEAN, rx' = Append(rx, NextByte(intact))
              PROVE  FALSE
            <4>1. Len(rx') = Len(rx) + 1
                BY <3>1, <3>2, LongerByOne
            <4>2. lastReceiveLen = Len(rx) + 1
                BY <1>4, <2>1, <4>1, Zenon
            <4>3. ASSUME NEW n \in Nat, lastReceiveLen = n + 1, lastReceiveLen \in 0 .. n
                  PROVE  FALSE
                BY <4>3
            <4> QED
                BY <3>1, <4>2, <4>3
        <3> QED
            BY <3>2 DEF Tick, NoByte, Byte, ByteArrives, ByteLost
    <2>3. /\ clock < Wrap - T35 /\ lastReceiveTime <= clock
          /\ silence = T35 \/ clock - lastReceiveTime <= silence
        BY <1>2, <1>4, <2>1, <2>2 DEF SilenceInv
    <2>4. clock' = clock + 1
        <3>1. clock + 1 \in 0 .. Wrap - 1
            BY <1>1, <2>3
        <3>2. (clock + 1) % Wrap = clock + 1
            BY <1>1, <3>1
        <3> QED
            BY <1>1, <3>2 DEF TimePasses
    <2>5. silence' = Least(silence + 1, T35)
        <3>1. rx \in Seq(ByteRecord)
            BY DEF BytesInv
        <3>2. \A intact \in BOOLEAN : Append(rx, NextByte(intact)) # rx
            BY <3>1, LongerByOne
        <3> QED
            BY <2>2, <3>2 DEF Tick, NoByte, Byte, ByteArrives, ByteLost
    <2> QED
        BY <1>1, <2>1, <2>3, <2>4, <2>5 DEF Least
<1> QED
    BY <1>3, <1>4

\* So do the polls.
LEMMA PollKeepsSilence ==
    ASSUME InductiveInv, SilenceInv, Poll
    PROVE  SilenceInv'
<1> USE DEF InductiveInv, Polled, master, slave
<1>1. UNCHANGED <<clock, silence, nearWrap>>
    BY DEF Poll, PollEmpty, PollNewBytes, PollWait, PollFrame
<1>2. clock \in Nat /\ silence \in Nat
    BY Times DEF TypeOK
<1>3. CASE PollEmpty \/ PollWait
    BY <1>1, <1>3 DEF SilenceInv, PollEmpty, PollWait
<1>4. CASE PollNewBytes
    BY <1>1, <1>2, <1>4 DEF SilenceInv, PollNewBytes, NewBytes
<1>5. CASE PollFrame
    <2>1. lastReceiveLen' = 0 /\ rx # <<>>
        BY <1>5 DEF PollFrame
    <2>2. rx' # <<>> => Len(rx') # 0
        BY <1>5, ReadPart
    <2> QED
        BY <1>1, <2>1, <2>2 DEF SilenceInv
<1> QED
    BY <1>3, <1>4, <1>5 DEF Poll

\* So does every step.
LEMMA NextKeepsSilence == InductiveInv /\ SilenceInv /\ [Next]_vars => SilenceInv'
<1> SUFFICES ASSUME InductiveInv, SilenceInv, [Next]_vars PROVE SilenceInv'
    OBVIOUS
<1>1. CASE StartFrame
    BY <1>1 DEF StartFrame, SilenceInv, slave
<1>2. CASE UNCHANGED vars
    BY <1>2 DEF vars, slave, SilenceInv
<1> QED
    BY <1>1, <1>2, TickKeepsSilence, PollKeepsSilence DEF Next

\* Where the wrap is far, a frame is read only after T35 of silence.
LEMMA FrameReadInSilence ==
    ASSUME InductiveInv, SilenceInv, PollFrame, ~nearWrap
    PROVE  silence = T35
<1>1. /\ clock \in Nat /\ silence \in 0 .. T35 /\ lastReceiveTime \in Nat
      /\ T35 \in Nat \ {0} /\ Wrap \in Nat \ {0}
    BY Times DEF InductiveInv, TypeOK
<1>2. rx # <<>> /\ lastReceiveLen = Len(rx) /\ clock >= (lastReceiveTime + T35) % Wrap
    BY DEF PollFrame, NewBytes, SilentLong
<1>3. /\ clock < Wrap - T35 /\ lastReceiveTime <= clock
      /\ silence = T35 \/ clock - lastReceiveTime <= silence
    BY <1>2 DEF SilenceInv
<1>4. lastReceiveTime + T35 \in 0 .. Wrap - 1
    BY <1>1, <1>3
<1>5. (lastReceiveTime + T35) % Wrap = lastReceiveTime + T35
    BY <1>1, <1>4
<1> QED
    BY <1>1, <1>2, <1>3, <1>5

\* "wait for T35 microseconds": bytes are taken for a frame only after T35 without a
\* byte, unless micros() came near its wrap while they waited.
THEOREM EndsInSilence == Spec => FramesEndInSilence
<1>1. Init => SilenceInv
    BY DEF Init, SilenceInv
<1>2. InductiveInv /\ SilenceInv /\ [Next]_vars
          => [PollFrame => silence = T35 \/ nearWrap]_vars
    BY FrameReadInSilence
<1> QED
    BY <1>1, <1>2, NextKeepsSilence, Invariance, PTL DEF Spec, FramesEndInSilence

----------------------------------------------------------------------------
(* Answers in time.                                                        *)
(*                                                                         *)
(* Away from the wrap, and with nothing left over from a request longer    *)
(* than bufIn, the buffer holds bytes of the last frame only, and the      *)
(* slave reads them between its end and the next one's beginning, or       *)
(* earlier if three in a row are lost.                                     *)

OnTime == ~nearWrap /\ ~leftovers

\* Within a frame the line is idle for the bytes that were lost.
ShortGaps == Sending => silence + countdown <= ByteTime + missing * ByteTime

\* The slave has not yet waited T35, and saw the end of the frame at its first poll.
ReadSoon ==
    /\ lastReceiveLen = Len(rx) => clock - lastReceiveTime < T35 + sincePoll
    /\ ~Sending /\ Size(script[frame]) <= MaxIn =>
           \/ lastReceiveLen = Len(rx)
              /\ Pause - countdown <= clock - lastReceiveTime + MaxLag
           \/ lastReceiveLen # Len(rx) /\ Pause - countdown <= sincePoll

\* Nothing is missing of a frame that still may be carried out.
Complete ==
    frame > 0 /\ ~spoiled /\ served # frame /\ (Sending \/ Accepted(script[frame])) =>
        Len(rx) = position /\ AsSent(rx, frame, position)

OneFrame == Len(rx) <= position /\ \A i \in DOMAIN rx : rx[i].frame = frame

Exchange ==
    /\ Sending => countdown \in 1 .. ByteTime
    /\ frame \in delivered => ~spoiled
    /\ missing > 0 => spoiled
    /\ OnTime => /\ OneFrame /\ Complete
                 /\ rx # <<>> => ShortGaps /\ ReadSoon

InTime == InductiveInv /\ SilenceInv /\ Exchange

\* A byte more is the last one, and the others stay where they are.
LEMMA LastOfMore ==
    ASSUME NEW S, NEW bytes \in Seq(S), NEW byte \in S
    PROVE  /\ \A n \in 1 .. Len(bytes) : Append(bytes, byte)[n] = bytes[n]
           /\ Append(bytes, byte)[Len(bytes) + 1] = byte
OBVIOUS

\* The numbers the account is about.
LEMMA InTimeTyped ==
    ASSUME TypeOK
    PROVE  /\ clock \in Nat /\ lastReceiveTime \in Nat /\ silence \in Nat /\ silence <= T35
           /\ sincePoll \in Nat /\ sincePoll <= MaxLag
           /\ countdown \in Nat /\ position \in Nat /\ frame \in Nat /\ missing \in Nat
           /\ Pause \in Nat /\ T35 \in Nat /\ ByteTime \in Nat \ {0} /\ MaxLag \in Nat
           /\ Pause > T35 + 2 * MaxLag /\ T35 >= 3 * ByteTime
<1>1. /\ clock \in 0 .. Wrap - 1 /\ lastReceiveTime \in 0 .. Wrap - 1
      /\ silence \in 0 .. T35 /\ sincePoll \in 0 .. MaxLag
      /\ countdown \in 0 .. Largest(Pause, ByteTime) /\ missing \in 0 .. position
    BY DEF TypeOK
<1>2. Largest(Pause, ByteTime) \in Nat
    BY Times DEF Largest
<1> QED
    BY <1>1, <1>2, Times, Requests, TimeAssumption, PauseAssumption

\* When the pause is over the buffer has been read.
LEMMA ReadBeforeTheNext ==
    ASSUME InTime, OnTime, ~Sending, countdown = 0, Size(script[frame]) <= MaxIn
    PROVE  rx = <<>>
<1> SUFFICES ASSUME rx # <<>> PROVE FALSE
    OBVIOUS
<1>1. ReadSoon
    BY DEF InTime, Exchange
<1> QED
    BY <1>1, InTimeTyped DEF InTime, InductiveInv, ReadSoon

\* A frame begins on an empty buffer, if nothing delayed the reading of the last one.
LEMMA BeginsOnEmpty ==
    ASSUME InTime, StartFrame, ~nearWrap, ~leftovers'
    PROVE  rx = <<>>
<1> SUFFICES ASSUME rx # <<>> PROVE FALSE
    OBVIOUS
<1>1. ~leftovers /\ ~(Size(script[frame]) > MaxIn)
    BY DEF StartFrame
<1>2. Size(script[frame]) \in Nat
    <2>1. rx \in Seq(ByteRecord) /\ 1 \in DOMAIN rx /\ rx[1].frame \in 1 .. frame
        BY DEF InTime, InductiveInv, TypeOK, BytesInv
    <2>2. frame \in 1 .. Len(script)
        BY <2>1 DEF InTime, InductiveInv, TypeOK
    <2> QED
        BY <2>2, Requests DEF InTime, InductiveInv
<1> QED
    BY <1>1, <1>2, Times, ReadBeforeTheNext DEF StartFrame, OnTime

\* The buffer is empty when the next frame begins, or something delays it.
LEMMA StartFrameInTime ==
    ASSUME InTime, StartFrame
    PROVE  Exchange'
<1>1. /\ ~Sending /\ countdown = 0 /\ frame' = frame + 1 /\ position' = 0
      /\ countdown' = ByteTime /\ spoiled' = FALSE /\ missing' = 0
      /\ nearWrap' = (nearWrap /\ rx # <<>>)
      /\ UNCHANGED <<script, delivered, rx, served>>
    BY DEF StartFrame, slave
<1>2. OnTime' => rx' = <<>>
    BY <1>1, BeginsOnEmpty DEF OnTime
<1>3. countdown' \in 1 .. ByteTime
    BY <1>1, InTimeTyped DEF InTime, InductiveInv
<1>4. OnTime' => OneFrame' /\ Complete'
    <2> SUFFICES ASSUME OnTime' PROVE OneFrame' /\ Complete'
        OBVIOUS
    <2>1. rx' = <<>> /\ position' = 0
        BY <1>1, <1>2
    <2> QED
        BY <2>1 DEF OneFrame, Complete, AsSent
<1> QED
    BY <1>1, <1>2, <1>3, <1>4 DEF Exchange

\* What becomes of the clocks in a tick away from the wrap.
LEMMA ClocksTick ==
    ASSUME InTime, Tick, rx' # <<>>, OnTime'
    PROVE  /\ OnTime /\ sincePoll' = sincePoll + 1
           /\ UNCHANGED <<script, frame, served, lastReceiveLen, lastReceiveTime>>
           /\ rx # <<>> => clock' = clock + 1
<1>1. TimePasses
    BY DEF Tick, NoByte, Byte
<1>2. OnTime
    BY <1>1 DEF TimePasses, OnTime
<1>3. ASSUME rx # <<>>
      PROVE  clock' = clock + 1
    <2>1. clock < Wrap - T35 /\ clock \in Nat /\ Wrap \in Nat \ {0} /\ T35 \in Nat \ {0}
        BY <1>2, <1>3, InTimeTyped, Times DEF OnTime, InTime, InductiveInv, SilenceInv
    <2>2. (clock + 1) % Wrap = clock + 1
        BY <2>1
    <2> QED
        BY <1>1, <2>2 DEF TimePasses
<1> QED
    BY <1>1, <1>2, <1>3 DEF TimePasses

\* Time passes on an idle line, or within a byte.
LEMMA NoByteInTime ==
    ASSUME InTime, NoByte
    PROVE  Exchange'
<1>1. /\ UNCHANGED <<script, frame, position, delivered, spoiled, missing, rx, served,
                     lastReceiveLen>>
      /\ Sending => countdown > 1
      /\ countdown' = IF countdown = 0 THEN 0 ELSE countdown - 1
      /\ silence' = Least(silence + 1, T35)
      /\ OnTime' => OnTime
    BY DEF NoByte, TimePasses, OnTime
<1>2. Sending' <=> Sending
    BY <1>1 DEF Sending
<1>3. /\ countdown \in Nat /\ ByteTime \in Nat /\ silence \in Nat /\ T35 \in Nat
      /\ clock \in Nat /\ lastReceiveTime \in Nat /\ sincePoll \in Nat
      /\ Pause \in Nat /\ MaxLag \in Nat /\ missing \in Nat
    BY InTimeTyped DEF InTime, InductiveInv
<1>4. Sending' => countdown' \in 1 .. ByteTime
    BY <1>1, <1>2, <1>3 DEF InTime, Exchange
<1>5. OnTime' => OneFrame' /\ Complete'
    BY <1>1 DEF InTime, Exchange, OneFrame, Complete, AsSent, Sending
<1>6. ASSUME OnTime', rx' # <<>>
      PROVE  ShortGaps' /\ ReadSoon'
    <2>1. /\ ShortGaps /\ ReadSoon /\ rx # <<>>
        BY <1>1, <1>6 DEF InTime, Exchange
    <2>2. /\ sincePoll' = sincePoll + 1 /\ clock' = clock + 1
          /\ lastReceiveTime' = lastReceiveTime
        BY <1>6, <2>1, ClocksTick DEF Tick
    <2>3. ShortGaps'
        <3>1. missing' = missing /\ missing * ByteTime \in Nat
            BY <1>1, <1>3
        <3> QED
            BY <1>1, <1>2, <1>3, <2>1, <3>1 DEF ShortGaps, Least
    <2>4. ReadSoon'
        BY <1>1, <1>2, <1>3, <2>1, <2>2 DEF ReadSoon
    <2> QED
        BY <2>3, <2>4
<1> QED
    BY <1>1, <1>4, <1>5, <1>6 DEF InTime, Exchange

\* A byte arrives, damaged or not, or is lost.
LEMMA ByteInTime ==
    ASSUME InTime, Byte
    PROVE  Exchange'
<1>1. /\ frame \in Nat /\ frame > 0 /\ position \in Nat
      /\ Size(script[frame]) \in Nat /\ position + 1 <= Size(script[frame])
      /\ UNCHANGED <<script, frame, served, lastReceiveLen, lastReceiveTime>>
      /\ position' = position + 1 /\ Sending /\ countdown = 1
    BY Requests DEF InTime, InductiveInv, Byte, Sending, TypeOK, TimePasses
<1>2. Sending' <=> position + 1 < Size(script[frame])
    BY <1>1 DEF Sending
<1>3. /\ ByteTime \in Nat \ {0} /\ silence \in Nat /\ T35 \in Nat
      /\ clock \in Nat /\ lastReceiveTime \in Nat /\ sincePoll \in Nat
      /\ Pause \in Nat /\ MaxLag \in Nat /\ missing \in Nat
      /\ rx \in Seq(ByteRecord) /\ lastReceiveLen \in 0 .. Len(rx)
    BY InTimeTyped DEF InTime, InductiveInv, BytesInv, TypeOK
<1>4. countdown' = IF Sending' THEN ByteTime ELSE Pause
    BY <1>1, <1>2 DEF Byte
<1>5. frame' \in delivered' => ~spoiled'
    <2>1. frame \notin delivered
        BY <1>1 DEF InTime, InductiveInv, BytesInv, Delivery
    <2> QED
        BY <1>1, <2>1 DEF Byte
<1>6. \/ /\ rx' = rx /\ spoiled' = TRUE /\ missing' = missing + 1
         /\ silence' = Least(silence + 1, T35)
      \/ /\ \E intact \in BOOLEAN :
                rx' = Append(rx, NextByte(intact)) /\ (~intact => spoiled')
         /\ spoiled => spoiled'
         /\ Len(rx') = Len(rx) + 1
         /\ missing' = 0 /\ silence' = 0
    <2>1. CASE ByteLost
        BY <2>1 DEF ByteLost, Fault
    <2>2. CASE ByteArrives
        <3>1. /\ \E intact \in BOOLEAN :
                     rx' = Append(rx, NextByte(intact)) /\ (~intact => spoiled')
              /\ spoiled => spoiled'
              /\ missing' = 0 /\ silence' = 0
            <4>1. missing' = 0 /\ silence' = 0
                BY <2>2 DEF ByteArrives
            <4>2. CASE rx' = Append(rx, NextByte(TRUE)) /\ spoiled' = spoiled
                BY <4>1, <4>2, Zenon
            <4>3. CASE rx' = Append(rx, NextByte(FALSE)) /\ spoiled' = TRUE
                BY <4>1, <4>3, Zenon
            <4> QED
                BY <2>2, <4>2, <4>3 DEF ByteArrives, Fault
        <3>2. Len(rx') = Len(rx) + 1
            BY <1>3, <3>1, LongerByOne
        <3> QED
            BY <3>1, <3>2
    <2> QED
        BY <2>1, <2>2 DEF Byte
<1>7. OnTime' => OnTime
    BY DEF Byte, TimePasses, OnTime
<1>8. OnTime' => OneFrame'
    <2> SUFFICES ASSUME OnTime' PROVE OneFrame'
        OBVIOUS
    <2>1. OneFrame
        BY <1>7 DEF InTime, Exchange
    <2>2. CASE rx' = rx
        BY <1>1, <1>3, <2>1, <2>2 DEF OneFrame
    <2>3. ASSUME NEW intact \in BOOLEAN, rx' = Append(rx, NextByte(intact)),
                 Len(rx') = Len(rx) + 1
          PROVE  OneFrame'
        <3>1. NextByte(intact) \in ByteRecord /\ NextByte(intact).frame = frame
            BY <1>1 DEF NextByte, ByteRecord
        <3>2. \A i \in DOMAIN rx' : rx'[i].frame = frame
            BY <1>3, <2>1, <2>3, <3>1 DEF OneFrame
        <3> QED
            BY <1>1, <1>3, <2>1, <2>3, <3>2 DEF OneFrame
    <2> QED
        BY <1>6, <2>2, <2>3
<1>9. OnTime' => Complete'
    <2> SUFFICES ASSUME OnTime', ~spoiled', served # frame
                 PROVE  Len(rx') = position' /\ AsSent(rx, frame, position)'
        BY <1>1 DEF Complete
    <2>1. rx' = Append(rx, NextByte(TRUE)) /\ Len(rx') = Len(rx) + 1 /\ ~spoiled
        BY <1>6
    <2>2. Len(rx) = position /\ AsSent(rx, frame, position)
        BY <1>1, <1>7, <2>1 DEF InTime, Exchange, Complete
    <2>3. NextByte(TRUE) \in ByteRecord
        BY <1>1 DEF NextByte, ByteRecord
    <2>4. /\ \A n \in 1 .. Len(rx) : rx'[n] = rx[n]
          /\ rx'[Len(rx) + 1] = NextByte(TRUE)
        BY <1>3, <2>1, <2>3, LastOfMore
    <2>5. ASSUME NEW n \in 1 .. position + 1
          PROVE  rx'[n] = [frame |-> frame, position |-> n, intact |-> TRUE]
        <3>1. CASE n = position + 1
            <4>1. n = Len(rx) + 1
                BY <2>2, <3>1, Zenon
            <4>2. rx'[n] = NextByte(TRUE)
                BY <2>4, <4>1, Zenon
            <4> QED
                BY <3>1, <4>2, Zenon DEF NextByte
        <3>2. CASE n # position + 1
            <4>1. n \in 1 .. position /\ n \in 1 .. Len(rx)
                BY <1>1, <2>2, <3>2
            <4> QED
                BY <2>2, <2>4, <4>1, Zenon DEF AsSent
        <3> QED
            BY <3>1, <3>2
    <2>6. Len(rx') = position'
        BY <1>1, <2>1, <2>2
    <2>7. position' \in Nat /\ frame' = frame /\ position' = position + 1
        BY <1>1
    <2> QED
        BY <2>5, <2>6, <2>7 DEF AsSent
<1>10. ASSUME OnTime', rx' # <<>>
       PROVE  ShortGaps' /\ ReadSoon'
    <2>1. CASE rx' = rx /\ missing' = missing + 1 /\ silence' = Least(silence + 1, T35)
        <3>1. ShortGaps /\ ReadSoon /\ rx # <<>>
            BY <1>7, <1>10, <2>1 DEF InTime, Exchange
        <3>2. sincePoll' = sincePoll + 1 /\ clock' = clock + 1
            BY <1>10, <3>1, ClocksTick DEF Tick
        <3>3. ShortGaps'
            <4>1. silence' <= silence + 1 /\ silence' \in Nat
                BY <1>3, <2>1 DEF Least
            <4>2. missing' * ByteTime = missing * ByteTime + ByteTime
                BY <1>3, <2>1
            <4>3. missing * ByteTime \in Nat
                BY <1>3
            <4>4. silence + 1 <= ByteTime + missing * ByteTime
                BY <1>1, <3>1 DEF ShortGaps
            <4>5. Sending' => countdown' = ByteTime
                BY <1>4
            <4> QED
                BY <1>3, <4>1, <4>2, <4>3, <4>4, <4>5 DEF ShortGaps
        <3>4. lastReceiveLen' = Len(rx') => lastReceiveTime <= clock
            BY <1>1, <1>7, <1>10, <2>1, <3>1 DEF InTime, SilenceInv, OnTime
        <3>5. ReadSoon'
            BY <1>1, <1>3, <1>4, <2>1, <3>1, <3>2, <3>4 DEF ReadSoon
        <3> QED
            BY <3>3, <3>5
    <2>2. CASE Len(rx') = Len(rx) + 1 /\ missing' = 0 /\ silence' = 0
        <3>1. lastReceiveLen' # Len(rx') /\ sincePoll' = sincePoll + 1
            BY <1>1, <1>3, <1>10, <2>2, ClocksTick DEF Tick
        <3>2. ShortGaps'
            BY <1>3, <1>4, <2>2 DEF ShortGaps
        <3>3. ReadSoon'
            BY <1>3, <1>4, <3>1 DEF ReadSoon
        <3> QED
            BY <3>2, <3>3
    <2> QED
        BY <1>6, <2>1, <2>2
<1>11. Sending' => countdown' \in 1 .. ByteTime
    BY <1>3, <1>4
<1>12. missing' > 0 => spoiled'
    <2>1. spoiled' = TRUE \/ missing' = 0
        BY <1>6
    <2> QED
        BY <2>1
<1> QED
    BY <1>5, <1>8, <1>9, <1>10, <1>11, <1>12 DEF Exchange

\* A poll that only looks at the buffer.
LEMMA QuietPollInTime ==
    ASSUME InTime, PollEmpty \/ PollNewBytes \/ PollWait
    PROVE  Exchange'
<1> USE DEF Polled, master, slave
<1>1. /\ UNCHANGED <<script, frame, position, countdown, delivered, spoiled, missing, rx,
                     served, clock, silence, nearWrap, leftovers>>
      /\ sincePoll' = 0
    BY DEF PollEmpty, PollNewBytes, PollWait
<1>2. (Sending' <=> Sending) /\ (OnTime' <=> OnTime)
    BY <1>1 DEF Sending, OnTime
<1>3. OnTime' => OneFrame' /\ Complete'
    BY <1>1, <1>2 DEF InTime, Exchange, OneFrame, Complete, AsSent, Sending
<1>4. ASSUME OnTime', rx' # <<>>
      PROVE  ShortGaps' /\ ReadSoon'
    <2>1. ShortGaps /\ ReadSoon /\ rx # <<>> /\ ~nearWrap
        BY <1>1, <1>2, <1>4 DEF InTime, Exchange, OnTime
    <2>2. ShortGaps'
        BY <1>1, <1>2, <2>1 DEF ShortGaps
    <2>3. /\ clock \in Nat /\ lastReceiveTime \in Nat /\ sincePoll \in Nat
          /\ sincePoll <= MaxLag /\ MaxLag \in Nat /\ Pause \in Nat /\ countdown \in Nat
          /\ T35 \in Nat \ {0} /\ Wrap \in Nat \ {0}
        BY InTimeTyped, Times DEF InTime, InductiveInv
    <2>4. CASE PollNewBytes
        <3>1. /\ lastReceiveLen # Len(rx) /\ lastReceiveLen' = Len(rx')
              /\ lastReceiveTime' = clock'
            BY <1>1, <2>4 DEF PollNewBytes, NewBytes
        <3>2. ~Sending /\ Size(script[frame]) <= MaxIn => Pause - countdown <= sincePoll
            BY <2>1, <3>1 DEF ReadSoon
        <3>3. clock' - lastReceiveTime' = 0
            BY <1>1, <2>3, <3>1
        <3> QED
            BY <1>1, <1>2, <2>2, <2>3, <3>1, <3>2, <3>3 DEF ReadSoon
    <2>5. CASE PollWait
        <3>1. /\ lastReceiveLen = Len(rx) /\ ~(clock >= (lastReceiveTime + T35) % Wrap)
              /\ UNCHANGED <<lastReceiveLen, lastReceiveTime>>
            BY <2>5 DEF PollWait, NewBytes, SilentLong
        <3>2. clock < Wrap - T35 /\ lastReceiveTime <= clock
            BY <2>1, <3>1 DEF InTime, SilenceInv
        <3>3. (lastReceiveTime + T35) % Wrap = lastReceiveTime + T35
            BY <2>3, <3>2
        <3>4. clock - lastReceiveTime < T35
            BY <2>3, <3>1, <3>3
        <3>5. ReadSoon'
            BY <1>1, <1>2, <2>1, <2>3, <3>1, <3>4 DEF ReadSoon
        <3> QED
            BY <2>2, <3>5
    <2> QED
        BY <2>1, <2>4, <2>5 DEF PollEmpty
<1> QED
    BY <1>1, <1>2, <1>3, <1>4 DEF InTime, Exchange

\* A buffer that begins with a frame begins with its first byte.
LEMMA FirstSent ==
    ASSUME NEW bytes, NEW k, NEW n \in Nat, 1 <= n, AsSent(bytes, k, n)
    PROVE  bytes[1] = [frame |-> k, position |-> 1, intact |-> TRUE]
<1>1. 1 \in 1 .. n
    OBVIOUS
<1> QED
    BY <1>1, Zenon DEF AsSent

\* What begins with n bytes of a frame begins with fewer of them.
LEMMA SentShorter ==
    ASSUME NEW bytes, Len(bytes) \in Nat, NEW k, NEW n \in Nat, NEW m \in Nat, m <= n,
           AsSent(bytes, k, n)
    PROVE  AsSent(bytes, k, m)
BY DEF AsSent

\* A frame is read when it has ended, or three bytes of it were lost in a row, and as a
\* whole if it fits in bufIn.
LEMMA FrameReadOnTime ==
    ASSUME InTime, PollFrame, OnTime
    PROVE  /\ ~Sending \/ missing >= 3
           /\ OneFrame /\ 1 \in DOMAIN rx
           /\ Size(script[frame]) <= MaxIn => Len(rx) <= MaxIn /\ rx' = <<>>
<1> USE DEF InductiveInv
<1>1. rx # <<>> /\ rx \in Seq(ByteRecord) /\ silence = T35 /\ ShortGaps /\ OneFrame
    BY FrameReadInSilence DEF InTime, PollFrame, Exchange, BytesInv, OnTime
<1>2. ASSUME Sending
      PROVE  missing >= 3
    <2>1. /\ countdown \in 1 .. ByteTime
          /\ T35 + countdown <= ByteTime + missing * ByteTime
        BY <1>1, <1>2, InTimeTyped DEF InTime, Exchange, ShortGaps
    <2>2. missing \in Nat /\ ByteTime \in Nat /\ T35 \in Nat /\ T35 >= 3 * ByteTime
        BY InTimeTyped DEF InTime
    <2>3. missing # 0 /\ missing # 1 /\ missing # 2
        BY <2>1, <2>2
    <2> QED
        BY <2>2, <2>3
<1>3. 1 \in DOMAIN rx
    BY <1>1
<1>4. ASSUME Size(script[frame]) <= MaxIn
      PROVE  Len(rx) <= MaxIn /\ rx' = <<>>
    <2>1. frame \in 1 .. Len(script)
        BY <1>3, Requests DEF InTime, TypeOK
    <2>2. /\ position <= Size(script[frame]) /\ Size(script[frame]) \in Nat
          /\ position \in Nat /\ MaxIn \in Nat /\ Len(rx) \in Nat /\ Len(rx) <= position
        BY <1>1, <2>1, Requests, Times DEF InTime, OneFrame
    <2>3. Len(rx) <= MaxIn
        BY <1>4, <2>2
    <2>4. LengthIn = Len(rx)
        BY <2>3 DEF LengthIn, Least
    <2>5. SubSeq(rx, 1, Len(rx)) = rx
        BY <1>1
    <2>6. rx' = SubSeq(rx, Len(rx) + 1, Len(rx))
        BY <2>4, <2>5, Zenon DEF PollFrame
    <2> QED
        BY <1>1, <2>2, <2>3, <2>6
<1> QED
    BY <1>1, <1>2, <1>3, <1>4

\* A complete request that is accepted is carried out when it is read.
LEMMA CompleteIsServed ==
    ASSUME InTime, PollFrame, frame > 0, ~Sending, Len(rx) = position, Len(rx) <= MaxIn,
           AsSent(rx, frame, position), Accepted(script[frame])
    PROVE  served' = frame
<1> USE DEF InductiveInv
<1>1. /\ frame \in 1 .. Len(script) /\ Size(script[frame]) \in Nat
      /\ Size(script[frame]) >= 8 /\ position <= Size(script[frame])
      /\ position \in Nat /\ frame \in Nat /\ MaxIn \in Nat
    BY Requests, Times DEF InTime, TypeOK
<1>2. position = Size(script[frame])
    BY <1>1 DEF Sending
<1>3. rx \in Seq(ByteRecord) /\ rx[1] = [frame |-> frame, position |-> 1, intact |-> TRUE]
    BY <1>1, <1>2, FirstSent DEF InTime, BytesInv
<1>4. \A k : AsSent(rx, k, 6) => k = frame
    <2> TAKE k
    <2> SUFFICES ASSUME AsSent(rx, k, 6) PROVE k = frame
        OBVIOUS
    <2>1. rx[1] = [frame |-> k, position |-> 1, intact |-> TRUE]
        BY FirstSent
    <2> DEFINE first(n) == [frame |-> n, position |-> 1, intact |-> TRUE]
    <2>2. first(k) = first(frame)
        BY <1>3, <2>1, Zenon
    <2>3. first(k).frame = k /\ first(frame).frame = frame
        OBVIOUS
    <2> QED
        BY <2>2, <2>3, Zenon
<1>5. AsSent(rx, frame, 6) /\ frame \in 1 .. frame
    BY <1>1, <1>2, <1>3, SentShorter
<1>6. Headers(rx) = {script[frame]}
    BY <1>4, <1>5, Zenon DEF Headers
<1>7. CrcRightFor(rx, script[frame]) = {frame}
    <2>1. \A k \in 1 .. frame : AsSent(rx, k, Size(script[frame])) => AsSent(rx, k, 6)
        BY <1>1, <1>3, SentShorter
    <2>2. AsSent(rx, frame, Size(script[frame]))
        BY <1>2
    <2> QED
        BY <1>4, <1>5, <2>1, <2>2, Zenon DEF CrcRightFor
<1>8. Outcome(rx, script[frame]) = Answer(frame, Callback(script[frame]))
    <2> DEFINE header == script[frame]
    <2>1. /\ header.own /\ ~(Len(rx) < 8) /\ header.function # "Unknown"
          /\ ~TooLong(header) /\ ~(Len(rx) < Size(header))
        BY <1>1, <1>2 DEF Accepted
    <2>2. CrcRightFor(rx, header) # {} /\ (CHOOSE k \in CrcRightFor(rx, header) : TRUE) = frame
        BY <1>7
    <2> QED
        BY <2>1, <2>2 DEF Outcome
<1>9. SubSeq(rx, 1, LengthIn) = rx
    BY <1>1, <1>3 DEF LengthIn, Least
<1>10. /\ answer' = Answer(frame, Callback(script[frame]))
       /\ served' = IF answer' # NoAnswer /\ answer'[1].frame # 0
                    THEN answer'[1].frame ELSE served
    BY <1>6, <1>8, <1>9, Zenon DEF PollFrame
<1> QED
    BY <1>1, <1>10 DEF Answer, NoAnswer

\* A poll that reads the buffer carries out what was complete, and leaves nothing behind
\* of what fits in bufIn.
LEMMA PollFrameInTime ==
    ASSUME InTime, PollFrame
    PROVE  Exchange'
<1> USE DEF InductiveInv
<1>1. /\ UNCHANGED <<script, frame, position, countdown, delivered, spoiled, missing, clock,
                     silence, nearWrap, leftovers>>
      /\ lastReceiveLen' = 0 /\ sincePoll' = 0
    BY DEF PollFrame, Polled, master
<1>2. (Sending' <=> Sending) /\ (OnTime' <=> OnTime)
    BY <1>1 DEF Sending, OnTime
<1>3. PICK n \in 0 .. Len(rx) :
          /\ rx' \in Seq(ByteRecord) /\ Len(rx') = Len(rx) - n
          /\ \A i \in DOMAIN rx' : i + n \in DOMAIN rx /\ rx'[i] = rx[i + n]
          /\ served' = served \/ \E k \in delivered : served' = k /\ k > served
    BY ReadPart DEF InTime
<1>4. OnTime' => OneFrame'
    <2> SUFFICES ASSUME OnTime' PROVE OneFrame'
        OBVIOUS
    <2>1. OneFrame /\ position \in Nat /\ Len(rx) \in Nat
        BY <1>2, InTimeTyped DEF InTime, Exchange, BytesInv
    <2>2. Len(rx') <= position
        BY <1>3, <2>1 DEF OneFrame
    <2>3. \A i \in DOMAIN rx' : rx'[i].frame = frame
        BY <1>3, <2>1 DEF OneFrame
    <2> QED
        BY <1>1, <2>2, <2>3 DEF OneFrame
<1>5. OnTime' => Complete'
    <2> SUFFICES ASSUME OnTime', frame > 0, ~spoiled, served' # frame,
                        Sending \/ Accepted(script[frame])
                 PROVE  FALSE
        BY <1>1, <1>2 DEF Complete
    <2>1. ~Sending /\ Accepted(script[frame])
        <3>1. ~Sending \/ missing >= 3
            BY <1>2, FrameReadOnTime
        <3>2. missing \in Nat /\ ~(missing > 0)
            BY InTimeTyped DEF InTime, Exchange
        <3> QED
            BY <3>1, <3>2
    <2>2. served # frame
        <3>1. frame \in Nat /\ served \in 0 .. frame /\ delivered \subseteq 1 .. frame
            BY InTimeTyped DEF InTime, TypeOK
        <3> QED
            BY <1>3, <3>1
    <2>3. Len(rx) = position /\ AsSent(rx, frame, position)
        BY <1>2, <2>1, <2>2 DEF InTime, Exchange, Complete
    <2>4. Len(rx) <= MaxIn
        BY <1>2, <2>1, FrameReadOnTime DEF Accepted
    <2> QED
        BY <2>1, <2>3, <2>4, CompleteIsServed
<1>6. ASSUME OnTime', rx' # <<>>
      PROVE  ShortGaps' /\ ReadSoon'
    <2>1. ShortGaps /\ rx # <<>> /\ ~(Size(script[frame]) <= MaxIn)
        BY <1>2, <1>6, FrameReadOnTime DEF InTime, Exchange, PollFrame
    <2>2. lastReceiveLen' # Len(rx')
        BY <1>1, <1>3, <1>6
    <2> QED
        BY <1>1, <1>2, <2>1, <2>2 DEF ShortGaps, ReadSoon
<1> QED
    BY <1>1, <1>2, <1>4, <1>5, <1>6 DEF InTime, Exchange

\* Every step keeps the account.
LEMMA NextKeepsTime ==
    ASSUME InTime, [Next]_vars
    PROVE  Exchange'
<1>1. CASE UNCHANGED vars
    BY <1>1 DEF vars, master, slave, InTime, Exchange, OnTime, OneFrame, Complete, ShortGaps,
                ReadSoon, AsSent, Sending
<1> QED
    BY <1>1, StartFrameInTime, NoByteInTime, ByteInTime, QuietPollInTime, PollFrameInTime
       DEF Next, Tick, Poll

\* The account holds in every reachable state.
LEMMA AlwaysInTime == Spec => []InTime
<1>1. Init => SilenceInv /\ Exchange
    BY InTimeTyped
       DEF Init, SilenceInv, Exchange, OneFrame, Complete, Sending
<1>2. InTime /\ [Next]_vars => Exchange'
    BY NextKeepsTime
<1>3. InductiveInv /\ SilenceInv /\ Exchange <=> InTime
    BY DEF InTime
<1> QED
    BY <1>1, <1>2, <1>3, NextKeepsSilence, InitEstablishesInv, NextPreservesInv, PTL DEF Spec

\* A CRC is right for the frame that the first byte belongs to.
LEMMA CrcOfFirst ==
    ASSUME InTime, NEW bytes, NEW header, NEW k \in CrcRightFor(bytes, header)
    PROVE  /\ bytes[1] = [frame |-> k, position |-> 1, intact |-> TRUE]
           /\ \E n \in Nat : n >= 1 /\ n <= Len(bytes)
<1>1. k \in 1 .. frame /\ script[k] = header /\ AsSent(bytes, k, Size(header))
    BY DEF CrcRightFor
<1>2. k \in 1 .. Len(script)
    BY <1>1, Requests DEF InTime, InductiveInv, TypeOK
<1>3. Size(header) \in Nat /\ 1 <= Size(header)
    BY <1>1, <1>2, Requests DEF InTime, InductiveInv
<1>4. Size(header) <= Len(bytes)
    BY <1>1 DEF AsSent
<1> QED
    BY <1>1, <1>3, <1>4, FirstSent

\* The slave never answers an earlier request than the master waits for, and talks into
\* a request only after three of its bytes were lost in a row.
THEOREM AnswersTheMaster == Spec => []AnswersTheLastRequest
<1>1. Init => AnswersTheLastRequest
    BY DEF Init, AnswersTheLastRequest
<1>2. ASSUME InTime, AnswersTheLastRequest, [Next]_vars
      PROVE  AnswersTheLastRequest'
    <2>1. CASE PollFrame
        <3> SUFFICES ASSUME answer' # NoAnswer, ~nearWrap', ~leftovers'
                     PROVE  /\ answer'[1].frame \in {0, frame'}
                            /\ ~Sending' \/ missing' >= 3
            BY DEF AnswersTheLastRequest
        <3>1. OnTime /\ frame' = frame /\ missing' = missing /\ Sending' = Sending
            BY <2>1 DEF PollFrame, Polled, master, Sending, OnTime
        <3>2. /\ ~Sending \/ missing >= 3
              /\ 1 \in DOMAIN rx /\ rx[1].frame = frame
            BY <1>2, <2>1, <3>1, FrameReadOnTime DEF OneFrame
        <3> DEFINE bytes == SubSeq(rx, 1, LengthIn)
        <3>3. PICK header \in Headers(bytes) : answer' = Outcome(bytes, header)
            BY <2>1, Zenon DEF PollFrame
        <3>4. answer'[1].frame = 0 \/ answer'[1].frame \in CrcRightFor(bytes, header)
            BY <3>3, OutcomeFrames
        <3>5. ASSUME NEW k \in CrcRightFor(bytes, header)
              PROVE  k = frame
            <4>1. /\ bytes[1] = [frame |-> k, position |-> 1, intact |-> TRUE]
                  /\ \E n \in Nat : n >= 1 /\ n <= Len(bytes)
                BY <1>2, <3>5, CrcOfFirst
            <4>2. bytes[1] = rx[1]
                <5>1. rx \in Seq(ByteRecord) /\ LengthIn \in 0 .. Len(rx) /\ Len(rx) \in Nat
                    BY <1>2, Times DEF InTime, InductiveInv, BytesInv, LengthIn, Least
                <5>2. Len(bytes) = LengthIn
                    BY <5>1
                <5>3. LengthIn >= 1
                    BY <4>1, <5>1, <5>2
                <5> QED
                    BY <5>1, <5>3
            <4>3. rx[1] = [frame |-> k, position |-> 1, intact |-> TRUE]
                BY <4>1, <4>2, Zenon
            <4>4. [frame |-> k, position |-> 1, intact |-> TRUE].frame = k
                OBVIOUS
            <4> QED
                BY <3>2, <4>3, <4>4, Zenon
        <3> QED
            BY <3>1, <3>2, <3>4, <3>5
    <2>2. CASE UNCHANGED vars
        BY <1>2, <2>2 DEF vars, master, AnswersTheLastRequest, Sending
    <2>3. CASE StartFrame \/ Tick \/ PollEmpty \/ PollNewBytes \/ PollWait
        <3>1. answer' = NoAnswer
            BY <2>3 DEF StartFrame, Tick, NoByte, Byte, TimePasses, PollEmpty, PollNewBytes,
                        PollWait, NoAnswer
        <3> QED
            BY <3>1 DEF AnswersTheLastRequest, NoAnswer
    <2> QED
        BY <1>2, <2>1, <2>2, <2>3 DEF Next, Poll
<1> QED
    BY <1>1, <1>2, AlwaysInTime, PTL DEF Spec

\* Bytes of one request never wait for those of the next, unless the wrap or a request
\* longer than bufIn delayed them: the pause is enough to read what fits.
THEOREM KeptApart == Spec => FramesKeptApart
<1>1. InTime /\ [Next]_vars => [StartFrame /\ rx # <<>> => nearWrap \/ leftovers']_vars
    BY BeginsOnEmpty
<1> QED
    BY <1>1, AlwaysInTime, PTL DEF Spec, FramesKeptApart

\* The pause is enough: a request that arrived intact and that the slave accepts was
\* carried out before the next one begins, whatever happened to those before it.
THEOREM ServedBeforeTheNext == Spec => RequestsServedInTime
<1>1. InTime /\ [Next]_vars =>
          [frame' # frame /\ frame \in delivered /\ Accepted(script[frame])
           /\ ~nearWrap /\ ~leftovers => served = frame]_vars
    <2> SUFFICES ASSUME InTime, [Next]_vars, frame' # frame, frame \in delivered,
                        Accepted(script[frame]), OnTime, served # frame
                 PROVE  FALSE
        BY DEF OnTime
    <2>1. StartFrame
        BY DEF Next, Tick, NoByte, Byte, TimePasses, Poll, PollEmpty, PollNewBytes, PollWait,
               PollFrame, Polled, master, vars
    <2>2. rx = <<>>
        BY <2>1, ReadBeforeTheNext DEF StartFrame, Accepted
    <2>3. frame > 0 /\ frame \in 1 .. Len(script) /\ ~spoiled
        BY Requests DEF InTime, InductiveInv, TypeOK, Exchange
    <2>4. Len(rx) = position
        BY <2>3 DEF InTime, Exchange, Complete
    <2>5. position \in Nat /\ position >= 8
        <3>1. /\ position \in Nat /\ Size(script[frame]) \in Nat
              /\ Size(script[frame]) >= 8
            BY <2>3, Requests DEF InTime, InductiveInv
        <3>2. ~(position < Size(script[frame]))
            BY <2>1, <2>3 DEF StartFrame, Sending
        <3> QED
            BY <3>1, <3>2
    <2> QED
        BY <2>2, <2>4, <2>5
<1> QED
    BY <1>1, AlwaysInTime, PTL DEF Spec, RequestsServedInTime

============================================================================
